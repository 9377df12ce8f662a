------------------------------- MODULE SignIn -------------------------------
(***************************************************************************)
(* Operators, their sessions and the login guard: logging in, changing a   *)
(* password, deleting a user, logging out, expiry, and the lockout of an   *)
(* address that keeps failing.                                             *)
(*                                                                         *)
(* A handler is a request slot that issues one store or guard call a step, *)
(* so a password change, a deletion or another guess can come between any  *)
(* two.  Nobody's password is spelled out: a check succeeds or fails, and  *)
(* a password is known by how often it was changed.  The guard is in       *)
(* memory and starts empty after a crash.                                  *)
(***************************************************************************)
EXTENDS Integers, FiniteSets

CONSTANTS Users,       \* user ids (uuids)
          Sessions,    \* rows of the sessions table, each holding one token at a time
          Requests,    \* request slots
          Ips,         \* client addresses
          None,        \* no user, no address
          MaxFails,    \* failures before an address is locked
          Lockout,     \* ticks it is locked for
          GuardAge,    \* ticks after which the guard forgets an idle address
          SessionTTL,  \* ticks a session is valid
          MaxChanges   \* bound: password changes of one user

ASSUME ConstantsAssumption ==
  /\ IsFiniteSet(Requests)
  /\ None \notin Users \cup Ips
  /\ MaxFails \in Nat \ {0} /\ Lockout \in Nat \ {0} /\ GuardAge \in Nat
  /\ SessionTTL \in Nat \ {0} /\ MaxChanges \in Nat

VARIABLES
  user,                            \* users: not created yet, here, or deleted
  sessionUser, sessionAge,         \* sessions: whose the row's token is, if it holds one
  failures, locked, idle,          \* the guard: failures, ticks of lock left, ticks
                                   \*   since the last failure; absent with no failures
  pc, who, ip                      \* each request's step, its user and its address

\* History, read by no action but as the bound on changes.
VARIABLES
  version,    \* how often the user's password was changed
  changing,   \* the version a request's change has set
  openedAt,   \* the version there was when it was opened
  reported,   \* the last version the account page has reported as set
  guesses     \* failed checks of an address since it last had none to answer for

tableVars   == <<user, sessionUser, sessionAge>>
guardVars   == <<failures, locked, idle>>
requestVars == <<pc, who, ip>>
histVars    == <<version, changing, openedAt, reported, guesses>>
vars == <<tableVars, guardVars, requestVars, histVars>>

Here(u)     == user[u] = "here"
Live(k)     == sessionUser[k] # None
Of(u)       == {k \in Sessions : Live(k) /\ sessionUser[k] = u}
Capped(n, cap) == IF n < cap THEN n ELSE cap
Goto(r, step)  == pc' = [pc EXCEPT ![r] = step]

Done(r) ==
  /\ Goto(r, "idle")
  /\ who' = [who EXCEPT ![r] = None] /\ ip' = [ip EXCEPT ![r] = None]
  /\ changing' = [changing EXCEPT ![r] = 0]
-----------------------------------------------------------------------------
\* A database with at least one user: the first start seeds one.
Init ==
  /\ \E S \in (SUBSET Users) \ {{}} : user = [u \in Users |-> IF u \in S THEN "here" ELSE "none"]
  /\ sessionUser = [k \in Sessions |-> None] /\ sessionAge = [k \in Sessions |-> 0]
  /\ failures = [a \in Ips |-> 0] /\ locked = [a \in Ips |-> 0] /\ idle = [a \in Ips |-> 0]
  /\ pc = [r \in Requests |-> "idle"]
  /\ who = [r \in Requests |-> None] /\ ip = [r \in Requests |-> None]
  /\ version = [u \in Users |-> 0]
  /\ changing = [r \in Requests |-> 0]
  /\ openedAt = [k \in Sessions |-> 0]
  /\ reported = [u \in Users |-> 0]
  /\ guesses = [a \in Ips |-> 0]
-----------------------------------------------------------------------------
(* The guard *)

IsLocked(a) == locked[a] > 0

\* Mutant: one failure too many before the lock.
TooMany_OffByOne(a) == failures[a] + 1 > MaxFails

\* The failure about to be recorded reaches the limit.
TooMany(a) == failures[a] + 1 >= MaxFails

\* lockedUntil, from now.
Relock(a) == Lockout

\* The address is forgotten, with whatever it had failed.
Forget(A) ==
  /\ failures' = [a \in Ips |-> IF a \in A THEN 0 ELSE failures[a]]
  /\ locked' = [a \in Ips |-> IF a \in A THEN 0 ELSE locked[a]]
  /\ idle' = [a \in Ips |-> IF a \in A THEN 0 ELSE idle[a]]
  /\ guesses' = [a \in Ips |-> IF a \in A THEN 0 ELSE guesses[a]]

\* LoginGuard.cleanup.
GuardCleanup ==
  /\ Forget({a \in Ips : idle[a] > GuardAge /\ locked[a] = 0})
  /\ UNCHANGED <<tableVars, requestVars, version, changing, openedAt, reported>>
-----------------------------------------------------------------------------
(* LoginSubmit *)

\* Past IsLocked; otherwise it is answered with 429.
LoginStart(r, u, a) ==
  /\ pc[r] = "idle" /\ ~IsLocked(a)
  /\ Goto(r, "login")
  /\ who' = [who EXCEPT ![r] = u] /\ ip' = [ip EXCEPT ![r] = a]
  /\ UNCHANGED <<tableVars, guardVars, histVars>>

\* CheckPassword, with the password there is.
LoginRight(r) ==
  /\ pc[r] = "login" /\ Here(who[r])
  /\ Goto(r, "right")
  /\ UNCHANGED <<tableVars, guardVars, who, ip, version, changing, openedAt, reported, guesses>>

\* A wrong password, an unknown user, or an error of the database.
LoginWrong(r) ==
  /\ pc[r] = "login"
  /\ Goto(r, "wrong")
  /\ guesses' = [guesses EXCEPT ![ip[r]] = @ + 1]
  /\ UNCHANGED <<tableVars, guardVars, who, ip, version, changing, openedAt, reported>>

\* A failure does not start a count anew after a lock that has run out: the
\* next one locks again.
RecordFailure(r) ==
  LET a == ip[r] IN
  /\ pc[r] = "wrong"
  /\ failures' = [failures EXCEPT ![a] = Capped(@ + 1, MaxFails)]
  /\ idle' = [idle EXCEPT ![a] = 0]
  /\ locked' = [locked EXCEPT ![a] = IF TooMany(a) THEN Relock(a) ELSE @]
  /\ Done(r)
  /\ UNCHANGED <<tableVars, version, openedAt, reported, guesses>>

RecordSuccess(r) ==
  /\ pc[r] = "right"
  /\ Forget({ip[r]})
  /\ Goto(r, "open")
  /\ ip' = [ip EXCEPT ![r] = None]
  /\ UNCHANGED <<tableVars, who, version, changing, openedAt, reported>>

\* The rows K are deleted.
EndSessions(K) ==
  /\ sessionUser' = [k \in Sessions |-> IF k \in K THEN None ELSE sessionUser[k]]
  /\ sessionAge' = [k \in Sessions |-> IF k \in K THEN 0 ELSE sessionAge[k]]
  /\ openedAt' = [k \in Sessions |-> IF k \in K THEN 0 ELSE openedAt[k]]

\* The foreign key of sessions.user_id.
Insertable(u) == Here(u)

CreateSession(r, k) ==
  LET u == who[r] IN
  /\ ~Live(k) /\ Insertable(u)
  /\ sessionUser' = [sessionUser EXCEPT ![k] = u]
  /\ openedAt' = [openedAt EXCEPT ![k] = version[u]]
  /\ Done(r)
  /\ UNCHANGED <<user, sessionAge, guardVars, version, guesses>>

LoggedIn(r, k) ==
  /\ pc[r] = "open"
  /\ CreateSession(r, k)
  /\ UNCHANGED reported
-----------------------------------------------------------------------------
(* UpdatePassword on the account page, behind RequireAuth *)

Valid(k) == Live(k) /\ sessionAge[k] < SessionTTL

\* RequireAuth: GetSession, then GetUserByID.
GetSession(r, k) ==
  /\ pc[r] = "idle" /\ Valid(k)
  /\ Goto(r, "auth")
  /\ who' = [who EXCEPT ![r] = sessionUser[k]]
  /\ UNCHANGED <<tableVars, guardVars, ip, histVars>>

GetUserByID(r) ==
  /\ pc[r] = "auth" /\ Here(who[r])
  /\ Goto(r, "account")
  /\ UNCHANGED <<tableVars, guardVars, who, ip, histVars>>

\* CheckPassword of the current password.
CheckCurrent(r) ==
  /\ pc[r] = "account" /\ Here(who[r])
  /\ Goto(r, "update")
  /\ UNCHANGED <<tableVars, guardVars, who, ip, histVars>>

UpdatePassword(r) ==
  LET u == who[r] IN
  /\ pc[r] = "update" /\ Here(u) /\ version[u] < MaxChanges
  /\ version' = [version EXCEPT ![u] = @ + 1]
  /\ changing' = [changing EXCEPT ![r] = version[u] + 1]
  /\ Goto(r, "sessions")
  /\ UNCHANGED <<tableVars, guardVars, who, ip, openedAt, reported, guesses>>

\* Mutant: the expired ones only.
EndedSessions_Expired(u) == {k \in Of(u) : ~Valid(k)}

\* The WHERE of DeleteUserSessions.
EndedSessions(u) == Of(u)

DeleteUserSessions(r) ==
  /\ pc[r] = "sessions"
  /\ EndSessions(EndedSessions(who[r]))
  /\ Goto(r, "renew")
  /\ UNCHANGED <<user, guardVars, who, ip, version, changing, reported, guesses>>

\* A session for this browser, and "Password updated."
Renewed(r, k) ==
  /\ pc[r] = "renew"
  /\ CreateSession(r, k)
  /\ reported' = [reported EXCEPT ![who[r]] = IF @ < changing[r] THEN changing[r] ELSE @]

\* A store call failed, or found no user: the handler answers with an error.
RequestFails(r) ==
  /\ pc[r] \in {"open", "auth", "account", "update", "sessions", "renew"}
  /\ Done(r)
  /\ UNCHANGED <<tableVars, guardVars, version, openedAt, reported, guesses>>
-----------------------------------------------------------------------------
(* One call each *)

Logout(k) ==
  /\ Live(k)
  /\ EndSessions({k})
  /\ UNCHANGED <<user, guardVars, requestVars, version, changing, reported, guesses>>

CleanExpiredSessions ==
  /\ EndSessions({k \in Sessions : Live(k) /\ ~Valid(k)})
  /\ UNCHANGED <<user, guardVars, requestVars, version, changing, reported, guesses>>

CreateUser(u) ==
  /\ user[u] = "none"
  /\ user' = [user EXCEPT ![u] = "here"]
  /\ UNCHANGED <<sessionUser, sessionAge, guardVars, requestVars, histVars>>

\* Mutant: it only checks that the user is there.
Deletable_Any(u) == Here(u)

\* The count inside the transaction of DeleteUser.
Deletable(u) == Here(u) /\ \E v \in Users \ {u} : Here(v)

\* DeleteUser, from the users page or the command line; sessions by cascade.
DeleteUser(u) ==
  /\ Deletable(u)
  /\ user' = [user EXCEPT ![u] = "gone"]
  /\ EndSessions(Of(u))
  /\ version' = [version EXCEPT ![u] = 0] /\ reported' = [reported EXCEPT ![u] = 0]
  /\ UNCHANGED <<guardVars, requestVars, changing, guesses>>

\* dsforms user set-password.
SetPassword(u) ==
  /\ Here(u) /\ version[u] < MaxChanges
  /\ version' = [version EXCEPT ![u] = @ + 1]
  /\ UNCHANGED <<tableVars, guardVars, requestVars, changing, openedAt, reported, guesses>>
-----------------------------------------------------------------------------
Tick ==
  /\ sessionAge' = [k \in Sessions |-> IF Live(k) THEN Capped(sessionAge[k] + 1, SessionTTL)
                                                  ELSE sessionAge[k]]
  /\ locked' = [a \in Ips |-> IF locked[a] > 0 THEN locked[a] - 1 ELSE 0]
  /\ idle' = [a \in Ips |-> IF failures[a] > 0 THEN Capped(idle[a] + 1, GuardAge + 1) ELSE 0]
  /\ guesses' = [a \in Ips |-> IF locked[a] = 1 THEN 0 ELSE guesses[a]]
  /\ UNCHANGED <<user, sessionUser, failures, requestVars, version, changing, openedAt, reported>>

\* The process dies and restarts: requests and the guard's memory are lost.
Crash ==
  /\ pc' = [r \in Requests |-> "idle"]
  /\ who' = [r \in Requests |-> None] /\ ip' = [r \in Requests |-> None]
  /\ changing' = [r \in Requests |-> 0]
  /\ Forget(Ips)
  /\ UNCHANGED <<tableVars, version, openedAt, reported>>

Request(r) ==
  \/ \E u \in Users, a \in Ips : LoginStart(r, u, a)
  \/ LoginRight(r) \/ LoginWrong(r) \/ RecordFailure(r) \/ RecordSuccess(r)
  \/ GetUserByID(r) \/ CheckCurrent(r) \/ UpdatePassword(r) \/ DeleteUserSessions(r)
  \/ RequestFails(r)
  \/ \E k \in Sessions : LoggedIn(r, k) \/ GetSession(r, k) \/ Renewed(r, k)

Next ==
  \/ \E r \in Requests : Request(r)
  \/ \E k \in Sessions : Logout(k)
  \/ \E u \in Users : CreateUser(u) \/ DeleteUser(u) \/ SetPassword(u)
  \/ CleanExpiredSessions \/ GuardCleanup
  \/ Tick \/ Crash

Spec == Init /\ [][Next]_vars
-----------------------------------------------------------------------------
(* Properties *)

Steps == {"idle", "login", "right", "wrong", "open", "auth", "account", "update", "sessions",
          "renew"}

TableType ==
  /\ user \in [Users -> {"none", "here", "gone"}]
  /\ sessionUser \in [Sessions -> Users \cup {None}]
  /\ sessionAge \in [Sessions -> 0..SessionTTL]

GuardType ==
  /\ failures \in [Ips -> 0..MaxFails]
  /\ locked \in [Ips -> 0..Lockout]
  /\ idle \in [Ips -> 0..(GuardAge + 1)]

RequestType ==
  /\ pc \in [Requests -> Steps]
  /\ who \in [Requests -> Users \cup {None}] /\ ip \in [Requests -> Ips \cup {None}]
  /\ \A r \in Requests : pc[r] # "idle" => who[r] \in Users
  /\ \A r \in Requests : pc[r] \in {"login", "right", "wrong"} => ip[r] \in Ips

HistType ==
  /\ version \in [Users -> 0..MaxChanges] /\ reported \in [Users -> 0..MaxChanges]
  /\ changing \in [Requests -> 0..MaxChanges]
  /\ openedAt \in [Sessions -> 0..MaxChanges]
  /\ guesses \in [Ips -> Nat]

\* The values of columns and counters, and what a request at work has.
TypeOK == TableType /\ GuardType /\ RequestType /\ HistType

\* No session is left, or made by a request still under way, for a user who
\* has been deleted.
SessionsBelong == \A k \in Sessions : Live(k) => Here(sessionUser[k])

\* Whoever deletes whom, and however many at once, someone can still sign in.
AlwaysAnOperator == \E u \in Users : Here(u)

\* An address gets MaxFails guesses before it is locked, or after a lock has
\* run out, and beyond those only the ones that were already past IsLocked:
\* parallel guesses do not add up.
GuessesCapped ==
  \A a \in Ips : guesses[a] <= MaxFails + Cardinality(Requests) - 1

\* Once the account page says the password is updated, every session opened
\* before the change is over, the one that made it included.  (account.html:
\* "This signs out every session on every device, including this one".)
ChangeEndsEarlierSessions ==
  \A k \in Sessions : Live(k) => openedAt[k] >= reported[sessionUser[k]]
=============================================================================
