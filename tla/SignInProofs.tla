---------------------------- MODULE SignInProofs ----------------------------
(* Proofs about SignIn, for any users, sessions, requests and addresses.    *)
EXTENDS SignIn, FiniteSetTheorems, TLAPS

-----------------------------------------------------------------------------
(* Types *)

LEMMA InitType == Init => TypeOK
BY ConstantsAssumption
   DEF Init, TypeOK, TableType, GuardType, RequestType, HistType, Steps

\* A request that is done is well typed.
LEMMA DoneType ==
  ASSUME TypeOK, NEW r \in Requests, Done(r)
  PROVE  /\ RequestType'
         /\ changing' \in [Requests -> 0..MaxChanges]
BY ConstantsAssumption DEF TypeOK, RequestType, HistType, Done, Goto, Steps

\* So are addresses the guard has forgotten.
LEMMA ForgetType ==
  ASSUME TypeOK, NEW A, Forget(A)
  PROVE  GuardType' /\ guesses' \in [Ips -> Nat]
BY ConstantsAssumption DEF TypeOK, GuardType, HistType, Forget

\* And the sessions that are left.
LEMMA EndType ==
  ASSUME TypeOK, NEW K, EndSessions(K)
  PROVE  /\ sessionUser' \in [Sessions -> Users \cup {None}]
         /\ sessionAge' \in [Sessions -> 0..SessionTTL]
         /\ openedAt' \in [Sessions -> 0..MaxChanges]
BY ConstantsAssumption DEF TypeOK, TableType, HistType, EndSessions

\* And a session that is new.
LEMMA CreateType ==
  ASSUME TypeOK, NEW r \in Requests, NEW k \in Sessions, pc[r] # "idle", CreateSession(r, k)
  PROVE  /\ TableType' /\ RequestType' /\ version' \in [Users -> 0..MaxChanges]
         /\ changing' \in [Requests -> 0..MaxChanges]
         /\ openedAt' \in [Sessions -> 0..MaxChanges]
<1>1. who[r] \in Users
  BY DEF TypeOK, RequestType
<1>2. Done(r)
  BY DEF CreateSession
<1>3. TableType' /\ version' \in [Users -> 0..MaxChanges]
  BY <1>1 DEF TypeOK, TableType, HistType, CreateSession
<1>4. openedAt' \in [Sessions -> 0..MaxChanges]
  BY <1>1 DEF TypeOK, HistType, CreateSession
<1> QED  BY <1>2, <1>3, <1>4, DoneType

\* A request's step keeps the types.
LEMMA RequestStepType ==
  ASSUME TypeOK, NEW r \in Requests, Request(r)
  PROVE  TypeOK'
<1> USE DEF tableVars, guardVars, requestVars, histVars
<1>0. TableType /\ GuardType /\ RequestType /\ HistType
  BY DEF TypeOK
<1>1. CASE \E u \in Users, a \in Ips : LoginStart(r, u, a)
  <2>1. RequestType'
    BY <1>0, <1>1 DEF RequestType, LoginStart, Goto, Steps
  <2> QED  BY <1>0, <1>1, <2>1 DEF LoginStart, TypeOK, TableType, GuardType, HistType
<1>2. CASE LoginRight(r)
  <2>1. who[r] \in Users
    BY <1>0, <1>2 DEF RequestType, LoginRight
  <2>2. RequestType'
    BY <1>0, <1>2 DEF RequestType, LoginRight, Goto, Steps
  <2>3. HistType'
    BY <1>0, <1>2, <2>1 DEF HistType, LoginRight
  <2> QED  BY <1>0, <1>2, <2>2, <2>3 DEF LoginRight, TypeOK, TableType, GuardType
<1>3. CASE LoginWrong(r)
  <2>1. ip[r] \in Ips
    BY <1>0, <1>3 DEF RequestType, LoginWrong
  <2>2. RequestType'
    BY <1>0, <1>3 DEF RequestType, LoginWrong, Goto, Steps
  <2>3. HistType'
    BY <1>0, <1>3, <2>1 DEF HistType, LoginWrong
  <2> QED  BY <1>0, <1>3, <2>2, <2>3 DEF LoginWrong, TypeOK, TableType, GuardType
<1>4. CASE RecordFailure(r)
  <2>1. ip[r] \in Ips
    BY <1>0, <1>4 DEF RequestType, RecordFailure
  <2>2. GuardType'
    BY <1>0, <1>4, <2>1, ConstantsAssumption DEF GuardType, RecordFailure, Capped, Relock
  <2> QED  BY <1>0, <1>4, <2>2, DoneType DEF RecordFailure, TypeOK, TableType, HistType
<1>5. CASE RecordSuccess(r)
  <2>1. RequestType'
    BY <1>0, <1>5 DEF RequestType, RecordSuccess, Goto, Steps
  <2> QED  BY <1>0, <1>5, <2>1, ForgetType DEF RecordSuccess, TypeOK, TableType, HistType
<1>6. CASE GetUserByID(r) \/ CheckCurrent(r)
  <2>1. RequestType'
    BY <1>0, <1>6 DEF RequestType, GetUserByID, CheckCurrent, Goto, Steps
  <2> QED  BY <1>0, <1>6, <2>1
           DEF GetUserByID, CheckCurrent, TypeOK, TableType, GuardType, HistType
<1>7. CASE UpdatePassword(r)
  <2>1. who[r] \in Users
    BY <1>0, <1>7 DEF RequestType, UpdatePassword
  <2>2. RequestType'
    BY <1>0, <1>7 DEF RequestType, UpdatePassword, Goto, Steps
  <2>3. version[who[r]] + 1 \in 0..MaxChanges
    BY <1>0, <1>7, <2>1, ConstantsAssumption DEF HistType, UpdatePassword
  <2>4. HistType'
    BY <1>0, <1>7, <2>1, <2>3 DEF HistType, UpdatePassword
  <2> QED  BY <1>0, <1>7, <2>2, <2>4 DEF UpdatePassword, TypeOK, TableType, GuardType
<1>8. CASE DeleteUserSessions(r)
  <2>1. RequestType'
    BY <1>0, <1>8 DEF RequestType, DeleteUserSessions, Goto, Steps
  <2> QED  BY <1>0, <1>8, <2>1, EndType
           DEF DeleteUserSessions, TypeOK, TableType, GuardType, HistType
<1>9. CASE RequestFails(r)
  BY <1>0, <1>9, DoneType DEF RequestFails, TypeOK, TableType, GuardType, HistType
<1>10. CASE \E k \in Sessions : LoggedIn(r, k)
  <2>1. PICK k \in Sessions : LoggedIn(r, k)
    BY <1>10
  <2>2. pc[r] # "idle" /\ CreateSession(r, k) /\ UNCHANGED <<guardVars, guesses, reported>>
    BY <2>1 DEF LoggedIn, CreateSession
  <2> QED  BY <1>0, <2>2, CreateType DEF TypeOK, GuardType, HistType
<1>11. CASE \E k \in Sessions : GetSession(r, k)
  <2>1. RequestType'
    BY <1>0, <1>11 DEF RequestType, TableType, GetSession, Valid, Live, Goto, Steps
  <2> QED  BY <1>0, <1>11, <2>1 DEF GetSession, TypeOK, TableType, GuardType, HistType
<1>12. CASE \E k \in Sessions : Renewed(r, k)
  <2>1. PICK k \in Sessions : Renewed(r, k)
    BY <1>12
  <2>2. pc[r] # "idle" /\ CreateSession(r, k) /\ UNCHANGED <<guardVars, guesses>>
    BY <2>1 DEF Renewed, CreateSession
  <2>3. reported' \in [Users -> 0..MaxChanges]
    BY <1>0, <2>1 DEF Renewed, HistType
  <2> QED  BY <1>0, <2>2, <2>3, CreateType DEF TypeOK, GuardType, HistType
<1> QED  BY <1>1, <1>2, <1>3, <1>4, <1>5, <1>6, <1>7, <1>8, <1>9, <1>10, <1>11, <1>12 DEF Request

\* What happens beside the requests.
Others ==
  \/ \E k \in Sessions : Logout(k)
  \/ \E u \in Users : CreateUser(u) \/ DeleteUser(u) \/ SetPassword(u)
  \/ CleanExpiredSessions \/ GuardCleanup
  \/ Tick \/ Crash

LEMMA OthersType ==
  ASSUME TypeOK, Others
  PROVE  TypeOK'
<1> USE DEF tableVars, guardVars, requestVars, histVars
<1>0. TableType /\ GuardType /\ RequestType /\ HistType
  BY DEF TypeOK
<1>1. CASE (\E k \in Sessions : Logout(k)) \/ CleanExpiredSessions
  BY <1>0, <1>1, EndType
     DEF Logout, CleanExpiredSessions, TypeOK, TableType, GuardType, RequestType, HistType
<1>2. CASE \E u \in Users : CreateUser(u) \/ SetPassword(u)
  BY <1>0, <1>2, ConstantsAssumption
     DEF CreateUser, SetPassword, TypeOK, TableType, GuardType, RequestType, HistType
<1>3. CASE \E u \in Users : DeleteUser(u)
  <2>1. PICK u \in Users : DeleteUser(u)
    BY <1>3
  <2>2. EndSessions(Of(u))
    BY <2>1 DEF DeleteUser
  <2>3. user' \in [Users -> {"none", "here", "gone"}]
        /\ version' \in [Users -> 0..MaxChanges] /\ reported' \in [Users -> 0..MaxChanges]
    BY <1>0, <2>1, ConstantsAssumption DEF DeleteUser, TableType, HistType
  <2> QED  BY <1>0, <2>1, <2>2, <2>3, EndType
           DEF DeleteUser, TypeOK, TableType, GuardType, RequestType, HistType
<1>4. CASE GuardCleanup
  BY <1>0, <1>4, ForgetType
     DEF GuardCleanup, TypeOK, TableType, GuardType, RequestType, HistType
<1>5. CASE Tick
  <2>1. TableType'
    BY <1>0, <1>5, ConstantsAssumption DEF Tick, TableType, Capped
  <2>2. GuardType'
    BY <1>0, <1>5, ConstantsAssumption DEF Tick, GuardType, Capped
  <2> QED  BY <1>0, <1>5, <2>1, <2>2 DEF Tick, TypeOK, RequestType, HistType
<1>6. CASE Crash
  <2>1. RequestType' /\ changing' \in [Requests -> 0..MaxChanges]
    BY <1>6, ConstantsAssumption DEF Crash, RequestType, Steps
  <2>2. Forget(Ips)
    BY <1>6 DEF Crash
  <2> QED  BY <1>0, <1>6, <2>1, <2>2, ForgetType DEF Crash, TypeOK, TableType, HistType
<1> QED  BY <1>1, <1>2, <1>3, <1>4, <1>5, <1>6 DEF Others

\* Columns, counters and requests stay within their types.
THEOREM TypeCorrect == Spec => []TypeOK
<1>1. Init => TypeOK
  BY InitType
<1>2. TypeOK /\ [Next]_vars => TypeOK'
  <2> SUFFICES ASSUME TypeOK, [Next]_vars PROVE TypeOK'
    OBVIOUS
  <2>1. CASE UNCHANGED vars
    BY <2>1 DEF vars, tableVars, guardVars, requestVars, histVars, TypeOK, TableType, GuardType,
                RequestType, HistType
  <2> QED  BY <2>1, RequestStepType, OthersType DEF Next, Others
<1> QED  BY <1>1, <1>2, PTL DEF Spec
-----------------------------------------------------------------------------
(* Sessions and their users *)

\* A step that neither changes users nor opens a session leaves every session
\* with a user who is here.
LEMMA FewerSessions ==
  ASSUME SessionsBelong, UNCHANGED user,
         \A k \in Sessions : sessionUser'[k] \in {None, sessionUser[k]}
  PROVE  SessionsBelong'
BY DEF SessionsBelong, Live, Here

\* A session opened now belongs to a user who is here.
LEMMA CreateBelongs ==
  ASSUME TypeOK, SessionsBelong, NEW r \in Requests, NEW k \in Sessions, CreateSession(r, k)
  PROVE  SessionsBelong'
BY DEF TypeOK, TableType, SessionsBelong, CreateSession, Insertable, Live, Here

LEMMA BelongsKept ==
  ASSUME TypeOK, SessionsBelong, [Next]_vars
  PROVE  SessionsBelong'
<1> USE DEF tableVars, guardVars, requestVars, histVars
<1>1. CASE UNCHANGED vars
  BY <1>1 DEF vars, SessionsBelong, Live, Here
<1>2. CASE \E r \in Requests : Request(r)
  <2>1. PICK r \in Requests : Request(r)
    BY <1>2
  <2>2. CASE \E k \in Sessions : LoggedIn(r, k) \/ Renewed(r, k)
    BY <2>2, CreateBelongs DEF LoggedIn, Renewed
  <2>3. CASE DeleteUserSessions(r)
    BY <2>3, FewerSessions DEF DeleteUserSessions, EndSessions
  <2>4. CASE ~ DeleteUserSessions(r) /\ ~ \E k \in Sessions : LoggedIn(r, k) \/ Renewed(r, k)
    <3>1. UNCHANGED <<user, sessionUser>>
      BY <2>1, <2>4
         DEF Request, LoginStart, LoginRight, LoginWrong, RecordFailure, RecordSuccess, GetSession,
             GetUserByID, CheckCurrent, UpdatePassword, RequestFails
    <3> QED  BY <3>1, FewerSessions
  <2> QED  BY <2>2, <2>3, <2>4
<1>3. CASE \E u \in Users : CreateUser(u)
  BY <1>3 DEF TypeOK, TableType, CreateUser, SessionsBelong, Live, Here
<1>4. CASE \E u \in Users : DeleteUser(u)
  BY <1>4 DEF TypeOK, TableType, DeleteUser, EndSessions, Of, SessionsBelong, Live, Here
<1>5. CASE \/ (\E k \in Sessions : Logout(k)) \/ CleanExpiredSessions
           \/ (\E u \in Users : SetPassword(u)) \/ GuardCleanup \/ Tick \/ Crash
  BY <1>5, FewerSessions
     DEF Logout, CleanExpiredSessions, EndSessions, SetPassword, GuardCleanup, Tick, Crash
<1> QED  BY <1>1, <1>2, <1>3, <1>4, <1>5 DEF Next

\* No session is left, or made by a request under way, for a deleted user.
THEOREM Belongs == Spec => []SessionsBelong
<1>1. Init => SessionsBelong
  BY DEF Init, SessionsBelong, Live
<1>2. TypeOK /\ SessionsBelong /\ [Next]_vars => SessionsBelong'
  BY BelongsKept
<1> QED  BY <1>1, <1>2, TypeCorrect, PTL DEF Spec

-----------------------------------------------------------------------------
(* The last operator *)

\* A step that deletes nobody leaves whoever was here.
LEMMA NobodyLess ==
  ASSUME AlwaysAnOperator, \A u \in Users : Here(u) => Here(u)'
  PROVE  AlwaysAnOperator'
BY DEF AlwaysAnOperator

LEMMA OperatorKept ==
  ASSUME TypeOK, AlwaysAnOperator, [Next]_vars
  PROVE  AlwaysAnOperator'
<1> USE DEF tableVars, guardVars, requestVars, histVars
<1>1. CASE \E u \in Users : DeleteUser(u)
  <2>1. PICK u \in Users : DeleteUser(u)
    BY <1>1
  <2>2. PICK v \in Users \ {u} : Here(v)
    BY <2>1 DEF DeleteUser, Deletable
  <2>3. user'[v] = user[v]
    BY <2>1, <2>2 DEF DeleteUser, TypeOK, TableType
  <2> QED  BY <2>2, <2>3 DEF AlwaysAnOperator, Here
<1>2. CASE \E u \in Users : CreateUser(u)
  BY <1>2, NobodyLess DEF TypeOK, TableType, CreateUser, Here
<1>3. CASE /\ ~ \E u \in Users : DeleteUser(u)
           /\ ~ \E u \in Users : CreateUser(u)
  <2>1. UNCHANGED user
    BY <1>3
       DEF Next, vars, Request, LoginStart, LoginRight, LoginWrong, RecordFailure, RecordSuccess,
           GetSession, GetUserByID, CheckCurrent, UpdatePassword, DeleteUserSessions, RequestFails,
           LoggedIn, Renewed, CreateSession, SetPassword, Logout, CleanExpiredSessions,
           GuardCleanup, Tick, Crash
  <2> QED  BY <2>1, NobodyLess DEF Here
<1> QED  BY <1>1, <1>2, <1>3

\* Someone can always sign in, however many deletions run at once.
THEOREM OperatorRemains == Spec => []AlwaysAnOperator
<1>1. ASSUME Init PROVE AlwaysAnOperator
  <2>1. PICK S \in (SUBSET Users) \ {{}} :
          user = [u \in Users |-> IF u \in S THEN "here" ELSE "none"]
    BY <1>1 DEF Init
  <2>2. PICK u \in S : TRUE
    BY <2>1
  <2>3. u \in Users /\ user[u] = "here"
    BY <2>1, <2>2
  <2> QED  BY <2>3 DEF AlwaysAnOperator, Here
<1>2. TypeOK /\ AlwaysAnOperator /\ [Next]_vars => AlwaysAnOperator'
  BY OperatorKept
<1> QED  BY <1>1, <1>2, TypeCorrect, PTL DEF Spec

-----------------------------------------------------------------------------
(* A change of password ends what was opened before it *)

\* What a change under way has set is not past the password there is, nothing
\* opened before it is left once its sessions were deleted, and it is about a
\* user who was created.
ChangeUnderWay ==
  \A r \in Requests : pc[r] \in {"sessions", "renew"} =>
    /\ user[who[r]] # "none"
    /\ Here(who[r]) => changing[r] <= version[who[r]]

EndedByChange ==
  \A r \in Requests, k \in Sessions :
    pc[r] = "renew" /\ Live(k) /\ sessionUser[k] = who[r] => openedAt[k] >= changing[r]

ChangeHistory ==
  /\ \A u \in Users : reported[u] <= version[u]
  /\ ChangeUnderWay
  /\ EndedByChange

ChangeInv == SessionsBelong /\ ChangeEndsEarlierSessions /\ ChangeHistory

\* A step that opens no session, changes no password and brings no request to
\* a later step of a change keeps the history.
LEMMA ChangeQuiet ==
  ASSUME TypeOK, ChangeInv, UNCHANGED <<user, version, reported>>,
         \A k \in Sessions : \/ sessionUser'[k] = None
                             \/ sessionUser'[k] = sessionUser[k] /\ openedAt'[k] = openedAt[k],
         \A r \in Requests : \/ pc'[r] \notin {"sessions", "renew"}
                             \/ pc'[r] = pc[r] /\ who'[r] = who[r] /\ changing'[r] = changing[r]
  PROVE  ChangeEndsEarlierSessions' /\ ChangeHistory'
<1>1. ChangeEndsEarlierSessions'
  BY DEF ChangeInv, ChangeEndsEarlierSessions, Live
<1>2. ChangeHistory'
  BY DEF ChangeInv, ChangeHistory, ChangeUnderWay, EndedByChange, Live, Here
<1> QED  BY <1>1, <1>2

\* A session opened now is no older than the password there is.
LEMMA ChangeCreate ==
  ASSUME TypeOK, ChangeInv, NEW r \in Requests, NEW k \in Sessions, pc[r] # "idle",
         CreateSession(r, k)
  PROVE  /\ ChangeUnderWay' /\ EndedByChange'
         /\ who[r] \in Users /\ openedAt'[k] = version[who[r]]
         /\ \A l \in Sessions : Live(l)' => \/ l = k /\ sessionUser'[l] = who[r]
                                           \/ /\ Live(l) /\ sessionUser'[l] = sessionUser[l]
                                              /\ openedAt'[l] = openedAt[l]
<1>1. who[r] \in Users /\ Here(who[r])
  BY DEF TypeOK, RequestType, CreateSession, Insertable
<1>2. \A q \in Requests : \/ pc'[q] = "idle"
                          \/ pc'[q] = pc[q] /\ who'[q] = who[q] /\ changing'[q] = changing[q]
  BY DEF TypeOK, RequestType, HistType, CreateSession, Done, Goto
<1>3. /\ UNCHANGED <<user, version>>
      /\ openedAt'[k] = version[who[r]]
      /\ \A l \in Sessions : l # k => sessionUser'[l] = sessionUser[l] /\ openedAt'[l] = openedAt[l]
      /\ sessionUser'[k] = who[r]
  BY DEF TypeOK, TableType, HistType, CreateSession
<1>4. ChangeUnderWay'
  BY <1>2, <1>3 DEF ChangeInv, ChangeHistory, ChangeUnderWay, Here
<1>5. EndedByChange'
  <2> USE DEF EndedByChange
  <2> SUFFICES ASSUME NEW q \in Requests, NEW l \in Sessions,
                      pc'[q] = "renew", Live(l)', sessionUser'[l] = who'[q]
               PROVE  openedAt'[l] >= changing'[q]
    OBVIOUS
  <2>1. pc[q] = "renew" /\ who'[q] = who[q] /\ changing'[q] = changing[q]
    BY <1>2
  <2>2. CASE l = k
    <3>1. who[q] = who[r]
      BY <1>3, <2>1, <2>2
    <3>2. changing[q] <= version[who[q]]
      BY <1>1, <2>1, <3>1 DEF ChangeInv, ChangeHistory, ChangeUnderWay
    <3> QED  BY <1>1, <1>3, <2>1, <2>2, <3>1, <3>2 DEF TypeOK, HistType
  <2>3. CASE l # k
    BY <1>3, <2>1, <2>3 DEF ChangeInv, ChangeHistory, Live
  <2> QED  BY <2>2, <2>3
<1> QED  BY <1>1, <1>3, <1>4, <1>5 DEF Live

\* A request's step keeps the history.
LEMMA ChangeRequest ==
  ASSUME TypeOK, ChangeInv, NEW r \in Requests, Request(r)
  PROVE  ChangeEndsEarlierSessions' /\ ChangeHistory'
<1> USE DEF tableVars, guardVars, requestVars, histVars
<1>0. RequestType /\ HistType /\ TableType
  BY DEF TypeOK
<1>1. CASE UpdatePassword(r)
  <2>1. /\ who[r] \in Users /\ Here(who[r]) /\ UNCHANGED <<tableVars, who, openedAt, reported>>
        /\ version' = [version EXCEPT ![who[r]] = @ + 1]
        /\ changing' = [changing EXCEPT ![r] = version[who[r]] + 1]
        /\ pc' = [pc EXCEPT ![r] = "sessions"]
    BY <1>0, <1>1 DEF RequestType, UpdatePassword, Goto
  <2>2. version[who[r]] \in Nat /\ \A u \in Users : version'[u] \in Nat /\ version[u] <= version'[u]
    BY <1>0, <2>1 DEF HistType
  <2>3. \A u \in Users : reported'[u] <= version'[u]
    BY <1>0, <2>1, <2>2 DEF ChangeInv, ChangeHistory, HistType
  <2>4. ChangeUnderWay'
    <3> SUFFICES ASSUME NEW q \in Requests, pc'[q] \in {"sessions", "renew"}
                 PROVE  user'[who'[q]] # "none" /\ (Here(who[q])' => changing'[q] <= version'[who'[q]])
      BY DEF ChangeUnderWay
    <3>1. CASE q = r
      BY <1>0, <2>1, <2>2, <3>1 DEF Here, RequestType, HistType
    <3>2. CASE q # r
      <4>1. pc'[q] = pc[q] /\ changing'[q] = changing[q] /\ who[q] \in Users
        BY <1>0, <2>1, <3>2 DEF RequestType, HistType
      <4> QED  BY <1>0, <2>1, <2>2, <4>1 DEF Here, ChangeInv, ChangeHistory, ChangeUnderWay, HistType
    <3> QED  BY <3>1, <3>2
  <2>5. EndedByChange'
    BY <1>0, <2>1 DEF ChangeInv, ChangeHistory, EndedByChange, Live, RequestType, HistType
  <2>6. ChangeEndsEarlierSessions'
    BY <2>1 DEF ChangeInv, ChangeEndsEarlierSessions, Live
  <2> QED  BY <2>3, <2>4, <2>5, <2>6 DEF ChangeHistory
<1>2. CASE DeleteUserSessions(r)
  <2>1. \A k \in Sessions : /\ sessionUser'[k] \in {None, sessionUser[k]}
                            /\ Live(k)' => openedAt'[k] = openedAt[k] /\ sessionUser'[k] # who[r]
    BY <1>0, <1>2 DEF TableType, HistType, DeleteUserSessions, EndSessions, EndedSessions, Of, Live
  <2>2. /\ UNCHANGED <<user, who, version, changing, reported>>
        /\ pc[r] = "sessions" /\ pc' = [pc EXCEPT ![r] = "renew"]
    BY <1>2 DEF DeleteUserSessions, Goto
  <2>3. ChangeUnderWay'
    BY <1>0, <2>2 DEF ChangeInv, ChangeHistory, ChangeUnderWay, Here, RequestType
  <2>4. EndedByChange'
    BY <1>0, <2>1, <2>2 DEF ChangeInv, ChangeHistory, EndedByChange, Live, RequestType
  <2>5. ChangeEndsEarlierSessions'
    BY <2>1, <2>2 DEF ChangeInv, ChangeEndsEarlierSessions, Live
  <2> QED  BY <2>2, <2>3, <2>4, <2>5 DEF ChangeInv, ChangeHistory
<1>3. CASE \E k \in Sessions : LoggedIn(r, k)
  <2>1. PICK k \in Sessions : LoggedIn(r, k)
    BY <1>3
  <2>2. CreateSession(r, k) /\ pc[r] # "idle" /\ UNCHANGED <<version, reported>>
    BY <2>1 DEF LoggedIn, CreateSession
  <2>3. ChangeEndsEarlierSessions'
    BY <1>0, <2>2, ChangeCreate
       DEF ChangeInv, ChangeEndsEarlierSessions, ChangeHistory, TableType, HistType
  <2> QED  BY <2>2, <2>3, ChangeCreate DEF ChangeInv, ChangeHistory
<1>4. CASE \E k \in Sessions : Renewed(r, k)
  <2>1. PICK k \in Sessions : Renewed(r, k)
    BY <1>4
  <2>2. /\ CreateSession(r, k) /\ pc[r] = "renew" /\ Here(who[r]) /\ UNCHANGED version
        /\ reported' = [reported EXCEPT ![who[r]] = IF @ < changing[r] THEN changing[r] ELSE @]
    BY <2>1 DEF Renewed, CreateSession, Insertable
  <2>3. who[r] \in Users /\ changing[r] <= version[who[r]]
    BY <1>0, <2>2 DEF RequestType, ChangeInv, ChangeHistory, ChangeUnderWay
  <2>4. \A u \in Users : reported'[u] <= version'[u]
    BY <1>0, <2>2, <2>3 DEF ChangeInv, ChangeHistory, HistType
  <2>5. ChangeEndsEarlierSessions'
    <3> SUFFICES ASSUME NEW l \in Sessions, Live(l)'
                 PROVE  openedAt'[l] >= reported'[sessionUser'[l]]
      BY DEF ChangeEndsEarlierSessions
    <3>1. CASE l = k /\ sessionUser'[l] = who[r]
      BY <1>0, <2>2, <2>3, <2>4, <3>1, ChangeCreate DEF HistType
    <3>2. CASE Live(l) /\ sessionUser'[l] = sessionUser[l] /\ openedAt'[l] = openedAt[l]
      <4>1. /\ openedAt[l] >= reported[sessionUser[l]]
            /\ sessionUser[l] = who[r] => openedAt[l] >= changing[r]
            /\ sessionUser[l] \in Users
        BY <1>0, <2>2, <3>2
           DEF ChangeInv, ChangeEndsEarlierSessions, ChangeHistory, EndedByChange, TableType, Live
      <4> QED  BY <1>0, <2>2, <3>2, <4>1 DEF HistType
    <3> QED  BY <2>2, <3>1, <3>2, ChangeCreate
  <2> QED  BY <2>2, <2>4, <2>5, ChangeCreate DEF ChangeHistory
<1>5. CASE \/ \E u \in Users, a \in Ips : LoginStart(r, u, a)
           \/ LoginRight(r) \/ LoginWrong(r) \/ RecordFailure(r) \/ RecordSuccess(r)
           \/ GetUserByID(r) \/ CheckCurrent(r) \/ RequestFails(r)
           \/ \E k \in Sessions : GetSession(r, k)
  <2>1. UNCHANGED <<user, version, reported, sessionUser, openedAt>>
    BY <1>5 DEF LoginStart, LoginRight, LoginWrong, RecordFailure, RecordSuccess, GetUserByID,
                CheckCurrent, RequestFails, GetSession
  <2>2. pc'[r] \notin {"sessions", "renew"}
    BY <1>0, <1>5
       DEF LoginStart, LoginRight, LoginWrong, RecordFailure, RecordSuccess, GetUserByID,
           CheckCurrent, RequestFails, GetSession, Done, Goto, RequestType
  <2>3. \A q \in Requests \ {r} : pc'[q] = pc[q] /\ who'[q] = who[q] /\ changing'[q] = changing[q]
    BY <1>0, <1>5
       DEF LoginStart, LoginRight, LoginWrong, RecordFailure, RecordSuccess, GetUserByID,
           CheckCurrent, RequestFails, GetSession, Done, Goto, RequestType, HistType
  <2> QED  BY <2>1, <2>2, <2>3, ChangeQuiet
<1> QED  BY <1>1, <1>2, <1>3, <1>4, <1>5 DEF Request

\* So does what happens beside the requests.
LEMMA ChangeOthers ==
  ASSUME TypeOK, ChangeInv, Others
  PROVE  ChangeEndsEarlierSessions' /\ ChangeHistory'
<1> USE DEF tableVars, guardVars, requestVars, histVars
<1>0. RequestType /\ HistType /\ TableType
  BY DEF TypeOK
<1>1. CASE (\E k \in Sessions : Logout(k)) \/ CleanExpiredSessions
  <2>1. /\ UNCHANGED <<user, version, reported, pc, who, changing>>
        /\ \A k \in Sessions : \/ sessionUser'[k] = None
                               \/ sessionUser'[k] = sessionUser[k] /\ openedAt'[k] = openedAt[k]
    BY <1>1 DEF Logout, CleanExpiredSessions, EndSessions
  <2> QED  BY <2>1, ChangeQuiet
<1>2. CASE GuardCleanup \/ Tick
  BY <1>2, ChangeQuiet DEF GuardCleanup, Tick
<1>3. CASE Crash
  BY <1>3, ChangeQuiet DEF Crash
<1>4. CASE \E u \in Users : CreateUser(u)
  <2>1. PICK u \in Users : CreateUser(u)
    BY <1>4
  <2>2. ChangeUnderWay'
    BY <1>0, <2>1
       DEF CreateUser, ChangeInv, ChangeHistory, ChangeUnderWay, Here, RequestType, TableType
  <2> QED  BY <2>1, <2>2
           DEF CreateUser, ChangeInv, ChangeEndsEarlierSessions, ChangeHistory, EndedByChange, Live
<1>5. CASE \E u \in Users : DeleteUser(u)
  <2>1. PICK u \in Users : DeleteUser(u)
    BY <1>5
  <2>2. /\ user' = [user EXCEPT ![u] = "gone"]
        /\ version' = [version EXCEPT ![u] = 0] /\ reported' = [reported EXCEPT ![u] = 0]
        /\ UNCHANGED <<pc, who, changing>>
        /\ \A k \in Sessions : Live(k)' => /\ Live(k) /\ sessionUser[k] # u
                                           /\ sessionUser'[k] = sessionUser[k]
                                           /\ openedAt'[k] = openedAt[k]
    BY <2>1 DEF DeleteUser, EndSessions, Of, Live
  <2>3. \A w \in Users : reported'[w] <= version'[w]
    BY <1>0, <2>2 DEF ChangeInv, ChangeHistory, HistType
  <2>4. ChangeUnderWay'
    BY <1>0, <2>2
       DEF ChangeInv, ChangeHistory, ChangeUnderWay, Here, RequestType, TableType, HistType
  <2>5. EndedByChange'
    BY <2>2 DEF ChangeInv, ChangeHistory, EndedByChange
  <2>6. ChangeEndsEarlierSessions'
    BY <1>0, <2>2 DEF ChangeInv, ChangeEndsEarlierSessions, TableType, HistType, Live
  <2> QED  BY <2>3, <2>4, <2>5, <2>6 DEF ChangeHistory
<1>6. CASE \E u \in Users : SetPassword(u)
  <2>1. PICK u \in Users : SetPassword(u)
    BY <1>6
  <2>2. \A w \in Users : version[w] <= version'[w] /\ version'[w] \in Nat
    BY <1>0, <2>1 DEF SetPassword, HistType
  <2>3. UNCHANGED <<user, sessionUser, openedAt, pc, who, changing, reported>>
    BY <2>1 DEF SetPassword
  <2>4. ChangeUnderWay'
    BY <1>0, <2>2, <2>3
       DEF ChangeInv, ChangeHistory, ChangeUnderWay, Here, RequestType, HistType
  <2>5. \A w \in Users : reported'[w] <= version'[w]
    BY <1>0, <2>2, <2>3 DEF ChangeInv, ChangeHistory, HistType
  <2> QED  BY <2>3, <2>4, <2>5
           DEF ChangeInv, ChangeEndsEarlierSessions, ChangeHistory, EndedByChange, Live
<1> QED  BY <1>1, <1>2, <1>3, <1>4, <1>5, <1>6 DEF Others

\* A reported change of password has ended every session opened before it.
THEOREM EarlierEnded == Spec => []ChangeEndsEarlierSessions
<1>1. Init => ChangeInv
  BY DEF Init, ChangeInv, SessionsBelong, ChangeEndsEarlierSessions, ChangeHistory, ChangeUnderWay,
         EndedByChange, Live
<1>2. TypeOK /\ ChangeInv /\ [Next]_vars => ChangeInv'
  <2> SUFFICES ASSUME TypeOK, ChangeInv, [Next]_vars PROVE ChangeInv'
    OBVIOUS
  <2>1. SessionsBelong'
    BY BelongsKept DEF ChangeInv
  <2>2. CASE UNCHANGED vars
    BY <2>1, <2>2, ChangeQuiet DEF vars, tableVars, requestVars, histVars, ChangeInv
  <2> QED  BY <2>1, <2>2, ChangeRequest, ChangeOthers DEF Next, Others, ChangeInv
<1>3. ChangeInv => ChangeEndsEarlierSessions
  BY DEF ChangeInv
<1> QED  BY <1>1, <1>2, <1>3, TypeCorrect, PTL DEF Spec
-----------------------------------------------------------------------------
(* Guesses *)

\* The requests from an address that are at one of these steps.
AtStep(a, steps) == {r \in Requests : pc[r] \in steps /\ ip[r] = a}

Guessing(a) == AtStep(a, {"login"})
Failing(a)  == AtStep(a, {"wrong"})

\* What the guard counts against the limit: nothing is left of a lock that ran out.
Counted(a) == IF failures[a] < MaxFails THEN failures[a] ELSE 0

\* Without a lock every guess is on the guard's count or about to be; under
\* one, only requests already past IsLocked can add a guess.
AccountOf(a) ==
  /\ locked[a] = 0 => guesses[a] <= Counted(a) + Cardinality(Failing(a))
  /\ locked[a] > 0 =>
       guesses[a] + Cardinality(Guessing(a)) <= MaxFails + Cardinality(Requests) - 1

GuessAccount == \A a \in Ips : AccountOf(a)

LEMMA AtStepFinite ==
  ASSUME NEW a, NEW steps
  PROVE  /\ IsFiniteSet(AtStep(a, steps)) /\ Cardinality(AtStep(a, steps)) \in Nat
         /\ IsFiniteSet(AtStep(a, steps)') /\ Cardinality(AtStep(a, steps)') \in Nat
<1>1. IsFiniteSet(AtStep(a, steps)) /\ IsFiniteSet(AtStep(a, steps)')
  BY ConstantsAssumption, FS_Subset DEF AtStep
<1> QED  BY <1>1, FS_CardinalityType

\* A request cannot be guessing and failing at once.
LEMMA ShareRequests ==
  ASSUME NEW a
  PROVE  Cardinality(Guessing(a)) + Cardinality(Failing(a)) <= Cardinality(Requests)
<1>1. Guessing(a) \cap Failing(a) = {} /\ Guessing(a) \cup Failing(a) \subseteq Requests
  BY DEF Guessing, Failing, AtStep
<1>2. /\ IsFiniteSet(Guessing(a)) /\ IsFiniteSet(Failing(a))
      /\ Cardinality(Guessing(a)) \in Nat /\ Cardinality(Failing(a)) \in Nat
  BY AtStepFinite DEF Guessing, Failing
<1>3. Cardinality(Guessing(a) \cup Failing(a)) = Cardinality(Guessing(a)) + Cardinality(Failing(a))
  <2>1. Cardinality(Guessing(a) \cup Failing(a)) =
          Cardinality(Guessing(a)) + Cardinality(Failing(a)) - Cardinality(Guessing(a) \cap Failing(a))
    BY <1>2, FS_Union
  <2>2. Cardinality(Guessing(a) \cap Failing(a)) = 0
    BY <1>1, FS_EmptySet
  <2> QED  BY <1>2, <2>1, <2>2
<1>4. Cardinality(Guessing(a) \cup Failing(a)) <= Cardinality(Requests)
  BY <1>1, ConstantsAssumption, FS_Subset
<1> QED  BY <1>3, <1>4

\* Fewer requests at a step count for less.
LEMMA AtStepFewer ==
  ASSUME NEW a, NEW steps, AtStep(a, steps)' \subseteq AtStep(a, steps)
  PROVE  Cardinality(AtStep(a, steps)') <= Cardinality(AtStep(a, steps))
BY AtStepFinite, FS_Subset

\* One request fewer counts for one less.
LEMMA AtStepLoses ==
  ASSUME NEW a, NEW steps, NEW r \in AtStep(a, steps),
         AtStep(a, steps)' \subseteq AtStep(a, steps) \ {r}
  PROVE  Cardinality(AtStep(a, steps)') + 1 <= Cardinality(AtStep(a, steps))
<1>1. /\ IsFiniteSet(AtStep(a, steps) \ {r})
      /\ Cardinality(AtStep(a, steps) \ {r}) = Cardinality(AtStep(a, steps)) - 1
  BY AtStepFinite, FS_RemoveElement
<1>2. Cardinality(AtStep(a, steps)') <= Cardinality(AtStep(a, steps) \ {r})
  BY <1>1, FS_Subset
<1> QED  BY <1>1, <1>2, AtStepFinite

\* One request more counts for one more.
LEMMA AtStepGains ==
  ASSUME NEW a, NEW steps, NEW r, r \notin AtStep(a, steps),
         AtStep(a, steps) \cup {r} \subseteq AtStep(a, steps)'
  PROVE  Cardinality(AtStep(a, steps)) + 1 <= Cardinality(AtStep(a, steps)')
<1>1. /\ IsFiniteSet(AtStep(a, steps) \cup {r})
      /\ Cardinality(AtStep(a, steps) \cup {r}) = Cardinality(AtStep(a, steps)) + 1
  BY AtStepFinite, FS_AddElement
<1>2. Cardinality(AtStep(a, steps) \cup {r}) <= Cardinality(AtStep(a, steps)')
  BY AtStepFinite, FS_Subset
<1> QED  BY <1>1, <1>2

\* The guard's record of an address and its guesses stay, and no request
\* begins a guess under a lock or fails unnoticed.
LEMMA AccountQuiet ==
  ASSUME TypeOK, NEW a \in Ips, AccountOf(a),
         failures'[a] = failures[a], locked'[a] = locked[a], guesses'[a] = guesses[a],
         Failing(a) \subseteq Failing(a)',
         locked[a] = 0 \/ Guessing(a)' \subseteq Guessing(a)
  PROVE  AccountOf(a)'
<1>1. Cardinality(Failing(a)) <= Cardinality(Failing(a)')
  BY AtStepFinite, FS_Subset DEF Failing
<1>2. locked[a] = 0 \/ Cardinality(Guessing(a)') <= Cardinality(Guessing(a))
  BY AtStepFewer DEF Guessing
<1>3. /\ Cardinality(Failing(a)) \in Nat /\ Cardinality(Failing(a)') \in Nat
      /\ Cardinality(Guessing(a)) \in Nat /\ Cardinality(Guessing(a)') \in Nat
      /\ Cardinality(Requests) \in Nat
  BY AtStepFinite, ConstantsAssumption, FS_CardinalityType DEF Failing, Guessing
<1>4. failures[a] \in Nat /\ locked[a] \in Nat /\ guesses[a] \in Nat /\ MaxFails \in Nat
  BY ConstantsAssumption DEF TypeOK, GuardType, HistType
<1> QED  BY <1>1, <1>2, <1>3, <1>4 DEF AccountOf, Counted

\* An address with no guesses and no lock has nothing to answer for.
LEMMA AccountClear ==
  ASSUME TypeOK', NEW a \in Ips, locked'[a] = 0, guesses'[a] = 0
  PROVE  AccountOf(a)'
<1>1. Cardinality(Failing(a)') \in Nat
  BY AtStepFinite DEF Failing
<1>2. failures'[a] \in Nat
  BY ConstantsAssumption DEF TypeOK, GuardType
<1> QED  BY <1>1, <1>2, ConstantsAssumption DEF AccountOf, Counted

LEMMA AccountInit == Init => GuessAccount
<1> SUFFICES ASSUME Init, NEW a \in Ips PROVE AccountOf(a)
  BY DEF GuessAccount
<1>1. Cardinality(Failing(a)) \in Nat
  BY AtStepFinite DEF Failing
<1>2. locked[a] = 0 /\ guesses[a] = 0 /\ failures[a] = 0
  BY DEF Init
<1> QED  BY <1>1, <1>2 DEF AccountOf, Counted

\* A failure that reaches the limit locks the address.
LEMMA AccountFailure ==
  ASSUME TypeOK, GuessAccount, NEW r \in Requests, RecordFailure(r)
  PROVE  GuessAccount'
<1> USE DEF requestVars
<1>0. GuardType /\ RequestType /\ HistType
  BY DEF TypeOK
<1> PICK b \in Ips : b = ip[r]
  BY <1>0 DEF RecordFailure, RequestType
<1>1. /\ pc[r] = "wrong" /\ ip[r] = b /\ UNCHANGED guesses
      /\ pc' = [pc EXCEPT ![r] = "idle"] /\ ip' = [ip EXCEPT ![r] = None]
      /\ \A a \in Ips \ {b} : failures'[a] = failures[a] /\ locked'[a] = locked[a]
      /\ failures'[b] = Capped(failures[b] + 1, MaxFails)
      /\ locked'[b] = IF TooMany(b) THEN Lockout ELSE locked[b]
  BY <1>0 DEF RecordFailure, Done, Goto, Relock, RequestType, GuardType
<1>2. /\ \A a \in Ips : Guessing(a)' \subseteq Guessing(a) /\ Failing(a)' \subseteq Failing(a)
      /\ \A a \in Ips \ {b} : Failing(a) \subseteq Failing(a)'
      /\ r \in Failing(b) /\ Failing(b)' \subseteq Failing(b) \ {r}
      /\ Failing(b) \ {r} \subseteq Failing(b)'
  <2>1. b # None
    BY ConstantsAssumption
  <2> QED  BY <1>0, <1>1, <2>1 DEF Guessing, Failing, AtStep, RequestType
<1>3. \A a \in Ips \ {b} : AccountOf(a)'
  BY <1>1, <1>2, AccountQuiet DEF GuessAccount
<1>4. AccountOf(b)'
  <2>1. /\ Cardinality(Guessing(b)) \in Nat /\ Cardinality(Guessing(b)') \in Nat
        /\ Cardinality(Failing(b)) \in Nat /\ Cardinality(Failing(b)') \in Nat
        /\ Cardinality(Requests) \in Nat
    BY AtStepFinite, ConstantsAssumption, FS_CardinalityType DEF Guessing, Failing
  <2>2. Cardinality(Guessing(b)') <= Cardinality(Guessing(b))
    BY <1>1, <1>2, AtStepFewer DEF Guessing
  <2>3. Cardinality(Failing(b)') = Cardinality(Failing(b)) - 1
    <3>1. Failing(b)' = Failing(b) \ {r}
      BY <1>2
    <3>2. IsFiniteSet(Failing(b))
      BY AtStepFinite DEF Failing
    <3> QED  BY <1>2, <3>1, <3>2, FS_RemoveElement
  <2>4. Cardinality(Guessing(b)) + Cardinality(Failing(b)) <= Cardinality(Requests)
    BY ShareRequests
  <2>5. failures[b] \in 0..MaxFails /\ locked[b] \in Nat /\ guesses[b] \in Nat
        /\ MaxFails \in Nat \ {0} /\ Lockout \in Nat \ {0}
    BY <1>0, <1>1, ConstantsAssumption DEF GuardType, HistType
  <2>6. AccountOf(b)
    BY <1>1 DEF GuessAccount
  <2>7. CASE locked[b] > 0
    BY <1>1, <2>1, <2>2, <2>5, <2>6, <2>7 DEF AccountOf
  <2>8. CASE locked[b] = 0 /\ TooMany(b)
    <3>1. guesses[b] <= (MaxFails - 1) + Cardinality(Failing(b))
      BY <2>1, <2>5, <2>6, <2>8 DEF AccountOf, Counted
    <3> QED  BY <1>1, <2>1, <2>2, <2>4, <2>5, <2>8, <3>1 DEF AccountOf
  <2>9. CASE locked[b] = 0 /\ ~TooMany(b)
    <3>1. Counted(b) = failures[b] /\ Counted(b)' = failures[b] + 1
      BY <1>1, <2>5, <2>9 DEF TooMany, Capped, Counted
    <3> QED  BY <1>1, <2>1, <2>3, <2>5, <2>6, <2>9, <3>1 DEF AccountOf
  <2> QED  BY <2>5, <2>7, <2>8, <2>9
<1> QED  BY <1>3, <1>4 DEF GuessAccount

\* A failed check is one guess more and one request that will report it.
LEMMA AccountGuess ==
  ASSUME TypeOK, GuessAccount, NEW r \in Requests, LoginWrong(r)
  PROVE  GuessAccount'
<1> USE DEF guardVars
<1>0. GuardType /\ RequestType /\ HistType
  BY DEF TypeOK
<1> PICK b \in Ips : b = ip[r]
  BY <1>0 DEF LoginWrong, RequestType
<1>1. /\ pc[r] = "login" /\ ip[r] = b /\ UNCHANGED <<failures, locked, ip>>
      /\ pc' = [pc EXCEPT ![r] = "wrong"]
      /\ guesses' = [guesses EXCEPT ![b] = @ + 1]
  BY <1>0 DEF LoginWrong, Goto, RequestType
<1>2. /\ \A a \in Ips : Guessing(a)' \subseteq Guessing(a) /\ Failing(a) \subseteq Failing(a)'
      /\ r \in Guessing(b) /\ Guessing(b)' \subseteq Guessing(b) \ {r}
      /\ r \notin Failing(b) /\ Failing(b) \cup {r} \subseteq Failing(b)'
  BY <1>0, <1>1 DEF Guessing, Failing, AtStep, RequestType
<1>3. \A a \in Ips \ {b} : AccountOf(a)'
  <2>1. \A a \in Ips \ {b} : guesses'[a] = guesses[a]
    BY <1>0, <1>1 DEF HistType
  <2> QED  BY <1>1, <1>2, <2>1, AccountQuiet DEF GuessAccount
<1>4. AccountOf(b)'
  <2>1. /\ Cardinality(Guessing(b)) \in Nat /\ Cardinality(Guessing(b)') \in Nat
        /\ Cardinality(Failing(b)) \in Nat /\ Cardinality(Failing(b)') \in Nat
        /\ Cardinality(Requests) \in Nat
    BY AtStepFinite, ConstantsAssumption, FS_CardinalityType DEF Guessing, Failing
  <2>2. Cardinality(Guessing(b)') + 1 <= Cardinality(Guessing(b))
    BY <1>2, AtStepLoses DEF Guessing
  <2>3. Cardinality(Failing(b)) + 1 <= Cardinality(Failing(b)')
    BY <1>2, AtStepGains DEF Failing
  <2>4. failures[b] \in Nat /\ locked[b] \in Nat /\ guesses[b] \in Nat /\ MaxFails \in Nat
        /\ guesses'[b] = guesses[b] + 1
    BY <1>0, <1>1, ConstantsAssumption DEF GuardType, HistType
  <2>5. AccountOf(b)
    BY <1>1 DEF GuessAccount
  <2> QED  BY <1>1, <2>1, <2>2, <2>3, <2>4, <2>5 DEF AccountOf, Counted
<1> QED  BY <1>3, <1>4 DEF GuessAccount

\* The other steps of a request record no failure.
LEMMA AccountRequest ==
  ASSUME TypeOK, TypeOK', GuessAccount, NEW r \in Requests, Request(r)
  PROVE  GuessAccount'
<1> USE DEF guardVars, requestVars, histVars
<1>0. GuardType /\ RequestType /\ HistType
  BY DEF TypeOK
<1>1. CASE \E u \in Users, a \in Ips : LoginStart(r, u, a)
  <2>1. PICK u \in Users, b \in Ips : LoginStart(r, u, b)
    BY <1>1
  <2>2. \A a \in Ips : /\ Failing(a) \subseteq Failing(a)'
                       /\ locked[a] = 0 \/ Guessing(a)' \subseteq Guessing(a)
    BY <1>0, <2>1
       DEF LoginStart, Goto, IsLocked, Failing, Guessing, AtStep, RequestType, GuardType
  <2>3. UNCHANGED <<failures, locked, guesses>>
    BY <2>1 DEF LoginStart
  <2> QED  BY <2>2, <2>3, AccountQuiet DEF GuessAccount
<1>2. CASE LoginWrong(r)
  BY <1>2, AccountGuess
<1>3. CASE RecordFailure(r)
  BY <1>3, AccountFailure
<1>4. CASE RecordSuccess(r)
  <2>1. PICK b \in Ips : b = ip[r]
    BY <1>0, <1>4 DEF RecordSuccess, RequestType
  <2>2. AccountOf(b)'
    BY <1>0, <1>4, <2>1, AccountClear DEF RecordSuccess, Forget
  <2>3. \A a \in Ips \ {b} : AccountOf(a)'
    <3>1. \A a \in Ips \ {b} :
            failures'[a] = failures[a] /\ locked'[a] = locked[a] /\ guesses'[a] = guesses[a]
      BY <1>4, <2>1 DEF RecordSuccess, Forget
    <3>2. \A a \in Ips : Failing(a) \subseteq Failing(a)' /\ Guessing(a)' \subseteq Guessing(a)
      BY <1>0, <1>4 DEF RecordSuccess, Goto, Failing, Guessing, AtStep, RequestType
    <3> QED  BY <3>1, <3>2, AccountQuiet DEF GuessAccount
  <2> QED  BY <2>2, <2>3 DEF GuessAccount
<1>5. CASE \/ LoginRight(r) \/ GetUserByID(r) \/ CheckCurrent(r) \/ UpdatePassword(r)
           \/ DeleteUserSessions(r) \/ RequestFails(r)
           \/ \E k \in Sessions : LoggedIn(r, k) \/ GetSession(r, k) \/ Renewed(r, k)
  <2>1. UNCHANGED <<failures, locked, guesses>>
    BY <1>5 DEF LoginRight, GetUserByID, CheckCurrent, UpdatePassword, DeleteUserSessions,
                RequestFails, LoggedIn, GetSession, Renewed, CreateSession
  <2>2. pc[r] # "wrong" /\ pc'[r] # "login"
    BY <1>0, <1>5
       DEF LoginRight, GetUserByID, CheckCurrent, UpdatePassword, DeleteUserSessions,
           RequestFails, LoggedIn, GetSession, Renewed, CreateSession, Done, Goto, RequestType
  <2>3. \A q \in Requests \ {r} : pc'[q] = pc[q] /\ ip'[q] = ip[q]
    BY <1>0, <1>5
       DEF LoginRight, GetUserByID, CheckCurrent, UpdatePassword, DeleteUserSessions,
           RequestFails, LoggedIn, GetSession, Renewed, CreateSession, Done, Goto, RequestType
  <2>4. \A a \in Ips : Failing(a) \subseteq Failing(a)' /\ Guessing(a)' \subseteq Guessing(a)
    BY <2>2, <2>3 DEF Failing, Guessing, AtStep
  <2> QED  BY <2>1, <2>4, AccountQuiet DEF GuessAccount
<1> QED  BY <1>1, <1>2, <1>3, <1>4, <1>5 DEF Request

\* Nor does anything else, and a lock that runs out starts the count anew.
LEMMA AccountOthers ==
  ASSUME TypeOK, TypeOK', GuessAccount, Others \/ UNCHANGED vars
  PROVE  GuessAccount'
<1> USE DEF guardVars, requestVars, histVars
<1>0. GuardType /\ RequestType /\ HistType
  BY DEF TypeOK
<1>1. CASE Crash
  <2>1. \A a \in Ips : locked'[a] = 0 /\ guesses'[a] = 0
    BY <1>1 DEF Crash, Forget
  <2> QED  BY <2>1, AccountClear DEF GuessAccount
<1>2. CASE Tick
  <2>1. UNCHANGED <<pc, ip, failures>>
    BY <1>2 DEF Tick
  <2>2. \A a \in Ips : Failing(a)' = Failing(a) /\ Guessing(a)' = Guessing(a)
    BY <2>1 DEF Failing, Guessing, AtStep
  <2> SUFFICES ASSUME NEW a \in Ips PROVE AccountOf(a)'
    BY DEF GuessAccount
  <2>3. locked[a] \in Nat
    BY <1>0, ConstantsAssumption DEF GuardType
  <2>4. CASE locked[a] = 0
    BY <1>2, <2>1, <2>2, <2>4, AccountQuiet DEF Tick, GuessAccount
  <2>5. CASE locked[a] = 1
    BY <1>2, <2>5, AccountClear DEF Tick
  <2>6. CASE locked[a] > 1
    <3>1. locked'[a] > 0 /\ guesses'[a] = guesses[a]
      BY <1>2, <2>3, <2>6 DEF Tick
    <3>2. AccountOf(a)
      BY DEF GuessAccount
    <3> QED  BY <2>2, <2>3, <2>6, <3>1, <3>2 DEF AccountOf
  <2> QED  BY <2>3, <2>4, <2>5, <2>6
<1>3. CASE GuardCleanup
  <2>1. \A a \in Ips : \/ locked'[a] = 0 /\ guesses'[a] = 0
                       \/ UNCHANGED <<failures[a], locked[a], guesses[a]>>
    BY <1>3 DEF GuardCleanup, Forget
  <2>2. \A a \in Ips : Failing(a)' = Failing(a) /\ Guessing(a)' = Guessing(a)
    BY <1>3 DEF GuardCleanup, Failing, Guessing, AtStep
  <2>3. \A a \in Ips : AccountOf(a)'
    BY <2>1, <2>2, AccountClear, AccountQuiet DEF GuessAccount
  <2> QED  BY <2>3 DEF GuessAccount
<1>4. CASE \/ \E k \in Sessions : Logout(k)
           \/ \E u \in Users : CreateUser(u) \/ DeleteUser(u) \/ SetPassword(u)
           \/ CleanExpiredSessions \/ UNCHANGED vars
  <2>1. UNCHANGED <<failures, locked, guesses, pc, ip>>
    BY <1>4 DEF Logout, CreateUser, DeleteUser, SetPassword, CleanExpiredSessions, vars
  <2>2. \A a \in Ips : Failing(a)' = Failing(a) /\ Guessing(a)' = Guessing(a)
    BY <2>1 DEF Failing, Guessing, AtStep
  <2> QED  BY <2>1, <2>2, AccountQuiet DEF GuessAccount
<1> QED  BY <1>1, <1>2, <1>3, <1>4 DEF Others

\* An address gets no more than MaxFails guesses, and one for each further
\* request that was past IsLocked when the lock fell.
THEOREM GuessesBounded == Spec => []GuessesCapped
<1>1. Init => GuessAccount
  BY AccountInit
<1>2. TypeOK /\ TypeOK' /\ GuessAccount /\ [Next]_vars => GuessAccount'
  BY AccountRequest, AccountOthers DEF Next, Others
<1>3. TypeOK /\ GuessAccount => GuessesCapped
  <2> SUFFICES ASSUME TypeOK, GuessAccount, NEW a \in Ips
               PROVE  guesses[a] <= MaxFails + Cardinality(Requests) - 1
    BY DEF GuessesCapped
  <2>1. Cardinality(Guessing(a)) + Cardinality(Failing(a)) <= Cardinality(Requests)
    BY ShareRequests
  <2>2. /\ Cardinality(Guessing(a)) \in Nat /\ Cardinality(Failing(a)) \in Nat
        /\ Cardinality(Requests) \in Nat
    BY AtStepFinite, ConstantsAssumption, FS_CardinalityType DEF Guessing, Failing
  <2>3. failures[a] \in Nat /\ locked[a] \in Nat /\ guesses[a] \in Nat /\ MaxFails \in Nat \ {0}
    BY ConstantsAssumption DEF TypeOK, GuardType, HistType
  <2>4. AccountOf(a)
    BY DEF GuessAccount
  <2>5. CASE locked[a] > 0
    BY <2>2, <2>3, <2>4, <2>5 DEF AccountOf
  <2>6. CASE locked[a] = 0
    <3>1. Counted(a) <= MaxFails - 1 /\ Counted(a) \in Nat
      BY <2>3 DEF Counted
    <3> QED  BY <2>1, <2>2, <2>3, <2>4, <2>6, <3>1 DEF AccountOf
  <2> QED  BY <2>3, <2>5, <2>6
<1> QED  BY <1>1, <1>2, <1>3, TypeCorrect, PTL DEF Spec
=============================================================================
