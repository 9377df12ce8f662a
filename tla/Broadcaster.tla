---------------------------- MODULE Broadcaster ----------------------------
(***************************************************************************)
(* The broadcast worker: one goroutine drains the deliveries table, a      *)
(* batch at a time, mailing each pending row and recording the result,     *)
(* then closes the broadcasts that have no pending row left.  Requests     *)
(* create broadcasts and delete waitlists between any two of its           *)
(* statements.  A mail may fail at will; a store call, a panic and a crash *)
(* may too, MaxFaults times in a behaviour.                                *)
(*                                                                         *)
(* A delivery is named by its rowid, and broadcasts by the order they are  *)
(* created in, so "ORDER BY rowid" is the order of the numbers.            *)
(***************************************************************************)
EXTENDS Integers, FiniteSets, FiniteSetsExt

CONSTANTS Broadcasts,   \* an interval 1..n: broadcasts in order of creation
          Deliveries,   \* an interval 1..m: deliveries in order of rowid
          Of,           \* the broadcast each delivery belongs to
          Waitlists,    \* waitlists
          ListOf,       \* the waitlist each broadcast is for
          BatchSize,    \* deliveries pulled per pass
          MaxAttempts,  \* attempts before a delivery is marked failed
          MaxFaults     \* bound: failing store calls, panics and crashes

ASSUME ConstantsAssumption ==
  /\ Broadcasts \subseteq Nat /\ Deliveries \subseteq Nat
  /\ IsFiniteSet(Broadcasts) /\ IsFiniteSet(Deliveries)
  /\ Of \in [Deliveries -> Broadcasts]
  /\ ListOf \in [Broadcasts -> Waitlists]
  /\ BatchSize \in Nat \ {0} /\ MaxAttempts \in Nat \ {0} /\ MaxFaults \in Nat

VARIABLES
  lists,     \* the waitlists that exist
  bstate,    \* broadcasts.status: none before, gone after its waitlist
  dstate,    \* deliveries.status
  attempts,  \* deliveries.attempts
  notifying, \* broadcasts committed by a request that has yet to call Notify
  signal,    \* the wakeup channel holds a value
  mailer,    \* the worker has a mailer: this process was started with SMTP
  pc,        \* the worker's step
  batch,     \* deliveries it fetched and has not dealt with
  fetched,   \* whether this pass fetched any
  cache,     \* bcache: broadcasts it has loaded in this pass
  closing    \* broadcasts finalize has listed and not dealt with

\* History, read by no action but as the bound on faults.
VARIABLES
  faults,    \* failed store calls, panics, crashes and mails that left but erred
  mails,     \* mails that left for a delivery
  lost       \* mails of a delivery that neither write recorded

dbVars   == <<lists, bstate, dstate, attempts>>
passVars == <<mailer, batch, fetched, cache, closing>>
histVars == <<faults, mails, lost>>
vars == <<dbVars, notifying, signal, pc, passVars, histVars>>

Steps == {"fetch", "load", "send", "sent", "unsaved", "fail", "list",
          "close", "done", "wait", "pause"}

\* The steps of RunOnce between the fetch and the last broadcast closed.
InPass == Steps \ {"fetch", "wait", "pause"}

Recipients(b) == {d \in Deliveries : Of[d] = b}
Pending       == {d \in Deliveries : dstate[d] = "pending"}
Live(b)       == bstate[b] \in {"sending", "done"}
Row(d)        == dstate[d] \in {"pending", "sent", "failed"}

\* RunOnce's variables go when it returns.
EmptyPass == batch' = {} /\ fetched' = FALSE /\ cache' = {} /\ closing' = {}

Fault == faults < MaxFaults /\ faults' = faults + 1
-----------------------------------------------------------------------------
Init ==
  /\ lists = Waitlists
  /\ bstate = [b \in Broadcasts |-> "none"]
  /\ dstate = [d \in Deliveries |-> "none"]
  /\ attempts = [d \in Deliveries |-> 0]
  /\ notifying = {}
  /\ signal = FALSE
  /\ pc = "fetch"
  /\ mailer \in BOOLEAN
  /\ batch = {} /\ fetched = FALSE /\ cache = {} /\ closing = {}
  /\ faults = 0
  /\ mails = [d \in Deliveries |-> 0]
  /\ lost = [d \in Deliveries |-> 0]
-----------------------------------------------------------------------------
(* Requests *)

\* WaitlistHandler.CreateBroadcast, to the commit: the broadcast and one
\* pending delivery per signup.  A list with no signups is refused.
CreateBroadcast(b) ==
  /\ bstate[b] = "none" /\ ListOf[b] \in lists
  /\ \A a \in Broadcasts : a < b => bstate[a] # "none"
  /\ Recipients(b) # {}
  /\ bstate' = [bstate EXCEPT ![b] = "sending"]
  /\ dstate' = [d \in Deliveries |-> IF Of[d] = b THEN "pending" ELSE dstate[d]]
  /\ notifying' = notifying \cup {b}
  /\ UNCHANGED <<lists, attempts, signal, pc, passVars, histVars>>

\* Mutant: an unbuffered wakeup, lost unless the worker is waiting for it.
Notify_Unbuffered(b) ==
  /\ b \in notifying
  /\ notifying' = notifying \ {b}
  /\ signal' = (signal \/ pc = "wait")
  /\ UNCHANGED <<dbVars, pc, passVars, histVars>>

\* Worker.Notify: fills the channel, or finds it full.
Notify(b) ==
  /\ b \in notifying
  /\ notifying' = notifying \ {b}
  /\ signal' = TRUE
  /\ UNCHANGED <<dbVars, pc, passVars, histVars>>

\* DeleteWaitlist: its broadcasts and their deliveries go by cascade.
DeleteWaitlist(l) ==
  LET gone == {b \in Broadcasts : ListOf[b] = l /\ Live(b)} IN
  /\ l \in lists
  /\ lists' = lists \ {l}
  /\ bstate' = [b \in Broadcasts |-> IF b \in gone THEN "gone" ELSE bstate[b]]
  /\ dstate' = [d \in Deliveries |-> IF Of[d] \in gone THEN "gone" ELSE dstate[d]]
  /\ attempts' = [d \in Deliveries |-> IF Of[d] \in gone THEN 0 ELSE attempts[d]]
  /\ UNCHANGED <<notifying, signal, pc, passVars, histVars>>
-----------------------------------------------------------------------------
(* The pass: fetch and deliver *)

\* Mutant: rows already marked sent are fetched again.
Fetchable_Unsettled(d) == dstate[d] \in {"pending", "sent"}

\* The WHERE of NextPendingDeliveries.
Fetchable(d) == dstate[d] = "pending"

\* NextPendingDeliveries: the first BatchSize of them by rowid.
NextPendingDeliveries ==
  LET open == {d \in Deliveries : Fetchable(d)} IN
  {d \in open : Cardinality({e \in open : e < d}) < BatchSize}

\* Where the loop body starts on the first of B, with the broadcasts C in
\* bcache: nothing in it before that step touches shared state.
Start(B, C) ==
  IF B = {} THEN "list"
  ELSE IF Of[Min(B)] \notin C THEN "load"
  ELSE IF mailer THEN "send" ELSE "fail"

Fetch ==
  /\ pc = "fetch"
  /\ batch' = NextPendingDeliveries
  /\ fetched' = (NextPendingDeliveries # {})
  /\ pc' = Start(batch', {})
  /\ UNCHANGED <<dbVars, notifying, signal, mailer, cache, closing, histVars>>

\* The pass returns an error, or panics: the loop sleeps before it tries again.
PassFails ==
  /\ pc = "fetch" \/ pc \in InPass
  /\ Fault
  /\ pc' = "pause"
  /\ EmptyPass
  /\ lost' = IF pc \in {"sent", "unsaved"}
               THEN [lost EXCEPT ![Min(batch)] = @ + 1] ELSE lost
  /\ UNCHANGED <<dbVars, notifying, signal, mailer, mails>>

\* GetBroadcast: the row is there, or the delivery fails without a send.
LoadBroadcast ==
  LET b == Of[Min(batch)] IN
  /\ pc = "load"
  /\ IF Live(b)
       THEN cache' = cache \cup {b} /\ pc' = (IF mailer THEN "send" ELSE "fail")
       ELSE pc' = "fail" /\ UNCHANGED cache
  /\ UNCHANGED <<dbVars, notifying, signal, mailer, batch, fetched, closing, histVars>>

LoadErrs ==
  /\ pc = "load" /\ Fault
  /\ pc' = "fail"
  /\ UNCHANGED <<dbVars, notifying, signal, passVars, mails, lost>>

SendMail ==
  /\ pc = "send"
  /\ mails' = [mails EXCEPT ![Min(batch)] = @ + 1]
  /\ pc' = "sent"
  /\ UNCHANGED <<dbVars, notifying, signal, passVars, faults, lost>>

\* sendGuarded returns an error, or recovered a panic: nothing left.
SendErrs ==
  /\ pc = "send"
  /\ pc' = "fail"
  /\ UNCHANGED <<dbVars, notifying, signal, passVars, histVars>>

\* The server took the mail and the session broke after it: recorded like a
\* failed send, and like a mail whose success was not saved.
SendErrsLate ==
  /\ pc = "send" /\ Fault
  /\ mails' = [mails EXCEPT ![Min(batch)] = @ + 1]
  /\ pc' = "unsaved"
  /\ UNCHANGED <<dbVars, notifying, signal, passVars, lost>>

Drop == batch' = batch \ {Min(batch)} /\ pc' = Start(batch', cache)

MarkDeliverySent ==
  LET d == Min(batch) IN
  /\ pc = "sent"
  /\ dstate' = IF Row(d) THEN [dstate EXCEPT ![d] = "sent"] ELSE dstate
  /\ Drop
  /\ UNCHANGED <<lists, bstate, attempts, notifying, signal, mailer, fetched, cache, closing, histVars>>

\* Mutant: logged and left pending, as if it had not been tried.
MarkSentErrs_MovesOn ==
  /\ pc = "sent" /\ Fault
  /\ Drop
  /\ UNCHANGED <<dbVars, notifying, signal, mailer, fetched, cache, closing, mails, lost>>

\* The mail left and MarkDeliverySent failed: it is counted as an attempt.
MarkSentErrs ==
  /\ pc = "sent" /\ Fault
  /\ pc' = "unsaved"
  /\ UNCHANGED <<dbVars, notifying, signal, passVars, mails, lost>>

\* Mutant: a failing delivery is never given up.
Exhausted_Never(d) == FALSE

\* The CASE of MarkDeliveryFailed.
Exhausted(d) == attempts[d] + 1 >= MaxAttempts

MarkDeliveryFailed ==
  LET d == Min(batch) IN
  /\ pc \in {"fail", "unsaved"}
  /\ IF Row(d)
       THEN /\ attempts' = [attempts EXCEPT ![d] = IF @ < MaxAttempts + 1 THEN @ + 1 ELSE @]
            /\ dstate' = [dstate EXCEPT ![d] = IF Exhausted(d) THEN "failed" ELSE "pending"]
       ELSE UNCHANGED <<attempts, dstate>>
  /\ Drop
  /\ UNCHANGED <<lists, bstate, notifying, signal, mailer, fetched, cache, closing, histVars>>

\* Not even that could be written: the row stays as it was.
MarkFailedErrs ==
  /\ pc \in {"fail", "unsaved"} /\ Fault
  /\ lost' = IF pc = "unsaved" THEN [lost EXCEPT ![Min(batch)] = @ + 1] ELSE lost
  /\ Drop
  /\ UNCHANGED <<dbVars, notifying, signal, mailer, fetched, cache, closing, mails>>
-----------------------------------------------------------------------------
(* The pass: finalize *)

ListSendingBroadcasts ==
  /\ pc = "list"
  /\ closing' = {b \in Broadcasts : bstate[b] = "sending"}
  /\ pc' = "close"
  /\ UNCHANGED <<dbVars, notifying, signal, batch, mailer, fetched, cache, histVars>>

\* finalize could not list them: the pass ends there.
ListErrs ==
  /\ pc = "list" /\ Fault
  /\ pc' = "close"
  /\ UNCHANGED <<dbVars, notifying, signal, passVars, mails, lost>>

\* Mutant: a broadcast counts as finished while a delivery awaits its retry.
Finished_Retrying(b) == \A d \in Recipients(b) : ~(dstate[d] = "pending" /\ attempts[d] = 0)

\* Not HasPendingDeliveries.
Finished(b) == \A d \in Recipients(b) : dstate[d] # "pending"

\* HasPendingDeliveries for the next one listed.
CheckBroadcast ==
  LET b == Min(closing) IN
  /\ pc = "close" /\ closing # {}
  /\ IF Finished(b)
       THEN pc' = "done" /\ UNCHANGED closing
       ELSE closing' = closing \ {b} /\ UNCHANGED pc
  /\ UNCHANGED <<dbVars, notifying, signal, batch, mailer, fetched, cache, histVars>>

MarkBroadcastDone ==
  LET b == Min(closing) IN
  /\ pc = "done"
  /\ bstate' = IF Live(b) THEN [bstate EXCEPT ![b] = "done"] ELSE bstate
  /\ closing' = closing \ {b}
  /\ pc' = "close"
  /\ UNCHANGED <<lists, dstate, attempts, notifying, signal, batch, mailer, fetched, cache, histVars>>

\* Either query failed for it: left for a later pass.
CloseErrs ==
  /\ pc = "done" \/ (pc = "close" /\ closing # {})
  /\ Fault
  /\ closing' = closing \ {Min(closing)}
  /\ pc' = "close"
  /\ UNCHANGED <<dbVars, notifying, signal, batch, mailer, fetched, cache, mails, lost>>

\* RunOnce returns; the loop goes straight on unless the batch was empty.
PassEnds ==
  /\ pc = "close" /\ closing = {}
  /\ pc' = IF fetched THEN "fetch" ELSE "wait"
  /\ EmptyPass
  /\ UNCHANGED <<dbVars, notifying, signal, mailer, histVars>>
-----------------------------------------------------------------------------
(* Between passes *)

Wake ==
  /\ pc = "wait" /\ signal
  /\ signal' = FALSE
  /\ pc' = "fetch"
  /\ UNCHANGED <<dbVars, notifying, passVars, histVars>>

\* Idle has passed: the poll of an empty queue, or the sleep after an error.
IdleEnds ==
  /\ pc \in {"wait", "pause"}
  /\ pc' = "fetch"
  /\ UNCHANGED <<dbVars, notifying, signal, passVars, histVars>>

\* The process dies and restarts, perhaps with another configuration: Start
\* begins with an empty channel.
Crash ==
  /\ Fault
  /\ pc' = "fetch"
  /\ EmptyPass
  /\ signal' = FALSE /\ notifying' = {}
  /\ mailer' \in BOOLEAN
  /\ lost' = IF pc \in {"sent", "unsaved"}
               THEN [lost EXCEPT ![Min(batch)] = @ + 1] ELSE lost
  /\ UNCHANGED <<dbVars, mails>>
-----------------------------------------------------------------------------
Work ==
  \/ Fetch \/ LoadBroadcast
  \/ SendMail \/ SendErrs \/ SendErrsLate
  \/ MarkDeliverySent \/ MarkSentErrs \/ MarkDeliveryFailed \/ MarkFailedErrs
  \/ LoadErrs \/ ListSendingBroadcasts \/ ListErrs
  \/ CheckBroadcast \/ MarkBroadcastDone \/ CloseErrs \/ PassEnds
  \/ Wake \/ IdleEnds

Request ==
  \/ \E b \in Broadcasts : CreateBroadcast(b) \/ Notify(b)
  \/ \E l \in Waitlists : DeleteWaitlist(l)

Next == Work \/ PassFails \/ Crash \/ Request

\* The worker's goroutine keeps running.
Spec == Init /\ [][Next]_vars /\ WF_vars(Work)
-----------------------------------------------------------------------------
(* Properties *)

DbType ==
  /\ lists \subseteq Waitlists
  /\ bstate \in [Broadcasts -> {"none", "sending", "done", "gone"}]
  /\ dstate \in [Deliveries -> {"none", "pending", "sent", "failed", "gone"}]
  /\ attempts \in [Deliveries -> 0..MaxAttempts]

FlagType == signal \in BOOLEAN /\ mailer \in BOOLEAN /\ fetched \in BOOLEAN

PassType ==
  /\ notifying \subseteq Broadcasts
  /\ pc \in Steps
  /\ batch \subseteq Deliveries
  /\ cache \subseteq Broadcasts /\ closing \subseteq Broadcasts

HistType ==
  /\ faults \in 0..MaxFaults
  /\ mails \in [Deliveries -> Nat]
  /\ lost \in [Deliveries -> 0..MaxFaults]

\* Statuses and steps are those of the code, and a delivery is never tried
\* more than MaxAttempts times.
TypeOK == DbType /\ FlagType /\ PassType /\ HistType

\* A broadcast reads as done only when no recipient is still to be tried.
DoneMeansSettled ==
  \A b \in Broadcasts : bstate[b] = "done" => Recipients(b) \cap Pending = {}

\* A recipient gets a broadcast once, and once more at most for each crash or
\* failing write: the worker alone never sends it twice.  (broadcaster.go:
\* "deliveries already marked sent are never fetched again".)
OneMailPerFault == \A d \in Deliveries : mails[d] <= 1 + faults

\* A mail that went out is always counted as an attempt when its success could
\* not be saved, so duplicates stop at MaxAttempts as long as some write goes
\* through.  (broadcaster.go: "MaxAttempts caps the duplicates at a handful".)
DuplicatesCapped == \A d \in Deliveries : mails[d] <= MaxAttempts + lost[d]

\* The wakeup is never lost: while the worker waits with no signal in the
\* channel, every pending delivery is one whose request has still to notify.
NoLostWakeup ==
  pc = "wait" /\ ~signal => \A d \in Pending : Of[d] \in notifying

\* The worker does what a broadcast promises, its ending included.
Promise == INSTANCE BroadcastPromise WITH mailed <- {d \in Deliveries : mails[d] > 0}
KeepsPromise == Promise!Spec
=============================================================================
