------------------------- MODULE BroadcasterProofs -------------------------
(* Proofs about Broadcaster, for any broadcasts, recipients, batch size,   *)
(* number of attempts and number of faults.                                *)
EXTENDS Broadcaster, FiniteSetTheorems, TLAPS

-----------------------------------------------------------------------------
(* The inductive invariant                                                 *)

\* The steps that deal with the first delivery of the batch.
Delivering == {"load", "send", "sent", "unsaved", "fail"}

\* What of its local variables the worker holds at each step.
PassInv ==
  /\ pc \in Delivering => batch # {} /\ fetched
  /\ pc \notin Delivering => batch = {}
  /\ pc \in {"fetch", "wait", "pause"} => ~fetched
  /\ pc \notin {"close", "done"} => closing = {}
  /\ pc = "done" => closing # {} /\ Finished(Min(closing))

\* A delivery comes and goes with its broadcast; what the worker has fetched
\* or listed is as it was, or gone; and an open delivery may be tried again.
RowsInv ==
  /\ \A d \in Deliveries :
       /\ dstate[d] = "none" <=> bstate[Of[d]] = "none"
       /\ dstate[d] = "gone" <=> bstate[Of[d]] = "gone"
       /\ dstate[d] = "none" => attempts[d] = 0
       /\ dstate[d] = "pending" => attempts[d] < MaxAttempts
  /\ \A d \in batch : dstate[d] \in {"pending", "gone"}
  /\ \A b \in closing : bstate[b] \in {"sending", "gone"}

\* After a fetch that found nothing, what is open now came in since.
WakeupInv ==
  pc \in {"list", "close", "done", "wait"} /\ ~fetched /\ ~signal =>
    \A d \in Pending : Of[d] \in notifying

\* The mail of d has left, and nothing says so yet.
InFlight(d) == pc \in {"sent", "unsaved"} /\ d = Min(batch)

\* A delivery that may be mailed again has had a mail for each fault at most,
\* and a fault loses one mail of it at most.
FaultsInv ==
  /\ \A d \in Deliveries : lost[d] <= faults
  /\ \A d \in Deliveries : dstate[d] = "none" => mails[d] = 0
  /\ \A d \in Pending \cup batch : mails[d] <= faults \/ (pc = "sent" /\ d = Min(batch))
  /\ pc = "sent" => mails[Min(batch)] > 0

\* Every mail is an attempt, or lost, or in flight.
AttemptsInv ==
  /\ \A d \in Pending :
       /\ mails[d] <= attempts[d] + lost[d] + 1
       /\ ~InFlight(d) => mails[d] <= attempts[d] + lost[d]
  /\ \A d \in batch : ~InFlight(d) => mails[d] < MaxAttempts + lost[d]

IInv ==
  /\ TypeOK /\ PassInv /\ RowsInv /\ DoneMeansSettled /\ WakeupInv
  /\ FaultsInv /\ OneMailPerFault /\ AttemptsInv /\ DuplicatesCapped

-----------------------------------------------------------------------------
(* What the operators return *)

\* A set of row numbers that is not empty has a first.
LEMMA MinFact ==
  ASSUME NEW S \in SUBSET Nat, S # {}
  PROVE  Min(S) \in S /\ \A y \in S : Min(S) <= y
<1> DEFINE Less == {ss \in Nat \X Nat : ss[1] < ss[2]}
<1>1. IsWellFoundedOn(Less, Nat)
  BY NatLessThanWellFounded DEF OpToRel
<1>2. PICK x \in S : \A y \in S : ~(<<y, x>> \in Less)
  <2> HIDE DEF Less
  <2> QED  BY <1>1, WFMin
<1>3. \A y \in S : x <= y
  <2> SUFFICES ASSUME NEW y \in S  PROVE x <= y
    OBVIOUS
  <2>1. x \in Nat /\ y \in Nat
    OBVIOUS
  <2>2. <<y, x>> \in Less <=> y < x
    BY <2>1
  <2> QED  BY <1>2, <2>1, <2>2
<1>4. \E a \in S : \A b \in S : a <= b
  BY <1>3
<1> QED  BY <1>4, Zenon DEF Min

\* The query returns open deliveries, and none only when none is open.
LEMMA NextPendingFact ==
  /\ NextPendingDeliveries \subseteq Pending
  /\ NextPendingDeliveries = {} => Pending = {}
<1>1. NextPendingDeliveries \subseteq Pending
  BY DEF NextPendingDeliveries, Pending, Fetchable
<1>2. ASSUME Pending # {}  PROVE NextPendingDeliveries # {}
  <2>1. Pending \in SUBSET Nat
    BY ConstantsAssumption DEF Pending
  <2>2. Min(Pending) \in Pending /\ \A e \in Pending : Min(Pending) <= e
    BY <1>2, <2>1, MinFact
  <2>3. \A e \in Pending : e \in Nat
    BY <2>1
  <2>4. Cardinality({e \in Pending : e < Min(Pending)}) < BatchSize
    <3>1. {e \in Pending : e < Min(Pending)} = {}
      BY <2>2, <2>3
    <3> QED  BY <3>1, FS_EmptySet, ConstantsAssumption
  <2> QED  BY <2>2, <2>4 DEF NextPendingDeliveries, Pending, Fetchable
<1> QED  BY <1>1, <1>2

\* The worker deals with a delivery of its batch, and with a broadcast listed.
LEMMA FirstFact ==
  ASSUME TypeOK
  PROVE  /\ batch # {} => Min(batch) \in batch /\ Min(batch) \in Deliveries
         /\ closing # {} => Min(closing) \in closing /\ Min(closing) \in Broadcasts
BY MinFact, ConstantsAssumption DEF TypeOK, PassType

\* Where the loop body starts, and that it is the end of the batch or not.
LEMMA StartFact ==
  ASSUME NEW B, NEW C, mailer \in BOOLEAN
  PROVE  /\ B = {} => Start(B, C) = "list"
         /\ B # {} => Start(B, C) \in {"load", "send", "fail"}
BY DEF Start

\* The mail a failing write leaves behind is lost, once for each fault.
LEMMA LostFact ==
  ASSUME IInv, Fault,
         \/ UNCHANGED lost
         \/ batch # {} /\ lost' = [lost EXCEPT ![Min(batch)] = @ + 1]
  PROVE  /\ faults' = faults + 1 /\ faults' \in 0..MaxFaults
         /\ lost' \in [Deliveries -> 0..MaxFaults]
         /\ \A d \in Deliveries : lost'[d] <= faults' /\ lost[d] <= lost'[d]
<1> USE ConstantsAssumption
<1>0. HistType /\ \A d \in Deliveries : lost[d] <= faults
  BY DEF IInv, TypeOK, FaultsInv
<1>1. faults' = faults + 1 /\ faults' \in 0..MaxFaults
  BY <1>0 DEF HistType, Fault
<1>2. CASE UNCHANGED lost
  BY <1>0, <1>1, <1>2 DEF HistType
<1>3. CASE batch # {} /\ lost' = [lost EXCEPT ![Min(batch)] = @ + 1]
  <2>1. Min(batch) \in Deliveries
    BY <1>3, FirstFact DEF IInv
  <2>2. lost[Min(batch)] + 1 \in 0..MaxFaults
    <3>1. faults \in Nat
      BY <1>0 DEF HistType
    <3>2. lost[Min(batch)] \in 0..MaxFaults
      BY <1>0, <2>1 DEF HistType
    <3>3. lost[Min(batch)] <= faults
      BY <1>0, <2>1
    <3> QED  BY <1>1, <3>1, <3>2, <3>3
  <2>3. lost' \in [Deliveries -> 0..MaxFaults]
    BY <1>0, <1>3, <2>1, <2>2 DEF HistType
  <2>4. ASSUME NEW d \in Deliveries  PROVE lost'[d] <= faults' /\ lost[d] <= lost'[d]
    <3>1. lost[d] \in Nat /\ faults \in Nat /\ lost[d] <= faults
      BY <1>0 DEF HistType
    <3>2. lost'[d] = IF d = Min(batch) THEN lost[d] + 1 ELSE lost[d]
      BY <1>0, <1>3 DEF HistType
    <3> QED  BY <1>1, <3>1, <3>2
  <2> QED  BY <1>1, <2>3, <2>4
<1> QED  BY <1>2, <1>3

-----------------------------------------------------------------------------
(* Types *)

LEMMA InitType == Init => TypeOK
<1> SUFFICES ASSUME Init  PROVE TypeOK
  OBVIOUS
<1>1. DbType
  BY ConstantsAssumption DEF Init, DbType
<1>2. FlagType
  BY Zenon DEF Init, FlagType
<1>3. PassType
  BY DEF Init, PassType, Steps
<1>4. HistType
  BY ConstantsAssumption DEF Init, HistType
<1> QED  BY <1>1, <1>2, <1>3, <1>4 DEF TypeOK

LEMMA DbTypeStep ==
  ASSUME IInv, Next
  PROVE  DbType'
<1> USE ConstantsAssumption DEF dbVars, passVars, histVars
<1>0. TypeOK /\ DbType
  BY DEF IInv, TypeOK
<1>1. CASE UNCHANGED dbVars
  BY <1>0, <1>1 DEF DbType
<1>2. ASSUME NEW b \in Broadcasts, CreateBroadcast(b)  PROVE DbType'
  BY <1>0, <1>2 DEF DbType, CreateBroadcast
<1>3. ASSUME NEW l \in Waitlists, DeleteWaitlist(l)  PROVE DbType'
  BY <1>0, <1>3 DEF DbType, DeleteWaitlist
<1>4. CASE MarkDeliverySent
  BY <1>0, <1>4 DEF DbType, MarkDeliverySent
<1>5. CASE MarkDeliveryFailed
  <2>1. Min(batch) \in batch /\ Min(batch) \in Deliveries
    BY <1>5, FirstFact DEF IInv, PassInv, Delivering, MarkDeliveryFailed
  <2>2. Row(Min(batch)) => attempts[Min(batch)] < MaxAttempts
    BY <2>1 DEF IInv, RowsInv, Row
  <2>3. attempts' \in [Deliveries -> 0..MaxAttempts]
    BY <1>0, <1>5, <2>1, <2>2 DEF DbType, MarkDeliveryFailed
  <2> QED  BY <1>0, <1>5, <2>3 DEF DbType, MarkDeliveryFailed
<1>6. CASE MarkBroadcastDone
  BY <1>0, <1>6 DEF DbType, MarkBroadcastDone
<1> QED
  BY <1>1, <1>2, <1>3, <1>4, <1>5, <1>6
     DEF Next, Work, Request, PassFails, Crash, Notify, Fetch, LoadBroadcast, SendMail,
         SendErrs, SendErrsLate, MarkSentErrs, MarkFailedErrs, LoadErrs,
         ListSendingBroadcasts, ListErrs, CheckBroadcast, CloseErrs, PassEnds, Wake, IdleEnds

LEMMA FlagTypeStep ==
  ASSUME FlagType, Next
  PROVE  FlagType'
<1> USE DEF FlagType, passVars
<1>1. CASE Work
  BY <1>1, Zenon
     DEF Work, Fetch, LoadBroadcast, SendMail, SendErrs, SendErrsLate, MarkDeliverySent,
         MarkSentErrs, MarkDeliveryFailed, MarkFailedErrs, LoadErrs, ListSendingBroadcasts,
         ListErrs, CheckBroadcast, MarkBroadcastDone, CloseErrs, PassEnds, EmptyPass, Wake,
         IdleEnds
<1>2. CASE PassFails \/ Crash
  BY <1>2, Zenon DEF PassFails, Crash, EmptyPass
<1>3. CASE Request
  BY <1>3, Zenon DEF Request, CreateBroadcast, Notify, DeleteWaitlist
<1> QED  BY <1>1, <1>2, <1>3 DEF Next

LEMMA PassTypeStep ==
  ASSUME IInv, Next
  PROVE  PassType'
<1> USE DEF PassType, passVars, Steps
<1>0. PassType /\ TypeOK
  BY DEF IInv, TypeOK
<1>1. CASE Fetch
  <2>1. batch' \subseteq Deliveries
    BY <1>1, NextPendingFact DEF Fetch, Pending
  <2> QED  BY <1>0, <1>1, <2>1 DEF Fetch, Start
<1>2. CASE LoadBroadcast
  <2>1. Of[Min(batch)] \in Broadcasts
    BY <1>0, <1>2, FirstFact, ConstantsAssumption
       DEF LoadBroadcast, IInv, PassInv, Delivering
  <2> QED  BY <1>0, <1>2, <2>1 DEF LoadBroadcast
<1>3. CASE \/ SendMail \/ SendErrs \/ SendErrsLate \/ MarkSentErrs \/ LoadErrs
           \/ ListSendingBroadcasts \/ ListErrs
  BY <1>0, <1>3
     DEF SendMail, SendErrs, SendErrsLate, MarkSentErrs, LoadErrs, ListSendingBroadcasts, ListErrs
<1>4. CASE MarkDeliverySent \/ MarkDeliveryFailed \/ MarkFailedErrs
  BY <1>0, <1>4 DEF MarkDeliverySent, MarkDeliveryFailed, MarkFailedErrs, Drop, Start
<1>5. CASE CheckBroadcast \/ MarkBroadcastDone \/ CloseErrs \/ PassEnds \/ Wake \/ IdleEnds
  BY <1>0, <1>5
     DEF CheckBroadcast, MarkBroadcastDone, CloseErrs, PassEnds, EmptyPass, Wake, IdleEnds
<1>6. CASE PassFails \/ Crash
  BY <1>0, <1>6 DEF PassFails, Crash, EmptyPass
<1>7. CASE Request
  BY <1>0, <1>7 DEF Request, CreateBroadcast, Notify, DeleteWaitlist
<1> QED  BY <1>1, <1>2, <1>3, <1>4, <1>5, <1>6, <1>7 DEF Next, Work

LEMMA HistTypeStep ==
  ASSUME IInv, Next
  PROVE  HistType'
<1> USE ConstantsAssumption DEF HistType, histVars
<1>0. HistType /\ TypeOK /\ PassInv
  BY DEF IInv, TypeOK
<1>1. CASE UNCHANGED histVars
  BY <1>0, <1>1
<1>2. CASE SendMail \/ SendErrsLate
  <2>1. Min(batch) \in Deliveries
    BY <1>0, <1>2, FirstFact DEF SendMail, SendErrsLate, PassInv, Delivering
  <2> QED  BY <1>0, <1>2, <2>1 DEF SendMail, SendErrsLate, Fault
<1>3. CASE MarkFailedErrs \/ PassFails \/ Crash
  <2>1. pc \in {"sent", "unsaved", "fail"} => batch # {}
    BY <1>0 DEF PassInv, Delivering
  <2> QED  BY <1>0, <1>3, <2>1, LostFact DEF MarkFailedErrs, PassFails, Crash
<1>4. CASE MarkSentErrs \/ LoadErrs \/ ListErrs \/ CloseErrs
  BY <1>0, <1>4 DEF MarkSentErrs, LoadErrs, ListErrs, CloseErrs, Fault
<1> QED
  BY <1>1, <1>2, <1>3, <1>4
     DEF Next, Work, Request, CreateBroadcast, Notify, DeleteWaitlist, Fetch, LoadBroadcast,
         SendErrs, MarkDeliverySent, MarkDeliveryFailed, ListSendingBroadcasts, CheckBroadcast,
         MarkBroadcastDone, PassEnds, Wake, IdleEnds

-----------------------------------------------------------------------------
(* The steps of the worker, and what it holds at each                      *)

\* A request closes nothing and opens nothing that was open before.
LEMMA RequestKeepsFinished ==
  ASSUME IInv, Request, NEW b \in Broadcasts, bstate[b] # "none", Finished(b)
  PROVE  Finished(b)'
<1> USE DEF Finished, Recipients
<1>1. ASSUME NEW c \in Broadcasts, CreateBroadcast(c)  PROVE Finished(b)'
  BY <1>1 DEF CreateBroadcast
<1>2. ASSUME NEW l \in Waitlists, DeleteWaitlist(l)  PROVE Finished(b)'
  BY <1>2 DEF DeleteWaitlist
<1>3. ASSUME NEW c \in Broadcasts, Notify(c)  PROVE Finished(b)'
  BY <1>3 DEF Notify, dbVars
<1> QED  BY <1>1, <1>2, <1>3 DEF Request

LEMMA PassStep ==
  ASSUME IInv, Next
  PROVE  PassInv'
<1> USE DEF PassInv, Delivering, passVars
<1>0. PassInv /\ TypeOK /\ FlagType /\ RowsInv
  BY DEF IInv, TypeOK
<1>1. CASE Fetch
  <2>1. fetched' <=> batch' # {}
    BY <1>1, Zenon DEF Fetch
  <2>2. IF batch' = {} THEN pc' = "list" ELSE pc' \in {"load", "send", "fail"}
    BY <1>0, <1>1, StartFact DEF Fetch, FlagType
  <2>3. pc = "fetch" /\ closing' = closing
    BY <1>1 DEF Fetch
  <2> QED  BY <1>0, <2>1, <2>2, <2>3
<1>2. CASE LoadBroadcast \/ LoadErrs
  BY <1>0, <1>2 DEF LoadBroadcast, LoadErrs
<1>3. CASE SendMail \/ SendErrs \/ SendErrsLate \/ MarkSentErrs
  BY <1>0, <1>3 DEF SendMail, SendErrs, SendErrsLate, MarkSentErrs
<1>4. CASE MarkDeliverySent \/ MarkDeliveryFailed \/ MarkFailedErrs
  BY <1>0, <1>4, StartFact
     DEF MarkDeliverySent, MarkDeliveryFailed, MarkFailedErrs, Drop, FlagType
<1>5. CASE ListSendingBroadcasts \/ ListErrs
  BY <1>0, <1>5 DEF ListSendingBroadcasts, ListErrs
<1>6. CASE CheckBroadcast
  BY <1>0, <1>6 DEF CheckBroadcast, dbVars, Finished
<1>7. CASE MarkBroadcastDone \/ CloseErrs \/ PassEnds
  BY <1>0, <1>7 DEF MarkBroadcastDone, CloseErrs, PassEnds, EmptyPass
<1>8. CASE Wake \/ IdleEnds \/ PassFails \/ Crash
  BY <1>0, <1>8 DEF Wake, IdleEnds, PassFails, Crash, EmptyPass
<1>9. CASE Request
  <2>1. UNCHANGED <<pc, batch, fetched, closing>>
    BY <1>9 DEF Request, CreateBroadcast, Notify, DeleteWaitlist
  <2>2. pc = "done" => Finished(Min(closing))'
    <3> SUFFICES ASSUME pc = "done"  PROVE Finished(Min(closing))'
      OBVIOUS
    <3>1. Min(closing) \in closing /\ Min(closing) \in Broadcasts /\ Finished(Min(closing))
      BY <1>0, FirstFact
    <3>2. bstate[Min(closing)] # "none"
      BY <1>0, <3>1 DEF RowsInv
    <3> QED  BY <1>9, <2>1, <3>1, <3>2, RequestKeepsFinished DEF Finished
  <2> QED  BY <1>0, <2>1, <2>2
<1> QED  BY <1>1, <1>2, <1>3, <1>4, <1>5, <1>6, <1>7, <1>8, <1>9 DEF Next, Work

-----------------------------------------------------------------------------
(* Rows, and broadcasts that read as done                                  *)

\* What a step of the worker does to the rows: at most it settles or counts
\* the first delivery of its batch.
LEMMA WorkRows ==
  ASSUME IInv, Work \/ PassFails \/ Crash
  PROVE  \A d \in Deliveries :
           \/ dstate'[d] = dstate[d] /\ attempts'[d] = attempts[d]
           \/ /\ d = Min(batch) /\ d \in batch /\ dstate[d] = "pending"
              /\ dstate'[d] \in {"pending", "sent", "failed"} /\ batch' = batch \ {d}
              /\ dstate'[d] = "pending" => attempts'[d] = attempts[d] + 1 /\ attempts'[d] < MaxAttempts
<1>0. TypeOK /\ DbType /\ PassInv /\ RowsInv
  BY DEF IInv, TypeOK
<1>1. CASE UNCHANGED <<dstate, attempts>>
  BY <1>1
<1>2. CASE MarkDeliverySent
  <2>1. Min(batch) \in batch /\ Min(batch) \in Deliveries
    BY <1>0, <1>2, FirstFact DEF PassInv, Delivering, MarkDeliverySent
  <2> QED  BY <1>0, <1>2, <2>1 DEF MarkDeliverySent, DbType, RowsInv, Row, Drop
<1>3. CASE MarkDeliveryFailed
  <2>1. Min(batch) \in batch /\ Min(batch) \in Deliveries
    BY <1>0, <1>3, FirstFact DEF PassInv, Delivering, MarkDeliveryFailed
  <2>2. attempts[Min(batch)] \in 0..MaxAttempts /\ dstate[Min(batch)] \in {"pending", "gone"}
    BY <1>0, <2>1 DEF DbType, RowsInv
  <2>3. CASE dstate[Min(batch)] = "gone"
    BY <1>3, <2>3 DEF MarkDeliveryFailed, Row
  <2>4. CASE dstate[Min(batch)] = "pending"
    <3>1. attempts[Min(batch)] < MaxAttempts
      BY <1>0, <2>1, <2>4 DEF RowsInv
    <3> QED
      BY <1>0, <1>3, <2>1, <2>2, <2>4, <3>1, ConstantsAssumption
         DEF MarkDeliveryFailed, Row, DbType, Exhausted, Drop
  <2> QED  BY <2>2, <2>3, <2>4
<1> QED
  BY <1>1, <1>2, <1>3
     DEF Work, PassFails, Crash, Fetch, LoadBroadcast, SendMail, SendErrs, SendErrsLate,
         MarkSentErrs, MarkFailedErrs, LoadErrs, ListSendingBroadcasts, ListErrs,
         CheckBroadcast, MarkBroadcastDone, CloseErrs, PassEnds, Wake, IdleEnds, dbVars

\* And to the broadcasts: at most it closes the first of those it listed.
LEMMA WorkBroadcasts ==
  ASSUME IInv, Work \/ PassFails \/ Crash
  PROVE  \A b \in Broadcasts :
           \/ bstate'[b] = bstate[b]
           \/ /\ MarkBroadcastDone /\ b = Min(closing)
              /\ bstate[b] \in {"sending", "done"} /\ bstate'[b] = "done" /\ b \notin closing'
<1>1. CASE MarkBroadcastDone
  BY <1>1 DEF MarkBroadcastDone, IInv, TypeOK, DbType, Live
<1>2. CASE UNCHANGED bstate
  BY <1>2
<1> QED
  BY <1>1, <1>2
     DEF Work, PassFails, Crash, Fetch, LoadBroadcast, SendMail, SendErrs, SendErrsLate,
         MarkDeliverySent, MarkSentErrs, MarkDeliveryFailed, MarkFailedErrs, LoadErrs,
         ListSendingBroadcasts, ListErrs, CheckBroadcast, CloseErrs, PassEnds, Wake, IdleEnds, dbVars

LEMMA RowsStep ==
  ASSUME IInv, Next
  PROVE  RowsInv'
<1> USE DEF RowsInv, dbVars, passVars
<1>0. TypeOK /\ DbType /\ PassType /\ PassInv /\ RowsInv
  BY DEF IInv, TypeOK
<1>1. CASE Request
  <2>1. UNCHANGED <<batch, closing>>
    BY <1>1 DEF Request, CreateBroadcast, Notify, DeleteWaitlist
  <2>2. ASSUME NEW b \in Broadcasts, CreateBroadcast(b)  PROVE RowsInv'
    BY <1>0, <2>1, <2>2, ConstantsAssumption DEF CreateBroadcast, DbType, PassType, Recipients
  <2>3. ASSUME NEW l \in Waitlists, DeleteWaitlist(l)  PROVE RowsInv'
    BY <1>0, <2>1, <2>3, ConstantsAssumption DEF DeleteWaitlist, DbType, PassType, Live
  <2>4. ASSUME NEW b \in Broadcasts, Notify(b)  PROVE RowsInv'
    BY <1>0, <2>1, <2>4 DEF Notify
  <2> QED  BY <1>1, <2>2, <2>3, <2>4 DEF Request
<1>2. CASE Work \/ PassFails \/ Crash
  <2>1. \A d \in Deliveries : dstate'[d] = dstate[d] \/
            (dstate[d] = "pending" /\ dstate'[d] \in {"pending", "sent", "failed"})
    BY <1>2, WorkRows
  <2>2. \A b \in Broadcasts : bstate'[b] = bstate[b] \/
            (bstate[b] \in {"sending", "done"} /\ bstate'[b] = "done" /\ b \notin closing')
    BY <1>2, WorkBroadcasts
  <2>3. \A d \in Deliveries : /\ dstate'[d] = "none" => attempts'[d] = 0
                              /\ dstate'[d] = "pending" => attempts'[d] < MaxAttempts
    BY <1>0, <1>2, WorkRows
  <2>4. ASSUME NEW d \in batch'  PROVE dstate'[d] \in {"pending", "gone"}
    <3>1. CASE Fetch
      BY <1>0, <2>4, <3>1, NextPendingFact DEF Fetch, Pending
    <3>2. d \in batch \/ Fetch
      BY <1>2, <2>4
         DEF Work, PassFails, Crash, LoadBroadcast, SendMail, SendErrs, SendErrsLate, EmptyPass,
             MarkDeliverySent, MarkSentErrs, MarkDeliveryFailed, MarkFailedErrs, LoadErrs, Drop,
             ListSendingBroadcasts, ListErrs, CheckBroadcast, MarkBroadcastDone, CloseErrs, PassEnds,
             Wake, IdleEnds
    <3> QED  BY <1>0, <1>2, <2>4, <3>1, <3>2, WorkRows DEF PassType
  <2>5. ASSUME NEW b \in closing'  PROVE bstate'[b] \in {"sending", "gone"}
    <3>1. CASE ListSendingBroadcasts
      BY <2>5, <3>1 DEF ListSendingBroadcasts
    <3>2. b \in closing \/ ListSendingBroadcasts
      BY <1>2, <2>5
         DEF Work, PassFails, Crash, Fetch, LoadBroadcast, SendMail, SendErrs, SendErrsLate, EmptyPass,
             MarkDeliverySent, MarkSentErrs, MarkDeliveryFailed, MarkFailedErrs, LoadErrs, Drop,
             ListErrs, CheckBroadcast, MarkBroadcastDone, CloseErrs, PassEnds, Wake, IdleEnds
    <3> QED  BY <1>0, <2>2, <2>5, <3>1, <3>2 DEF PassType
  <2>6. ASSUME NEW d \in Deliveries
        PROVE  /\ dstate'[d] = "none" <=> bstate'[Of[d]] = "none"
               /\ dstate'[d] = "gone" <=> bstate'[Of[d]] = "gone"
    <3>1. Of[d] \in Broadcasts
      BY ConstantsAssumption
    <3> QED  BY <1>0, <2>1, <2>2, <3>1
  <2> QED  BY <2>3, <2>4, <2>5, <2>6
<1> QED  BY <1>1, <1>2 DEF Next

LEMMA DoneStep ==
  ASSUME IInv, Next
  PROVE  DoneMeansSettled'
<1> USE DEF DoneMeansSettled, Recipients, Pending, dbVars
<1>0. TypeOK /\ DbType /\ PassInv /\ RowsInv /\ DoneMeansSettled
  BY DEF IInv, TypeOK
<1> SUFFICES ASSUME NEW b \in Broadcasts, NEW d \in Deliveries, Of[d] = b, bstate'[b] = "done"
             PROVE  dstate'[d] # "pending"
  OBVIOUS
<1>1. CASE Request
  <2>1. ASSUME NEW c \in Broadcasts, CreateBroadcast(c)  PROVE dstate'[d] # "pending"
    BY <1>0, <2>1 DEF CreateBroadcast, DbType
  <2>2. ASSUME NEW l \in Waitlists, DeleteWaitlist(l)  PROVE dstate'[d] # "pending"
    BY <1>0, <2>2 DEF DeleteWaitlist
  <2>3. ASSUME NEW c \in Broadcasts, Notify(c)  PROVE dstate'[d] # "pending"
    BY <1>0, <2>3 DEF Notify
  <2> QED  BY <1>1, <2>1, <2>2, <2>3 DEF Request
<1>2. CASE MarkBroadcastDone
  BY <1>0, <1>2 DEF MarkBroadcastDone, PassInv, Finished, DbType
<1>3. CASE (Work \/ PassFails \/ Crash) /\ ~MarkBroadcastDone
  <2>1. bstate[b] = "done"
    BY <1>3, WorkBroadcasts
  <2> QED  BY <1>0, <1>3, <2>1, WorkRows
<1> QED  BY <1>1, <1>2, <1>3 DEF Next

-----------------------------------------------------------------------------
(* The wakeup                                                              *)

LEMMA WakeupStep ==
  ASSUME IInv, Next
  PROVE  WakeupInv'
<1> USE DEF WakeupInv, dbVars, passVars
<1>0. TypeOK /\ DbType /\ FlagType /\ PassInv /\ RowsInv /\ WakeupInv
  BY DEF IInv, TypeOK
<1> SUFFICES ASSUME pc' \in {"list", "close", "done", "wait"}, ~fetched', ~signal',
                    NEW d \in Deliveries, dstate'[d] = "pending"
             PROVE  Of[d] \in notifying'
  BY DEF Pending
<1>1. CASE Request
  <2>1. ASSUME NEW b \in Broadcasts, CreateBroadcast(b)  PROVE Of[d] \in notifying'
    BY <1>0, <2>1 DEF CreateBroadcast, DbType, Pending
  <2>2. ASSUME NEW l \in Waitlists, DeleteWaitlist(l)  PROVE Of[d] \in notifying'
    BY <1>0, <2>2 DEF DeleteWaitlist, DbType, Pending
  <2>3. ASSUME NEW b \in Broadcasts, Notify(b)  PROVE FALSE
    BY <2>3, Zenon DEF Notify
  <2> QED  BY <1>1, <2>1, <2>2, <2>3 DEF Request
<1>2. CASE Fetch
  <2>1. NextPendingDeliveries = {}
    BY <1>2, Zenon DEF Fetch
  <2> QED  BY <1>2, <2>1, NextPendingFact DEF Fetch, Pending
<1>3. CASE MarkDeliverySent \/ MarkDeliveryFailed \/ MarkFailedErrs
  BY <1>0, <1>3 DEF MarkDeliverySent, MarkDeliveryFailed, MarkFailedErrs, PassInv, Delivering
<1>4. CASE ListSendingBroadcasts \/ ListErrs \/ CheckBroadcast \/ MarkBroadcastDone \/ CloseErrs
  BY <1>0, <1>4
     DEF ListSendingBroadcasts, ListErrs, CheckBroadcast, MarkBroadcastDone, CloseErrs, Pending
<1>5. CASE PassEnds
  BY <1>0, <1>5 DEF PassEnds, Pending
<1>6. CASE \/ LoadBroadcast \/ SendMail \/ SendErrs \/ SendErrsLate \/ MarkSentErrs \/ LoadErrs
           \/ Wake \/ IdleEnds \/ PassFails \/ Crash
  BY <1>6
     DEF LoadBroadcast, SendMail, SendErrs, SendErrsLate, MarkSentErrs, LoadErrs, Wake, IdleEnds,
         PassFails, Crash
<1> QED  BY <1>1, <1>2, <1>3, <1>4, <1>5, <1>6 DEF Next, Work

-----------------------------------------------------------------------------
(* Mails, faults and attempts                                              *)

\* A row that is open after a step was open before it, or is new and has had
\* neither an attempt nor a mail.
LEMMA OpenFact ==
  ASSUME IInv, Next, NEW d \in Deliveries, dstate'[d] = "pending"
  PROVE  \/ dstate[d] = "pending"
         \/ Request /\ dstate[d] = "none" /\ attempts'[d] = 0 /\ mails[d] = 0
<1>0. DbType /\ RowsInv /\ FaultsInv
  BY DEF IInv, TypeOK
<1>1. CASE Request
  <2>1. ASSUME NEW b \in Broadcasts, CreateBroadcast(b), dstate[d] # "pending"
        PROVE  dstate[d] = "none" /\ attempts'[d] = attempts[d]
    BY <1>0, <2>1 DEF CreateBroadcast, DbType, RowsInv
  <2>2. ASSUME NEW l \in Waitlists, DeleteWaitlist(l)  PROVE dstate[d] = "pending"
    BY <1>0, <2>2 DEF DeleteWaitlist, DbType
  <2>3. ASSUME NEW b \in Broadcasts, Notify(b)  PROVE dstate[d] = "pending"
    BY <2>3 DEF Notify, dbVars
  <2> QED  BY <1>0, <1>1, <2>1, <2>2, <2>3 DEF Request, RowsInv, FaultsInv
<1>2. CASE Work \/ PassFails \/ Crash
  BY <1>2, WorkRows
<1> QED  BY <1>1, <1>2 DEF Next

LEMMA RequestKeeps ==
  ASSUME Request
  PROVE  UNCHANGED <<pc, batch, mails, lost, faults>>
BY DEF Request, CreateBroadcast, Notify, DeleteWaitlist, passVars, histVars

LEMMA FaultsStep ==
  ASSUME IInv, Next
  PROVE  FaultsInv' /\ OneMailPerFault'
<1> USE DEF FaultsInv, OneMailPerFault, Pending, histVars, dbVars, passVars
<1>0. /\ TypeOK /\ DbType /\ PassType /\ HistType /\ PassInv /\ RowsInv /\ FaultsInv
      /\ OneMailPerFault /\ faults \in Nat /\ \A d \in Deliveries : mails[d] \in Nat
  BY ConstantsAssumption DEF IInv, TypeOK, HistType
<1>1. batch # {} => Min(batch) \in batch /\ Min(batch) \in Deliveries
  BY <1>0, FirstFact
<1>2. CASE Request
  <2>1. UNCHANGED <<pc, batch, mails, lost, faults>>
    BY <1>2, RequestKeeps
  <2>2. \A d \in Deliveries : dstate'[d] = "none" => dstate[d] = "none"
    BY <1>0, <1>2 DEF Request, CreateBroadcast, Notify, DeleteWaitlist
  <2> QED  BY <1>0, <1>1, <1>2, <2>1, <2>2, OpenFact DEF Next
<1>3. ASSUME Work \/ PassFails \/ Crash
      PROVE  /\ \A d \in Deliveries : dstate'[d] = "none" <=> dstate[d] = "none"
             /\ \A d \in Deliveries : dstate'[d] = "pending" => dstate[d] = "pending"
  BY <1>3, WorkRows
<1>4. CASE SendMail
  <2>1. Min(batch) \in batch /\ dstate[Min(batch)] # "none" /\ mails[Min(batch)] <= faults
    BY <1>0, <1>1, <1>4 DEF SendMail, PassInv, Delivering, RowsInv
  <2>2. \A d \in Deliveries : mails'[d] = IF d = Min(batch) THEN mails[d] + 1 ELSE mails[d]
    BY <1>0, <1>1, <1>4 DEF SendMail, HistType
  <2>3. UNCHANGED <<batch, faults, lost, dstate>> /\ pc' = "sent" /\ pc = "send"
    BY <1>4 DEF SendMail
  <2> QED  BY <1>0, <1>1, <2>1, <2>2, <2>3 DEF PassType
<1>5. CASE SendErrsLate
  <2>1. Min(batch) \in batch /\ dstate[Min(batch)] # "none" /\ mails[Min(batch)] <= faults
    BY <1>0, <1>1, <1>5 DEF SendErrsLate, PassInv, Delivering, RowsInv
  <2>2. \A d \in Deliveries : mails'[d] = IF d = Min(batch) THEN mails[d] + 1 ELSE mails[d]
    BY <1>0, <1>1, <1>5 DEF SendErrsLate, HistType
  <2>3. UNCHANGED <<batch, lost, dstate>> /\ pc' = "unsaved" /\ pc = "send" /\ faults' = faults + 1
    BY <1>5 DEF SendErrsLate, Fault
  <2>4. \A d \in Pending \cup batch : d \in Deliveries /\ mails[d] <= faults
    BY <1>0, <2>3 DEF PassType
  <2>5. \A d \in Pending \cup batch : mails'[d] <= faults'
    BY <1>0, <2>2, <2>3, <2>4
  <2>6. \A d \in Deliveries : lost[d] <= faults /\ lost[d] \in Nat
    BY <1>0, ConstantsAssumption DEF HistType
  <2>7. \A d \in Deliveries : mails'[d] <= 1 + faults'
    BY <1>0, <2>1, <2>2, <2>3
  <2>8. \A d \in Deliveries : lost'[d] <= faults'
    BY <1>0, <2>3, <2>6
  <2> QED  BY <1>0, <2>1, <2>2, <2>3, <2>5, <2>7, <2>8
<1>6. CASE MarkSentErrs \/ LoadErrs \/ ListErrs \/ CloseErrs
  <2>1. /\ UNCHANGED <<batch, mails, lost, dstate>> /\ faults' = faults + 1
        /\ pc' # "sent"
    BY <1>6 DEF MarkSentErrs, LoadErrs, ListErrs, CloseErrs, Fault
  <2>2. \A d \in Deliveries : lost[d] <= faults /\ lost[d] \in Nat
    BY <1>0, ConstantsAssumption DEF HistType
  <2> QED  BY <1>0, <2>1, <2>2 DEF PassType
<1>7. CASE PassFails \/ Crash \/ MarkFailedErrs
  <2>1. /\ faults' = faults + 1 /\ UNCHANGED <<mails, dstate>> /\ pc' # "sent"
        /\ batch' = {} \/ (batch' = batch \ {Min(batch)} /\ pc # "sent")
    BY <1>7 DEF PassFails, Crash, MarkFailedErrs, EmptyPass, Drop, Start, Fault
  <2>2. \A d \in Deliveries : lost'[d] <= faults'
    <3>1. pc \in {"sent", "unsaved", "fail"} => batch # {}
      BY <1>0 DEF PassInv, Delivering
    <3> QED  BY <1>7, <3>1, LostFact DEF PassFails, Crash, MarkFailedErrs
  <2> QED  BY <1>0, <2>1, <2>2 DEF PassType
<1>8. CASE MarkDeliverySent \/ MarkDeliveryFailed
  <2>1. UNCHANGED histVars /\ pc' # "sent" /\ batch' = batch \ {Min(batch)}
    BY <1>8 DEF MarkDeliverySent, MarkDeliveryFailed, Drop, Start
  <2>2. pc = "sent" => dstate'[Min(batch)] # "pending"
    BY <1>0, <1>1, <1>8
       DEF MarkDeliverySent, MarkDeliveryFailed, PassInv, Delivering, DbType, RowsInv, Row
  <2> QED  BY <1>0, <1>3, <1>8, <2>1, <2>2 DEF Work, PassType
<1>9. CASE Fetch
  BY <1>0, <1>9, NextPendingFact DEF Fetch, Start, PassInv, Delivering
<1>10. CASE \/ LoadBroadcast \/ SendErrs \/ ListSendingBroadcasts \/ CheckBroadcast
            \/ MarkBroadcastDone \/ PassEnds \/ Wake \/ IdleEnds
  <2>1. /\ UNCHANGED <<dstate, histVars>> /\ batch' \subseteq batch
        /\ pc # "sent" /\ pc' # "sent"
    BY <1>10
       DEF LoadBroadcast, SendErrs, ListSendingBroadcasts, CheckBroadcast, MarkBroadcastDone,
           PassEnds, EmptyPass, Wake, IdleEnds
  <2> QED  BY <1>0, <2>1
<1> QED
  BY <1>2, <1>4, <1>5, <1>6, <1>7, <1>8, <1>9, <1>10 DEF Next, Work

LEMMA AttemptsStep ==
  ASSUME IInv, Next
  PROVE  AttemptsInv' /\ DuplicatesCapped'
<1> USE DEF AttemptsInv, DuplicatesCapped, Pending, InFlight, histVars, dbVars, passVars
<1>0. /\ TypeOK /\ DbType /\ PassType /\ HistType /\ PassInv /\ RowsInv /\ AttemptsInv
      /\ DuplicatesCapped /\ MaxAttempts \in Nat \ {0}
      /\ \A d \in Deliveries : mails[d] \in Nat /\ attempts[d] \in Nat /\ lost[d] \in Nat
  BY ConstantsAssumption DEF IInv, TypeOK, HistType, DbType
<1>1. batch # {} => Min(batch) \in batch /\ Min(batch) \in Deliveries
  BY <1>0, FirstFact
<1>2. pc \in Delivering => batch # {}
  BY <1>0 DEF PassInv
<1>3. CASE Request
  <2>1. UNCHANGED <<pc, batch, mails, lost, faults>>
    BY <1>3, RequestKeeps
  <2>2. \A d \in Deliveries : dstate'[d] = "pending" =>
            \/ dstate[d] = "pending" /\ attempts'[d] = attempts[d]
            \/ attempts'[d] = 0 /\ mails[d] = 0
    <3>1. \A d \in Deliveries : dstate'[d] = "pending" /\ dstate[d] = "pending" =>
            attempts'[d] = attempts[d]
      BY <1>0, <1>3 DEF Request, CreateBroadcast, Notify, DeleteWaitlist
    <3> QED  BY <1>3, <3>1, OpenFact DEF Next
  <2> QED  BY <1>0, <2>1, <2>2
<1>4. CASE SendMail \/ SendErrsLate
  <2>1. Min(batch) \in batch /\ pc = "send"
    BY <1>1, <1>2, <1>4 DEF SendMail, SendErrsLate, Delivering
  <2>2. \A d \in Deliveries : mails'[d] = IF d = Min(batch) THEN mails[d] + 1 ELSE mails[d]
    BY <1>0, <1>1, <1>4 DEF SendMail, SendErrsLate, HistType
  <2>3. UNCHANGED <<batch, lost, dstate, attempts>> /\ pc' \in {"sent", "unsaved"}
    BY <1>4 DEF SendMail, SendErrsLate
  <2> QED  BY <1>0, <1>1, <2>1, <2>2, <2>3 DEF PassType
<1>5. CASE MarkSentErrs
  BY <1>0, <1>1, <1>5 DEF MarkSentErrs, PassType
<1>6. CASE MarkDeliveryFailed
  <2>1. Min(batch) \in batch /\ Min(batch) \in Deliveries
    BY <1>1, <1>2, <1>6 DEF MarkDeliveryFailed, Delivering
  <2>2. UNCHANGED histVars /\ pc' \notin {"sent", "unsaved"} /\ batch' = batch \ {Min(batch)}
    BY <1>6 DEF MarkDeliveryFailed, Drop, Start
  <2>3. ASSUME NEW d \in Deliveries, dstate'[d] = "pending"
        PROVE  mails[d] <= attempts'[d] + lost[d]
    <3>1. \/ dstate[d] = "pending" /\ attempts'[d] = attempts[d] /\ d # Min(batch)
          \/ dstate[d] = "pending" /\ attempts'[d] = attempts[d] + 1
      BY <1>6, <2>1, <2>3, <1>0, WorkRows DEF Work, MarkDeliveryFailed, Row, DbType, Exhausted, RowsInv
    <3>2. /\ mails[d] <= attempts[d] + lost[d] + 1
          /\ d # Min(batch) => mails[d] <= attempts[d] + lost[d]
      BY <1>0, <3>1
    <3>3. mails[d] \in Nat /\ attempts[d] \in Nat /\ lost[d] \in Nat
      BY <1>0
    <3> QED  BY <3>1, <3>2, <3>3
  <2>4. \A d \in Deliveries : attempts'[d] \in Nat
    BY <1>6, DbTypeStep, ConstantsAssumption DEF Next, Work, DbType
  <2>5. \A d \in batch' : mails[d] < MaxAttempts + lost[d]
    BY <1>0, <2>2
  <2>6. \A d \in Pending' : mails[d] <= attempts'[d] + lost[d] /\ mails[d] <= attempts'[d] + lost[d] + 1
    BY <1>0, <2>3, <2>4
  <2> QED  BY <1>0, <2>2, <2>5, <2>6
<1>7. CASE MarkDeliverySent
  <2>1. UNCHANGED histVars /\ pc' \notin {"sent", "unsaved"} /\ batch' = batch \ {Min(batch)}
    BY <1>7 DEF MarkDeliverySent, Drop, Start
  <2>2. \A d \in Deliveries : dstate'[d] = "pending" =>
          dstate[d] = "pending" /\ attempts'[d] = attempts[d] /\ d # Min(batch)
    BY <1>0, <1>1, <1>2, <1>7 DEF MarkDeliverySent, Delivering, DbType, RowsInv, Row
  <2> QED  BY <1>0, <2>1, <2>2 DEF PassType
<1>8. CASE PassFails \/ Crash \/ MarkFailedErrs
  <2>1. /\ UNCHANGED <<mails, dstate, attempts>> /\ pc' \notin {"sent", "unsaved"}
        /\ batch' = {} \/ batch' = batch \ {Min(batch)}
        /\ pc \in {"sent", "unsaved"} => lost' = [lost EXCEPT ![Min(batch)] = @ + 1]
    BY <1>8 DEF PassFails, Crash, MarkFailedErrs, EmptyPass, Drop, Start
  <2>2. \A d \in Deliveries : lost'[d] \in Nat /\ lost[d] <= lost'[d]
    BY <1>2, <1>8, LostFact, ConstantsAssumption DEF PassFails, Crash, MarkFailedErrs, Delivering
  <2>3. \A d \in Deliveries : InFlight(d) => lost'[d] = lost[d] + 1
    BY <1>0, <1>1, <1>2, <2>1 DEF Delivering, HistType
  <2> QED  BY <1>0, <2>1, <2>2, <2>3 DEF PassType
<1>9. CASE Fetch
  <2>1. batch' \subseteq Pending /\ UNCHANGED <<dbVars, histVars>>
    BY <1>9, NextPendingFact DEF Fetch
  <2>2. pc = "fetch" /\ pc' \notin {"sent", "unsaved"}
    BY <1>9 DEF Fetch, Start
  <2> QED  BY <1>0, <2>1, <2>2 DEF RowsInv
<1>10. CASE \/ LoadBroadcast \/ SendErrs \/ ListSendingBroadcasts \/ CheckBroadcast \/ CloseErrs
            \/ MarkBroadcastDone \/ PassEnds \/ Wake \/ IdleEnds \/ LoadErrs \/ ListErrs
  <2>1. /\ UNCHANGED <<dstate, attempts, mails, lost>> /\ batch' \in {batch, {}}
        /\ pc \notin {"sent", "unsaved"} /\ pc' \notin {"sent", "unsaved"}
    BY <1>10
       DEF LoadBroadcast, SendErrs, ListSendingBroadcasts, CheckBroadcast, MarkBroadcastDone,
           CloseErrs, PassEnds, EmptyPass, Wake, IdleEnds, LoadErrs, ListErrs
  <2> QED  BY <1>0, <2>1
<1> QED
  BY <1>3, <1>4, <1>5, <1>6, <1>7, <1>8, <1>9, <1>10 DEF Next, Work

-----------------------------------------------------------------------------
(* The invariant                                                           *)

LEMMA InitInv == Init => IInv
<1> SUFFICES ASSUME Init  PROVE IInv
  OBVIOUS
<1>1. TypeOK
  BY InitType
<1>2. PassInv /\ WakeupInv
  BY DEF Init, PassInv, WakeupInv, Delivering
<1>3. RowsInv /\ DoneMeansSettled
  BY ConstantsAssumption DEF Init, RowsInv, DoneMeansSettled
<1>4. FaultsInv /\ OneMailPerFault
  BY DEF Init, FaultsInv, OneMailPerFault, Pending
<1>5. AttemptsInv /\ DuplicatesCapped
  BY ConstantsAssumption DEF Init, AttemptsInv, DuplicatesCapped, Pending
<1> QED  BY <1>1, <1>2, <1>3, <1>4, <1>5 DEF IInv

\* A step that changes nothing keeps all of it.
LEMMA StutterInv ==
  ASSUME IInv, UNCHANGED vars
  PROVE  IInv'
<1> USE DEF vars, dbVars, passVars, histVars
<1>0. UNCHANGED <<lists, bstate, dstate, attempts, notifying, signal, mailer, pc, batch,
                  fetched, cache, closing, faults, mails, lost>>
  OBVIOUS
<1>1. TypeOK'
  BY <1>0 DEF IInv, TypeOK, DbType, FlagType, PassType, HistType
<1>2. PassInv' /\ RowsInv' /\ DoneMeansSettled' /\ WakeupInv'
  BY <1>0 DEF IInv, PassInv, RowsInv, DoneMeansSettled, WakeupInv, Finished, Pending
<1>3. FaultsInv' /\ OneMailPerFault' /\ AttemptsInv' /\ DuplicatesCapped'
  BY <1>0 DEF IInv, FaultsInv, OneMailPerFault, AttemptsInv, DuplicatesCapped, InFlight, Pending
<1> QED  BY <1>1, <1>2, <1>3 DEF IInv

LEMMA StepInv ==
  ASSUME IInv, [Next]_vars
  PROVE  IInv'
<1>1. CASE Next
  <2>1. TypeOK'
    BY <1>1, DbTypeStep, FlagTypeStep, PassTypeStep, HistTypeStep DEF IInv, TypeOK
  <2> QED
    BY <1>1, <2>1, PassStep, RowsStep, DoneStep, WakeupStep, FaultsStep, AttemptsStep DEF IInv
<1> QED  BY <1>1, StutterInv

THEOREM Invariance == Spec => []IInv
BY InitInv, StepInv, PTL DEF Spec

THEOREM TypeCorrect == Spec => []TypeOK
BY Invariance, PTL DEF IInv

\* A broadcast reads as done only when no recipient is still to be tried.
THEOREM DoneSettled == Spec => []DoneMeansSettled
BY Invariance, PTL DEF IInv

\* However often the worker is cut short, a recipient gets one mail and one
\* more for each fault at most.
THEOREM MailsBounded == Spec => []OneMailPerFault
BY Invariance, PTL DEF IInv

\* A mail whose success cannot be saved counts as an attempt.
THEOREM DuplicatesBounded == Spec => []DuplicatesCapped
BY Invariance, PTL DEF IInv

\* A worker that waits has a signal, or nothing to do but what a request has
\* still to tell it about.
THEOREM WakeupKept == Spec => []NoLostWakeup
<1>1. IInv => NoLostWakeup
  BY DEF IInv, PassInv, WakeupInv, NoLostWakeup
<1> QED  BY <1>1, Invariance, PTL

-----------------------------------------------------------------------------
(* The refinement                                                          *)

Mailed == {d \in Deliveries : mails[d] > 0}

LEMMA PromiseInit == Init => Promise!Init
BY DEF Init, Promise!Init

\* What a request does is what the promise allows.
LEMMA PromiseRequest ==
  ASSUME IInv, Request
  PROVE  [Promise!Next]_(Promise!vars)
<1> USE DEF dbVars, passVars, histVars
<1>1. ASSUME NEW b \in Broadcasts, CreateBroadcast(b)  PROVE Promise!Create(b)
  BY <1>1 DEF CreateBroadcast, Promise!Create
<1>2. ASSUME NEW l \in Waitlists, DeleteWaitlist(l)
      PROVE  \E B \in SUBSET Broadcasts : Promise!Remove(B)
  <2> DEFINE gone == {b \in Broadcasts : ListOf[b] = l /\ Live(b)}
  <2>1. Promise!Remove(gone)
    BY <1>2 DEF DeleteWaitlist, Promise!Remove, Live
  <2> QED  BY <2>1
<1>3. ASSUME NEW b \in Broadcasts, Notify(b)  PROVE UNCHANGED Promise!vars
  BY <1>3 DEF Notify, Promise!vars
<1> QED  BY <1>1, <1>2, <1>3 DEF Request, Promise!Next

LEMMA PromiseStep ==
  ASSUME IInv, [Next]_vars
  PROVE  [Promise!Next]_(Promise!vars)
<1> USE DEF dbVars, passVars, histVars
<1>0. /\ TypeOK /\ DbType /\ PassType /\ HistType /\ PassInv /\ RowsInv /\ FaultsInv
      /\ \A d \in Deliveries : mails[d] \in Nat
  BY DEF IInv, TypeOK, HistType
<1>1. batch # {} => Min(batch) \in batch /\ Min(batch) \in Deliveries
  BY <1>0, FirstFact
<1>2. closing # {} => Min(closing) \in closing /\ Min(closing) \in Broadcasts
  BY <1>0, FirstFact
<1>3. CASE Request
  BY <1>3, PromiseRequest
<1>4. CASE SendMail \/ SendErrsLate
  <2>1. Min(batch) \in batch /\ dstate[Min(batch)] \in {"pending", "gone"}
    BY <1>0, <1>1, <1>4 DEF SendMail, SendErrsLate, PassInv, Delivering, RowsInv
  <2>2. \A d \in Deliveries : mails'[d] = IF d = Min(batch) THEN mails[d] + 1 ELSE mails[d]
    BY <1>0, <1>1, <1>4 DEF SendMail, SendErrsLate, HistType
  <2>3. Mailed' = Mailed \cup {Min(batch)}
    BY <1>0, <1>1, <2>1, <2>2 DEF Mailed
  <2>4. UNCHANGED <<bstate, dstate>>
    BY <1>4 DEF SendMail, SendErrsLate
  <2>5. Min(batch) \in Deliveries
    BY <1>1, <2>1
  <2> QED  BY <2>1, <2>3, <2>4, <2>5 DEF Promise!Mail, Promise!Next, Mailed
<1>5. CASE MarkDeliverySent
  <2>1. Min(batch) \in batch /\ mails[Min(batch)] > 0
    BY <1>0, <1>1, <1>5 DEF MarkDeliverySent, PassInv, Delivering, FaultsInv
  <2>2. CASE dstate[Min(batch)] = "pending"
    BY <1>1, <1>5, <2>1, <2>2 DEF MarkDeliverySent, Row, Promise!Settle, Promise!Next
  <2>3. CASE dstate[Min(batch)] = "gone"
    BY <1>5, <2>3 DEF MarkDeliverySent, Row, Promise!vars
  <2> QED  BY <1>0, <2>1, <2>2, <2>3 DEF RowsInv
<1>6. CASE MarkDeliveryFailed
  <2>1. Min(batch) \in batch
    BY <1>0, <1>1, <1>6 DEF MarkDeliveryFailed, PassInv, Delivering
  <2>2. CASE dstate[Min(batch)] = "pending" /\ Exhausted(Min(batch))
    BY <1>1, <1>6, <2>1, <2>2 DEF MarkDeliveryFailed, Row, Promise!Settle, Promise!Next
  <2>3. CASE dstate[Min(batch)] = "pending" /\ ~Exhausted(Min(batch))
    BY <1>0, <1>6, <2>1, <2>3 DEF MarkDeliveryFailed, Row, DbType, Promise!vars
  <2>4. CASE dstate[Min(batch)] = "gone"
    BY <1>6, <2>4 DEF MarkDeliveryFailed, Row, Promise!vars
  <2> QED  BY <1>0, <2>1, <2>2, <2>3, <2>4 DEF RowsInv
<1>7. CASE MarkBroadcastDone
  <2>1. Min(closing) \in closing /\ Finished(Min(closing))
    BY <1>0, <1>2, <1>7 DEF MarkBroadcastDone, PassInv
  <2>2. CASE bstate[Min(closing)] = "sending"
    BY <1>2, <1>7, <2>1, <2>2
       DEF MarkBroadcastDone, Live, Finished, Recipients,
           Promise!Recipients, Promise!Close, Promise!Next
  <2>3. CASE bstate[Min(closing)] = "gone"
    BY <1>7, <2>3 DEF MarkBroadcastDone, Live, Promise!vars
  <2> QED  BY <1>0, <2>1, <2>2, <2>3 DEF RowsInv
<1>8. CASE UNCHANGED <<bstate, dstate, mails>>
  BY <1>8 DEF Promise!vars
<1> QED
  BY <1>3, <1>4, <1>5, <1>6, <1>7, <1>8
     DEF vars, Next, Work, PassFails, Crash, Fetch, LoadBroadcast, SendErrs, MarkSentErrs,
         MarkFailedErrs, LoadErrs, ListSendingBroadcasts, ListErrs, CheckBroadcast, CloseErrs,
         PassEnds, Wake, IdleEnds

\* Whatever fails, the worker and the requests do to broadcasts, deliveries
\* and mails what BroadcastPromise says, step by step: a delivery is settled
\* once, as sent only if its mail left, and a broadcast closed when all are.
THEOREM WorkerKeepsPromise == Spec => Promise!Init /\ [][Promise!Next]_(Promise!vars)
BY PromiseInit, PromiseStep, Invariance, PTL DEF Spec
=============================================================================
