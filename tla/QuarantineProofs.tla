-------------------------- MODULE QuarantineProofs --------------------------
(* Proofs about Quarantine, for any sets of submissions, forms and workers. *)
EXTENDS Quarantine, FiniteSetTheorems, TLAPS

-----------------------------------------------------------------------------
(* Types *)

\* Deleting rows keeps every column and counter within its type.
LEMMA DeleteType ==
  ASSUME RowType, HistType, NEW S, Delete(S), UNCHANGED sentVars
  PROVE  RowType' /\ HistType'
<1>1. RowType'
  BY ConstantsAssumption DEF RowType, Delete, Unset, AgeCap
<1>2. HistType'
  BY ConstantsAssumption DEF HistType, Delete, AgeCap, sentVars
<1> QED  BY <1>1, <1>2

\* What a filter selects can be counted.
LEMMA MatchingCount ==
  ASSUME NEW f
  PROVE  Cardinality(Matching(f)) \in Nat
<1>1. IsFiniteSet(Matching(f))
  BY ConstantsAssumption, FS_Subset DEF Matching
<1> QED  BY <1>1, FS_CardinalityType

\* A worker that is done is well typed.
LEMMA FinishType ==
  ASSUME WorkerType, NEW w \in Workers, Finish(w)
  PROVE  WorkerType'
BY DEF WorkerType, Finish, Goto, Steps

\* The initial rows, workers and forms are well typed.
LEMMA InitType == Init => TypeOK
<1> SUFFICES ASSUME Init PROVE TypeOK
  OBVIOUS
<1>1. RowType
  BY ConstantsAssumption DEF Init, RowType, Unset, AgeCap
<1>2. FormType
  BY ConstantsAssumption DEF Init, FormType, NoCount, AnyAge
<1>3. WorkerType
  BY DEF Init, WorkerType, Steps, NoSub
<1>4. HistType
  BY ConstantsAssumption DEF Init, HistType, AgeCap
<1> QED  BY <1>1, <1>2, <1>3, <1>4 DEF TypeOK

\* A worker's step keeps the types.
LEMMA WorkerStepType ==
  ASSUME TypeOK, NEW w \in Workers, WorkerStep(w)
  PROVE  TypeOK'
<1>0. RowType /\ FormType /\ WorkerType /\ HistType
  BY DEF TypeOK
<1> USE DEF rowVars, formVars, workerVars, histVars, sentVars
<1>b. pc[w] # "idle" => sub[w] \in Ids
  BY <1>0 DEF WorkerType
<1>a. FormType'
  <2>1. UNCHANGED <<forms, channels, agreed>>
    BY DEF WorkerStep, SubmitStart, SubmitAccept, SubmitHold, RestoreLoad, RestoreForm,
           RestoreMove, RestoreMiss, RestoreGone, RestoreAlready, SendEmail, SkipEmail,
           SendWebhook, SkipWebhook, DeliverPanics, MarkNotified, StoreFails
  <2> QED  BY <1>0, <2>1 DEF FormType
<1>1. CASE \E s \in Ids : SubmitStart(w, s)
  <2>1. WorkerType'
    BY <1>0, <1>1 DEF SubmitStart, WorkerType, FormType, Goto, Steps, ConstantsAssumption
  <2> QED  BY <1>0, <1>a, <1>1, <2>1 DEF SubmitStart, TypeOK, RowType, HistType
<1>2. CASE SubmitAccept(w)
  <2>0. sub[w] \in Ids
    BY <1>2, <1>b DEF SubmitAccept
  <2>1. RowType'
    <3>1. /\ status' = [status EXCEPT ![sub[w]] = "inbox"]
          /\ read' = [read EXCEPT ![sub[w]] = FALSE]
          /\ notified' = [notified EXCEPT ![sub[w]] = TRUE]
          /\ heldAge' = [heldAge EXCEPT ![sub[w]] = Unset]
          /\ age' = [age EXCEPT ![sub[w]] = 0]
      BY <1>2 DEF SubmitAccept
    <3> QED  BY <1>0, <2>0, <3>1, ConstantsAssumption DEF RowType, Unset, AgeCap
  <2>2. WorkerType' /\ HistType'
    BY <1>0, <1>2 DEF SubmitAccept, WorkerType, HistType, Goto, Steps
  <2> QED  BY <1>a, <2>1, <2>2 DEF TypeOK
<1>3. CASE SubmitHold(w)
  <2>0. sub[w] \in Ids
    BY <1>3, <1>b DEF SubmitHold
  <2>1. RowType'
    <3>1. /\ status' = [status EXCEPT ![sub[w]] = "held"]
          /\ read' = [read EXCEPT ![sub[w]] = FALSE]
          /\ notified' = [notified EXCEPT ![sub[w]] = FALSE]
          /\ heldAge' = [heldAge EXCEPT ![sub[w]] = 0]
          /\ age' = [age EXCEPT ![sub[w]] = 0]
      BY <1>3 DEF SubmitHold, HeldStamp
    <3> QED  BY <1>0, <2>0, <3>1, ConstantsAssumption DEF RowType, Unset, AgeCap
  <2>2. HistType'
    <3>1. /\ arrival' = [arrival EXCEPT ![sub[w]] = "held"]
          /\ holds' = [holds EXCEPT ![sub[w]] = 1]
          /\ heldFor' = [heldFor EXCEPT ![sub[w]] = 0]
          /\ UNCHANGED <<restores, signals, sentVars>>
      BY <1>3 DEF SubmitHold
    <3> QED  BY <1>0, <2>0, <3>1, ConstantsAssumption DEF HistType, AgeCap
  <2> QED  BY <1>0, <1>a, <1>3, <2>1, <2>2, FinishType DEF SubmitHold, TypeOK
<1>4. CASE \E s \in Ids : RestoreLoad(w, s)
  BY <1>0, <1>a, <1>4 DEF RestoreLoad, TypeOK, RowType, WorkerType, HistType, Goto, Steps
<1>5. CASE RestoreForm(w)
  <2>1. WorkerType'
    BY <1>0, <1>5 DEF RestoreForm, WorkerType, FormType, Goto, Steps
  <2> QED  BY <1>0, <1>a, <1>5, <2>1 DEF RestoreForm, TypeOK, RowType, HistType
<1>6. CASE RestoreMove(w)
  <2>0. sub[w] \in Ids
    BY <1>6, <1>b DEF RestoreMove
  <2>1. RowType'
    <3>1. /\ status' = [status EXCEPT ![sub[w]] = "inbox"]
          /\ read' = [read EXCEPT ![sub[w]] = FALSE]
          /\ heldAge' = [heldAge EXCEPT ![sub[w]] = Unset]
          /\ UNCHANGED <<notified, age>>
      BY <1>6 DEF RestoreMove
    <3> QED  BY <1>0, <2>0, <3>1, ConstantsAssumption DEF RowType, Unset, AgeCap
  <2>2. HistType'
    <3>1. /\ restores' = [restores EXCEPT ![sub[w]] = @ + 1]
          /\ UNCHANGED <<arrival, holds, signals, heldFor, sentVars>>
      BY <1>6 DEF RestoreMove
    <3> QED  BY <1>0, <2>0, <3>1 DEF HistType
  <2>3. WorkerType'
    BY <1>0, <1>6, FinishType DEF RestoreMove, WorkerType, Goto, Steps
  <2> QED  BY <1>a, <2>1, <2>2, <2>3 DEF TypeOK
<1>7. CASE RestoreMiss(w)
  BY <1>0, <1>a, <1>7 DEF RestoreMiss, TypeOK, RowType, WorkerType, HistType, Goto, Steps
<1>8. CASE RestoreGone(w) \/ RestoreAlready(w) \/ DeliverPanics(w) \/ StoreFails(w)
  BY <1>0, <1>a, <1>8, FinishType
     DEF RestoreGone, RestoreAlready, DeliverPanics, StoreFails, TypeOK, RowType, HistType
<1>9. CASE SendEmail(w) \/ SkipEmail(w)
  <2>1. WorkerType'
    BY <1>0, <1>9 DEF SendEmail, SkipEmail, WorkerType, Goto, Steps
  <2>2. HistType'
    BY <1>0, <1>9 DEF SendEmail, SkipEmail, HistType
  <2> QED  BY <1>0, <1>a, <1>9, <2>1, <2>2 DEF SendEmail, SkipEmail, TypeOK, RowType
<1>10. CASE SendWebhook(w) \/ SkipWebhook(w)
  <2>1. WorkerType'
    BY <1>0, <1>10, FinishType
       DEF SendWebhook, SkipWebhook, AfterDeliver, WorkerType, Goto, Steps
  <2>2. HistType'
    BY <1>0, <1>10 DEF SendWebhook, SkipWebhook, HistType
  <2> QED  BY <1>0, <1>a, <1>10, <2>1, <2>2 DEF SendWebhook, SkipWebhook, TypeOK, RowType
<1>11. CASE MarkNotified(w)
  <2>1. RowType'
    BY <1>0, <1>11 DEF MarkNotified, RowType, Stored
  <2> QED  BY <1>0, <1>a, <1>11, <2>1, FinishType DEF MarkNotified, TypeOK, HistType
<1> QED  BY <1>1, <1>2, <1>3, <1>4, <1>5, <1>6, <1>7, <1>8, <1>9, <1>10, <1>11 DEF WorkerStep

\* The steps of operators, MCP clients, the sweep and the clock keep the types.
LEMMA OperatorStepType ==
  ASSUME TypeOK, OperatorStep \/ PurgeHeldOlderThan \/ Tick
  PROVE  TypeOK'
<1>0. RowType /\ FormType /\ WorkerType /\ HistType
  BY DEF TypeOK
<1> USE DEF rowVars, formVars, workerVars, histVars, sentVars
<1>a. ASSUME NEW S, Delete(S), FormType', UNCHANGED <<workerVars, sentVars>>
      PROVE  TypeOK'
  BY <1>0, <1>a, DeleteType DEF TypeOK, WorkerType
<1>1. ASSUME NEW s \in Ids, MarkSpam(s) PROVE TypeOK'
  <2>1. RowType'
    <3>1. /\ status' = [status EXCEPT ![s] = "held"]
          /\ read' = [read EXCEPT ![s] = FALSE]
          /\ heldAge' = [heldAge EXCEPT ![s] = 0]
          /\ UNCHANGED <<notified, age>>
      BY <1>1 DEF MarkSpam, HeldStamp
    <3> QED  BY <1>0, <3>1, ConstantsAssumption DEF RowType, Unset, AgeCap
  <2>2. HistType'
    <3>1. /\ holds' = [holds EXCEPT ![s] = @ + 1]
          /\ signals' = [signals EXCEPT ![s] = @ + 1]
          /\ heldFor' = [heldFor EXCEPT ![s] = 0]
          /\ UNCHANGED <<arrival, restores, sentVars>>
      BY <1>1 DEF MarkSpam
    <3> QED  BY <1>0, <3>1, ConstantsAssumption DEF HistType, AgeCap
  <2> QED  BY <1>0, <1>1, <2>1, <2>2 DEF MarkSpam, TypeOK, FormType, WorkerType
<1>2. ASSUME NEW s \in Ids, NEW r \in BOOLEAN, SetRead(s, r) PROVE TypeOK'
  <2>1. RowType'
    BY <1>0, <1>2 DEF SetRead, RowType
  <2> QED  BY <1>0, <1>2, <2>1 DEF SetRead, TypeOK, FormType, WorkerType, HistType
<1>3. ASSUME NEW f \in Forms, MarkAllRead(f) PROVE TypeOK'
  <2>1. RowType'
    BY <1>0, <1>3 DEF MarkAllRead, RowType
  <2> QED  BY <1>0, <1>3, <2>1 DEF MarkAllRead, TypeOK, FormType, WorkerType, HistType
<1>4. ASSUME NEW f \in Forms, NEW S \in SUBSET Ids, DeleteSubmissions(f, S) PROVE TypeOK'
  BY <1>0, <1>a, <1>4 DEF DeleteSubmissions, FormType
<1>5. ASSUME NEW S \in SUBSET Ids, NEW F \in SUBSET Forms, DeleteHeld(S, F) PROVE TypeOK'
  BY <1>0, <1>a, <1>5 DEF DeleteHeld, FormType
<1>6. CASE DeleteAllHeld
  BY <1>0, <1>a, <1>6 DEF DeleteAllHeld, FormType
<1>7. ASSUME NEW F \in SUBSET Forms, NEW older \in {AnyAge} \cup 1..Retention, ListHeld(F, older)
      PROVE  TypeOK'
  <2>1. FormType'
    BY <1>0, <1>7, MatchingCount, ConstantsAssumption DEF ListHeld, FormType, AnyAge
  <2> QED  BY <1>0, <1>7, <2>1 DEF ListHeld, TypeOK, RowType, WorkerType, HistType
<1>8. CASE ClearHeld
  <2>1. FormType'
    BY <1>0, <1>8, ConstantsAssumption DEF ClearHeld, FormType, NoCount, AnyAge
  <2>2. CASE UNCHANGED <<rowVars, histVars>>
    BY <1>0, <1>8, <2>1, <2>2 DEF ClearHeld, TypeOK, RowType, WorkerType, HistType
  <2>3. CASE Delete(Matching([forms |-> agreed.forms, olderThan |-> agreed.olderThan]))
    BY <1>a, <1>8, <2>1, <2>3 DEF ClearHeld
  <2> QED  BY <1>8, <2>2, <2>3 DEF ClearHeld
<1>9. ASSUME NEW f \in Forms, NEW C \in SUBSET Channel, UpdateForm(f, C) PROVE TypeOK'
  <2>1. FormType'
    BY <1>0, <1>9 DEF UpdateForm, FormType
  <2> QED  BY <1>0, <1>9, <2>1 DEF UpdateForm, TypeOK, RowType, WorkerType, HistType
<1>10. ASSUME NEW f \in Forms, DeleteForm(f) PROVE TypeOK'
  <2>1. FormType'
    BY <1>0, <1>10 DEF DeleteForm, FormType
  <2> QED  BY <1>a, <1>10, <2>1 DEF DeleteForm
<1>11. CASE PurgeHeldOlderThan
  BY <1>0, <1>a, <1>11 DEF PurgeHeldOlderThan, FormType
<1>12. CASE Tick
  <2>1. RowType'
    BY <1>0, <1>12, ConstantsAssumption DEF Tick, Older, RowType, Unset, AgeCap
  <2>2. HistType'
    BY <1>0, <1>12, ConstantsAssumption DEF Tick, Older, HistType, AgeCap
  <2> QED  BY <1>0, <1>12, <2>1, <2>2 DEF Tick, TypeOK, FormType, WorkerType
<1> QED  BY <1>1, <1>2, <1>3, <1>4, <1>5, <1>6, <1>7, <1>8, <1>9, <1>10, <1>11, <1>12
     DEF OperatorStep

-----------------------------------------------------------------------------
(* The inductive invariant *)

\* Every step keeps the types.
LEMMA NextType == ASSUME TypeOK, [Next]_vars PROVE TypeOK'
<1>1. CASE \E w \in Workers : WorkerStep(w)
  BY <1>1, WorkerStepType
<1>2. CASE OperatorStep \/ PurgeHeldOlderThan \/ Tick
  BY <1>2, OperatorStepType
<1>3. CASE Crash
  <2>1. WorkerType'
    BY <1>3 DEF Crash, WorkerType, Steps, NoSub
  <2> QED  BY <1>3, <2>1 DEF Crash, TypeOK, RowType, FormType, HistType,
                             rowVars, formVars, histVars, sentVars
<1>4. CASE UNCHANGED vars
  BY <1>4 DEF vars, rowVars, formVars, workerVars, histVars, sentVars,
              TypeOK, RowType, FormType, WorkerType, HistType
<1> QED  BY <1>1, <1>2, <1>3, <1>4 DEF Next

\* Every reachable state is well typed: no column, step or counter ever takes
\* a value the code could not have written.
THEOREM TypeCorrect == Spec => []TypeOK
<1>1. Init => TypeOK
  BY InitType
<1>2. TypeOK /\ [Next]_vars => TypeOK'
  BY NextType
<1> QED  BY <1>1, <1>2, PTL DEF Spec

\* What the rows and their history alone satisfy.
RowFacts ==
  /\ RowHistory
  /\ HeldIsSilent /\ AcceptedIsDeliveredOnce /\ NotifiedMeansEmailed /\ OneSignalPerMark

\* A step that only moves workers keeps what is true of the rows.
LEMMA RowsUntouched ==
  ASSUME RowFacts, UNCHANGED <<rowVars, histVars, sentVars>>
  PROVE  RowFacts'
BY DEF RowFacts, rowVars, histVars, sentVars, RowHistory, HeldIsSilent, Stored,
       AcceptedIsDeliveredOnce, NotifiedMeansEmailed, OneSignalPerMark

\* The initial states satisfy the inductive invariant.
LEMMA InitIInv == Init => IInv
<1> SUFFICES ASSUME Init PROVE IInv
  OBVIOUS
<1>1. RowHistory
  BY DEF Init, RowHistory, Stored
<1>2. WorkerHistory /\ OneSubmitter
  BY DEF Init, WorkerHistory, OneSubmitter
<1>3. HeldIsSilent /\ AcceptedIsDeliveredOnce /\ NotifiedMeansEmailed /\ OneSignalPerMark
  BY DEF Init, HeldIsSilent, AcceptedIsDeliveredOnce, NotifiedMeansEmailed, OneSignalPerMark, Stored
<1> QED  BY <1>1, <1>2, <1>3, InitType DEF IInv

\* A worker that finishes while the rows stay as they are.
LEMMA FinishIInv ==
  ASSUME IInv, TypeOK', NEW w \in Workers, Finish(w),
         UNCHANGED <<rowVars, histVars, sentVars>>
  PROVE  IInv'
<1>1. RowFacts'
  BY RowsUntouched DEF IInv, RowFacts
<1>2. WorkerHistory'
  BY DEF IInv, TypeOK, WorkerType, WorkerHistory, Finish, Goto, rowVars, histVars, sentVars
<1>3. OneSubmitter'
  BY DEF IInv, TypeOK, WorkerType, OneSubmitter, Finish, Goto
<1> QED  BY <1>1, <1>2, <1>3 DEF IInv, RowFacts

\* Deleting stored rows, whatever workers are doing with them.
LEMMA DeleteIInv ==
  ASSUME IInv, TypeOK', NEW S, \A s \in S : s \in Ids /\ Stored(s), Delete(S),
         UNCHANGED <<workerVars, sentVars>>
  PROVE  IInv'
<1> USE DEF IInv, TypeOK, RowType, HistType, Delete, sentVars, Stored
<1>1. RowHistory'
  BY DEF RowHistory
<1>2. WorkerHistory'
  BY DEF WorkerHistory, WorkerType, workerVars
<1>3. OneSubmitter'
  BY DEF OneSubmitter, workerVars
<1>4. HeldIsSilent' /\ AcceptedIsDeliveredOnce'
  BY DEF HeldIsSilent, AcceptedIsDeliveredOnce
<1>5. NotifiedMeansEmailed' /\ OneSignalPerMark'
  BY DEF NotifiedMeansEmailed, OneSignalPerMark
<1> QED  BY <1>1, <1>2, <1>3, <1>4, <1>5

\* A worker's step keeps the inductive invariant.
LEMMA WorkerStepIInv ==
  ASSUME IInv, TypeOK', NEW w \in Workers, WorkerStep(w)
  PROVE  IInv'
<1> USE DEF rowVars, formVars, workerVars, histVars, sentVars
<1>0. RowFacts /\ WorkerHistory /\ OneSubmitter /\ WorkerType /\ RowType /\ HistType
  BY DEF IInv, RowFacts, TypeOK
<1>b. pc[w] # "idle" => sub[w] \in Ids
  BY <1>0 DEF WorkerType
<1>c. SUFFICES RowFacts' /\ WorkerHistory' /\ OneSubmitter'
  BY DEF IInv, RowFacts
<1>1. ASSUME NEW s \in Ids, SubmitStart(w, s) PROVE RowFacts' /\ WorkerHistory' /\ OneSubmitter'
  <2>1. RowFacts'
    BY <1>0, <1>1, RowsUntouched DEF SubmitStart
  <2>2. WorkerHistory'
    BY <1>0, <1>1 DEF SubmitStart, WorkerHistory, WorkerType, Goto
  <2>3. OneSubmitter'
    BY <1>0, <1>1 DEF SubmitStart, OneSubmitter, WorkerType
  <2> QED  BY <2>1, <2>2, <2>3
<1>2. CASE SubmitAccept(w)
  <2>0. sub[w] \in Ids /\ status[sub[w]] = "new" /\ job[w] = "submit"
    BY <1>0, <1>b, <1>2 DEF SubmitAccept, WorkerHistory
  <2>1. RowFacts'
    BY <1>0, <1>2, <2>0
       DEF SubmitAccept, RowFacts, RowHistory, HeldIsSilent, AcceptedIsDeliveredOnce,
           NotifiedMeansEmailed, OneSignalPerMark, Stored, RowType, HistType
  <2>2. WorkerHistory'
    BY <1>0, <1>2, <2>0
       DEF SubmitAccept, RowFacts, RowHistory, WorkerHistory, OneSubmitter, WorkerType,
           RowType, HistType, Goto
  <2>3. OneSubmitter'
    BY <1>0, <1>2 DEF SubmitAccept, OneSubmitter
  <2> QED  BY <2>1, <2>2, <2>3
<1>3. CASE SubmitHold(w)
  <2>0. sub[w] \in Ids /\ status[sub[w]] = "new" /\ job[w] = "submit"
    BY <1>0, <1>b, <1>3 DEF SubmitHold, WorkerHistory
  <2>1. RowFacts'
    BY <1>0, <1>3, <2>0
       DEF SubmitHold, RowFacts, RowHistory, HeldIsSilent, AcceptedIsDeliveredOnce,
           NotifiedMeansEmailed, OneSignalPerMark, Stored, RowType, HistType
  <2>2. WorkerHistory'
    BY <1>0, <1>3, <2>0
       DEF SubmitHold, RowFacts, RowHistory, WorkerHistory, OneSubmitter, WorkerType,
           RowType, HistType, Finish, Goto
  <2>3. OneSubmitter'
    BY <1>0, <1>3 DEF SubmitHold, OneSubmitter, WorkerType, Finish
  <2> QED  BY <2>1, <2>2, <2>3
<1>4. ASSUME NEW s \in Ids, RestoreLoad(w, s) PROVE RowFacts' /\ WorkerHistory' /\ OneSubmitter'
  <2>1. RowFacts'
    BY <1>0, <1>4, RowsUntouched DEF RestoreLoad
  <2>2. WorkerHistory'
    BY <1>0, <1>4 DEF RestoreLoad, WorkerHistory, WorkerType, Goto
  <2>3. OneSubmitter'
    BY <1>0, <1>4 DEF RestoreLoad, OneSubmitter, WorkerType
  <2> QED  BY <2>1, <2>2, <2>3
<1>5. CASE RestoreForm(w) \/ RestoreMiss(w)
  <2>1. RowFacts'
    BY <1>0, <1>5, RowsUntouched DEF RestoreForm, RestoreMiss
  <2>2. WorkerHistory'
    BY <1>0, <1>5 DEF RestoreForm, RestoreMiss, WorkerHistory, WorkerType, Goto
  <2>3. OneSubmitter'
    BY <1>0, <1>5 DEF RestoreForm, RestoreMiss, OneSubmitter
  <2> QED  BY <2>1, <2>2, <2>3
<1>6. CASE RestoreMove(w)
  <2>0. sub[w] \in Ids /\ status[sub[w]] = "held" /\ job[w] = "restore"
    BY <1>0, <1>b, <1>6 DEF RestoreMove, Restorable, WorkerHistory
  <2>1. RowFacts'
    <3>1. /\ status' = [status EXCEPT ![sub[w]] = "inbox"]
          /\ restores' = [restores EXCEPT ![sub[w]] = @ + 1]
          /\ UNCHANGED <<notified, arrival, holds, signals, emails, webhooks>>
      BY <1>6 DEF RestoreMove
    <3> QED  BY <1>0, <2>0, <3>1
        DEF RowFacts, RowHistory, HeldIsSilent, AcceptedIsDeliveredOnce,
            NotifiedMeansEmailed, OneSignalPerMark, Stored, RowType, HistType
  <2>2. WorkerHistory'
    <3>1. /\ status' = [status EXCEPT ![sub[w]] = "inbox"]
          /\ restores' = [restores EXCEPT ![sub[w]] = @ + 1]
          /\ UNCHANGED <<arrival, emails, webhooks>>
      BY <1>6 DEF RestoreMove
    <3>2. CASE notified[sub[w]]
      BY <1>0, <1>6, <2>0, <3>1, <3>2
         DEF RestoreMove, Owes, Finish, Goto, WorkerHistory, WorkerType, RowType, HistType
    <3>3. CASE ~notified[sub[w]]
      <4>1. arrival[sub[w]] = "held"
        BY <1>0, <2>0, <3>3 DEF RowFacts, RowHistory, Stored, HistType
      <4> QED  BY <1>0, <1>6, <2>0, <3>1, <3>3, <4>1
          DEF RestoreMove, Owes, Goto, WorkerHistory, WorkerType, RowType, HistType
    <3> QED  BY <3>2, <3>3
  <2>3. OneSubmitter'
    BY <1>0, <1>6 DEF RestoreMove, Finish, OneSubmitter, WorkerType
  <2> QED  BY <2>1, <2>2, <2>3
<1>7. CASE RestoreGone(w) \/ RestoreAlready(w) \/ DeliverPanics(w) \/ StoreFails(w)
  BY <1>7, FinishIInv DEF RestoreGone, RestoreAlready, DeliverPanics, StoreFails, IInv, RowFacts
<1>8. CASE SendEmail(w)
  <2>0. sub[w] \in Ids
    BY <1>b, <1>8 DEF SendEmail
  <2>1. RowFacts'
    BY <1>0, <1>8, <2>0
       DEF SendEmail, RowFacts, RowHistory, WorkerHistory, HeldIsSilent, AcceptedIsDeliveredOnce,
           NotifiedMeansEmailed, OneSignalPerMark, Stored, RowType, HistType, WorkerType
  <2>2. WorkerHistory'
    BY <1>0, <1>8, <2>0
       DEF SendEmail, WorkerHistory, OneSubmitter, WorkerType, RowType, HistType, Goto
  <2>3. OneSubmitter'
    BY <1>0, <1>8 DEF SendEmail, OneSubmitter
  <2> QED  BY <2>1, <2>2, <2>3
<1>9. CASE SkipEmail(w)
  <2>1. RowFacts'
    BY <1>0, <1>9, RowsUntouched DEF SkipEmail
  <2>2. WorkerHistory'
    BY <1>0, <1>9 DEF SkipEmail, WorkerHistory, WorkerType, Goto
  <2>3. OneSubmitter'
    BY <1>0, <1>9 DEF SkipEmail, OneSubmitter
  <2> QED  BY <2>1, <2>2, <2>3
<1>10. CASE SendWebhook(w)
  <2>0. sub[w] \in Ids
    BY <1>b, <1>10 DEF SendWebhook
  <2>1. RowFacts'
    BY <1>0, <1>10, <2>0
       DEF SendWebhook, RowFacts, RowHistory, WorkerHistory, HeldIsSilent, AcceptedIsDeliveredOnce,
           NotifiedMeansEmailed, OneSignalPerMark, Stored, RowType, HistType, WorkerType
  <2>2. WorkerHistory'
    BY <1>0, <1>10, <2>0
       DEF SendWebhook, AfterDeliver, Finish, WorkerHistory, OneSubmitter, WorkerType,
           RowType, HistType, Goto
  <2>3. OneSubmitter'
    BY <1>0, <1>10 DEF SendWebhook, AfterDeliver, Finish, OneSubmitter, WorkerType
  <2> QED  BY <2>1, <2>2, <2>3
<1>11. CASE SkipWebhook(w)
  <2>1. RowFacts'
    BY <1>0, <1>11, RowsUntouched DEF SkipWebhook
  <2>2. WorkerHistory'
    BY <1>0, <1>11 DEF SkipWebhook, AfterDeliver, Finish, WorkerHistory, WorkerType, Goto
  <2>3. OneSubmitter'
    BY <1>0, <1>11 DEF SkipWebhook, AfterDeliver, Finish, OneSubmitter, WorkerType
  <2> QED  BY <2>1, <2>2, <2>3
<1>12. CASE MarkNotified(w)
  <2>0. sub[w] \in Ids /\ emails[sub[w]] > 0
    BY <1>0, <1>b, <1>12 DEF MarkNotified, WorkerHistory
  <2>1. RowFacts'
    BY <1>0, <1>12, <2>0
       DEF MarkNotified, RowFacts, RowHistory, HeldIsSilent, AcceptedIsDeliveredOnce,
           NotifiedMeansEmailed, OneSignalPerMark, Stored, RowType, HistType
  <2>2. WorkerHistory'
    BY <1>0, <1>12 DEF MarkNotified, WorkerHistory, WorkerType, Finish, Goto
  <2>3. OneSubmitter'
    BY <1>0, <1>12 DEF MarkNotified, OneSubmitter, WorkerType, Finish
  <2> QED  BY <2>1, <2>2, <2>3
<1> QED  BY <1>1, <1>2, <1>3, <1>4, <1>5, <1>6, <1>7, <1>8, <1>9, <1>10, <1>11, <1>12
     DEF WorkerStep

\* The steps of operators, MCP clients, the sweep and the clock keep the
\* inductive invariant.
LEMMA OperatorStepIInv ==
  ASSUME IInv, TypeOK', OperatorStep \/ PurgeHeldOlderThan \/ Tick
  PROVE  IInv'
<1> USE DEF rowVars, formVars, workerVars, histVars, sentVars
<1>0. RowFacts /\ WorkerHistory /\ OneSubmitter /\ WorkerType /\ RowType /\ HistType
  BY DEF IInv, RowFacts, TypeOK
<1>a. ASSUME UNCHANGED <<status, notified, arrival, holds, restores, signals, workerVars, sentVars>>
      PROVE  IInv'
  BY <1>a DEF IInv, RowHistory, WorkerHistory, OneSubmitter, HeldIsSilent, Stored,
              AcceptedIsDeliveredOnce, NotifiedMeansEmailed, OneSignalPerMark
<1>1. ASSUME NEW s \in Ids, MarkSpam(s) PROVE IInv'
  <2>1. RowFacts'
    BY <1>0, <1>1
       DEF MarkSpam, RowFacts, RowHistory, HeldIsSilent, AcceptedIsDeliveredOnce,
           NotifiedMeansEmailed, OneSignalPerMark, Stored, RowType, HistType
  <2>2. WorkerHistory'
    BY <1>0, <1>1 DEF MarkSpam, WorkerHistory, WorkerType, RowType
  <2>3. OneSubmitter'
    BY <1>0, <1>1 DEF MarkSpam, OneSubmitter
  <2> QED  BY <2>1, <2>2, <2>3 DEF IInv, RowFacts
<1>2. ASSUME NEW s \in Ids, NEW r \in BOOLEAN, SetRead(s, r) PROVE IInv'
  BY <1>a, <1>2 DEF SetRead
<1>3. ASSUME NEW f \in Forms, MarkAllRead(f) PROVE IInv'
  BY <1>a, <1>3 DEF MarkAllRead
<1>4. ASSUME NEW f \in Forms, NEW S \in SUBSET Ids, DeleteSubmissions(f, S) PROVE IInv'
  BY <1>4, DeleteIInv DEF DeleteSubmissions
<1>5. ASSUME NEW S \in SUBSET Ids, NEW F \in SUBSET Forms, DeleteHeld(S, F) PROVE IInv'
  BY <1>5, DeleteIInv DEF DeleteHeld, Stored
<1>6. ASSUME NEW f, Delete(Matching(f)), UNCHANGED <<workerVars, sentVars>> PROVE IInv'
  BY <1>6, DeleteIInv DEF Matching, Matches, Stored
<1>7. CASE DeleteAllHeld \/ PurgeHeldOlderThan
  BY <1>6, <1>7 DEF DeleteAllHeld, PurgeHeldOlderThan
<1>8. ASSUME NEW F \in SUBSET Forms, NEW older \in {AnyAge} \cup 1..Retention, ListHeld(F, older)
      PROVE  IInv'
  BY <1>a, <1>8 DEF ListHeld
<1>9. CASE ClearHeld
  BY <1>a, <1>6, <1>9 DEF ClearHeld
<1>10. ASSUME NEW f \in Forms, NEW C \in SUBSET Channel, UpdateForm(f, C) PROVE IInv'
  BY <1>a, <1>10 DEF UpdateForm
<1>11. ASSUME NEW f \in Forms, DeleteForm(f) PROVE IInv'
  BY <1>11, DeleteIInv DEF DeleteForm, Rows
<1>12. CASE Tick
  BY <1>a, <1>12 DEF Tick
<1> QED  BY <1>1, <1>2, <1>3, <1>4, <1>5, <1>7, <1>8, <1>9, <1>10, <1>11, <1>12
     DEF OperatorStep

\* A crash loses every worker and nothing else.
LEMMA CrashIInv ==
  ASSUME IInv, TypeOK', Crash
  PROVE  IInv'
<1>1. RowFacts'
  BY RowsUntouched DEF Crash, IInv, RowFacts
<1>2. WorkerHistory' /\ OneSubmitter'
  BY DEF Crash, WorkerHistory, OneSubmitter
<1> QED  BY <1>1, <1>2 DEF IInv, RowFacts

\* The account of who was told what holds in every reachable state.
THEOREM Accounted == Spec => []IInv
<1>1. Init => IInv
  BY InitIInv
<1>2. IInv /\ [Next]_vars => IInv'
  <2> SUFFICES ASSUME IInv, [Next]_vars PROVE IInv'
    OBVIOUS
  <2>0. TypeOK'
    BY NextType DEF IInv
  <2>1. CASE \E w \in Workers : WorkerStep(w)
    BY <2>0, <2>1, WorkerStepIInv
  <2>2. CASE OperatorStep \/ PurgeHeldOlderThan \/ Tick
    BY <2>0, <2>2, OperatorStepIInv
  <2>3. CASE Crash
    BY <2>0, <2>3, CrashIInv
  <2>4. CASE UNCHANGED vars
    BY <2>0, <2>4 DEF vars, rowVars, workerVars, histVars, sentVars, IInv, RowHistory,
       WorkerHistory, OneSubmitter, HeldIsSilent, AcceptedIsDeliveredOnce,
       NotifiedMeansEmailed, OneSignalPerMark, Stored
  <2> QED  BY <2>1, <2>2, <2>3, <2>4 DEF Next
<1> QED  BY <1>1, <1>2, PTL DEF Spec

\* A held submission notifies nobody until it is restored.
THEOREM HeldSilence == Spec => []HeldIsSilent
BY Accounted, PTL DEF IInv

\* An accepted submission is delivered at most once per channel, for good.
THEOREM AcceptedOnce == Spec => []AcceptedIsDeliveredOnce
BY Accounted, PTL DEF IInv

\* A withheld notification is only recorded as sent when its email went.
THEOREM NotifiedTruth == Spec => []NotifiedMeansEmailed
BY Accounted, PTL DEF IInv

\* Each mark as spam leaves one signal, however often it is retried.
THEOREM SignalPerMark == Spec => []OneSignalPerMark
BY Accounted, PTL DEF IInv
-----------------------------------------------------------------------------
(* One delivery per restore *)

\* The workers that owe something for s can be counted.
LEMMA OwedFinite ==
  ASSUME NEW s, NEW steps
  PROVE  IsFiniteSet(Owed(s, steps)) /\ Cardinality(Owed(s, steps)) \in Nat
<1>1. IsFiniteSet(Owed(s, steps))
  BY ConstantsAssumption, FS_Subset DEF Owed
<1> QED  BY <1>1, FS_CardinalityType

\* Fewer workers owe less.
LEMMA OwedShrinks ==
  ASSUME NEW s, NEW steps, Owed(s, steps)' \subseteq Owed(s, steps)
  PROVE  /\ Cardinality(Owed(s, steps)') \in Nat
         /\ Cardinality(Owed(s, steps)') <= Cardinality(Owed(s, steps))
BY OwedFinite, FS_Subset, FS_CardinalityType

\* A worker that stops owing makes room for the delivery it made.
LEMMA OwedPaid ==
  ASSUME NEW s, NEW steps, NEW w \in Owed(s, steps), Owed(s, steps)' \subseteq Owed(s, steps) \ {w}
  PROVE  /\ Cardinality(Owed(s, steps)') \in Nat
         /\ Cardinality(Owed(s, steps)') + 1 <= Cardinality(Owed(s, steps))
<1>1. /\ IsFiniteSet(Owed(s, steps) \ {w})
      /\ Cardinality(Owed(s, steps) \ {w}) = Cardinality(Owed(s, steps)) - 1
  BY OwedFinite, FS_RemoveElement
<1>2. /\ Cardinality(Owed(s, steps)') <= Cardinality(Owed(s, steps) \ {w})
      /\ IsFiniteSet(Owed(s, steps)')
  BY <1>1, FS_Subset
<1>3. /\ Cardinality(Owed(s, steps)') \in Nat
      /\ Cardinality(Owed(s, steps)) \in Nat
  BY <1>2, OwedFinite, FS_CardinalityType
<1>4. Cardinality(Owed(s, steps) \ {w}) \in Nat
  BY <1>1, FS_CardinalityType
<1> QED  BY <1>1, <1>2, <1>3, <1>4

\* One more worker owes one delivery more.
LEMMA OwedGrows ==
  ASSUME NEW s, NEW steps, NEW w, Owed(s, steps)' \subseteq Owed(s, steps) \cup {w}
  PROVE  /\ Cardinality(Owed(s, steps)') \in Nat
         /\ Cardinality(Owed(s, steps)') <= Cardinality(Owed(s, steps)) + 1
<1>0. IsFiniteSet(Owed(s, steps)) /\ Cardinality(Owed(s, steps)) \in Nat
  BY OwedFinite
<1>1. /\ IsFiniteSet(Owed(s, steps) \cup {w})
      /\ Cardinality(Owed(s, steps) \cup {w}) <= Cardinality(Owed(s, steps)) + 1
  BY <1>0, FS_AddElement
<1>2. /\ Cardinality(Owed(s, steps)') <= Cardinality(Owed(s, steps) \cup {w})
      /\ IsFiniteSet(Owed(s, steps)')
  BY <1>1, FS_Subset
<1>3. /\ Cardinality(Owed(s, steps)') \in Nat
      /\ Cardinality(Owed(s, steps)) \in Nat
  BY <1>2, OwedFinite, FS_CardinalityType
<1>4. Cardinality(Owed(s, steps) \cup {w}) \in Nat
  BY <1>1, FS_CardinalityType
<1> QED  BY <1>1, <1>2, <1>3, <1>4

\* A step that sends nothing for s and puts no worker to it keeps its account.
LEMMA ReleaseQuiet ==
  ASSUME Accounts, NEW s \in Ids, arrival[s] = "held",
         emails'[s] = emails[s], webhooks'[s] = webhooks[s], restores'[s] = restores[s],
         \A steps \in {{"email"}, {"email", "webhook"}} :
           Owed(s, steps)' \subseteq Owed(s, steps)
  PROVE  /\ emails'[s] + Cardinality(Owed(s, {"email"})') <= restores'[s]
         /\ webhooks'[s] + Cardinality(Owed(s, {"email", "webhook"})') <= restores'[s]
<1>1. /\ emails[s] + Cardinality(Owed(s, {"email"})) <= restores[s]
      /\ webhooks[s] + Cardinality(Owed(s, {"email", "webhook"})) <= restores[s]
  BY DEF Accounts, ReleaseAccount
<1>2. emails[s] \in Nat /\ webhooks[s] \in Nat /\ restores[s] \in Nat
  BY DEF Accounts, IInv, TypeOK, HistType
<1>3. /\ Cardinality(Owed(s, {"email"})') \in Nat
      /\ Cardinality(Owed(s, {"email"})') <= Cardinality(Owed(s, {"email"}))
      /\ Cardinality(Owed(s, {"email", "webhook"})') \in Nat
      /\ Cardinality(Owed(s, {"email", "webhook"})') <= Cardinality(Owed(s, {"email", "webhook"}))
  BY OwedShrinks
<1>4. /\ Cardinality(Owed(s, {"email"})) \in Nat
      /\ Cardinality(Owed(s, {"email", "webhook"})) \in Nat
  BY OwedFinite
<1> QED  BY <1>1, <1>2, <1>3, <1>4

\* A worker's step keeps every restore to one delivery per channel.
LEMMA WorkerStepRelease ==
  ASSUME Accounts, NEW w \in Workers, WorkerStep(w)
  PROVE  ReleaseAccount'
<1> USE DEF rowVars, formVars, workerVars, histVars, sentVars
<1> DEFINE Kept(s) == /\ emails'[s] + Cardinality(Owed(s, {"email"})') <= restores'[s]
                      /\ webhooks'[s] + Cardinality(Owed(s, {"email", "webhook"})') <= restores'[s]
<1> SUFFICES ASSUME NEW s \in Ids, arrival'[s] = "held" PROVE Kept(s)
  BY DEF ReleaseAccount
<1>0. WorkerHistory /\ WorkerType /\ RowType /\ HistType /\ RowHistory /\ HeldIsSilent
  BY DEF Accounts, IInv, TypeOK
<1>1. /\ arrival[s] = "held" => emails[s] + Cardinality(Owed(s, {"email"})) <= restores[s]
      /\ arrival[s] = "held" => webhooks[s] + Cardinality(Owed(s, {"email", "webhook"})) <= restores[s]
  BY DEF Accounts, ReleaseAccount
<1>2. emails[s] \in Nat /\ webhooks[s] \in Nat /\ restores[s] \in Nat
  BY <1>0 DEF HistType
<1>3. /\ Cardinality(Owed(s, {"email"})) \in Nat
      /\ Cardinality(Owed(s, {"email", "webhook"})) \in Nat
  BY OwedFinite
<1>4. CASE \/ \E r \in Ids : SubmitStart(w, r) \/ RestoreLoad(w, r)
           \/ RestoreForm(w) \/ RestoreMiss(w) \/ RestoreGone(w) \/ RestoreAlready(w)
           \/ SkipEmail(w) \/ SkipWebhook(w) \/ DeliverPanics(w) \/ MarkNotified(w) \/ StoreFails(w)
  <2>1. UNCHANGED <<arrival, emails, webhooks, restores>>
    BY <1>4 DEF SubmitStart, RestoreLoad, RestoreForm, RestoreMiss, RestoreGone, RestoreAlready,
                SkipEmail, SkipWebhook, DeliverPanics, MarkNotified, StoreFails
  <2>2. \A steps \in {{"email"}, {"email", "webhook"}} : Owed(s, steps)' \subseteq Owed(s, steps)
    BY <1>0, <1>4
       DEF SubmitStart, RestoreLoad, RestoreForm, RestoreMiss, RestoreGone, RestoreAlready,
           SkipEmail, SkipWebhook, DeliverPanics, MarkNotified, StoreFails, AfterDeliver,
           Finish, Goto, Owed, WorkerType
  <2> QED  BY <2>1, <2>2, ReleaseQuiet
<1>5. CASE SubmitAccept(w) \/ (SubmitHold(w) /\ s # sub[w])
  <2>1. arrival[s] = "held" /\ UNCHANGED <<emails, webhooks, restores>>
    BY <1>0, <1>5 DEF SubmitAccept, SubmitHold, HistType
  <2>2. s # sub[w]
    BY <1>0, <1>5 DEF SubmitAccept, HistType
  <2>3. \A steps \in {{"email"}, {"email", "webhook"}} : Owed(s, steps)' \subseteq Owed(s, steps)
    BY <1>0, <1>5, <2>2 DEF SubmitAccept, SubmitHold, Finish, Goto, Owed, WorkerType
  <2> QED  BY <2>1, <2>3, ReleaseQuiet
<1>6. CASE SubmitHold(w) /\ s = sub[w]
  <2>1. emails'[s] = 0 /\ webhooks'[s] = 0 /\ restores'[s] = 0
    BY <1>0, <1>6 DEF SubmitHold, WorkerHistory, RowHistory
  <2>2. Owed(s, {"email"})' = {} /\ Owed(s, {"email", "webhook"})' = {}
    BY <1>0, <1>6 DEF SubmitHold, WorkerHistory, Finish, Goto, Owed, WorkerType
  <2> QED  BY <2>1, <2>2, FS_EmptySet
<1>7. CASE RestoreMove(w)
  <2>1. UNCHANGED <<arrival, emails, webhooks>> /\ restores' = [restores EXCEPT ![sub[w]] = @ + 1]
    BY <1>7 DEF RestoreMove
  <2>2. \A steps : Owed(s, steps)' \subseteq Owed(s, steps) \cup {w}
    BY <1>0, <1>7 DEF RestoreMove, Finish, Goto, Owed, WorkerType
  <2>3. CASE s = sub[w]
    <3>1. restores'[s] = restores[s] + 1
      BY <1>0, <2>1, <2>3 DEF HistType
    <3>2. /\ Cardinality(Owed(s, {"email"})') \in Nat
          /\ Cardinality(Owed(s, {"email"})') <= Cardinality(Owed(s, {"email"})) + 1
          /\ Cardinality(Owed(s, {"email", "webhook"})') \in Nat
          /\ Cardinality(Owed(s, {"email", "webhook"})') <= Cardinality(Owed(s, {"email", "webhook"})) + 1
      BY <2>2, OwedGrows
    <3> QED  BY <1>1, <1>2, <1>3, <2>1, <3>1, <3>2
  <2>4. CASE s # sub[w]
    <3>1. \A steps \in {{"email"}, {"email", "webhook"}} : Owed(s, steps)' \subseteq Owed(s, steps)
      BY <1>0, <1>7, <2>4 DEF RestoreMove, Finish, Goto, Owed, WorkerType
    <3>2. restores'[s] = restores[s]
      BY <1>0, <2>1, <2>4 DEF HistType
    <3> QED  BY <2>1, <3>1, <3>2, ReleaseQuiet
  <2> QED  BY <2>3, <2>4
<1>8. CASE SendEmail(w)
  <2>1. /\ UNCHANGED <<arrival, webhooks, restores>>
        /\ emails' = [emails EXCEPT ![sub[w]] = @ + 1]
    BY <1>8 DEF SendEmail
  <2>2. Owed(s, {"email", "webhook"})' \subseteq Owed(s, {"email", "webhook"})
    BY <1>0, <1>8 DEF SendEmail, Goto, Owed, WorkerType
  <2>3. Owed(s, {"email"})' \subseteq Owed(s, {"email"}) \ {w}
    BY <1>0, <1>8 DEF SendEmail, Goto, Owed, WorkerType
  <2>4. CASE s = sub[w]
    <3>1. w \in Owed(s, {"email"}) /\ emails'[s] = emails[s] + 1
      BY <1>0, <1>8, <2>1, <2>4 DEF SendEmail, Owed, HistType
    <3>2. /\ Cardinality(Owed(s, {"email"})') \in Nat
          /\ Cardinality(Owed(s, {"email"})') + 1 <= Cardinality(Owed(s, {"email"}))
      BY <2>3, <3>1, OwedPaid
    <3>3. /\ Cardinality(Owed(s, {"email", "webhook"})') \in Nat
          /\ Cardinality(Owed(s, {"email", "webhook"})') <= Cardinality(Owed(s, {"email", "webhook"}))
      BY <2>2, OwedShrinks
    <3> QED  BY <1>1, <1>2, <1>3, <2>1, <3>1, <3>2, <3>3
  <2>5. CASE s # sub[w]
    <3>1. emails'[s] = emails[s]
      BY <1>0, <2>1, <2>5 DEF HistType
    <3> QED  BY <2>1, <2>2, <2>3, <3>1, ReleaseQuiet
  <2> QED  BY <2>4, <2>5
<1>9. CASE SendWebhook(w)
  <2>1. /\ UNCHANGED <<arrival, emails, restores>>
        /\ webhooks' = [webhooks EXCEPT ![sub[w]] = @ + 1]
    BY <1>9 DEF SendWebhook
  <2>2. Owed(s, {"email"})' \subseteq Owed(s, {"email"})
    BY <1>0, <1>9 DEF SendWebhook, AfterDeliver, Finish, Goto, Owed, WorkerType
  <2>3. Owed(s, {"email", "webhook"})' \subseteq Owed(s, {"email", "webhook"}) \ {w}
    BY <1>0, <1>9 DEF SendWebhook, AfterDeliver, Finish, Goto, Owed, WorkerType
  <2>4. CASE s = sub[w]
    <3>1. w \in Owed(s, {"email", "webhook"}) /\ webhooks'[s] = webhooks[s] + 1
      BY <1>0, <1>9, <2>1, <2>4 DEF SendWebhook, Owed, HistType
    <3>2. /\ Cardinality(Owed(s, {"email", "webhook"})') \in Nat
          /\ Cardinality(Owed(s, {"email", "webhook"})') + 1 <= Cardinality(Owed(s, {"email", "webhook"}))
      BY <2>3, <3>1, OwedPaid
    <3>3. /\ Cardinality(Owed(s, {"email"})') \in Nat
          /\ Cardinality(Owed(s, {"email"})') <= Cardinality(Owed(s, {"email"}))
      BY <2>2, OwedShrinks
    <3> QED  BY <1>1, <1>2, <1>3, <2>1, <3>1, <3>2, <3>3
  <2>5. CASE s # sub[w]
    <3>1. webhooks'[s] = webhooks[s]
      BY <1>0, <2>1, <2>5 DEF HistType
    <3> QED  BY <2>1, <2>2, <2>3, <3>1, ReleaseQuiet
  <2> QED  BY <2>4, <2>5
<1> QED  BY <1>4, <1>5, <1>6, <1>7, <1>8, <1>9 DEF WorkerStep

\* So do the other steps, which send nothing.
LEMMA QuietRelease ==
  ASSUME Accounts, OperatorStep \/ PurgeHeldOlderThan \/ Tick \/ Crash \/ UNCHANGED vars
  PROVE  ReleaseAccount'
<1> USE DEF rowVars, formVars, workerVars, histVars, sentVars
<1>1. UNCHANGED <<arrival, restores, emails, webhooks>>
  BY DEF OperatorStep, MarkSpam, SetRead, MarkAllRead, DeleteSubmissions, DeleteHeld, DeleteAllHeld,
         ListHeld, ClearHeld, UpdateForm, DeleteForm, PurgeHeldOlderThan, Delete, Tick, Crash, vars
<1>2. UNCHANGED workerVars \/ Crash
  BY DEF OperatorStep, MarkSpam, SetRead, MarkAllRead, DeleteSubmissions, DeleteHeld, DeleteAllHeld,
         ListHeld, ClearHeld, UpdateForm, DeleteForm, PurgeHeldOlderThan, Tick, vars
<1>3. \A s \in Ids : \A steps \in {{"email"}, {"email", "webhook"}} :
        Owed(s, steps)' \subseteq Owed(s, steps)
  BY <1>2 DEF Crash, Owed
<1> QED  BY <1>1, <1>3, ReleaseQuiet DEF ReleaseAccount

\* Every delivery of a submission that arrived held is the one delivery of one
\* restore, in every reachable state.
THEOREM Released == Spec => []Accounts
<1>1. Init => Accounts
  <2> SUFFICES ASSUME Init PROVE ReleaseAccount
    BY InitIInv DEF Accounts
  <2>1. \A s, steps : "idle" \notin steps => Owed(s, steps) = {}
    BY DEF Init, Owed
  <2>2. /\ \A s \in Ids : Owed(s, {"email"}) = {} /\ Owed(s, {"email", "webhook"}) = {}
        /\ Cardinality({}) = 0
    BY <2>1, FS_EmptySet
  <2>3. \A s \in Ids : emails[s] = 0 /\ webhooks[s] = 0 /\ restores[s] = 0
    BY DEF Init
  <2> QED  BY <2>2, <2>3 DEF ReleaseAccount
<1>2. Accounts /\ [Next]_vars => ReleaseAccount'
  BY WorkerStepRelease, QuietRelease DEF Next
<1> QED  BY <1>1, <1>2, Accounted, PTL DEF Spec, Accounts

\* A double-clicked restore wins once, and delivers once.
THEOREM OneRelease == Spec => []OneReleasePerHold
<1>1. Accounts => OneReleasePerHold
  <2> SUFFICES ASSUME Accounts, NEW s \in Ids
               PROVE  /\ restores[s] <= holds[s]
                      /\ arrival[s] = "held" => emails[s] <= restores[s] /\ webhooks[s] <= restores[s]
    BY DEF OneReleasePerHold
  <2>1. /\ Cardinality(Owed(s, {"email"})) \in Nat
        /\ Cardinality(Owed(s, {"email", "webhook"})) \in Nat
    BY OwedFinite
  <2> QED  BY <2>1 DEF Accounts, IInv, RowHistory, ReleaseAccount, TypeOK, HistType
<1> QED  BY <1>1, Released, PTL

-----------------------------------------------------------------------------
(* A notification that is closed stays closed *)

\* A settled submission stays settled, or is deleted, whatever step is taken.
LEMMA SettledStep ==
  ASSUME TypeOK, [Next]_vars, NEW s \in Ids, Settled(s), status'[s] # "gone"
  PROVE  Settled(s)'
<1> USE DEF rowVars, formVars, workerVars, histVars, sentVars
<1>0. RowType /\ WorkerType
  BY DEF TypeOK
<1>1. ASSUME NEW w \in Workers, WorkerStep(w) PROVE Settled(s)'
  <2>1. CASE \/ \E r \in Ids : SubmitStart(w, r) \/ RestoreLoad(w, r)
             \/ RestoreForm(w) \/ RestoreMiss(w) \/ RestoreGone(w) \/ RestoreAlready(w)
             \/ DeliverPanics(w) \/ StoreFails(w)
    BY <1>0, <2>1
       DEF Settled, Stored, SubmitStart, RestoreLoad, RestoreForm, RestoreMiss, RestoreGone,
           RestoreAlready, DeliverPanics, StoreFails, Finish, Goto, WorkerType
  <2>2. CASE SendEmail(w) \/ SkipEmail(w) \/ SendWebhook(w) \/ SkipWebhook(w)
    BY <1>0, <2>2
       DEF Settled, Stored, SendEmail, SkipEmail, SendWebhook, SkipWebhook, AfterDeliver,
           Finish, Goto, WorkerType
  <2>3. CASE SubmitAccept(w) \/ SubmitHold(w)
    <3>1. s # sub[w]
      BY <2>3 DEF Settled, SubmitAccept, SubmitHold
    <3> QED  BY <1>0, <2>3, <3>1
        DEF Settled, Stored, SubmitAccept, SubmitHold, Finish, Goto, WorkerType, RowType
  <2>4. CASE RestoreMove(w)
    <3>1. CASE s = sub[w]
      BY <1>0, <2>4, <3>1
         DEF Settled, Stored, RestoreMove, Owes, Finish, Goto, WorkerType, RowType
    <3>2. CASE s # sub[w]
      BY <1>0, <2>4, <3>2
         DEF Settled, Stored, RestoreMove, Finish, Goto, WorkerType, RowType
    <3> QED  BY <3>1, <3>2
  <2>5. CASE MarkNotified(w)
    BY <1>0, <2>5 DEF Settled, Stored, MarkNotified, Finish, Goto, WorkerType, RowType
  <2> QED  BY <1>1, <2>1, <2>2, <2>3, <2>4, <2>5 DEF WorkerStep
<1>2. CASE \E r \in Ids : MarkSpam(r)
  BY <1>0, <1>2 DEF Settled, Stored, MarkSpam, RowType
<1>3. ASSUME NEW S, Delete(S), UNCHANGED workerVars PROVE Settled(s)'
  BY <1>0, <1>3 DEF Settled, Stored, Delete
<1>4. ASSUME UNCHANGED <<status, notified, workerVars>> PROVE Settled(s)'
  BY <1>4 DEF Settled, Stored
<1>5. CASE OperatorStep \/ PurgeHeldOlderThan \/ Tick
  BY <1>2, <1>3, <1>4, <1>5
     DEF OperatorStep, SetRead, MarkAllRead, DeleteSubmissions, DeleteHeld, DeleteAllHeld,
         ListHeld, ClearHeld, UpdateForm, DeleteForm, PurgeHeldOlderThan, Tick
<1>6. CASE Crash
  BY <1>6 DEF Settled, Stored, Crash
<1>7. CASE UNCHANGED vars
  BY <1>4, <1>7 DEF vars
<1> QED  BY <1>1, <1>5, <1>6, <1>7 DEF Next

\* Once a notification is recorded and nothing is under way, it is never sent
\* again: not after another mark, another restore or a restart.
THEOREM SettledForGood == Spec => SettledStaysSettled
<1>1. TypeOK /\ [Next]_vars => [\A s \in Ids : Settled(s) => Settled(s)' \/ status'[s] = "gone"]_vars
  BY SettledStep
<1> QED  BY <1>1, TypeCorrect, PTL DEF Spec, SettledStaysSettled
-----------------------------------------------------------------------------
(* What leaves quarantine, and when *)

\* held_at, or created_at for the rows without one, is the age of the hold.
LEMMA HeldSinceAlways == Spec => [](TypeOK /\ HeldSince)
<1> USE DEF rowVars, formVars, workerVars, histVars, sentVars
<1>1. Init => HeldSince
  BY DEF Init, HeldSince, QuarantinedAge
<1>2. TypeOK /\ HeldSince /\ [Next]_vars => HeldSince'
  <2> SUFFICES ASSUME TypeOK, HeldSince, [Next]_vars PROVE HeldSince'
    OBVIOUS
  <2>0. RowType /\ HistType /\ WorkerType
    BY DEF TypeOK
  <2>1. ASSUME NEW w \in Workers, WorkerStep(w) PROVE HeldSince'
    <3>1. CASE SubmitAccept(w) \/ SubmitHold(w) \/ RestoreMove(w)
      <4>1. sub[w] \in Ids
        BY <2>0, <3>1 DEF SubmitAccept, SubmitHold, RestoreMove, WorkerType
      <4> QED  BY <2>0, <3>1, <4>1 DEF SubmitAccept, SubmitHold, RestoreMove, HeldStamp, Unset,
                                      HeldSince, QuarantinedAge, RowType, HistType
    <3>2. CASE ~(SubmitAccept(w) \/ SubmitHold(w) \/ RestoreMove(w))
      <4>1. UNCHANGED <<status, heldAge, age, heldFor>>
        BY <2>1, <3>2 DEF WorkerStep, SubmitStart, RestoreLoad, RestoreForm, RestoreMiss, RestoreGone,
           RestoreAlready, SendEmail, SkipEmail, SendWebhook, SkipWebhook, DeliverPanics,
           MarkNotified, StoreFails
      <4> QED  BY <4>1 DEF HeldSince, QuarantinedAge
    <3> QED  BY <3>1, <3>2
  <2>2. ASSUME NEW s \in Ids, MarkSpam(s) PROVE HeldSince'
    BY <2>0, <2>2 DEF MarkSpam, HeldStamp, Unset, HeldSince, QuarantinedAge, RowType, HistType
  <2>3. ASSUME NEW S, Delete(S) PROVE HeldSince'
    BY <2>3 DEF Delete, HeldSince, QuarantinedAge
  <2>4. ASSUME UNCHANGED <<status, heldAge, age, heldFor>> PROVE HeldSince'
    BY <2>4 DEF HeldSince, QuarantinedAge
  <2>5. CASE Tick
    BY <2>0, <2>5, ConstantsAssumption
       DEF Tick, Older, Stored, HeldSince, QuarantinedAge, RowType, HistType, Unset, AgeCap
  <2>6. CASE OperatorStep \/ PurgeHeldOlderThan
    BY <2>2, <2>3, <2>4, <2>6
       DEF OperatorStep, SetRead, MarkAllRead, DeleteSubmissions, DeleteHeld, DeleteAllHeld,
           ListHeld, ClearHeld, UpdateForm, DeleteForm, PurgeHeldOlderThan
  <2>7. CASE Crash \/ UNCHANGED vars
    BY <2>4, <2>7 DEF Crash, vars
  <2> QED  BY <2>1, <2>5, <2>6, <2>7 DEF Next
<1> QED  BY <1>1, <1>2, TypeCorrect, PTL DEF Spec

\* The sweep takes nothing that has stood in quarantine for less than the
\* window, counted from the last time it was held.
THEOREM PurgeWaits == Spec => NoEarlyPurge
<1>1. TypeOK /\ HeldSince /\ [Next]_vars =>
        [\A s \in Ids : status'[s] # status[s] /\ PurgeHeldOlderThan => heldFor[s] > Retention]_vars
  BY ConstantsAssumption
     DEF PurgeHeldOlderThan, Delete, Matching, Matches, HeldSince, TypeOK, RowType, AnyAge
<1> QED  BY <1>1, HeldSinceAlways, PTL DEF Spec, NoEarlyPurge

\* Emptying the quarantine never takes a submission from the inbox.
THEOREM InboxSafe == Spec => QuarantineNeverTakesInbox
<1>1. TypeOK /\ [Next]_vars =>
        [\A s \in Ids :
           status[s] = "inbox" /\ status'[s] = "gone" =>
             ~ \/ PurgeHeldOlderThan \/ ClearHeld \/ DeleteAllHeld
               \/ \E S \in SUBSET Ids, F \in SUBSET Forms : DeleteHeld(S, F)]_vars
  BY DEF PurgeHeldOlderThan, ClearHeld, DeleteAllHeld, DeleteHeld, Delete, Matching, Matches, rowVars
<1> QED  BY <1>1, TypeCorrect, PTL DEF Spec, QuarantineNeverTakesInbox

\* A counted clear takes as many rows as its client counted, or none.
THEOREM ClearAsCounted == Spec => ClearDeletesWhatWasCounted
<1> DEFINE Went == {s \in Ids : status'[s] # status[s]}
<1>1. TypeOK /\ agreed # NoCount /\ ClearHeld => Went = {} \/ Cardinality(Went) = agreed.count
  <2> SUFFICES ASSUME TypeOK, ClearHeld PROVE Went = {} \/ Cardinality(Went) = agreed.count
    OBVIOUS
  <2> DEFINE filter == [forms |-> agreed.forms, olderThan |-> agreed.olderThan]
  <2>1. CASE StillAgreed(filter)
    <3>1. Delete(Matching(filter))
      BY <2>1 DEF ClearHeld
    <3>2. Went = Matching(filter)
      BY <3>1 DEF Delete, Matching, Matches, TypeOK, RowType
    <3> QED  BY <2>1, <3>2 DEF StillAgreed
  <2>2. CASE ~StillAgreed(filter)
    BY <2>2 DEF ClearHeld, rowVars
  <2> QED  BY <2>1, <2>2
<1>2. TypeOK /\ [Next]_vars =>
        [agreed # NoCount /\ ClearHeld =>
           LET went == {s \in Ids : status'[s] # status[s]} IN
           went = {} \/ Cardinality(went) = agreed.count]_vars
  BY <1>1
<1> QED  BY <1>2, TypeCorrect, PTL DEF Spec, ClearDeletesWhatWasCounted
=============================================================================
