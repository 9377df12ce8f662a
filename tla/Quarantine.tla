----------------------------- MODULE Quarantine -----------------------------
(***************************************************************************)
(* The life of a form submission: the public submit handler, the spam      *)
(* quarantine, the operator's restore, the MCP client's mark and clear,    *)
(* the inbox operations, the retention sweep and the delivery goroutines.  *)
(*                                                                         *)
(* A submission is one row of the submissions table.  Every SQL statement  *)
(* (or transaction) is one step; a handler that issues several is several  *)
(* steps of a worker, so another request, a sweep or a crash can come      *)
(* between any two of them.  Times are ages, counted in ticks of the       *)
(* clock and capped one past the retention window: only "older than n",    *)
(* n at most the window, is ever asked of them.                            *)
(***************************************************************************)
EXTENDS Integers, FiniteSets

CONSTANTS Ids,        \* submission ids (uuids)
          Forms,      \* form ids
          FormOf,     \* the form each submission is posted to
          Channel,    \* the senders the process has (deliver skips a nil one)
          Workers,    \* request slots: each runs one handler and its goroutine
          Retention,  \* quarantineRetention, in ticks
          MaxHolds    \* bound: how often one row may enter quarantine

ASSUME ConstantsAssumption ==
  /\ IsFiniteSet(Ids) /\ IsFiniteSet(Workers)
  /\ FormOf \in [Ids -> Forms]
  /\ Channel \subseteq {"email", "webhook"}
  /\ Retention \in Nat \ {0}
  /\ MaxHolds \in Nat \ {0}

VARIABLES
  status,     \* the row: not inserted, in the inbox, held, or deleted
  read,       \* the read column
  notified,   \* the notified column
  heldAge,    \* age of held_at, or Unset where the column is ''
  age,        \* age of created_at
  forms,      \* the forms that exist
  channels,   \* what each form is configured to send: EmailTo, WebhookURL
  pc, sub,    \* each worker's step, and the submission it works on
  job,        \* whether the worker runs a submit or a restore
  chans,      \* the channels of the form value the worker read
  emailed,    \* what deliver has returned so far
  agreed      \* what the MCP client counted before it clears

\* History, read by no action: what was sent, and how the row got where it is.
VARIABLES
  arrival,    \* how the row was first stored
  holds,      \* times the row entered quarantine
  restores,   \* times a restore took it out
  signals,    \* manual spam signals written for it
  heldFor,    \* ticks since it last entered quarantine
  emails,     \* emails sent for it
  webhooks    \* webhook calls delivered for it

rowVars    == <<status, read, notified, heldAge, age>>
formVars   == <<forms, channels>>
workerVars == <<pc, sub, job, chans, emailed>>
sentVars   == <<emails, webhooks>>
histVars   == <<arrival, holds, restores, signals, heldFor>>
vars == <<rowVars, formVars, workerVars, agreed, histVars, sentVars>>

Unset     == -1
AgeCap    == Retention + 1
NoSub     == "none"
AnyAge       == -1
NoCount   == [forms |-> {}, olderThan |-> AnyAge, count |-> -1]

Steps == {"idle", "submit", "form", "update", "classify", "email", "webhook", "mark"}

Stored(s) == status[s] \in {"inbox", "held"}
Rows(f)   == {s \in Ids : FormOf[s] = f}
-----------------------------------------------------------------------------
(* QuarantinedSince and HeldFilter *)

\* Mutant: the bare held_at, without the fallback for rows that have none.
QuarantinedAge_NoFallback(s) == heldAge[s]

\* Time in quarantine as the code reads it: held_at, else created_at.
QuarantinedAge(s) == IF heldAge[s] = Unset THEN age[s] ELSE heldAge[s]

\* Mutant: held_at is stamped with the message's own age.
HeldStamp_Created(s) == age[s]

\* The held_at that entering quarantine writes: now.
HeldStamp(s) == 0

\* HeldFilter.where: held, in one of the filter's forms, and held longer than asked.
Matches(f, s) ==
  /\ status[s] = "held"
  /\ FormOf[s] \in f.forms
  /\ f.olderThan = AnyAge \/ QuarantinedAge(s) > f.olderThan

Matching(f) == {s \in Ids : Matches(f, s)}

\* DELETE FROM submissions for the rows of S, their columns and (by cascade)
\* their signals with them.
Delete(S) ==
  /\ status' = [s \in Ids |-> IF s \in S THEN "gone" ELSE status[s]]
  /\ read' = [s \in Ids |-> s \notin S /\ read[s]]
  /\ notified' = [s \in Ids |-> s \notin S /\ notified[s]]
  /\ heldAge' = [s \in Ids |-> IF s \in S THEN Unset ELSE heldAge[s]]
  /\ age' = [s \in Ids |-> IF s \in S THEN 0 ELSE age[s]]
  /\ signals' = [s \in Ids |-> IF s \in S THEN 0 ELSE signals[s]]
  /\ heldFor' = [s \in Ids |-> IF s \in S THEN 0 ELSE heldFor[s]]
  /\ UNCHANGED <<arrival, holds, restores>>
-----------------------------------------------------------------------------
(* Initial states: an empty database, or one an older version left behind  *)
(* with held rows that have no held_at.                                    *)
Init ==
  \E legacy \in SUBSET Ids :
    /\ status = [s \in Ids |-> IF s \in legacy THEN "held" ELSE "new"]
    /\ arrival = [s \in Ids |-> IF s \in legacy THEN "held" ELSE "none"]
    /\ holds = [s \in Ids |-> IF s \in legacy THEN 1 ELSE 0]
    /\ read = [s \in Ids |-> FALSE]
    /\ notified = [s \in Ids |-> FALSE]
    /\ heldAge = [s \in Ids |-> Unset]
    /\ age = [s \in Ids |-> 0]
    /\ heldFor = [s \in Ids |-> 0]
    /\ forms = Forms
    /\ channels \in [Forms -> SUBSET Channel]
    /\ pc = [w \in Workers |-> "idle"]
    /\ sub = [w \in Workers |-> NoSub]
    /\ job = [w \in Workers |-> "none"]
    /\ chans = [w \in Workers |-> {}]
    /\ emailed = [w \in Workers |-> FALSE]
    /\ agreed = NoCount
    /\ restores = [s \in Ids |-> 0]
    /\ signals = [s \in Ids |-> 0]
    /\ emails = [s \in Ids |-> 0]
    /\ webhooks = [s \in Ids |-> 0]
-----------------------------------------------------------------------------
(* Workers *)

Goto(w, step) == pc' = [pc EXCEPT ![w] = step]

\* The handler answered and no goroutine of it is left.
Finish(w) ==
  /\ Goto(w, "idle")
  /\ sub' = [sub EXCEPT ![w] = NoSub]
  /\ job' = [job EXCEPT ![w] = "none"]
  /\ chans' = [chans EXCEPT ![w] = {}]
  /\ emailed' = [emailed EXCEPT ![w] = FALSE]

\* A store call returned an error: the handler answers with it (or, for
\* MarkNotified, the goroutine logs it).
StoreFails(w) ==
  /\ pc[w] \in {"submit", "form", "update", "classify", "mark"}
  /\ Finish(w)
  /\ UNCHANGED <<rowVars, formVars, agreed, histVars, sentVars>>

\* The process dies and restarts: requests and goroutines are lost.
Crash ==
  /\ \E w \in Workers : pc[w] # "idle"
  /\ pc' = [w \in Workers |-> "idle"]
  /\ sub' = [w \in Workers |-> NoSub]
  /\ job' = [w \in Workers |-> "none"]
  /\ chans' = [w \in Workers |-> {}]
  /\ emailed' = [w \in Workers |-> FALSE]
  /\ UNCHANGED <<rowVars, formVars, agreed, histVars, sentVars>>
-----------------------------------------------------------------------------
(* SubmitHandler.Handle.  The honeypot, empty and bad-sender exits store   *)
(* nothing and are left out; the screener's verdict is a free choice.      *)

SubmitStart(w, s) ==
  /\ pc[w] = "idle" /\ status[s] = "new" /\ FormOf[s] \in forms
  /\ \A v \in Workers : sub[v] # s
  /\ Goto(w, "submit")
  /\ sub' = [sub EXCEPT ![w] = s]
  /\ job' = [job EXCEPT ![w] = "submit"]
  /\ chans' = [chans EXCEPT ![w] = channels[FormOf[s]]]
  /\ UNCHANGED <<emailed, rowVars, formVars, agreed, histVars, sentVars>>

\* CreateSubmission, then the delivery goroutine.  notified is the column
\* default, 1, before anything has been sent.
SubmitAccept(w) ==
  LET s == sub[w] IN
  /\ pc[w] = "submit" /\ FormOf[s] \in forms
  /\ status' = [status EXCEPT ![s] = "inbox"]
  /\ read' = [read EXCEPT ![s] = FALSE]
  /\ notified' = [notified EXCEPT ![s] = TRUE]
  /\ heldAge' = [heldAge EXCEPT ![s] = Unset]
  /\ age' = [age EXCEPT ![s] = 0]
  /\ arrival' = [arrival EXCEPT ![s] = "accepted"]
  /\ Goto(w, "email")
  /\ UNCHANGED <<sub, job, chans, emailed, formVars, agreed, holds, restores,
                 signals, heldFor, sentVars>>

\* CreateHeldSubmission: held, owing its notification.  Nobody is told.
SubmitHold(w) ==
  LET s == sub[w] IN
  /\ pc[w] = "submit" /\ FormOf[s] \in forms
  /\ status' = [status EXCEPT ![s] = "held"]
  /\ read' = [read EXCEPT ![s] = FALSE]
  /\ notified' = [notified EXCEPT ![s] = FALSE]
  /\ heldAge' = [heldAge EXCEPT ![s] = HeldStamp(s)]
  /\ age' = [age EXCEPT ![s] = 0]
  /\ arrival' = [arrival EXCEPT ![s] = "held"]
  /\ holds' = [holds EXCEPT ![s] = 1]
  /\ heldFor' = [heldFor EXCEPT ![s] = 0]
  /\ Finish(w)
  /\ UNCHANGED <<formVars, agreed, restores, signals, sentVars>>
-----------------------------------------------------------------------------
(* QuarantineHandler.Restore *)

\* GetHeldSubmission: found, or one statement later classified as missing.
RestoreLoad(w, s) ==
  /\ pc[w] = "idle" /\ status[s] # "new"
  /\ Goto(w, IF status[s] = "held" THEN "form" ELSE "classify")
  /\ sub' = [sub EXCEPT ![w] = s]
  /\ job' = [job EXCEPT ![w] = "restore"]
  /\ UNCHANGED <<chans, emailed, rowVars, formVars, agreed, histVars, sentVars>>

\* GetForm, before anything is mutated.
RestoreForm(w) ==
  LET f == FormOf[sub[w]] IN
  /\ pc[w] = "form" /\ f \in forms
  /\ Goto(w, "update")
  /\ chans' = [chans EXCEPT ![w] = channels[f]]
  /\ UNCHANGED <<sub, job, emailed, rowVars, formVars, agreed, histVars, sentVars>>

\* Mutant: the UPDATE without AND is_held = 1.
Restorable_NoGuard(s) == Stored(s)

\* The WHERE of RestoreSubmission.
Restorable(s) == status[s] = "held"

\* The returned row still owes the notification that was withheld.
Owes(s) == ~notified[s]

\* The UPDATE .. RETURNING of RestoreSubmission hit the row; the goroutine
\* starts only when that row owes its notification.
RestoreMove(w) ==
  LET s == sub[w] IN
  /\ pc[w] = "update" /\ Restorable(s)
  /\ status' = [status EXCEPT ![s] = "inbox"]
  /\ read' = [read EXCEPT ![s] = FALSE]
  /\ heldAge' = [heldAge EXCEPT ![s] = Unset]
  /\ restores' = [restores EXCEPT ![s] = @ + 1]
  /\ IF Owes(s)
       THEN Goto(w, "email") /\ UNCHANGED <<sub, job, chans, emailed>>
       ELSE Finish(w)
  /\ UNCHANGED <<notified, age, formVars, agreed, arrival, holds, signals, heldFor, sentVars>>

\* The UPDATE matched no row.
RestoreMiss(w) ==
  /\ pc[w] = "update" /\ ~Restorable(sub[w])
  /\ Goto(w, "classify")
  /\ UNCHANGED <<sub, job, chans, emailed, rowVars, formVars, agreed, histVars, sentVars>>

\* classifyMissingHeld finds no row: "it was deleted or aged out".
RestoreGone(w) ==
  /\ pc[w] = "classify" /\ ~Stored(sub[w])
  /\ Finish(w)
  /\ UNCHANGED <<rowVars, formVars, agreed, histVars, sentVars>>

\* classifyMissingHeld finds the row: "already restored".  The is_held it
\* reads is not looked at.
RestoreAlready(w) ==
  /\ pc[w] = "classify" /\ Stored(sub[w])
  /\ Finish(w)
  /\ UNCHANGED <<rowVars, formVars, agreed, histVars, sentVars>>
-----------------------------------------------------------------------------
(* deliver, in its goroutine: the email, then the webhook, each on its own *)

SendEmail(w) ==
  /\ pc[w] = "email" /\ "email" \in chans[w]
  /\ Goto(w, "webhook")
  /\ emailed' = [emailed EXCEPT ![w] = TRUE]
  /\ emails' = [emails EXCEPT ![sub[w]] = @ + 1]
  /\ UNCHANGED <<sub, job, chans, rowVars, formVars, agreed, histVars, webhooks>>

\* No address is configured, or the send returned an error.
SkipEmail(w) ==
  /\ pc[w] = "email"
  /\ Goto(w, "webhook")
  /\ UNCHANGED <<sub, job, chans, emailed, rowVars, formVars, agreed, histVars, sentVars>>

\* Mutant: notified records the intent, not the delivery.
AfterDeliver_Always(w) ==
  IF job[w] = "restore"
    THEN Goto(w, "mark") /\ UNCHANGED <<sub, job, chans, emailed>>
    ELSE Finish(w)

\* After deliver: only a restore whose email went records it.
AfterDeliver(w) ==
  IF job[w] = "restore" /\ emailed[w]
    THEN Goto(w, "mark") /\ UNCHANGED <<sub, job, chans, emailed>>
    ELSE Finish(w)

SendWebhook(w) ==
  /\ pc[w] = "webhook" /\ "webhook" \in chans[w]
  /\ webhooks' = [webhooks EXCEPT ![sub[w]] = @ + 1]
  /\ AfterDeliver(w)
  /\ UNCHANGED <<rowVars, formVars, agreed, histVars, emails>>

SkipWebhook(w) ==
  /\ pc[w] = "webhook"
  /\ AfterDeliver(w)
  /\ UNCHANGED <<rowVars, formVars, agreed, histVars, sentVars>>

\* A panic in a send, recovered by safe.Do: the goroutine ends there.
DeliverPanics(w) ==
  /\ pc[w] \in {"email", "webhook"}
  /\ Finish(w)
  /\ UNCHANGED <<rowVars, formVars, agreed, histVars, sentVars>>

\* MarkNotified: by id alone, whatever has become of the row since.
MarkNotified(w) ==
  /\ pc[w] = "mark"
  /\ notified' = [notified EXCEPT ![sub[w]] = Stored(sub[w]) \/ @]
  /\ Finish(w)
  /\ UNCHANGED <<status, read, heldAge, age, formVars, agreed, histVars, sentVars>>
-----------------------------------------------------------------------------
(* MCP write tools and the inbox *)

\* Mutant: marking clears notified, as if the delivery were owed again.
MarkSpam_ClearsNotified(s) ==
  /\ status[s] = "inbox" /\ holds[s] < MaxHolds
  /\ status' = [status EXCEPT ![s] = "held"]
  /\ notified' = [notified EXCEPT ![s] = FALSE]
  /\ read' = [read EXCEPT ![s] = FALSE]
  /\ heldAge' = [heldAge EXCEPT ![s] = HeldStamp(s)]
  /\ holds' = [holds EXCEPT ![s] = @ + 1]
  /\ signals' = [signals EXCEPT ![s] = @ + 1]
  /\ heldFor' = [heldFor EXCEPT ![s] = 0]
  /\ UNCHANGED <<age, formVars, workerVars, agreed, arrival, restores, sentVars>>

\* MarkSpam: one transaction, the UPDATE and its manual signal.  notified
\* is left alone.
MarkSpam(s) ==
  /\ status[s] = "inbox" /\ holds[s] < MaxHolds
  /\ status' = [status EXCEPT ![s] = "held"]
  /\ read' = [read EXCEPT ![s] = FALSE]
  /\ heldAge' = [heldAge EXCEPT ![s] = HeldStamp(s)]
  /\ holds' = [holds EXCEPT ![s] = @ + 1]
  /\ signals' = [signals EXCEPT ![s] = @ + 1]
  /\ heldFor' = [heldFor EXCEPT ![s] = 0]
  /\ UNCHANGED <<notified, age, formVars, workerVars, agreed, arrival, restores, sentVars>>

\* MarkRead and MarkUnread: by id, held or not.
SetRead(s, r) ==
  /\ Stored(s) /\ read[s] # r
  /\ read' = [read EXCEPT ![s] = r]
  /\ UNCHANGED <<status, notified, heldAge, age, formVars, workerVars, agreed, histVars, sentVars>>

MarkAllRead(f) ==
  /\ read' = [s \in Ids |-> read[s] \/ (status[s] = "inbox" /\ FormOf[s] = f)]
  /\ UNCHANGED <<status, notified, heldAge, age, formVars, workerVars, agreed, histVars, sentVars>>

\* DeleteSubmission and DeleteSubmissions: the rows of S that are there.
DeleteSubmissions(f, S) ==
  /\ \E s \in S : Stored(s)
  /\ S \subseteq Rows(f)
  /\ Delete({s \in S : Stored(s)})
  /\ UNCHANGED <<formVars, workerVars, agreed, sentVars>>
-----------------------------------------------------------------------------
(* Deleting from quarantine *)

\* Mutant: the delete by id without is_held = 1.
DeleteHeld_NoGuard(S, F) ==
  /\ Delete({s \in S : Stored(s) /\ FormOf[s] \in F})
  /\ UNCHANGED <<formVars, workerVars, agreed, sentVars>>

\* DeleteHeld: ids a page or a client named earlier; only held ones go.
DeleteHeld(S, F) ==
  /\ Delete({s \in S : status[s] = "held" /\ FormOf[s] \in F})
  /\ UNCHANGED <<formVars, workerVars, agreed, sentVars>>

DeleteAllHeld ==
  /\ Delete(Matching([forms |-> Forms, olderThan |-> AnyAge]))
  /\ UNCHANGED <<formVars, workerVars, agreed, sentVars>>

\* The sweep in main: PurgeHeldOlderThan(now - quarantineRetention).
PurgeHeldOlderThan ==
  /\ Delete(Matching([forms |-> Forms, olderThan |-> Retention]))
  /\ UNCHANGED <<formVars, workerVars, agreed, sentVars>>

\* list_quarantine: the client takes the total for these arguments.
ListHeld(F, older) ==
  /\ agreed = NoCount
  /\ LET filter == [forms |-> F, olderThan |-> older] IN
     /\ Matching(filter) # {}
     /\ agreed' = [forms |-> F, olderThan |-> older,
                   count |-> Cardinality(Matching(filter))]
  /\ UNCHANGED <<rowVars, formVars, workerVars, histVars, sentVars>>

\* Mutant: the clear does not count again.
StillAgreed_Unchecked(filter) == TRUE

StillAgreed(filter) == Cardinality(Matching(filter)) = agreed.count

\* empty_quarantine: ClearHeld with that total, counted again inside the
\* transaction that deletes.  The cutoff is taken afresh from the clock.
ClearHeld ==
  LET filter == [forms |-> agreed.forms, olderThan |-> agreed.olderThan] IN
  /\ agreed # NoCount
  /\ IF StillAgreed(filter)
       THEN Delete(Matching(filter))
       ELSE UNCHANGED <<rowVars, histVars>>
  /\ agreed' = NoCount
  /\ UNCHANGED <<formVars, workerVars, sentVars>>
-----------------------------------------------------------------------------
(* Forms and the clock *)

UpdateForm(f, C) ==
  /\ f \in forms
  /\ channels' = [channels EXCEPT ![f] = C]
  /\ UNCHANGED <<forms, rowVars, workerVars, agreed, histVars, sentVars>>

\* DeleteForm: the submissions go with it by cascade.
DeleteForm(f) ==
  /\ f \in forms
  /\ forms' = forms \ {f}
  /\ Delete({s \in Rows(f) : Stored(s)})
  /\ UNCHANGED <<channels, workerVars, agreed, sentVars>>

Older(a) == IF a < AgeCap THEN a + 1 ELSE a

Tick ==
  /\ age' = [s \in Ids |-> IF Stored(s) THEN Older(age[s]) ELSE age[s]]
  /\ heldAge' = [s \in Ids |-> IF status[s] = "held" /\ heldAge[s] # Unset
                                 THEN Older(heldAge[s]) ELSE heldAge[s]]
  /\ heldFor' = [s \in Ids |-> IF status[s] = "held" THEN Older(heldFor[s]) ELSE heldFor[s]]
  /\ UNCHANGED <<status, read, notified, formVars, workerVars, agreed,
                 arrival, holds, restores, signals, sentVars>>
-----------------------------------------------------------------------------
WorkerStep(w) ==
  \/ \E s \in Ids : SubmitStart(w, s)
  \/ SubmitAccept(w)
  \/ SubmitHold(w)
  \/ \E s \in Ids : RestoreLoad(w, s)
  \/ RestoreForm(w)
  \/ RestoreMove(w)
  \/ RestoreMiss(w)
  \/ RestoreGone(w)
  \/ RestoreAlready(w)
  \/ SendEmail(w)
  \/ SkipEmail(w)
  \/ SendWebhook(w)
  \/ SkipWebhook(w)
  \/ DeliverPanics(w)
  \/ MarkNotified(w)
  \/ StoreFails(w)

OperatorStep ==
  \/ \E s \in Ids : MarkSpam(s)
  \/ \E s \in Ids, r \in BOOLEAN : SetRead(s, r)
  \/ \E f \in Forms : MarkAllRead(f)
  \/ \E f \in Forms, S \in SUBSET Ids : DeleteSubmissions(f, S)
  \/ \E S \in SUBSET Ids, F \in SUBSET Forms : DeleteHeld(S, F)
  \/ DeleteAllHeld
  \/ \E F \in SUBSET Forms, older \in {AnyAge} \cup 1..Retention : ListHeld(F, older)
  \/ ClearHeld
  \/ \E f \in Forms, C \in SUBSET Channel : UpdateForm(f, C)
  \/ \E f \in Forms : DeleteForm(f)

Next ==
  \/ \E w \in Workers : WorkerStep(w)
  \/ OperatorStep
  \/ PurgeHeldOlderThan
  \/ Tick
  \/ Crash

Spec == Init /\ [][Next]_vars

\* Time passes, and the sweep's goroutine wakes at start-up and every day.
FairSpec == Spec /\ WF_vars(Tick) /\ WF_vars(PurgeHeldOlderThan)
-----------------------------------------------------------------------------
(* Properties *)

RowType ==
  /\ status \in [Ids -> {"new", "inbox", "held", "gone"}]
  /\ read \in [Ids -> BOOLEAN]
  /\ notified \in [Ids -> BOOLEAN]
  /\ heldAge \in [Ids -> Unset..AgeCap]
  /\ age \in [Ids -> 0..AgeCap]

FormType ==
  /\ forms \in SUBSET Forms
  /\ channels \in [Forms -> SUBSET Channel]
  /\ agreed \in [forms: SUBSET Forms, olderThan: AnyAge..Retention, count: {-1} \cup Nat]

WorkerType ==
  /\ pc \in [Workers -> Steps]
  /\ sub \in [Workers -> Ids \cup {NoSub}]
  /\ job \in [Workers -> {"none", "submit", "restore"}]
  /\ chans \in [Workers -> SUBSET Channel]
  /\ emailed \in [Workers -> BOOLEAN]
  /\ \A w \in Workers : pc[w] # "idle" => sub[w] \in Ids

HistType ==
  /\ arrival \in [Ids -> {"none", "accepted", "held"}]
  /\ holds \in [Ids -> Nat]
  /\ restores \in [Ids -> Nat]
  /\ signals \in [Ids -> Nat]
  /\ heldFor \in [Ids -> 0..AgeCap]
  /\ emails \in [Ids -> Nat]
  /\ webhooks \in [Ids -> Nat]

\* Every value a column, a worker or a counter may have.
TypeOK == RowType /\ FormType /\ WorkerType /\ HistType

\* A submission the screener held has told nobody until an operator restores
\* it: no email and no webhook leaves for it, whatever the goroutines of
\* other requests are doing.  (submit.go: "Held submissions are stored with
\* their breakdown and notify nobody".)
HeldIsSilent ==
  \A s \in Ids :
    arrival[s] = "held" /\ restores[s] = 0 => emails[s] = 0 /\ webhooks[s] = 0

\* A submission that was accepted is delivered at most once per channel, for
\* good: marking it as spam and restoring it, however often, sends nothing
\* again.  (MarkSpam leaves notified alone so that a later restore does not
\* "deliver a second copy of a notification the recipient already has".)
AcceptedIsDeliveredOnce ==
  \A s \in Ids :
    arrival[s] = "accepted" => emails[s] <= 1 /\ webhooks[s] <= 1

\* A double-clicked restore wins once: for every time a row entered
\* quarantine at most one restore takes it out, and each restore makes at
\* most one delivery per channel.  (The is_held = 1 guard of RestoreSubmission.)
OneReleasePerHold ==
  \A s \in Ids :
    /\ restores[s] <= holds[s]
    /\ arrival[s] = "held" => emails[s] <= restores[s] /\ webhooks[s] <= restores[s]

\* notified records a delivery, not an intent: a row that arrived held and
\* says notified has had its email sent.  (QuarantineHandler.Restore.)
NotifiedMeansEmailed ==
  \A s \in Ids :
    arrival[s] = "held" /\ Stored(s) /\ notified[s] => emails[s] > 0

\* No goroutine is left that could still send something for s.
Settled(s) ==
  /\ Stored(s) /\ notified[s]
  /\ \A w \in Workers : sub[w] = s => pc[w] \notin {"submit", "email", "webhook"}

\* Once the row says notified and no goroutine for it is running, none ever
\* starts again: the notification is closed, across later marks, restores
\* and crashes.  (RestoreSubmission returns the row it updated, so the gate
\* is never judged on an earlier read.)
SettledStaysSettled ==
  [][\A s \in Ids : Settled(s) => Settled(s)' \/ status'[s] = "gone"]_vars

\* Every manual hold that still stands left exactly one signal behind it, so a
\* double-clicked mark writes no second one and the breakdown explains each
\* hold once.  (The is_held = 0 guard of MarkSpam.)
OneSignalPerMark ==
  \A s \in Ids :
    Stored(s) => signals[s] = holds[s] - (IF arrival[s] = "held" THEN 1 ELSE 0)

\* The retention sweep takes only rows that have stood in quarantine longer
\* than the window since they last entered it, however old the message is and
\* whatever was marked and restored before.  (PurgeHeldOlderThan.)
NoEarlyPurge ==
  [][\A s \in Ids :
       status'[s] # status[s] /\ PurgeHeldOlderThan => heldFor[s] > Retention]_vars

\* Nothing that empties the quarantine takes a submission that is in the
\* inbox, even one restored after the page or the count was made.
QuarantineNeverTakesInbox ==
  [][\A s \in Ids :
       status[s] = "inbox" /\ status'[s] = "gone" =>
         ~ \/ PurgeHeldOlderThan \/ ClearHeld \/ DeleteAllHeld
           \/ \E S \in SUBSET Ids, F \in SUBSET Forms : DeleteHeld(S, F)]_vars

\* A clear deletes the number of submissions its client counted, or nothing.
\* (empty_quarantine: "If a different number is held by then, nothing is deleted".)
ClearDeletesWhatWasCounted ==
  [][agreed # NoCount /\ ClearHeld =>
       LET went == {s \in Ids : status'[s] # status[s]} IN
       went = {} \/ Cardinality(went) = agreed.count]_vars

\* Whatever is held leaves quarantine: someone restores or deletes it, or the
\* sweep does, rows with no recorded held_at included.  (main.go: "Held
\* submissions are reviewable for 30 days and then deleted".)
HeldEventuallyLeaves == \A s \in Ids : status[s] = "held" ~> status[s] # "held"
-----------------------------------------------------------------------------
(* The inductive invariant: what the history of a row, and of a worker's   *)
(* step, has to remember for the safety properties above to be kept.       *)

\* The counts of a row agree with where it is; an accepted row was notified
\* from the start.
RowHistory ==
  \A s \in Ids :
    /\ status[s] = "new" <=> arrival[s] = "none"
    /\ status[s] = "new" =>
         /\ holds[s] = 0 /\ restores[s] = 0 /\ signals[s] = 0
         /\ emails[s] = 0 /\ webhooks[s] = 0
    /\ Stored(s) => holds[s] = restores[s] + (IF status[s] = "held" THEN 1 ELSE 0)
    /\ restores[s] <= holds[s]
    /\ arrival[s] = "accepted" /\ Stored(s) => notified[s]

\* A worker's step says what has already happened to its submission.
WorkerHistory ==
  \A w \in Workers :
    /\ pc[w] = "submit" => job[w] = "submit" /\ status[sub[w]] = "new"
    /\ pc[w] \in {"form", "update", "classify", "mark"} =>
         job[w] = "restore" /\ status[sub[w]] # "new"
    /\ pc[w] \in {"email", "webhook"} => job[w] # "none" /\ status[sub[w]] # "new"
    /\ job[w] = "submit" => pc[w] \in {"submit", "email", "webhook"}
    /\ job[w] = "submit" /\ pc[w] \in {"email", "webhook"} =>
         /\ arrival[sub[w]] = "accepted" /\ webhooks[sub[w]] = 0
         /\ pc[w] = "email" => emails[sub[w]] = 0
    /\ job[w] = "restore" /\ pc[w] \in {"email", "webhook", "mark"} =>
         arrival[sub[w]] = "held" /\ restores[sub[w]] > 0
    /\ pc[w] = "mark" => emailed[w]
    /\ emailed[w] => pc[w] \in {"webhook", "mark"} /\ emails[sub[w]] > 0

\* A submission is posted by one request.
OneSubmitter ==
  \A v, w \in Workers :
    job[v] = "submit" /\ job[w] = "submit" /\ sub[v] = sub[w] => v = w

\* The workers that may still send something for s.
Owed(s, steps) == {w \in Workers : sub[w] = s /\ pc[w] \in steps}

\* Each restore owes at most one delivery per channel, sent or still to come.
ReleaseAccount ==
  \A s \in Ids :
    arrival[s] = "held" =>
      /\ emails[s] + Cardinality(Owed(s, {"email"})) <= restores[s]
      /\ webhooks[s] + Cardinality(Owed(s, {"email", "webhook"})) <= restores[s]

IInv ==
  /\ TypeOK
  /\ RowHistory /\ WorkerHistory /\ OneSubmitter
  /\ HeldIsSilent /\ AcceptedIsDeliveredOnce /\ NotifiedMeansEmailed /\ OneSignalPerMark

\* The age the sweep reads is the time since the row last entered quarantine.
HeldSince ==
  \A s \in Ids : status[s] = "held" => QuarantinedAge(s) = heldFor[s]

\* No step leaves the account of what was sent and why: every delivery traces
\* back to the one accepting submit or to a restore of its own, through any
\* interleaving of requests, marks, deletions and crashes.
Accounts == IInv /\ ReleaseAccount
-----------------------------------------------------------------------------
(* What the comments say and the code does not keep *)

\* "so a second restore cannot send it twice" (MarkNotified): a submission
\* that arrived held has its withheld notification delivered once.
WithheldIsDeliveredOnce ==
  \A s \in Ids : arrival[s] = "held" => emails[s] <= 1 /\ webhooks[s] <= 1

=============================================================================
