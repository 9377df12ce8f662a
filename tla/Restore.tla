------------------------------- MODULE Restore -------------------------------
(***************************************************************************)
(* Restoring a backup (backup.Import): the database file is swapped under  *)
(* a serving process, one file operation a step.  Any of them can fail,    *)
(* the process can die between any two, and requests go on writing.        *)
(*                                                                         *)
(* A database is what it descends from ("original", an upload, or "empty", *)
(* which start-up creates where it finds none), the writes that reached    *)
(* its file and whether it carries tokens and sessions.  Its write-ahead   *)
(* log is a file of its own: the writes in it, and whose they are.         *)
(*                                                                         *)
(* A request that holds a connection when the pool is closed keeps it, and *)
(* a log that is removed under it swallows its writes.                     *)
(***************************************************************************)
EXTENDS Integers, FiniteSets

CONSTANTS Importers,    \* restores, each with the file it uploads
          Requests,     \* requests that write
          None,         \* no file, no restore
          MaxCrashes    \* crashes in one behaviour

Dbs   == Importers \cup {"original", "empty"}
Files == [db : Dbs, has : SUBSET Requests, creds : BOOLEAN]
Logs  == [db : Dbs, has : SUBSET Requests]

ASSUME ConstantsAssumption ==
  /\ {"original", "empty"} \cap Importers = {}
  /\ None \notin Importers \cup Files \cup Logs
  /\ MaxCrashes \in Nat

VARIABLES
  main, log, park, upload,  \* dbPath, dbPath-wal, dbPath.rollback, the staged uploads
  up, handle,               \* the process, and the store's handle
  lock, pc,                 \* importMu, and the step each restore is at
  verdict,                  \* what Import last returned to each
  conn,                     \* a request's connection: still to come, in use, in use
  connDb,                   \*   over a removed log, returned; and the database it is to
  crashes

\* History, read by no action.
VARIABLES
  live,     \* the database that was in service before the restore under way
  acked,    \* the writes to it that were answered
  exposed,  \* the writes a restore went on without: made after it had flushed the
            \*   log, or left in the log by a checkpoint that could not run
  mixed     \* some database was opened over the log of another

fileVars == <<main, log, park, upload>>
connVars == <<conn, connDb>>
histVars == <<live, acked, exposed, mixed>>
vars == <<fileVars, up, handle, lock, pc, verdict, connVars, crashes, histVars>>

Empty   == [db |-> "empty", has |-> {}, creds |-> FALSE]
InUse   == {r \in Requests : conn[r] = "open"}
Goto(i, step) == pc' = [pc EXCEPT ![i] = step]
-----------------------------------------------------------------------------
Init ==
  /\ main = [db |-> "original", has |-> {}, creds |-> TRUE]
  /\ log = [db |-> "original", has |-> {}]
  /\ park = None /\ upload = [i \in Importers |-> None]
  /\ up = TRUE /\ handle = "open"
  /\ lock = None /\ pc = [i \in Importers |-> "idle"]
  /\ verdict = [i \in Importers |-> "none"]
  /\ conn = [r \in Requests |-> "new"] /\ connDb = [r \in Requests |-> "original"]
  /\ crashes = 0
  /\ live = "original" /\ acked = {} /\ exposed = {} /\ mixed = FALSE
-----------------------------------------------------------------------------
(* SQLite *)

\* Opening the database at dbPath: a log that is there is taken for its own.
Opened(file) ==
  /\ log' = IF log = None THEN [db |-> file.db, has |-> {}] ELSE [log EXCEPT !.db = file.db]
  /\ mixed' = (mixed \/ (log # None /\ log.db # file.db))

\* The last connection to close writes the log back and removes it.
WrittenBack == [main EXCEPT !.has = @ \cup log.has]
-----------------------------------------------------------------------------
(* Requests *)

Begin(r) ==
  /\ up /\ handle = "open" /\ conn[r] = "new"
  /\ conn' = [conn EXCEPT ![r] = "open"]
  /\ connDb' = [connDb EXCEPT ![r] = main.db]
  /\ UNCHANGED <<fileVars, up, handle, lock, pc, verdict, crashes, histVars>>

\* The steps of a restore between the flush and what comes of it.
Flushed == {"close", "rmlog", "park", "swap", "open", "back", "reopen"}

\* The write is committed to the log and answered, and the connection is
\* returned: to a closed pool, it is closed.
Commit(r) ==
  /\ conn[r] \in {"open", "orphan"}
  /\ conn' = [conn EXCEPT ![r] = "done"]
  /\ acked' = IF connDb[r] = live THEN acked \cup {r} ELSE acked
  /\ exposed' = IF conn[r] = "orphan" \/ \E i \in Importers : pc[i] \in Flushed
                THEN exposed \cup {r} ELSE exposed
  /\ \/ /\ conn[r] = "orphan" /\ UNCHANGED <<main, log>>
     \/ /\ conn[r] = "open" /\ (handle = "open" \/ InUse # {r})
        /\ log' = [log EXCEPT !.has = @ \cup {r}] /\ main' = main
     \/ /\ conn[r] = "open" /\ handle = "closed" /\ InUse = {r}
        /\ main' = [WrittenBack EXCEPT !.has = @ \cup {r}] /\ log' = None
  /\ UNCHANGED <<park, upload, up, handle, lock, pc, verdict, connDb, crashes, live, mixed>>

\* The request fails or only read.
Abandon(r) ==
  /\ conn[r] \in {"open", "orphan"}
  /\ conn' = [conn EXCEPT ![r] = "done"]
  /\ IF conn[r] = "open" /\ handle = "closed" /\ InUse = {r}
     THEN main' = WrittenBack /\ log' = None
     ELSE UNCHANGED <<main, log>>
  /\ UNCHANGED <<park, upload, up, handle, lock, pc, verdict, connDb, crashes, histVars>>
-----------------------------------------------------------------------------
(* Import *)

\* The handler stages the upload beside the database: a file told apart from
\* every one that is there.
Stage(i) ==
  /\ up /\ pc[i] = "idle" /\ \A file \in {main, park} \ {None} : file.db # i
  /\ upload' = [upload EXCEPT ![i] = [db |-> i, has |-> {}, creds |-> TRUE]]
  /\ Goto(i, "staged")
  /\ UNCHANGED <<main, log, park, up, handle, lock, verdict, connVars, crashes, histVars>>

Lock(i) ==
  /\ pc[i] = "staged" /\ lock = None
  /\ lock' = i
  /\ Goto(i, "validate")
  /\ UNCHANGED <<fileVars, up, handle, verdict, connVars, crashes, histVars>>

\* Import returns and the lock is free once the handler is told.
Answer(i, v) ==
  /\ verdict' = [verdict EXCEPT ![i] = v]
  /\ Goto(i, "answered")

\* The handler removes what is left of the upload.
Leave(i) ==
  /\ pc[i] = "answered"
  /\ lock' = None
  /\ upload' = [upload EXCEPT ![i] = None]
  /\ Goto(i, "idle")
  /\ UNCHANGED <<main, log, park, up, handle, verdict, connVars, crashes, histVars>>

Validate(i) ==
  /\ pc[i] = "validate"
  /\ Goto(i, "strip")
  /\ UNCHANGED <<fileVars, up, handle, lock, verdict, connVars, crashes, histVars>>

\* Mutant: left for when the upload serves.
Stripped_Later(file) == file

Stripped(file) == [file EXCEPT !.creds = FALSE]

StripCredentials(i) ==
  /\ pc[i] = "strip"
  /\ upload' = [upload EXCEPT ![i] = Stripped(@)]
  /\ Goto(i, "check")
  /\ UNCHANGED <<main, log, park, up, handle, lock, verdict, connVars, crashes, histVars>>

\* Mutant: the rename may overwrite.
ParkFree_Ignored == TRUE

ParkFree == park = None

CheckPark(i) ==
  /\ pc[i] = "check" /\ ParkFree
  /\ Goto(i, "flush")
  /\ UNCHANGED <<fileVars, up, handle, lock, verdict, connVars, crashes, histVars>>

\* The rows wal_checkpoint(TRUNCATE) answers with, and what is left in the log.
\* A connection in use can hold frames back, as a reader, or can be at a
\* checkpoint of its own: this one then does nothing and counts nothing
\* (busy 1, and -1 for both counts), whatever that one has flushed.
Checkpoints ==
  {[left |-> {}, counted |-> TRUE]}
    \cup (IF InUse = {} THEN {} ELSE [left : SUBSET log.has, counted : BOOLEAN])

\* Mutant: the result row is not looked at.
Refuses_Unread(row) == FALSE

\* Frames were counted and not all of them flushed; busy is not looked at.
Refuses(row) == row.counted /\ row.left # {}

\* The log is flushed into the file, and the restore refused by the row.
Flush(i) ==
  /\ pc[i] = "flush" /\ handle = "open"
  /\ \E row \in Checkpoints :
       /\ main' = [main EXCEPT !.has = @ \cup (log.has \ row.left)]
       /\ log' = [log EXCEPT !.has = row.left]
       /\ exposed' = IF row.counted THEN exposed ELSE exposed \cup row.left
       /\ IF Refuses(row) THEN Answer(i, "rejected") ELSE Goto(i, "close") /\ verdict' = verdict
  /\ UNCHANGED <<park, upload, up, handle, lock, connVars, crashes, live, acked, mixed>>

\* Anything up to the flush fails: the upload, the leftover park file, the
\* checkpoint's statement, a handle that is closed.
Refuse(i) ==
  /\ pc[i] \in {"validate", "strip", "check", "flush"}
  /\ Answer(i, "rejected")
  /\ UNCHANGED <<fileVars, up, handle, lock, connVars, crashes, histVars>>

\* DB().Close(), whose error is only logged: the log goes with the last
\* connection, unless it cannot be written back.
Close(i) ==
  /\ pc[i] = "close"
  /\ handle' = "closed"
  /\ \/ UNCHANGED <<main, log>>
     \/ InUse = {} /\ main' = WrittenBack /\ log' = None
  /\ Goto(i, "rmlog")
  /\ UNCHANGED <<park, upload, up, lock, verdict, connVars, crashes, histVars>>

\* The log of the database about to go is removed.
RemoveLog(i) ==
  /\ pc[i] = "rmlog"
  /\ log' = None
  /\ conn' = [r \in Requests |-> IF conn[r] = "open" THEN "orphan" ELSE conn[r]]
  /\ Goto(i, "park")
  /\ UNCHANGED <<main, park, upload, up, handle, lock, verdict, connDb, crashes, histVars>>

ParkOriginal(i) ==
  /\ pc[i] = "park"
  /\ park' = main /\ main' = None
  /\ Goto(i, "swap")
  /\ UNCHANGED <<log, upload, up, handle, lock, verdict, connVars, crashes, histVars>>

Swap(i) ==
  /\ pc[i] = "swap"
  /\ main' = upload[i] /\ upload' = [upload EXCEPT ![i] = None]
  /\ Goto(i, "open")
  /\ UNCHANGED <<log, park, up, handle, lock, verdict, connVars, crashes, histVars>>

\* Reopen succeeds: the upload is the database from here on.
OpenReplacement(i) ==
  /\ pc[i] = "open"
  /\ Opened(main) /\ handle' = "open"
  /\ live' = main.db /\ acked' = {} /\ exposed' = {}
  /\ Goto(i, "rmpark")
  /\ UNCHANGED <<main, park, upload, up, lock, verdict, connVars, crashes>>

\* Removing the parked database can fail, and is only logged.
RemovePark(i) ==
  /\ pc[i] = "rmpark"
  /\ park' \in {None, park}
  /\ Answer(i, "done")
  /\ UNCHANGED <<main, log, upload, up, handle, lock, connVars, crashes, histVars>>

\* Mutant: a step that fails returns, and nothing is reopened.
StepFails_Returns(i) ==
  /\ \/ pc[i] = "rmlog" /\ log # None
     \/ pc[i] \in {"park", "swap"}
  /\ Answer(i, "rejected")
  /\ UNCHANGED <<fileVars, up, handle, lock, connVars, crashes, histVars>>

\* A step fails before anything has moved, or after: rollBack.
StepFails(i) ==
  /\ \/ pc[i] = "rmlog" /\ log # None /\ Goto(i, "reopen")
     \/ pc[i] = "park" /\ Goto(i, "reopen")
     \/ pc[i] = "swap" /\ Goto(i, "back")
  /\ UNCHANGED <<fileVars, up, handle, lock, verdict, connVars, crashes, histVars>>

\* Reopen fails on the replacement, part of the way: the connections it opened
\* are closed, and a log they cannot write back stays.
ReopenFails(i) ==
  /\ pc[i] = "open"
  /\ log' \in {None, [db |-> main.db, has |-> {}]}
  /\ Goto(i, "back")
  /\ UNCHANGED <<main, park, upload, up, handle, lock, verdict, connVars, crashes, histVars>>

\* rollBack, the original parked: one rename over the failed replacement.
RenameBack(i) ==
  /\ pc[i] = "back"
  /\ main' = park /\ park' = None
  /\ Goto(i, "reopen")
  /\ UNCHANGED <<log, upload, up, handle, lock, verdict, connVars, crashes, histVars>>

\* rollBack: the database is there, and opens.
ReopenOriginal(i) ==
  /\ pc[i] = "reopen" /\ main # None
  /\ Opened(main) /\ handle' = "open"
  /\ Answer(i, "rolledback")
  /\ UNCHANGED <<main, park, upload, up, lock, connVars, crashes, live, acked, exposed>>

\* rollBack: the rename, the look for the file or the opening fails.
RollBackFails(i) ==
  /\ pc[i] \in {"back", "reopen"}
  /\ Answer(i, "unavailable")
  /\ UNCHANGED <<fileVars, up, handle, lock, connVars, crashes, histVars>>
-----------------------------------------------------------------------------
(* The process dies, and is started again *)

Crash ==
  /\ up /\ crashes < MaxCrashes
  /\ up' = FALSE /\ handle' = "closed" /\ crashes' = crashes + 1
  /\ lock' = None /\ pc' = [i \in Importers |-> "idle"]
  /\ verdict' = [i \in Importers |-> "none"]
  /\ conn' = [r \in Requests |-> IF conn[r] \in {"open", "orphan"} THEN "done" ELSE conn[r]]
  /\ UNCHANGED <<fileVars, connDb, histVars>>

Swept == [i \in Importers |-> None]

\* store.New, which creates the database if there is none; SweepStagedUploads.
Start ==
  /\ ~up /\ up' = TRUE
  /\ main' = IF main = None THEN Empty ELSE main
  /\ Opened(main') /\ handle' = "open"
  /\ upload' = Swept
  /\ UNCHANGED <<park, lock, pc, verdict, connVars, crashes, live, acked, exposed>>

\* The operator follows the message: with the process down, the parked
\* database is moved back, and the log of the other one out of its way.
PutBack ==
  /\ ~up /\ park # None
  /\ main' = park /\ park' = None /\ log' = None
  /\ live' = park.db
  /\ acked' = IF live = park.db THEN acked ELSE {}
  /\ UNCHANGED <<upload, up, handle, lock, pc, verdict, connVars, crashes, exposed, mixed>>

Restoring(i) ==
  \/ Stage(i) \/ Lock(i) \/ Validate(i) \/ StripCredentials(i) \/ CheckPark(i) \/ Flush(i)
  \/ Refuse(i) \/ Close(i) \/ RemoveLog(i) \/ ParkOriginal(i) \/ Swap(i) \/ OpenReplacement(i)
  \/ RemovePark(i) \/ StepFails(i) \/ ReopenFails(i) \/ RenameBack(i) \/ ReopenOriginal(i)
  \/ RollBackFails(i) \/ Leave(i)

Next ==
  \/ \E i \in Importers : Restoring(i)
  \/ \E r \in Requests : Begin(r) \/ Commit(r) \/ Abandon(r)
  \/ Crash \/ Start \/ PutBack

Spec == Init /\ [][Next]_vars
-----------------------------------------------------------------------------
(* Properties *)

Steps == Flushed \cup {"idle", "staged", "validate", "strip", "check", "flush", "rmpark", "answered"}

\* What a file and its log hold together.
Held(file) == file.has \cup (IF log = None THEN {} ELSE log.has)

FileType ==
  /\ main \in Files \cup {None} /\ park \in Files \cup {None}
  /\ log \in Logs \cup {None}
  /\ upload \in [Importers -> Files \cup {None}]

FlagType == up \in BOOLEAN /\ mixed \in BOOLEAN

RestoreType ==
  /\ handle \in {"open", "closed"}
  /\ lock \in Importers \cup {None}
  /\ pc \in [Importers -> Steps]
  /\ verdict \in [Importers -> {"none", "rejected", "rolledback", "unavailable", "done"}]
  /\ crashes \in 0..MaxCrashes

RequestType ==
  /\ conn \in [Requests -> {"new", "open", "orphan", "done"}] /\ connDb \in [Requests -> Dbs]
  /\ live \in Dbs /\ acked \subseteq Requests /\ exposed \subseteq Requests

\* The log of an open database is there, and so is the file.
OpenType ==
  /\ handle = "open" => up /\ main # None /\ log # None
  /\ InUse # {} => main # None /\ log # None

\* The values of the variables.
TypeOK == FileType /\ FlagType /\ RestoreType /\ RequestType /\ OpenType

InPlace   == main # None /\ main.db = live /\ acked \ exposed \subseteq Held(main)
SetAside  == park # None /\ park.db = live /\ acked \ exposed \subseteq park.has

\* Until a restore has opened its replacement, the database that was in
\* service is at its own path or parked beside it, with every write answered
\* before the flush, except those that a checkpoint which could not run, and
\* was not refused for it, left in the log: whichever step fails, whenever the
\* process dies, and whatever is restored after that.  (Import's test of the
\* checkpoint's counts, and its check for a leftover park.)
LastCopySurvives == InPlace \/ SetAside

\* Once the old database is closed, "Import cannot return without either a
\* working database or ErrUnavailable".
ServesOrSaysSo ==
  [][\A i \in Importers :
       pc[i] \in Flushed \cup {"rmpark"} /\ pc'[i] = "answered" =>
         handle' = "open" \/ verdict'[i] = "unavailable"]_vars

\* The outcome Import reports is the one there is: the original back in
\* service with nothing parked; or the upload in service, without the tokens
\* and sessions it came with; or nothing in service.
AnswersAreTrue ==
  \A i \in Importers :
    pc[i] = "answered" =>
      /\ verdict[i] = "rolledback" => handle = "open" /\ main.db = live /\ park = None
      /\ verdict[i] = "done" => handle = "open" /\ main.db = i /\ ~main.creds
      /\ verdict[i] = "unavailable" => handle = "closed"

\* No restore brings in the tokens and sessions of its upload: neither one that
\* fails, nor one cut short whose database the next start finds in place, nor
\* one that was parked and is put back.
CredentialsStayBehind ==
  \A file \in {main, park} \ {None} : file.db \in Importers => ~file.creds

-----------------------------------------------------------------------------
(* What a message says and the code does not keep *)

\* "Restore failed. Your existing database is unchanged and still in use."
RolledBackIsUnchanged ==
  \A i \in Importers :
    pc[i] = "answered" /\ verdict[i] = "rolledback" => acked \subseteq Held(main) /\ ~mixed
=============================================================================
