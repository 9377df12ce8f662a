--------------------------- MODULE RestoreProofs ---------------------------
(* Proofs about Restore, for any restores, requests and number of crashes.  *)
EXTENDS Restore, TLAPS

-----------------------------------------------------------------------------
(* The inductive invariant                                                 *)

\* A restore past the lock holds it, in a process that runs.
LockInv ==
  \A i \in Importers :
    /\ pc[i] # "idle" => up
    /\ pc[i] \notin {"idle", "staged"} => lock = i

\* The database in place, the one set aside and those staged are told apart;
\* start-up makes an empty one only where another is set aside.
FileInv ==
  /\ main # None /\ park # None => main.db # park.db
  /\ main # None /\ main.db = "empty" => park # None
  /\ park # None => park.db # "empty"
  /\ \A i \in Importers : upload[i] # None =>
       /\ upload[i].db = i
       /\ main # None => main.db # i
       /\ park # None => park.db # i

\* A connection in use is to the database in place.
ConnInv ==
  /\ ~up => InUse = {}
  /\ \A r \in InUse : connDb[r] = main.db

\* What is staged is there until it is swapped in, and stripped by then.
StagedOf(i) ==
  /\ pc[i] \in {"staged", "validate", "strip", "check", "flush", "close", "rmlog", "park", "swap"}
       => upload[i] # None
  /\ pc[i] \in {"check", "flush", "close", "rmlog", "park", "swap"} => ~upload[i].creds

\* Everything that has to survive is in the file itself, in place.
InFile == main # None /\ main.db = live /\ acked \ exposed \subseteq main.has

\* Where the database that was in service is at each step of a restore.
StepOf(i) ==
  /\ pc[i] \in {"flush", "close", "rmlog", "park", "reopen"} => park = None
  /\ pc[i] = "close" => handle = "open"
  /\ pc[i] \in {"rmlog", "park", "swap", "open", "back", "reopen"} => handle = "closed"
  /\ pc[i] \in {"close", "rmlog", "park", "reopen"} => InFile
  /\ pc[i] \in {"swap", "open", "back"} => SetAside
  /\ pc[i] \in {"park", "swap", "open", "back"} => InUse = {}
  /\ pc[i] = "open" => main # None /\ main.db = i /\ ~main.creds
  /\ pc[i] = "rmpark" => handle = "open" /\ InPlace /\ main.db = i /\ ~main.creds

\* What an answer that is being given says is so.
AnswerOf(i) ==
  pc[i] = "answered" =>
    /\ verdict[i] = "rolledback" => handle = "open" /\ main.db = live /\ park = None
    /\ verdict[i] = "done" => handle = "open" /\ main.db = i /\ ~main.creds
    /\ verdict[i] = "unavailable" => handle = "closed"

StepInv == \A i \in Importers : StagedOf(i) /\ StepOf(i) /\ AnswerOf(i)

IInv == TypeOK /\ LockInv /\ FileInv /\ ConnInv /\ StepInv /\ LastCopySurvives

-----------------------------------------------------------------------------
(* Files and steps                                                         *)

\* A file that has had writes added is the same database.
LEMMA AddFact ==
  ASSUME NEW file \in Files, NEW W \in SUBSET Requests
  PROVE  LET more == [file EXCEPT !.has = @ \cup W] IN
         /\ more \in Files /\ more # None
         /\ more.db = file.db /\ more.creds = file.creds /\ more.has = file.has \cup W
BY ConstantsAssumption DEF Files

\* So is the log.
LEMMA LogFact ==
  ASSUME NEW l \in Logs, NEW W \in SUBSET Requests
  PROVE  /\ [l EXCEPT !.has = @ \cup W] \in Logs /\ [l EXCEPT !.has = @ \cup W] # None
         /\ [l EXCEPT !.has = @ \cup W].has = l.has \cup W
         /\ [l EXCEPT !.has = @ \ W] \in Logs /\ [l EXCEPT !.has = @ \ W] # None
         /\ [l EXCEPT !.has = @ \ W].has = l.has \ W
BY ConstantsAssumption DEF Logs

\* Opening keeps what the log holds.
LEMMA OpenedFact ==
  ASSUME FileType, NEW file \in Files, Opened(file)
  PROVE  /\ log' \in Logs /\ log' # None
         /\ log # None => log'.has = log.has
BY ConstantsAssumption DEF FileType, Files, Logs, Opened

\* What a checkpoint leaves in the log, and moves into the file otherwise; it
\* leaves nothing that has to survive if the restore goes on from it.
LEMMA FlushFact ==
  ASSUME NEW i \in Importers, Flush(i), main \in Files, log \in Logs
  PROVE  /\ main' \in Files /\ main' # None
         /\ main'.db = main.db /\ main'.creds = main.creds
         /\ log' \in Logs /\ log' # None
         /\ log'.has \subseteq log.has /\ main'.has = main.has \cup (log.has \ log'.has)
         /\ exposed' = exposed \/ exposed' = exposed \cup log'.has
         /\ \/ Answer(i, "rejected")
            \/ /\ Goto(i, "close") /\ verdict' = verdict
               /\ log'.has = {} \/ exposed' = exposed \cup log'.has
<1>1. PICK row \in Checkpoints :
        /\ main' = [main EXCEPT !.has = @ \cup (log.has \ row.left)]
        /\ log' = [log EXCEPT !.has = row.left]
        /\ exposed' = IF row.counted THEN exposed ELSE exposed \cup row.left
        /\ IF Refuses(row) THEN Answer(i, "rejected") ELSE Goto(i, "close") /\ verdict' = verdict
  BY DEF Flush
<1>2. log.has \in SUBSET Requests
  BY DEF Logs
<1>3. row.left \in SUBSET log.has
  BY DEF Checkpoints
<1>4. /\ main' \in Files /\ main' # None
      /\ main'.db = main.db /\ main'.creds = main.creds
      /\ main'.has = main.has \cup (log.has \ row.left)
  BY <1>1, <1>2, AddFact
<1>5. log' \in Logs /\ log' # None /\ log'.has = row.left
  BY <1>1, <1>2, <1>3, ConstantsAssumption DEF Logs
<1>6. exposed' = exposed \/ exposed' = exposed \cup row.left
  BY <1>1
<1>7. \/ Answer(i, "rejected")
      \/ /\ Goto(i, "close") /\ verdict' = verdict
         /\ row.left = {} \/ exposed' = exposed \cup row.left
  <2>1. CASE Refuses(row)
    BY <1>1, <2>1
  <2>2. CASE ~Refuses(row)
    BY <1>1, <2>2 DEF Refuses
  <2> QED  BY <2>1, <2>2
<1> QED  BY <1>3, <1>4, <1>5, <1>6, <1>7

LEMMA WrittenBackFact ==
  ASSUME FileType, main # None, log # None
  PROVE  /\ WrittenBack \in Files /\ WrittenBack # None
         /\ WrittenBack.db = main.db /\ WrittenBack.creds = main.creds
         /\ WrittenBack.has = main.has \cup log.has
<1>1. main \in Files /\ log.has \in SUBSET Requests
  BY DEF FileType, Logs
<1> QED  BY <1>1, AddFact DEF WrittenBack

\* While one restore is past the lock, every other waits or rests.
LEMMA Alone ==
  ASSUME LockInv, NEW i \in Importers, pc[i] \notin {"idle", "staged"},
         NEW j \in Importers, j # i
  PROVE  pc[j] \in {"idle", "staged"}
BY DEF LockInv

-----------------------------------------------------------------------------
(* Types *)

LEMMA InitType == Init => TypeOK
<1> SUFFICES ASSUME Init  PROVE TypeOK
  OBVIOUS
<1>1. FileType
  BY DEF Init, FileType, Files, Logs, Dbs
<1>2. FlagType
  BY Zenon DEF Init, FlagType
<1>3. RestoreType
  BY ConstantsAssumption DEF Init, RestoreType, Steps
<1>4. RequestType
  BY DEF Init, RequestType, Dbs
<1>5. OpenType
  <2>1. main \in Files /\ log \in Logs
    BY DEF Init, Files, Logs, Dbs
  <2>2. main # None /\ log # None
    BY <2>1, ConstantsAssumption
  <2>3. up
    BY Zenon DEF Init
  <2> QED  BY <2>2, <2>3, Zenon DEF OpenType
<1> QED  BY <1>1, <1>2, <1>3, <1>4, <1>5 DEF TypeOK

LEMMA FileTypeStep ==
  ASSUME IInv, Next
  PROVE  FileType'
<1> USE DEF fileVars
<1>0. FileType /\ RequestType /\ OpenType
  BY DEF IInv, TypeOK
<1>1. CASE UNCHANGED fileVars
  BY <1>0, <1>1 DEF FileType
<1>2. ASSUME NEW r \in Requests, Commit(r)  PROVE FileType'
  <2>1. CASE UNCHANGED <<main, log>>
    BY <1>0, <1>2, <2>1 DEF Commit, FileType
  <2>2. CASE conn[r] = "open" /\ log' = [log EXCEPT !.has = @ \cup {r}] /\ main' = main
    <3>1. log \in Logs
      BY <1>0, <2>2 DEF FileType, OpenType, InUse
    <3>2. log' \in Logs
      BY <2>2, <3>1, LogFact
    <3> QED  BY <1>0, <1>2, <2>2, <3>2 DEF Commit, FileType
  <2>3. CASE /\ conn[r] = "open" /\ main' = [WrittenBack EXCEPT !.has = @ \cup {r}]
             /\ log' = None
    <3>1. WrittenBack \in Files
      BY <1>0, <2>3, WrittenBackFact DEF OpenType, InUse
    <3>2. main' \in Files
      BY <2>3, <3>1, AddFact
    <3> QED  BY <1>0, <1>2, <2>3, <3>2 DEF Commit, FileType
  <2> QED  BY <1>2, <2>1, <2>2, <2>3 DEF Commit
<1>3. ASSUME NEW r \in Requests, Abandon(r)  PROVE FileType'
  <2>1. CASE UNCHANGED <<main, log>>
    BY <1>0, <1>3, <2>1 DEF Abandon, FileType
  <2>2. CASE conn[r] = "open" /\ main' = WrittenBack /\ log' = None
    <3>1. main' \in Files
      BY <1>0, <2>2, WrittenBackFact DEF OpenType, InUse
    <3> QED  BY <1>0, <1>3, <2>2, <3>1 DEF Abandon, FileType
  <2> QED  BY <1>3, <2>1, <2>2 DEF Abandon
<1>4. ASSUME NEW i \in Importers, Stage(i) \/ StripCredentials(i) \/ Leave(i)
      PROVE  FileType'
  <2>1. CASE Stage(i) \/ Leave(i)
    <3>1. [db |-> i, has |-> {}, creds |-> TRUE] \in Files
      BY DEF Files, Dbs
    <3> QED  BY <1>0, <2>1, <3>1 DEF FileType, Stage, Leave
  <2>2. CASE StripCredentials(i)
    <3>1. upload[i] \in Files
      BY <2>2 DEF IInv, TypeOK, FileType, StepInv, StagedOf, StripCredentials
    <3>2. Stripped(upload[i]) \in Files
      BY <3>1 DEF Stripped, Files
    <3> QED  BY <1>0, <2>2, <3>2 DEF FileType, StripCredentials
  <2> QED  BY <1>4, <2>1, <2>2
<1>5. ASSUME NEW i \in Importers, Flush(i)  PROVE FileType'
  <2>1. main \in Files /\ log \in Logs
    BY <1>0, <1>5 DEF Flush, FileType, OpenType
  <2>2. main' \in Files /\ log' \in Logs
    BY <1>5, <2>1, FlushFact
  <2> QED  BY <1>0, <1>5, <2>2 DEF Flush, FileType
<1>6. ASSUME NEW i \in Importers, Close(i)  PROVE FileType'
  <2>1. handle = "open"
    BY <1>6 DEF IInv, StepInv, StepOf, Close
  <2>2. WrittenBack \in Files
    BY <1>0, <2>1, WrittenBackFact DEF OpenType
  <2> QED  BY <1>0, <1>6, <2>2 DEF Close, FileType
<1>7. ASSUME NEW i \in Importers,
             RemoveLog(i) \/ ParkOriginal(i) \/ Swap(i) \/ RemovePark(i) \/ RenameBack(i)
      PROVE  FileType'
  BY <1>0, <1>7 DEF FileType, RemoveLog, ParkOriginal, Swap, RemovePark, RenameBack
<1>8. ASSUME NEW i \in Importers, OpenReplacement(i) \/ ReopenFails(i) \/ ReopenOriginal(i)
      PROVE  FileType'
  <2>1. main \in Files
    BY <1>0, <1>8
       DEF IInv, StepInv, StepOf, FileType, OpenReplacement, ReopenFails, ReopenOriginal
  <2>2. CASE OpenReplacement(i) \/ ReopenOriginal(i)
    BY <1>0, <2>1, <2>2, OpenedFact DEF FileType, OpenReplacement, ReopenOriginal
  <2>3. CASE ReopenFails(i)
    BY <1>0, <2>1, <2>3 DEF FileType, ReopenFails, Files, Logs
  <2> QED  BY <1>8, <2>2, <2>3
<1>9. CASE Start
  <2>1. Empty \in Files
    BY DEF Empty, Files, Dbs
  <2>2. main' \in Files
    BY <1>0, <1>9, <2>1 DEF Start, FileType
  <2>3. log' \in Logs
    BY <1>0, <1>9, <2>2 DEF Start, FileType, Opened, Files, Logs
  <2> QED  BY <1>0, <1>9, <2>2, <2>3 DEF Start, FileType, Swept
<1>10. CASE PutBack
  BY <1>0, <1>10 DEF PutBack, FileType
<1> QED
  BY <1>1, <1>2, <1>3, <1>4, <1>5, <1>6, <1>7, <1>8, <1>9, <1>10
     DEF Next, Restoring, Begin, Lock, Validate, CheckPark, Refuse, StepFails, RollBackFails, Crash

LEMMA FlagTypeStep ==
  ASSUME FlagType, Next
  PROVE  FlagType'
<1> USE DEF FlagType, histVars
<1>1. ASSUME NEW i \in Importers, Restoring(i)  PROVE FlagType'
  BY <1>1, Zenon
     DEF Restoring, Stage, Lock, Validate, StripCredentials, CheckPark, Flush, Refuse, Close,
         RemoveLog, ParkOriginal, Swap, OpenReplacement, Opened, RemovePark, StepFails,
         ReopenFails, RenameBack, ReopenOriginal, RollBackFails, Leave
<1>2. ASSUME NEW r \in Requests, Begin(r) \/ Commit(r) \/ Abandon(r)  PROVE FlagType'
  BY <1>2, Zenon DEF Begin, Commit, Abandon
<1>3. CASE Crash \/ Start \/ PutBack
  BY <1>3, Zenon DEF Crash, Start, Opened, PutBack
<1> QED  BY <1>1, <1>2, <1>3 DEF Next

LEMMA RestoreTypeStep ==
  ASSUME RestoreType, Next
  PROVE  RestoreType'
<1> USE DEF RestoreType, Goto, Answer, Steps, Flushed
<1>1. ASSUME NEW i \in Importers, Restoring(i)  PROVE RestoreType'
  <2>1. CASE \/ Stage(i) \/ Lock(i) \/ Validate(i) \/ StripCredentials(i) \/ CheckPark(i)
             \/ Flush(i) \/ Refuse(i) \/ Close(i) \/ Leave(i)
    BY <2>1 DEF Stage, Lock, Validate, StripCredentials, CheckPark, Flush, Refuse, Close, Leave
  <2>2. CASE \/ RemoveLog(i) \/ ParkOriginal(i) \/ Swap(i) \/ OpenReplacement(i)
             \/ RemovePark(i)
    BY <2>2 DEF RemoveLog, ParkOriginal, Swap, OpenReplacement, RemovePark
  <2>3. CASE \/ StepFails(i) \/ ReopenFails(i) \/ RenameBack(i) \/ ReopenOriginal(i)
             \/ RollBackFails(i)
    BY <2>3 DEF StepFails, ReopenFails, RenameBack, ReopenOriginal, RollBackFails
  <2> QED  BY <1>1, <2>1, <2>2, <2>3 DEF Restoring
<1>2. ASSUME NEW r \in Requests, Begin(r) \/ Commit(r) \/ Abandon(r)  PROVE RestoreType'
  BY <1>2 DEF Begin, Commit, Abandon
<1>3. CASE Crash \/ Start \/ PutBack
  BY <1>3, ConstantsAssumption DEF Crash, Start, PutBack
<1> QED  BY <1>1, <1>2, <1>3 DEF Next

LEMMA RequestTypeStep ==
  ASSUME IInv, Next
  PROVE  RequestType'
<1> USE DEF RequestType, connVars, histVars
<1>0. RequestType /\ FileType /\ OpenType
  BY DEF IInv, TypeOK
<1>1. CASE UNCHANGED <<connVars, live, acked, exposed>>
  BY <1>0, <1>1
<1>2. ASSUME NEW r \in Requests, Begin(r)  PROVE RequestType'
  BY <1>0, <1>2 DEF Begin, FileType, OpenType, Files
<1>3. ASSUME NEW r \in Requests, Commit(r) \/ Abandon(r)  PROVE RequestType'
  BY <1>0, <1>3 DEF Commit, Abandon
<1>4. ASSUME NEW i \in Importers, RemoveLog(i)  PROVE RequestType'
  BY <1>0, <1>4 DEF RemoveLog
<1>5. ASSUME NEW i \in Importers, OpenReplacement(i)  PROVE RequestType'
  <2>1. main \in Files
    BY <1>0, <1>5 DEF IInv, StepInv, StepOf, FileType, OpenReplacement
  <2> QED  BY <1>0, <1>5, <2>1 DEF OpenReplacement, Files
<1>6. CASE Crash \/ PutBack
  BY <1>0, <1>6 DEF Crash, PutBack, FileType, Files
<1>7. ASSUME NEW i \in Importers, Flush(i)  PROVE RequestType'
  <2>1. main \in Files /\ log \in Logs
    BY <1>0, <1>7 DEF Flush, FileType, OpenType
  <2>2. exposed' \subseteq Requests
    BY <1>0, <1>7, <2>1, FlushFact DEF Logs
  <2> QED  BY <1>0, <1>7, <2>2 DEF Flush
<1> QED
  BY <1>1, <1>2, <1>3, <1>4, <1>5, <1>6, <1>7
     DEF Next, Restoring, Stage, Lock, Validate, StripCredentials, CheckPark, Refuse, Close,
         ParkOriginal, Swap, RemovePark, StepFails, ReopenFails, RenameBack, ReopenOriginal,
         RollBackFails, Leave, Start

-----------------------------------------------------------------------------
(* What the steps of a request keep *)

\* A request that returns its connection leaves the database in place, with
\* all that its file and its log held; a commit adds itself.
LEMMA ReturnFact ==
  ASSUME IInv, NEW r \in Requests, Commit(r) \/ Abandon(r)
  PROVE  /\ InUse' = InUse \ {r}
         /\ main' = None <=> main = None
         /\ main # None => main'.db = main.db /\ main'.creds = main.creds
         /\ main # None => main.has \subseteq main'.has
         /\ main # None => Held(main) \subseteq Held(main)'
         /\ conn[r] = "open" /\ Commit(r) => main # None /\ r \in Held(main)'
         /\ log' = None => log = None \/ (InUse' = {} /\ handle = "closed")
<1>0. FileType /\ RequestType /\ OpenType
  BY DEF IInv, TypeOK
<1>1. InUse' = InUse \ {r}
  BY <1>0 DEF InUse, RequestType, Commit, Abandon
<1>2. CASE UNCHANGED <<main, log>> /\ (Commit(r) => conn[r] = "orphan")
  <2>1. Held(main)' = Held(main)
    BY <1>2 DEF Held
  <2>2. ~(conn[r] = "open" /\ Commit(r))
    BY <1>2
  <2> QED  BY <1>1, <1>2, <2>1, <2>2
<1>3. CASE /\ conn[r] = "open" /\ handle = "closed" /\ InUse = {r} /\ log' = None
           /\ \/ main' = [WrittenBack EXCEPT !.has = @ \cup {r}]
              \/ main' = WrittenBack /\ ~Commit(r)
  <2>1. main # None /\ log # None
    BY <1>0, <1>3 DEF OpenType
  <2>2. /\ WrittenBack \in Files /\ WrittenBack # None
        /\ WrittenBack.db = main.db /\ WrittenBack.creds = main.creds
        /\ WrittenBack.has = main.has \cup log.has
    BY <1>0, <2>1, WrittenBackFact
  <2>3. Held(main) = main.has \cup log.has /\ Held(main)' = main'.has
    BY <1>3, <2>1 DEF Held
  <2>4. /\ main' # None /\ main'.db = main.db /\ main'.creds = main.creds
        /\ main.has \cup log.has \subseteq main'.has
        /\ Commit(r) => r \in main'.has
    <3>1. CASE main' = WrittenBack /\ ~Commit(r)
      BY <2>2, <3>1
    <3>2. CASE main' = [WrittenBack EXCEPT !.has = @ \cup {r}]
      <4>1. {r} \in SUBSET Requests
        OBVIOUS
      <4>2. /\ main' # None
            /\ main'.db = WrittenBack.db /\ main'.creds = WrittenBack.creds
            /\ main'.has = WrittenBack.has \cup {r}
        BY <2>2, <3>2, <4>1, AddFact
      <4> QED  BY <2>2, <4>2
    <3> QED  BY <1>3, <3>1, <3>2
  <2>5. main.has \subseteq main'.has
    BY <2>4
  <2> QED  BY <1>1, <1>3, <2>1, <2>3, <2>4, <2>5
<1>4. CASE conn[r] = "open" /\ log' = [log EXCEPT !.has = @ \cup {r}] /\ main' = main
  <2>1. main # None /\ log # None /\ log \in Logs
    BY <1>0, <1>4 DEF FileType, OpenType, InUse
  <2>2. {r} \in SUBSET Requests
    OBVIOUS
  <2>3. log' # None /\ log'.has = log.has \cup {r}
    BY <1>4, <2>1, <2>2, LogFact
  <2>4. Held(main) = main.has \cup log.has /\ Held(main)' = main.has \cup log.has \cup {r}
    BY <1>4, <2>1, <2>3 DEF Held
  <2> QED  BY <1>1, <1>4, <2>1, <2>3, <2>4
<1>5. CASE Commit(r)
  BY <1>2, <1>3, <1>4, <1>5 DEF Commit
<1>6. CASE Abandon(r) /\ ~Commit(r)
  BY <1>2, <1>3, <1>6 DEF Abandon
<1> QED  BY <1>5, <1>6

\* So nothing answered is lost: from the flush on an answer counts as exposed, and
\* before it the write is in the file or its log.
LEMMA ReturnKeeps ==
  ASSUME IInv, NEW r \in Requests, Commit(r) \/ Abandon(r)
  PROVE  /\ InPlace => InPlace'
         /\ SetAside => SetAside'
         /\ InFile /\ (\E i \in Importers : pc[i] \in Flushed) => InFile'
<1>0. FileType /\ RequestType /\ OpenType /\ ConnInv /\ FileInv
  BY DEF IInv, TypeOK
<1>1. /\ main' = None <=> main = None
      /\ main # None => main'.db = main.db /\ main.has \subseteq main'.has
      /\ main # None => Held(main) \subseteq Held(main)'
      /\ conn[r] = "open" /\ Commit(r) => main # None /\ r \in Held(main)'
  BY ReturnFact
<1>2. park' = park /\ live' = live
  BY DEF Commit, Abandon, histVars
<1>3. CASE acked' \ exposed' \subseteq acked \ exposed
  <2>1. SetAside => SetAside'
    BY <1>2, <1>3 DEF SetAside
  <2>2. InFile => InFile'
    BY <1>1, <1>2, <1>3 DEF InFile
  <2>3. InPlace => InPlace'
    BY <1>1, <1>2, <1>3 DEF InPlace
  <2> QED  BY <2>1, <2>2, <2>3
<1>4. CASE /\ Commit(r) /\ conn[r] = "open" /\ exposed' = exposed
           /\ ~ \E i \in Importers : pc[i] \in Flushed
  <2>1. main # None /\ connDb[r] = main.db
    BY <1>0, <1>1, <1>4 DEF ConnInv, InUse
  <2>2. acked' = acked \/ (acked' = acked \cup {r} /\ live = main.db)
    BY <1>4, <2>1 DEF Commit
  <2>3. InPlace => InPlace'
    BY <1>1, <1>2, <1>4, <2>1, <2>2 DEF InPlace
  <2>4. SetAside => SetAside'
    BY <1>0, <1>2, <1>4, <2>1, <2>2 DEF SetAside, FileInv
  <2> QED  BY <1>4, <2>3, <2>4
<1>5. Abandon(r) => acked' \ exposed' \subseteq acked \ exposed
  BY DEF Abandon, histVars
<1>6. CASE Commit(r) /\ (conn[r] = "orphan" \/ \E i \in Importers : pc[i] \in Flushed)
  BY <1>3, <1>6 DEF Commit
<1> QED  BY <1>3, <1>4, <1>5, <1>6 DEF Commit

-----------------------------------------------------------------------------
(* The open database *)

LEMMA OpenTypeStep ==
  ASSUME IInv, Next
  PROVE  OpenType'
<1>0. FileType /\ RequestType /\ OpenType /\ LockInv /\ ConnInv
  BY DEF IInv, TypeOK
<1> USE DEF fileVars, connVars
<1>1. CASE UNCHANGED <<main, log, up, handle, conn>>
  BY <1>0, <1>1 DEF OpenType, InUse
<1>2. ASSUME NEW r \in Requests, Begin(r)  PROVE OpenType'
  BY <1>0, <1>2 DEF OpenType, Begin
<1>3. ASSUME NEW r \in Requests, Commit(r) \/ Abandon(r)  PROVE OpenType'
  <2>1. /\ InUse' = InUse \ {r} /\ (main' = None <=> main = None)
        /\ log' = None => log = None \/ (InUse' = {} /\ handle = "closed")
    BY <1>3, ReturnFact
  <2>2. up' = up /\ handle' = handle
    BY <1>3 DEF Commit, Abandon
  <2> QED  BY <1>0, <2>1, <2>2 DEF OpenType
<1>4. ASSUME NEW i \in Importers, Flush(i)  PROVE OpenType'
  <2>1. main \in Files /\ log \in Logs
    BY <1>0, <1>4 DEF Flush, FileType, OpenType
  <2>2. main' # None /\ log' # None
    BY <1>4, <2>1, FlushFact
  <2> QED  BY <1>0, <1>4, <2>2 DEF OpenType, Flush, InUse
<1>5. ASSUME NEW i \in Importers, Close(i)  PROVE OpenType'
  <2>1. handle' = "closed" /\ InUse' = InUse
    BY <1>5 DEF Close, InUse
  <2>2. InUse # {} => UNCHANGED <<main, log>>
    BY <1>5 DEF Close
  <2> QED  BY <1>0, <2>1, <2>2 DEF OpenType
<1>6. ASSUME NEW i \in Importers, RemoveLog(i)  PROVE OpenType'
  <2>1. handle' = "closed"
    BY <1>6 DEF IInv, StepInv, StepOf, RemoveLog
  <2>2. InUse' = {}
    BY <1>6 DEF RemoveLog, InUse
  <2> QED  BY <2>1, <2>2 DEF OpenType
<1>7. ASSUME NEW i \in Importers,
             ParkOriginal(i) \/ Swap(i) \/ ReopenFails(i) \/ RenameBack(i)
      PROVE  OpenType'
  <2>1. handle' = "closed" /\ InUse' = {}
    BY <1>7 DEF IInv, StepInv, StepOf, ParkOriginal, Swap, ReopenFails, RenameBack, InUse
  <2> QED  BY <2>1 DEF OpenType
<1>8. ASSUME NEW i \in Importers, OpenReplacement(i) \/ ReopenOriginal(i)  PROVE OpenType'
  <2>1. main \in Files /\ main # None
    BY <1>0, <1>8 DEF IInv, StepInv, StepOf, FileType, OpenReplacement, ReopenOriginal
  <2>2. log' # None
    BY <1>0, <1>8, <2>1, OpenedFact DEF OpenReplacement, ReopenOriginal
  <2>3. up' /\ main' # None
    BY <1>0, <1>8, <2>1 DEF LockInv, OpenReplacement, ReopenOriginal
  <2> QED  BY <2>2, <2>3 DEF OpenType
<1>9. CASE Start
  <2>1. Empty \in Files /\ Empty # None
    <3>1. Empty \in Files
      BY DEF Empty, Files, Dbs
    <3> QED  BY <3>1, ConstantsAssumption
  <2>2. main' \in Files /\ main' # None
    BY <1>0, <1>9, <2>1 DEF Start, FileType
  <2>3. log' # None
    BY <1>0, <1>9, <2>2, ConstantsAssumption DEF Start, FileType, Opened, Files, Logs
  <2>4. up'
    BY <1>9, Zenon DEF Start
  <2> QED  BY <2>2, <2>3, <2>4 DEF OpenType
<1>10. CASE PutBack \/ Crash
  <2>1. handle' # "open"
    BY <1>0, <1>10 DEF PutBack, Crash, OpenType
  <2>2. InUse' = {}
    BY <1>0, <1>10 DEF PutBack, Crash, InUse, ConnInv
  <2> QED  BY <2>1, <2>2 DEF OpenType
<1> QED
  BY <1>1, <1>2, <1>3, <1>4, <1>5, <1>6, <1>7, <1>8, <1>9, <1>10
     DEF Next, Restoring, Stage, Lock, Validate, StripCredentials, CheckPark, Refuse, RemovePark,
         StepFails, RollBackFails, Leave

-----------------------------------------------------------------------------
(* The lock, the files and the connections *)

LEMMA LockStep ==
  ASSUME IInv, Next
  PROVE  LockInv'
<1>0. LockInv /\ FlagType /\ RestoreType
  BY DEF IInv, TypeOK
<1> USE DEF LockInv, RestoreType, Goto, Answer
<1>1. CASE UNCHANGED <<lock, pc, up>>
  BY <1>0, <1>1
<1>2. ASSUME NEW i \in Importers, Restoring(i)  PROVE LockInv'
  <2>1. CASE Stage(i)
    BY <1>0, <2>1 DEF Stage
  <2>2. CASE Lock(i)
    BY <1>0, <2>2, ConstantsAssumption DEF Lock
  <2>3. CASE Leave(i)
    BY <1>0, <2>3, Alone DEF Leave
  <2>4. ASSUME up' = up, lock' = lock, pc[i] \notin {"idle", "staged"},
               NEW step, pc' = [pc EXCEPT ![i] = step]
        PROVE  LockInv'
    BY <1>0, <2>4
  <2>5. CASE \/ Validate(i) \/ StripCredentials(i) \/ CheckPark(i) \/ Flush(i) \/ Refuse(i)
             \/ Close(i) \/ RemoveLog(i) \/ ParkOriginal(i) \/ Swap(i)
    BY <2>4, <2>5
       DEF Validate, StripCredentials, CheckPark, Flush, Refuse, Close, RemoveLog, ParkOriginal, Swap
  <2>6. CASE \/ OpenReplacement(i) \/ RemovePark(i) \/ StepFails(i) \/ ReopenFails(i)
             \/ RenameBack(i) \/ ReopenOriginal(i) \/ RollBackFails(i)
    BY <2>4, <2>6
       DEF OpenReplacement, RemovePark, StepFails, ReopenFails, RenameBack, ReopenOriginal,
           RollBackFails
  <2> QED  BY <1>2, <2>1, <2>2, <2>3, <2>5, <2>6 DEF Restoring
<1>3. CASE Crash
  BY <1>3 DEF Crash
<1>4. CASE Start
  BY <1>0, <1>4 DEF Start
<1> QED
  BY <1>1, <1>2, <1>3, <1>4 DEF Next, Begin, Commit, Abandon, PutBack

\* The files stay told apart.
LEMMA FileStep ==
  ASSUME IInv, Next
  PROVE  FileInv'
<1>0. FileType /\ FileInv /\ LastCopySurvives /\ StepInv
  BY DEF IInv, TypeOK
<1> USE DEF fileVars
<1>1. CASE UNCHANGED fileVars
  BY <1>0, <1>1 DEF FileInv
<1>2. ASSUME park' = park, upload' = upload, main' = None <=> main = None,
             main # None => main'.db = main.db
      PROVE  FileInv'
  BY <1>0, <1>2 DEF FileInv
<1>3. ASSUME NEW r \in Requests, Commit(r) \/ Abandon(r)  PROVE FileInv'
  <2>1. (main' = None <=> main = None) /\ (main # None => main'.db = main.db)
    BY <1>3, ReturnFact
  <2> QED  BY <1>2, <1>3, <2>1 DEF Commit, Abandon
<1>4. ASSUME NEW i \in Importers, Stage(i)  PROVE FileInv'
  <2>1. main # None => main.db # i
    BY <1>4 DEF Stage
  <2>2. park # None => park.db # i
    BY <1>4 DEF Stage
  <2>3. upload' = [upload EXCEPT ![i] = [db |-> i, has |-> {}, creds |-> TRUE]]
    BY <1>4 DEF Stage
  <2>4. \A j \in Importers : upload'[j] # None =>
          /\ upload'[j].db = j
          /\ main # None => main.db # j
          /\ park # None => park.db # j
    BY <1>0, <2>1, <2>2, <2>3 DEF FileInv, FileType
  <2> QED  BY <1>0, <1>4, <2>4 DEF FileInv, Stage
<1>5. ASSUME NEW i \in Importers, StripCredentials(i)  PROVE FileInv'
  <2>1. upload[i] \in Files /\ upload[i] # None
    BY <1>0, <1>5 DEF FileType, StepInv, StagedOf, StripCredentials
  <2>2. Stripped(upload[i]).db = upload[i].db
    BY <2>1 DEF Stripped, Files
  <2>3. \A j \in Importers : upload'[j] # None => upload[j] # None /\ upload'[j].db = upload[j].db
    BY <1>0, <1>5, <2>1, <2>2 DEF FileType, StripCredentials
  <2> QED  BY <1>0, <1>5, <2>3 DEF FileInv, StripCredentials
<1>6. ASSUME NEW i \in Importers, Leave(i)  PROVE FileInv'
  BY <1>0, <1>6 DEF FileInv, FileType, Leave
<1>7. ASSUME NEW i \in Importers, Flush(i)  PROVE FileInv'
  <2>1. main \in Files /\ log \in Logs /\ main # None
    BY <1>0, <1>7 DEF Flush, FileType, IInv, TypeOK, OpenType
  <2>2. main' # None /\ main'.db = main.db
    BY <1>7, <2>1, FlushFact
  <2> QED  BY <1>2, <1>7, <2>1, <2>2 DEF Flush
<1>8. ASSUME NEW i \in Importers, Close(i)  PROVE FileInv'
  <2>1. main # None /\ log # None
    BY <1>0, <1>8 DEF IInv, TypeOK, OpenType, StepInv, StepOf, Close
  <2>2. WrittenBack # None /\ WrittenBack.db = main.db
    BY <1>0, <2>1, WrittenBackFact
  <2>3. main' = main \/ main' = WrittenBack
    BY <1>8 DEF Close
  <2> QED  BY <1>2, <1>8, <2>1, <2>2, <2>3 DEF Close
<1>9. ASSUME NEW i \in Importers, ParkOriginal(i)  PROVE FileInv'
  <2>1. main # None /\ park = None
    BY <1>0, <1>9 DEF StepInv, StepOf, InFile, ParkOriginal
  <2> QED  BY <1>0, <1>9, <2>1 DEF FileInv, ParkOriginal
<1>10. ASSUME NEW i \in Importers, Swap(i)  PROVE FileInv'
  <2>1. upload[i] # None /\ upload[i].db = i /\ (park # None => park.db # i)
    BY <1>0, <1>10 DEF StepInv, StagedOf, FileInv, Swap
  <2>2. i # "empty"
    BY ConstantsAssumption
  <2> QED  BY <1>0, <1>10, <2>1, <2>2 DEF FileInv, FileType, Swap
<1>11. ASSUME NEW i \in Importers, RemovePark(i)  PROVE FileInv'
  <2>1. main # None /\ main.db # "empty"
    BY <1>0, <1>11, ConstantsAssumption DEF StepInv, StepOf, InPlace, RemovePark
  <2> QED  BY <1>0, <1>11, <2>1 DEF FileInv, RemovePark
<1>12. ASSUME NEW i \in Importers, RenameBack(i)  PROVE FileInv'
  <2>1. park # None
    BY <1>0, <1>12 DEF StepInv, StepOf, SetAside, RenameBack
  <2> QED  BY <1>0, <1>12, <2>1 DEF FileInv, RenameBack
<1>13. CASE Start
  <2>1. main = None => main' = Empty /\ park # None
    BY <1>0, <1>13 DEF Start, LastCopySurvives, InPlace, SetAside
  <2>2. \A i \in Importers : upload'[i] = None
    BY <1>13 DEF Start, Swept
  <2>3. park' = park /\ (main # None => main' = main) /\ Empty.db = "empty"
    BY <1>13 DEF Start, Empty
  <2> QED  BY <1>0, <2>1, <2>2, <2>3 DEF FileInv
<1>14. CASE PutBack
  BY <1>0, <1>14 DEF FileInv, PutBack
<1>15. CASE UNCHANGED <<main, park, upload>>
  BY <1>2, <1>15
<1> QED
  BY <1>1, <1>3, <1>4, <1>5, <1>6, <1>7, <1>8, <1>9, <1>10, <1>11, <1>12, <1>13, <1>14, <1>15
     DEF Next, Restoring, Begin, Lock, Validate, CheckPark, Refuse, RemoveLog, OpenReplacement,
         StepFails, ReopenFails, ReopenOriginal, RollBackFails, Crash

\* A connection stays one to the database in place.
LEMMA ConnStep ==
  ASSUME IInv, Next
  PROVE  ConnInv'
<1>0. FileType /\ RequestType /\ OpenType /\ ConnInv /\ StepInv
  BY DEF IInv, TypeOK
<1> USE DEF fileVars, connVars
<1>1. CASE UNCHANGED <<main, up, connVars>>
  BY <1>0, <1>1 DEF ConnInv, InUse
<1>2. ASSUME NEW r \in Requests, Begin(r)  PROVE ConnInv'
  <2>1. InUse' = InUse \cup {r}
    BY <1>0, <1>2 DEF Begin, InUse, RequestType
  <2>2. \A q \in InUse' : connDb'[q] = main.db
    BY <1>0, <1>2, <2>1 DEF Begin, ConnInv, RequestType, InUse
  <2> QED  BY <1>2, <2>2 DEF Begin, ConnInv
<1>3. ASSUME NEW r \in Requests, Commit(r) \/ Abandon(r)  PROVE ConnInv'
  <2>1. InUse' = InUse \ {r} /\ (main # None => main'.db = main.db)
    BY <1>3, ReturnFact
  <2>2. InUse # {} => main # None
    BY <1>0 DEF OpenType
  <2>3. up' = up /\ connDb' = connDb
    BY <1>3 DEF Commit, Abandon
  <2> QED  BY <1>0, <2>1, <2>2, <2>3 DEF ConnInv
<1>4. ASSUME main'.db = main.db, up' = up, connVars' = connVars  PROVE ConnInv'
  BY <1>0, <1>4 DEF ConnInv, InUse
<1>5. ASSUME NEW i \in Importers, Flush(i)  PROVE ConnInv'
  <2>1. main \in Files /\ log \in Logs
    BY <1>0, <1>5 DEF Flush, FileType, OpenType
  <2> QED  BY <1>4, <1>5, <2>1, FlushFact DEF Flush
<1>6. ASSUME NEW i \in Importers, Close(i)  PROVE ConnInv'
  <2>1. main # None /\ log # None
    BY <1>0, <1>6 DEF OpenType, StepInv, StepOf, Close
  <2>2. WrittenBack.db = main.db
    BY <1>0, <2>1, WrittenBackFact
  <2> QED  BY <1>4, <1>6, <2>2 DEF Close
<1>7. ASSUME NEW i \in Importers, RemoveLog(i)  PROVE ConnInv'
  BY <1>7 DEF RemoveLog, ConnInv, InUse
<1>8. ASSUME NEW i \in Importers, ParkOriginal(i) \/ Swap(i) \/ RenameBack(i)  PROVE ConnInv'
  <2>1. InUse' = {}
    BY <1>0, <1>8 DEF StepInv, StepOf, ParkOriginal, Swap, RenameBack, InUse
  <2> QED  BY <2>1 DEF ConnInv
<1>9. CASE Crash
  BY <1>9 DEF Crash, ConnInv, InUse
<1>10. CASE Start \/ PutBack
  <2>1. InUse' = {}
    BY <1>0, <1>10 DEF Start, PutBack, ConnInv, InUse
  <2> QED  BY <2>1 DEF ConnInv
<1> QED
  BY <1>1, <1>2, <1>3, <1>5, <1>6, <1>7, <1>8, <1>9, <1>10
     DEF Next, Restoring, Stage, Lock, Validate, StripCredentials, CheckPark, Refuse,
         OpenReplacement, RemovePark, StepFails, ReopenFails, ReopenOriginal, RollBackFails, Leave

-----------------------------------------------------------------------------
(* The last copy *)

\* A flush keeps everything that has to survive, and has it in the file if the
\* restore goes on,
LEMMA FlushKeeps ==
  ASSUME IInv, NEW i \in Importers, Flush(i)
  PROVE  /\ InPlace'
         /\ pc'[i] = "close" => InFile'
<1>0. RestoreType
  BY DEF IInv, TypeOK
<1>1. main \in Files /\ log \in Logs /\ main # None /\ log # None /\ park = None
  BY DEF Flush, IInv, TypeOK, FileType, OpenType, StepInv, StepOf
<1>2. /\ main' # None /\ main'.db = main.db /\ log' # None
      /\ log'.has \subseteq log.has /\ main'.has = main.has \cup (log.has \ log'.has)
      /\ exposed' = exposed \/ exposed' = exposed \cup log'.has
      /\ Answer(i, "rejected") \/ log'.has = {} \/ exposed' = exposed \cup log'.has
  BY <1>1, FlushFact
<1>3. main.db = live /\ acked \ exposed \subseteq main.has \cup log.has
  BY <1>1 DEF IInv, LastCopySurvives, InPlace, SetAside, Held
<1>4. UNCHANGED <<live, acked>>
  BY DEF Flush
<1>5. Answer(i, "rejected") => pc'[i] # "close"
  BY <1>0 DEF Answer, Goto, RestoreType
<1>6. InPlace'
  BY <1>2, <1>3, <1>4 DEF InPlace, Held
<1>7. pc'[i] = "close" => InFile'
  BY <1>2, <1>3, <1>4, <1>5 DEF InFile
<1> QED  BY <1>6, <1>7

\* and closing the database leaves it there.
LEMMA CloseKeeps ==
  ASSUME IInv, NEW i \in Importers, Close(i)
  PROVE  InFile'
<1>1. main # None /\ log # None /\ InFile
  BY DEF Close, IInv, TypeOK, OpenType, StepInv, StepOf
<1>2. /\ WrittenBack # None /\ WrittenBack.db = main.db
      /\ WrittenBack.has = main.has \cup log.has
  BY <1>1, WrittenBackFact DEF IInv, TypeOK
<1>3. main' = main \/ main' = WrittenBack
  BY DEF Close
<1>4. UNCHANGED <<live, acked, exposed>>
  BY DEF Close, histVars
<1> QED  BY <1>1, <1>2, <1>3, <1>4 DEF InFile

LEMMA SurvivesStep ==
  ASSUME IInv, Next
  PROVE  LastCopySurvives'
<1>0. FileType /\ OpenType /\ FileInv /\ StepInv /\ LastCopySurvives
  BY DEF IInv, TypeOK
<1> USE DEF histVars, fileVars
<1>1. CASE UNCHANGED <<main, log, park, live, acked, exposed>>
  BY <1>0, <1>1 DEF LastCopySurvives, InPlace, SetAside, Held
<1>2. ASSUME NEW r \in Requests, Commit(r) \/ Abandon(r)  PROVE LastCopySurvives'
  BY <1>0, <1>2, ReturnKeeps DEF LastCopySurvives
<1>3. ASSUME NEW i \in Importers, Flush(i)  PROVE LastCopySurvives'
  <2>1. InPlace'
    BY <1>3, FlushKeeps
  <2> QED  BY <2>1 DEF LastCopySurvives
<1>4. ASSUME NEW i \in Importers, Close(i)  PROVE LastCopySurvives'
  BY <1>4, CloseKeeps DEF LastCopySurvives, InPlace, InFile, Held
<1>5. ASSUME NEW i \in Importers, RemoveLog(i)  PROVE LastCopySurvives'
  BY <1>0, <1>5 DEF RemoveLog, StepInv, StepOf, InFile, LastCopySurvives, InPlace, Held
<1>6. ASSUME NEW i \in Importers, ParkOriginal(i)  PROVE LastCopySurvives'
  BY <1>0, <1>6 DEF ParkOriginal, StepInv, StepOf, InFile, LastCopySurvives, SetAside
<1>7. ASSUME NEW i \in Importers, Swap(i) \/ ReopenFails(i)  PROVE LastCopySurvives'
  BY <1>0, <1>7 DEF Swap, ReopenFails, StepInv, StepOf, LastCopySurvives, SetAside
<1>8. ASSUME NEW i \in Importers, OpenReplacement(i)  PROVE LastCopySurvives'
  BY <1>0, <1>8 DEF OpenReplacement, StepInv, StepOf, LastCopySurvives, InPlace, Held
<1>9. ASSUME NEW i \in Importers, RemovePark(i)  PROVE LastCopySurvives'
  BY <1>0, <1>9 DEF RemovePark, StepInv, StepOf, LastCopySurvives, InPlace, Held
<1>10. ASSUME NEW i \in Importers, RenameBack(i)  PROVE LastCopySurvives'
  BY <1>0, <1>10 DEF RenameBack, StepInv, StepOf, LastCopySurvives, InPlace, SetAside, Held
<1>11. ASSUME NEW i \in Importers, ReopenOriginal(i)  PROVE LastCopySurvives'
  BY <1>0, <1>11
     DEF ReopenOriginal, StepInv, StepOf, InFile, LastCopySurvives, InPlace, Held
<1>12. CASE Start
  <2>1. UNCHANGED <<park, live, acked, exposed>> /\ (main # None => main' = main)
    BY <1>12 DEF Start
  <2>2. main # None => log' # None /\ (log # None => log'.has = log.has)
    BY <1>0, <1>12, <2>1, OpenedFact DEF Start, FileType
  <2>3. InPlace => InPlace'
    BY <2>1, <2>2 DEF InPlace, Held
  <2>4. SetAside => SetAside'
    BY <2>1 DEF SetAside
  <2> QED  BY <1>0, <2>3, <2>4 DEF LastCopySurvives
<1>13. CASE PutBack
  BY <1>0, <1>13 DEF PutBack, FileInv, LastCopySurvives, InPlace, SetAside, Held
<1> QED
  BY <1>1, <1>2, <1>3, <1>4, <1>5, <1>6, <1>7, <1>8, <1>9, <1>10, <1>11, <1>12, <1>13
     DEF Next, Restoring, Stage, Lock, Validate, StripCredentials, CheckPark, Refuse, StepFails,
         RollBackFails, Leave, Begin, Crash

-----------------------------------------------------------------------------
(* The steps of a restore *)

\* When the restore that holds the lock takes a step, only its own place in
\* the restore has to be looked at.
LEMMA HolderStep ==
  ASSUME IInv, NEW i \in Importers, pc[i] \notin {"idle", "staged"},
         NEW step \in Steps, pc' = [pc EXCEPT ![i] = step],
         \A j \in Importers : j # i => upload'[j] = upload[j],
         StagedOf(i)' /\ StepOf(i)' /\ AnswerOf(i)'
  PROVE  StepInv'
<1>1. RestoreType /\ LockInv /\ StepInv
  BY DEF IInv, TypeOK
<1>2. ASSUME NEW j \in Importers, j # i  PROVE StagedOf(j)' /\ StepOf(j)' /\ AnswerOf(j)'
  <2>1. pc[j] \in {"idle", "staged"} /\ pc'[j] = pc[j]
    BY <1>1, <1>2, Alone DEF RestoreType
  <2>2. StagedOf(j)'
    BY <1>1, <1>2, <2>1 DEF StepInv, StagedOf
  <2>3. StepOf(j)' /\ AnswerOf(j)'
    BY <2>1 DEF StepOf, AnswerOf
  <2> QED  BY <2>2, <2>3
<1> QED  BY <1>2 DEF StepInv

\* What the steps up to the flush need and leave.
LEMMA UpToFlush ==
  ASSUME IInv, NEW i \in Importers,
         \/ Validate(i) \/ StripCredentials(i) \/ CheckPark(i) \/ Flush(i)
         \/ Refuse(i) \/ Leave(i)
  PROVE  StepInv'
<1>0. FileType /\ RestoreType /\ StagedOf(i) /\ StepOf(i)
  BY DEF IInv, TypeOK, StepInv
<1> USE DEF RestoreType, Goto, Answer, Steps, Flushed, fileVars, histVars, connVars
<1>1. CASE Validate(i)
  <2>1. StagedOf(i)' /\ StepOf(i)' /\ AnswerOf(i)'
    BY <1>0, <1>1 DEF Validate, StagedOf, StepOf, AnswerOf
  <2> QED  BY <1>1, <2>1, HolderStep DEF Validate
<1>2. CASE StripCredentials(i)
  <2>1. upload[i] \in Files
    BY <1>0, <1>2 DEF FileType, StagedOf, StripCredentials
  <2>2. Stripped(upload[i]) \in Files /\ ~Stripped(upload[i]).creds
    BY <2>1 DEF Stripped, Files
  <2>3. upload'[i] # None /\ ~upload'[i].creds
    BY <1>0, <1>2, <2>2, ConstantsAssumption DEF FileType, StripCredentials
  <2>4. StagedOf(i)' /\ StepOf(i)' /\ AnswerOf(i)'
    BY <1>0, <1>2, <2>3 DEF StripCredentials, StagedOf, StepOf, AnswerOf
  <2>5. \A j \in Importers : j # i => upload'[j] = upload[j]
    BY <1>0, <1>2 DEF FileType, StripCredentials
  <2> QED  BY <1>2, <2>4, <2>5, HolderStep DEF StripCredentials
<1>3. CASE CheckPark(i)
  <2>1. StagedOf(i)' /\ StepOf(i)' /\ AnswerOf(i)'
    BY <1>0, <1>3 DEF CheckPark, ParkFree, StagedOf, StepOf, AnswerOf
  <2> QED  BY <1>3, <2>1, HolderStep DEF CheckPark
<1>4. CASE Flush(i)
  <2>1. /\ pc[i] = "flush" /\ handle = "open"
        /\ UNCHANGED <<park, upload, handle>>
    BY <1>4 DEF Flush
  <2>2. CASE Answer(i, "rejected")
    <3>1. StagedOf(i)' /\ StepOf(i)' /\ AnswerOf(i)'
      BY <1>0, <2>1, <2>2 DEF StagedOf, StepOf, AnswerOf
    <3> QED  BY <2>1, <2>2, <3>1, HolderStep
  <2>3. CASE Goto(i, "close")
    <3>1. InFile'
      BY <1>0, <1>4, <2>3, FlushKeeps
    <3>2. StagedOf(i)' /\ StepOf(i)' /\ AnswerOf(i)'
      BY <1>0, <2>1, <2>3, <3>1 DEF StagedOf, StepOf, AnswerOf
    <3> QED  BY <2>1, <2>3, <3>2, HolderStep
  <2> QED  BY <1>4, <2>2, <2>3 DEF Flush
<1>5. CASE Refuse(i)
  <2>1. StagedOf(i)' /\ StepOf(i)' /\ AnswerOf(i)'
    BY <1>0, <1>5 DEF Refuse, StagedOf, StepOf, AnswerOf
  <2> QED  BY <1>5, <2>1, HolderStep DEF Refuse
<1>6. CASE Leave(i)
  <2>1. StagedOf(i)' /\ StepOf(i)' /\ AnswerOf(i)'
    BY <1>0, <1>6 DEF Leave, StagedOf, StepOf, AnswerOf
  <2>2. \A j \in Importers : j # i => upload'[j] = upload[j]
    BY <1>0, <1>6 DEF FileType, Leave
  <2> QED  BY <1>6, <2>1, <2>2, HolderStep DEF Leave
<1> QED  BY <1>1, <1>2, <1>3, <1>4, <1>5, <1>6

\* The steps that exchange the files.
LEMMA Exchanging ==
  ASSUME IInv, NEW i \in Importers,
         \/ Close(i) \/ RemoveLog(i) \/ ParkOriginal(i) \/ Swap(i)
         \/ OpenReplacement(i) \/ RemovePark(i)
  PROVE  StepInv'
<1>0. FileType /\ RestoreType /\ FileInv /\ StagedOf(i) /\ StepOf(i)
  BY DEF IInv, TypeOK, StepInv
<1> USE DEF RestoreType, Goto, Answer, Steps, Flushed, fileVars, histVars, connVars
<1>1. CASE Close(i)
  <2>1. InFile'
    BY <1>1, CloseKeeps
  <2>2. StagedOf(i)' /\ StepOf(i)' /\ AnswerOf(i)'
    BY <1>0, <1>1, <2>1 DEF Close, StagedOf, StepOf, AnswerOf
  <2> QED  BY <1>1, <2>2, HolderStep DEF Close
<1>2. CASE RemoveLog(i)
  <2>1. InFile' /\ InUse' = {}
    BY <1>0, <1>2 DEF RemoveLog, StepOf, InFile, InUse
  <2>2. StagedOf(i)' /\ StepOf(i)' /\ AnswerOf(i)'
    BY <1>0, <1>2, <2>1 DEF RemoveLog, StagedOf, StepOf, AnswerOf
  <2> QED  BY <1>2, <2>2, HolderStep DEF RemoveLog
<1>3. CASE ParkOriginal(i)
  <2>1. SetAside' /\ InUse' = {}
    BY <1>0, <1>3 DEF ParkOriginal, StepOf, InFile, SetAside, InUse
  <2>2. StagedOf(i)' /\ StepOf(i)' /\ AnswerOf(i)'
    BY <1>0, <1>3, <2>1 DEF ParkOriginal, StagedOf, StepOf, AnswerOf
  <2> QED  BY <1>3, <2>2, HolderStep DEF ParkOriginal
<1>4. CASE Swap(i)
  <2>1. SetAside' /\ InUse' = {}
    BY <1>0, <1>4 DEF Swap, StepOf, SetAside, InUse
  <2>2. main' # None /\ main'.db = i /\ ~main'.creds
    BY <1>0, <1>4 DEF Swap, StagedOf, FileInv
  <2>3. StagedOf(i)' /\ StepOf(i)' /\ AnswerOf(i)'
    BY <1>0, <1>4, <2>1, <2>2 DEF Swap, StagedOf, StepOf, AnswerOf
  <2>4. \A j \in Importers : j # i => upload'[j] = upload[j]
    BY <1>0, <1>4 DEF FileType, Swap
  <2> QED  BY <1>4, <2>3, <2>4, HolderStep DEF Swap
<1>5. CASE OpenReplacement(i)
  <2>1. InPlace' /\ main'.db = i /\ ~main'.creds
    BY <1>0, <1>5 DEF OpenReplacement, StepOf, InPlace, Held
  <2>2. StagedOf(i)' /\ StepOf(i)' /\ AnswerOf(i)'
    BY <1>0, <1>5, <2>1 DEF OpenReplacement, StagedOf, StepOf, AnswerOf
  <2> QED  BY <1>5, <2>2, HolderStep DEF OpenReplacement
<1>6. CASE RemovePark(i)
  <2>1. StagedOf(i)' /\ StepOf(i)'
    BY <1>0, <1>6 DEF RemovePark, StagedOf, StepOf
  <2>2. AnswerOf(i)'
    BY <1>0, <1>6 DEF RemovePark, StepOf, AnswerOf
  <2> QED  BY <1>6, <2>1, <2>2, HolderStep DEF RemovePark
<1> QED  BY <1>1, <1>2, <1>3, <1>4, <1>5, <1>6

\* The steps that fail, and the way back.
LEMMA RollingBack ==
  ASSUME IInv, NEW i \in Importers,
         StepFails(i) \/ ReopenFails(i) \/ RenameBack(i) \/ ReopenOriginal(i) \/ RollBackFails(i)
  PROVE  StepInv'
<1>0. FileType /\ RestoreType /\ FileInv /\ StagedOf(i) /\ StepOf(i)
  BY DEF IInv, TypeOK, StepInv
<1> USE DEF RestoreType, Goto, Answer, Steps, Flushed, fileVars, histVars, connVars
<1>1. CASE StepFails(i)
  <2>1. UNCHANGED <<InFile, SetAside, InUse>>
    BY <1>1 DEF StepFails, InFile, SetAside, InUse
  <2>2. StagedOf(i)' /\ StepOf(i)' /\ AnswerOf(i)'
    BY <1>0, <1>1, <2>1 DEF StepFails, StagedOf, StepOf, AnswerOf
  <2> QED  BY <1>1, <2>2, HolderStep DEF StepFails
<1>2. CASE ReopenFails(i)
  <2>1. SetAside' /\ InUse' = {}
    BY <1>0, <1>2 DEF ReopenFails, StepOf, SetAside, InUse
  <2>2. StagedOf(i)' /\ StepOf(i)' /\ AnswerOf(i)'
    BY <1>0, <1>2, <2>1 DEF ReopenFails, StagedOf, StepOf, AnswerOf
  <2> QED  BY <1>2, <2>2, HolderStep DEF ReopenFails
<1>3. CASE RenameBack(i)
  <2>1. InFile'
    BY <1>0, <1>3 DEF RenameBack, StepOf, SetAside, InFile
  <2>2. StagedOf(i)' /\ StepOf(i)' /\ AnswerOf(i)'
    BY <1>0, <1>3, <2>1 DEF RenameBack, StagedOf, StepOf, AnswerOf
  <2> QED  BY <1>3, <2>2, HolderStep DEF RenameBack
<1>4. CASE ReopenOriginal(i)
  <2>1. StagedOf(i)' /\ StepOf(i)'
    BY <1>0, <1>4 DEF ReopenOriginal, StagedOf, StepOf
  <2>2. AnswerOf(i)'
    BY <1>0, <1>4 DEF ReopenOriginal, StepOf, InFile, AnswerOf
  <2> QED  BY <1>4, <2>1, <2>2, HolderStep DEF ReopenOriginal
<1>5. CASE RollBackFails(i)
  <2>1. StagedOf(i)' /\ StepOf(i)' /\ AnswerOf(i)'
    BY <1>0, <1>5 DEF RollBackFails, StagedOf, StepOf, AnswerOf
  <2> QED  BY <1>5, <2>1, HolderStep DEF RollBackFails
<1> QED  BY <1>1, <1>2, <1>3, <1>4, <1>5

\* A request that commits or gives up while a restore is under way.
LEMMA ReturnStep ==
  ASSUME IInv, NEW r \in Requests, Commit(r) \/ Abandon(r)
  PROVE  StepInv'
<1>0. FileType /\ OpenType /\ StepInv
  BY DEF IInv, TypeOK
<1>1. UNCHANGED <<park, upload, handle, pc, verdict, live>>
  BY DEF Commit, Abandon, histVars
<1>2. /\ InUse' = InUse \ {r} /\ (main' = None <=> main = None)
      /\ main # None => main'.db = main.db /\ main'.creds = main.creds
  BY ReturnFact
<1>3. /\ InPlace => InPlace'
      /\ SetAside => SetAside'
      /\ InFile /\ (\E i \in Importers : pc[i] \in Flushed) => InFile'
  BY ReturnKeeps
<1>4. ASSUME NEW i \in Importers  PROVE StagedOf(i)' /\ StepOf(i)' /\ AnswerOf(i)'
  <2>0. StagedOf(i) /\ StepOf(i) /\ AnswerOf(i)
    BY <1>0 DEF StepInv
  <2>1. StagedOf(i)'
    BY <1>1, <2>0 DEF StagedOf
  <2>2. pc[i] \in {"close", "rmlog", "park", "reopen"} /\ InFile => InFile'
    BY <1>3 DEF Flushed
  <2>3. InUse = {} => InUse' = {}
    BY <1>2
  <2>4. StepOf(i)'
    BY <1>1, <1>2, <1>3, <2>0, <2>2, <2>3 DEF StepOf
  <2>5. handle = "open" => main # None
    BY <1>0 DEF OpenType
  <2>6. AnswerOf(i)'
    BY <1>1, <1>2, <2>0, <2>5 DEF AnswerOf
  <2> QED  BY <2>1, <2>4, <2>6
<1> QED  BY <1>4 DEF StepInv

LEMMA StepStep ==
  ASSUME IInv, Next
  PROVE  StepInv'
<1>0. FileType /\ RestoreType /\ LockInv /\ StepInv
  BY DEF IInv, TypeOK
<1>1. ASSUME NEW i \in Importers, Stage(i)  PROVE StepInv'
  <2>1. upload'[i] # None /\ \A j \in Importers : j # i => upload'[j] = upload[j]
    <3>1. [db |-> i, has |-> {}, creds |-> TRUE] \in Files
      BY DEF Files, Dbs
    <3>2. [db |-> i, has |-> {}, creds |-> TRUE] # None
      BY <3>1, ConstantsAssumption
    <3> QED  BY <1>0, <1>1, <3>2 DEF FileType, Stage
  <2>2. pc'[i] = "staged" /\ \A j \in Importers : j # i => pc'[j] = pc[j]
    BY <1>0, <1>1 DEF RestoreType, Stage, Goto
  <2>3. UNCHANGED <<InFile, InPlace, SetAside, InUse, park, main, handle, verdict, live>>
    BY <1>1 DEF Stage, connVars, histVars, InFile, InPlace, SetAside, InUse, Held
  <2>4. ASSUME NEW j \in Importers  PROVE StagedOf(j)' /\ StepOf(j)' /\ AnswerOf(j)'
    <3>1. CASE j = i
      BY <2>1, <2>2, <3>1 DEF StagedOf, StepOf, AnswerOf
    <3>2. CASE j # i
      <4>1. StagedOf(j) /\ StepOf(j) /\ AnswerOf(j)
        BY <1>0 DEF StepInv
      <4> QED  BY <2>1, <2>2, <2>3, <3>2, <4>1 DEF StagedOf, StepOf, AnswerOf
    <3> QED  BY <3>1, <3>2
  <2> QED  BY <2>4 DEF StepInv
<1>2. ASSUME NEW i \in Importers, Lock(i)  PROVE StepInv'
  <2>1. \A j \in Importers : pc[j] \in {"idle", "staged"}
    BY <1>0, <1>2, ConstantsAssumption DEF LockInv, Lock
  <2>2. \A j \in Importers : pc'[j] \in {"idle", "staged", "validate"}
    BY <1>0, <1>2, <2>1 DEF RestoreType, Lock, Goto
  <2>3. \A j \in Importers : pc'[j] # "idle" => pc[j] = "staged" \/ pc'[j] = pc[j]
    BY <1>0, <1>2 DEF RestoreType, Lock, Goto
  <2>4. upload' = upload
    BY <1>2 DEF Lock, fileVars
  <2> QED  BY <1>0, <2>1, <2>2, <2>3, <2>4 DEF StepInv, StagedOf, StepOf, AnswerOf
<1>3. ASSUME NEW r \in Requests, Begin(r)  PROVE StepInv'
  <2>1. UNCHANGED <<fileVars, InFile, InPlace, SetAside, handle, pc, verdict, live>>
    BY <1>3 DEF Begin, histVars, fileVars, InFile, InPlace, SetAside, Held
  <2>2. handle = "open"
    BY <1>3 DEF Begin
  <2>3. ASSUME NEW i \in Importers  PROVE StagedOf(i)' /\ StepOf(i)' /\ AnswerOf(i)'
    <3>1. StagedOf(i) /\ StepOf(i) /\ AnswerOf(i)
      BY <1>0 DEF StepInv
    <3> QED  BY <2>1, <2>2, <3>1 DEF StagedOf, StepOf, AnswerOf, fileVars
  <2> QED  BY <2>3 DEF StepInv
<1>4. ASSUME \A i \in Importers : pc'[i] = "idle"  PROVE StepInv'
  BY <1>4 DEF StepInv, StagedOf, StepOf, AnswerOf
<1>5. CASE Crash
  BY <1>4, <1>5 DEF Crash
<1>6. CASE Start \/ PutBack
  BY <1>0, <1>4, <1>6 DEF Start, PutBack, LockInv
<1> QED
  BY <1>1, <1>2, <1>3, <1>5, <1>6, UpToFlush, Exchanging, RollingBack, ReturnStep
     DEF Next, Restoring

-----------------------------------------------------------------------------
(* The theorems *)

LEMMA InitInv == Init => IInv
<1> SUFFICES ASSUME Init  PROVE IInv
  OBVIOUS
<1>1. TypeOK
  BY InitType
<1>2. main \in Files /\ main # None
  <2>1. main \in Files
    BY DEF Init, Files, Dbs
  <2> QED  BY <2>1, ConstantsAssumption
<1>3. LockInv /\ StepInv
  BY DEF Init, LockInv, StepInv, StagedOf, StepOf, AnswerOf
<1>4. FileInv /\ ConnInv
  BY DEF Init, FileInv, ConnInv, InUse
<1>5. LastCopySurvives
  BY <1>2 DEF Init, LastCopySurvives, InPlace
<1> QED  BY <1>1, <1>3, <1>4, <1>5 DEF IInv

LEMMA StutterInv == IInv /\ UNCHANGED vars => IInv'
<1> SUFFICES ASSUME IInv, UNCHANGED vars  PROVE IInv'
  OBVIOUS
<1> USE DEF vars, fileVars, connVars, histVars
<1>0. TypeOK /\ LockInv /\ FileInv /\ ConnInv /\ StepInv /\ LastCopySurvives
  BY DEF IInv
<1>1. FileType' /\ RestoreType' /\ RequestType' /\ OpenType'
  BY <1>0 DEF TypeOK, FileType, RestoreType, RequestType, OpenType, InUse
<1>2. FlagType'
  BY <1>0, Zenon DEF TypeOK, FlagType
<1>3. LockInv' /\ FileInv' /\ ConnInv'
  BY <1>0 DEF LockInv, FileInv, ConnInv, InUse
<1>4. LastCopySurvives'
  BY <1>0 DEF LastCopySurvives, InPlace, SetAside, Held
<1>5. UNCHANGED <<InFile, InPlace, SetAside, InUse>>
  BY DEF InFile, InPlace, SetAside, InUse, Held
<1>6. StepInv'
  BY <1>0, <1>5 DEF StepInv, StagedOf, StepOf, AnswerOf
<1> QED  BY <1>1, <1>2, <1>3, <1>4, <1>6 DEF IInv, TypeOK

\* The inductive invariant holds in every reachable state, for any restores,
\* requests and number of crashes.
THEOREM Invariance == Spec => []IInv
<1>1. Init => IInv
  BY InitInv
<1>2. IInv /\ [Next]_vars => IInv'
  <2> SUFFICES ASSUME IInv, [Next]_vars  PROVE IInv'
    OBVIOUS
  <2>1. CASE UNCHANGED vars
    BY <2>1, StutterInv
  <2>2. CASE Next
    <3>1. TypeOK'
      <4>1. FlagType /\ RestoreType
        BY DEF IInv, TypeOK
      <4> QED
        BY <2>2, <4>1, FileTypeStep, FlagTypeStep, RestoreTypeStep, RequestTypeStep, OpenTypeStep
           DEF TypeOK
    <3> QED
      BY <2>2, <3>1, LockStep, FileStep, ConnStep, StepStep, SurvivesStep DEF IInv
  <2> QED  BY <2>1, <2>2
<1> QED  BY <1>1, <1>2, PTL DEF Spec

\* Every reachable state is well typed, and an open database has its file and
\* its log.
THEOREM TypeCorrect == Spec => []TypeOK
<1>1. IInv => TypeOK
  BY DEF IInv
<1> QED  BY <1>1, Invariance, PTL

\* LastCopySurvives: whichever step of a restore fails and whenever the process
\* dies, the database that was in service is whole, at its path or parked.
THEOREM CopySurvives == Spec => []LastCopySurvives
<1>1. IInv => LastCopySurvives
  BY DEF IInv
<1> QED  BY <1>1, Invariance, PTL

\* AnswersAreTrue: what backup.Import reports is the state it leaves.
THEOREM AnswersTrue == Spec => []AnswersAreTrue
<1>1. IInv => AnswersAreTrue
  BY DEF IInv, StepInv, AnswerOf, AnswersAreTrue
<1> QED  BY <1>1, Invariance, PTL

\* ServesOrSaysSo: from the flush on, Import answers with a database in service
\* or says that there is none.
THEOREM ServesOrSays == Spec => ServesOrSaysSo
<1> DEFINE Said == \A i \in Importers :
             pc[i] \in Flushed \cup {"rmpark"} /\ pc'[i] = "answered" =>
               handle' = "open" \/ verdict'[i] = "unavailable"
<1>1. IInv /\ [Next]_vars => [Said]_vars
  <2> SUFFICES ASSUME IInv, Next  PROVE Said
    BY DEF vars
  <2>0. RestoreType /\ StepInv
    BY DEF IInv, TypeOK
  <2> USE DEF RestoreType, Goto, Answer, Flushed
  <2>1. CASE UNCHANGED pc
    BY <2>0, <2>1
  <2>2. ASSUME NEW i \in Importers, Restoring(i)  PROVE Said
    <3>1. ASSUME NEW step \in Steps \ {"answered"}, pc' = [pc EXCEPT ![i] = step]  PROVE Said
      BY <2>0, <3>1
    <3>2. CASE RemovePark(i) \/ ReopenOriginal(i)
      BY <2>0, <3>2 DEF RemovePark, ReopenOriginal, StepInv, StepOf
    <3>3. CASE RollBackFails(i)
      BY <2>0, <3>3 DEF RollBackFails
    <3>4. CASE Refuse(i)
      BY <2>0, <3>4 DEF Refuse
    <3>5. CASE \/ Stage(i) \/ Lock(i) \/ Validate(i) \/ StripCredentials(i) \/ CheckPark(i)
               \/ Flush(i) \/ Close(i) \/ RemoveLog(i) \/ ParkOriginal(i)
      BY <3>1, <3>5
         DEF Steps, Stage, Lock, Validate, StripCredentials, CheckPark, Flush, Close, RemoveLog,
             ParkOriginal
    <3>6. CASE Swap(i) \/ OpenReplacement(i) \/ StepFails(i) \/ ReopenFails(i) \/ RenameBack(i)
               \/ Leave(i)
      BY <3>1, <3>6
         DEF Steps, Swap, OpenReplacement, StepFails, ReopenFails, RenameBack, Leave
    <3> QED  BY <2>2, <3>2, <3>3, <3>4, <3>5, <3>6 DEF Restoring
  <2>3. CASE Crash
    BY <2>3 DEF Crash
  <2> QED  BY <2>1, <2>2, <2>3 DEF Next, Begin, Commit, Abandon, Start, PutBack
<1> QED  BY <1>1, Invariance, PTL DEF Spec, ServesOrSaysSo

\* A file that stays the same database keeps what it carries.
LEMMA CredentialsKept ==
  ASSUME CredentialsStayBehind, UNCHANGED park,
         main' # None => main # None /\ main'.db = main.db /\ main'.creds = main.creds
  PROVE  CredentialsStayBehind'
BY DEF CredentialsStayBehind

\* An upload is in place only once it was stripped, and is moved from there.
LEMMA CredentialsStep == IInv /\ CredentialsStayBehind /\ [Next]_vars => CredentialsStayBehind'
<1> SUFFICES ASSUME IInv, CredentialsStayBehind, [Next]_vars  PROVE CredentialsStayBehind'
  OBVIOUS
<1> USE DEF fileVars
<1>0. FileType /\ OpenType /\ StepInv
  BY DEF IInv, TypeOK
<1>1. CASE UNCHANGED <<main, park>>
  BY <1>1, CredentialsKept
<1>2. ASSUME NEW r \in Requests, Commit(r) \/ Abandon(r)  PROVE CredentialsStayBehind'
  BY <1>2, ReturnFact, CredentialsKept DEF Commit, Abandon
<1>3. ASSUME NEW i \in Importers, Flush(i)  PROVE CredentialsStayBehind'
  <2>1. main \in Files /\ log \in Logs /\ main # None
    BY <1>0, <1>3 DEF Flush, FileType, OpenType
  <2>2. main'.db = main.db /\ main'.creds = main.creds
    BY <1>3, <2>1, FlushFact
  <2> QED  BY <1>3, <2>1, <2>2, CredentialsKept DEF Flush
<1>4. ASSUME NEW i \in Importers, Close(i)  PROVE CredentialsStayBehind'
  <2>1. main # None /\ log # None
    BY <1>0, <1>4 DEF OpenType, StepInv, StepOf, Close
  <2>2. WrittenBack.db = main.db /\ WrittenBack.creds = main.creds
    BY <1>0, <2>1, WrittenBackFact
  <2> QED  BY <1>1, <1>4, <2>1, <2>2, CredentialsKept DEF Close
<1>5. ASSUME NEW i \in Importers, Swap(i)  PROVE CredentialsStayBehind'
  <2>1. ~upload[i].creds
    BY <1>0, <1>5 DEF StepInv, StagedOf, Swap
  <2> QED  BY <1>5, <2>1 DEF Swap, CredentialsStayBehind
<1>6. ASSUME NEW i \in Importers, ParkOriginal(i) \/ RenameBack(i) \/ RemovePark(i)
      PROVE  CredentialsStayBehind'
  BY <1>6 DEF ParkOriginal, RenameBack, RemovePark, CredentialsStayBehind
<1>7. CASE Start
  BY <1>7 DEF Start, Empty, CredentialsStayBehind
<1>8. CASE PutBack
  BY <1>8 DEF PutBack, CredentialsStayBehind
<1> QED
  BY <1>1, <1>2, <1>3, <1>4, <1>5, <1>6, <1>7, <1>8
     DEF Next, Restoring, vars, Begin, Stage, Lock, Leave, Validate, StripCredentials, CheckPark,
         Refuse, RemoveLog, OpenReplacement, StepFails, ReopenFails, ReopenOriginal,
         RollBackFails, Crash

\* CredentialsStayBehind: whichever step fails and wherever the process dies, no
\* database that came as an upload has its tokens and sessions.
THEOREM NoCredentials == Spec => []CredentialsStayBehind
<1>1. Init => CredentialsStayBehind
  BY ConstantsAssumption DEF Init, CredentialsStayBehind
<1> QED  BY <1>1, CredentialsStep, Invariance, PTL DEF Spec
=============================================================================
