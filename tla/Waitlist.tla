------------------------------ MODULE Waitlist ------------------------------
(***************************************************************************)
(* Public signups to waitlists, and the operator who edits, pages through, *)
(* prunes, writes to and deletes them.  Every statement a request runs is  *)
(* a step of its own, so requests overlap; what the broadcast worker then  *)
(* does with the deliveries is module Broadcaster.                         *)
(*                                                                         *)
(* An entry's id is the signup that inserted it, for both are made new by  *)
(* a request.  Two addresses that differ in case are two addresses.        *)
(***************************************************************************)
EXTENDS Integers, FiniteSets, FiniteSetsExt

CONSTANTS Lists, Addresses,
          Signups,     \* the signup requests of a run
          Posted,      \* [Signups -> SUBSET Post]: what each may post
          Casts,       \* the broadcast requests of a run
          CastOn,      \* [Casts -> Lists]
          pageSize,    \* entries on a page of the admin's table
          maxRemoved,  \* bound on the entries removed one by one
          maxTasks,    \* bound on the broadcasts and pagings the operator starts
          Edited,      \* bound on the lists the operator edits or deletes
          None

Post == [list : Lists, honeypot : BOOLEAN, email : Addresses \cup {None}]

ASSUME WaitlistAssumption ==
    /\ pageSize \in Nat \ {0} /\ maxRemoved \in Nat /\ maxTasks \in Nat
    /\ Edited \subseteq Lists /\ Posted \in [Signups -> SUBSET Post] /\ CastOn \in [Casts -> Lists]

VARIABLES list,     \* [Lists -> whether it is there, and confirms]
          entries,  \* the rows of waitlist_entries
          left,     \* the rows removed so far
          req,      \* [Signups -> its request]
          mailed,   \* the signups whose confirmation went out
          cast,     \* [Casts -> its request]
          sent,     \* [Casts -> the entries its deliveries were copied from]
          view      \* the operator's way through a list's pages

vars == <<list, entries, left, req, mailed, cast, sent, view>>

---------------------------------------------------------------------------
(* The tables.                                                             *)

There(w) == list[w] # "gone"

On(w) == {e \in entries : e.list = w}

(* SQLite gives a new row the number after the largest in the table. *)
NextRowid == Max({0} \cup {e.rowid : e \in entries}) + 1

Conflicts(w, email) == \E e \in On(w) : e.email = email

\* Mutant: an upsert, which counts a row it updates.
RowsAffected_Upsert(w, email) == 1

RowsAffected(w, email) == IF Conflicts(w, email) THEN 0 ELSE 1

\* Mutant: the rank is taken in the whole table.
Rank_InTable(e) == Cardinality({x \in entries : x.rowid <= e.rowid})

Rank(e) == Cardinality({x \in On(e.list) : x.rowid <= e.rowid})

(* With no such row the subquery is null and the count 0. *)
EntryPosition(w, email) == SumSet({Rank(e) : e \in {x \in On(w) : x.email = email}})

(* Newest first. *)
Newer(e) == Cardinality({x \in On(e.list) : x.rowid > e.rowid})

ListEntriesPaged(w, limit, offset) == {e \in On(w) : Newer(e) \in offset..(offset + limit - 1)}

\* Mutant: the recipients are the page on the screen.
ListEntries_FirstPage(w) == ListEntriesPaged(w, pageSize, 0)

ListEntries(w) == On(w)

CountEntries(w) == Cardinality(On(w))

---------------------------------------------------------------------------
(* State.  A request keeps what it has read and not yet used.              *)

NoReq == [at |-> "none", list |-> None, email |-> None, confirms |-> FALSE, already |-> FALSE, position |-> 0]

(* Refused, dropped, failed or cut off. *)
Ended == [NoReq EXCEPT !.at = "ended"]

NoCast == [at |-> "none", before |-> {}, left |-> {}, entries |-> {}]

NoView == [at |-> "none", list |-> None, page |-> 1, before |-> {}, left |-> {}, seen |-> {}]

Pair(s) == <<req[s].list, req[s].email>>

Of(e) == <<e.list, e.email>>

Rows == [rowid : Nat, id : Signups, list : Lists, email : Addresses]

TableType ==
    /\ list \in [Lists -> {"quiet", "confirms", "gone"}]
    /\ entries \subseteq Rows /\ left \subseteq Rows /\ mailed \subseteq Signups

ReqType ==
    req \in [Signups -> [at : {"none", "loaded", "inserted", "positioned", "joined", "ended"},
                         list : Lists \cup {None}, email : Addresses \cup {None},
                         confirms : BOOLEAN, already : BOOLEAN, position : Nat]]

CastType ==
    /\ cast \in [Casts -> [at : {"none", "loaded", "read", "created", "ended"},
                           before : SUBSET Rows, left : SUBSET Rows, entries : SUBSET Rows]]
    /\ sent \in [Casts -> SUBSET Rows]

ViewType ==
    view \in [at : {"none", "page", "rows", "done", "ended"}, list : Lists \cup {None},
              page : Nat \ {0}, before : SUBSET Rows, left : SUBSET Rows, seen : SUBSET Rows]

(* The values of the variables. *)
TypeOK == TableType /\ ReqType /\ CastType /\ ViewType

Init ==
    /\ list \in [Lists -> {"quiet", "confirms"}]
    /\ entries = {} /\ left = {} /\ mailed = {}
    /\ req = [s \in Signups |-> NoReq]
    /\ cast = [c \in Casts |-> NoCast]
    /\ sent = [c \in Casts |-> {}]
    /\ view = NoView

---------------------------------------------------------------------------
(* A signup.                                                               *)

(* The waitlist is read; the honeypot says it worked and stores nothing;   *)
(* an address that does not parse is refused, and a display name dropped.  *)
GetWaitlist(s) ==
    /\ req[s].at = "none"
    /\ \E post \in Posted[s] :
          req' = [req EXCEPT ![s] =
              IF There(post.list) /\ ~post.honeypot /\ post.email # None
              THEN [@ EXCEPT !.at = "loaded", !.list = post.list, !.email = post.email,
                             !.confirms = list[post.list] = "confirms"]
              ELSE Ended]
    /\ UNCHANGED <<list, entries, left, mailed, cast, sent, view>>

(* An address that is on the list is left as it is; a list that is gone    *)
(* fails its foreign key.                                                  *)
CreateEntry(s) ==
    LET w == req[s].list
        n == RowsAffected(w, req[s].email)
    IN  /\ req[s].at = "loaded" /\ There(w)
        /\ entries' = IF Conflicts(w, req[s].email) THEN entries
                      ELSE entries \cup {[rowid |-> NextRowid, id |-> s, list |-> w, email |-> req[s].email]}
        /\ req' = [req EXCEPT ![s].at = "inserted", ![s].already = n = 0]
        /\ UNCHANGED <<list, left, mailed, cast, sent, view>>

(* A second statement: rows come and go before it.                         *)
Position(s) ==
    /\ req[s].at = "inserted"
    /\ req' = [req EXCEPT ![s].at = IF req[s].confirms /\ ~req[s].already THEN "positioned" ELSE "joined",
                          ![s].confirms = FALSE,
                          ![s].position = EntryPosition(req[s].list, req[s].email)]
    /\ UNCHANGED <<list, entries, left, mailed, cast, sent, view>>

(* The goroutine, after the answer or before: the mail goes, or it fails   *)
(* or panics and nothing is tried again.                                   *)
SendConfirmation(s) ==
    /\ req[s].at = "positioned"
    /\ mailed' \in {mailed, mailed \cup {s}}
    /\ req' = [req EXCEPT ![s].at = "joined"]
    /\ UNCHANGED <<list, entries, left, cast, sent, view>>

(* A statement fails, its row inserted or not. *)
SignupFails(s) ==
    /\ req[s].at \in {"loaded", "inserted"}
    /\ req' = [req EXCEPT ![s] = Ended]
    /\ UNCHANGED <<list, entries, left, mailed, cast, sent, view>>

---------------------------------------------------------------------------
(* The operator.                                                           *)

UpdateWaitlist(w, kind) ==
    /\ There(w)
    /\ list' = [list EXCEPT ![w] = kind]
    /\ UNCHANGED <<entries, left, req, mailed, cast, sent, view>>

(* The entries, the broadcasts and their deliveries go with it. *)
DeleteWaitlist(w) ==
    /\ There(w)
    /\ list' = [list EXCEPT ![w] = "gone"]
    /\ entries' = entries \ On(w)
    /\ left' = left \cup On(w)
    /\ sent' = [c \in Casts |-> IF CastOn[c] = w THEN {} ELSE sent[c]]
    /\ UNCHANGED <<req, mailed, cast, view>>

DeleteEntry(e) ==
    /\ Cardinality(left) < maxRemoved
    /\ entries' = entries \ {e}
    /\ left' = left \cup {e}
    /\ UNCHANGED <<list, req, mailed, cast, sent, view>>

Tasks == Cardinality({c \in Casts : cast[c].at # "none"}) + (IF view.at = "none" THEN 0 ELSE 1)

BeginBroadcast(c) ==
    /\ cast[c].at = "none" /\ Tasks < maxTasks
    /\ cast' = [cast EXCEPT ![c] = IF There(CastOn[c])
                    THEN [@ EXCEPT !.at = "loaded", !.before = On(CastOn[c]), !.left = left]
                    ELSE [@ EXCEPT !.at = "ended"]]
    /\ UNCHANGED <<list, entries, left, req, mailed, sent, view>>

(* An empty list has nobody to send to. *)
ReadRecipients(c) ==
    LET rows == ListEntries(CastOn[c])
    IN  /\ cast[c].at = "loaded"
        /\ cast' = [cast EXCEPT ![c] = IF rows = {} THEN [NoCast EXCEPT !.at = "ended"]
                                       ELSE [@ EXCEPT !.at = "read", !.entries = rows]]
        /\ UNCHANGED <<list, entries, left, req, mailed, sent, view>>

(* One transaction, which a list deleted since fails. *)
CreateBroadcast(c) ==
    /\ cast[c].at = "read" /\ There(CastOn[c])
    /\ sent' = [sent EXCEPT ![c] = cast[c].entries]
    /\ cast' = [cast EXCEPT ![c].at = "created", ![c].entries = {}]
    /\ UNCHANGED <<list, entries, left, req, mailed, view>>

BroadcastFails(c) ==
    /\ cast[c].at \in {"loaded", "read"}
    /\ cast' = [cast EXCEPT ![c] = [NoCast EXCEPT !.at = "ended"]]
    /\ UNCHANGED <<list, entries, left, req, mailed, sent, view>>

---------------------------------------------------------------------------
(* The table of entries, a page at a time from the first.                  *)

offset == (view.page - 1) * pageSize

\* Mutant: a last page with one entry on it is not offered.
HasNext_OneShort(w) == offset + pageSize + 1 < CountEntries(w)

HasNext(w) == offset + pageSize < CountEntries(w)

Open(w) ==
    /\ view.at = "none" /\ There(w) /\ Tasks < maxTasks
    /\ view' = [NoView EXCEPT !.at = "page", !.list = w, !.before = On(w), !.left = left]
    /\ UNCHANGED <<list, entries, left, req, mailed, cast, sent>>

ReadPage ==
    /\ view.at = "page"
    /\ view' = IF There(view.list)
               THEN [view EXCEPT !.at = "rows", !.seen = @ \cup ListEntriesPaged(view.list, pageSize, offset)]
               ELSE [NoView EXCEPT !.at = "ended"]
    /\ UNCHANGED <<list, entries, left, req, mailed, cast, sent>>

(* The total is read after the rows, and says whether there is a next one. *)
CountPages ==
    /\ view.at = "rows"
    /\ view' = IF HasNext(view.list) THEN [view EXCEPT !.at = "page", !.page = @ + 1]
               ELSE [view EXCEPT !.at = "done"]
    /\ UNCHANGED <<list, entries, left, req, mailed, cast, sent>>

---------------------------------------------------------------------------
(* The process ends: every request under way gets no answer.               *)
Restart ==
    /\ req' = [s \in Signups |-> IF req[s].at \in {"loaded", "inserted", "positioned"}
                                 THEN Ended ELSE req[s]]
    /\ cast' = [c \in Casts |-> IF cast[c].at \in {"loaded", "read"}
                                THEN [NoCast EXCEPT !.at = "ended"] ELSE cast[c]]
    /\ view' = IF view.at = "rows" THEN [NoView EXCEPT !.at = "ended"] ELSE view
    /\ UNCHANGED <<list, entries, left, mailed, sent>>

Signup(s) ==
    \/ GetWaitlist(s) \/ CreateEntry(s) \/ Position(s) \/ SendConfirmation(s) \/ SignupFails(s)

Broadcast(c) ==
    \/ BeginBroadcast(c) \/ ReadRecipients(c) \/ CreateBroadcast(c) \/ BroadcastFails(c)

Operator ==
    \/ \E w \in Edited : DeleteWaitlist(w) \/ \E kind \in {"quiet", "confirms"} : UpdateWaitlist(w, kind)
    \/ \E w \in Lists : Open(w)
    \/ \E e \in entries : DeleteEntry(e)
    \/ ReadPage \/ CountPages

Next == (\E s \in Signups : Signup(s)) \/ (\E c \in Casts : Broadcast(c)) \/ Operator \/ Restart

Spec == Init /\ [][Next]_vars

---------------------------------------------------------------------------
(* Properties.                                                             *)

(* However many requests sign an address up, together or after failures,   *)
(* it is confirmed at most once for each time it came onto the list: once, *)
(* and once more for every time an operator took it off.                   *)
OneConfirmation ==
    \A s \in mailed :
        Cardinality({t \in mailed : Pair(t) = Pair(s)})
            <= 1 + Cardinality({e \in left : Of(e) = Pair(s)})

(* The place a signup is told is its address's place on its own list, and  *)
(* it stands: later signups never move it, and removals only improve it,   *)
(* for as long as nobody removes that address itself.  An address is told  *)
(* it was there already only when another signup put it there.             *)
PositionStands ==
    \A s \in Signups : req[s].at \in {"positioned", "joined"} =>
        \/ \E e \in left : Of(e) = Pair(s)
        \/ \E e \in On(req[s].list) :
              /\ e.email = req[s].email
              /\ (e.id = s <=> ~req[s].already)
              /\ req[s].position >= Cardinality({x \in On(e.list) : x.rowid <= e.rowid})
              /\ (\A x \in left : x.list # e.list) =>
                    req[s].position = Cardinality({x \in On(e.list) : x.rowid <= e.rowid})

(* A broadcast goes to everyone who was on the list when it was asked for  *)
(* and stayed, to nobody who had been taken off by then, to no address     *)
(* twice, and to nobody once its list is deleted, though the recipients    *)
(* are read before the transaction that copies them.                       *)
ReachesTheList ==
    \A c \in Casts : cast[c].at = "created" =>
        /\ cast[c].before \ left \subseteq sent[c]
        /\ sent[c] \cap cast[c].left = {}
        /\ \A d, e \in sent[c] : d.email = e.email => d = e
        /\ sent[c] # {} => There(CastOn[c])

(* Paging through a list while people sign up shows everyone who was on it *)
(* at the start, unless someone was taken off meanwhile.                   *)
PagingMissesNobody ==
    view.at = "done" /\ left = view.left => view.before \subseteq view.seen

(* A list is a queue: from one step to the next a place only gets better,  *)
(* and whoever is ahead of an entry was ahead of it before, though places  *)
(* are counted and SQLite gives the number of a removed row again.         *)
NobodyIsOvertaken ==
    [][\A e \in entries \cap entries' :
         /\ Rank(e)' <= Rank(e)
         /\ \A d \in entries' : d.list = e.list /\ Rank(d)' < Rank(e)' =>
               d \in entries /\ Rank(d) < Rank(e)]_vars
=============================================================================
