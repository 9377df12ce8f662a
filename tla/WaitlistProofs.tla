--------------------------- MODULE WaitlistProofs ---------------------------
(* Proofs about Waitlist, for any lists, addresses, signups, broadcasts and *)
(* bounds.                                                                  *)
EXTENDS Waitlist, FiniteSetTheorems, TLAPS

-----------------------------------------------------------------------------
(* The inductive invariant                                                 *)

\* The rows: one of a signup, one of an address on a list, none of a list that
\* is gone; and whichever of them are left, one has the largest number.
RowsInv ==
  /\ IsFiniteSet(entries) /\ IsFiniteSet(left)
  /\ entries \cap left = {}
  /\ \A d, e \in entries \cup left : d.id = e.id => d = e
  /\ \A d, e \in entries : Of(d) = Of(e) => d = e
  /\ \A T \in SUBSET entries :
       \E m \in {0} \cup {e.rowid : e \in T} : \A e \in T : e.rowid <= m
  /\ \A e \in entries : There(e.list)

\* The signups whose statement has been run.
Inserted == {"inserted", "positioned", "joined"}

\* The address was taken off the list.
TakenOff(s) == \E e \in left : Of(e) = Pair(s)

\* It is on the list, and the signup knows whether by its own doing.
OnList(s) ==
  \E e \in On(req[s].list) : e.email = req[s].email /\ (e.id = s <=> ~req[s].already)

\* It is on the list at the place the signup was told, or a better one.
Told(s) ==
  \E e \in On(req[s].list) :
    /\ e.email = req[s].email
    /\ (e.id = s <=> ~req[s].already)
    /\ req[s].position >= Rank(e)
    /\ (\A x \in left : x.list # e.list) => req[s].position = Rank(e)

\* The signup's row is there, or was.
OwnRow(s) == \E e \in entries \cup left : e.id = s /\ Of(e) = Pair(s)

SignupOf(s) ==
  /\ req[s].at \in Inserted \cup {"loaded"} => req[s].list \in Lists /\ req[s].email \in Addresses
  /\ req[s].at \in {"none", "loaded"} => \A e \in entries \cup left : e.id # s
  /\ req[s].at \in Inserted /\ ~req[s].already => OwnRow(s)
  /\ req[s].at = "inserted" => TakenOff(s) \/ OnList(s)
  /\ req[s].at \in {"positioned", "joined"} => TakenOff(s) \/ Told(s)
  /\ req[s].at = "positioned" => ~req[s].already
  /\ s \in mailed => req[s].at = "joined" /\ ~req[s].already

SignupInv == \A s \in Signups : SignupOf(s)

\* What a broadcast has read, against what its list held when it was asked for.
CastOf(c) ==
  /\ cast[c].left \subseteq left
  /\ \A e \in cast[c].before : e \in entries \cup left /\ e.list = CastOn[c]
  /\ cast[c].at = "read" =>
       /\ cast[c].before \ left \subseteq cast[c].entries
       /\ cast[c].entries \cap cast[c].left = {}
       /\ \A d, e \in cast[c].entries : d.email = e.email => d = e
  /\ cast[c].at = "created" =>
       /\ cast[c].before \ left \subseteq sent[c]
       /\ sent[c] \cap cast[c].left = {}
       /\ \A d, e \in sent[c] : d.email = e.email => d = e
  /\ sent[c] # {} => cast[c].at = "created" /\ There(CastOn[c])

CastInv == \A c \in Casts : CastOf(c)

\* As long as nobody is taken off, what was on the list and has not been shown
\* is on a page still to come: signups only push it further back.
ToCome(e, n) == e \in view.seen \/ Newer(e) >= n

ViewInv ==
  /\ view.left \subseteq left
  /\ view.at \in {"page", "rows", "done"} => view.list \in Lists
  /\ view.at \in {"page", "rows"} /\ left = view.left =>
       \A e \in view.before :
         /\ e \in On(view.list)
         /\ view.at = "page" => ToCome(e, offset)
         /\ view.at = "rows" => ToCome(e, offset + pageSize)
  /\ PagingMissesNobody

IInv == TypeOK /\ RowsInv /\ SignupInv /\ CastInv /\ ViewInv

-----------------------------------------------------------------------------
(* Sums and ranks                                                          *)

\* The sum of one number is that number.  The recursion SumSet is defined by has
\* a solution on the subsets of {n}, and any solution gives n.
LEMMA SumOne ==
  ASSUME NEW n \in Nat
  PROVE  SumSet({n}) = n
<1> DEFINE c(s) == CHOOSE x \in s : TRUE
           Iter(iter) == iter = [s \in SUBSET {n} |-> IF s = {} THEN 0
                                                      ELSE c(s) + iter[s \ {c(s)}]]
           It == CHOOSE iter : Iter(iter)
<1>0. c({n}) = n /\ {n} \ {n} = {} /\ SUBSET {n} = {{}, {n}}
  OBVIOUS
<1>1. \E iter : Iter(iter)
  <2> DEFINE g == [s \in SUBSET {n} |-> IF s = {} THEN 0 ELSE n]
  <2> HIDE DEF c
  <2>1. g[{}] = 0 /\ g[{n}] = n
    BY <1>0
  <2>2. g = [s \in SUBSET {n} |-> g[s]]
    OBVIOUS
  <2> HIDE DEF g
  <2>3. g[{n} \ {c({n})}] = 0
    BY <1>0, <2>1
  <2>4. g[{n}] = c({n}) + g[{n} \ {c({n})}]
    BY <1>0, <2>1, <2>3
  <2>5. \A s \in SUBSET {n} : g[s] = IF s = {} THEN 0 ELSE c(s) + g[s \ {c(s)}]
    BY <1>0, <2>1, <2>4
  <2>6. Iter(g)
    BY <2>2, <2>5
  <2> QED  BY <2>6
<1>2. Iter(It)
  BY <1>1
<1>3. It[{n}] = n
  <2> HIDE DEF c, It
  <2>1. It[{}] = 0
    BY <1>2
  <2>2. It[{n}] = c({n}) + It[{n} \ {c({n})}]
    BY <1>0, <1>2
  <2> QED  BY <1>0, <2>1, <2>2
<1>4. SumSet({n}) = It[{n}]
  BY DEF SumSet, FoldSet, MapThenFoldSet
<1> QED  BY <1>3, <1>4

\* The sum of no numbers is 0.
LEMMA SumNone == SumSet({}) = 0
<1> DEFINE c(s) == CHOOSE x \in s : TRUE
           Iter(iter) == iter = [s \in SUBSET {} |-> IF s = {} THEN 0
                                                     ELSE c(s) + iter[s \ {c(s)}]]
           It == CHOOSE iter : Iter(iter)
<1>1. Iter([s \in SUBSET {} |-> 0])
  OBVIOUS
<1>2. Iter(It)
  BY <1>1
<1>3. It[{}] = 0
  BY <1>2
<1>4. SumSet({}) = It[{}]
  BY DEF SumSet, FoldSet, MapThenFoldSet
<1> QED  BY <1>3, <1>4

\* A row's number is larger than that of every row in the table.
LEMMA NextFact ==
  ASSUME TableType, RowsInv
  PROVE  NextRowid \in Nat /\ \A e \in entries : e.rowid < NextRowid
<1> DEFINE S == {0} \cup {e.rowid : e \in entries}
<1>1. \A e \in entries : e.rowid \in Nat
  BY DEF TableType, Rows
<1>2. \E m \in S : \A e \in entries : e.rowid <= m
  BY DEF RowsInv
<1>3. S \subseteq Nat
  BY <1>1
<1>4. \E m \in S : \A y \in S : m >= y
  <2>1. PICK m \in S : \A e \in entries : e.rowid <= m
    BY <1>2
  <2>2. m \in Nat /\ m >= 0
    BY <1>3
  <2>3. \A y \in S : m >= y
    BY <1>1, <2>1, <2>2
  <2> QED  BY <2>3
<1>5. Max(S) \in S /\ \A y \in S : Max(S) >= y
  BY <1>4 DEF Max
<1>6. NextRowid = Max(S) + 1
  BY DEF NextRowid
<1>7. \A e \in entries : e.rowid \in S
  OBVIOUS
<1> HIDE DEF S
<1>8. Max(S) \in Nat
  BY <1>3, <1>5
<1>9. ASSUME NEW e \in entries  PROVE e.rowid < Max(S) + 1
  <2>1. e.rowid \in Nat /\ Max(S) >= e.rowid
    BY <1>1, <1>5, <1>7
  <2> QED  BY <1>8, <2>1
<1> QED  BY <1>6, <1>8, <1>9

\* Counts of the rows of a list are numbers.
LEMMA Counts ==
  ASSUME RowsInv, NEW e
  PROVE  Rank(e) \in Nat /\ Newer(e) \in Nat
<1>1. IsFiniteSet(On(e.list))
  BY FS_Subset DEF RowsInv, On
<1>2. /\ IsFiniteSet({x \in On(e.list) : x.rowid <= e.rowid})
      /\ IsFiniteSet({x \in On(e.list) : x.rowid > e.rowid})
  BY <1>1, FS_Subset
<1> QED  BY <1>2, FS_CardinalityType DEF Rank, Newer

\* What the statement after the insert returns, while the address is listed.
LEMMA PositionFact ==
  ASSUME RowsInv, NEW w \in Lists, NEW e \in On(w)
  PROVE  EntryPosition(w, e.email) = Rank(e)
<1>1. {x \in On(w) : x.email = e.email} = {e}
  BY DEF RowsInv, On, Of
<1>2. {Rank(x) : x \in {e}} = {Rank(e)}
  OBVIOUS
<1>3. Rank(e) \in Nat
  BY Counts
<1> QED  BY <1>1, <1>2, <1>3, SumOne DEF EntryPosition

\* And while it is not.
LEMMA PositionType ==
  ASSUME RowsInv, NEW w \in Lists, NEW email \in Addresses
  PROVE  EntryPosition(w, email) \in Nat
<1>1. CASE \E e \in On(w) : e.email = email
  BY <1>1, PositionFact, Counts
<1>2. CASE ~ \E e \in On(w) : e.email = email
  <2>1. {Rank(x) : x \in {x \in On(w) : x.email = email}} = {}
    BY <1>2
  <2> QED  BY <2>1, SumNone DEF EntryPosition
<1> QED  BY <1>1, <1>2

-----------------------------------------------------------------------------
(* Types *)

LEMMA InitType == Init => TypeOK
<1> SUFFICES ASSUME Init  PROVE TypeOK
  OBVIOUS
<1> USE DEF Init
<1>1. TableType
  BY DEF TableType
<1>2. ReqType
  BY DEF ReqType, NoReq
<1>3. CastType
  BY DEF CastType, NoCast
<1>4. ViewType
  BY DEF ViewType, NoView
<1> QED  BY <1>1, <1>2, <1>3, <1>4 DEF TypeOK

LEMMA TableTypeStep ==
  ASSUME IInv, Next
  PROVE  TableType'
<1>0. TableType /\ ReqType /\ RowsInv /\ SignupInv
  BY DEF IInv, TypeOK
<1> USE DEF TableType
<1>1. ASSUME NEW s \in Signups, Signup(s)  PROVE TableType'
  <2>1. CASE CreateEntry(s)
    <3> DEFINE e == [rowid |-> NextRowid, id |-> s, list |-> req[s].list, email |-> req[s].email]
    <3>1. e \in Rows
      BY <1>0, <2>1, NextFact DEF CreateEntry, SignupInv, SignupOf, Rows
    <3> QED  BY <1>0, <2>1, <3>1 DEF CreateEntry
  <2>2. CASE SendConfirmation(s)
    BY <1>0, <2>2 DEF SendConfirmation
  <2> QED  BY <1>0, <1>1, <2>1, <2>2 DEF Signup, GetWaitlist, Position, SignupFails
<1>2. ASSUME NEW c \in Casts, Broadcast(c)  PROVE TableType'
  BY <1>0, <1>2 DEF Broadcast, BeginBroadcast, ReadRecipients, CreateBroadcast, BroadcastFails
<1>3. CASE Operator
  <2>1. ASSUME NEW w, DeleteWaitlist(w)  PROVE TableType'
    BY <1>0, <2>1 DEF DeleteWaitlist, On
  <2>2. ASSUME NEW w, NEW kind \in {"quiet", "confirms"}, UpdateWaitlist(w, kind)
        PROVE  TableType'
    BY <1>0, <2>2 DEF UpdateWaitlist
  <2>3. ASSUME NEW e \in entries, DeleteEntry(e)  PROVE TableType'
    BY <1>0, <2>3 DEF DeleteEntry
  <2> QED  BY <1>0, <1>3, <2>1, <2>2, <2>3 DEF Operator, Open, ReadPage, CountPages
<1>4. CASE Restart
  BY <1>0, <1>4 DEF Restart
<1> QED  BY <1>1, <1>2, <1>3, <1>4 DEF Next

LEMMA ReqTypeStep ==
  ASSUME IInv, Next
  PROVE  ReqType'
<1>0. TableType /\ ReqType /\ RowsInv /\ SignupInv
  BY DEF IInv, TypeOK
<1> USE DEF ReqType
<1>1. ASSUME NEW s \in Signups, Signup(s)  PROVE ReqType'
  <2>1. CASE GetWaitlist(s)
    <3>1. Posted[s] \subseteq Post
      BY WaitlistAssumption
    <3>2. PICK post \in Post :
            req' = [req EXCEPT ![s] =
                IF There(post.list) /\ ~post.honeypot /\ post.email # None
                THEN [@ EXCEPT !.at = "loaded", !.list = post.list, !.email = post.email,
                               !.confirms = list[post.list] = "confirms"]
                ELSE Ended]
      BY <2>1, <3>1 DEF GetWaitlist
    <3>3. CASE There(post.list) /\ ~post.honeypot /\ post.email # None
      <4>1. post.list \in Lists /\ post.email \in Addresses
        BY <3>3 DEF Post
      <4>2. (list[post.list] = "confirms") \in BOOLEAN
        OBVIOUS
      <4>3. [req[s] EXCEPT !.at = "loaded", !.list = post.list, !.email = post.email,
                           !.confirms = list[post.list] = "confirms"]
              \in [at : {"none", "loaded", "inserted", "positioned", "joined", "ended"},
                   list : Lists \cup {None}, email : Addresses \cup {None},
                   confirms : BOOLEAN, already : BOOLEAN, position : Nat]
        BY <1>0, <4>1, <4>2
      <4> QED  BY <1>0, <3>2, <3>3, <4>3
    <3>4. CASE ~(There(post.list) /\ ~post.honeypot /\ post.email # None)
      BY <1>0, <3>2, <3>4 DEF Ended, NoReq
    <3> QED  BY <3>3, <3>4
  <2>2. CASE CreateEntry(s)
    BY <1>0, <2>2 DEF CreateEntry
  <2>3. CASE Position(s)
    <3>1. EntryPosition(req[s].list, req[s].email) \in Nat
      BY <1>0, <2>3, PositionType DEF Position, SignupInv, SignupOf, Inserted
    <3>2. PICK at \in {"positioned", "joined"} :
            req' = [req EXCEPT ![s].at = at, ![s].confirms = FALSE,
                               ![s].position = EntryPosition(req[s].list, req[s].email)]
      BY <2>3 DEF Position
    <3>3. [req[s] EXCEPT !.at = at, !.confirms = FALSE,
                         !.position = EntryPosition(req[s].list, req[s].email)]
            \in [at : {"none", "loaded", "inserted", "positioned", "joined", "ended"},
                 list : Lists \cup {None}, email : Addresses \cup {None},
                 confirms : BOOLEAN, already : BOOLEAN, position : Nat]
      BY <1>0, <3>1
    <3>4. req' = [req EXCEPT ![s] = [req[s] EXCEPT !.at = at, !.confirms = FALSE,
                                !.position = EntryPosition(req[s].list, req[s].email)]]
      BY <1>0, <3>2
    <3> QED  BY <1>0, <3>3, <3>4
  <2>4. CASE SendConfirmation(s)
    BY <1>0, <2>4 DEF SendConfirmation
  <2>5. CASE SignupFails(s)
    BY <1>0, <2>5 DEF SignupFails, Ended, NoReq
  <2> QED  BY <1>1, <2>1, <2>2, <2>3, <2>4, <2>5 DEF Signup
<1>2. CASE UNCHANGED req
  BY <1>0, <1>2
<1>3. CASE Restart
  BY <1>0, <1>3 DEF Restart, Ended, NoReq
<1> QED
  BY <1>1, <1>2, <1>3
     DEF Next, Operator, Broadcast, BeginBroadcast, ReadRecipients, CreateBroadcast, BroadcastFails,
         DeleteWaitlist, UpdateWaitlist, DeleteEntry, Open, ReadPage, CountPages

LEMMA CastTypeStep ==
  ASSUME IInv, Next
  PROVE  CastType'
<1>0. TableType /\ CastType
  BY DEF IInv, TypeOK
<1> USE DEF CastType
<1>1. CASE UNCHANGED <<cast, sent>>
  BY <1>0, <1>1
<1>2. ASSUME NEW c \in Casts, Broadcast(c)  PROVE CastType'
  <2>1. On(CastOn[c]) \in SUBSET Rows
    BY <1>0 DEF TableType, On
  <2>2. CASE BeginBroadcast(c)
    BY <1>0, <2>1, <2>2 DEF BeginBroadcast, TableType
  <2>3. CASE ReadRecipients(c)
    BY <1>0, <2>1, <2>3 DEF ReadRecipients, ListEntries, NoCast
  <2>4. CASE CreateBroadcast(c)
    BY <1>0, <2>4 DEF CreateBroadcast
  <2>5. CASE BroadcastFails(c)
    BY <1>0, <2>5 DEF BroadcastFails, NoCast
  <2> QED  BY <1>2, <2>2, <2>3, <2>4, <2>5 DEF Broadcast
<1>3. ASSUME NEW w, DeleteWaitlist(w)  PROVE CastType'
  BY <1>0, <1>3 DEF DeleteWaitlist
<1>4. CASE Restart
  BY <1>0, <1>4 DEF Restart, NoCast
<1> QED
  BY <1>1, <1>2, <1>3, <1>4
     DEF Next, Operator, Signup, GetWaitlist, CreateEntry, Position, SendConfirmation, SignupFails,
         UpdateWaitlist, DeleteEntry, Open, ReadPage, CountPages

LEMMA ViewTypeStep ==
  ASSUME IInv, Next
  PROVE  ViewType'
<1>0. TableType /\ ViewType
  BY DEF IInv, TypeOK
<1> USE DEF ViewType
<1>1. CASE UNCHANGED view
  BY <1>0, <1>1
<1>2. ASSUME NEW w \in Lists, Open(w)  PROVE ViewType'
  <2>1. On(w) \in SUBSET Rows /\ left \in SUBSET Rows
    BY <1>0 DEF TableType, On
  <2>2. view' = [at |-> "page", list |-> w, page |-> 1, before |-> On(w), left |-> left, seen |-> {}]
    BY <1>2 DEF Open, NoView
  <2> QED  BY <2>1, <2>2
<1>3. CASE ReadPage
  <2>1. ListEntriesPaged(view.list, pageSize, offset) \in SUBSET Rows
    BY <1>0 DEF ListEntriesPaged, On, TableType
  <2>2. CASE view' = [NoView EXCEPT !.at = "ended"]
    BY <2>2 DEF NoView
  <2>3. CASE view' = [view EXCEPT !.at = "rows",
                         !.seen = @ \cup ListEntriesPaged(view.list, pageSize, offset)]
    BY <1>0, <2>1, <2>3
  <2> QED  BY <1>3, <2>2, <2>3 DEF ReadPage
<1>4. CASE CountPages
  <2>1. view.page + 1 \in Nat \ {0}
    BY <1>0
  <2>2. view' = [view EXCEPT !.at = "page", !.page = @ + 1] \/ view' = [view EXCEPT !.at = "done"]
    BY <1>4 DEF CountPages
  <2> QED  BY <1>0, <2>1, <2>2
<1>5. CASE Restart
  BY <1>0, <1>5 DEF Restart, NoView
<1> QED
  BY <1>1, <1>2, <1>3, <1>4, <1>5
     DEF Next, Operator, Signup, GetWaitlist, CreateEntry, Position, SendConfirmation, SignupFails,
         Broadcast, BeginBroadcast, ReadRecipients, CreateBroadcast, BroadcastFails,
         DeleteWaitlist, UpdateWaitlist, DeleteEntry

-----------------------------------------------------------------------------
(* The rows *)

\* What an insert that inserts does to the rows.
LEMMA InsertRows ==
  ASSUME IInv, NEW s \in Signups, CreateEntry(s), ~Conflicts(req[s].list, req[s].email),
         NEW e, e = [rowid |-> NextRowid, id |-> s, list |-> req[s].list, email |-> req[s].email]
  PROVE  /\ entries' = entries \cup {e} /\ left' = left
         /\ e \notin entries \cup left
         /\ \A x \in entries : x.rowid < e.rowid
         /\ e.rowid \in Nat
         /\ RowsInv'
<1>0. TableType /\ RowsInv /\ SignupOf(s)
  BY DEF IInv, TypeOK, SignupInv
<1>1. entries' = entries \cup {e} /\ left' = left /\ list' = list
  BY DEF CreateEntry
<1>2. e.rowid = NextRowid /\ e.id = s /\ e.list = req[s].list /\ e.email = req[s].email
  OBVIOUS
<1>3. req[s].at = "loaded" /\ There(req[s].list)
  BY DEF CreateEntry
<1>4. \A x \in entries \cup left : x.id # s
  BY <1>0, <1>3 DEF SignupOf
<1>5. e.rowid \in Nat /\ \A x \in entries : x.rowid < e.rowid
  BY <1>0, <1>2, NextFact
<1>6. \A x \in entries : Of(x) # Of(e)
  BY <1>2 DEF Conflicts, On, Of
<1> HIDE DEF RowsInv
<1>7. IsFiniteSet(entries') /\ IsFiniteSet(left')
  BY <1>0, <1>1, FS_AddElement DEF RowsInv
<1>8. e \notin entries \cup left
  BY <1>2, <1>4
<1>9. \A c, d \in entries' \cup left' : c.id = d.id => c = d
  BY <1>0, <1>1, <1>2, <1>4 DEF RowsInv
<1>10. \A c, d \in entries' : Of(c) = Of(d) => c = d
  BY <1>0, <1>1, <1>6 DEF RowsInv
<1>11. ASSUME NEW T \in SUBSET entries'
       PROVE  \E m \in {0} \cup {x.rowid : x \in T} : \A x \in T : x.rowid <= m
  <2>1. CASE e \in T
    <3>1. \A x \in T : x.rowid <= e.rowid
      <4>1. ASSUME NEW x \in T, x # e  PROVE x.rowid <= e.rowid
        <5>1. x \in entries
          BY <1>1, <4>1
        <5>2. x.rowid \in Nat /\ x.rowid < e.rowid
          BY <1>0, <1>5, <5>1 DEF TableType, Rows
        <5> QED  BY <1>5, <5>2
      <4> QED  BY <1>5, <4>1
    <3> QED  BY <2>1, <3>1
  <2>2. CASE e \notin T
    <3>1. T \in SUBSET entries
      BY <1>1, <2>2
    <3> QED  BY <1>0, <3>1 DEF RowsInv
  <2> QED  BY <2>1, <2>2
<1>12. \A x \in entries' : There(x.list)'
  BY <1>0, <1>1, <1>2, <1>3 DEF RowsInv, There
<1>13. RowsInv'
  <2>1. entries' \cap left' = {}
    BY <1>0, <1>1, <1>8 DEF RowsInv
  <2>2. \A c, d \in entries' : Of(c)' = Of(d)' => c = d
    BY <1>10 DEF Of
  <2> QED  BY <1>7, <1>9, <1>11, <1>12, <2>1, <2>2 DEF RowsInv
<1> QED  BY <1>1, <1>5, <1>8, <1>13

\* What taking rows off does.
LEMMA RemoveRows ==
  ASSUME RowsInv, NEW X \in SUBSET entries, entries' = entries \ X, left' = left \cup X,
         \A e \in entries' : There(e.list)'
  PROVE  RowsInv'
<1>1. IsFiniteSet(X)
  BY FS_Subset DEF RowsInv
<1>2. IsFiniteSet(entries') /\ IsFiniteSet(left')
  BY <1>1, FS_Subset, FS_Union DEF RowsInv
<1>3. entries' \cup left' = entries \cup left /\ entries' \cap left' = {}
  BY DEF RowsInv
<1>4. \A c, d \in entries' : Of(c)' = Of(d)' => c = d
  BY DEF RowsInv, Of
<1>5. SUBSET entries' \subseteq SUBSET entries
  OBVIOUS
<1> QED  BY <1>2, <1>3, <1>4, <1>5 DEF RowsInv

\* Every step inserts a row, takes rows off or leaves them alone.
LEMMA RowsStep ==
  ASSUME IInv, Next
  PROVE  RowsInv'
<1>0. TableType /\ RowsInv
  BY DEF IInv, TypeOK
<1>1. ASSUME UNCHANGED <<entries, left>>, \A w \in Lists : There(w) => There(w)'  PROVE RowsInv'
  <2>1. \A e \in entries : There(e.list)'
    BY <1>0, <1>1 DEF RowsInv, TableType, Rows
  <2>2. \A d, e \in entries : Of(d)' = Of(e)' => d = e
    BY <1>0 DEF RowsInv, Of
  <2> QED  BY <1>0, <1>1, <2>1, <2>2 DEF RowsInv
<1>2. CASE UNCHANGED <<entries, left, list>>
  BY <1>1, <1>2 DEF There
<1>3. ASSUME NEW s \in Signups, CreateEntry(s)  PROVE RowsInv'
  <2>1. CASE Conflicts(req[s].list, req[s].email)
    BY <1>2, <1>3, <2>1 DEF CreateEntry
  <2>2. CASE ~Conflicts(req[s].list, req[s].email)
    BY <1>3, <2>2, InsertRows
  <2> QED  BY <2>1, <2>2
<1>4. ASSUME NEW w \in Lists, DeleteWaitlist(w)  PROVE RowsInv'
  <2>1. On(w) \in SUBSET entries /\ entries' = entries \ On(w) /\ left' = left \cup On(w)
    BY <1>4 DEF DeleteWaitlist, On
  <2>2. \A e \in entries' : There(e.list)'
    BY <1>0, <1>4, <2>1 DEF DeleteWaitlist, On, RowsInv, There, TableType, Rows
  <2> QED  BY <1>0, <2>1, <2>2, RemoveRows
<1>5. ASSUME NEW w \in Lists, NEW kind \in {"quiet", "confirms"}, UpdateWaitlist(w, kind)
      PROVE  RowsInv'
  BY <1>0, <1>1, <1>5 DEF UpdateWaitlist, There, TableType
<1>6. ASSUME NEW e \in entries, DeleteEntry(e)  PROVE RowsInv'
  <2>1. {e} \in SUBSET entries /\ entries' = entries \ {e} /\ left' = left \cup {e} /\ list' = list
    BY <1>6 DEF DeleteEntry
  <2>2. \A x \in entries' : There(x.list)'
    BY <1>0, <2>1 DEF RowsInv, There
  <2> QED  BY <1>0, <2>1, <2>2, RemoveRows
<1> QED
  BY <1>2, <1>3, <1>4, <1>5, <1>6, WaitlistAssumption
     DEF Next, Operator, Signup, GetWaitlist, Position, SendConfirmation, SignupFails, Broadcast,
         BeginBroadcast, ReadRecipients, CreateBroadcast, BroadcastFails, Open, ReadPage,
         CountPages, Restart

-----------------------------------------------------------------------------
(* Signups *)

\* A later row leaves every place as it is,
LEMMA RankSame ==
  ASSUME RowsInv, NEW n, entries' = entries \cup {n}, \A x \in entries : x.rowid < n.rowid,
         \A x \in entries : x.rowid \in Nat, n.rowid \in Nat,
         NEW e \in entries
  PROVE  Rank(e)' = Rank(e)
<1>1. ~(n.rowid <= e.rowid)
  OBVIOUS
<1>2. {x \in On(e.list)' : x.rowid <= e.rowid} = {x \in On(e.list) : x.rowid <= e.rowid}
  BY <1>1 DEF On
<1> QED  BY <1>2 DEF Rank

\* and a removal improves it or leaves it.
LEMMA RankLess ==
  ASSUME RowsInv, NEW X \in SUBSET entries, entries' = entries \ X, NEW e
  PROVE  /\ Rank(e)' \in Nat /\ Rank(e)' <= Rank(e)
         /\ (\A x \in X : x.list # e.list) => Rank(e)' = Rank(e)
<1> DEFINE S == {x \in On(e.list) : x.rowid <= e.rowid}
           T == {x \in On(e.list)' : x.rowid <= e.rowid}
<1>1. IsFiniteSet(S)
  BY FS_Subset DEF RowsInv, On
<1>2. T \in SUBSET S
  BY DEF On
<1>3. Cardinality(T) \in Nat /\ Cardinality(T) <= Cardinality(S)
  BY <1>1, <1>2, FS_Subset, FS_CardinalityType
<1>4. (\A x \in X : x.list # e.list) => T = S
  BY DEF On
<1> QED  BY <1>3, <1>4 DEF Rank

\* Another's rows and requests do not touch a signup.
LEMMA SignupKept ==
  ASSUME NEW s \in Signups, SignupOf(s), entries' = entries, left' = left,
         req'[s] = req[s], s \in mailed' => s \in mailed
  PROVE  SignupOf(s)'
BY DEF SignupOf, Inserted, TakenOff, OnList, Told, OwnRow, Of, Pair, On, Rank

LEMMA RemovalKeeps ==
  ASSUME RowsInv, TableType, ReqType, NEW s \in Signups, SignupOf(s),
         NEW X \in SUBSET entries, entries' = entries \ X, left' = left \cup X,
         req' = req, mailed' = mailed
  PROVE  SignupOf(s)'
<1>1. TakenOff(s) => TakenOff(s)'
  BY DEF TakenOff, Of, Pair
<1>2. ASSUME NEW e \in On(req[s].list), e.email = req[s].email, e \in X
      PROVE  TakenOff(s)'
  BY <1>2 DEF TakenOff, Of, Pair, On
<1>3. OnList(s) => TakenOff(s)' \/ OnList(s)'
  BY <1>2 DEF OnList, On
<1>4. ASSUME Told(s)  PROVE TakenOff(s)' \/ Told(s)'
  <2>1. PICK e \in On(req[s].list) :
          /\ e.email = req[s].email
          /\ (e.id = s <=> ~req[s].already)
          /\ req[s].position >= Rank(e)
          /\ (\A x \in left : x.list # e.list) => req[s].position = Rank(e)
    BY <1>4 DEF Told
  <2>2. CASE e \in X
    BY <1>2, <2>1, <2>2
  <2>3. CASE e \notin X
    <3>1. e \in On(req[s].list)'
      BY <2>3 DEF On
    <3>2. Rank(e)' \in Nat /\ Rank(e)' <= Rank(e) /\ Rank(e) \in Nat
      BY RankLess, Counts
    <3>3. (\A x \in left' : x.list # e.list) => Rank(e)' = Rank(e)
      BY RankLess
    <3>4. req[s].position \in Nat
      BY DEF ReqType
    <3>5. req[s].position >= Rank(e)'
      BY <2>1, <3>2, <3>4
    <3>6. (\A x \in left' : x.list # e.list) => req[s].position = Rank(e)'
      BY <2>1, <3>3
    <3> QED  BY <2>1, <3>1, <3>5, <3>6 DEF Told
  <2> QED  BY <2>2, <2>3
<1>5. OwnRow(s) => OwnRow(s)'
  BY DEF OwnRow, Of, Pair
<1>6. entries' \cup left' = entries \cup left
  OBVIOUS
<1> QED  BY <1>1, <1>3, <1>4, <1>5, <1>6 DEF SignupOf, Inserted

\* A row that another signup inserts.
LEMMA InsertKeeps ==
  ASSUME IInv, NEW t \in Signups, CreateEntry(t), ~Conflicts(req[t].list, req[t].email),
         NEW s \in Signups, s # t
  PROVE  SignupOf(s)'
<1>0. TableType /\ RowsInv /\ ReqType /\ SignupOf(s)
  BY DEF IInv, TypeOK, SignupInv
<1> DEFINE n == [rowid |-> NextRowid, id |-> t, list |-> req[t].list, email |-> req[t].email]
<1>1. /\ entries' = entries \cup {n} /\ left' = left
      /\ \A x \in entries : x.rowid < n.rowid
      /\ n.rowid \in Nat
  BY InsertRows
<1>2. req'[s] = req[s] /\ mailed' = mailed /\ n.id = t
  BY <1>0 DEF CreateEntry, ReqType
<1>3. \A x \in entries : x.rowid \in Nat
  BY <1>0 DEF TableType, Rows
<1> HIDE DEF n
<1>4. TakenOff(s) => TakenOff(s)'
  BY <1>1, <1>2 DEF TakenOff, Of, Pair
<1>5. OnList(s) => OnList(s)'
  BY <1>1, <1>2 DEF OnList, On
<1>6. ASSUME Told(s)  PROVE Told(s)'
  <2>1. PICK e \in On(req[s].list) :
          /\ e.email = req[s].email
          /\ (e.id = s <=> ~req[s].already)
          /\ req[s].position >= Rank(e)
          /\ (\A x \in left : x.list # e.list) => req[s].position = Rank(e)
    BY <1>6 DEF Told
  <2>2. e \in entries
    BY DEF On
  <2>3. Rank(e)' = Rank(e)
    BY <1>0, <1>1, <1>3, <2>2, RankSame
  <2>4. e \in On(req[s].list)'
    BY <1>1, <1>2 DEF On
  <2> QED  BY <1>1, <1>2, <2>1, <2>3, <2>4 DEF Told
<1>7. OwnRow(s) => OwnRow(s)'
  BY <1>1, <1>2 DEF OwnRow, Of, Pair
<1>8. (\A e \in entries \cup left : e.id # s) => \A e \in entries' \cup left' : e.id # s
  BY <1>1, <1>2
<1> QED  BY <1>0, <1>2, <1>4, <1>5, <1>6, <1>7, <1>8 DEF SignupOf, Inserted

\* A signup's own steps.
LEMMA OwnStep ==
  ASSUME IInv, NEW s \in Signups, Signup(s)
  PROVE  SignupOf(s)'
<1>0. TableType /\ RowsInv /\ ReqType /\ SignupOf(s)
  BY DEF IInv, TypeOK, SignupInv
<1>1. CASE GetWaitlist(s)
  <2>1. Posted[s] \subseteq Post
    BY WaitlistAssumption
  <2>2. entries' = entries /\ left' = left /\ mailed' = mailed /\ req[s].at = "none"
    BY <1>1 DEF GetWaitlist
  <2>3. \/ req'[s].at = "ended"
        \/ req'[s].at = "loaded" /\ req'[s].list \in Lists /\ req'[s].email \in Addresses
    BY <1>0, <1>1, <2>1 DEF GetWaitlist, Post, ReqType, Ended, NoReq
  <2> QED  BY <1>0, <2>2, <2>3 DEF SignupOf, Inserted
<1>2. CASE CreateEntry(s) /\ Conflicts(req[s].list, req[s].email)
  <2>1. /\ req'[s] = [req[s] EXCEPT !.at = "inserted", !.already = TRUE]
        /\ entries' = entries /\ left' = left /\ mailed' = mailed
    BY <1>0, <1>2 DEF CreateEntry, RowsAffected, ReqType
  <2>2. req'[s].at = "inserted" /\ req'[s].already
    BY <1>0, <2>1 DEF ReqType
  <2>3. req'[s].list = req[s].list /\ req'[s].email = req[s].email
    BY <1>0, <2>1 DEF ReqType
  <2>4. req[s].at = "loaded"
    BY <1>2 DEF CreateEntry
  <2>5. OnList(s)'
    BY <1>0, <1>2, <2>1, <2>2, <2>3, <2>4 DEF OnList, Conflicts, SignupOf, On
  <2>6. s \notin mailed'
    BY <1>0, <2>1, <2>4 DEF SignupOf
  <2> QED  BY <1>0, <2>2, <2>3, <2>4, <2>5, <2>6 DEF SignupOf, Inserted
<1>3. CASE CreateEntry(s) /\ ~Conflicts(req[s].list, req[s].email)
  <2> DEFINE n == [rowid |-> NextRowid, id |-> s, list |-> req[s].list, email |-> req[s].email]
  <2>1. entries' = entries \cup {n} /\ left' = left
    BY <1>3, InsertRows
  <2>2. /\ mailed' = mailed
        /\ req'[s] = [req[s] EXCEPT !.at = "inserted",
                          !.already = RowsAffected(req[s].list, req[s].email) = 0]
    BY <1>0, <1>3 DEF CreateEntry, ReqType
  <2>3. req'[s].at = "inserted" /\ ~req'[s].already
    <3>1. RowsAffected(req[s].list, req[s].email) = 1
      BY <1>3 DEF RowsAffected
    <3>2. /\ req'[s].at = "inserted"
          /\ req'[s].already = (RowsAffected(req[s].list, req[s].email) = 0)
      BY <1>0, <2>2 DEF ReqType
    <3>3. ~(RowsAffected(req[s].list, req[s].email) = 0)
      BY <3>1
    <3> QED  BY <3>2, <3>3
  <2>4. req'[s].list = req[s].list /\ req'[s].email = req[s].email
    BY <1>0, <2>2 DEF ReqType
  <2>5. req[s].at = "loaded"
    BY <1>3 DEF CreateEntry
  <2>6. n \in entries' /\ n.id = s /\ n.list = req'[s].list /\ n.email = req'[s].email
    BY <2>1, <2>4
  <2>7. OnList(s)' /\ OwnRow(s)'
    BY <2>3, <2>6 DEF OnList, OwnRow, On, Of, Pair
  <2>8. s \notin mailed'
    BY <1>0, <2>2, <2>5 DEF SignupOf
  <2> QED  BY <1>0, <2>3, <2>4, <2>5, <2>7, <2>8 DEF SignupOf, Inserted
<1>4. CASE Position(s)
  <2> DEFINE p == EntryPosition(req[s].list, req[s].email)
  <2>1. /\ entries' = entries /\ left' = left /\ mailed' = mailed
        /\ req[s].at = "inserted"
    BY <1>4 DEF Position
  <2>2. /\ req'[s].at \in {"positioned", "joined"}
        /\ req'[s].at = "positioned" => ~req[s].already
        /\ req'[s].position = p
        /\ req'[s].list = req[s].list /\ req'[s].email = req[s].email
        /\ req'[s].already = req[s].already
    BY <1>0, <1>4 DEF Position, ReqType
  <2>3. req[s].list \in Lists /\ req[s].email \in Addresses
    BY <1>0, <2>1 DEF SignupOf, Inserted
  <2>4. TakenOff(s) => TakenOff(s)'
    BY <2>1, <2>2 DEF TakenOff, Of, Pair
  <2>5. ASSUME OnList(s)  PROVE Told(s)'
    <3>1. PICK e \in On(req[s].list) :
            e.email = req[s].email /\ (e.id = s <=> ~req[s].already)
      BY <2>5 DEF OnList
    <3>2. p = Rank(e) /\ Rank(e) \in Nat
      BY <1>0, <2>3, <3>1, PositionFact, Counts
    <3>3. Rank(e)' = Rank(e) /\ e \in On(req[s].list)'
      BY <2>1, <2>2, <3>1 DEF Rank, On
    <3> QED  BY <2>2, <3>1, <3>2, <3>3 DEF Told
  <2>6. OwnRow(s) => OwnRow(s)'
    BY <2>1, <2>2 DEF OwnRow, Of, Pair
  <2> QED  BY <1>0, <2>1, <2>2, <2>3, <2>4, <2>5, <2>6 DEF SignupOf, Inserted
<1>5. CASE SendConfirmation(s)
  <2>1. /\ entries' = entries /\ left' = left
        /\ req[s].at = "positioned"
    BY <1>5 DEF SendConfirmation
  <2>2. /\ req'[s].at = "joined" /\ req'[s].position = req[s].position
        /\ req'[s].list = req[s].list /\ req'[s].email = req[s].email
        /\ req'[s].already = req[s].already
    BY <1>0, <1>5 DEF SendConfirmation, ReqType
  <2>3. (TakenOff(s) => TakenOff(s)') /\ (OwnRow(s) => OwnRow(s)')
    BY <2>1, <2>2 DEF TakenOff, OwnRow, Of, Pair
  <2>4. Told(s) => Told(s)'
    BY <2>1, <2>2 DEF Told, Rank, On
  <2> QED  BY <1>0, <2>1, <2>2, <2>3, <2>4 DEF SignupOf, Inserted
<1>6. CASE SignupFails(s)
  <2>1. req'[s].at = "ended" /\ mailed' = mailed
    BY <1>0, <1>6 DEF SignupFails, ReqType, Ended, NoReq
  <2>2. s \notin mailed
    BY <1>0, <1>6 DEF SignupFails, SignupOf
  <2> QED  BY <2>1, <2>2 DEF SignupOf, Inserted
<1> QED  BY <1>1, <1>2, <1>3, <1>4, <1>5, <1>6 DEF Signup

LEMMA SignupStep ==
  ASSUME IInv, Next
  PROVE  SignupInv'
<1>0. TableType /\ RowsInv /\ ReqType /\ SignupInv
  BY DEF IInv, TypeOK
<1>1. ASSUME NEW t \in Signups, Signup(t), NEW s \in Signups  PROVE SignupOf(s)'
  <2>1. CASE s = t
    BY <1>1, <2>1, OwnStep
  <2>2. CASE s # t /\ CreateEntry(t) /\ ~Conflicts(req[t].list, req[t].email)
    BY <1>1, <2>2, InsertKeeps
  <2>3. CASE s # t /\ ~(CreateEntry(t) /\ ~Conflicts(req[t].list, req[t].email))
    <3>1. /\ entries' = entries /\ left' = left /\ req'[s] = req[s]
          /\ s \in mailed' => s \in mailed
      BY <1>0, <1>1, <2>3
         DEF ReqType, Signup, GetWaitlist, CreateEntry, Position, SendConfirmation, SignupFails
    <3> QED  BY <1>0, <3>1, SignupKept DEF SignupInv
  <2> QED  BY <2>1, <2>2, <2>3
<1>2. CASE UNCHANGED <<entries, left, req, mailed>>
  BY <1>0, <1>2, SignupKept DEF SignupInv
<1>3. ASSUME NEW X \in SUBSET entries, entries' = entries \ X, left' = left \cup X,
             req' = req, mailed' = mailed
      PROVE  SignupInv'
  BY <1>0, <1>3, RemovalKeeps DEF SignupInv
<1>4. ASSUME NEW w \in Lists, DeleteWaitlist(w)  PROVE SignupInv'
  <2>1. On(w) \in SUBSET entries
    BY DEF On
  <2> QED  BY <1>3, <1>4, <2>1 DEF DeleteWaitlist
<1>5. ASSUME NEW e \in entries, DeleteEntry(e)  PROVE SignupInv'
  <2>1. {e} \in SUBSET entries
    OBVIOUS
  <2> QED  BY <1>3, <1>5, <2>1 DEF DeleteEntry
<1>6. ASSUME Restart, NEW s \in Signups  PROVE SignupOf(s)'
  <2>1. entries' = entries /\ left' = left /\ mailed' = mailed
    BY <1>6 DEF Restart
  <2>2. CASE req'[s] = req[s]
    BY <1>0, <2>1, <2>2, SignupKept DEF SignupInv
  <2>3. CASE req'[s] = Ended /\ req[s].at \in {"loaded", "inserted", "positioned"}
    <3>1. s \notin mailed'
      BY <1>0, <2>1, <2>3 DEF SignupInv, SignupOf
    <3>2. req'[s].at = "ended"
      BY <2>3 DEF Ended, NoReq
    <3> QED  BY <3>1, <3>2 DEF SignupOf, Inserted
  <2> QED  BY <1>6, <2>2, <2>3 DEF Restart
<1> QED
  BY <1>1, <1>2, <1>4, <1>5, <1>6, WaitlistAssumption
     DEF SignupInv, Next, Operator, Broadcast, BeginBroadcast, ReadRecipients, CreateBroadcast,
         BroadcastFails, UpdateWaitlist, Open, ReadPage, CountPages

-----------------------------------------------------------------------------
(* Broadcasts *)

\* A broadcast's own state stands while rows come and go elsewhere.
LEMMA CastKept ==
  ASSUME NEW c \in Casts, CastOf(c), cast'[c] = cast[c], sent'[c] = sent[c],
         left \subseteq left', entries \cup left \subseteq entries' \cup left',
         There(CastOn[c]) => There(CastOn[c])'
  PROVE  CastOf(c)'
BY DEF CastOf

LEMMA OwnCastStep ==
  ASSUME IInv, NEW c \in Casts, Broadcast(c)
  PROVE  CastOf(c)'
<1>0. TableType /\ CastType /\ RowsInv /\ CastOf(c)
  BY DEF IInv, TypeOK, CastInv
<1>1. UNCHANGED <<entries, left, list>>
  BY DEF Broadcast, BeginBroadcast, ReadRecipients, CreateBroadcast, BroadcastFails
<1>2. \A e \in On(CastOn[c]) : e \in entries /\ e.list = CastOn[c]
  BY DEF On
<1>3. \A d, e \in On(CastOn[c]) : d.email = e.email => d = e
  BY <1>0 DEF On, RowsInv, Of
<1>4. There(CastOn[c])' <=> There(CastOn[c])
  BY <1>1 DEF There
<1>5. CASE BeginBroadcast(c)
  <2>1. cast[c].at = "none" /\ sent'[c] = sent[c]
    BY <1>5 DEF BeginBroadcast
  <2>2. sent'[c] = {}
    BY <1>0, <2>1 DEF CastOf
  <2>3. CASE There(CastOn[c])
    <3>1. /\ cast'[c].at = "loaded"
          /\ cast'[c].before = On(CastOn[c]) /\ cast'[c].left = left
      BY <1>0, <1>5, <2>3 DEF BeginBroadcast, CastType
    <3> QED  BY <1>1, <1>2, <2>2, <3>1 DEF CastOf
  <2>4. CASE ~There(CastOn[c])
    <3>1. /\ cast'[c].at = "ended"
          /\ cast'[c].before = cast[c].before /\ cast'[c].left = cast[c].left
      BY <1>0, <1>5, <2>4 DEF BeginBroadcast, CastType
    <3> QED  BY <1>0, <1>1, <2>2, <3>1 DEF CastOf
  <2> QED  BY <2>3, <2>4
<1>6. CASE ReadRecipients(c)
  <2>1. cast[c].at = "loaded" /\ sent'[c] = sent[c]
    BY <1>6 DEF ReadRecipients
  <2>2. sent'[c] = {}
    BY <1>0, <2>1 DEF CastOf
  <2>3. CASE On(CastOn[c]) = {}
    <3>1. cast'[c].at = "ended" /\ cast'[c].before = {} /\ cast'[c].left = {}
      BY <1>0, <1>6, <2>3 DEF ReadRecipients, ListEntries, NoCast, CastType
    <3> QED  BY <2>2, <3>1 DEF CastOf
  <2>4. CASE On(CastOn[c]) # {}
    <3>1. /\ cast'[c].at = "read" /\ cast'[c].entries = On(CastOn[c])
          /\ cast'[c].before = cast[c].before /\ cast'[c].left = cast[c].left
      BY <1>0, <1>6, <2>4 DEF ReadRecipients, ListEntries, CastType
    <3>2. cast[c].before \ left \subseteq On(CastOn[c])
      BY <1>0 DEF CastOf, On
    <3>3. On(CastOn[c]) \cap cast[c].left = {}
      BY <1>0, <1>2 DEF CastOf, RowsInv
    <3> QED  BY <1>0, <1>1, <1>3, <2>2, <3>1, <3>2, <3>3 DEF CastOf
  <2> QED  BY <2>3, <2>4
<1>7. CASE CreateBroadcast(c)
  <2>1. cast[c].at = "read" /\ There(CastOn[c])
    BY <1>7 DEF CreateBroadcast
  <2>2. /\ cast'[c].at = "created" /\ sent'[c] = cast[c].entries
        /\ cast'[c].before = cast[c].before /\ cast'[c].left = cast[c].left
    BY <1>0, <1>7 DEF CreateBroadcast, CastType
  <2> QED  BY <1>0, <1>1, <1>4, <2>1, <2>2 DEF CastOf
<1>8. CASE BroadcastFails(c)
  <2>1. sent'[c] = {}
    BY <1>0, <1>8 DEF BroadcastFails, CastOf
  <2>2. cast'[c].at = "ended" /\ cast'[c].before = {} /\ cast'[c].left = {}
    BY <1>0, <1>8 DEF BroadcastFails, NoCast, CastType
  <2> QED  BY <2>1, <2>2 DEF CastOf
<1> QED  BY <1>5, <1>6, <1>7, <1>8 DEF Broadcast

LEMMA CastStep ==
  ASSUME IInv, Next
  PROVE  CastInv'
<1>0. TableType /\ CastType /\ RowsInv /\ CastInv
  BY DEF IInv, TypeOK
<1>1. ASSUME UNCHANGED <<cast, sent>>, left \subseteq left',
             entries \cup left \subseteq entries' \cup left',
             \A w \in Lists : There(w) => There(w)'
      PROVE  CastInv'
  <2>1. \A c \in Casts : CastOn[c] \in Lists
    BY WaitlistAssumption
  <2> QED  BY <1>0, <1>1, <2>1, CastKept DEF CastInv
<1>2. CASE UNCHANGED <<cast, sent, left, entries, list>>
  BY <1>1, <1>2 DEF There
<1>3. ASSUME NEW s \in Signups, CreateEntry(s)  PROVE CastInv'
  BY <1>1, <1>3 DEF CreateEntry, There
<1>4. ASSUME NEW b \in Casts, Broadcast(b), NEW c \in Casts  PROVE CastOf(c)'
  <2>1. CASE c = b
    BY <1>4, <2>1, OwnCastStep
  <2>2. CASE c # b
    <3>1. cast'[c] = cast[c] /\ sent'[c] = sent[c] /\ UNCHANGED <<entries, left, list>>
      BY <1>0, <1>4, <2>2
         DEF CastType, Broadcast, BeginBroadcast, ReadRecipients, CreateBroadcast, BroadcastFails
    <3> QED  BY <1>0, <3>1, CastKept DEF CastInv, There
  <2> QED  BY <2>1, <2>2
<1>5. ASSUME NEW w \in Lists, DeleteWaitlist(w), NEW c \in Casts  PROVE CastOf(c)'
  <2>1. /\ cast'[c] = cast[c] /\ left' = left \cup On(w) /\ entries' = entries \ On(w)
        /\ list' = [list EXCEPT ![w] = "gone"]
        /\ sent'[c] = IF CastOn[c] = w THEN {} ELSE sent[c]
    BY <1>5 DEF DeleteWaitlist
  <2>2. CASE CastOn[c] = w
    <3>1. \A e \in cast[c].before : e \in left'
      BY <1>0, <2>1, <2>2 DEF CastInv, CastOf, On
    <3>2. cast[c].before \ left' = {} /\ sent'[c] = {}
      BY <2>1, <2>2, <3>1
    <3>3. \A e \in cast[c].before : e.list = CastOn[c]
      BY <1>0 DEF CastInv, CastOf
    <3>4. cast[c].at = "read" => /\ cast[c].entries \cap cast[c].left = {}
                                 /\ \A d, e \in cast[c].entries : d.email = e.email => d = e
      BY <1>0 DEF CastInv, CastOf
    <3>5. cast[c].left \subseteq left'
      BY <1>0, <2>1 DEF CastInv, CastOf
    <3> QED  BY <2>1, <3>1, <3>2, <3>3, <3>4, <3>5 DEF CastOf
  <2>3. CASE CastOn[c] # w
    <3>1. There(CastOn[c])' <=> There(CastOn[c])
      BY <1>0, <2>1, <2>3, WaitlistAssumption DEF There, TableType
    <3>2. left \subseteq left' /\ entries \cup left \subseteq entries' \cup left'
      BY <2>1 DEF On
    <3> QED  BY <1>0, <2>1, <2>3, <3>1, <3>2, CastKept DEF CastInv
  <2> QED  BY <2>2, <2>3
<1>6. ASSUME NEW w \in Lists, NEW kind \in {"quiet", "confirms"}, UpdateWaitlist(w, kind)
      PROVE  CastInv'
  BY <1>0, <1>1, <1>6 DEF UpdateWaitlist, There, TableType
<1>7. ASSUME NEW e \in entries, DeleteEntry(e)  PROVE CastInv'
  BY <1>1, <1>7 DEF DeleteEntry, There
<1>8. ASSUME Restart, NEW c \in Casts  PROVE CastOf(c)'
  <2>1. UNCHANGED <<entries, left, list, sent>>
    BY <1>8 DEF Restart
  <2>2. CASE cast'[c] = cast[c]
    BY <1>0, <2>1, <2>2, CastKept DEF CastInv, There
  <2>3. CASE cast'[c] = [NoCast EXCEPT !.at = "ended"] /\ cast[c].at \in {"loaded", "read"}
    <3>1. sent'[c] = {}
      BY <1>0, <2>1, <2>3 DEF CastInv, CastOf
    <3>2. cast'[c].at = "ended" /\ cast'[c].before = {} /\ cast'[c].left = {}
      BY <2>3 DEF NoCast
    <3> QED  BY <3>1, <3>2 DEF CastOf
  <2> QED  BY <1>8, <2>2, <2>3 DEF Restart
<1> QED
  BY <1>2, <1>3, <1>4, <1>5, <1>6, <1>7, <1>8, WaitlistAssumption
     DEF CastInv, Next, Operator, Signup, GetWaitlist, Position, SendConfirmation, SignupFails,
         Open, ReadPage, CountPages

-----------------------------------------------------------------------------
(* The pages *)

LEMMA ViewKept ==
  ASSUME ViewInv, UNCHANGED <<view, entries, left>>
  PROVE  ViewInv'
BY DEF ViewInv, ToCome, Newer, On, offset, PagingMissesNobody

\* A page begins a whole number of pages into the list.
LEMMA OffsetFact ==
  ASSUME ViewType
  PROVE  offset \in Nat
<1>1. view.page - 1 \in Nat /\ pageSize \in Nat
  BY WaitlistAssumption DEF ViewType
<1> QED  BY <1>1 DEF offset

LEMMA NextOffset ==
  ASSUME ViewType, view'.page = view.page + 1
  PROVE  offset' = offset + pageSize
<1>1. view.page \in Nat /\ pageSize \in Nat
  BY WaitlistAssumption DEF ViewType
<1>2. view.page * pageSize = (view.page - 1) * pageSize + pageSize
  BY <1>1
<1>3. view'.page - 1 = view.page
  BY <1>1
<1> QED  BY <1>2, <1>3 DEF offset

\* A signup pushes what is on the list further back.
LEMMA InsertPushes ==
  ASSUME IInv, NEW s \in Signups, CreateEntry(s), ~Conflicts(req[s].list, req[s].email)
  PROVE  ViewInv'
<1>0. RowsInv /\ ViewInv
  BY DEF IInv
<1>1. left' = left /\ view' = view /\ entries \subseteq entries'
  BY InsertRows DEF CreateEntry
<1>2. ASSUME NEW e  PROVE Newer(e)' \in Nat /\ Newer(e)' >= Newer(e) /\ Newer(e) \in Nat
  <2> DEFINE S == {x \in On(e.list) : x.rowid > e.rowid}
             T == {x \in On(e.list)' : x.rowid > e.rowid}
  <2>1. RowsInv'
    BY InsertRows
  <2>2. IsFiniteSet(T)
    <3>1. IsFiniteSet(entries')
      BY <2>1 DEF RowsInv
    <3>2. T \in SUBSET entries'
      BY DEF On
    <3> QED  BY <3>1, <3>2, FS_Subset
  <2>3. S \in SUBSET T
    BY <1>1 DEF On
  <2>4. /\ Cardinality(S) \in Nat /\ Cardinality(T) \in Nat
        /\ Cardinality(S) <= Cardinality(T)
    BY <2>2, <2>3, FS_Subset, FS_CardinalityType
  <2> QED  BY <2>4 DEF Newer
<1>3. offset' = offset
  BY <1>1 DEF offset
<1>4. pageSize \in Nat /\ offset \in Nat
  BY WaitlistAssumption, OffsetFact DEF IInv, TypeOK
<1>5. ASSUME NEW e, NEW n \in Nat, ToCome(e, n)  PROVE e \in view'.seen \/ Newer(e)' >= n
  BY <1>1, <1>2, <1>5 DEF ToCome
<1>6. ASSUME view.at \in {"page", "rows"}, left = view.left, NEW e \in view.before
      PROVE  /\ e \in On(view.list)'
             /\ view.at = "page" => ToCome(e, offset)'
             /\ view.at = "rows" => ToCome(e, offset + pageSize)'
  <2>1. /\ e \in On(view.list)
        /\ view.at = "page" => ToCome(e, offset)
        /\ view.at = "rows" => ToCome(e, offset + pageSize)
    BY <1>0, <1>6 DEF ViewInv
  <2>2. e \in On(view.list)'
    BY <1>1, <2>1 DEF On
  <2>3. view.at = "page" => ToCome(e, offset)'
    BY <1>3, <1>4, <1>5, <2>1 DEF ToCome
  <2>4. offset + pageSize \in Nat
    BY <1>4
  <2>5. view.at = "rows" => ToCome(e, offset + pageSize)'
    BY <1>3, <1>5, <2>1, <2>4 DEF ToCome
  <2> QED  BY <2>2, <2>3, <2>5
<1>7. PagingMissesNobody'
  BY <1>0, <1>1 DEF ViewInv, PagingMissesNobody
<1> QED  BY <1>0, <1>1, <1>6, <1>7 DEF ViewInv

\* Once somebody is taken off, nothing is claimed.
LEMMA RemovalEnds ==
  ASSUME RowsInv, ViewInv, NEW X \in SUBSET entries, entries' = entries \ X,
         left' = left \cup X, view' = view
  PROVE  ViewInv'
<1>1. CASE X = {}
  BY <1>1, ViewKept
<1>2. CASE X # {}
  <2>1. view.left \subseteq left' /\ left' # view.left
    BY <1>2 DEF RowsInv, ViewInv
  <2> QED  BY <2>1 DEF ViewInv, PagingMissesNobody
<1> QED  BY <1>1, <1>2

\* Everyone on a list is within its count.
LEMMA NewerBound ==
  ASSUME RowsInv, TableType, NEW w, NEW e \in On(w)
  PROVE  Newer(e) \in Nat /\ CountEntries(w) \in Nat /\ Newer(e) < CountEntries(w)
<1>1. IsFiniteSet(On(w)) /\ e.list = w
  BY FS_Subset DEF RowsInv, On
<1>2. IsFiniteSet(On(w) \ {e}) /\ Cardinality(On(w) \ {e}) = Cardinality(On(w)) - 1
  BY <1>1, FS_RemoveElement
<1>3. e.rowid \in Nat
  BY DEF TableType, Rows, On
<1>4. {x \in On(w) : x.rowid > e.rowid} \in SUBSET (On(w) \ {e})
  BY <1>3
<1>5. /\ Cardinality({x \in On(w) : x.rowid > e.rowid}) \in Nat
      /\ Cardinality({x \in On(w) : x.rowid > e.rowid}) <= Cardinality(On(w) \ {e})
      /\ Cardinality(On(w)) \in Nat
  BY <1>1, <1>2, <1>4, FS_Subset, FS_CardinalityType
<1> QED  BY <1>1, <1>2, <1>5 DEF Newer, CountEntries

LEMMA ViewStep ==
  ASSUME IInv, Next
  PROVE  ViewInv'
<1>0. TableType /\ ViewType /\ RowsInv /\ ViewInv /\ pageSize \in Nat \ {0}
  BY WaitlistAssumption DEF IInv, TypeOK
<1>1. CASE UNCHANGED <<view, entries, left>>
  BY <1>0, <1>1, ViewKept
<1>2. ASSUME NEW s \in Signups, CreateEntry(s)  PROVE ViewInv'
  <2>1. CASE Conflicts(req[s].list, req[s].email)
    BY <1>1, <1>2, <2>1 DEF CreateEntry
  <2> QED  BY <1>2, <2>1, InsertPushes
<1>3. ASSUME NEW w \in Lists, DeleteWaitlist(w)  PROVE ViewInv'
  <2>1. On(w) \in SUBSET entries
    BY DEF On
  <2> QED  BY <1>0, <1>3, <2>1, RemovalEnds DEF DeleteWaitlist
<1>4. ASSUME NEW e \in entries, DeleteEntry(e)  PROVE ViewInv'
  <2>1. {e} \in SUBSET entries
    OBVIOUS
  <2> QED  BY <1>0, <1>4, <2>1, RemovalEnds DEF DeleteEntry
<1>5. ASSUME NEW w \in Lists, Open(w)  PROVE ViewInv'
  <2>1. /\ view'.at = "page" /\ view'.list = w /\ view'.page = 1
        /\ view'.before = On(w) /\ view'.left = left /\ entries' = entries /\ left' = left
    BY <1>5 DEF Open, NoView
  <2>2. offset' = 0
    BY <1>0, <2>1 DEF offset
  <2>3. ASSUME NEW e \in On(w)  PROVE e \in On(w)' /\ ToCome(e, offset)'
    <3>1. Newer(e) \in Nat
      BY <1>0, Counts
    <3>2. Newer(e)' = Newer(e) /\ On(w)' = On(w)
      BY <2>1 DEF Newer, On
    <3> QED  BY <2>2, <3>1, <3>2 DEF ToCome
  <2> QED  BY <2>1, <2>3 DEF ViewInv, PagingMissesNobody
<1>6. CASE ReadPage
  <2>1. view.at = "page" /\ entries' = entries /\ left' = left
    BY <1>6 DEF ReadPage
  <2>2. CASE There(view.list)
    <3>1. /\ view'.at = "rows" /\ view'.list = view.list /\ view'.page = view.page
          /\ view'.before = view.before /\ view'.left = view.left
          /\ view'.seen = view.seen \cup ListEntriesPaged(view.list, pageSize, offset)
      BY <1>0, <1>6, <2>2 DEF ReadPage, ViewType
    <3>2. offset' = offset /\ offset \in Nat
      BY <1>0, <3>1, OffsetFact DEF offset
    <3>3. ASSUME left = view.left, NEW e \in view.before
          PROVE  e \in On(view.list)' /\ ToCome(e, offset + pageSize)'
      <4>1. e \in On(view.list) /\ ToCome(e, offset)
        BY <1>0, <2>1, <3>3 DEF ViewInv
      <4>2. Newer(e)' = Newer(e) /\ Newer(e) \in Nat
        BY <1>0, <2>1, Counts DEF Newer, On
      <4>3. e \in view'.seen \/ Newer(e) >= offset + pageSize
        <5>1. CASE e \in view.seen
          BY <3>1, <5>1
        <5>2. CASE Newer(e) >= offset /\ ~(Newer(e) >= offset + pageSize)
          <6>1. Newer(e) \in offset..(offset + pageSize - 1)
            BY <1>0, <3>2, <4>2, <5>2
          <6> QED  BY <3>1, <4>1, <6>1 DEF ListEntriesPaged
        <5> QED  BY <4>1, <5>1, <5>2 DEF ToCome
      <4>4. e \in On(view.list)'
        BY <2>1, <3>1, <4>1 DEF On
      <4> QED  BY <3>2, <4>2, <4>3, <4>4 DEF ToCome
    <3> QED  BY <1>0, <2>1, <3>1, <3>3 DEF ViewInv, PagingMissesNobody
  <2>3. CASE ~There(view.list)
    <3>1. view'.at = "ended" /\ view'.left = {}
      BY <1>6, <2>3 DEF ReadPage, NoView
    <3> QED  BY <3>1 DEF ViewInv, PagingMissesNobody
  <2> QED  BY <2>2, <2>3
<1>7. CASE CountPages
  <2>1. view.at = "rows" /\ entries' = entries /\ left' = left
    BY <1>7 DEF CountPages
  <2>2. offset \in Nat
    BY <1>0, OffsetFact
  <2>3. CASE HasNext(view.list)
    <3>1. /\ view'.at = "page" /\ view'.list = view.list /\ view'.page = view.page + 1
          /\ view'.before = view.before /\ view'.left = view.left /\ view'.seen = view.seen
      BY <1>0, <1>7, <2>3 DEF CountPages, ViewType
    <3>2. offset' = offset + pageSize
      BY <1>0, <3>1, NextOffset
    <3>3. ASSUME left = view.left, NEW e \in view.before
          PROVE  e \in On(view.list)' /\ ToCome(e, offset)'
      <4>1. e \in On(view.list) /\ ToCome(e, offset + pageSize)
        BY <1>0, <2>1, <3>3 DEF ViewInv
      <4>2. Newer(e)' = Newer(e) /\ e \in On(view.list)'
        BY <2>1, <3>1, <4>1 DEF Newer, On
      <4> QED  BY <3>1, <3>2, <4>1, <4>2 DEF ToCome
    <3> QED  BY <1>0, <2>1, <3>1, <3>3 DEF ViewInv, PagingMissesNobody
  <2>4. CASE ~HasNext(view.list)
    <3>1. /\ view'.at = "done" /\ view'.list = view.list
          /\ view'.before = view.before /\ view'.left = view.left /\ view'.seen = view.seen
      BY <1>0, <1>7, <2>4 DEF CountPages, ViewType
    <3>2. ASSUME left = view.left, NEW e \in view.before  PROVE e \in view.seen
      <4>1. e \in On(view.list) /\ ToCome(e, offset + pageSize)
        BY <1>0, <2>1, <3>2 DEF ViewInv
      <4>2. /\ Newer(e) \in Nat /\ CountEntries(view.list) \in Nat
            /\ Newer(e) < CountEntries(view.list)
        BY <1>0, <4>1, NewerBound
      <4>3. ~(offset + pageSize < CountEntries(view.list))
        BY <2>4 DEF HasNext
      <4> QED  BY <1>0, <2>2, <4>1, <4>2, <4>3 DEF ToCome
    <3> QED  BY <1>0, <2>1, <3>1, <3>2 DEF ViewInv, PagingMissesNobody
  <2> QED  BY <2>3, <2>4
<1>8. CASE Restart
  <2>1. CASE view' = view
    BY <1>1, <1>8, <2>1 DEF Restart
  <2>2. CASE view' = [NoView EXCEPT !.at = "ended"]
    <3>1. view'.at = "ended" /\ view'.left = {}
      BY <2>2 DEF NoView
    <3> QED  BY <3>1 DEF ViewInv, PagingMissesNobody
  <2> QED  BY <1>8, <2>1, <2>2 DEF Restart
<1> QED
  BY <1>1, <1>2, <1>3, <1>4, <1>5, <1>6, <1>7, <1>8, WaitlistAssumption
     DEF Next, Operator, Signup, GetWaitlist, Position, SendConfirmation, SignupFails,
         Broadcast, BeginBroadcast, ReadRecipients, CreateBroadcast, BroadcastFails, UpdateWaitlist

-----------------------------------------------------------------------------
(* The theorems *)

LEMMA InitInv == Init => IInv
<1> SUFFICES ASSUME Init  PROVE IInv
  OBVIOUS
<1>1. TypeOK
  BY InitType
<1>2. RowsInv
  <2>1. entries = {} /\ left = {}
    BY DEF Init
  <2>2. \A T \in SUBSET entries :
          \E m \in {0} \cup {e.rowid : e \in T} : \A e \in T : e.rowid <= m
    BY <2>1
  <2> QED  BY <2>1, <2>2, FS_EmptySet DEF RowsInv
<1>3. SignupInv
  BY DEF Init, SignupInv, SignupOf, NoReq, Inserted
<1>4. CastInv
  BY DEF Init, CastInv, CastOf, NoCast
<1>5. ViewInv
  BY DEF Init, ViewInv, NoView, PagingMissesNobody
<1> QED  BY <1>1, <1>2, <1>3, <1>4, <1>5 DEF IInv

LEMMA StutterInv == IInv /\ UNCHANGED vars => IInv'
<1> SUFFICES ASSUME IInv, UNCHANGED vars  PROVE IInv'
  OBVIOUS
<1> USE DEF vars
<1>0. TypeOK /\ RowsInv /\ SignupInv /\ CastInv /\ ViewInv
  BY DEF IInv
<1>1. TypeOK'
  BY <1>0 DEF TypeOK, TableType, ReqType, CastType, ViewType
<1>2. RowsInv'
  <2>1. \A d, e \in entries : Of(d)' = Of(e)' => d = e
    BY <1>0 DEF RowsInv, Of
  <2> QED  BY <1>0, <2>1 DEF RowsInv, There
<1>3. SignupInv'
  BY <1>0, SignupKept DEF SignupInv
<1>4. CastInv'
  BY <1>0, CastKept DEF CastInv, There
<1>5. ViewInv'
  BY <1>0, ViewKept
<1> QED  BY <1>1, <1>2, <1>3, <1>4, <1>5 DEF IInv

\* The inductive invariant holds in every reachable state, for any lists,
\* addresses, requests and bounds.
THEOREM Invariance == Spec => []IInv
<1>1. Init => IInv
  BY InitInv
<1>2. IInv /\ [Next]_vars => IInv'
  <2> SUFFICES ASSUME IInv, [Next]_vars  PROVE IInv'
    OBVIOUS
  <2>1. CASE UNCHANGED vars
    BY <2>1, StutterInv
  <2>2. CASE Next
    <3>1. TypeOK'
      BY <2>2, TableTypeStep, ReqTypeStep, CastTypeStep, ViewTypeStep DEF TypeOK
    <3> QED  BY <2>2, <3>1, RowsStep, SignupStep, CastStep, ViewStep DEF IInv
  <2> QED  BY <2>1, <2>2
<1> QED  BY <1>1, <1>2, PTL DEF Spec

\* Every reachable state is well typed.
THEOREM TypeCorrect == Spec => []TypeOK
<1>1. IInv => TypeOK
  BY DEF IInv
<1> QED  BY <1>1, Invariance, PTL

\* OneConfirmation: the confirmations of an address on a list are of as many
\* rows, of which at most one is on the list.
THEOREM ConfirmedOnce == Spec => []OneConfirmation
<1>1. ASSUME IInv  PROVE OneConfirmation
  <2> SUFFICES ASSUME NEW s \in mailed
               PROVE  Cardinality({t \in mailed : Pair(t) = Pair(s)})
                        <= 1 + Cardinality({e \in left : Of(e) = Pair(s)})
    BY DEF OneConfirmation
  <2>0. RowsInv /\ SignupInv /\ mailed \subseteq Signups
    BY <1>1 DEF IInv, TypeOK, TableType
  <2> DEFINE M == {t \in mailed : Pair(t) = Pair(s)}
             L == {e \in left : Of(e) = Pair(s)}
             E == {e \in entries : Of(e) = Pair(s)}
             f == [t \in M |-> CHOOSE e \in E \cup L : e.id = t]
  <2>1. ASSUME NEW t \in M  PROVE \E e \in E \cup L : e.id = t
    <3>1. req[t].at \in Inserted /\ ~req[t].already
      BY <2>0 DEF SignupInv, SignupOf, Inserted
    <3>2. OwnRow(t) /\ Pair(t) = Pair(s)
      BY <2>0, <3>1 DEF SignupInv, SignupOf
    <3> QED  BY <3>2 DEF OwnRow
  <2>2. \A t \in M : f[t] \in E \cup L /\ f[t].id = t
    BY <2>1
  <2>3. f \in Injection(M, E \cup L)
    <3>1. f \in [M -> E \cup L]
      BY <2>2
    <3> HIDE DEF f, M, E, L
    <3>2. \A t, u \in M : f[t] = f[u] => t = u
      BY <2>2
    <3> QED  BY <3>1, <3>2 DEF Injection, IsInjective
  <2>4. IsFiniteSet(L) /\ Cardinality(L) \in Nat
    BY <2>0, FS_Subset, FS_CardinalityType DEF RowsInv
  <2>5. IsFiniteSet(E) /\ Cardinality(E) <= 1 /\ Cardinality(E) \in Nat
    <3>1. CASE E = {}
      BY <3>1, FS_EmptySet
    <3>2. CASE E # {}
      <4>1. PICK e : e \in E
        BY <3>2
      <4>2. E = {e}
        BY <2>0, <4>1 DEF RowsInv
      <4>3. IsFiniteSet({e}) /\ Cardinality({e}) = 1
        BY FS_Singleton
      <4> HIDE DEF E
      <4> QED  BY <4>2, <4>3
    <3> QED  BY <3>1, <3>2
  <2> HIDE DEF f, M, E, L
  <2>6. /\ IsFiniteSet(E \cup L)
        /\ Cardinality(E \cup L) = Cardinality(E) + Cardinality(L) - Cardinality(E \cap L)
    BY <2>4, <2>5, FS_Union
  <2>7. IsFiniteSet(E \cap L) /\ Cardinality(E \cap L) \in Nat
    BY <2>5, FS_Intersection, FS_CardinalityType
  <2>8. IsFiniteSet(M) /\ Cardinality(M) <= Cardinality(E \cup L) /\ Cardinality(M) \in Nat
    BY <2>3, <2>6, FS_Injection, FS_CardinalityType
  <2>9. Cardinality(M) <= 1 + Cardinality(L)
    BY <2>4, <2>5, <2>6, <2>7, <2>8
  <2> QED  BY <2>9 DEF M, L
<1> QED  BY <1>1, Invariance, PTL

\* PositionStands: the place a signup is told is its place, and stands.
THEOREM PlaceStands == Spec => []PositionStands
<1>1. ASSUME IInv  PROVE PositionStands
  <2> SUFFICES ASSUME NEW s \in Signups, req[s].at \in {"positioned", "joined"}
               PROVE  \/ \E e \in left : Of(e) = Pair(s)
                      \/ \E e \in On(req[s].list) :
                           /\ e.email = req[s].email
                           /\ (e.id = s <=> ~req[s].already)
                           /\ req[s].position >=
                                Cardinality({x \in On(e.list) : x.rowid <= e.rowid})
                           /\ (\A x \in left : x.list # e.list) =>
                                req[s].position =
                                  Cardinality({x \in On(e.list) : x.rowid <= e.rowid})
    BY DEF PositionStands
  <2>1. TakenOff(s) \/ Told(s)
    BY <1>1 DEF IInv, SignupInv, SignupOf
  <2> QED  BY <2>1 DEF TakenOff, Told, Rank
<1> QED  BY <1>1, Invariance, PTL

\* ReachesTheList: a broadcast goes to those on its list, once each.
THEOREM Reached == Spec => []ReachesTheList
<1>1. IInv => ReachesTheList
  BY DEF IInv, CastInv, CastOf, ReachesTheList
<1> QED  BY <1>1, Invariance, PTL

\* PagingMissesNobody: the pages show everyone who was on the list.
THEOREM PagesComplete == Spec => []PagingMissesNobody
<1>1. IInv => PagingMissesNobody
  BY DEF IInv, ViewInv
<1> QED  BY <1>1, Invariance, PTL

\* Two of the rows that are there stand in the order of their numbers.
LEMMA RankOrder ==
  ASSUME NEW S, IsFiniteSet(S), \A x \in S : x.rowid \in Nat,
         NEW d \in S, NEW e \in S, d.list = e.list
  PROVE  Cardinality({x \in {y \in S : y.list = d.list} : x.rowid <= d.rowid})
           < Cardinality({x \in {y \in S : y.list = e.list} : x.rowid <= e.rowid})
         <=> d.rowid < e.rowid
<1> DEFINE D == {x \in {y \in S : y.list = d.list} : x.rowid <= d.rowid}
           E == {x \in {y \in S : y.list = e.list} : x.rowid <= e.rowid}
<1>1. IsFiniteSet(D) /\ IsFiniteSet(E)
  BY FS_Subset
<1>2. Cardinality(D) \in Nat /\ Cardinality(E) \in Nat
  BY <1>1, FS_CardinalityType
<1>3. ASSUME d.rowid < e.rowid  PROVE Cardinality(D) < Cardinality(E)
  <2>1. D \in SUBSET E /\ e \in E /\ e \notin D
    BY <1>3
  <2> HIDE DEF D, E
  <2> QED  BY <1>1, <1>2, <2>1, FS_Subset
<1>4. ASSUME ~(d.rowid < e.rowid)  PROVE ~(Cardinality(D) < Cardinality(E))
  <2>1. E \in SUBSET D
    BY <1>4
  <2> HIDE DEF D, E
  <2> QED  BY <1>1, <1>2, <2>1, FS_Subset
<1> QED  BY <1>3, <1>4

\* What a step does to the rows: a last one is inserted, or some are taken off.
LEMMA RowsMove ==
  ASSUME IInv, [Next]_vars
  PROVE  \/ \E X \in SUBSET entries : entries' = entries \ X
         \/ \E n : /\ entries' = entries \cup {n} /\ n.rowid \in Nat
                   /\ \A x \in entries : x.rowid < n.rowid
<1> DEFINE Taken == \E X \in SUBSET entries : entries' = entries \ X
           Added == \E n : /\ entries' = entries \cup {n} /\ n.rowid \in Nat
                           /\ \A x \in entries : x.rowid < n.rowid
<1>1. CASE entries' = entries
  <2>1. {} \in SUBSET entries /\ entries' = entries \ {}
    BY <1>1
  <2> QED  BY <2>1
<1>2. ASSUME NEW s \in Signups, CreateEntry(s)  PROVE Taken \/ Added
  <2>1. CASE Conflicts(req[s].list, req[s].email)
    BY <1>1, <1>2, <2>1 DEF CreateEntry
  <2>2. CASE ~Conflicts(req[s].list, req[s].email)
    <3>1. Added
      BY <1>2, <2>2, InsertRows
    <3> QED  BY <3>1
  <2> QED  BY <2>1, <2>2
<1>3. ASSUME NEW w \in Lists, DeleteWaitlist(w)  PROVE Taken
  <2>1. On(w) \in SUBSET entries /\ entries' = entries \ On(w)
    BY <1>3 DEF DeleteWaitlist, On
  <2> QED  BY <2>1
<1>4. ASSUME NEW e \in entries, DeleteEntry(e)  PROVE Taken
  <2>1. {e} \in SUBSET entries /\ entries' = entries \ {e}
    BY <1>4 DEF DeleteEntry
  <2> QED  BY <2>1
<1> QED
  BY <1>1, <1>2, <1>3, <1>4, WaitlistAssumption
     DEF vars, Next, Operator, Signup, GetWaitlist, Position, SendConfirmation, SignupFails,
         Broadcast, BeginBroadcast, ReadRecipients, CreateBroadcast, BroadcastFails, Open, ReadPage,
         CountPages, Restart, UpdateWaitlist

\* NobodyIsOvertaken: a new row has the largest number, whatever numbers became
\* free, so an insertion moves nobody and a removal only what was behind it.
THEOREM NoOvertaking == Spec => NobodyIsOvertaken
<1> DEFINE Queued ==
      \A e \in entries \cap entries' :
        /\ Rank(e)' <= Rank(e)
        /\ \A d \in entries' : d.list = e.list /\ Rank(d)' < Rank(e)' =>
              d \in entries /\ Rank(d) < Rank(e)
<1>1. ASSUME IInv, IInv', [Next]_vars  PROVE Queued
  <2>0. TableType /\ RowsInv /\ TableType' /\ RowsInv'
    BY <1>1 DEF IInv, TypeOK
  <2>1. \A d, e \in entries' : d.list = e.list /\ Rank(d)' < Rank(e)' => d.rowid < e.rowid
    BY <2>0, RankOrder DEF Rank, On, RowsInv, TableType, Rows
  <2>2. \A d, e \in entries : d.list = e.list /\ d.rowid < e.rowid => Rank(d) < Rank(e)
    BY <2>0, RankOrder DEF Rank, On, RowsInv, TableType, Rows
  <2>3. \A e \in entries : Rank(e) \in Nat /\ e.rowid \in Nat
    BY <2>0, Counts DEF TableType, Rows
  <2>4. ASSUME NEW X \in SUBSET entries, entries' = entries \ X  PROVE Queued
    <3>1. \A e \in entries : Rank(e)' <= Rank(e)
      BY <2>0, <2>4, RankLess
    <3> QED  BY <2>1, <2>2, <2>4, <3>1
  <2>5. ASSUME NEW n, entries' = entries \cup {n}, n.rowid \in Nat,
               \A x \in entries : x.rowid < n.rowid
        PROVE  Queued
    <3>1. \A e \in entries : Rank(e)' = Rank(e)
      BY <2>0, <2>3, <2>5, RankSame
    <3>2. \A e \in entries : ~(n.rowid < e.rowid)
      BY <2>3, <2>5
    <3>3. \A e \in entries, d \in entries' : d.rowid < e.rowid => d \in entries
      BY <2>5, <3>2
    <3>4. \A e \in entries : Rank(e)' <= Rank(e)
      BY <2>3, <3>1
    <3> QED  BY <2>1, <2>2, <3>3, <3>4
  <2> QED  BY <1>1, <2>4, <2>5, RowsMove
<1> QED  BY <1>1, Invariance, PTL DEF Spec, NobodyIsOvertaken
=============================================================================
