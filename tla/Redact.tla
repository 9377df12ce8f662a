------------------------------- MODULE Redact -------------------------------
(***************************************************************************)
(* What the redact package does to a submitted value before a model is     *)
(* shown it: bytes that render as nothing or are not text are dropped      *)
(* first, then everything from the first line that holds a forged          *)
(* chat-template marker to the end.  A text is a sequence of these         *)
(* characters, each the representative of a class:                         *)
(*   "<" "|" "a" ">"   what a marker is made of: <| a |>                   *)
(*   "[" "]"           after an escape, open a control sequence            *)
(*   "nl" "sp"         a newline, a blank                                  *)
(*   "esc" "bel"       the escape byte; a control byte that ends one of    *)
(*                     its sequences                                       *)
(*   "L" "K"           the first byte of an invisible character and its    *)
(*                     other two: alone each is not valid text             *)
(*   "address" "port" "bits"  the parts of an IP address or network, which *)
(*                     the tools of Access look for                        *)
(* The three families of markers differ in spelling only; one stands here. *)
(* maxHitsPerField is the code's 16.                                       *)
(***************************************************************************)
EXTENDS Integers, FiniteSets, SequencesExt

CONSTANTS Texts, maxHitsPerField

Characters == {"<", "|", "a", ">", "[", "]", "nl", "sp", "esc", "bel", "L", "K",
               "address", "port", "bits"}

ASSUME TextsAssumption == \A t \in Texts : t \in Seq(Characters)
ASSUME LimitAssumption == maxHitsPerField \in Nat \ {0}

---------------------------------------------------------------------------
(* Invisible and malformed bytes.                                          *)

At(t, i) == IF i \in 1..Len(t) THEN t[i] ELSE "end"

Final == {"a", "|", "[", "]"}

\* Mutant: a sequence without its end runs past the newline.
EscapeLen_EatsNewlines(t, i) ==
    LET ends(S) == {j \in (i + 2)..Len(t) : t[j] \in S}
        UpTo(S) == (IF ends(S) = {} THEN Len(t) + 1 ELSE Min(ends(S)) + 1) - i
    IN  CASE i = Len(t)          -> 1
          [] At(t, i + 1) = "["  -> UpTo(Final)
          [] At(t, i + 1) = "]"  -> UpTo({"bel"})
          [] At(t, i + 1) = "K"  -> 1
          [] OTHER               -> 2

(* Where an escape sequence that starts at i stops: before the newline if  *)
(* its own end does not come first.  A two-byte escape that meets "K"      *)
(* takes one of its bytes and leaves the other, still malformed.           *)
EscapeLen(t, i) ==
    LET end == IF \E j \in i..Len(t) : t[j] = "nl"
               THEN CHOOSE j \in i..Len(t) : t[j] = "nl" /\ \A k \in i..(j - 1) : t[k] # "nl"
               ELSE Len(t) + 1
        UpTo(S) == LET ends == {j \in (i + 2)..(end - 1) : t[j] \in S}
                   IN  (IF ends = {} THEN end ELSE Min(ends) + 1) - i
    IN  IF end < i + 2 THEN end - i
        ELSE CASE t[i + 1] = "["  -> UpTo(Final)
               [] t[i + 1] = "]"  -> UpTo({"bel"})
               [] t[i + 1] = "K"  -> 1
               [] OTHER           -> 2

Class(t, i) ==
    IF t[i] \in {"esc", "bel"} \/ (t[i] = "L" /\ At(t, i + 1) = "K") THEN "invisible"
    ELSE IF t[i] \in {"L", "K"} THEN "malformed"
    ELSE "text"

Width(t, i) ==
    CASE t[i] = "esc"                             -> EscapeLen(t, i)
      [] t[i] = "L" /\ At(t, i + 1) = "K"         -> 2
      [] OTHER                                    -> 1

(* The places the decoder looks at: the first, and each time the one that  *)
(* follows what it took.                                                   *)
Places(t) ==
    LET looks[i \in 1..Len(t)] ==
            i = 1 \/ \E j \in 1..(i - 1) : i = j + Width(t, j) /\ looks[j]
    IN  {i \in 1..Len(t) : looks[i]}

Written(t) == {i \in Places(t) : Class(t, i) = "text"}

(* Numbers from the smallest on, and the characters at some places of t.   *)
InOrder(S) == [k \in 1..Cardinality(S) |->
                 CHOOSE i \in S : Cardinality({j \in S : j < i}) = k - 1]

Pick(t, S) == [k \in 1..Cardinality(S) |-> t[InOrder(S)[k]]]

LineOf(t, i) == 1 + Cardinality({j \in 1..(i - 1) : t[j] = "nl"})

Lines(t) == 1 + Cardinality({j \in 1..Len(t) : t[j] = "nl"})

Hit(line, through, reason) == [line |-> line, through |-> through, reason |-> reason, inName |-> FALSE]

(* The text without them, and one hit for each line and reason. *)
StripInvisible(t) ==
    [text |-> Pick(t, Written(t)),
     hits |-> {Hit(LineOf(t, i), LineOf(t, i), Class(t, i)) : i \in Places(t) \ Written(t)}]

(* Hits are reported line by line, what is unseen before what is malformed. *)
Rank(h) == 2 * h.line + (IF h.reason = "invisible" THEN 0 ELSE 1)

ByLine(H) == LET ranks == InOrder({Rank(h) : h \in H})
             IN  [n \in DOMAIN ranks |-> CHOOSE h \in H : Rank(h) = ranks[n]]

---------------------------------------------------------------------------
(* Forged turns.                                                           *)

(* A marker lies between i and j: it does not cross a line. *)
IsMarker(t, i, j) ==
    /\ j >= i + 4 /\ j <= Len(t)
    /\ t[i] = "<" /\ t[i + 1] = "|" /\ t[j - 1] = "|" /\ t[j] = ">"
    /\ \E b \in (i + 2)..(j - 2) : \E e \in b..(j - 2) :
         \A k \in (i + 2)..(j - 2) : t[k] = (IF k \in b..e THEN "a" ELSE "sp")

Markers(t) == {i \in 1..Len(t) : t[i] = "<" /\ \E j \in i..Len(t) : IsMarker(t, i, j)}

(* The end of a forged turn cannot be told from the submitted text, so all *)
(* that follows its first line goes.                                       *)
StripForgedTurn(t) ==
    IF Markers(t) = {}
    THEN [text |-> t, hits |-> <<>>]
    ELSE LET first  == LineOf(t, Min(Markers(t)))
             breaks == {j \in 1..Len(t) : t[j] = "nl" /\ LineOf(t, j) < first}
         IN  [text |-> IF breaks = {} THEN <<>> ELSE SubSeq(t, 1, Max(breaks) - 1),
              hits |-> <<Hit(first, Lines(t), "control_token")>>]

---------------------------------------------------------------------------
(* A value, a submission.                                                  *)

(* Past the limit, one hit stands for all the rest. *)
CapHits(hits) ==
    IF Len(hits) <= maxHitsPerField
    THEN hits
    ELSE Append(SubSeq(hits, 1, maxHitsPerField - 1),
                [hits[maxHitsPerField] EXCEPT !.through = Last(hits).through])

\* Mutant: the markers are looked for first.
Value_MarkersFirst(t) ==
    LET turn  == StripForgedTurn(t)
        shown == StripInvisible(turn.text)
    IN  [text |-> shown.text, hits |-> CapHits(ByLine(shown.hits) \o turn.hits)]

(* Invisible text is taken out first, or a marker split by it would be put *)
(* together again behind the pass that looks for markers.                  *)
Value(t) ==
    LET shown  == StripInvisible(t)
        turn   == StripForgedTurn(shown.text)
        before == {h \in shown.hits : turn.hits = <<>> \/ h.line < turn.hits[1].line}
    IN  [text |-> turn.text, hits |-> CapHits(ByLine(before) \o turn.hits)]

InName(hits) == [n \in DOMAIN hits |-> [hits[n] EXCEPT !.line = 1, !.through = 1, !.inName = TRUE]]

(* A field whose name carries a marker is withheld whole: cleaning the     *)
(* name could land on another field's.                                     *)
Fields(data) ==
    LET shown == {k \in DOMAIN data : Value(k).hits = <<>>}
    IN  [fields |-> [k \in shown |-> Value(data[k]).text],
         hits   |-> UNION {ToSet(IF k \in shown THEN Value(data[k]).hits ELSE InName(Value(k).hits))
                             : k \in DOMAIN data}]

(* What the admin's reader asks before it says anything was removed. *)
SomethingRemoved(data) ==
    \E k \in DOMAIN data : Value(k).hits # <<>> \/ Value(data[k]).hits # <<>>

---------------------------------------------------------------------------
(* What is owed to whoever reads the result.                               *)

Clean(t) == /\ Markers(t) = {}
            /\ \A k \in DOMAIN t : t[k] \notin {"esc", "bel", "L", "K"}

(* What is left of a text carries no marker and nothing unseen, whatever   *)
(* was hidden inside what, and going over it again finds nothing.          *)
ValueIsClean ==
    \A t \in Texts : \A v \in {Value(t)} :
        Clean(v.text) /\ Value(v.text) = [text |-> v.text, hits |-> <<>>]

Shown(t, l) == Pick(t, {i \in 1..Len(t) : t[i] # "nl" /\ LineOf(t, i) = l})

Covers(h, l) == h.line <= l /\ l <= h.through

(* The hits index the original: a line that no hit covers is shown as it   *)
(* was written, at its own place, and a text without hits is untouched;    *)
(* the admin's notice appears exactly for a submission that lost anything. *)
HitsSayWhat ==
    \A t \in Texts : \A v \in {Value(t)} :
        /\ \A l \in 1..Lines(t) :
             \/ \E n \in DOMAIN v.hits : Covers(v.hits[n], l)
             \/ l <= Lines(v.text) /\ Shown(v.text, l) = Shown(t, l)
        /\ v.hits = <<>> <=> v.text = t
        /\ Len(v.hits) <= maxHitsPerField
        /\ \A posted \in {[k \in {<<"a">>} |-> t]} : SomethingRemoved(posted) <=> v.text # t
=============================================================================
