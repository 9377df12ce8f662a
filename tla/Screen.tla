------------------------------- MODULE Screen -------------------------------
(***************************************************************************)
(* A form submission from the rate limiter to its stored row: the honeypot *)
(* and the sender, the operator's filter rules, the content score, the     *)
(* repeat tally, the threshold, and the row and breakdown that record why  *)
(* it was held; while rules are added, removed and checked, thresholds are *)
(* edited and the process restarts.                                        *)
(*                                                                         *)
(* Text is abstracted to what the screen tells apart.  A name (a mailbox,  *)
(* a host, an IP address, a network, a word) is written in a spelling:     *)
(*   "plain"    as it is stored;                                           *)
(*   "variant"  so that normalising gives "plain": upper case, a display   *)
(*              name, a leading @, host bits, a long form of an address;   *)
(*   "foreign"  with a letter only full Unicode folding would make ASCII.  *)
(* A field's value is such a name, or prose, with what the scorer counts   *)
(* in it.  Markup and SQL probes weigh the same and are one count.         *)
(***************************************************************************)
EXTENDS Limiter, Sequences, FiniteSetsExt, TLC

CONSTANTS Forms, Subs, RuleIds,
          None,
          Mailboxes, Hosts, Networks, Words,
          Dotted,        \* the hosts with a dot in their name
          HostOf,        \* [Mailboxes -> Hosts]
          Above,         \* [Hosts -> SUBSET Hosts]: a host and the domains it is in
          Numeric,       \* the recorded addresses that are IP addresses
          Around,        \* [Numeric -> SUBSET Networks]
          BuiltIn,       \* the words of the built-in list
          NameFields,    \* field names that ask for a person's name
          Contents,      \* what a submission can hold: [its field names -> Values]
          Values,
          Posted,        \* [Subs -> [form, ip, posts]], posts a set of [honeypot, data]
          Askable,       \* the rules an operator may ask for
          Offers,        \* those asked for in a run
          Legacy,        \* rules a version before this one may have stored
          Found,         \* those there when a run begins
          Thresholds,    \* numbers someone may set as a form's threshold
          Configured,    \* and as the instance's
          maxTracked,    \* pairs the repeat tally remembers
          maxBusy        \* bound on requests in progress at once

(* What the scorer counts in a value, and a submission of finitely many    *)
(* fields it can read.                                                     *)
Scorable(v) == v.markup \in Nat /\ v.links \in Nat /\ IsFiniteSet(v.words)

Readable(data) == IsFiniteSet(DOMAIN data) /\ \A k \in DOMAIN data : Scorable(data[k])

Name(what, spelling) == [what |-> what, spelling |-> spelling]

ASSUME ScreenAssumption ==
    /\ Dotted \subseteq Hosts /\ HostOf \in [Mailboxes -> Hosts]
    /\ Above \in [Hosts -> SUBSET Hosts] /\ \A h \in Hosts : h \in Above[h]
    /\ Numeric \subseteq Ips /\ Around \in [Numeric -> SUBSET Networks]
    /\ Thresholds \cup Configured \subseteq Int /\ maxTracked \in Nat \ {0}

ASSUME RuleAssumption ==
    /\ \A r \in Legacy \cup Offers : r.kind \in {"allow", "block"}
    /\ \A r \in Legacy \cup Askable : r.value = Name(r.value.what, r.value.spelling)
    /\ \A r \in Legacy : r.value # None
    /\ Found \subseteq Legacy /\ None \notin RuleIds \cup Nat
    /\ \A m \in Mailboxes, spelling \in {"plain", "foreign"} : Name(m, spelling) # None

ASSUME DataAssumption ==
    /\ \A s \in Subs : /\ Posted[s].form \in Forms /\ Posted[s].ip \in Ips
                       /\ \A post \in Posted[s].posts : Readable(post.data)
    /\ \A data \in Contents : Readable(data)
    /\ \A v \in Values : Scorable(v)

VARIABLES form,      \* [Forms -> the threshold in its row]
          rules,     \* [RuleIds -> Rule, NoRule or Gone]
          hits,      \* [RuleIds -> what the rules screen counts]
          instance,  \* the instance-wide threshold
          tally,     \* [counts, order]: the repeat tracker
          decided,   \* the submissions decided in this run, in order
          req,       \* [Subs -> its request]
          row        \* [Subs -> its row]

screenVars == <<form, rules, hits, instance, tally, decided, req, row>>
vars == <<now, bucket, debt, form, rules, hits, instance, tally, decided, req, row>>

---------------------------------------------------------------------------
(* Thresholds.                                                             *)

MinThreshold == 1
MaxThreshold == 20
DefaultThreshold == 6

ClampThreshold(t) ==
    CASE t < MinThreshold -> DefaultThreshold
      [] t > MaxThreshold -> MaxThreshold
      [] OTHER            -> t

(* Zero, at either level, is unset. *)
EffectiveThreshold(own, default) ==
    CASE own > 0                     -> own
      [] own <= 0 /\ default > 0     -> default
      [] OTHER                       -> DefaultThreshold

(* What the settings page stores for what was typed. *)
Entered(t) == IF t \in MinThreshold..MaxThreshold THEN t ELSE 0

---------------------------------------------------------------------------
(* Addresses, and who counts as the sender.                                *)

ASCIILower(n) == IF n.spelling = "foreign" THEN n ELSE Name(n.what, "plain")

(* The one form addresses are compared in, or None: it needs a dot. *)
Canonical(n) ==
    IF n.what \in Mailboxes /\ HostOf[n.what] \in Dotted THEN ASCIILower(n) ELSE None

Claimants(data) == DOMAIN data \cap {"email", "Email"}

(* At most one field claims to be the sender, and it parses; no dot asked. *)
SenderValid(data) ==
    /\ Cardinality(Claimants(data)) <= 1
    /\ \A k \in Claimants(data) : data[k].name.what \in Mailboxes

AllAddresses(data) == {Canonical(data[k].name) : k \in DOMAIN data} \ {None}

\* Mutant: an allow rule looks at every field, as a block rule does.
SenderAddresses_AnyField(data) == AllAddresses(data)

SenderAddresses(data) ==
    IF Cardinality(Claimants(data)) = 1
    THEN {Canonical(data[k].name) : k \in Claimants(data)} \ {None}
    ELSE {}

---------------------------------------------------------------------------
(* Rules.  rs is what the table held when it was listed, by rule id.       *)

Rule(kind, type, value) == [kind |-> kind, type |-> type, value |-> value]

NoRule == Rule("none", "none", None)
Gone   == Rule("gone", "none", None)

(* What a value is stored as, or None when it is refused. *)
Validate(type, n) ==
    CASE type = "email"                                                  -> Canonical(n)
      [] type = "domain" /\ n.what \in Dotted /\ n.spelling # "foreign"  -> Name(n.what, "plain")
      [] type = "ip" /\ n.what \in Numeric /\ n.spelling # "foreign"     -> Name(n.what, "plain")
      [] type = "cidr" /\ n.what \in Networks /\ n.spelling # "foreign"  -> Name(n.what, "plain")
      [] type = "keyword" /\ n.what \in Words                            -> Name(n.what, "plain")
      [] OTHER                                                           -> None

\* Mutant: only values that no longer validate are reported.
CheckRules_ValuesOnly(rs) ==
    {i \in DOMAIN rs : Validate(rs[i].type, rs[i].value) # rs[i].value}

(* The stored rules the rules page and the start-up log report as inert. *)
CheckRules(rs) ==
    {i \in DOMAIN rs : \/ rs[i].kind \notin {"allow", "block"}
                       \/ rs[i].kind = "allow" /\ rs[i].type = "keyword"
                       \/ Validate(rs[i].type, rs[i].value) # rs[i].value}

(* A network is parsed again, so host bits in it do not matter here. *)
Matches(r, addrs, ip) ==
    CASE r.type = "email"  -> r.value \in addrs
      [] r.type = "domain" -> /\ r.value.spelling = "plain"
                              /\ \E a \in addrs : r.value.what \in Above[HostOf[a.what]]
      [] r.type = "ip"     -> ip \in Numeric /\ r.value = Name(ip, "plain")
      [] r.type = "cidr"   -> /\ ip \in Numeric /\ r.value.spelling # "foreign"
                              /\ r.value.what \in Around[ip]
      [] OTHER             -> FALSE

Matching(kind, rs, addrs, ip) == {i \in DOMAIN rs : rs[i].kind = kind /\ Matches(rs[i], addrs, ip)}

(* Allow rules first, and they see the sender alone.  Of several that      *)
(* match, the newest is taken; creation times tie, so any of them.         *)
Match(rs, data, ip) ==
    LET allowed == Matching("allow", rs, SenderAddresses(data), ip)
    IN  IF allowed # {} THEN allowed ELSE Matching("block", rs, AllAddresses(data), ip)

Keywords(rs) ==
    {rs[i].value.what : i \in {j \in DOMAIN rs : rs[j].kind = "block" /\ rs[j].type = "keyword"}}

---------------------------------------------------------------------------
(* The score and its breakdown.                                            *)

markupWeight    == DefaultThreshold
keywordWeight   == 5
urlInNameWeight == 4
extraLinkWeight == 2
gibberishWeight == 3

Signal(check, field, match, weight) ==
    [check |-> check, field |-> field, match |-> match, weight |-> weight]

Total(weight, S) == MapThenSumSet(LAMBDA x : weight[x], S)

Links(data) == Total([k \in DOMAIN data |-> data[k].links], DOMAIN data)

(* One signal for each reason, repeats of one reason carried by its weight. *)
DetailWith(data, extra) ==
    (UNION {      {Signal("markup", k, None, markupWeight * n) : n \in {data[k].markup} \ {0}}
             \cup {Signal("keyword", k, w, keywordWeight) : w \in data[k].words \cap (BuiltIn \cup extra)}
             \cup {Signal("url_in_name", k, None, urlInNameWeight)
                     : x \in {k} \cap {f \in NameFields : data[k].links > 0}}
             \cup {Signal("gibberish", k, None, gibberishWeight) : x \in {data[k].gibberish} \cap {TRUE}}
           : k \in DOMAIN data})
    \cup {Signal("extra_links", None, None, extraLinkWeight * (n - 1)) : n \in {Links(data)} \ {0, 1}}

Sum(signals) == Total([s \in signals |-> s.weight], signals)

---------------------------------------------------------------------------
(* The decision.                                                           *)

Verdict(hold, signals, threshold, matched) ==
    [hold |-> hold, score |-> Sum(signals), signals |-> signals, threshold |-> threshold,
     matched |-> matched]

(* One verdict for each rule that may be the first to match. *)
Decide(rs, data, ip, asked, repeated) ==
    LET threshold == ClampThreshold(asked)
        matching  == Match(rs, data, ip)
        scored    == DetailWith(data, Keywords(rs))
                     \cup {Signal("repeat_ip", None, ip, threshold) : x \in {repeated} \cap {TRUE}}
    IN  IF matching = {}
        THEN {Verdict(Sum(scored) >= threshold, scored, threshold, None)}
        ELSE {IF rs[i].kind = "allow" THEN Verdict(FALSE, {}, threshold, i)
              ELSE Verdict(TRUE, {Signal("rule", None, rs[i].value.what, threshold)}, threshold, i)
                : i \in matching}

Pair(s) == <<Posted[s].form, Posted[s].ip>>

NewTally == [counts |-> <<>>, order |-> <<>>]

Tracked(t) == DOMAIN t.counts

(* One more from this pair; past the limit the oldest pair is forgotten. *)
Seen(t, p) ==
    IF p \in Tracked(t) THEN [t EXCEPT !.counts[p] = @ + 1]
    ELSE LET full == Cardinality(Tracked(t)) >= maxTracked
             keep == IF full THEN Tracked(t) \ {Head(t.order)} ELSE Tracked(t)
         IN  [counts |-> [q \in keep \cup {p} |-> IF q = p THEN 1 ELSE t.counts[q]],
              order  |-> Append(IF full THEN Tail(t.order) ELSE t.order, p)]

\* Mutant: the fourth is the first that counts as repeated.
Repeated_Fourth(t, p) == t.counts[p] > 3

Repeated(t, p) == t.counts[p] >= 3

---------------------------------------------------------------------------
(* State.                                                                  *)

NoVerdict == Verdict(FALSE, {}, 0, None)

(* at: the last thing the handler did. *)
NoReq == [at |-> "none", post |-> None, threshold |-> 0, rules |-> <<>>, verdict |-> NoVerdict]

Ended(answer) == [NoReq EXCEPT !.at = answer]

NoRow == [state |-> "none", score |-> 0, threshold |-> 0, signals |-> {}, excused |-> FALSE]

Listed == [i \in {j \in RuleIds : rules[j].kind \in {"allow", "block"}} |-> rules[i]]

Stored == {Listed[i] : i \in DOMAIN Listed}

Stages == {"none", "form", "rules", "verdict", "counted", "success", "dropped", "refused", "error"}

FormType == form \in [Forms -> Int] /\ instance \in Int

RuleType ==
    /\ rules = [i \in RuleIds |-> rules[i]]
    /\ \A i \in RuleIds : rules[i].kind \in {"allow", "block", "none", "gone"}
    /\ hits \in [RuleIds -> Nat]

TallyType ==
    /\ Tracked(tally) \subseteq {Pair(s) : s \in Subs} /\ tally.order \in Seq(Tracked(tally))
    /\ tally.counts \in [Tracked(tally) -> Nat]
    /\ tally = [counts |-> tally.counts, order |-> tally.order]
    /\ decided \in Seq(Subs)

(* A submission's request: what it is at, what it read and what it decided. *)
Request(s, r) ==
    /\ r = [at |-> r.at, post |-> r.post, threshold |-> r.threshold, rules |-> r.rules, verdict |-> r.verdict]
    /\ r.at \in Stages /\ r.threshold \in Int
    /\ r.at \in {"form", "rules"} => r.post \in Posted[s].posts
    /\ DOMAIN r.rules \subseteq RuleIds

ReqType == req = [s \in Subs |-> req[s]] /\ \A s \in Subs : Request(s, req[s])

RowType ==
    /\ row = [s \in Subs |-> row[s]]
    /\ \A s \in Subs : row[s].state \in {"none", "inbox", "held"}

TypeOK == LimiterTypeOK /\ FormType /\ RuleType /\ TallyType /\ ReqType /\ RowType

Init ==
    /\ LimiterInit
    /\ form \in [Forms -> Thresholds]
    /\ rules \in [RuleIds -> Found \cup {NoRule}]
    /\ Cardinality(Stored) = Cardinality(DOMAIN Listed)
    /\ hits = [i \in RuleIds |-> 0]
    /\ instance \in {ClampThreshold(t) : t \in Configured}
    /\ tally = NewTally
    /\ decided = <<>>
    /\ req = [s \in Subs |-> NoReq]
    /\ row = [s \in Subs |-> NoRow]

---------------------------------------------------------------------------
(* The operator.                                                           *)

UpdateForm(f, t) ==
    /\ form' = [form EXCEPT ![f] = Entered(t)]
    /\ UNCHANGED <<limiterVars, rules, hits, instance, tally, decided, req, row>>

(* A value that does not validate, or a rule that is there, is refused. *)
AddFilterRule(i, o) ==
    LET value == Validate(o.type, o.value)
        r     == Rule(o.kind, o.type, value)
    IN  /\ rules[i] = NoRule
        /\ value # None /\ r \notin Stored
        /\ rules' = [rules EXCEPT ![i] = r]
        /\ UNCHANGED <<limiterVars, form, hits, instance, tally, decided, req, row>>

DeleteFilterRule(i) ==
    /\ i \in DOMAIN Listed
    /\ rules' = [rules EXCEPT ![i] = Gone]
    /\ hits' = [hits EXCEPT ![i] = 0]
    /\ UNCHANGED <<limiterVars, form, instance, tally, decided, req, row>>

Busy == {s \in Subs : req[s].at \in {"form", "rules", "verdict", "counted"}}

(* The process comes back with the configured threshold and no memory. *)
Restart(t) ==
    /\ Forget
    /\ instance' = ClampThreshold(t)
    /\ tally' = NewTally
    /\ decided' = <<>>
    /\ req' = [s \in Subs |-> IF s \in Busy THEN Ended("error") ELSE req[s]]
    /\ UNCHANGED <<form, rules, hits, row>>

---------------------------------------------------------------------------
(* A submission, one step for each statement it runs.                      *)

Receive(s) ==
    /\ req[s].at = "none"
    /\ Cardinality(Busy) < maxBusy
    /\ Allow(Posted[s].ip)
    /\ \E post \in Posted[s].posts :
          req' = [req EXCEPT ![s] = [NoReq EXCEPT !.at = "form", !.post = post,
                      !.threshold = EffectiveThreshold(form[Posted[s].form], instance)]]
    /\ UNCHANGED <<form, rules, hits, instance, tally, decided, row>>

(* Told to come back later; it may. *)
TooMany(s) ==
    /\ req[s].at = "none"
    /\ Throttle(Posted[s].ip)
    /\ UNCHANGED <<form, rules, hits, instance, tally, decided, req, row>>

(* The honeypot drops it and says nothing; no data or no one sender that   *)
(* parses is refused.                                                      *)
(* When the rules cannot be read the content alone decides.                *)
ListFilterRules(s) ==
    /\ req[s].at = "form"
    /\ LET post == req[s].post IN
       CASE post.honeypot -> req' = [req EXCEPT ![s] = Ended("dropped")]
         [] ~post.honeypot /\ (post.data = <<>> \/ ~SenderValid(post.data)) ->
                req' = [req EXCEPT ![s] = Ended("refused")]
         [] OTHER -> \E rs \in {Listed, <<>>} :
                req' = [req EXCEPT ![s].at = "rules", ![s].rules = rs]
    /\ UNCHANGED <<limiterVars, form, rules, hits, instance, tally, decided, row>>

(* Counted in the tally whatever is decided. *)
Screened(s) ==
    LET seen == Seen(tally, Pair(s))
    IN  /\ req[s].at = "rules"
        /\ \E v \in Decide(req[s].rules, req[s].post.data, Posted[s].ip, req[s].threshold,
                            Repeated(seen, Pair(s))) :
               req' = [req EXCEPT ![s].at = "verdict", ![s].verdict = v, ![s].rules = <<>>, ![s].post = None]
        /\ tally' = seen
        /\ decided' = Append(decided, s)
        /\ UNCHANGED <<limiterVars, form, rules, hits, instance, row>>

(* The rule may be gone, or the update fail: the submission goes on. *)
CountRuleHit(s) ==
    LET i == req[s].verdict.matched
    IN  /\ req[s].at = "verdict" /\ i # None
        /\ hits' \in {hits} \cup {[hits EXCEPT ![j] = @ + 1] : j \in {i} \cap DOMAIN Listed}
        /\ req' = [req EXCEPT ![s].at = "counted"]
        /\ UNCHANGED <<limiterVars, form, rules, instance, tally, decided, row>>

\* Mutant: the row records the threshold before it was clamped.
RowOf_Unclamped(s, v) ==
    [state |-> IF v.hold THEN "held" ELSE "inbox", score |-> v.score, threshold |-> req[s].threshold,
     signals |-> IF v.hold THEN v.signals ELSE {}, excused |-> v.matched # None /\ ~v.hold]

(* Held with its breakdown, or accepted without; both with the bar. *)
RowOf(s, v) ==
    [state |-> IF v.hold THEN "held" ELSE "inbox", score |-> v.score, threshold |-> v.threshold,
     signals |-> IF v.hold THEN v.signals ELSE {}, excused |-> v.matched # None /\ ~v.hold]

Counted(s) == req[s].at = "counted" \/ (req[s].at = "verdict" /\ req[s].verdict.matched = None)

Store(s) ==
    /\ Counted(s)
    /\ row' = [row EXCEPT ![s] = RowOf(s, req[s].verdict)]
    /\ req' = [req EXCEPT ![s] = Ended("success")]
    /\ UNCHANGED <<limiterVars, form, rules, hits, instance, tally, decided>>

(* The form or its row cannot be read or written: nothing is stored. *)
Fail(s) ==
    /\ req[s].at = "form" \/ Counted(s)
    /\ req' = [req EXCEPT ![s] = Ended("error")]
    /\ UNCHANGED <<limiterVars, form, rules, hits, instance, tally, decided, row>>

Operator ==
    \/ \E f \in Forms, t \in Thresholds : UpdateForm(f, t)
    \/ \E i \in RuleIds : DeleteFilterRule(i) \/ \E o \in Offers : AddFilterRule(i, o)
    \/ \E t \in Configured : Restart(t)

Clock ==
    /\ Tick \/ \E ip \in Ips : Cleanup(ip)
    /\ UNCHANGED screenVars

Handle(s) ==
    \/ Receive(s) \/ TooMany(s) \/ ListFilterRules(s) \/ Screened(s) \/ CountRuleHit(s)
    \/ Store(s) \/ Fail(s)

Next == Operator \/ Clock \/ \E s \in Subs : Handle(s)

Spec == Init /\ [][Next]_vars

---------------------------------------------------------------------------
(* Properties.                                                             *)

(* A row can be explained: the bar it records is one a verdict can use, it *)
(* is held exactly when its score reaches that bar, and the stored reasons *)
(* of a held row add up to its score; whatever was typed as a threshold,   *)
(* restored with the form or configured, and whichever check held it.      *)
StoredAddsUp ==
    \A s \in Subs : row[s].state # "none" =>
        /\ row[s].threshold \in MinThreshold..MaxThreshold
        /\ row[s].state = "held" <=> row[s].score >= row[s].threshold
        /\ row[s].state = "held" => Sum(row[s].signals) = row[s].score

(* From the third submission of a pair in a run on, nothing but an allow   *)
(* rule lets one through, however requests overlap, as long as the tally   *)
(* has had no more pairs than it holds; and it never holds more.           *)
Nth(n) == Cardinality({m \in 1..n : Pair(decided[m]) = Pair(decided[n])})

ThirdIsHeld ==
    /\ Cardinality(Tracked(tally)) <= maxTracked
    /\ Cardinality({Pair(decided[n]) : n \in DOMAIN decided}) <= maxTracked =>
         \A n \in DOMAIN decided : LET s == decided[n] IN
             Nth(n) >= 3 /\ row[s].state = "inbox" => row[s].excused

Held(rs, data, ip) == \E v \in Decide(rs, data, ip, DefaultThreshold, FALSE) : v.hold

Storable == Legacy \cup ({Rule(o.kind, o.type, Validate(o.type, o.value)) : o \in Askable}
                         \ {Rule(o.kind, o.type, None) : o \in Askable})

With(data, k, v) == [x \in DOMAIN data \cup {k} |-> IF x = k THEN v ELSE data[x]]

OtherFieldsOnlyHarm ==
    \A rs \in [{1, 2} -> Storable], ip \in Ips, data \in {d \in Contents : SenderValid(d)} :
        Held(rs, data, ip) =>
            \A k \in {"message", "name"} \ DOMAIN data, v \in Values : Held(rs, With(data, k, v), ip)

Alone(r) == [i \in {1} |-> r]

ChangesNothing(r) ==
    \A data \in Contents, ip \in Ips :
        Decide(Alone(r), data, ip, DefaultThreshold, FALSE)
            = Decide(<<>>, data, ip, DefaultThreshold, FALSE)

(* What may match though it is not stored as a rule would be now: a network *)
(* and a word are reduced again when they are used, and a lower-case host   *)
(* without a dot, such as a top-level domain, still ends other hosts.       *)
Reread(r) ==
    /\ r.kind \in {"allow", "block"}
    /\ \/ r.type = "cidr"
       \/ r.type = "keyword" /\ r.kind = "block"
       \/ r.type = "domain" /\ r.value.spelling = "plain"

(* A word of the built-in list, which counts once with or without a rule. *)
Repeats(r) == r.type = "keyword" /\ r.value.what \in BuiltIn

AuditIsRight ==
    \A r \in Storable :
        IF CheckRules(Alone(r)) # {} THEN Reread(r) \/ ChangesNothing(r)
        ELSE Repeats(r) <=> ChangesNothing(r)

SentBy(name) ==
    {data \in Contents : Cardinality(Claimants(data)) = 1
                          /\ \A k \in Claimants(data) : data[k].name = name}

(* Someone posts from, or writes, whatever a rule can name. *)
Telling ==
    /\ Contents # {} /\ Ips # {}
    /\ \A m \in Mailboxes, spelling \in {"plain", "foreign"} :
         HostOf[m] \in Dotted => SentBy(Name(m, spelling)) # {}
    /\ \A h \in Dotted : \E m \in Mailboxes : HostOf[m] \in Dotted /\ h \in Above[HostOf[m]]
    /\ \A n \in Networks : \E ip \in Numeric : n \in Around[ip]
    /\ \A w \in Words : \E data \in Contents : \E k \in DOMAIN data : w \in data[k].words

(* What an allow rule excused, its sender did: a field that does not claim *)
(* to be the sender's only ever makes things worse for a submission, and   *)
(* no address it names and nothing it holds gets a submission through that *)
(* would be held without it, under any two rules.                          *)
OnlyTheSenderExcuses == (\E s \in Subs : row[s].excused) => OtherFieldsOnlyHarm

(* Once there are rules, an operator is told the truth about them: a rule *)
(* reported as never matching changes no decision on any submission from   *)
(* anywhere, unless it is a word, a network or a host that is Reread; and  *)
(* a rule that is not reported changes some decision, unless it is a word  *)
(* the built-in list has.                                                  *)
ProblemsAreInert == Stored # {} => AuditIsRight
=============================================================================
