------------------------------ MODULE MCScreen ------------------------------
(* Three submissions of one form from one address and one of another form, *)
(* a tally of one pair, two rules, and a world of names small enough to    *)
(* try every content on every pair of rules.                               *)
EXTENDS Screen

CONSTANTS f1, f2, s1, s2, s3, s4, ip1, ip2

Text(what, spelling) == [name |-> Name(what, spelling), markup |-> 0, words |-> {},
                         links |-> 0, gibberish |-> FALSE]

Prose == Text("prose", "plain")

MCHostOf == "bob" :> "mail.example.org" @@ "ann" :> "localhost"

MCAbove == "mail.example.org" :> {"mail.example.org", "example.org", "org"}
        @@ "example.org" :> {"example.org", "org"} @@ "org" :> {"org"} @@ "localhost" :> {"localhost"}

MCAround == ip1 :> {"net1"}

Mails == {Text("bob", "plain"), Text("bob", "variant"), Text("bob", "foreign"), Text("ann", "plain")}

Messages == {[Prose EXCEPT !.markup = 1], [Prose EXCEPT !.words = {"casino", "lamp"}, !.links = 1],
             [Prose EXCEPT !.links = 2, !.gibberish = TRUE]}

MCValues == {Prose} \cup Mails \cup Messages

Optional(k, S) == {<<>>} \cup {k :> v : v \in S}

MCContents ==
    {e @@ x @@ m @@ n : e \in Optional("email", {Prose} \cup Mails), x \in Optional("Email", {Text("bob", "plain")}),
                        m \in Optional("message", MCValues), n \in Optional("name", {Text("bob", "plain"), Prose})}

Post(honeypot, data) == [honeypot |-> honeypot, data |-> data]

From(f, posts) == [form |-> f, ip |-> ip1, posts |-> posts]

MCPosted ==
    s1 :> From(f1, {Post(FALSE, "email" :> Text("bob", "variant") @@ "message" :> Prose)})
 @@ s2 :> From(f1, {Post(FALSE, "message" :> [Prose EXCEPT !.words = {"casino", "lamp"}])})
 @@ s3 :> From(f1, {Post(FALSE, "name" :> [Prose EXCEPT !.links = 2])})
 @@ s4 :> From(f2, {Post(FALSE, "message" :> Prose), Post(TRUE, "message" :> Prose), Post(FALSE, "email" :> Prose)})

MCOffers == {Rule("allow", "email", Name("bob", "variant")), Rule("block", "keyword", Name("lamp", "plain"))}

MCAskable == MCOffers \cup
    {Rule("allow", "keyword", Name("lamp", "plain")), Rule("block", "domain", Name("example.org", "variant")), Rule("block", "cidr", Name("net1", "variant")),
     Rule("block", "email", Name("ann", "plain")), Rule("block", "keyword", Name("casino", "variant")), Rule("block", "email", Name("bob", "foreign")),
     Rule("allow", "ip", Name(ip1, "variant"))}

MCFound == {Rule("block", "email", Name("ann", "plain"))}

MCLegacy == MCFound \cup
    {Rule("block", "domain", Name("org", "plain")), Rule("allow", "domain", Name("example.org", "variant")),
     Rule("block", "cidr", Name("net1", "variant")), Rule("block", "keyword", Name("lamp", "variant")),
     Rule("allow", "email", Name("bob", "variant")), Rule("block", "ip", Name(ip1, "variant"))}

(* Its contents are rich enough to show what a rule changes. *)
ASSUME MCTelling == Telling
=============================================================================
