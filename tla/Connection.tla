----------------------------- MODULE Connection -----------------------------
(***************************************************************************)
(* What consent promises an operator, with no endpoint in sight.  An       *)
(* approval is worth one connection to the client it was given to.  An     *)
(* operator and a client have one connection at a time: a new one takes    *)
(* the place of the old, and of everything that worked for it.  It goes on *)
(* from one refresh token to the next, and only from the latest.  Anything *)
(* may be lost at any time; what is lost does not come back, and nothing   *)
(* is used again.                                                          *)
(***************************************************************************)
CONSTANTS Clients, Users, Codes, Grants, Pairs

VARIABLES
  approved,  \* <<c, u, cl>>: code c stands for u's approval of cl
  linked,    \* <<g, u, cl>>: u and cl are connected by g
  latest,    \* <<g, p>>: the connection g goes on with p
  works,     \* <<g, p>>: p is answered on behalf of g
  drawn, issued, minted  \* the codes, connections and pairs there have been

vars == <<approved, linked, latest, works, drawn, issued, minted>>

Between(u, cl) == {g \in Grants : <<g, u, cl>> \in linked}
Without(G, S)  == {t \in S : t[1] \notin G}

Init ==
  /\ approved = {} /\ linked = {} /\ latest = {} /\ works = {}
  /\ drawn = {} /\ issued = {} /\ minted = {}

Approve(c, u, cl) ==
  /\ c \notin drawn /\ drawn' = drawn \cup {c}
  /\ approved' = approved \cup {<<c, u, cl>>}
  /\ UNCHANGED <<linked, latest, works, issued, minted>>

Connect(c, u, cl, g, p) ==
  /\ <<c, u, cl>> \in approved /\ approved' = approved \ {<<c, u, cl>>}
  /\ g \notin issued /\ issued' = issued \cup {g}
  /\ p \notin minted /\ minted' = minted \cup {p}
  /\ linked' = Without(Between(u, cl), linked) \cup {<<g, u, cl>>}
  /\ latest' = Without(Between(u, cl), latest) \cup {<<g, p>>}
  /\ works' = Without(Between(u, cl), works) \cup {<<g, p>>}
  /\ UNCHANGED drawn

GoOn(g, p, q) ==
  /\ <<g, p>> \in latest
  /\ q \notin minted /\ minted' = minted \cup {q}
  /\ latest' = (latest \ {<<g, p>>}) \cup {<<g, q>>}
  /\ works' = works \cup {<<g, q>>}
  /\ UNCHANGED <<approved, linked, drawn, issued>>

\* The connections G end, and what else there is may go as well.
Lose(G) ==
  /\ approved' \subseteq approved
  /\ linked' = Without(G, linked)
  /\ latest' \subseteq Without(G, latest)
  /\ works' \subseteq Without(G, works)
  /\ UNCHANGED <<drawn, issued, minted>>

Next ==
  \/ \E G \in SUBSET Grants : Lose(G)
  \/ \E u \in Users, cl \in Clients, c \in Codes :
       \/ Approve(c, u, cl)
       \/ \E g \in Grants, p \in Pairs : Connect(c, u, cl, g, p)
  \/ \E g \in Grants, p, q \in Pairs : GoOn(g, p, q)

Spec == Init /\ [][Next]_vars
=============================================================================
