---------------------------- MODULE ScreenProofs ----------------------------
(* Proofs about Screen and the Limiter in front of it, for any forms,       *)
(* submissions, addresses, rules, thresholds and limits.                    *)
EXTENDS Screen, FiniteSetTheorems, SequenceTheorems, TLAPS

-----------------------------------------------------------------------------
(* Sums over finite sets                                                   *)
(*                                                                         *)
(* MapThenSumSet takes one element after another, each time the one CHOOSE *)
(* gives.  That this recursion has a solution, and that the order does not *)
(* matter, is shown by looking at a smallest set for which it would fail.  *)

Pick(T) == CHOOSE x \in T : TRUE

\* g adds up the weights of the subsets of S.
Adds(g, w, S) ==
  \A T \in SUBSET S : g[T] = IF T = {} THEN 0 ELSE w[Pick(T)] + g[T \ {Pick(T)}]

LEMMA PickFact ==
  ASSUME NEW T, T # {}
  PROVE  Pick(T) \in T
BY DEF Pick

\* Among subsets of a finite set there is a smallest.
LEMMA Smallest ==
  ASSUME NEW S, IsFiniteSet(S), NEW C, C \subseteq SUBSET S, C # {}
  PROVE  \E T \in C : \A U \in SUBSET T : U # T => U \notin C
<1>1. IsWellFoundedOn(StrictSubsetOrdering(S), SUBSET S)
  BY FS_StrictSubsetOrderingWellFounded, FS_FiniteSubsetsOfFinite
<1>2. PICK T \in C : \A U \in C : ~(<<U, T>> \in StrictSubsetOrdering(S))
  BY <1>1, WFMin
<1>3. ASSUME NEW U \in SUBSET T, U # T, U \in C  PROVE FALSE
  <2>1. U \in SUBSET S /\ T \in SUBSET S
    BY <1>3
  <2>2. <<U, T>> \in StrictSubsetOrdering(S)
    BY <1>3, <2>1 DEF StrictSubsetOrdering
  <2> QED  BY <1>2, <1>3, <2>2
<1> QED  BY <1>3

LEMMA AddsUnique ==
  ASSUME NEW S, IsFiniteSet(S), NEW w, NEW g, NEW h, Adds(g, w, S), Adds(h, w, S),
         NEW V \in SUBSET S
  PROVE  g[V] = h[V]
<1> DEFINE C == {T \in SUBSET S : g[T] # h[T]}
<1>1. SUFFICES ASSUME C # {}  PROVE FALSE
  OBVIOUS
<1>2. PICK T \in C : \A U \in SUBSET T : U # T => U \notin C
  <2>1. C \subseteq SUBSET S
    OBVIOUS
  <2> HIDE DEF C
  <2> QED  BY <1>1, <2>1, Smallest
<1>3. T # {}
  BY DEF Adds
<1>4. T \ {Pick(T)} # T /\ T \ {Pick(T)} \in SUBSET T /\ T \ {Pick(T)} \in SUBSET S
  BY <1>3, PickFact
<1>5. g[T \ {Pick(T)}] = h[T \ {Pick(T)}]
  BY <1>2, <1>4
<1> QED  BY <1>3, <1>5 DEF Adds

LEMMA AddsSub ==
  ASSUME NEW S, NEW w, NEW g, Adds(g, w, S), NEW T \in SUBSET S
  PROVE  Adds(g, w, T)
BY DEF Adds

\* The recursion has a solution.
LEMMA AddsExists ==
  ASSUME NEW S, IsFiniteSet(S), NEW w
  PROVE  \E g : Adds(g, w, S)
<1> DEFINE C == {T \in SUBSET S : ~ \E g : Adds(g, w, T)}
<1>1. SUFFICES ASSUME C # {}  PROVE FALSE
  OBVIOUS
<1>2. PICK T \in C : \A U \in SUBSET T : U # T => U \notin C
  <2>1. C \subseteq SUBSET S
    OBVIOUS
  <2> HIDE DEF C
  <2> QED  BY <1>1, <2>1, Smallest
<1> DEFINE G(U) == CHOOSE g : Adds(g, w, U)
           Rest(U) == U \ {Pick(U)}
<1>3. ASSUME NEW U \in SUBSET T, U # T  PROVE Adds(G(U), w, U)
  <2>1. \E g : Adds(g, w, U)
    BY <1>2, <1>3
  <2> QED  BY <2>1
<1>4. ASSUME NEW U \in SUBSET T, U # {}
      PROVE  Rest(U) \in SUBSET U /\ Rest(U) # U /\ Rest(U) \in SUBSET T /\ Rest(U) # T
  BY <1>4, PickFact
<1>7. T \in SUBSET S
  BY <1>2
<1> HIDE DEF G, Rest, C
<1> DEFINE g == [U \in SUBSET T |-> IF U = {} THEN 0 ELSE w[Pick(U)] + G(Rest(U))[Rest(U)]]
<1>5. ASSUME NEW U \in SUBSET T, U # T  PROVE g[U] = G(U)[U]
  <2>1. Adds(G(U), w, U)
    BY <1>3, <1>5
  <2>2. CASE U = {}
    BY <2>1, <2>2 DEF Adds
  <2>3. CASE U # {}
    <3>1. Rest(U) \in SUBSET U /\ Rest(U) \in SUBSET T /\ Rest(U) # T
      BY <1>4, <2>3
    <3>2. Adds(G(Rest(U)), w, Rest(U)) /\ Adds(G(U), w, Rest(U))
      BY <1>3, <2>1, <3>1, AddsSub
    <3>3. IsFiniteSet(Rest(U))
      <4>1. Rest(U) \in SUBSET S
        BY <1>7, <3>1
      <4> QED  BY <4>1, FS_Subset
    <3>4. G(U)[Rest(U)] = G(Rest(U))[Rest(U)]
      BY <3>2, <3>3, AddsUnique
    <3>5. G(U)[U] = w[Pick(U)] + G(U)[Rest(U)]
      BY <2>1, <2>3 DEF Adds, Rest
    <3> QED  BY <2>3, <3>4, <3>5
  <2> QED  BY <2>2, <2>3
<1>6. Adds(g, w, T)
  <2>1. ASSUME NEW U \in SUBSET T
        PROVE  g[U] = IF U = {} THEN 0 ELSE w[Pick(U)] + g[U \ {Pick(U)}]
    <3>1. CASE U = {}
      BY <3>1
    <3>2. CASE U # {}
      <4>1. g[Rest(U)] = G(Rest(U))[Rest(U)]
        BY <1>4, <1>5, <3>2
      <4>2. g[U] = w[Pick(U)] + G(Rest(U))[Rest(U)]
        BY <3>2
      <4> HIDE DEF g
      <4> QED  BY <3>2, <4>1, <4>2 DEF Rest
    <3> QED  BY <3>1, <3>2
  <2> HIDE DEF g
  <2> QED  BY <2>1 DEF Adds
<1> QED  BY <1>2, <1>6 DEF C

LEMMA AddsNat ==
  ASSUME NEW S, IsFiniteSet(S), NEW w, \A x \in S : w[x] \in Nat, NEW g, Adds(g, w, S),
         NEW V \in SUBSET S
  PROVE  g[V] \in Nat
<1> DEFINE C == {T \in SUBSET S : g[T] \notin Nat}
<1>1. SUFFICES ASSUME C # {}  PROVE FALSE
  OBVIOUS
<1>2. PICK T \in C : \A U \in SUBSET T : U # T => U \notin C
  <2>1. C \subseteq SUBSET S
    OBVIOUS
  <2> HIDE DEF C
  <2> QED  BY <1>1, <2>1, Smallest
<1>3. T # {}
  <2>1. {} \in SUBSET S /\ g[{}] = IF {} = {} THEN 0 ELSE w[Pick({})] + g[{} \ {Pick({})}]
    BY Zenon DEF Adds
  <2>2. g[{}] = 0
    BY <2>1
  <2>3. g[T] \notin Nat
    BY <1>2
  <2> QED  BY <2>2, <2>3
<1>4. T \ {Pick(T)} # T /\ T \ {Pick(T)} \in SUBSET S /\ T \ {Pick(T)} \in SUBSET T
  BY <1>3, PickFact
<1>5. g[T \ {Pick(T)}] \in Nat /\ w[Pick(T)] \in Nat
  BY <1>2, <1>3, <1>4, PickFact
<1>6. g[T] = w[Pick(T)] + g[T \ {Pick(T)}]
  BY <1>3 DEF Adds
<1> QED  BY <1>5, <1>6

\* Any element may be the one that is taken.
LEMMA AddsAny ==
  ASSUME NEW S, IsFiniteSet(S), NEW w, \A x \in S : w[x] \in Nat, NEW g, Adds(g, w, S),
         NEW V \in SUBSET S, NEW v \in V
  PROVE  g[V] = w[v] + g[V \ {v}]
<1> DEFINE C == {T \in SUBSET S : \E x \in T : g[T] # w[x] + g[T \ {x}]}
<1>1. SUFFICES ASSUME C # {}  PROVE FALSE
  OBVIOUS
<1>2. PICK T \in C : \A U \in SUBSET T : U # T => U \notin C
  <2>1. C \subseteq SUBSET S
    OBVIOUS
  <2> HIDE DEF C
  <2> QED  BY <1>1, <2>1, Smallest
<1>3. PICK x \in T : g[T] # w[x] + g[T \ {x}]
  BY <1>2
<1> DEFINE c == Pick(T)
<1>4. c \in T /\ g[T] = w[c] + g[T \ {c}]
  BY <1>3, PickFact DEF Adds
<1>5. c # x
  BY <1>3, <1>4
<1> HIDE DEF c
<1>6. T \ {c} \notin C /\ T \ {x} \notin C
  BY <1>2, <1>3, <1>4
<1>7. g[T \ {c}] = w[x] + g[(T \ {c}) \ {x}]
  BY <1>3, <1>5, <1>6
<1>8. g[T \ {x}] = w[c] + g[(T \ {x}) \ {c}]
  BY <1>4, <1>5, <1>6
<1>9. (T \ {c}) \ {x} = (T \ {x}) \ {c}
  OBVIOUS
<1>10. g[(T \ {c}) \ {x}] \in Nat /\ w[x] \in Nat /\ w[c] \in Nat
  <2>1. (T \ {c}) \ {x} \in SUBSET S
    OBVIOUS
  <2>2. x \in S /\ c \in S
    BY <1>3, <1>4
  <2> QED  BY <2>1, <2>2, AddsNat
<1>11. g[T] = w[c] + (w[x] + g[(T \ {c}) \ {x}])
  BY <1>4, <1>7
<1>12. g[T \ {x}] = w[c] + g[(T \ {c}) \ {x}]
  BY <1>8, <1>9
<1> HIDE DEF C
<1>13. g[T] = w[x] + (w[c] + g[(T \ {c}) \ {x}])
  BY <1>10, <1>11
<1> QED  BY <1>3, <1>12, <1>13

\* What the model adds up is what the recursion gives.
LEMMA TotalIs ==
  ASSUME NEW S, IsFiniteSet(S), NEW w, NEW g, Adds(g, w, S), NEW T \in SUBSET S,
         NEW v, \A x \in T : v[x] = w[x]
  PROVE  Total(v, T) = g[T]
<1> DEFINE Step(f) == [U \in SUBSET T |->
                        IF U = {} THEN 0
                        ELSE v[CHOOSE x \in U : TRUE] + f[U \ {CHOOSE x \in U : TRUE}]]
           h == [U \in SUBSET T |-> g[U]]
           k == CHOOSE f : f = Step(f)
<1>1. Total(v, T) = (CHOOSE f : f = Step(f))[T]
  BY DEF Total, MapThenSumSet, MapThenFoldSet
<1>2. h = Step(h)
  <2>1. ASSUME NEW U \in SUBSET T  PROVE h[U] = Step(h)[U]
    <3>1. CASE U = {}
      BY <3>1 DEF Adds
    <3>2. CASE U # {}
      <4>1. Pick(U) \in T /\ U \ {Pick(U)} \in SUBSET T
        BY <3>2, PickFact
      <4>2. g[U] = w[Pick(U)] + g[U \ {Pick(U)}]
        BY <3>2 DEF Adds
      <4>3. h[U] = v[Pick(U)] + h[U \ {Pick(U)}]
        BY <4>1, <4>2
      <4> QED  BY <3>2, <4>3 DEF Pick
    <3> QED  BY <3>1, <3>2
  <2> QED  BY <2>1
<1>3. k = Step(k)
  <2> HIDE DEF Step, h
  <2> QED  BY <1>2
<1>4. Adds(k, w, T)
  <2>1. ASSUME NEW U \in SUBSET T
        PROVE  k[U] = IF U = {} THEN 0 ELSE w[Pick(U)] + k[U \ {Pick(U)}]
    <3> HIDE DEF k
    <3>1. k[U] = IF U = {} THEN 0
                 ELSE v[CHOOSE x \in U : TRUE] + k[U \ {CHOOSE x \in U : TRUE}]
      BY <1>3
    <3>2. U # {} => v[Pick(U)] = w[Pick(U)]
      BY PickFact
    <3> QED  BY <3>1, <3>2 DEF Pick
  <2> HIDE DEF k
  <2> QED  BY <2>1 DEF Adds
<1>5. Adds(g, w, T) /\ IsFiniteSet(T) /\ T \in SUBSET T
  BY FS_Subset DEF Adds
<1> HIDE DEF k
<1>6. k[T] = g[T]
  BY <1>4, <1>5, AddsUnique
<1> QED  BY <1>1, <1>6 DEF k

\* A total is one weight and the total of the others.
LEMMA TotalAdds ==
  ASSUME NEW S, IsFiniteSet(S), NEW w, \A x \in S : w[x] \in Nat
  PROVE  /\ Total(w, S) \in Nat
         /\ Total(w, {}) = 0
         /\ \A x \in S : Total(w, S) = w[x] + Total(w, S \ {x})
<1>1. PICK g : Adds(g, w, S)
  BY AddsExists
<1>2. ASSUME NEW T \in SUBSET S  PROVE Total(w, T) = g[T]
  BY <1>1, TotalIs
<1>3. S \in SUBSET S /\ {} \in SUBSET S /\ \A x \in S : S \ {x} \in SUBSET S
  OBVIOUS
<1>4. g[{}] = 0
  <2>1. g[{}] = IF {} = {} THEN 0 ELSE w[Pick({})] + g[{} \ {Pick({})}]
    BY <1>1, <1>3, Zenon DEF Adds
  <2> QED  BY <2>1
<1>5. g[S] \in Nat
  BY <1>1, <1>3, AddsNat
<1>6. ASSUME NEW x \in S  PROVE g[S] = w[x] + g[S \ {x}]
  BY <1>1, <1>3, AddsAny
<1> QED  BY <1>2, <1>3, <1>4, <1>5, <1>6

\* Equal weights have equal totals.
LEMMA TotalSame ==
  ASSUME NEW S, IsFiniteSet(S), NEW w, NEW v, \A x \in S : v[x] = w[x]
  PROVE  Total(v, S) = Total(w, S)
<1>1. PICK g : Adds(g, w, S)
  BY AddsExists
<1>2. S \in SUBSET S
  OBVIOUS
<1> QED  BY <1>1, <1>2, TotalIs

\* The score: one signal's weight and the others'.
LEMMA SumAdds ==
  ASSUME NEW S, IsFiniteSet(S), \A x \in S : x.weight \in Nat
  PROVE  /\ Sum(S) \in Nat
         /\ Sum({}) = 0
         /\ \A x \in S : Sum(S) = x.weight + Sum(S \ {x})
<1> DEFINE w == [x \in S |-> x.weight]
<1>1. \A x \in S : w[x] = x.weight /\ w[x] \in Nat
  OBVIOUS
<1>2. ASSUME NEW T \in SUBSET S  PROVE Sum(T) = Total(w, T)
  <2>1. IsFiniteSet(T)
    BY FS_Subset
  <2> DEFINE v == [x \in T |-> x.weight]
  <2>2. \A x \in T : v[x] = w[x]
    OBVIOUS
  <2> HIDE DEF v, w
  <2>3. Total(v, T) = Total(w, T)
    BY <2>1, <2>2, TotalSame
  <2> QED  BY <2>3 DEF Sum, v
<1>3. S \in SUBSET S /\ {} \in SUBSET S /\ \A x \in S : S \ {x} \in SUBSET S
  OBVIOUS
<1> HIDE DEF w
<1>4. Total(w, S) \in Nat /\ Total(w, {}) = 0 /\ \A x \in S : Total(w, S) = w[x] + Total(w, S \ {x})
  BY <1>1, TotalAdds
<1> QED  BY <1>1, <1>2, <1>3, <1>4

-----------------------------------------------------------------------------
(* The inductive invariant                                                 *)

\* What is in a bucket and what its address still owes never pass a full
\* bucket together, and nothing is owed from after the bucket was last used:
\* so when the sweep forgets it, the debt is paid.
Fair(ip) ==
  /\ debt[ip].units <= Full /\ debt[ip].since <= now
  /\ bucket[ip] # NoBucket => bucket[ip].lastSeen <= now /\ debt[ip].since <= bucket[ip].lastSeen
  /\ Refilled(bucket[ip]) + Left(debt[ip]) <= Full

CreditInv == \A ip \in Ips : Fair(ip)

\* A verdict whose reasons add up to its score, which decides.
Explained(v) ==
  /\ v.threshold \in MinThreshold..MaxThreshold
  /\ v.hold <=> v.score >= v.threshold
  /\ v.score = Sum(v.signals)

VerdictInv == \A s \in Subs : req[s].at \in {"verdict", "counted"} => Explained(req[s].verdict)

\* A sequence that holds each element of a set once.
Lists(o, K) ==
  /\ o \in Seq(K)
  /\ \A p \in K : \E n \in 1..Len(o) : o[n] = p
  /\ \A n, m \in 1..Len(o) : n # m => o[n] # o[m]

OrderInv ==
  /\ IsFiniteSet(Tracked(tally)) /\ Cardinality(Tracked(tally)) <= maxTracked
  /\ Lists(tally.order, Tracked(tally))

\* The pairs decided, and how many of the decided are of one.
Pairs == {Pair(decided[n]) : n \in DOMAIN decided}
Times(p) == {m \in DOMAIN decided : Pair(decided[m]) = p}

\* Until a pair was forgotten the tally counts exactly what was decided.
CountInv ==
  Cardinality(Pairs) <= maxTracked =>
    /\ Tracked(tally) = Pairs
    /\ \A p \in Pairs : tally.counts[p] = Cardinality(Times(p))

\* A submission is decided once and stored after that.
OnceInv ==
  /\ \A s \in Subs :
       /\ req[s].at \in {"none", "form", "rules"} => \A n \in DOMAIN decided : decided[n] # s
       /\ row[s].state # "none" => req[s].at = "success"
  /\ \A n, m \in DOMAIN decided : n # m => decided[n] # decided[m]

\* From the third of a pair on it is held, unless a rule matched.
ThirdInv ==
  Cardinality(Pairs) <= maxTracked =>
    \A n \in DOMAIN decided :
      Nth(n) >= 3 =>
        /\ req[decided[n]].at \in {"verdict", "counted"} =>
             req[decided[n]].verdict.hold \/ req[decided[n]].verdict.matched # None
        /\ row[decided[n]].state = "inbox" => row[decided[n]].excused

IInv ==
  /\ TypeOK /\ CreditInv /\ VerdictInv /\ StoredAddsUp
  /\ OrderInv /\ CountInv /\ OnceInv /\ ThirdInv

-----------------------------------------------------------------------------
(* The rate limiter                                                        *)

LEMMA FullNat == Full \in Nat
<1>1. burst \in Nat /\ cost \in Nat
  BY LimiterAssumption
<1> QED  BY <1>1 DEF Full

\* What is in a bucket that was used before now, and what is left of a debt.
LEMMA RefilledIs ==
  ASSUME LimiterTypeOK, CreditInv, NEW ip \in Ips
  PROVE  /\ Refilled(bucket[ip]) \in 0..Full /\ Left(debt[ip]) \in Nat
         /\ bucket[ip] = NoBucket => Refilled(bucket[ip]) = Full
<1> USE FullNat
<1>1. CASE bucket[ip] = NoBucket
  BY <1>1 DEF LimiterTypeOK, CreditInv, Fair, Debt, Refilled, Left
<1>2. CASE bucket[ip] # NoBucket
  <2>1. bucket[ip] \in Bucket
    BY <1>2 DEF LimiterTypeOK
  <2>2. /\ bucket[ip].tokens \in 0..Full /\ bucket[ip].lastSeen \in Nat /\ now \in Nat
        /\ bucket[ip].lastSeen <= now
    BY <1>2, <2>1, LimiterAssumption DEF LimiterTypeOK, CreditInv, Fair, Bucket
  <2>3. Refilled(bucket[ip]) \in 0..Full
    BY <1>2, <2>2 DEF Refilled
  <2>4. debt[ip].units \in Nat /\ debt[ip].since \in Nat /\ debt[ip].since <= now
    BY LimiterAssumption DEF LimiterTypeOK, CreditInv, Fair, Debt
  <2>5. Left(debt[ip]) \in Nat
    BY <2>2, <2>4 DEF Left
  <2> QED  BY <1>2, <2>3, <2>5
<1> QED  BY <1>1, <1>2

LEMMA LimiterStarts ==
  ASSUME LimiterInit
  PROVE  LimiterTypeOK /\ CreditInv
<1> USE FullNat, LimiterAssumption
<1>1. LimiterTypeOK
  BY DEF LimiterInit, LimiterTypeOK, NoDebt, Debt
<1>2. ASSUME NEW ip \in Ips
      PROVE  bucket[ip] = NoBucket /\ debt[ip].units = 0 /\ debt[ip].since = 0 /\ now = 0
  BY DEF LimiterInit, NoDebt
<1>3. ASSUME NEW ip \in Ips
      PROVE  Fair(ip)
  <2>1. Refilled(bucket[ip]) = Full /\ Left(debt[ip]) = 0
    BY <1>2 DEF Refilled, Left
  <2> QED  BY <1>2, <2>1 DEF Fair
<1>4. CreditInv
  BY <1>3 DEF CreditInv
<1> QED  BY <1>1, <1>4

LEMMA AllowStep ==
  ASSUME LimiterTypeOK, CreditInv, NEW ip \in Ips, Allow(ip)
  PROVE  LimiterTypeOK' /\ CreditInv'
<1> USE FullNat, LimiterAssumption
<1> DEFINE R == Refilled(bucket[ip])
           L == Left(debt[ip])
           b == [tokens |-> R - cost, lastSeen |-> now]
           d == [units |-> L + cost, since |-> now]
<1>1. /\ R \in 0..Full /\ L \in Nat /\ R + L <= Full /\ cost \in Nat \ {0} /\ R >= cost
      /\ now \in 0..maxNow /\ now' = now
  BY RefilledIs DEF CreditInv, Fair, Allow, LimiterTypeOK
<1>2. bucket' = [bucket EXCEPT ![ip] = b] /\ debt' = [debt EXCEPT ![ip] = d]
  BY DEF Allow
<1>3. /\ b.tokens = R - cost /\ b.lastSeen = now /\ d.units = L + cost /\ d.since = now
      /\ b = [tokens |-> R - cost, lastSeen |-> now] /\ d = [units |-> L + cost, since |-> now]
  OBVIOUS
<1> HIDE DEF R, L, b, d
<1>4. b \in Bucket /\ d \in Debt /\ b # NoBucket
  BY <1>1, <1>3 DEF Bucket, Debt
<1>5. LimiterTypeOK'
  BY <1>1, <1>2, <1>4 DEF LimiterTypeOK
<1>6. ASSUME NEW i \in Ips  PROVE Fair(i)'
  <2>1. CASE i = ip
    <3>1. /\ bucket'[i].tokens = R - cost /\ bucket'[i].lastSeen = now /\ bucket'[i] # NoBucket
          /\ debt'[i].units = L + cost /\ debt'[i].since = now
      BY <1>2, <1>3, <1>4, <2>1 DEF LimiterTypeOK
    <3>2. Refilled(bucket[i])' = R - cost
      BY <1>1, <3>1 DEF Refilled
    <3>3. Left(debt[i])' = L + cost
      BY <1>1, <3>1 DEF Left
    <3> QED  BY <1>1, <3>1, <3>2, <3>3 DEF Fair
  <2>2. CASE i # ip
    <3>1. bucket'[i] = bucket[i] /\ debt'[i] = debt[i] /\ now' = now
      BY <1>1, <1>2, <2>2 DEF LimiterTypeOK
    <3>2. Fair(i)
      BY DEF CreditInv, Fair
    <3> QED  BY <3>1, <3>2 DEF Fair, Refilled, Left
  <2> QED  BY <2>1, <2>2
<1>7. CreditInv'
  BY <1>6 DEF CreditInv, Fair
<1> QED  BY <1>5, <1>7

LEMMA ThrottleStep ==
  ASSUME LimiterTypeOK, CreditInv, NEW ip \in Ips, Throttle(ip)
  PROVE  LimiterTypeOK' /\ CreditInv'
<1> USE FullNat, LimiterAssumption
<1> DEFINE R == Refilled(bucket[ip])
           b == [tokens |-> R, lastSeen |-> now]
<1>1. /\ R \in 0..Full /\ R + Left(debt[ip]) <= Full
      /\ now \in 0..maxNow /\ now' = now /\ debt' = debt
  BY RefilledIs DEF CreditInv, Fair, Throttle, LimiterTypeOK
<1>2. bucket' = [bucket EXCEPT ![ip] = b]
  BY DEF Throttle
<1>3. b.tokens = R /\ b.lastSeen = now /\ b = [tokens |-> R, lastSeen |-> now]
  OBVIOUS
<1> HIDE DEF R, b
<1>4. b \in Bucket /\ b # NoBucket
  BY <1>1, <1>3 DEF Bucket
<1>5. LimiterTypeOK'
  BY <1>1, <1>2, <1>4 DEF LimiterTypeOK
<1>6. ASSUME NEW i \in Ips  PROVE Fair(i)'
  <2>0. Fair(i)
    BY DEF CreditInv, Fair
  <2>1. CASE i = ip
    <3>1. bucket'[i].tokens = R /\ bucket'[i].lastSeen = now /\ bucket'[i] # NoBucket
      BY <1>2, <1>3, <1>4, <2>1 DEF LimiterTypeOK
    <3>2. Refilled(bucket[i])' = R
      BY <1>1, <3>1 DEF Refilled
    <3>3. Left(debt[i])' = Left(debt[i])
      BY <1>1 DEF Left
    <3> QED  BY <1>1, <2>0, <2>1, <3>1, <3>2, <3>3 DEF Fair
  <2>2. CASE i # ip
    <3>1. bucket'[i] = bucket[i]
      BY <1>1, <1>2, <2>2 DEF LimiterTypeOK
    <3> QED  BY <1>1, <2>0, <3>1 DEF Fair, Refilled, Left
  <2> QED  BY <2>1, <2>2
<1>7. CreditInv'
  BY <1>6 DEF CreditInv, Fair
<1> QED  BY <1>5, <1>7

LEMMA CleanupStep ==
  ASSUME LimiterTypeOK, CreditInv, NEW ip \in Ips, Cleanup(ip)
  PROVE  LimiterTypeOK' /\ CreditInv'
<1> USE FullNat, LimiterAssumption
<1>1. bucket' = [bucket EXCEPT ![ip] = NoBucket] /\ now' = now /\ debt' = debt
  BY DEF Cleanup
<1>2. LimiterTypeOK'
  BY <1>1 DEF LimiterTypeOK
<1>3. ASSUME NEW i \in Ips  PROVE Fair(i)'
  <2>0. Fair(i)
    BY DEF CreditInv, Fair
  <2>1. CASE i = ip
    <3>1. bucket'[i] = NoBucket
      BY <1>1, <2>1 DEF LimiterTypeOK
    <3>2. bucket[i] \in Bucket /\ now - bucket[i].lastSeen > maxAge
      BY <2>1 DEF Cleanup, LimiterTypeOK
    <3>3. /\ bucket[i].lastSeen \in Nat /\ now \in Nat /\ bucket[i].lastSeen <= now
          /\ debt[i].units \in Nat /\ debt[i].since \in Nat /\ debt[i].since <= bucket[i].lastSeen
          /\ debt[i].units <= Full
      BY <2>0, <2>1, <3>2 DEF Cleanup, LimiterTypeOK, Bucket, Debt, Fair
    <3>4. Left(debt[i]) = 0
      BY <3>2, <3>3, RefillAssumption DEF Left
    <3>5. Left(debt[i])' = 0
      BY <1>1, <3>4 DEF Left
    <3>6. Refilled(bucket[i])' = Full
      BY <3>1 DEF Refilled
    <3> QED  BY <1>1, <2>0, <3>1, <3>5, <3>6 DEF Fair
  <2>2. CASE i # ip
    <3>1. bucket'[i] = bucket[i]
      BY <1>1, <2>2 DEF LimiterTypeOK
    <3> QED  BY <1>1, <2>0, <3>1 DEF Fair, Refilled, Left
  <2> QED  BY <2>1, <2>2
<1>4. CreditInv'
  BY <1>3 DEF CreditInv, Fair
<1> QED  BY <1>2, <1>4

LEMMA TickStep ==
  ASSUME LimiterTypeOK, CreditInv, Tick
  PROVE  LimiterTypeOK' /\ CreditInv'
<1> USE FullNat, LimiterAssumption
<1>1. now \in Nat /\ now' = now + 1 /\ bucket' = bucket /\ debt' = debt /\ now < maxNow
  BY DEF Tick, LimiterTypeOK
<1>2. LimiterTypeOK'
  BY <1>1 DEF LimiterTypeOK
<1>3. ASSUME NEW i \in Ips  PROVE Fair(i)'
  <2>0. Fair(i) /\ Refilled(bucket[i]) \in 0..Full /\ Left(debt[i]) \in Nat
    BY RefilledIs DEF CreditInv, Fair
  <2>1. /\ debt[i].units \in Nat /\ debt[i].since \in Nat
        /\ bucket[i] # NoBucket => bucket[i].lastSeen \in Nat /\ bucket[i].tokens \in 0..Full
    <3>1. debt[i] \in Debt /\ (bucket[i] # NoBucket => bucket[i] \in Bucket)
      BY DEF LimiterTypeOK
    <3> QED  BY <3>1 DEF Debt, Bucket
  <2>2. CASE Left(debt[i]) = 0
    <3>1. Left(debt[i])' = 0
      BY <1>1, <2>0, <2>1, <2>2 DEF Left, Fair
    <3>2. Refilled(bucket[i])' <= Full
      BY <1>1, <2>0, <2>1 DEF Refilled, Fair
    <3>3. Refilled(bucket[i])' \in Nat
      BY <1>1, <2>0, <2>1 DEF Refilled, Fair
    <3> QED  BY <1>1, <2>0, <2>1, <3>1, <3>2, <3>3 DEF Fair
  <2>3. CASE Left(debt[i]) # 0
    <3>1. Left(debt[i])' = Left(debt[i]) - 1
      BY <1>1, <2>0, <2>1, <2>3 DEF Left, Fair
    <3>2. bucket[i] # NoBucket
      BY <2>0, <2>3 DEF Fair, Refilled
    <3>3. Refilled(bucket[i])' \in Nat /\ Refilled(bucket[i])' <= Refilled(bucket[i]) + 1
      BY <1>1, <2>0, <2>1, <3>2 DEF Refilled, Fair
    <3> QED  BY <1>1, <2>0, <2>1, <3>1, <3>3 DEF Fair
  <2> QED  BY <2>2, <2>3
<1>4. CreditInv'
  BY <1>3 DEF CreditInv, Fair
<1> QED  BY <1>2, <1>4

LEMMA ForgetStep ==
  ASSUME LimiterTypeOK, Forget
  PROVE  LimiterTypeOK' /\ CreditInv'
<1> USE FullNat, LimiterAssumption
<1>1. LimiterTypeOK'
  BY DEF Forget, LimiterTypeOK, NoDebt, Debt
<1>2. ASSUME NEW ip \in Ips
      PROVE  bucket'[ip] = NoBucket /\ debt'[ip].units = 0 /\ debt'[ip].since = 0
  BY DEF Forget, NoDebt
<1>3. now' \in Nat
  BY DEF Forget, LimiterTypeOK
<1>4. CreditInv'
  BY <1>2, <1>3 DEF CreditInv, Fair, Refilled, Left
<1> QED  BY <1>1, <1>4

LEMMA LimiterStays ==
  ASSUME LimiterTypeOK, CreditInv, UNCHANGED limiterVars
  PROVE  LimiterTypeOK' /\ CreditInv'
BY DEF LimiterTypeOK, CreditInv, Fair, limiterVars, Refilled, Left

-----------------------------------------------------------------------------
(* Thresholds, scores and verdicts                                         *)

LEMMA ClampFits ==
  ASSUME NEW t \in Int
  PROVE  ClampThreshold(t) \in MinThreshold..MaxThreshold
BY DEF ClampThreshold, MinThreshold, MaxThreshold, DefaultThreshold

LEMMA ThresholdsInt ==
  ASSUME NEW own \in Int, NEW default \in Int
  PROVE  EffectiveThreshold(own, default) \in Int /\ Entered(own) \in Int
BY DEF EffectiveThreshold, Entered, DefaultThreshold

LEMMA LinksNat ==
  ASSUME NEW data, Readable(data)
  PROVE  Links(data) \in Nat
<1> DEFINE w == [k \in DOMAIN data |-> data[k].links]
<1>1. IsFiniteSet(DOMAIN data) /\ \A k \in DOMAIN data : w[k] \in Nat
  BY DEF Readable, Scorable
<1> HIDE DEF w
<1>2. Total(w, DOMAIN data) \in Nat
  BY <1>1, TotalAdds
<1> QED  BY <1>2 DEF Links, w

\* The reasons one field gives.
Reasons(data, extra, k) ==
         {Signal("markup", k, None, markupWeight * n) : n \in {data[k].markup} \ {0}}
    \cup {Signal("keyword", k, w, keywordWeight) : w \in data[k].words \cap (BuiltIn \cup extra)}
    \cup {Signal("url_in_name", k, None, urlInNameWeight)
            : x \in {k} \cap {f \in NameFields : data[k].links > 0}}
    \cup {Signal("gibberish", k, None, gibberishWeight) : x \in {data[k].gibberish} \cap {TRUE}}

LinkReasons(data) ==
  {Signal("extra_links", None, None, extraLinkWeight * (n - 1)) : n \in {Links(data)} \ {0, 1}}

LEMMA DetailIs ==
  ASSUME NEW data, NEW extra
  PROVE  DetailWith(data, extra)
           = (UNION {Reasons(data, extra, k) : k \in DOMAIN data}) \cup LinkReasons(data)
BY DEF DetailWith, Reasons, LinkReasons

\* What is computed from finitely many values is finite.
LEMMA ImageFinite ==
  ASSUME NEW S, IsFiniteSet(S), NEW f
  PROVE  IsFiniteSet({f[x] : x \in S})
<1> DEFINE T == {f[x] : x \in S}
           h == [x \in S |-> f[x]]
<1>1. h \in Surjection(S, T)
  BY DEF Surjection
<1> QED  BY <1>1, FS_Surjection

LEMMA WeightIs ==
  ASSUME NEW check, NEW field, NEW match, NEW weight
  PROVE  /\ Signal(check, field, match, weight).weight = weight
         /\ Signal(check, field, match, weight).check = check
         /\ Signal(check, field, match, weight).field = field
         /\ Signal(check, field, match, weight).match = match
BY DEF Signal

\* Finitely many reasons, of natural weights.
LEMMA ReasonsFinite ==
  ASSUME NEW data, NEW extra, NEW k, Scorable(data[k])
  PROVE  IsFiniteSet(Reasons(data, extra, k)) /\ \A x \in Reasons(data, extra, k) : x.weight \in Nat
<1> DEFINE A == {data[k].markup} \ {0}
           B == data[k].words \cap (BuiltIn \cup extra)
           C == {k} \cap {f \in NameFields : data[k].links > 0}
           D == {data[k].gibberish} \cap {TRUE}
           SA == {Signal("markup", k, None, markupWeight * n) : n \in A}
           SB == {Signal("keyword", k, w, keywordWeight) : w \in B}
           SC == {Signal("url_in_name", k, None, urlInNameWeight) : x \in C}
           SD == {Signal("gibberish", k, None, gibberishWeight) : x \in D}
<1>1. IsFiniteSet(A) /\ IsFiniteSet(B) /\ IsFiniteSet(C) /\ IsFiniteSet(D)
  <2>1. IsFiniteSet({data[k].markup}) /\ IsFiniteSet({k}) /\ IsFiniteSet({data[k].gibberish})
    BY FS_Singleton
  <2>2. IsFiniteSet(data[k].words)
    BY DEF Scorable
  <2> QED  BY <2>1, <2>2, FS_Subset
<1>2. data[k].markup \in Nat
  BY DEF Scorable
<1>3. Reasons(data, extra, k) = ((SA \cup SB) \cup SC) \cup SD
  BY DEF Reasons
<1> HIDE DEF A, B, C, D
<1>4. IsFiniteSet(SA) /\ IsFiniteSet(SB) /\ IsFiniteSet(SC) /\ IsFiniteSet(SD)
  <2>1. IsFiniteSet(SA)
    <3> DEFINE f == [n \in A |-> Signal("markup", k, None, markupWeight * n)]
    <3>1. SA = {f[n] : n \in A}
      OBVIOUS
    <3> HIDE DEF f, SA
    <3> QED  BY <1>1, <3>1, ImageFinite
  <2>2. IsFiniteSet(SB)
    <3> DEFINE f == [w \in B |-> Signal("keyword", k, w, keywordWeight)]
    <3>1. SB = {f[w] : w \in B}
      OBVIOUS
    <3> HIDE DEF f, SB
    <3> QED  BY <1>1, <3>1, ImageFinite
  <2>3. IsFiniteSet(SC)
    <3> DEFINE f == [x \in C |-> Signal("url_in_name", k, None, urlInNameWeight)]
    <3>1. SC = {f[x] : x \in C}
      OBVIOUS
    <3> HIDE DEF f, SC
    <3> QED  BY <1>1, <3>1, ImageFinite
  <2>4. IsFiniteSet(SD)
    <3> DEFINE f == [x \in D |-> Signal("gibberish", k, None, gibberishWeight)]
    <3>1. SD = {f[x] : x \in D}
      OBVIOUS
    <3> HIDE DEF f, SD
    <3> QED  BY <1>1, <3>1, ImageFinite
  <2> QED  BY <2>1, <2>2, <2>3, <2>4
<1>5. ASSUME NEW x \in ((SA \cup SB) \cup SC) \cup SD  PROVE x.weight \in Nat
  <2>1. \A n \in A : markupWeight * n \in Nat
    BY <1>2 DEF A, markupWeight, DefaultThreshold
  <2> QED
    BY <2>1, WeightIs DEF keywordWeight, urlInNameWeight, gibberishWeight
<1> HIDE DEF SA, SB, SC, SD
<1>6. IsFiniteSet(((SA \cup SB) \cup SC) \cup SD)
  BY <1>4, FS_Union
<1> QED  BY <1>3, <1>5, <1>6

LEMMA LinkReasonsFinite ==
  ASSUME NEW data, Readable(data)
  PROVE  IsFiniteSet(LinkReasons(data)) /\ \A x \in LinkReasons(data) : x.weight \in Nat
<1> DEFINE A == {Links(data)} \ {0, 1}
<1>1. IsFiniteSet(A)
  <2>1. IsFiniteSet({Links(data)})
    BY FS_Singleton
  <2> QED  BY <2>1, FS_Subset
<1>2. \A n \in A : extraLinkWeight * (n - 1) \in Nat
  BY LinksNat DEF extraLinkWeight
<1> HIDE DEF A
<1> DEFINE f == [n \in A |-> Signal("extra_links", None, None, extraLinkWeight * (n - 1))]
<1>5. {Signal("extra_links", None, None, extraLinkWeight * (n - 1)) : n \in A} = {f[n] : n \in A}
  OBVIOUS
<1>6. IsFiniteSet({f[n] : n \in A})
  <2> HIDE DEF f
  <2> QED  BY <1>1, ImageFinite
<1>3. IsFiniteSet({Signal("extra_links", None, None, extraLinkWeight * (n - 1)) : n \in A})
  BY <1>5, <1>6
<1>4. \A x \in {Signal("extra_links", None, None, extraLinkWeight * (n - 1)) : n \in A} : x.weight \in Nat
  BY <1>2, WeightIs
<1> QED  BY <1>3, <1>4 DEF LinkReasons, A

LEMMA DetailFinite ==
  ASSUME NEW data, NEW extra, Readable(data)
  PROVE  IsFiniteSet(DetailWith(data, extra)) /\ \A x \in DetailWith(data, extra) : x.weight \in Nat
<1> DEFINE F == {Reasons(data, extra, k) : k \in DOMAIN data}
<1>1. \A k \in DOMAIN data : IsFiniteSet(Reasons(data, extra, k))
                             /\ \A x \in Reasons(data, extra, k) : x.weight \in Nat
  BY ReasonsFinite DEF Readable
<1>2. IsFiniteSet(F)
  <2> DEFINE f == [k \in DOMAIN data |-> Reasons(data, extra, k)]
  <2>1. F = {f[k] : k \in DOMAIN data} /\ IsFiniteSet(DOMAIN data)
    BY DEF Readable
  <2> HIDE DEF f, F
  <2> QED  BY <2>1, ImageFinite
<1>3. IsFiniteSet(UNION F) /\ \A x \in UNION F : x.weight \in Nat
  <2>1. IsFiniteSet(UNION F)
    BY <1>1, <1>2, FS_UNION
  <2> QED  BY <1>1, <2>1
<1>4. DetailWith(data, extra) = (UNION F) \cup LinkReasons(data)
  BY DetailIs
<1> HIDE DEF F
<1>5. IsFiniteSet((UNION F) \cup LinkReasons(data))
  BY <1>3, LinkReasonsFinite, FS_Union
<1>6. \A x \in LinkReasons(data) : x.weight \in Nat
  BY LinkReasonsFinite
<1>7. \A x \in (UNION F) \cup LinkReasons(data) : x.weight \in Nat
  BY <1>3, <1>6, Zenon
<1> QED  BY <1>4, <1>5, <1>7, Zenon

LEMMA OneReason ==
  ASSUME NEW x, x.weight \in Nat
  PROVE  Sum({x}) = x.weight /\ Sum({}) = 0
<1>1. IsFiniteSet({x}) /\ \A y \in {x} : y.weight \in Nat
  BY FS_Singleton
<1>2. Sum({}) = 0 /\ Sum({x}) = x.weight + Sum({x} \ {x})
  BY <1>1, SumAdds
<1>3. {x} \ {x} = {}
  OBVIOUS
<1> QED  BY <1>2, <1>3

\* A total is at least each of its weights.
LEMMA SumAtLeast ==
  ASSUME NEW S, IsFiniteSet(S), \A x \in S : x.weight \in Nat, NEW x \in S
  PROVE  Sum(S) >= x.weight
<1>1. IsFiniteSet(S \ {x}) /\ \A y \in S \ {x} : y.weight \in Nat
  BY FS_Subset
<1>2. Sum(S \ {x}) \in Nat
  BY <1>1, SumAdds
<1>3. Sum(S) = x.weight + Sum(S \ {x})
  BY SumAdds
<1> QED  BY <1>2, <1>3

\* What a submission is scored by.
Scored(rs, data, ip, asked, repeated) ==
  DetailWith(data, Keywords(rs))
    \cup {Signal("repeat_ip", None, ip, ClampThreshold(asked)) : x \in {repeated} \cap {TRUE}}

LEMMA DecideExplained ==
  ASSUME NEW rs, NEW data, NEW ip, NEW asked \in Int, NEW repeated,
         NEW v \in Decide(rs, data, ip, asked, repeated)
  PROVE  Explained(v)
<1> DEFINE t == ClampThreshold(asked)
           sc == Scored(rs, data, ip, asked, repeated)
<1>1. t \in Nat \ {0} /\ t \in MinThreshold..MaxThreshold
  BY ClampFits DEF MinThreshold, MaxThreshold
<1> HIDE DEF t, sc
<1>2. CASE v = Verdict(Sum(sc) >= t, sc, t, None)
  <2>1. /\ v.hold = (Sum(sc) >= t) /\ v.score = Sum(sc) /\ v.signals = sc /\ v.threshold = t
    BY <1>2, Zenon DEF Verdict
  <2>2. v.hold <=> v.score >= v.threshold
    BY <2>1, Zenon
  <2> QED  BY <1>1, <2>1, <2>2, Zenon DEF Explained
<1>3. CASE \E i \in Match(rs, data, ip) : v = Verdict(FALSE, {}, t, i)
  <2>1. PICK i : v = Verdict(FALSE, {}, t, i)
    BY <1>3
  <2>2. v.hold = FALSE /\ v.score = Sum({}) /\ v.signals = {} /\ v.threshold = t
    BY <2>1, Zenon DEF Verdict
  <2>3. Sum({}) = 0
    BY FS_EmptySet, SumAdds
  <2>4. ~ (v.score >= v.threshold)
    BY <1>1, <2>2, <2>3
  <2> QED  BY <1>1, <2>2, <2>4, Zenon DEF Explained
<1>4. CASE \E i \in Match(rs, data, ip) :
             v = Verdict(TRUE, {Signal("rule", None, rs[i].value.what, t)}, t, i)
  <2>1. PICK i : v = Verdict(TRUE, {Signal("rule", None, rs[i].value.what, t)}, t, i)
    BY <1>4
  <2> DEFINE x == Signal("rule", None, rs[i].value.what, t)
  <2>2. x.weight = t
    BY WeightIs
  <2>3. v.hold = TRUE /\ v.score = Sum({x}) /\ v.signals = {x} /\ v.threshold = t
    BY <2>1, Zenon DEF Verdict
  <2> HIDE DEF x
  <2>4. Sum({x}) = t
    BY <1>1, <2>2, OneReason
  <2>5. v.score >= v.threshold
    BY <1>1, <2>3, <2>4
  <2> QED  BY <1>1, <2>3, <2>5, Zenon DEF Explained
<1>6. \/ v = Verdict(Sum(sc) >= t, sc, t, None)
      \/ \E i \in Match(rs, data, ip) : v = Verdict(FALSE, {}, t, i)
      \/ \E i \in Match(rs, data, ip) :
           v = Verdict(TRUE, {Signal("rule", None, rs[i].value.what, t)}, t, i)
  BY DEF Decide, Scored, t, sc
<1> QED  BY <1>2, <1>3, <1>4, <1>6

\* A repeated submission is held, unless a rule matches.
LEMMA RepeatedHeld ==
  ASSUME NEW rs, NEW data, NEW ip, NEW asked \in Int, None \notin DOMAIN rs, Readable(data),
         NEW v \in Decide(rs, data, ip, asked, TRUE)
  PROVE  v.hold \/ v.matched # None
<1> DEFINE t == ClampThreshold(asked)
           sc == Scored(rs, data, ip, asked, TRUE)
           x == Signal("repeat_ip", None, ip, t)
<1>1. t \in Nat
  BY ClampFits DEF MinThreshold, MaxThreshold
<1>2. None \notin Match(rs, data, ip)
  BY DEF Match, Matching
<1>3. sc = DetailWith(data, Keywords(rs)) \cup {x}
  BY DEF Scored
<1>4. x.weight = t
  BY WeightIs
<1> HIDE DEF t, sc, x
<1>5. CASE v = Verdict(Sum(sc) >= t, sc, t, None)
  <2>1. /\ IsFiniteSet(DetailWith(data, Keywords(rs)))
        /\ \A y \in DetailWith(data, Keywords(rs)) : y.weight \in Nat
    BY DetailFinite
  <2>2. IsFiniteSet(sc) /\ x \in sc /\ \A y \in sc : y.weight \in Nat
    BY <1>1, <1>3, <1>4, <2>1, FS_AddElement
  <2>3. Sum(sc) >= t
    BY <1>4, <2>2, SumAtLeast
  <2>4. v.hold = (Sum(sc) >= t)
    BY <1>5, Zenon DEF Verdict
  <2> QED  BY <2>3, <2>4, Zenon
<1>6. CASE \E i \in Match(rs, data, ip) : v = Verdict(FALSE, {}, t, i)
  <2>1. PICK i \in Match(rs, data, ip) : v = Verdict(FALSE, {}, t, i)
    BY <1>6
  <2>2. v.matched = i
    BY <2>1, Zenon DEF Verdict
  <2> QED  BY <1>2, <2>1, <2>2
<1>7. CASE \E i \in Match(rs, data, ip) :
             v = Verdict(TRUE, {Signal("rule", None, rs[i].value.what, t)}, t, i)
  <2>1. PICK i : v = Verdict(TRUE, {Signal("rule", None, rs[i].value.what, t)}, t, i)
    BY <1>7
  <2> QED  BY <2>1, Zenon DEF Verdict
<1>9. \/ v = Verdict(Sum(sc) >= t, sc, t, None)
      \/ \E i \in Match(rs, data, ip) : v = Verdict(FALSE, {}, t, i)
      \/ \E i \in Match(rs, data, ip) :
           v = Verdict(TRUE, {Signal("rule", None, rs[i].value.what, t)}, t, i)
  BY DEF Decide, Scored, t, sc
<1> QED  BY <1>5, <1>6, <1>7, <1>9

-----------------------------------------------------------------------------
(* Typing                                                                  *)

LEMMA EndedIs ==
  ASSUME NEW s \in Subs, NEW answer \in {"success", "dropped", "refused", "error"}
  PROVE  /\ Request(s, Ended(answer)) /\ Ended(answer).at = answer
         /\ Request(s, NoReq) /\ NoReq.at = "none"
<1>1. DOMAIN <<>> \subseteq RuleIds
  OBVIOUS
<1> QED  BY <1>1 DEF Request, Ended, NoReq, Stages

LEMMA ReqPut ==
  ASSUME ReqType, NEW s \in Subs, NEW r, Request(s, r), req' = [req EXCEPT ![s] = r]
  PROVE  ReqType' /\ req'[s] = r /\ \A x \in Subs : x # s => req'[x] = req[x]
<1>1. DOMAIN req = Subs
  BY DEF ReqType
<1>2. req' = [x \in Subs |-> IF x = s THEN r ELSE req[x]]
  BY <1>1
<1>3. \A x \in Subs : Request(x, req'[x])
  BY <1>2 DEF ReqType
<1>4. req' = [x \in Subs |-> req'[x]]
  BY <1>2
<1> QED  BY <1>2, <1>3, <1>4 DEF ReqType, Request

\* A request with a field changed, one after another.
LEMMA FieldPut ==
  ASSUME NEW at, NEW post, NEW threshold, NEW rs, NEW verdict, NEW x, NEW q,
         q = [at |-> at, post |-> post, threshold |-> threshold, rules |-> rs, verdict |-> verdict]
  PROVE  /\ [q EXCEPT !.at = x]
              = [at |-> x, post |-> post, threshold |-> threshold, rules |-> rs, verdict |-> verdict]
         /\ [q EXCEPT !.post = x]
              = [at |-> at, post |-> x, threshold |-> threshold, rules |-> rs, verdict |-> verdict]
         /\ [q EXCEPT !.threshold = x]
              = [at |-> at, post |-> post, threshold |-> x, rules |-> rs, verdict |-> verdict]
         /\ [q EXCEPT !.rules = x]
              = [at |-> at, post |-> post, threshold |-> threshold, rules |-> x, verdict |-> verdict]
         /\ [q EXCEPT !.verdict = x]
              = [at |-> at, post |-> post, threshold |-> threshold, rules |-> rs, verdict |-> x]
OBVIOUS

\* What each step of a handler makes of its request.
LEMMA ReceiveIs ==
  ASSUME TypeOK, NEW s \in Subs, Receive(s)
  PROVE  /\ ReqType' /\ req'[s].at = "form" /\ \A x \in Subs : x # s => req'[x] = req[x]
         /\ req'[s].threshold \in Int
<1>1. PICK post \in Posted[s].posts :
        req' = [req EXCEPT ![s] = [NoReq EXCEPT !.at = "form", !.post = post,
                     !.threshold = EffectiveThreshold(form[Posted[s].form], instance)]]
  BY DEF Receive
<1> DEFINE t == EffectiveThreshold(form[Posted[s].form], instance)
           r == [NoReq EXCEPT !.at = "form", !.post = post, !.threshold = t]
<1>2. t \in Int
  <2>1. Posted[s].form \in Forms
    BY DataAssumption
  <2> QED  BY <2>1, ThresholdsInt DEF TypeOK, FormType
<1> HIDE DEF t
<1>3. r = [at |-> "form", post |-> post, threshold |-> t, rules |-> <<>>, verdict |-> NoVerdict]
  <2> DEFINE a == [at |-> "form", post |-> None, threshold |-> 0, rules |-> <<>>, verdict |-> NoVerdict]
             b == [at |-> "form", post |-> post, threshold |-> 0, rules |-> <<>>, verdict |-> NoVerdict]
  <2>1. [NoReq EXCEPT !.at = "form"] = a
    BY FieldPut DEF NoReq
  <2>2. [a EXCEPT !.post = post] = b
    BY FieldPut
  <2>3. r = [b EXCEPT !.threshold = t]
    BY <2>1, <2>2
  <2> QED  BY <2>3
<1>4. Request(s, r) /\ r.at = "form" /\ r.threshold \in Int
  <2>1. DOMAIN <<>> \subseteq RuleIds
    OBVIOUS
  <2> QED  BY <1>2, <1>3, <2>1 DEF Request, Stages
<1>5. req' = [req EXCEPT ![s] = r]
  BY <1>1 DEF t
<1> HIDE DEF r
<1>6. ReqType
  BY DEF TypeOK
<1> QED  BY <1>4, <1>5, <1>6, ReqPut

LEMMA ListIs ==
  ASSUME TypeOK, NEW s \in Subs, ListFilterRules(s)
  PROVE  /\ ReqType' /\ req'[s].at \in {"dropped", "refused", "rules"}
         /\ \A x \in Subs : x # s => req'[x] = req[x]
<1>1. ReqType /\ Request(s, req[s]) /\ req[s].at = "form"
  BY DEF TypeOK, ReqType, ListFilterRules
<1>2. CASE \E a \in {"dropped", "refused"} : req' = [req EXCEPT ![s] = Ended(a)]
  <2>1. PICK a \in {"dropped", "refused"} : req' = [req EXCEPT ![s] = Ended(a)]
    BY <1>2
  <2>2. Request(s, Ended(a)) /\ Ended(a).at = a
    BY EndedIs
  <2> QED  BY <1>1, <2>1, <2>2, ReqPut
<1>3. CASE \E rs \in {Listed, <<>>} : req' = [req EXCEPT ![s].at = "rules", ![s].rules = rs]
  <2>1. PICK rs \in {Listed, <<>>} : req' = [req EXCEPT ![s].at = "rules", ![s].rules = rs]
    BY <1>3
  <2> DEFINE q == req[s]
             r == [q EXCEPT !.at = "rules", !.rules = rs]
  <2>2. r = [at |-> "rules", post |-> q.post, threshold |-> q.threshold, rules |-> rs,
             verdict |-> q.verdict]
    <3> DEFINE a == [at |-> "rules", post |-> q.post, threshold |-> q.threshold,
                     rules |-> q.rules, verdict |-> q.verdict]
    <3>1. [q EXCEPT !.at = "rules"] = a
      BY <1>1, FieldPut DEF Request
    <3>2. r = [a EXCEPT !.rules = rs]
      BY <3>1
    <3> QED  BY <3>2
  <2>3. DOMAIN rs \subseteq RuleIds
    BY DEF Listed
  <2>4. Request(s, r) /\ r.at = "rules"
    BY <1>1, <2>2, <2>3 DEF Request, Stages
  <2>5. req' = [req EXCEPT ![s] = r]
    BY <2>1
  <2> HIDE DEF r
  <2> QED  BY <1>1, <2>4, <2>5, ReqPut
<1> QED  BY <1>2, <1>3 DEF ListFilterRules

LEMMA ScreenedIs ==
  ASSUME TypeOK, NEW s \in Subs, Screened(s)
  PROVE  /\ ReqType' /\ req[s].at = "rules" /\ req'[s].at = "verdict"
         /\ \A x \in Subs : x # s => req'[x] = req[x]
         /\ Explained(req'[s].verdict)
         /\ tally' = Seen(tally, Pair(s)) /\ decided' = Append(decided, s)
         /\ Repeated(tally', Pair(s)) = TRUE =>
              req'[s].verdict.hold \/ req'[s].verdict.matched # None
<1>1. ReqType /\ Request(s, req[s]) /\ req[s].at = "rules"
  BY DEF TypeOK, ReqType, Screened
<1> DEFINE q == req[s]
           rep == Repeated(Seen(tally, Pair(s)), Pair(s))
<1>2. PICK v \in Decide(q.rules, q.post.data, Posted[s].ip, q.threshold, rep) :
        req' = [req EXCEPT ![s].at = "verdict", ![s].verdict = v, ![s].rules = <<>>, ![s].post = None]
  BY DEF Screened
<1> DEFINE r == [q EXCEPT !.at = "verdict", !.verdict = v, !.rules = <<>>, !.post = None]
<1>3. r = [at |-> "verdict", post |-> None, threshold |-> q.threshold, rules |-> <<>>, verdict |-> v]
  <2> DEFINE a == [at |-> "verdict", post |-> q.post, threshold |-> q.threshold,
                   rules |-> q.rules, verdict |-> q.verdict]
             b == [at |-> "verdict", post |-> q.post, threshold |-> q.threshold,
                   rules |-> q.rules, verdict |-> v]
             c == [at |-> "verdict", post |-> q.post, threshold |-> q.threshold,
                   rules |-> <<>>, verdict |-> v]
  <2>1. [q EXCEPT !.at = "verdict"] = a
    BY <1>1, FieldPut DEF Request
  <2>2. [a EXCEPT !.verdict = v] = b
    OBVIOUS
  <2>3. [b EXCEPT !.rules = <<>>] = c
    OBVIOUS
  <2>4. r = [[[a EXCEPT !.verdict = v] EXCEPT !.rules = <<>>] EXCEPT !.post = None]
    BY <2>1
  <2>5. r = [c EXCEPT !.post = None]
    BY <2>2, <2>3, <2>4
  <2> QED  BY <2>5
<1>4. Request(s, r) /\ r.at = "verdict" /\ r.verdict = v
  <2>1. DOMAIN <<>> \subseteq RuleIds
    OBVIOUS
  <2> QED  BY <1>1, <1>3, <2>1 DEF Request, Stages
<1>5. req' = [req EXCEPT ![s] = r]
  BY <1>2
<1>6. Explained(v)
  BY <1>1, <1>2, DecideExplained DEF Request
<1>7. rep = TRUE => v.hold \/ v.matched # None
  <2> SUFFICES ASSUME rep = TRUE  PROVE v.hold \/ v.matched # None
    OBVIOUS
  <2> HIDE DEF rep, q
  <2>1. v \in Decide(q.rules, q.post.data, Posted[s].ip, q.threshold, TRUE)
    BY <1>2
  <2>2. None \notin DOMAIN q.rules /\ q.threshold \in Int /\ q.post \in Posted[s].posts
    BY <1>1, RuleAssumption DEF q, Request
  <2>3. Readable(q.post.data)
    BY <2>2, DataAssumption
  <2> QED  BY <2>1, <2>2, <2>3, RepeatedHeld
<1> HIDE DEF r
<1>8. ReqType' /\ req'[s] = r /\ \A x \in Subs : x # s => req'[x] = req[x]
  BY <1>1, <1>4, <1>5, ReqPut
<1>9. tally' = Seen(tally, Pair(s)) /\ decided' = Append(decided, s)
  BY DEF Screened
<1>10. Repeated(tally', Pair(s)) = rep
  BY <1>9
<1> HIDE DEF rep
<1> QED  BY <1>1, <1>4, <1>6, <1>7, <1>8, <1>9, <1>10

LEMMA CountIs ==
  ASSUME TypeOK, NEW s \in Subs, CountRuleHit(s)
  PROVE  /\ ReqType' /\ req[s].at = "verdict" /\ req'[s].at = "counted"
         /\ \A x \in Subs : x # s => req'[x] = req[x]
         /\ req'[s].verdict = req[s].verdict
<1>1. ReqType /\ Request(s, req[s]) /\ req[s].at = "verdict" /\ req' = [req EXCEPT ![s].at = "counted"]
  BY DEF TypeOK, ReqType, CountRuleHit
<1> DEFINE q == req[s]
           r == [q EXCEPT !.at = "counted"]
<1>2. r = [at |-> "counted", post |-> q.post, threshold |-> q.threshold, rules |-> q.rules,
           verdict |-> q.verdict]
  BY <1>1 DEF Request
<1>3. Request(s, r) /\ r.at = "counted" /\ r.verdict = req[s].verdict
  BY <1>1, <1>2 DEF Request, Stages
<1>4. req' = [req EXCEPT ![s] = r]
  BY <1>1
<1> HIDE DEF r
<1> QED  BY <1>1, <1>3, <1>4, ReqPut

LEMMA EndIs ==
  ASSUME TypeOK, NEW s \in Subs, NEW answer \in {"success", "error"},
         req' = [req EXCEPT ![s] = Ended(answer)]
  PROVE  /\ ReqType' /\ req'[s].at = answer
         /\ \A x \in Subs : x # s => req'[x] = req[x]
<1>1. Request(s, Ended(answer)) /\ Ended(answer).at = answer /\ ReqType
  BY EndedIs DEF TypeOK
<1> QED  BY <1>1, ReqPut

LEMMA RestartIs ==
  ASSUME TypeOK, NEW t, Restart(t)
  PROVE  /\ ReqType'
         /\ \A x \in Subs : IF x \in Busy THEN req'[x].at = "error" ELSE req'[x] = req[x]
<1>1. req' = [s \in Subs |-> IF s \in Busy THEN Ended("error") ELSE req[s]] /\ ReqType
  BY DEF TypeOK, Restart
<1>2. ASSUME NEW s \in Subs  PROVE Request(s, Ended("error")) /\ Ended("error").at = "error"
  BY EndedIs
<1>3. \A s \in Subs : Request(s, req'[s])
  BY <1>1, <1>2 DEF ReqType
<1>4. req' = [s \in Subs |-> req'[s]]
  BY <1>1
<1> QED  BY <1>1, <1>2, <1>3, <1>4 DEF ReqType, Request

-----------------------------------------------------------------------------
(* The repeat tally                                                        *)

LEMMA Push ==
  ASSUME NEW o, NEW K, Lists(o, K), NEW p, p \notin K
  PROVE  Lists(Append(o, p), K \cup {p})
<1>1. o \in Seq(K) /\ o \in Seq(K \cup {p}) /\ Len(o) \in Nat
  BY SeqMonotonic, LenProperties DEF Lists
<1> DEFINE a == Append(o, p)
<1>2. /\ a \in Seq(K \cup {p}) /\ Len(a) = Len(o) + 1 /\ a[Len(o) + 1] = p
      /\ \A n \in 1..Len(o) : a[n] = o[n]
  BY <1>1, AppendProperties
<1> HIDE DEF a
<1>3. \A n \in 1..Len(o) : o[n] # p
  BY <1>1, ElementOfSeq
<1>4. ASSUME NEW q \in K \cup {p}  PROVE \E n \in 1..Len(a) : a[n] = q
  <2>1. CASE q = p
    BY <1>1, <1>2, <2>1
  <2>2. CASE q \in K
    <3>1. PICK n \in 1..Len(o) : o[n] = q
      BY <2>2 DEF Lists
    <3> QED  BY <1>1, <1>2, <3>1
  <2> QED  BY <2>1, <2>2
<1>5. ASSUME NEW n \in 1..Len(a), NEW m \in 1..Len(a), n # m  PROVE a[n] # a[m]
  <2>1. CASE n \in 1..Len(o) /\ m \in 1..Len(o)
    BY <1>2, <1>5, <2>1 DEF Lists
  <2>2. CASE n = Len(o) + 1
    BY <1>1, <1>2, <1>3, <1>5, <2>2
  <2>3. CASE m = Len(o) + 1
    BY <1>1, <1>2, <1>3, <1>5, <2>3
  <2> QED  BY <1>1, <1>2, <2>1, <2>2, <2>3
<1>6. Lists(a, K \cup {p})
  BY <1>2, <1>4, <1>5 DEF Lists
<1> QED  BY <1>6 DEF a

LEMMA Pop ==
  ASSUME NEW o, NEW K, Lists(o, K), K # {}
  PROVE  Head(o) \in K /\ Lists(Tail(o), K \ {Head(o)})
<1>1. o \in Seq(K) /\ Len(o) \in Nat
  BY LenProperties DEF Lists
<1>2. PICK n \in 1..Len(o) : TRUE
  BY DEF Lists
<1>3. o # <<>>
  BY <1>2, EmptySeq
<1> DEFINE t == Tail(o)
           h == Head(o)
<1>4. /\ h \in K /\ t \in Seq(K) /\ Len(t) = Len(o) - 1 /\ h = o[1]
      /\ \A i \in 1..Len(t) : t[i] = o[i + 1]
  BY <1>1, <1>3, HeadTailProperties
<1> HIDE DEF t, h
<1>5. \A i \in 1..Len(t) : t[i] \in K \ {h}
  <2>1. ASSUME NEW i \in 1..Len(t)  PROVE t[i] \in K /\ t[i] # o[1]
    <3>1. i + 1 \in 1..Len(o) /\ 1 \in 1..Len(o) /\ i + 1 # 1
      BY <1>1, <1>4
    <3>2. o[i + 1] # o[1]
      BY <3>1, Zenon DEF Lists
    <3>3. t[i] \in K
      BY <1>4, ElementOfSeq
    <3> QED  BY <1>4, <3>2, <3>3
  <2> QED  BY <1>4, <2>1
<1>6. t \in Seq(K \ {h})
  <2>1. t \in [1..Len(t) -> K] /\ Len(t) \in Nat
    BY <1>4, LenProperties
  <2>2. t \in [1..Len(t) -> K \ {h}]
    BY <1>5, <2>1
  <2> QED  BY <2>1, <2>2, SeqDef
<1>7. ASSUME NEW q \in K \ {h}  PROVE \E i \in 1..Len(t) : t[i] = q
  <2>1. PICK m \in 1..Len(o) : o[m] = q
    BY DEF Lists
  <2>2. m # 1
    BY <1>4, <2>1
  <2>3. m - 1 \in 1..Len(t) /\ (m - 1) + 1 = m
    BY <1>1, <1>4, <2>1, <2>2
  <2> QED  BY <1>4, <2>1, <2>3
<1>8. ASSUME NEW i \in 1..Len(t), NEW j \in 1..Len(t), i # j  PROVE t[i] # t[j]
  <2>1. i + 1 \in 1..Len(o) /\ j + 1 \in 1..Len(o) /\ i + 1 # j + 1
    BY <1>1, <1>4, <1>8
  <2>2. o[i + 1] # o[j + 1]
    BY <2>1, Zenon DEF Lists
  <2> QED  BY <1>4, <2>2
<1>9. Lists(t, K \ {h})
  BY <1>6, <1>7, <1>8 DEF Lists
<1> QED  BY <1>4, <1>9 DEF t, h

\* One more of a pair that is tracked, of a new one, and of one that takes
\* the place of the oldest.
LEMMA SeenIs ==
  ASSUME TallyType, OrderInv, NEW s \in Subs, tally' = Seen(tally, Pair(s)),
         decided' = Append(decided, s)
  PROVE  /\ TallyType' /\ OrderInv'
         /\ Pair(s) \in Tracked(tally) =>
              /\ Tracked(tally') = Tracked(tally)
              /\ tally'.counts = [tally.counts EXCEPT ![Pair(s)] = @ + 1]
         /\ Pair(s) \notin Tracked(tally) /\ Cardinality(Tracked(tally)) < maxTracked =>
              /\ Tracked(tally') = Tracked(tally) \cup {Pair(s)}
              /\ \A q \in Tracked(tally') :
                   tally'.counts[q] = IF q = Pair(s) THEN 1 ELSE tally.counts[q]
<1> DEFINE p == Pair(s)
           T == Tracked(tally)
           full == Cardinality(T) >= maxTracked
           keep == IF full THEN T \ {Head(tally.order)} ELSE T
           rest == IF full THEN Tail(tally.order) ELSE tally.order
           c == [q \in keep \cup {p} |-> IF q = p THEN 1 ELSE tally.counts[q]]
<1>1. /\ p \in {Pair(x) : x \in Subs} /\ T \subseteq {Pair(x) : x \in Subs}
      /\ tally.counts \in [T -> Nat] /\ tally = [counts |-> tally.counts, order |-> tally.order]
      /\ IsFiniteSet(T) /\ Cardinality(T) <= maxTracked /\ Lists(tally.order, T)
      /\ maxTracked \in Nat \ {0} /\ Cardinality(T) \in Nat
  BY ScreenAssumption, FS_CardinalityType DEF TallyType, OrderInv
<1>2. decided' \in Seq(Subs)
  BY AppendProperties DEF TallyType
<1>3. CASE p \in T
  <2>1. tally' = [tally EXCEPT !.counts[p] = @ + 1]
    BY <1>3 DEF Seen
  <2>2. tally'.counts = [tally.counts EXCEPT ![p] = @ + 1] /\ tally'.order = tally.order
        /\ tally' = [counts |-> tally'.counts, order |-> tally'.order]
    BY <1>1, <2>1
  <2>3. Tracked(tally') = T /\ tally'.counts \in [T -> Nat]
    BY <1>1, <1>3, <2>2 DEF Tracked
  <2>4. TallyType'
    BY <1>1, <1>2, <2>2, <2>3 DEF TallyType, Lists, Tracked
  <2>5. OrderInv'
    BY <1>1, <2>2, <2>3 DEF OrderInv, Tracked
  <2> QED  BY <1>3, <2>2, <2>3, <2>4, <2>5
<1>4. CASE p \notin T
  <2>1. tally' = [counts |-> c, order |-> Append(rest, p)]
    BY <1>4 DEF Seen
  <2>2. tally'.counts = c /\ tally'.order = Append(rest, p) /\ DOMAIN c = keep \cup {p}
    BY <2>1
  <2>3. /\ Lists(rest, keep) /\ keep \subseteq T /\ IsFiniteSet(keep)
        /\ Cardinality(keep) + 1 <= maxTracked /\ Cardinality(keep) \in Nat
    <3>1. CASE full
      <4>1. T # {}
        BY <1>1, <3>1, FS_EmptySet
      <4>2. Head(tally.order) \in T /\ Lists(Tail(tally.order), T \ {Head(tally.order)})
        BY <1>1, <4>1, Pop
      <4>3. IsFiniteSet(T \ {Head(tally.order)})
            /\ Cardinality(T \ {Head(tally.order)}) = Cardinality(T) - 1
        BY <1>1, <4>2, FS_RemoveElement
      <4> QED  BY <1>1, <3>1, <4>2, <4>3, FS_CardinalityType
    <3>2. CASE ~full
      BY <1>1, <3>2
    <3> QED  BY <3>1, <3>2
  <2>4. p \notin keep
    BY <1>4, <2>3
  <2> HIDE DEF keep, rest
  <2>5. Lists(Append(rest, p), keep \cup {p})
    BY <2>3, <2>4, Push
  <2>6. IsFiniteSet(keep \cup {p}) /\ Cardinality(keep \cup {p}) = Cardinality(keep) + 1
    BY <2>3, <2>4, FS_AddElement
  <2>7. c \in [keep \cup {p} -> Nat]
    BY <1>1, <2>3
  <2> HIDE DEF c
  <2>8. Tracked(tally') = keep \cup {p}
    BY <2>2 DEF Tracked
  <2>9. TallyType'
    <3>1. tally' = [counts |-> tally'.counts, order |-> tally'.order]
      BY <2>1, <2>2
    <3>2. tally'.order \in Seq(keep \cup {p}) /\ tally'.counts \in [keep \cup {p} -> Nat]
      BY <2>2, <2>5, <2>7 DEF Lists
    <3> QED  BY <1>1, <1>2, <2>3, <2>8, <3>1, <3>2 DEF TallyType, Tracked
  <2>10. OrderInv'
    BY <2>2, <2>3, <2>5, <2>6, <2>8 DEF OrderInv, Tracked
  <2>11. ~full => keep = T
    BY DEF keep
  <2>12. \A q \in keep \cup {p} : c[q] = IF q = p THEN 1 ELSE tally.counts[q]
    BY DEF c
  <2> QED  BY <1>1, <1>4, <2>2, <2>8, <2>9, <2>10, <2>11, <2>12
<1> QED  BY <1>3, <1>4

-----------------------------------------------------------------------------
(* Every step keeps the types and the limiter's account                    *)

LEMMA LimiterStep ==
  ASSUME TypeOK, CreditInv, [Next]_vars
  PROVE  LimiterTypeOK' /\ CreditInv'
<1> USE DEF TypeOK
<1>1. ASSUME UNCHANGED limiterVars  PROVE LimiterTypeOK' /\ CreditInv'
  BY <1>1, LimiterStays
<1>2. CASE Operator
  <2>1. ASSUME NEW f, NEW t, UpdateForm(f, t)  PROVE UNCHANGED limiterVars
    BY <2>1 DEF UpdateForm
  <2>2. ASSUME NEW i, DeleteFilterRule(i)  PROVE UNCHANGED limiterVars
    BY <2>2 DEF DeleteFilterRule
  <2>3. ASSUME NEW i, NEW o, AddFilterRule(i, o)  PROVE UNCHANGED limiterVars
    BY <2>3 DEF AddFilterRule
  <2>4. ASSUME NEW t, Restart(t)  PROVE LimiterTypeOK' /\ CreditInv'
    BY <2>4, ForgetStep DEF Restart
  <2> QED  BY <1>1, <1>2, <2>1, <2>2, <2>3, <2>4 DEF Operator
<1>3. CASE Clock
  BY <1>3, TickStep, CleanupStep DEF Clock
<1>4. ASSUME NEW s \in Subs, Handle(s)  PROVE LimiterTypeOK' /\ CreditInv'
  <2>1. Posted[s].ip \in Ips
    BY DataAssumption
  <2>2. CASE Receive(s)
    BY <2>1, <2>2, AllowStep DEF Receive
  <2>3. CASE TooMany(s)
    BY <2>1, <2>3, ThrottleStep DEF TooMany
  <2>4. CASE ListFilterRules(s) \/ Screened(s) \/ CountRuleHit(s) \/ Store(s) \/ Fail(s)
    BY <1>1, <2>4 DEF ListFilterRules, Screened, CountRuleHit, Store, Fail
  <2> QED  BY <1>4, <2>2, <2>3, <2>4 DEF Handle
<1>5. CASE UNCHANGED vars
  BY <1>1, <1>5 DEF vars, limiterVars
<1> QED  BY <1>2, <1>3, <1>4, <1>5 DEF Next

LEMMA FormStep ==
  ASSUME TypeOK, [Next]_vars
  PROVE  FormType'
<1> USE DEF TypeOK, FormType
<1>1. CASE Operator
  <2>1. ASSUME NEW f \in Forms, NEW t \in Thresholds, UpdateForm(f, t)  PROVE FormType'
    <3>1. Entered(t) \in Int
      BY ScreenAssumption, ThresholdsInt
    <3> QED  BY <2>1, <3>1 DEF UpdateForm
  <2>2. ASSUME NEW t \in Configured, Restart(t)  PROVE FormType'
    <3>1. ClampThreshold(t) \in Int
      BY ScreenAssumption, ClampFits DEF MinThreshold, MaxThreshold
    <3> QED  BY <2>2, <3>1 DEF Restart
  <2>3. ASSUME NEW i, DeleteFilterRule(i)  PROVE FormType'
    BY <2>3 DEF DeleteFilterRule
  <2>4. ASSUME NEW i, NEW o, AddFilterRule(i, o)  PROVE FormType'
    BY <2>4 DEF AddFilterRule
  <2> QED  BY <1>1, <2>1, <2>2, <2>3, <2>4 DEF Operator
<1>2. CASE Clock
  BY <1>2 DEF Clock, screenVars
<1>3. ASSUME NEW s \in Subs, Handle(s)  PROVE FormType'
  BY <1>3 DEF Handle, Receive, TooMany, ListFilterRules, Screened, CountRuleHit, Store, Fail
<1>4. CASE UNCHANGED vars
  BY <1>4 DEF vars
<1> QED  BY <1>1, <1>2, <1>3, <1>4 DEF Next

LEMMA RuleStep ==
  ASSUME TypeOK, [Next]_vars
  PROVE  RuleType'
<1>0. RuleType
  BY DEF TypeOK
<1>1. ASSUME UNCHANGED <<rules, hits>>  PROVE RuleType'
  BY <1>0, <1>1 DEF RuleType
<1>2. CASE Operator
  <2>1. ASSUME NEW f, NEW t, UpdateForm(f, t)  PROVE RuleType'
    BY <1>1, <2>1 DEF UpdateForm
  <2>2. ASSUME NEW t, Restart(t)  PROVE RuleType'
    BY <1>1, <2>2 DEF Restart
  <2>3. ASSUME NEW i \in RuleIds, DeleteFilterRule(i)  PROVE RuleType'
    <3>1. rules' = [rules EXCEPT ![i] = Gone] /\ hits' = [hits EXCEPT ![i] = 0] /\ Gone.kind = "gone"
      BY <2>3 DEF DeleteFilterRule, Gone, Rule
    <3> HIDE DEF Gone
    <3> QED  BY <1>0, <3>1 DEF RuleType
  <2>4. ASSUME NEW i \in RuleIds, NEW o \in Offers, AddFilterRule(i, o)  PROVE RuleType'
    <3> DEFINE r == Rule(o.kind, o.type, Validate(o.type, o.value))
    <3>1. rules' = [rules EXCEPT ![i] = r] /\ hits' = hits /\ r.kind \in {"allow", "block"}
      BY <2>4, RuleAssumption DEF AddFilterRule, Rule
    <3> HIDE DEF r
    <3> QED  BY <1>0, <3>1 DEF RuleType
  <2> QED  BY <1>2, <2>1, <2>2, <2>3, <2>4 DEF Operator
<1>3. CASE Clock
  BY <1>1, <1>3 DEF Clock, screenVars
<1>4. ASSUME NEW s \in Subs, Handle(s)  PROVE RuleType'
  <2>1. CASE CountRuleHit(s)
    <3> DEFINE i == req[s].verdict.matched
    <3>1. /\ rules' = rules
          /\ \/ hits' = hits
             \/ \E j \in {i} \cap DOMAIN Listed : hits' = [hits EXCEPT ![j] = @ + 1]
      BY <2>1 DEF CountRuleHit
    <3>2. DOMAIN Listed \subseteq RuleIds
      BY DEF Listed
    <3> HIDE DEF i
    <3> QED  BY <1>0, <3>1, <3>2 DEF RuleType
  <2>2. CASE ~CountRuleHit(s)
    BY <1>1, <1>4, <2>2 DEF Handle, Receive, TooMany, ListFilterRules, Screened, Store, Fail
  <2> QED  BY <2>1, <2>2
<1>5. CASE UNCHANGED vars
  BY <1>1, <1>5 DEF vars
<1> QED  BY <1>2, <1>3, <1>4, <1>5 DEF Next

LEMMA EmptyTally ==
  /\ Tracked(NewTally) = {} /\ NewTally.counts \in [{} -> Nat] /\ NewTally.order = <<>>
  /\ NewTally = [counts |-> NewTally.counts, order |-> NewTally.order]
  /\ <<>> \in Seq({}) /\ <<>> \in Seq(Subs) /\ Lists(<<>>, {}) /\ DOMAIN <<>> = {}
  /\ IsFiniteSet({}) /\ Cardinality({}) = 0 /\ 0 <= maxTracked
<1>1. NewTally.counts = <<>> /\ NewTally.order = <<>>
  BY DEF NewTally
<1>2. NewTally = [counts |-> NewTally.counts, order |-> NewTally.order]
  BY DEF NewTally
<1>3. /\ <<>> \in Seq({}) /\ <<>> \in Seq(Subs) /\ Len(<<>>) = 0 /\ <<>> \in [{} -> Nat]
      /\ IsFiniteSet({}) /\ Cardinality({}) = 0 /\ DOMAIN <<>> = {}
  BY FS_EmptySet, EmptySeq
<1>4. Lists(<<>>, {})
  BY <1>3 DEF Lists
<1> QED  BY <1>1, <1>2, <1>3, <1>4, ScreenAssumption DEF Tracked

LEMMA TallyStep ==
  ASSUME TypeOK, OrderInv, [Next]_vars
  PROVE  TallyType' /\ OrderInv'
<1>0. TallyType
  BY DEF TypeOK
<1>1. ASSUME UNCHANGED <<tally, decided>>  PROVE TallyType' /\ OrderInv'
  BY <1>0, <1>1 DEF TallyType, OrderInv
<1>2. CASE Operator
  <2>1. ASSUME NEW t, Restart(t)  PROVE TallyType' /\ OrderInv'
    <3>1. tally' = NewTally /\ decided' = <<>>
      BY <2>1 DEF Restart
    <3>2. Tracked(tally') = {}
      BY <3>1, EmptyTally
    <3> QED  BY <3>1, <3>2, EmptyTally DEF TallyType, OrderInv, Tracked
  <2>2. ASSUME NEW f, NEW t, UpdateForm(f, t)  PROVE TallyType' /\ OrderInv'
    BY <1>1, <2>2 DEF UpdateForm
  <2>3. ASSUME NEW i, DeleteFilterRule(i)  PROVE TallyType' /\ OrderInv'
    BY <1>1, <2>3 DEF DeleteFilterRule
  <2>4. ASSUME NEW i, NEW o, AddFilterRule(i, o)  PROVE TallyType' /\ OrderInv'
    BY <1>1, <2>4 DEF AddFilterRule
  <2> QED  BY <1>2, <2>1, <2>2, <2>3, <2>4 DEF Operator
<1>3. CASE Clock
  BY <1>1, <1>3 DEF Clock, screenVars
<1>4. ASSUME NEW s \in Subs, Handle(s)  PROVE TallyType' /\ OrderInv'
  <2>1. CASE Screened(s)
    BY <1>0, <2>1, SeenIs DEF Screened
  <2>2. CASE ~Screened(s)
    BY <1>1, <1>4, <2>2 DEF Handle, Receive, TooMany, ListFilterRules, CountRuleHit, Store, Fail
  <2> QED  BY <2>1, <2>2
<1>5. CASE UNCHANGED vars
  BY <1>1, <1>5 DEF vars
<1> QED  BY <1>2, <1>3, <1>4, <1>5 DEF Next

\* The steps that touch a submission.
LEMMA StepIs ==
  ASSUME [Next]_vars
  PROVE  \/ UNCHANGED <<tally, decided, req, row>>
         \/ \E t \in Configured : Restart(t)
         \/ \E s \in Subs : \/ Receive(s) \/ ListFilterRules(s) \/ Screened(s) \/ CountRuleHit(s)
                            \/ Store(s) \/ Fail(s)
<1>1. CASE Operator
  <2>1. ASSUME NEW f, NEW t, UpdateForm(f, t)  PROVE UNCHANGED <<tally, decided, req, row>>
    BY <2>1 DEF UpdateForm
  <2>2. ASSUME NEW i, DeleteFilterRule(i)  PROVE UNCHANGED <<tally, decided, req, row>>
    BY <2>2 DEF DeleteFilterRule
  <2>3. ASSUME NEW i, NEW o, AddFilterRule(i, o)  PROVE UNCHANGED <<tally, decided, req, row>>
    BY <2>3 DEF AddFilterRule
  <2> QED  BY <1>1, <2>1, <2>2, <2>3 DEF Operator
<1>2. CASE Clock
  BY <1>2 DEF Clock, screenVars
<1>3. ASSUME NEW s \in Subs, Handle(s)
      PROVE  \/ UNCHANGED <<tally, decided, req, row>>
             \/ Receive(s) \/ ListFilterRules(s) \/ Screened(s)
             \/ CountRuleHit(s) \/ Store(s) \/ Fail(s)
  <2>1. ASSUME TooMany(s)  PROVE UNCHANGED <<tally, decided, req, row>>
    BY <2>1 DEF TooMany
  <2> QED  BY <1>3, <2>1 DEF Handle
<1>4. CASE UNCHANGED vars
  BY <1>4 DEF vars
<1> QED  BY <1>1, <1>2, <1>3, <1>4 DEF Next

LEMMA ReqStep ==
  ASSUME TypeOK, VerdictInv, [Next]_vars
  PROVE  ReqType' /\ VerdictInv'
<1>0. ReqType
  BY DEF TypeOK
<1>1. CASE UNCHANGED <<tally, decided, req, row>>
  BY <1>0, <1>1 DEF ReqType, Request, VerdictInv
<1>2. ASSUME NEW t, Restart(t)  PROVE ReqType' /\ VerdictInv'
  BY <1>2, RestartIs DEF VerdictInv
<1>3. ASSUME NEW s \in Subs, Receive(s)  PROVE ReqType' /\ VerdictInv'
  BY <1>3, ReceiveIs DEF VerdictInv
<1>4. ASSUME NEW s \in Subs, ListFilterRules(s)  PROVE ReqType' /\ VerdictInv'
  BY <1>4, ListIs DEF VerdictInv
<1>5. ASSUME NEW s \in Subs, Screened(s)  PROVE ReqType' /\ VerdictInv'
  BY <1>5, ScreenedIs DEF VerdictInv
<1>6. ASSUME NEW s \in Subs, CountRuleHit(s)  PROVE ReqType' /\ VerdictInv'
  BY <1>6, CountIs DEF VerdictInv
<1>7. ASSUME NEW s \in Subs, Store(s)  PROVE ReqType' /\ VerdictInv'
  <2>1. req' = [req EXCEPT ![s] = Ended("success")]
    BY <1>7 DEF Store
  <2> QED  BY <2>1, EndIs DEF VerdictInv
<1>8. ASSUME NEW s \in Subs, Fail(s)  PROVE ReqType' /\ VerdictInv'
  <2>1. req' = [req EXCEPT ![s] = Ended("error")]
    BY <1>8 DEF Fail
  <2> QED  BY <2>1, EndIs DEF VerdictInv
<1> QED  BY <1>1, <1>2, <1>3, <1>4, <1>5, <1>6, <1>7, <1>8, StepIs

LEMMA RowIs ==
  ASSUME NEW s, NEW v
  PROVE  /\ RowOf(s, v).state = (IF v.hold THEN "held" ELSE "inbox")
         /\ RowOf(s, v).score = v.score /\ RowOf(s, v).threshold = v.threshold
         /\ v.hold => RowOf(s, v).signals = v.signals
         /\ ~v.hold /\ v.matched # None => RowOf(s, v).excused
BY DEF RowOf

LEMMA StoreIs ==
  ASSUME TypeOK, NEW s \in Subs, Store(s)
  PROVE  /\ row'[s] = RowOf(s, req[s].verdict) /\ \A x \in Subs : x # s => row'[x] = row[x]
         /\ row' = [x \in Subs |-> row'[x]]
         /\ req[s].at \in {"verdict", "counted"} /\ req'[s].at = "success"
         /\ \A x \in Subs : x # s => req'[x] = req[x]
         /\ UNCHANGED <<tally, decided>>
<1>1. row' = [row EXCEPT ![s] = RowOf(s, req[s].verdict)] /\ row = [x \in Subs |-> row[x]]
  BY DEF Store, TypeOK, RowType
<1>2. req' = [req EXCEPT ![s] = Ended("success")]
  BY DEF Store
<1>3. req'[s].at = "success" /\ \A x \in Subs : x # s => req'[x] = req[x]
  BY <1>2, EndIs
<1>4. req[s].at \in {"verdict", "counted"} /\ UNCHANGED <<tally, decided>>
  BY DEF Store, Counted
<1>5. row'[s] = RowOf(s, req[s].verdict) /\ \A x \in Subs : x # s => row'[x] = row[x]
  BY <1>1
<1>6. row' = [x \in Subs |-> row'[x]]
  BY <1>1
<1> QED  BY <1>3, <1>4, <1>5, <1>6

LEMMA RowStep ==
  ASSUME TypeOK, VerdictInv, StoredAddsUp, [Next]_vars
  PROVE  RowType' /\ StoredAddsUp'
<1>0. RowType
  BY DEF TypeOK
<1>1. ASSUME row' = row  PROVE RowType' /\ StoredAddsUp'
  BY <1>0, <1>1 DEF RowType, StoredAddsUp
<1>2. ASSUME NEW s \in Subs, Store(s)  PROVE RowType' /\ StoredAddsUp'
  <2> DEFINE v == req[s].verdict
             r == RowOf(s, v)
  <2>1. /\ row'[s] = r /\ \A x \in Subs : x # s => row'[x] = row[x]
        /\ row' = [x \in Subs |-> row'[x]] /\ Explained(v)
    BY <1>2, StoreIs DEF VerdictInv
  <2>2. /\ r.state \in {"inbox", "held"} /\ (r.state = "held" <=> v.hold)
        /\ r.score = v.score /\ r.threshold = v.threshold /\ (v.hold => r.signals = v.signals)
    BY RowIs
  <2> HIDE DEF r, v
  <2>3. RowType'
    BY <1>0, <2>1, <2>2 DEF RowType
  <2>4. /\ r.threshold \in MinThreshold..MaxThreshold
        /\ r.state = "held" <=> r.score >= r.threshold
        /\ r.state = "held" => Sum(r.signals) = r.score
    BY <2>1, <2>2 DEF Explained
  <2>5. StoredAddsUp'
    BY <2>1, <2>4 DEF StoredAddsUp
  <2> QED  BY <2>3, <2>5
<1>3. ASSUME NEW t, Restart(t)  PROVE row' = row
  BY <1>3 DEF Restart
<1>4. ASSUME NEW s, Receive(s) \/ ListFilterRules(s) \/ Screened(s) \/ CountRuleHit(s) \/ Fail(s)
      PROVE  row' = row
  BY <1>4 DEF Receive, ListFilterRules, Screened, CountRuleHit, Fail
<1> QED  BY <1>1, <1>2, <1>3, <1>4, StepIs

-----------------------------------------------------------------------------
(* What the tally counts, and what that decides                            *)

LEMMA PairsFinite ==
  ASSUME TallyType
  PROVE  /\ IsFiniteSet(Pairs) /\ Cardinality(Pairs) \in Nat
         /\ \A p : IsFiniteSet(Times(p)) /\ Cardinality(Times(p)) \in Nat
         /\ DOMAIN decided = 1..Len(decided) /\ Len(decided) \in Nat
<1>1. DOMAIN decided = 1..Len(decided) /\ Len(decided) \in Nat /\ IsFiniteSet(1..Len(decided))
  <2>1. DOMAIN decided = 1..Len(decided) /\ Len(decided) \in Nat
    BY LenProperties DEF TallyType
  <2> QED  BY <2>1, FS_Interval
<1> DEFINE f == [n \in 1..Len(decided) |-> Pair(decided[n])]
<1>2. Pairs = {f[n] : n \in 1..Len(decided)}
  BY <1>1 DEF Pairs
<1> HIDE DEF f
<1>3. IsFiniteSet(Pairs)
  BY <1>1, <1>2, ImageFinite
<1>4. ASSUME NEW p  PROVE IsFiniteSet(Times(p)) /\ Cardinality(Times(p)) \in Nat
  <2>1. Times(p) \in SUBSET (1..Len(decided))
    BY <1>1 DEF Times
  <2> QED  BY <1>1, <2>1, FS_Subset, FS_CardinalityType
<1> QED  BY <1>1, <1>3, <1>4, FS_CardinalityType

\* The sequence of the decided, with one more.
LEMMA AppendIs ==
  ASSUME TallyType, NEW s \in Subs, decided' = Append(decided, s)
  PROVE  /\ DOMAIN decided' = 1..(Len(decided) + 1)
         /\ decided'[Len(decided) + 1] = s
         /\ \A n \in 1..Len(decided) : decided'[n] = decided[n]
         /\ Pairs' = Pairs \cup {Pair(s)}
         /\ Times(Pair(s))' = Times(Pair(s)) \cup {Len(decided) + 1}
         /\ \A p : p # Pair(s) => Times(p)' = Times(p)
<1>1. DOMAIN decided = 1..Len(decided) /\ Len(decided) \in Nat
  BY PairsFinite
<1>2. /\ decided' \in Seq(Subs) /\ Len(decided') = Len(decided) + 1
      /\ decided'[Len(decided) + 1] = s
      /\ \A n \in 1..Len(decided) : decided'[n] = decided[n]
  BY AppendProperties DEF TallyType
<1>3. DOMAIN decided' = 1..(Len(decided) + 1)
  BY <1>2, LenProperties
<1>4. Pairs' = Pairs \cup {Pair(s)}
  BY <1>1, <1>2, <1>3 DEF Pairs, Pair
<1>5. Times(Pair(s))' = Times(Pair(s)) \cup {Len(decided) + 1}
  BY <1>1, <1>2, <1>3 DEF Times, Pair
<1>6. \A p : p # Pair(s) => Times(p)' = Times(p)
  BY <1>1, <1>2, <1>3 DEF Times, Pair
<1> QED  BY <1>2, <1>3, <1>4, <1>5, <1>6

LEMMA CountAfter ==
  ASSUME TypeOK, OrderInv, CountInv, NEW s \in Subs, Screened(s)
  PROVE  CountInv'
<1> DEFINE p == Pair(s)
           L == Len(decided)
<1>1. tally' = Seen(tally, p) /\ decided' = Append(decided, s) /\ TallyType
  BY DEF Screened, TypeOK
<1>2. /\ Pairs' = Pairs \cup {p}
      /\ Times(p)' = Times(p) \cup {L + 1} /\ \A q : q # p => Times(q)' = Times(q)
  BY <1>1, AppendIs
<1>3. /\ IsFiniteSet(Pairs) /\ Cardinality(Pairs) \in Nat
      /\ IsFiniteSet(Times(p)) /\ Cardinality(Times(p)) \in Nat /\ Times(p) \subseteq 1..L /\ L \in Nat
  BY <1>1, PairsFinite DEF Times
<1>4. Cardinality(Pairs') = IF p \in Pairs THEN Cardinality(Pairs) ELSE Cardinality(Pairs) + 1
  BY <1>2, <1>3, FS_AddElement
<1>5. Cardinality(Times(p)') = Cardinality(Times(p)) + 1
  <2>1. L + 1 \notin Times(p)
    BY <1>3
  <2> QED  BY <1>2, <1>3, <2>1, FS_AddElement
<1>6. SUFFICES ASSUME Cardinality(Pairs') <= maxTracked
               PROVE  /\ Tracked(tally') = Pairs'
                      /\ \A q \in Pairs' : tally'.counts[q] = Cardinality(Times(q)')
  BY DEF CountInv
<1>7. maxTracked \in Nat
  BY ScreenAssumption
<1>8. Tracked(tally) = Pairs /\ \A q \in Pairs : tally.counts[q] = Cardinality(Times(q))
  BY <1>3, <1>4, <1>6, <1>7 DEF CountInv
<1>9. CASE p \in Pairs
  <2>1. /\ Tracked(tally') = Tracked(tally)
        /\ tally'.counts = [tally.counts EXCEPT ![p] = @ + 1] /\ tally.counts \in [Pairs -> Nat]
    BY <1>1, <1>8, <1>9, SeenIs DEF TallyType
  <2>2. Pairs' = Pairs
    BY <1>2, <1>9
  <2>3. ASSUME NEW q \in Pairs  PROVE tally'.counts[q] = Cardinality(Times(q)')
    <3>1. CASE q = p
      BY <1>5, <1>8, <2>1, <3>1
    <3>2. CASE q # p
      <4>1. Times(q)' = Times(q) /\ tally'.counts[q] = tally.counts[q]
        BY <1>2, <2>1, <3>2
      <4> QED  BY <1>8, <4>1
    <3> QED  BY <3>1, <3>2
  <2> QED  BY <1>8, <2>1, <2>2, <2>3
<1>10. CASE p \notin Pairs
  <2>1. Cardinality(Tracked(tally)) < maxTracked
    BY <1>3, <1>4, <1>6, <1>7, <1>8, <1>10
  <2>2. /\ Tracked(tally') = Tracked(tally) \cup {p}
        /\ \A q \in Tracked(tally') : tally'.counts[q] = IF q = p THEN 1 ELSE tally.counts[q]
    BY <1>1, <1>8, <1>10, <2>1, SeenIs
  <2>3. Cardinality(Times(p)) = 0
    <3>1. Times(p) = {}
      BY <1>10 DEF Pairs, Times
    <3> QED  BY <3>1, FS_EmptySet
  <2>4. ASSUME NEW q \in Pairs'  PROVE tally'.counts[q] = Cardinality(Times(q)')
    <3>1. CASE q = p
      <4>1. tally'.counts[q] = 1
        BY <1>2, <1>8, <2>2, <3>1
      <4>2. Cardinality(Times(p)') = 1
        BY <1>5, <2>3
      <4>3. Times(q)' = Times(p)'
        BY <3>1
      <4> QED  BY <4>1, <4>2, <4>3
    <3>2. CASE q # p
      <4>1. Times(q)' = Times(q) /\ q \in Pairs
        BY <1>2, <3>2
      <4>2. tally'.counts[q] = tally.counts[q]
        BY <1>8, <2>2, <3>2, <4>1
      <4> QED  BY <1>8, <4>1, <4>2
    <3> QED  BY <3>1, <3>2
  <2> QED  BY <1>2, <1>8, <2>2, <2>4
<1> QED  BY <1>9, <1>10

LEMMA CountStep ==
  ASSUME TypeOK, OrderInv, CountInv, [Next]_vars
  PROVE  CountInv'
<1>1. ASSUME UNCHANGED <<tally, decided>>  PROVE CountInv'
  BY <1>1 DEF CountInv, Pairs, Times, Tracked
<1>2. ASSUME NEW t, Restart(t)  PROVE CountInv'
  <2>1. tally' = NewTally /\ decided' = <<>>
    BY <1>2 DEF Restart
  <2>2. Tracked(tally') = {}
    BY <2>1, EmptyTally
  <2>3. Pairs' = {}
    BY <2>1, EmptyTally DEF Pairs
  <2> QED  BY <2>2, <2>3 DEF CountInv
<1>3. ASSUME NEW s \in Subs, Screened(s)  PROVE CountInv'
  BY <1>3, CountAfter
<1>4. ASSUME NEW s, Receive(s) \/ ListFilterRules(s) \/ CountRuleHit(s) \/ Store(s) \/ Fail(s)
      PROVE  UNCHANGED <<tally, decided>>
  BY <1>4 DEF Receive, ListFilterRules, CountRuleHit, Store, Fail
<1> QED  BY <1>1, <1>2, <1>3, <1>4, StepIs

LEMMA OnceStep ==
  ASSUME TypeOK, OnceInv, [Next]_vars
  PROVE  OnceInv'
<1>0. /\ DOMAIN decided = 1..Len(decided) /\ Len(decided) \in Nat /\ TallyType
      /\ \A n \in DOMAIN decided : decided[n] \in Subs
  BY PairsFinite, ElementOfSeq DEF TypeOK, TallyType
<1>1. CASE UNCHANGED <<tally, decided, req, row>>
  BY <1>1 DEF OnceInv
<1>2. ASSUME NEW t, Restart(t)  PROVE OnceInv'
  <2>1. row' = row /\ decided' = <<>>
    BY <1>2 DEF Restart
  <2>2. \A x \in Subs : IF x \in Busy THEN req'[x].at = "error" ELSE req'[x] = req[x]
    BY <1>2, RestartIs
  <2>3. \A x \in Subs : row[x].state # "none" => x \notin Busy
    BY DEF OnceInv, Busy
  <2> QED  BY <2>1, <2>2, <2>3, EmptyTally DEF OnceInv
<1>3. ASSUME NEW s \in Subs, Receive(s) \/ ListFilterRules(s)  PROVE OnceInv'
  <2>1. /\ req[s].at \in {"none", "form"} /\ UNCHANGED <<decided, row>>
        /\ req'[s].at # "success" /\ \A x \in Subs : x # s => req'[x] = req[x]
    BY <1>3, ReceiveIs, ListIs DEF Receive, ListFilterRules
  <2> QED  BY <2>1 DEF OnceInv
<1>4. ASSUME NEW s \in Subs, Screened(s)  PROVE OnceInv'
  <2>1. /\ req[s].at = "rules" /\ row' = row /\ req'[s].at = "verdict"
        /\ \A x \in Subs : x # s => req'[x] = req[x]
        /\ decided' = Append(decided, s)
    BY <1>4, ScreenedIs DEF Screened
  <2>2. /\ DOMAIN decided' = 1..(Len(decided) + 1)
        /\ decided'[Len(decided) + 1] = s
        /\ \A n \in 1..Len(decided) : decided'[n] = decided[n]
    BY <1>0, <2>1, AppendIs
  <2>3. \A n \in 1..Len(decided) : decided[n] # s
    BY <1>0, <2>1 DEF OnceInv
  <2> QED  BY <1>0, <2>1, <2>2, <2>3 DEF OnceInv
<1>5. ASSUME NEW s \in Subs, CountRuleHit(s) \/ Fail(s)  PROVE OnceInv'
  <2>1. /\ req[s].at # "success" /\ UNCHANGED <<decided, row>>
        /\ req'[s].at \in {"counted", "error"} /\ \A x \in Subs : x # s => req'[x] = req[x]
    <3>1. CASE CountRuleHit(s)
      BY <3>1, CountIs DEF CountRuleHit
    <3>2. CASE Fail(s)
      <4>1. req' = [req EXCEPT ![s] = Ended("error")]
        BY <3>2 DEF Fail
      <4> QED  BY <3>2, <4>1, EndIs DEF Fail, Counted
    <3> QED  BY <1>5, <3>1, <3>2
  <2> QED  BY <2>1 DEF OnceInv
<1>6. ASSUME NEW s \in Subs, Store(s)  PROVE OnceInv'
  BY <1>6, StoreIs DEF OnceInv
<1> QED  BY <1>1, <1>2, <1>3, <1>4, <1>5, <1>6, StepIs

\* Those already decided keep their number; the last one's is the count.
LEMMA NthIs ==
  ASSUME TallyType, NEW s \in Subs, decided' = Append(decided, s), NEW L, L = Len(decided)
  PROVE  /\ \A n \in 1..L : Nth(n)' = Nth(n)
         /\ Nth(L + 1)' = Cardinality(Times(Pair(s)))'
<1>1. /\ DOMAIN decided' = 1..(L + 1) /\ decided'[L + 1] = s
      /\ \A n \in 1..L : decided'[n] = decided[n]
      /\ L \in Nat /\ DOMAIN decided = 1..L
  BY AppendIs, PairsFinite
<1>2. ASSUME NEW n \in 1..L  PROVE Nth(n)' = Nth(n)
  <2>1. \A m \in 1..n : m \in 1..L
    BY <1>1
  <2>2. {m \in 1..n : Pair(decided'[m]) = Pair(decided'[n])}
          = {m \in 1..n : Pair(decided[m]) = Pair(decided[n])}
    BY <1>1, <2>1
  <2> QED  BY <2>2 DEF Nth, Pair
<1>3. Nth(L + 1)' = Cardinality(Times(Pair(s)))'
  <2>1. {m \in 1..(L + 1) : Pair(decided'[m]) = Pair(decided'[L + 1])}
          = {m \in DOMAIN decided' : Pair(decided'[m]) = Pair(s)}
    BY <1>1
  <2> QED  BY <2>1 DEF Nth, Times, Pair
<1> QED  BY <1>2, <1>3

LEMMA ThirdAfter ==
  ASSUME TypeOK, OrderInv, CountInv, OnceInv, ThirdInv, NEW s \in Subs, Screened(s)
  PROVE  ThirdInv'
<1> DEFINE p == Pair(s)
<1>0. PICK L : L = Len(decided)
  OBVIOUS
<1>1. /\ tally' = Seen(tally, p) /\ decided' = Append(decided, s) /\ TallyType /\ row' = row
      /\ req[s].at = "rules" /\ row[s].state = "none"
  BY DEF Screened, TypeOK, OnceInv
<1>2. /\ DOMAIN decided' = 1..(L + 1) /\ decided'[L + 1] = s
      /\ \A n \in 1..L : decided'[n] = decided[n]
      /\ L \in Nat /\ DOMAIN decided = 1..L /\ Pairs' = Pairs \cup {p}
  BY <1>0, <1>1, AppendIs, PairsFinite
<1>3. /\ \A n \in 1..L : Nth(n)' = Nth(n)
      /\ Nth(L + 1)' = Cardinality(Times(p))'
  BY <1>0, <1>1, NthIs
<1>4. SUFFICES ASSUME Cardinality(Pairs') <= maxTracked, NEW n \in 1..(L + 1), Nth(n)' >= 3
               PROVE  /\ req'[decided'[n]].at \in {"verdict", "counted"} =>
                           req'[decided'[n]].verdict.hold \/ req'[decided'[n]].verdict.matched # None
                      /\ row'[decided'[n]].state = "inbox" => row'[decided'[n]].excused
  BY <1>2 DEF ThirdInv
<1>5. CASE n = L + 1
  <2>1. CountInv'
    BY CountAfter
  <2>2. p \in Pairs' /\ tally'.counts[p] = Cardinality(Times(p)')
    BY <1>2, <1>4, <2>1 DEF CountInv
  <2>3. Repeated(tally', p) = TRUE
    BY <1>3, <1>4, <1>5, <2>2 DEF Repeated
  <2>4. req'[s].verdict.hold \/ req'[s].verdict.matched # None
    BY <2>3, ScreenedIs
  <2> QED  BY <1>1, <1>2, <1>5, <2>4
<1>6. CASE n \in 1..L
  <2>1. Cardinality(Pairs) <= maxTracked
    <3>1. IsFiniteSet(Pairs) /\ Cardinality(Pairs) \in Nat
      BY <1>1, PairsFinite
    <3>2. Cardinality(Pairs') = IF p \in Pairs THEN Cardinality(Pairs) ELSE Cardinality(Pairs) + 1
      BY <1>2, <3>1, FS_AddElement
    <3> QED  BY <1>4, <3>1, <3>2, ScreenAssumption
  <2>2. Nth(n) >= 3 /\ decided'[n] = decided[n]
    BY <1>2, <1>3, <1>4, <1>6
  <2>3. decided[n] # s /\ decided[n] \in Subs
    BY <1>1, <1>2, <1>6, ElementOfSeq DEF OnceInv, TallyType
  <2>4. req'[decided[n]] = req[decided[n]]
    BY <2>3, ScreenedIs
  <2> QED  BY <1>1, <1>2, <1>6, <2>1, <2>2, <2>4 DEF ThirdInv
<1> QED  BY <1>2, <1>5, <1>6

LEMMA ThirdStep ==
  ASSUME TypeOK, OrderInv, CountInv, OnceInv, ThirdInv, [Next]_vars
  PROVE  ThirdInv'
<1>0. /\ DOMAIN decided = 1..Len(decided) /\ Len(decided) \in Nat /\ TallyType
      /\ \A n \in DOMAIN decided : decided[n] \in Subs
  BY PairsFinite, ElementOfSeq DEF TypeOK, TallyType
<1>1. CASE UNCHANGED <<tally, decided, req, row>>
  BY <1>1 DEF ThirdInv, Pairs, Nth
<1>2. ASSUME NEW t, Restart(t)  PROVE ThirdInv'
  <2>1. decided' = <<>>
    BY <1>2 DEF Restart
  <2> QED  BY <2>1, EmptyTally DEF ThirdInv
<1>3. ASSUME NEW s \in Subs, Receive(s) \/ ListFilterRules(s)  PROVE ThirdInv'
  <2>1. /\ req[s].at \in {"none", "form"} /\ UNCHANGED <<decided, row>>
        /\ \A x \in Subs : x # s => req'[x] = req[x]
    BY <1>3, ReceiveIs, ListIs DEF Receive, ListFilterRules
  <2>2. \A n \in DOMAIN decided : req'[decided[n]] = req[decided[n]]
    BY <1>0, <2>1 DEF OnceInv
  <2>3. \A n : Nth(n)' = Nth(n)
    BY <2>1 DEF Nth
  <2>4. Pairs' = Pairs
    BY <2>1 DEF Pairs
  <2> QED  BY <2>1, <2>2, <2>3, <2>4 DEF ThirdInv
<1>4. ASSUME NEW s \in Subs, Screened(s)  PROVE ThirdInv'
  BY <1>4, ThirdAfter
<1>5. ASSUME NEW s \in Subs, CountRuleHit(s) \/ Fail(s)  PROVE ThirdInv'
  <2>1. /\ UNCHANGED <<decided, row>>
        /\ \A x \in Subs : x # s => req'[x] = req[x]
        /\ req'[s].at \in {"verdict", "counted"} =>
             req[s].at \in {"verdict", "counted"} /\ req'[s].verdict = req[s].verdict
    <3>1. CASE CountRuleHit(s)
      BY <3>1, CountIs DEF CountRuleHit
    <3>2. CASE Fail(s)
      <4>1. req' = [req EXCEPT ![s] = Ended("error")]
        BY <3>2 DEF Fail
      <4> QED  BY <3>2, <4>1, EndIs DEF Fail
    <3> QED  BY <1>5, <3>1, <3>2
  <2>2. \A n : Nth(n)' = Nth(n)
    BY <2>1 DEF Nth
  <2>3. Pairs' = Pairs
    BY <2>1 DEF Pairs
  <2>4. \A x \in Subs : req'[x].at \in {"verdict", "counted"} =>
          req[x].at \in {"verdict", "counted"} /\ req'[x].verdict = req[x].verdict
    BY <2>1
  <2> QED  BY <1>0, <2>1, <2>2, <2>3, <2>4 DEF ThirdInv
<1>6. ASSUME NEW s \in Subs, Store(s)  PROVE ThirdInv'
  <2> DEFINE v == req[s].verdict
  <2>1. /\ row'[s] = RowOf(s, v) /\ \A x \in Subs : x # s => row'[x] = row[x]
        /\ req[s].at \in {"verdict", "counted"} /\ req'[s].at = "success"
        /\ \A x \in Subs : x # s => req'[x] = req[x]
        /\ UNCHANGED <<tally, decided>>
    BY <1>6, StoreIs
  <2>2. \A n : Nth(n)' = Nth(n)
    BY <2>1 DEF Nth
  <2>3. Pairs' = Pairs
    BY <2>1 DEF Pairs
  <2>4. v.hold \/ v.matched # None => (row'[s].state = "inbox" => row'[s].excused)
    BY <2>1, RowIs
  <2>5. SUFFICES ASSUME Cardinality(Pairs) <= maxTracked, NEW n \in DOMAIN decided, Nth(n) >= 3
                 PROVE  /\ req'[decided[n]].at \in {"verdict", "counted"} =>
                             req'[decided[n]].verdict.hold \/ req'[decided[n]].verdict.matched # None
                        /\ row'[decided[n]].state = "inbox" => row'[decided[n]].excused
    BY <2>1, <2>2, <2>3 DEF ThirdInv
  <2>6. CASE decided[n] = s
    <3>1. v.hold \/ v.matched # None
      BY <2>1, <2>5, <2>6 DEF ThirdInv
    <3> QED  BY <2>1, <2>4, <2>6, <3>1
  <2>7. CASE decided[n] # s
    BY <1>0, <2>1, <2>5, <2>7 DEF ThirdInv
  <2> QED  BY <2>6, <2>7
<1> QED  BY <1>1, <1>2, <1>3, <1>4, <1>5, <1>6, StepIs

-----------------------------------------------------------------------------
(* A field that is not the sender's                                        *)

\* More signals do not add up to less.
LEMMA SumGrows ==
  ASSUME NEW T, IsFiniteSet(T), \A x \in T : x.weight \in Nat, NEW S \in SUBSET T
  PROVE  Sum(S) <= Sum(T)
<1> DEFINE C == {D \in SUBSET T : ~(Sum(T \ D) <= Sum(T))}
<1>1. SUFFICES T \ S \notin C
  <2>1. T \ (T \ S) = S /\ T \ S \in SUBSET T
    OBVIOUS
  <2> QED  BY <2>1
<1>2. SUFFICES ASSUME C # {}  PROVE FALSE
  OBVIOUS
<1>3. PICK D \in C : \A U \in SUBSET D : U # D => U \notin C
  <2>1. C \subseteq SUBSET T
    OBVIOUS
  <2> HIDE DEF C
  <2> QED  BY <1>2, <2>1, Smallest
<1>4. ASSUME NEW U \in SUBSET T
      PROVE  Sum(U) \in Nat /\ \A x \in U : Sum(U) = x.weight + Sum(U \ {x})
  <2>1. IsFiniteSet(U) /\ \A x \in U : x.weight \in Nat
    BY FS_Subset
  <2> QED  BY <2>1, SumAdds
<1>5. D # {}
  <2>1. T \ {} = T /\ T \in SUBSET T
    OBVIOUS
  <2>2. Sum(T) <= Sum(T)
    BY <1>4, <2>1
  <2> QED  BY <1>3, <2>1, <2>2
<1>6. PICK x \in D : TRUE
  BY <1>5
<1>7. D \ {x} \notin C /\ D \ {x} \in SUBSET T /\ D \in SUBSET T /\ x \in T
  BY <1>3, <1>6
<1>8. Sum(T \ (D \ {x})) <= Sum(T)
  BY <1>7
<1>9. (T \ (D \ {x})) \ {x} = T \ D /\ x \in T \ (D \ {x})
  BY <1>6, <1>7
<1>10. ~(Sum(T \ D) <= Sum(T))
  BY <1>3
<1> HIDE DEF C
<1>11. Sum(T \ (D \ {x})) = x.weight + Sum(T \ D)
  BY <1>4, <1>9
<1>12. Sum(T \ D) \in Nat /\ x.weight \in Nat /\ Sum(T) \in Nat
  BY <1>4, <1>7
<1> QED  BY <1>8, <1>10, <1>11, <1>12

\* The weight of the links past the first.
LinkWeight(data) == IF Links(data) \in {0, 1} THEN 0 ELSE extraLinkWeight * (Links(data) - 1)

FieldReasons(data, extra) == UNION {Reasons(data, extra, k) : k \in DOMAIN data}

LEMMA ScoreIs ==
  ASSUME NEW data, NEW extra, Readable(data)
  PROVE  Sum(DetailWith(data, extra)) = Sum(FieldReasons(data, extra)) + LinkWeight(data)
<1> DEFINE F == FieldReasons(data, extra)
           D == DetailWith(data, extra)
           x == Signal("extra_links", None, None, extraLinkWeight * (Links(data) - 1))
<1>1. D = F \cup LinkReasons(data) /\ IsFiniteSet(D) /\ \A y \in D : y.weight \in Nat
  BY DetailIs, DetailFinite DEF FieldReasons
<1>2. IsFiniteSet(F) /\ \A y \in F : y.weight \in Nat
  BY <1>1, FS_Subset
<1>3. Sum(F) \in Nat
  BY <1>2, SumAdds
<1>4. CASE Links(data) \in {0, 1}
  <2>1. LinkReasons(data) = {}
    BY <1>4 DEF LinkReasons
  <2>2. D = F
    BY <1>1, <2>1
  <2>3. LinkWeight(data) = 0
    BY <1>4 DEF LinkWeight
  <2> HIDE DEF D, F
  <2> QED  BY <1>3, <2>2, <2>3 DEF D, F
<1>5. CASE Links(data) \notin {0, 1}
  <2>1. LinkReasons(data) = {x}
    BY <1>5 DEF LinkReasons
  <2>2. x.check = "extra_links" /\ x.weight = LinkWeight(data)
    BY <1>5, WeightIs DEF LinkWeight
  <2>3. \A y \in F : y.check # "extra_links"
    BY WeightIs DEF FieldReasons, Reasons
  <2> HIDE DEF x, F, D
  <2>4. x \in D /\ D \ {x} = F
    BY <1>1, <2>1, <2>2, <2>3
  <2>5. Sum(D) = x.weight + Sum(D \ {x}) /\ x.weight \in Nat
    BY <1>1, <2>4, SumAdds
  <2>6. Sum(D \ {x}) = Sum(F)
    BY <2>4
  <2>7. Sum(D) = Sum(F) + LinkWeight(data)
    BY <1>3, <2>2, <2>5, <2>6
  <2> QED  BY <2>7 DEF D, F
<1> QED  BY <1>4, <1>5

\* A submission with one more field.
LEMMA WithIs ==
  ASSUME NEW data, NEW k, NEW v, k \notin DOMAIN data, Readable(data), Scorable(v)
  PROVE  /\ Readable(With(data, k, v)) /\ DOMAIN With(data, k, v) = DOMAIN data \cup {k}
         /\ \A x \in DOMAIN data : With(data, k, v)[x] = data[x]
         /\ Links(data) <= Links(With(data, k, v))
<1>0. PICK more : more = With(data, k, v)
  OBVIOUS
<1>1. /\ DOMAIN more = DOMAIN data \cup {k} /\ more[k] = v
      /\ \A x \in DOMAIN data : more[x] = data[x]
  BY <1>0 DEF With
<1>2. IsFiniteSet(DOMAIN more)
  BY <1>1, FS_AddElement DEF Readable
<1>3. Readable(more)
  BY <1>1, <1>2 DEF Readable
<1> DEFINE w == [x \in DOMAIN more |-> more[x].links]
           u == [x \in DOMAIN data |-> data[x].links]
<1>4. /\ \A x \in DOMAIN more : w[x] \in Nat
      /\ \A x \in DOMAIN data : w[x] = u[x]
      /\ k \in DOMAIN more /\ DOMAIN more \ {k} = DOMAIN data /\ IsFiniteSet(DOMAIN data)
  BY <1>1, <1>3 DEF Readable, Scorable
<1>5. Links(more) = Total(w, DOMAIN more) /\ Links(data) = Total(u, DOMAIN data)
  BY DEF Links
<1> HIDE DEF w, u
<1>6. Total(w, DOMAIN more) = w[k] + Total(w, DOMAIN data) /\ w[k] \in Nat
  <2>1. Total(w, DOMAIN more) = w[k] + Total(w, DOMAIN more \ {k})
    BY <1>2, <1>4, TotalAdds
  <2> QED  BY <1>4, <2>1
<1>7. Total(w, DOMAIN data) = Total(u, DOMAIN data)
  BY <1>4, TotalSame
<1>8. Links(data) \in Nat
  BY LinksNat
<1>9. Links(data) <= Links(more)
  BY <1>5, <1>6, <1>7, <1>8
<1> QED  BY <1>0, <1>1, <1>3, <1>9

LEMMA ScoreGrows ==
  ASSUME NEW data, NEW k, NEW v, k \notin DOMAIN data, Readable(data), Scorable(v), NEW extra
  PROVE  /\ Sum(DetailWith(data, extra)) <= Sum(DetailWith(With(data, k, v), extra))
         /\ Sum(DetailWith(data, extra)) \in Nat
         /\ Sum(DetailWith(With(data, k, v), extra)) \in Nat
<1>0. PICK more : more = With(data, k, v)
  OBVIOUS
<1>1. /\ Readable(more) /\ DOMAIN more = DOMAIN data \cup {k}
      /\ \A x \in DOMAIN data : more[x] = data[x]
      /\ Links(data) <= Links(more)
  <2>1. /\ Readable(With(data, k, v)) /\ DOMAIN With(data, k, v) = DOMAIN data \cup {k}
        /\ \A x \in DOMAIN data : With(data, k, v)[x] = data[x]
        /\ Links(data) <= Links(With(data, k, v))
    BY WithIs, Zenon
  <2> QED  BY <1>0, <2>1
<1>2. FieldReasons(data, extra) \subseteq FieldReasons(more, extra)
  <2>1. \A x \in DOMAIN data : Reasons(data, extra, x) = Reasons(more, extra, x)
    BY <1>1 DEF Reasons
  <2> QED  BY <1>1, <2>1 DEF FieldReasons
<1>3. /\ IsFiniteSet(FieldReasons(more, extra)) /\ \A y \in FieldReasons(more, extra) : y.weight \in Nat
      /\ IsFiniteSet(FieldReasons(data, extra)) /\ \A y \in FieldReasons(data, extra) : y.weight \in Nat
  <2>1. ASSUME NEW d, Readable(d)
        PROVE  IsFiniteSet(FieldReasons(d, extra)) /\ \A y \in FieldReasons(d, extra) : y.weight \in Nat
    <3>1. IsFiniteSet(DetailWith(d, extra)) /\ \A y \in DetailWith(d, extra) : y.weight \in Nat
      BY <2>1, DetailFinite
    <3>2. FieldReasons(d, extra) \in SUBSET DetailWith(d, extra)
      BY DetailIs DEF FieldReasons
    <3> QED  BY <3>1, <3>2, FS_Subset
  <2> QED  BY <1>1, <2>1
<1>4. Sum(FieldReasons(data, extra)) <= Sum(FieldReasons(more, extra))
  BY <1>2, <1>3, SumGrows
<1>5. Sum(FieldReasons(data, extra)) \in Nat /\ Sum(FieldReasons(more, extra)) \in Nat
  BY <1>3, SumAdds
<1>6. /\ LinkWeight(data) <= LinkWeight(more)
      /\ LinkWeight(data) \in Nat /\ LinkWeight(more) \in Nat
  <2>1. Links(data) \in Nat /\ Links(more) \in Nat
    BY <1>1, LinksNat
  <2> QED  BY <1>1, <2>1 DEF LinkWeight, extraLinkWeight
<1>7. /\ Sum(DetailWith(data, extra)) = Sum(FieldReasons(data, extra)) + LinkWeight(data)
      /\ Sum(DetailWith(more, extra)) = Sum(FieldReasons(more, extra)) + LinkWeight(more)
  BY <1>1, ScoreIs
<1>8. /\ Sum(DetailWith(data, extra)) <= Sum(DetailWith(more, extra))
      /\ Sum(DetailWith(data, extra)) \in Nat /\ Sum(DetailWith(more, extra)) \in Nat
  BY <1>4, <1>5, <1>6, <1>7
<1> QED  BY <1>0, <1>8

LEMMA MatchesMore ==
  ASSUME NEW r, NEW addrs, NEW more, addrs \subseteq more, NEW ip, Matches(r, addrs, ip)
  PROVE  Matches(r, more, ip)
<1>1. CASE r.type = "email"
  BY <1>1 DEF Matches
<1>2. CASE r.type = "domain"
  BY <1>2 DEF Matches
<1>3. CASE r.type \notin {"email", "domain"}
  BY <1>3 DEF Matches
<1> QED  BY <1>1, <1>2, <1>3

LEMMA OnlyHarm ==
  ASSUME NEW rs, NEW ip, NEW data, Readable(data), Held(rs, data, ip),
         NEW k \in {"message", "name"}, k \notin DOMAIN data, NEW v, Scorable(v)
  PROVE  Held(rs, With(data, k, v), ip)
<1>1. PICK more : more = With(data, k, v)
  OBVIOUS
<1>2. /\ Readable(more) /\ DOMAIN more = DOMAIN data \cup {k}
      /\ \A x \in DOMAIN data : more[x] = data[x]
  <2>1. /\ Readable(With(data, k, v)) /\ DOMAIN With(data, k, v) = DOMAIN data \cup {k}
        /\ \A x \in DOMAIN data : With(data, k, v)[x] = data[x]
        /\ Links(data) <= Links(With(data, k, v))
    BY WithIs, Zenon
  <2> QED  BY <1>1, <2>1
<1>3. SenderAddresses(more) = SenderAddresses(data)
  <2>1. Claimants(more) = Claimants(data)
    BY <1>2 DEF Claimants
  <2>2. \A x \in Claimants(data) : more[x] = data[x]
    BY <1>2 DEF Claimants
  <2> QED  BY <2>1, <2>2 DEF SenderAddresses
<1>4. AllAddresses(data) \subseteq AllAddresses(more)
  BY <1>2 DEF AllAddresses
<1> DEFINE allowed == Matching("allow", rs, SenderAddresses(data), ip)
           before  == Matching("block", rs, AllAddresses(data), ip)
           after   == Matching("block", rs, AllAddresses(more), ip)
           t == ClampThreshold(DefaultThreshold)
           sum(d) == Sum(DetailWith(d, Keywords(rs)))
<1>5. before \subseteq after
  BY <1>4, MatchesMore DEF Matching
<1>6. /\ Match(rs, data, ip) = IF allowed # {} THEN allowed ELSE before
      /\ Match(rs, more, ip) = IF allowed # {} THEN allowed ELSE after
  BY <1>3 DEF Match
<1>7. \A i \in allowed : rs[i].kind = "allow"
  BY DEF Matching
<1>8. \A i \in after : rs[i].kind = "block"
  BY DEF Matching
<1>9. ASSUME NEW d
      PROVE  Held(rs, d, ip) <=> \/ Match(rs, d, ip) = {} /\ sum(d) >= t
                                 \/ \E i \in Match(rs, d, ip) : rs[i].kind # "allow"
  <2>1. DetailWith(d, Keywords(rs)) \cup {Signal("repeat_ip", None, ip, t) : x \in {FALSE} \cap {TRUE}}
          = DetailWith(d, Keywords(rs))
    OBVIOUS
  <2>2. CASE Match(rs, d, ip) = {}
    <3>1. Decide(rs, d, ip, DefaultThreshold, FALSE)
            = {Verdict(sum(d) >= t, DetailWith(d, Keywords(rs)), t, None)}
      BY <2>1, <2>2 DEF Decide
    <3>2. Verdict(sum(d) >= t, DetailWith(d, Keywords(rs)), t, None).hold = (sum(d) >= t)
      BY Zenon DEF Verdict
    <3>3. Held(rs, d, ip) <=> sum(d) >= t
      BY <3>1, <3>2, Zenon DEF Held
    <3> QED  BY <2>2, <3>3
  <2>3. CASE Match(rs, d, ip) # {}
    <3>1. Decide(rs, d, ip, DefaultThreshold, FALSE)
            = {IF rs[i].kind = "allow" THEN Verdict(FALSE, {}, t, i)
               ELSE Verdict(TRUE, {Signal("rule", None, rs[i].value.what, t)}, t, i)
                 : i \in Match(rs, d, ip)}
      BY <2>3 DEF Decide
    <3>2. \A i : /\ Verdict(FALSE, {}, t, i).hold = FALSE
                 /\ Verdict(TRUE, {Signal("rule", None, rs[i].value.what, t)}, t, i).hold = TRUE
      BY DEF Verdict
    <3>3. Held(rs, d, ip) <=> \E i \in Match(rs, d, ip) : rs[i].kind # "allow"
      BY <3>1, <3>2 DEF Held
    <3> QED  BY <2>3, <3>3
  <2> QED  BY <2>2, <2>3
<1>10. t \in Nat
  BY ClampFits DEF DefaultThreshold, MinThreshold, MaxThreshold
<1>11. sum(data) <= sum(more) /\ sum(data) \in Nat /\ sum(more) \in Nat
  BY <1>1, ScoreGrows
<1> HIDE DEF allowed, before, after, t, sum
<1>12. CASE allowed # {}
  BY <1>6, <1>7, <1>9, <1>12
<1>13. CASE allowed = {} /\ after # {}
  <2>1. Match(rs, more, ip) # {} /\ \A i \in Match(rs, more, ip) : rs[i].kind # "allow"
    BY <1>6, <1>8, <1>13
  <2>2. Held(rs, more, ip)
    BY <1>9, <2>1
  <2> QED  BY <1>1, <2>2
<1>14. CASE allowed = {} /\ after = {}
  <2>1. Match(rs, data, ip) = {} /\ Match(rs, more, ip) = {}
    BY <1>5, <1>6, <1>14
  <2>2. sum(data) >= t
    BY <1>9, <2>1
  <2>3. sum(more) >= t
    BY <1>10, <1>11, <2>2
  <2>4. Held(rs, more, ip)
    BY <1>9, <2>1, <2>3
  <2> QED  BY <1>1, <2>4
<1> QED  BY <1>12, <1>13, <1>14

-----------------------------------------------------------------------------
(* Rules that are reported                                                 *)

\* An address in the form in which they are compared is stored as it is.
LEMMA CanonicalStays ==
  ASSUME NEW n, Canonical(n) # None
  PROVE  Canonical(Canonical(n)) = Canonical(n)
<1>1. n.what \in Mailboxes /\ HostOf[n.what] \in Dotted /\ Canonical(n) = ASCIILower(n)
  BY DEF Canonical
<1>2. CASE n.spelling = "foreign"
  BY <1>1, <1>2 DEF ASCIILower
<1>3. CASE n.spelling # "foreign"
  <2>1. Canonical(n) = Name(n.what, "plain")
    BY <1>1, <1>3 DEF ASCIILower
  <2> DEFINE m == Name(n.what, "plain")
  <2>2. m.what = n.what /\ m.spelling = "plain"
    BY DEF Name
  <2> HIDE DEF m
  <2>3. Canonical(m) = ASCIILower(m)
    BY <1>1, <2>2 DEF Canonical
  <2>4. ASCIILower(m) = Name(m.what, "plain")
    BY <2>2 DEF ASCIILower
  <2>5. Name(m.what, "plain") = m
    BY <2>2 DEF m
  <2> QED  BY <2>1, <2>3, <2>4, <2>5 DEF m
<1> QED  BY <1>2, <1>3

LEMMA SenderOnly ==
  ASSUME NEW data
  PROVE  SenderAddresses(data) \subseteq AllAddresses(data)
BY DEF SenderAddresses, AllAddresses, Claimants

\* A rule that is reported, and not read again, matches no submission.
LEMMA ReportedMatchesNone ==
  ASSUME NEW rs, NEW i \in CheckRules(rs), ~Reread(rs[i]), rs[i].kind \in {"allow", "block"},
         NEW data, NEW ip
  PROVE  ~Matches(rs[i], AllAddresses(data), ip) /\ ~Matches(rs[i], SenderAddresses(data), ip)
<1>1. PICK r : r = rs[i]
  OBVIOUS
<1>2. \/ r.kind = "allow" /\ r.type = "keyword"
      \/ r.type # "keyword" /\ Validate(r.type, r.value) # r.value
      \/ r.kind = "block" /\ r.type = "keyword"
  BY <1>1 DEF CheckRules
<1>3. ~(r.kind = "block" /\ r.type = "keyword")
  BY <1>1 DEF Reread
<1>4. ASSUME NEW addrs \in SUBSET AllAddresses(data)
      PROVE  ~Matches(r, addrs, ip)
  <2>1. CASE r.type = "keyword"
    BY <2>1 DEF Matches
  <2>2. CASE r.type = "email"
    <3>1. Canonical(r.value) # r.value
      BY <1>2, <2>2 DEF Validate
    <3>2. \A a \in addrs : Canonical(a) = a
      BY CanonicalStays DEF AllAddresses
    <3> QED  BY <2>2, <3>1, <3>2 DEF Matches
  <2>3. CASE r.type = "ip"
    <3>1. ASSUME ip \in Numeric, r.value = Name(ip, "plain")  PROVE FALSE
      <4>1. r.value.what = ip /\ r.value.spelling = "plain"
        BY <3>1 DEF Name
      <4>2. Validate("ip", r.value) = Name(r.value.what, "plain")
        BY <3>1, <4>1 DEF Validate
      <4> QED  BY <1>2, <2>3, <3>1, <4>1, <4>2
    <3> QED  BY <2>3, <3>1 DEF Matches
  <2>4. CASE r.type = "domain"
    <3>1. r.value.spelling # "plain"
      BY <1>1, <2>4 DEF Reread
    <3> QED  BY <2>4, <3>1 DEF Matches
  <2>5. r.type # "cidr"
    BY <1>1 DEF Reread
  <2>6. CASE r.type \notin {"keyword", "email", "ip", "domain", "cidr"}
    BY <2>6 DEF Matches
  <2> QED  BY <2>1, <2>2, <2>3, <2>4, <2>5, <2>6
<1> QED  BY <1>1, <1>4, SenderOnly

-----------------------------------------------------------------------------
(* Rules that are not reported                                             *)

\* What a rule is stored as is stored as it is.
LEMMA ValidatedStays ==
  ASSUME NEW type, NEW n, Validate(type, n) # None
  PROVE  Validate(type, Validate(type, n)) = Validate(type, n)
<1>1. CASE type = "email"
  <2>1. \A x : Validate(type, x) = Canonical(x)
    BY <1>1 DEF Validate
  <2> QED  BY <2>1, CanonicalStays
<1>2. CASE type # "email"
  <2> DEFINE m == Name(n.what, "plain")
  <2>1. m.what = n.what /\ m.spelling = "plain" /\ Name(m.what, "plain") = m
    BY DEF Name
  <2> HIDE DEF m
  <2>2. Validate(type, n) = m
    BY <1>2 DEF Validate, m
  <2>3. \/ type = "domain" /\ n.what \in Dotted
        \/ type = "ip" /\ n.what \in Numeric
        \/ type = "cidr" /\ n.what \in Networks
        \/ type = "keyword" /\ n.what \in Words
    BY <1>2 DEF Validate
  <2>4. Validate(type, m) = m
    <3>1. CASE type = "domain"
      BY <2>1, <2>3, <3>1 DEF Validate
    <3>2. CASE type = "ip"
      BY <2>1, <2>3, <3>2 DEF Validate
    <3>3. CASE type = "cidr"
      BY <2>1, <2>3, <3>3 DEF Validate
    <3>4. CASE type = "keyword"
      BY <2>1, <2>3, <3>4 DEF Validate
    <3> QED  BY <2>3, <3>1, <3>2, <3>3, <3>4
  <2> QED  BY <2>2, <2>4
<1> QED  BY <1>1, <1>2

\* The rule that decided is in the verdict, and none if none did.
LEMMA MatchedIs ==
  ASSUME NEW rs, NEW data, NEW ip, NEW v \in Decide(rs, data, ip, DefaultThreshold, FALSE)
  PROVE  /\ Match(rs, data, ip) = {} => v.matched = None
         /\ Match(rs, data, ip) # {} => v.matched \in Match(rs, data, ip)
<1> DEFINE threshold == ClampThreshold(DefaultThreshold)
           scored == DetailWith(data, Keywords(rs))
                       \cup {Signal("repeat_ip", None, ip, threshold) : x \in {FALSE} \cap {TRUE}}
           unruled == Verdict(Sum(scored) >= threshold, scored, threshold, None)
           ruled(i) == IF rs[i].kind = "allow" THEN Verdict(FALSE, {}, threshold, i)
                       ELSE Verdict(TRUE, {Signal("rule", None, rs[i].value.what, threshold)}, threshold, i)
<1>1. Decide(rs, data, ip, DefaultThreshold, FALSE)
        = IF Match(rs, data, ip) = {} THEN {unruled} ELSE {ruled(i) : i \in Match(rs, data, ip)}
  BY DEF Decide
<1>2. unruled.matched = None
  BY DEF Verdict
<1>3. \A i : ruled(i).matched = i
  BY DEF Verdict
<1> HIDE DEF unruled, ruled
<1>4. CASE Match(rs, data, ip) = {}
  <2>1. v = unruled
    BY <1>1, <1>4
  <2> QED  BY <1>2, <1>4, <2>1
<1>5. CASE Match(rs, data, ip) # {}
  <2>1. PICK i \in Match(rs, data, ip) : v = ruled(i)
    BY <1>1, <1>5
  <2> QED  BY <1>3, <1>5, <2>1
<1> QED  BY <1>4, <1>5

LEMMA DecideNotEmpty ==
  ASSUME NEW rs, NEW data, NEW ip
  PROVE  Decide(rs, data, ip, DefaultThreshold, FALSE) # {}
BY DEF Decide

LEMMA NoRules == DOMAIN <<>> = {}
OBVIOUS

\* Where a rule matches, it decides.
LEMMA MatchTells ==
  ASSUME None \notin Nat, NEW r, NEW data, NEW ip, Match(Alone(r), data, ip) # {}
  PROVE  Decide(Alone(r), data, ip, DefaultThreshold, FALSE)
           # Decide(<<>>, data, ip, DefaultThreshold, FALSE)
<1>1. Match(<<>>, data, ip) = {}
  BY NoRules DEF Match, Matching
<1>2. PICK v \in Decide(Alone(r), data, ip, DefaultThreshold, FALSE) : TRUE
  BY DecideNotEmpty
<1>3. Match(Alone(r), data, ip) \subseteq {1}
  BY DEF Match, Matching, Alone
<1>4. v.matched = 1
  BY <1>2, <1>3, MatchedIs
<1>5. \A w \in Decide(<<>>, data, ip, DefaultThreshold, FALSE) : w.matched = None
  BY <1>1, MatchedIs
<1>6. None # 1
  OBVIOUS
<1> QED  BY <1>2, <1>4, <1>5, <1>6

\* A rule of either kind that matches the sender alone, or the address it came
\* from, is the one that decides.
LEMMA SenderTells ==
  ASSUME NEW r, r.kind \in {"allow", "block"}, NEW data, NEW ip, Matches(r, SenderAddresses(data), ip)
  PROVE  Match(Alone(r), data, ip) # {}
<1>1. Matches(r, AllAddresses(data), ip)
  BY SenderOnly, MatchesMore
<1>2. PICK alone : alone = Alone(r)
  OBVIOUS
<1>3. DOMAIN alone = {1} /\ alone[1] = r
  BY <1>2 DEF Alone
<1>4. CASE r.kind = "allow"
  <2>1. 1 \in Matching("allow", alone, SenderAddresses(data), ip)
    BY <1>3, <1>4 DEF Matching
  <2> QED  BY <1>2, <2>1 DEF Match
<1>5. CASE r.kind = "block"
  <2>1. 1 \in Matching("block", alone, AllAddresses(data), ip)
    BY <1>1, <1>3, <1>5 DEF Matching
  <2> QED  BY <1>2, <2>1 DEF Match
<1> QED  BY <1>4, <1>5

\* The one address of who a submission is sent by.
LEMMA SentByIs ==
  ASSUME Telling, NEW m \in Mailboxes, HostOf[m] \in Dotted, NEW spelling \in {"plain", "foreign"}
  PROVE  \E data \in Contents : Name(m, spelling) \in SenderAddresses(data)
<1> DEFINE n == Name(m, spelling)
<1>1. n.what = m /\ n.spelling = spelling /\ n = Name(n.what, n.spelling)
  BY DEF Name
<1>2. PICK data \in SentBy(n) : TRUE
  BY DEF Telling
<1> HIDE DEF n
<1>3. Canonical(n) = n
  <2>1. Canonical(n) = ASCIILower(n)
    BY <1>1 DEF Canonical
  <2>2. ASCIILower(n) = n
    BY <1>1 DEF ASCIILower
  <2> QED  BY <2>1, <2>2
<1>4. data \in Contents /\ Cardinality(Claimants(data)) = 1 /\ \A k \in Claimants(data) : data[k].name = n
  BY <1>2 DEF SentBy
<1>5. PICK k \in Claimants(data) : TRUE
  BY <1>4, FS_EmptySet
<1>6. Name(m, spelling) # None
  BY RuleAssumption
<1>7. n \in SenderAddresses(data)
  BY <1>3, <1>4, <1>5, <1>6 DEF SenderAddresses, n
<1> QED  BY <1>4, <1>7 DEF n

\* A word that the built-in list lacks is one more reason against whoever
\* writes it.
LEMMA KeywordTells ==
  ASSUME NEW r, r.kind = "block", r.type = "keyword", r.value.what \notin BuiltIn,
         NEW data, NEW k \in DOMAIN data, r.value.what \in data[k].words, NEW ip
  PROVE  Decide(Alone(r), data, ip, DefaultThreshold, FALSE)
           # Decide(<<>>, data, ip, DefaultThreshold, FALSE)
<1> DEFINE w == r.value.what
           reason == Signal("keyword", k, w, keywordWeight)
<1>1. PICK alone : alone = Alone(r)
  OBVIOUS
<1>2. DOMAIN alone = {1} /\ alone[1] = r
  BY <1>1 DEF Alone
<1>3. Match(alone, data, ip) = {} /\ Match(<<>>, data, ip) = {}
  <2>1. \A addrs : ~Matches(r, addrs, ip)
    BY DEF Matches
  <2> QED  BY <1>2, <2>1, NoRules DEF Match, Matching
<1>4. Keywords(alone) = {w} /\ Keywords(<<>>) = {}
  BY <1>2, NoRules DEF Keywords
<1>5. reason \in DetailWith(data, {w}) /\ reason \notin DetailWith(data, {})
  <2>1. reason.check = "keyword" /\ reason.match = w
    BY DEF Signal
  <2>2. reason \in Reasons(data, {w}, k)
    BY DEF Reasons
  <2>3. \A x \in DOMAIN data : reason \notin Reasons(data, {}, x)
    BY <2>1 DEF Reasons, Signal
  <2>4. reason \notin LinkReasons(data)
    BY <2>1 DEF LinkReasons, Signal
  <2> HIDE DEF reason
  <2> QED  BY <2>2, <2>3, <2>4, DetailIs
<1>6. ASSUME NEW rs, Match(rs, data, ip) = {}
      PROVE  \E v : /\ Decide(rs, data, ip, DefaultThreshold, FALSE) = {v}
                    /\ v.signals = DetailWith(data, Keywords(rs))
  <2> DEFINE threshold == ClampThreshold(DefaultThreshold)
             v == Verdict(Sum(DetailWith(data, Keywords(rs))) >= threshold, DetailWith(data, Keywords(rs)), threshold, None)
  <2>1. DetailWith(data, Keywords(rs)) \cup {Signal("repeat_ip", None, ip, threshold) : x \in {FALSE} \cap {TRUE}}
          = DetailWith(data, Keywords(rs))
    OBVIOUS
  <2>2. Decide(rs, data, ip, DefaultThreshold, FALSE) = {v}
    BY <1>6, <2>1 DEF Decide
  <2>3. v.signals = DetailWith(data, Keywords(rs))
    BY DEF Verdict
  <2> HIDE DEF v
  <2> QED  BY <2>2, <2>3
<1>7. PICK v : /\ Decide(alone, data, ip, DefaultThreshold, FALSE) = {v}
               /\ v.signals = DetailWith(data, {w})
  BY <1>3, <1>4, <1>6
<1>8. PICK u : /\ Decide(<<>>, data, ip, DefaultThreshold, FALSE) = {u}
               /\ u.signals = DetailWith(data, {})
  BY <1>3, <1>4, <1>6
<1> HIDE DEF w, reason
<1>9. v # u
  BY <1>5, <1>7, <1>8
<1> QED  BY <1>1, <1>7, <1>8, <1>9

\* A rule that is not reported is of a known kind, and stored as it is read.
LEMMA NotReported ==
  ASSUME NEW r \in Storable, CheckRules(Alone(r)) = {}
  PROVE  /\ r.kind \in {"allow", "block"} /\ ~(r.kind = "allow" /\ r.type = "keyword")
         /\ r.value # None /\ Validate(r.type, r.value) = r.value
<1>1. PICK alone : alone = Alone(r)
  OBVIOUS
<1>2. DOMAIN alone = {1} /\ alone[1] = r
  BY <1>1 DEF Alone
<1>3. 1 \notin CheckRules(alone)
  BY <1>1
<1>4. /\ r.kind \in {"allow", "block"} /\ ~(r.kind = "allow" /\ r.type = "keyword")
      /\ Validate(r.type, r.value) = r.value
  BY <1>2, <1>3 DEF CheckRules
<1>5. r.value # None
  <2>1. CASE r \in Legacy
    BY <2>1, RuleAssumption
  <2>2. CASE r \notin Legacy
    <3>1. PICK o \in Askable : r = Rule(o.kind, o.type, Validate(o.type, o.value)) /\ r # Rule(o.kind, o.type, None)
      BY <2>2 DEF Storable
    <3>2. r.value = Validate(o.type, o.value)
      BY <3>1 DEF Rule
    <3> QED  BY <3>1, <3>2
  <2> QED  BY <2>1, <2>2
<1> QED  BY <1>4, <1>5

\* What can be stored is a name in a spelling.
LEMMA StoredIsName ==
  ASSUME NEW r \in Storable
  PROVE  r.value = Name(r.value.what, r.value.spelling)
<1>1. CASE r \in Legacy
  BY <1>1, RuleAssumption
<1>2. CASE r \notin Legacy
  <2>1. PICK o \in Askable : r = Rule(o.kind, o.type, Validate(o.type, o.value)) /\ r # Rule(o.kind, o.type, None)
    BY <1>2 DEF Storable
  <2>2. r.value = Validate(o.type, o.value) /\ r.value # None
    BY <2>1 DEF Rule
  <2>3. r.value = o.value \/ r.value = Name(o.value.what, "plain")
    BY <2>2 DEF Validate, Canonical, ASCIILower
  <2>4. CASE r.value = o.value
    BY <2>4, RuleAssumption
  <2>5. CASE r.value = Name(o.value.what, "plain")
    BY <2>5 DEF Name
  <2> QED  BY <2>3, <2>4, <2>5
<1> QED  BY <1>1, <1>2

\* A word the built-in list has adds nothing.
LEMMA RepeatsNothing ==
  ASSUME NEW r, r.kind = "block", Repeats(r)
  PROVE  ChangesNothing(r)
<1> DEFINE w == r.value.what
<1>1. PICK alone : alone = Alone(r)
  OBVIOUS
<1>2. DOMAIN alone = {1} /\ alone[1] = r
  BY <1>1 DEF Alone
<1>3. r.type = "keyword" /\ w \in BuiltIn
  BY DEF Repeats
<1>4. Keywords(alone) = {w} /\ Keywords(<<>>) = {}
  BY <1>2, <1>3, NoRules DEF Keywords
<1> SUFFICES ASSUME NEW data \in Contents, NEW ip \in Ips
             PROVE  Decide(alone, data, ip, DefaultThreshold, FALSE)
                      = Decide(<<>>, data, ip, DefaultThreshold, FALSE)
  BY <1>1 DEF ChangesNothing
<1>5. Match(alone, data, ip) = {} /\ Match(<<>>, data, ip) = {}
  <2>1. \A addrs : ~Matches(r, addrs, ip)
    BY <1>3 DEF Matches
  <2> QED  BY <1>2, <2>1, NoRules DEF Match, Matching
<1>6. DetailWith(data, {w}) = DetailWith(data, {})
  <2>1. BuiltIn \cup {w} = BuiltIn \cup {}
    BY <1>3
  <2> HIDE DEF w
  <2> QED  BY <2>1 DEF DetailWith
<1> QED  BY <1>4, <1>5, <1>6 DEF Decide

\* Of each type, a rule that is not reported changes the decision on something.
LEMMA UnreportedTells ==
  ASSUME Telling, NEW r \in Storable, CheckRules(Alone(r)) = {}, ~Repeats(r)
  PROVE  \E data \in Contents, ip \in Ips :
           Decide(Alone(r), data, ip, DefaultThreshold, FALSE)
             # Decide(<<>>, data, ip, DefaultThreshold, FALSE)
<1>1. /\ r.kind \in {"allow", "block"} /\ ~(r.kind = "allow" /\ r.type = "keyword")
      /\ r.value # None /\ Validate(r.type, r.value) = r.value
  BY NotReported
<1>2. None \notin Nat /\ Contents # {} /\ Numeric \subseteq Ips
  BY RuleAssumption, ScreenAssumption DEF Telling
<1>3. ASSUME NEW data \in Contents, NEW ip \in Ips, Matches(r, SenderAddresses(data), ip)
      PROVE  Decide(Alone(r), data, ip, DefaultThreshold, FALSE)
               # Decide(<<>>, data, ip, DefaultThreshold, FALSE)
  <2>1. Match(Alone(r), data, ip) # {}
    BY <1>1, <1>3, SenderTells
  <2> QED  BY <1>2, <2>1, MatchTells
<1>4. PICK ip \in Ips : TRUE
  BY <1>2 DEF Telling
<1>5. CASE r.type = "email"
  <2>1. Canonical(r.value) = r.value
    BY <1>1, <1>5 DEF Validate
  <2> DEFINE m == r.value.what
  <2>2. /\ m \in Mailboxes /\ HostOf[m] \in Dotted /\ ASCIILower(r.value) = r.value
    BY <1>1, <2>1 DEF Canonical
  <2>3. PICK spelling \in {"plain", "foreign"} : r.value = Name(m, spelling)
    <3>1. r.value = Name(m, r.value.spelling)
      BY StoredIsName, <1>1
    <3> QED  BY <2>2, <3>1 DEF ASCIILower
  <2>4. PICK data \in Contents : r.value \in SenderAddresses(data)
    BY <2>2, <2>3, SentByIs
  <2>5. Matches(r, SenderAddresses(data), ip)
    BY <1>5, <2>4 DEF Matches
  <2> QED  BY <1>3, <2>5
<1>6. CASE r.type = "domain"
  <2>1. r.value.what \in Dotted /\ r.value = Name(r.value.what, "plain")
    BY <1>1, <1>6 DEF Validate
  <2>2. r.value.spelling = "plain"
    BY <2>1 DEF Name
  <2>3. PICK m \in Mailboxes : HostOf[m] \in Dotted /\ r.value.what \in Above[HostOf[m]]
    BY <2>1 DEF Telling
  <2>4. PICK data \in Contents : Name(m, "plain") \in SenderAddresses(data)
    BY <2>3, SentByIs
  <2>5. Name(m, "plain").what = m
    BY DEF Name
  <2>6. Matches(r, SenderAddresses(data), ip)
    BY <1>6, <2>2, <2>3, <2>4, <2>5 DEF Matches
  <2> QED  BY <1>3, <2>6
<1>7. CASE r.type = "ip"
  <2>1. r.value.what \in Numeric /\ r.value = Name(r.value.what, "plain")
    BY <1>1, <1>7 DEF Validate
  <2>2. PICK data \in Contents : TRUE
    BY <1>2
  <2>3. Matches(r, SenderAddresses(data), r.value.what)
    BY <1>7, <2>1 DEF Matches
  <2> QED  BY <1>2, <1>3, <2>1, <2>3
<1>8. CASE r.type = "cidr"
  <2>1. r.value.what \in Networks
    BY <1>1, <1>8 DEF Validate
  <2>2. PICK a \in Numeric : r.value.what \in Around[a]
    BY <2>1 DEF Telling
  <2>3. PICK data \in Contents : TRUE
    BY <1>2
  <2>4. Matches(r, SenderAddresses(data), a)
    <3>1. r.value.spelling # "foreign"
      BY <1>1, <1>8 DEF Validate
    <3> QED  BY <1>8, <2>2, <3>1 DEF Matches
  <2> QED  BY <1>2, <1>3, <2>2, <2>4
<1>9. CASE r.type = "keyword"
  <2>1. r.kind = "block" /\ r.value.what \in Words
    BY <1>1, <1>9 DEF Validate
  <2>2. r.value.what \notin BuiltIn
    BY <1>9 DEF Repeats
  <2>3. PICK data \in Contents : \E k \in DOMAIN data : r.value.what \in data[k].words
    BY <2>1, <2>2 DEF Telling
  <2>4. Decide(Alone(r), data, ip, DefaultThreshold, FALSE)
          # Decide(<<>>, data, ip, DefaultThreshold, FALSE)
    BY <1>9, <2>1, <2>2, <2>3, KeywordTells
  <2> QED  BY <2>4
<1>10. r.type \in {"email", "domain", "ip", "cidr", "keyword"}
  BY <1>1 DEF Validate
<1> QED  BY <1>5, <1>6, <1>7, <1>8, <1>9, <1>10

-----------------------------------------------------------------------------
(* The theorems                                                            *)

LEMMA InitHolds ==
  ASSUME Init
  PROVE  IInv
<1>1. LimiterTypeOK /\ CreditInv
  BY LimiterStarts DEF Init
<1>2. FormType
  <2>1. Thresholds \subseteq Int /\ \A t \in Configured : ClampThreshold(t) \in Int
    BY ScreenAssumption, ClampFits DEF MinThreshold, MaxThreshold
  <2> QED  BY <2>1 DEF Init, FormType
<1>3. RuleType
  <2>1. NoRule.kind = "none"
    BY DEF NoRule, Rule
  <2>2. \A i \in RuleIds : rules[i] \in Found \cup {NoRule} /\ rules = [j \in RuleIds |-> rules[j]]
    BY DEF Init
  <2>3. hits \in [RuleIds -> Nat] /\ rules = [j \in RuleIds |-> rules[j]]
    BY DEF Init
  <2> QED  BY <2>1, <2>2, <2>3, RuleAssumption DEF RuleType
<1>4. tally = NewTally /\ decided = <<>> /\ Tracked(tally) = {}
  BY EmptyTally DEF Init
<1>5. TallyType /\ OrderInv
  BY <1>4, EmptyTally DEF TallyType, OrderInv
<1>6. Pairs = {} /\ DOMAIN decided = {}
  BY <1>4, EmptyTally DEF Pairs
<1>7. CountInv /\ ThirdInv
  BY <1>4, <1>6 DEF CountInv, ThirdInv
<1>8. ReqType /\ VerdictInv
  <2>1. req = [s \in Subs |-> NoReq] /\ NoReq.at = "none"
    BY DEF Init, NoReq
  <2>2. \A s \in Subs : Request(s, NoReq)
    BY EndedIs
  <2> QED  BY <2>1, <2>2 DEF ReqType, VerdictInv
<1>9. RowType /\ StoredAddsUp /\ OnceInv
  <2>1. row = [s \in Subs |-> NoRow] /\ NoRow.state = "none"
    BY DEF Init, NoRow
  <2> QED  BY <1>6, <2>1 DEF RowType, StoredAddsUp, OnceInv
<1> QED  BY <1>1, <1>2, <1>3, <1>5, <1>7, <1>8, <1>9 DEF IInv, TypeOK

LEMMA StepHolds ==
  ASSUME IInv, [Next]_vars
  PROVE  IInv'
<1> USE DEF IInv
<1>1. LimiterTypeOK' /\ CreditInv'
  BY LimiterStep
<1>2. FormType' /\ RuleType'
  BY FormStep, RuleStep
<1>3. TallyType' /\ OrderInv'
  BY TallyStep
<1>4. ReqType' /\ VerdictInv'
  BY ReqStep
<1>5. RowType' /\ StoredAddsUp'
  BY RowStep
<1>6. CountInv' /\ OnceInv' /\ ThirdInv'
  BY CountStep, OnceStep, ThirdStep
<1> QED  BY <1>1, <1>2, <1>3, <1>4, <1>5, <1>6 DEF TypeOK

\* The inductive invariant holds in every reachable state of the screen and
\* the limiter in front of it.
THEOREM Invariance == Spec => []IInv
<1>1. Init => IInv
  BY InitHolds
<1>2. IInv /\ [Next]_vars => IInv'
  BY StepHolds
<1> QED  BY <1>1, <1>2, PTL DEF Spec

\* Every variable of the screen and the limiter keeps its type.
THEOREM TypeCorrect == Spec => []TypeOK
<1>1. IInv => TypeOK
  BY DEF IInv
<1> QED  BY <1>1, Invariance, PTL

\* However an address's requests fall together with the refill, the sweep
\* that forgets idle buckets and a restart, what it was let through and time
\* has not given back is at most a full bucket.
THEOREM RateKept == Spec => []NeverMoreThanItsRate
<1>1. IInv => NeverMoreThanItsRate
  BY DEF IInv, CreditInv, Fair, NeverMoreThanItsRate
<1> QED  BY <1>1, Invariance, PTL

\* Whatever was typed, restored or configured as a threshold and whichever
\* check held it, a stored row's bar is one a verdict can use, it is held
\* exactly when its score reaches it, and its reasons add up to its score.
THEOREM RowsExplained == Spec => []StoredAddsUp
<1>1. IInv => StoredAddsUp
  BY DEF IInv
<1> QED  BY <1>1, Invariance, PTL

\* From the third of a pair on nothing gets through but what an allow rule
\* excuses, until the tally had to forget a pair; and it never holds more
\* pairs than its limit.
THEOREM ThirdHeld == Spec => []ThirdIsHeld
<1>1. IInv => ThirdIsHeld
  BY DEF IInv, OrderInv, ThirdInv, Pairs, ThirdIsHeld
<1> QED  BY <1>1, Invariance, PTL

\* What an allow rule excused, its sender did: under any rules, a field that
\* does not claim to be the sender's gets nothing through that would be held
\* without it.
THEOREM SenderExcuses == Spec => []OnlyTheSenderExcuses
<1>1. OtherFieldsOnlyHarm
  BY DataAssumption, OnlyHarm DEF OtherFieldsOnlyHarm
<1>2. IInv => OnlyTheSenderExcuses
  BY <1>1 DEF OnlyTheSenderExcuses
<1> QED  BY <1>2, Invariance, PTL

\* ReportedIsInert: a rule that CheckRules reports, and that rules.Match and the
\* scorer do not read again, changes no decision: whatever other rules there
\* are, the verdicts are those without it.
THEOREM ReportedIsInert ==
  ASSUME NEW rs, NEW i \in CheckRules(rs), ~Reread(rs[i]),
         NEW data, NEW ip, NEW asked, NEW repeated
  PROVE  Decide(rs, data, ip, asked, repeated)
           = Decide([j \in DOMAIN rs \ {i} |-> rs[j]], data, ip, asked, repeated)
<1> DEFINE rest == [j \in DOMAIN rs \ {i} |-> rs[j]]
<1>1. PICK others : others = rest
  OBVIOUS
<1>2. DOMAIN others = DOMAIN rs \ {i} /\ \A j \in DOMAIN others : others[j] = rs[j]
  BY <1>1
<1> HIDE DEF rest
<1>3. ASSUME NEW kind \in {"allow", "block"},
             NEW addrs \in {AllAddresses(data), SenderAddresses(data)}
      PROVE  Matching(kind, rs, addrs, ip) = Matching(kind, others, addrs, ip)
  <2>1. ~(rs[i].kind = kind /\ Matches(rs[i], addrs, ip))
    BY <1>3, ReportedMatchesNone
  <2> QED  BY <1>2, <2>1 DEF Matching
<1>4. Match(rs, data, ip) = Match(others, data, ip)
  BY <1>3 DEF Match
<1>5. Match(rs, data, ip) \subseteq DOMAIN others
  BY <1>4 DEF Match, Matching
<1>6. Keywords(rs) = Keywords(others)
  <2>1. ~(rs[i].kind = "block" /\ rs[i].type = "keyword")
    BY DEF Reread
  <2>2. {j \in DOMAIN rs : rs[j].kind = "block" /\ rs[j].type = "keyword"}
          = {j \in DOMAIN others : others[j].kind = "block" /\ others[j].type = "keyword"}
    BY <1>2, <2>1
  <2> QED  BY <1>2, <2>2 DEF Keywords
<1>7. Decide(rs, data, ip, asked, repeated) = Decide(others, data, ip, asked, repeated)
  <2> DEFINE threshold == ClampThreshold(asked)
             ruled(r, j) == IF r.kind = "allow" THEN Verdict(FALSE, {}, threshold, j)
                            ELSE Verdict(TRUE, {Signal("rule", None, r.value.what, threshold)}, threshold, j)
             scored(extra) == DetailWith(data, extra)
                     \cup {Signal("repeat_ip", None, ip, threshold) : x \in {repeated} \cap {TRUE}}
             unruled(extra) == Verdict(Sum(scored(extra)) >= threshold, scored(extra), threshold, None)
  <2>1. \A qs : Decide(qs, data, ip, asked, repeated)
          = IF Match(qs, data, ip) = {} THEN {unruled(Keywords(qs))}
            ELSE {ruled(qs[j], j) : j \in Match(qs, data, ip)}
    BY DEF Decide
  <2> HIDE DEF ruled, unruled
  <2>2. {ruled(rs[j], j) : j \in Match(rs, data, ip)} = {ruled(others[j], j) : j \in Match(rs, data, ip)}
    BY <1>2, <1>5
  <2> QED  BY <1>4, <1>6, <2>1, <2>2
<1> QED  BY <1>1, <1>7 DEF rest

\* What the audit says of a rule is so.
LEMMA AuditIs ==
  ASSUME Telling
  PROVE  AuditIsRight
<1> SUFFICES ASSUME NEW r \in Storable
             PROVE  IF CheckRules(Alone(r)) # {} THEN Reread(r) \/ ChangesNothing(r)
                    ELSE Repeats(r) <=> ChangesNothing(r)
  BY DEF AuditIsRight
<1>1. PICK alone : alone = Alone(r)
  OBVIOUS
<1>2. DOMAIN alone = {1} /\ alone[1] = r
  BY <1>1 DEF Alone
<1>3. ASSUME CheckRules(Alone(r)) # {}, ~Reread(r)
      PROVE  ChangesNothing(r)
  <2>1. 1 \in CheckRules(alone)
    BY <1>1, <1>2, <1>3 DEF CheckRules
  <2>2. ~Reread(alone[1])
    BY <1>2, <1>3
  <2>3. [j \in DOMAIN alone \ {1} |-> alone[j]] = <<>>
    <3>1. DOMAIN alone \ {1} = {}
      BY <1>2
    <3>2. [j \in {} |-> alone[j]] = <<>>
      OBVIOUS
    <3> QED  BY <3>1, <3>2
  <2>4. ASSUME NEW data, NEW ip
        PROVE  Decide(alone, data, ip, DefaultThreshold, FALSE)
                 = Decide(<<>>, data, ip, DefaultThreshold, FALSE)
    <3>1. \A asked, repeated :
             Decide(alone, data, ip, asked, repeated)
               = Decide([j \in DOMAIN alone \ {1} |-> alone[j]], data, ip, asked, repeated)
      BY <2>1, <2>2, ReportedIsInert
    <3>2. Decide(alone, data, ip, DefaultThreshold, FALSE)
            = Decide([j \in DOMAIN alone \ {1} |-> alone[j]], data, ip, DefaultThreshold, FALSE)
      BY <3>1, Zenon
    <3> QED  BY <2>3, <3>2
  <2> QED  BY <1>1, <2>4 DEF ChangesNothing
<1>4. ASSUME CheckRules(Alone(r)) = {}
      PROVE  Repeats(r) <=> ChangesNothing(r)
  <2>1. ASSUME Repeats(r)  PROVE ChangesNothing(r)
    <3>1. r.kind \in {"allow", "block"} /\ ~(r.kind = "allow" /\ r.type = "keyword")
      BY <1>4, NotReported
    <3>2. r.kind = "block"
      BY <2>1, <3>1 DEF Repeats
    <3> QED  BY <2>1, <3>2, RepeatsNothing
  <2>2. ASSUME ~Repeats(r)  PROVE ~ChangesNothing(r)
    <3>1. \E data \in Contents, ip \in Ips :
             Decide(Alone(r), data, ip, DefaultThreshold, FALSE)
               # Decide(<<>>, data, ip, DefaultThreshold, FALSE)
      BY <1>4, <2>2, UnreportedTells
    <3> QED  BY <3>1 DEF ChangesNothing
  <2> QED  BY <2>1, <2>2
<1> QED  BY <1>3, <1>4

\* ProblemsAreInert: of the rules the database can hold, one that CheckRules
\* reports changes no decision unless it is a word, a network or a host that is
\* read again; and where the contents can hold whatever a rule can name, one it
\* does not report changes some decision unless the built-in list has its word.
THEOREM ProblemsTold ==
  ASSUME Telling
  PROVE  Spec => []ProblemsAreInert
<1>1. AuditIsRight
  BY AuditIs
<1>2. IInv => ProblemsAreInert
  BY <1>1 DEF ProblemsAreInert
<1> QED  BY <1>2, Invariance, PTL
=============================================================================
