------------------------------- MODULE Limiter -------------------------------
(***************************************************************************)
(* The per-address token bucket in front of the public endpoints.  Time    *)
(* goes by in ticks, the time one unit of a token takes to come back; a    *)
(* request costs `cost` units, so a fraction of a token counts.  The       *)
(* counters a bucket keeps for the admin's panel decide nothing and are    *)
(* left out, and so is the rounding of the code's floating point.          *)
(***************************************************************************)
EXTENDS Integers

CONSTANTS Ips,      \* what the client's address is recorded as
          burst,    \* tokens in a full bucket
          cost,     \* units in a token
          maxAge,   \* how long an idle bucket is remembered
          maxNow,   \* bound on the clock
          NoBucket

ASSUME LimiterAssumption ==
    /\ burst \in Nat \ {0} /\ cost \in Nat \ {0} /\ maxAge \in Nat /\ maxNow \in Nat
    /\ NoBucket \notin [tokens : Nat, lastSeen : Nat]

Full == burst * cost

(* A bucket is full again before it may be forgotten: 30 minutes and, by   *)
(* default, 5 tokens at 6 a minute.                                        *)
ASSUME RefillAssumption == maxAge >= Full

VARIABLES now,       \* the clock
          bucket,    \* [Ips -> Bucket \cup {NoBucket}]
          debt       \* [Ips -> Debt]: what it took and time has not given back

limiterVars == <<now, bucket, debt>>

Bucket == [tokens : 0..Full, lastSeen : 0..maxNow]

Debt == [units : Nat, since : 0..maxNow]

NoDebt == [units |-> 0, since |-> 0]

LimiterTypeOK ==
    /\ now \in 0..maxNow
    /\ bucket \in [Ips -> Bucket \cup {NoBucket}]
    /\ debt \in [Ips -> Debt]

LimiterInit ==
    /\ now = 0
    /\ bucket = [ip \in Ips |-> NoBucket]
    /\ debt = [ip \in Ips |-> NoDebt]

\* Mutant: what comes back is not capped at a full bucket.
Refilled_Uncapped(b) == IF b = NoBucket THEN Full ELSE b.tokens + (now - b.lastSeen)

(* A new bucket is full; an old one has got back what time gives it. *)
Refilled(b) ==
    IF b = NoBucket \/ b.tokens + (now - b.lastSeen) > Full
    THEN Full
    ELSE b.tokens + (now - b.lastSeen)

(* What of a debt is left now: it goes down by a unit a tick. *)
Left(d) == IF d.units > now - d.since THEN d.units - (now - d.since) ELSE 0

Allow(ip) ==
    /\ Refilled(bucket[ip]) >= cost
    /\ bucket' = [bucket EXCEPT ![ip] = [tokens |-> Refilled(@) - cost, lastSeen |-> now]]
    /\ debt' = [debt EXCEPT ![ip] = [units |-> Left(@) + cost, since |-> now]]
    /\ UNCHANGED now

Throttle(ip) ==
    /\ Refilled(bucket[ip]) < cost
    /\ bucket' = [bucket EXCEPT ![ip] = [tokens |-> Refilled(@), lastSeen |-> now]]
    /\ UNCHANGED <<now, debt>>

(* The sweep, one bucket at a time: it takes no decision between two. *)
Cleanup(ip) ==
    /\ bucket[ip] # NoBucket
    /\ now - bucket[ip].lastSeen > maxAge
    /\ bucket' = [bucket EXCEPT ![ip] = NoBucket]
    /\ UNCHANGED <<now, debt>>

Tick ==
    /\ now < maxNow
    /\ now' = now + 1
    /\ UNCHANGED <<bucket, debt>>

(* A restart forgets the buckets, and what they let through with them. *)
Forget ==
    /\ bucket' = [ip \in Ips |-> NoBucket]
    /\ debt' = [ip \in Ips |-> NoDebt]
    /\ UNCHANGED now

(* What an address gets through, less what time gave back, never passes a  *)
(* full bucket: in every stretch of a run it gets at most a full bucket    *)
(* and the refill of that stretch, however its requests fall together      *)
(* with the refill and the sweep.                                          *)
NeverMoreThanItsRate == \A ip \in Ips : debt[ip].units <= Full
=============================================================================
