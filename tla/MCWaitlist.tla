----------------------------- MODULE MCWaitlist -----------------------------
(* Two lists, two addresses, three signups, of which two are of one        *)
(* address; a broadcast or a look through the pages, of one entry each.    *)
EXTENDS Waitlist, TLC

CONSTANTS w1, w2, s1, s2, s3, a1, a2, c1

To(w, email) == [list |-> w, honeypot |-> FALSE, email |-> email]

MCPosted ==
    s1 :> {To(w1, a1)}
 @@ s2 :> {To(w1, a1)}
 @@ s3 :> {To(w1, a2), To(w2, a1), To(w2, None), [To(w2, a1) EXCEPT !.honeypot = TRUE]}

MCCastOn == c1 :> w1
=============================================================================
