--------------------------- MODULE MCBroadcaster ---------------------------
(* An instance of Broadcaster for TLC: two broadcasts of two waitlists, the *)
(* first to two recipients and the second to one.                           *)
EXTENDS Broadcaster

CONSTANTS l1, l2

TwoAndOne == [d \in Deliveries |-> IF d <= 2 THEN 1 ELSE 2]

OwnList == [b \in Broadcasts |-> IF b = 1 THEN l1 ELSE l2]
=============================================================================
