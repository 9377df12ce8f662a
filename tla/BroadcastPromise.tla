-------------------------- MODULE BroadcastPromise --------------------------
(***************************************************************************)
(* What a broadcast promises its operator, with no worker in sight: one    *)
(* delivery per recipient, each settled for good once, as sent only if its *)
(* mail left; and a broadcast that reads as done when all are settled, and *)
(* in the end always does, unless its waitlist is deleted.                 *)
(***************************************************************************)
CONSTANTS Broadcasts,  \* broadcasts
          Deliveries,  \* deliveries
          Of           \* the broadcast each delivery belongs to

VARIABLES bstate,  \* none, sending, done, or gone with its waitlist
          dstate,  \* none, pending, sent, failed, or gone
          mailed   \* the deliveries whose mail has left at least once

vars == <<bstate, dstate, mailed>>

Recipients(b) == {d \in Deliveries : Of[d] = b}

Init ==
  /\ bstate = [b \in Broadcasts |-> "none"]
  /\ dstate = [d \in Deliveries |-> "none"]
  /\ mailed = {}

Create(b) ==
  /\ bstate[b] = "none"
  /\ bstate' = [bstate EXCEPT ![b] = "sending"]
  /\ dstate' = [d \in Deliveries |-> IF Of[d] = b THEN "pending" ELSE dstate[d]]
  /\ UNCHANGED mailed

\* A mail leaves for a delivery that is open, or was when its waitlist went.
Mail(d) ==
  /\ dstate[d] \in {"pending", "gone"}
  /\ mailed' = mailed \cup {d}
  /\ UNCHANGED <<bstate, dstate>>

Settle(d) ==
  /\ dstate[d] = "pending"
  /\ \/ d \in mailed /\ dstate' = [dstate EXCEPT ![d] = "sent"]
     \/ dstate' = [dstate EXCEPT ![d] = "failed"]
  /\ UNCHANGED <<bstate, mailed>>

Close(b) ==
  /\ bstate[b] = "sending"
  /\ \A d \in Recipients(b) : dstate[d] # "pending"
  /\ bstate' = [bstate EXCEPT ![b] = "done"]
  /\ UNCHANGED <<dstate, mailed>>

Remove(B) ==
  /\ \A b \in B : bstate[b] \in {"sending", "done"}
  /\ bstate' = [b \in Broadcasts |-> IF b \in B THEN "gone" ELSE bstate[b]]
  /\ dstate' = [d \in Deliveries |-> IF Of[d] \in B THEN "gone" ELSE dstate[d]]
  /\ UNCHANGED mailed

Next ==
  \/ \E b \in Broadcasts : Create(b) \/ Close(b)
  \/ \E d \in Deliveries : Mail(d) \/ Settle(d)
  \/ \E B \in SUBSET Broadcasts : Remove(B)

Spec ==
  /\ Init /\ [][Next]_vars
  /\ \A d \in Deliveries : WF_vars(Settle(d))
  /\ \A b \in Broadcasts : WF_vars(Close(b))
=============================================================================
