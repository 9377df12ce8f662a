---------------------------- MODULE MCQuarantine ----------------------------
(* Instances of Quarantine for TLC.                                        *)
EXTENDS Quarantine, TLC

CONSTANTS f1, f2, s1, s2

\* Every submission of the run is posted to one form.
OneForm == [s \in Ids |-> f1]

\* One submission each to two forms.
TwoForms == [s \in Ids |-> IF s = s1 THEN f1 ELSE f2]

WorkerSymmetry == Permutations(Workers)
=============================================================================
