------------------------------ MODULE MCOAuth ------------------------------
(* An instance of OAuth for TLC.                                            *)
EXTENDS OAuth, TLC

Symmetry == Permutations(Codes) \cup Permutations(Grants) \cup Permutations(Pairs)
              \cup Permutations(Users)
=============================================================================
