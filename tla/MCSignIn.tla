------------------------------ MODULE MCSignIn ------------------------------
(* An instance of SignIn for TLC.                                           *)
EXTENDS SignIn, TLC

Symmetry == Permutations(Users) \cup Permutations(Requests) \cup Permutations(Sessions)
=============================================================================
