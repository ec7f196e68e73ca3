------------------------------ MODULE MCSocket -------------------------------
(***************************************************************************)
(* Socket with a symmetry for TLC: clients are interchangeable, as far as  *)
(* the bound Users treats them alike.                                      *)
(***************************************************************************)
EXTENDS Socket, TLC

ClientSymmetry == Permutations(Users) \cup Permutations(Clients \ Users)
=============================================================================
