------------------------------ MODULE MCEngine -------------------------------
(* Instances of the match engine for TLC.                                   *)
EXTENDS Views, TLC

UserSymmetry == Permutations(Users)
==============================================================================
