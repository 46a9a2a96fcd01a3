------------------------------ MODULE MCEngine ------------------------------
(* Instances of Engine for TLC. *)
EXTENDS Engine, TLC

\* Pointers are only compared with one another.
Symmetric == Permutations(Pointers)
=============================================================================
