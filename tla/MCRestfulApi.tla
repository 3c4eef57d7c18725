------------------------------ MODULE MCRestfulApi ------------------------------
(* RestfulApi for TLC. *)
EXTENDS RestfulApi, TLC

Symmetry == Permutations(Browser) \cup Permutations(Value)
===============================================================================
