------------------------------ MODULE MCHalaCache ------------------------------
(* HalaCache for TLC. *)
EXTENDS HalaCache, TLC

\* Threads, keys and values are interchangeable for the safety properties.
Symmetry == Permutations(Thread) \cup Permutations(Key) \cup Permutations(Value)
===============================================================================
