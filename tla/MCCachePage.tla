----------------------------- MODULE MCCachePage -----------------------------
(* CachePage for TLC: two keys, one of which a010 forwards. *)
EXTENDS CachePage, TLC

MCKey == {"k", "l"}
MCUrlKey == [t \in MCKey |-> t]

Symmetry == Permutations(Page)
===============================================================================
