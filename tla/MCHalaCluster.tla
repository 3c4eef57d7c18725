---------------------------- MODULE MCHalaCluster ----------------------------
(* HalaCluster for TLC: two processes that agree on their peers. *)
EXTENDS HalaCluster, TLC

MCNode == {"n1", "n2"}
MCPeers == [n \in MCNode |-> <<"n1", "n2">>]
MCKey == {"x", "y"}

\* x belongs to n1 and y to n2.
MCHash == [k \in MCKey |-> IF k = "x" THEN 4 ELSE 7]

\* Both belong to n1 and compete for its cache.
MCHashSame == [k \in MCKey |-> IF k = "x" THEN 4 ELSE 6]

Put(k, v) == [op |-> "put", key |-> k, value |-> v]
Get(k) == [op |-> "get", key |-> k, value |-> None]
Remove(k) == [op |-> "remove", key |-> k, value |-> None]

\* Every operation on one key, and a second key to tell the processes apart.
MCWorkload ==
    {Put("x", v) : v \in Value} \cup {Get("x"), Remove("x")}
                                \cup {Put("y", v) : v \in Value}

Symmetry == Permutations(Call) \cup Permutations(Value)
===============================================================================
