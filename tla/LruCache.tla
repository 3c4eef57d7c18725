------------------------------- MODULE LruCache -------------------------------
(***************************************************************************)
(* turbo::LRUCache<std::string, std::string>, the container halakv::Cache  *)
(* wraps.  It is not in the repository; it is modelled from the calls      *)
(* cache.cc makes: construction with a capacity, put, try_get, remove.     *)
(* Each call is one atomic step.  The container is a map and a list of its *)
(* keys, the most recently used one first.                                 *)
(***************************************************************************)
EXTENDS Naturals, Sequences

CONSTANTS
    Key,        \* the keys of the store
    Value,      \* the values of the store
    None,       \* the absent value
    Capacity    \* the argument of Cache::init, --cache_size

ASSUME NoneAssumption == None \notin Value
ASSUME CapacityAssumption == Capacity \in Nat \ {0}

Cache == [val : [Key -> Value \cup {None}], order : Seq(Key)]

EmptyCache == [val |-> [k \in Key |-> None], order |-> << >>]

Has(c, k) == c.val[k] # None

\* The list s without its element k, which occurs in it.
Without(s, k) ==
    LET at == CHOOSE i \in DOMAIN s : s[i] = k
    IN  [i \in 1 .. Len(s) - 1 |-> IF i < at THEN s[i] ELSE s[i + 1]]

\* A hit moves the key to the front of the list.
Touch(c, k) == [val |-> c.val, order |-> <<k>> \o Without(c.order, k)]

\* remove(k) of a key that is there; nothing otherwise.
Drop(c, k) ==
    IF Has(c, k)
    THEN [val |-> [c.val EXCEPT ![k] = None], order |-> Without(c.order, k)]
    ELSE c

LeastRecent(c) == c.order[Len(c.order)]

\* Mutant of MakeRoom: the container holds one key too many.
MakeRoomLate(c) ==
    IF Len(c.order) > Capacity THEN Drop(c, LeastRecent(c)) ELSE c

\* The container after put of a key it does not hold: a full one first gives
\* up its least recently used key.
MakeRoom(c) ==
    IF Len(c.order) >= Capacity THEN Drop(c, LeastRecent(c)) ELSE c

\* put(k, v)
Store(c, k, v) ==
    IF Has(c, k)
    THEN Touch([val |-> [c.val EXCEPT ![k] = v], order |-> c.order], k)
    ELSE LET room == MakeRoom(c)
         IN  [val   |-> [room.val EXCEPT ![k] = v],
              order |-> <<k>> \o room.order]

\* The container after try_get(k); what it returns is c.val[k].
TryGet(c, k) == IF Has(c, k) THEN Touch(c, k) ELSE c

\* The map and the list hold the same keys, each once, within the capacity.
WellFormed(c) ==
    /\ c \in Cache
    /\ Len(c.order) <= Capacity
    /\ \A i, j \in 1 .. Len(c.order) : c.order[i] = c.order[j] => i = j
    /\ \A k \in Key : Has(c, k) <=> \E i \in 1 .. Len(c.order) : c.order[i] = k
===============================================================================
