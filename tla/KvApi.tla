--------------------------------- MODULE KvApi ---------------------------------
(***************************************************************************)
(* The messages of kv.proto and what one cache operation does when nothing *)
(* interferes with it: the answer and the new contents of the container,   *)
(* read off Cache::put, Cache::get and Cache::remove.                      *)
(***************************************************************************)
EXTENDS LruCache

\* KvRequest: a key and, for put, an optional value.
Request ==
         [op : {"put"}, key : Key, value : Value \cup {None}]
    \cup [op : {"get", "remove"}, key : Key, value : {None}]

NoRequest == [op |-> "none", key |-> None, value |-> None]

\* KvResponse: the code and the optional value.  Unset is a response whose
\* required fields nobody has assigned.
Code == {"Ok", "InvalidArgument", "NotFound"}
Answer(code, value) == [code |-> code, value |-> value]
Unset == Answer("Unset", None)
Response == [code : Code \cup {"Unset"}, value : Value \cup {None}]

\* The answer to request r of a cache that holds c.
Reply(c, r) ==
    CASE r.op = "put" -> IF r.value = None THEN Answer("InvalidArgument", None)
                                           ELSE Answer("Ok", None)
      [] OTHER        -> IF Has(c, r.key) THEN Answer("Ok", c.val[r.key])
                                          ELSE Answer("NotFound", None)

\* Mutant of Effect: remove looks the key up and leaves it there.
EffectKeepsRemoved(c, r) ==
    CASE r.op = "put" -> IF r.value = None THEN c ELSE Store(c, r.key, r.value)
      [] OTHER        -> TryGet(c, r.key)

\* Mutant of Effect: a get that misses makes room for the key, as if it were
\* going to load it.
EffectMissMakesRoom(c, r) ==
    CASE r.op = "put"    -> IF r.value = None THEN c ELSE Store(c, r.key, r.value)
      [] r.op = "get"    -> IF Has(c, r.key) THEN Touch(c, r.key) ELSE MakeRoom(c)
      [] r.op = "remove" -> Drop(c, r.key)

\* Mutant of Effect: a put inserts the key only when it is not there.
EffectKeepsOld(c, r) ==
    CASE r.op = "put" -> IF r.value = None \/ Has(c, r.key) THEN TryGet(c, r.key)
                         ELSE Store(c, r.key, r.value)
      [] r.op = "get"    -> TryGet(c, r.key)
      [] r.op = "remove" -> Drop(c, r.key)

\* The cache after request r.
Effect(c, r) ==
    CASE r.op = "put"    -> IF r.value = None THEN c ELSE Store(c, r.key, r.value)
      [] r.op = "get"    -> TryGet(c, r.key)
      [] r.op = "remove" -> Drop(c, r.key)
-------------------------------------------------------------------------------
\* A plain store, a function from keys to values and None: its answer to
\* request r, the store afterwards, and what a store that may forget can become
\* by r.  Only a put pushes other keys out.
StoreReply(s, r) ==
    CASE r.op = "put" -> Answer(IF r.value = None THEN "InvalidArgument" ELSE "Ok", None)
      [] OTHER -> IF s[r.key] = None THEN Answer("NotFound", None)
                                     ELSE Answer("Ok", s[r.key])

StoreAfter(s, r) ==
    CASE r.op = "put" /\ r.value # None -> [s EXCEPT ![r.key] = r.value]
      [] r.op = "remove"                -> [s EXCEPT ![r.key] = None]
      [] OTHER                          -> s

StoreStep(s, r, t) ==
    \E gone \in SUBSET (Key \ {r.key}) :
        /\ gone # {} => r.op = "put"
        /\ t = [k \in Key |-> IF k \in gone THEN None ELSE StoreAfter(s, r)[k]]
===============================================================================
