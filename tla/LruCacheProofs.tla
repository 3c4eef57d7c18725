----------------------------- MODULE LruCacheProofs -----------------------------
(***************************************************************************)
(* The operations of the container keep it well formed: its map and its    *)
(* recency list agree, and it never outgrows its capacity; and what the     *)
(* operations of KvApi make of it.                                          *)
(***************************************************************************)
EXTENDS KvApi, FiniteSetTheorems, FunctionTheorems, TLAPS

Distinct(s) == \A i, j \in 1 .. Len(s) : s[i] = s[j] => i = j
Occurs(k, s) == \E i \in 1 .. Len(s) : s[i] = k

\* Taking a key out of the recency list shortens the list by one and leaves
\* every other key in it once (what _cache->remove does to the list).
LEMMA WithoutProperties ==
    ASSUME NEW s \in Seq(Key), Distinct(s), NEW k, Occurs(k, s)
    PROVE  /\ Without(s, k) \in Seq(Key)
           /\ Len(Without(s, k)) = Len(s) - 1
           /\ Distinct(Without(s, k))
           /\ \A x : Occurs(x, Without(s, k)) <=> Occurs(x, s) /\ x # k
<1> DEFINE at == CHOOSE i \in DOMAIN s : s[i] = k
           w == Without(s, k)
<1>1. at \in 1 .. Len(s) /\ s[at] = k
  BY DEF Occurs
<1>2. w = [i \in 1 .. Len(s) - 1 |-> IF i < at THEN s[i] ELSE s[i + 1]]
  BY DEF Without
<1>3. w \in Seq(Key) /\ Len(w) = Len(s) - 1
  <2>1. Len(s) \in Nat /\ Len(s) - 1 \in Nat
    BY <1>1
  <2>2. \A i \in 1 .. Len(s) - 1 : w[i] \in Key
    BY <1>1, <1>2, <2>1
  <2>3. w \in [1 .. Len(s) - 1 -> Key]
    BY <1>2, <2>2
  <2> QED BY <2>1, <2>3
<1>4. Distinct(w)
  BY <1>1, <1>2, <1>3 DEF Distinct
<1>5. ASSUME NEW x
      PROVE  Occurs(x, w) <=> Occurs(x, s) /\ x # k
  <2>1. ASSUME Occurs(x, w) PROVE Occurs(x, s) /\ x # k
    <3>1. PICK i \in 1 .. Len(s) - 1 : w[i] = x
      BY <2>1, <1>3 DEF Occurs
    <3>2. CASE i < at
      BY <3>1, <3>2, <1>1, <1>2 DEF Occurs, Distinct
    <3>3. CASE ~(i < at)
      BY <3>1, <3>3, <1>1, <1>2 DEF Occurs, Distinct
    <3> QED BY <3>2, <3>3
  <2>2. ASSUME Occurs(x, s), x # k PROVE Occurs(x, w)
    <3>1. PICK i \in 1 .. Len(s) : s[i] = x
      BY <2>2 DEF Occurs
    <3>2. CASE i < at
      <4>1. i \in 1 .. Len(s) - 1 /\ w[i] = x
        BY <3>1, <3>2, <1>1, <1>2
      <4> QED BY <4>1, <1>3 DEF Occurs
    <3>3. CASE i > at
      <4>1. i - 1 \in 1 .. Len(s) - 1 /\ w[i - 1] = x
        BY <3>1, <3>3, <1>1, <1>2
      <4> QED BY <4>1, <1>3 DEF Occurs
    <3> QED BY <3>1, <3>2, <3>3, <1>1, <2>2
  <2> QED BY <2>1, <2>2
<1> QED BY <1>3, <1>4, <1>5

\* Putting a new key at the head of a list of distinct keys.
LEMMA PrependProperties ==
    ASSUME NEW s \in Seq(Key), Distinct(s), NEW k \in Key, ~Occurs(k, s)
    PROVE  /\ <<k>> \o s \in Seq(Key)
           /\ Len(<<k>> \o s) = Len(s) + 1
           /\ Distinct(<<k>> \o s)
           /\ \A x : Occurs(x, <<k>> \o s) <=> Occurs(x, s) \/ x = k
<1> DEFINE p == <<k>> \o s
<1>1. /\ p \in Seq(Key)
      /\ Len(s) \in Nat
      /\ Len(p) = Len(s) + 1
      /\ p[1] = k
      /\ \A i \in 1 .. Len(s) : p[i + 1] = s[i]
  OBVIOUS
<1> HIDE DEF p
<1>2. \A i \in 1 .. Len(p) : i = 1 \/ (i - 1 \in 1 .. Len(s) /\ p[i] = s[i - 1])
  <2>1. SUFFICES ASSUME NEW i \in 1 .. Len(p), i # 1
                 PROVE  i - 1 \in 1 .. Len(s) /\ p[i] = s[i - 1]
    OBVIOUS
  <2>2. i - 1 \in 1 .. Len(s) /\ (i - 1) + 1 = i
    BY <2>1, <1>1
  <2> QED BY <2>2, <1>1
<1>3. Distinct(p)
  <2>1. SUFFICES ASSUME NEW i \in 1 .. Len(p), NEW j \in 1 .. Len(p), p[i] = p[j]
                 PROVE  i = j
    BY DEF Distinct
  <2>2. CASE i = 1 \/ j = 1
    BY <2>1, <2>2, <1>1, <1>2 DEF Occurs
  <2>3. CASE i # 1 /\ j # 1
    <3>1. i - 1 \in 1 .. Len(s) /\ j - 1 \in 1 .. Len(s) /\ s[i - 1] = s[j - 1]
      BY <2>1, <2>3, <1>2
    <3>2. i - 1 = j - 1
      BY <3>1 DEF Distinct
    <3> QED BY <3>2, <2>1
  <2> QED BY <2>2, <2>3
<1>4. ASSUME NEW x PROVE Occurs(x, p) <=> Occurs(x, s) \/ x = k
  <2>1. ASSUME Occurs(x, p) PROVE Occurs(x, s) \/ x = k
    <3>1. PICK i \in 1 .. Len(p) : p[i] = x
      BY <2>1 DEF Occurs
    <3> QED BY <3>1, <1>1, <1>2 DEF Occurs
  <2>2. ASSUME Occurs(x, s) PROVE Occurs(x, p)
    <3>1. PICK i \in 1 .. Len(s) : s[i] = x
      BY <2>2 DEF Occurs
    <3>2. i + 1 \in 1 .. Len(p) /\ p[i + 1] = x
      BY <3>1, <1>1
    <3> QED BY <3>2 DEF Occurs
  <2>3. ASSUME x = k PROVE Occurs(x, p)
    BY <2>3, <1>1 DEF Occurs
  <2> QED BY <2>1, <2>2, <2>3
<1> QED BY <1>1, <1>3, <1>4 DEF p

\* An empty container is well formed.
LEMMA EmptyWellFormed == WellFormed(EmptyCache)
BY CapacityAssumption DEF WellFormed, EmptyCache, Cache, Has

\* A hit changes the recency list only, and keeps the container well formed.
LEMMA TouchWellFormed ==
    ASSUME NEW c, WellFormed(c), NEW k \in Key, Has(c, k)
    PROVE  WellFormed(Touch(c, k)) /\ Touch(c, k).val = c.val
<1> DEFINE rest == Without(c.order, k)
           new  == <<k>> \o rest
<1>1. /\ c.val \in [Key -> Value \cup {None}]
      /\ c.order \in Seq(Key)
      /\ Distinct(c.order)
      /\ Occurs(k, c.order)
      /\ c = [val |-> c.val, order |-> c.order]
      /\ Len(c.order) \in Nat /\ Len(c.order) <= Capacity
  BY DEF WellFormed, Cache, Distinct, Occurs
<1>2. /\ rest \in Seq(Key) /\ Len(rest) = Len(c.order) - 1 /\ Distinct(rest)
      /\ \A x : Occurs(x, rest) <=> Occurs(x, c.order) /\ x # k
  BY <1>1, WithoutProperties
<1>3. /\ new \in Seq(Key) /\ Len(new) = Len(c.order) /\ Distinct(new)
      /\ \A x : Occurs(x, new) <=> Occurs(x, c.order)
  BY <1>1, <1>2, PrependProperties
<1>4. Touch(c, k) = [val |-> c.val, order |-> new]
  BY <1>1 DEF Touch
<1> HIDE DEF new
<1>5. WellFormed([val |-> c.val, order |-> new])
  BY <1>1, <1>3 DEF WellFormed, Cache, Has, Distinct, Occurs
<1> QED BY <1>4, <1>5

\* try_get keeps the container well formed and the values as they are.
LEMMA TryGetWellFormed ==
    ASSUME NEW c, WellFormed(c), NEW k \in Key
    PROVE  WellFormed(TryGet(c, k)) /\ TryGet(c, k).val = c.val
BY TouchWellFormed DEF TryGet

\* remove leaves a well-formed container in which only that key is gone.
LEMMA DropWellFormed ==
    ASSUME NEW c, WellFormed(c), NEW k \in Key
    PROVE  /\ WellFormed(Drop(c, k))
           /\ Drop(c, k).val = [c.val EXCEPT ![k] = None]
           /\ Has(c, k) => Len(Drop(c, k).order) = Len(c.order) - 1
<1> DEFINE rest == Without(c.order, k)
           new  == [c.val EXCEPT ![k] = None]
<1>1. /\ c.val \in [Key -> Value \cup {None}]
      /\ c.order \in Seq(Key)
      /\ Distinct(c.order)
      /\ Len(c.order) \in Nat /\ Len(c.order) <= Capacity
      /\ \A x \in Key : Has(c, x) <=> Occurs(x, c.order)
  BY DEF WellFormed, Cache, Distinct, Occurs
<1>2. CASE ~Has(c, k)
  BY <1>1, <1>2 DEF Drop, Has
<1>3. CASE Has(c, k)
  <2>1. /\ rest \in Seq(Key) /\ Len(rest) = Len(c.order) - 1 /\ Distinct(rest)
        /\ \A x : Occurs(x, rest) <=> Occurs(x, c.order) /\ x # k
    BY <1>1, <1>3, WithoutProperties
  <2>2. Drop(c, k) = [val |-> new, order |-> rest]
    BY <1>3 DEF Drop
  <2>3. /\ new \in [Key -> Value \cup {None}]
        /\ \A x \in Key : new[x] # None <=> c.val[x] # None /\ x # k
    BY <1>1
  <2>4. Len(rest) <= Capacity
    BY <1>1, <2>1, CapacityAssumption
  <2> HIDE DEF rest, new
  <2>5. WellFormed([val |-> new, order |-> rest])
    BY <1>1, <2>1, <2>3, <2>4 DEF WellFormed, Cache, Has, Distinct, Occurs
  <2> QED BY <2>1, <2>2, <2>5 DEF new
<1> QED BY <1>2, <1>3

\* put keeps the container well formed; it stores the value, and the only other
\* key it may take out is the least recently used one of a full container.
LEMMA StoreWellFormed ==
    ASSUME NEW c, WellFormed(c), NEW k \in Key, NEW v \in Value
    PROVE  /\ WellFormed(Store(c, k, v))
           /\ Store(c, k, v).val[k] = v
           /\ \A j \in Key : Store(c, k, v).val[j] # c.val[j] =>
                 \/ j = k
                 \/ ~Has(c, k) /\ Len(c.order) = Capacity /\ j = LeastRecent(c)
<1>1. /\ c.val \in [Key -> Value \cup {None}]
      /\ c.order \in Seq(Key)
      /\ Distinct(c.order)
      /\ Len(c.order) \in Nat /\ Len(c.order) <= Capacity
      /\ \A x \in Key : Has(c, x) <=> Occurs(x, c.order)
  BY DEF WellFormed, Cache, Distinct, Occurs
<1>2. CASE Has(c, k)
  <2> DEFINE d == [val |-> [c.val EXCEPT ![k] = v], order |-> c.order]
  <2>1. /\ d.val \in [Key -> Value \cup {None}]
        /\ \A x \in Key : d.val[x] # None <=> c.val[x] # None
        /\ d.val[k] = v
        /\ \A x \in Key \ {k} : d.val[x] = c.val[x]
        /\ d.order = c.order
    BY <1>1, <1>2, NoneAssumption DEF Has
  <2>2. d = [val |-> d.val, order |-> d.order]
    OBVIOUS
  <2>3. Store(c, k, v) = Touch(d, k)
    BY <1>2 DEF Store
  <2> HIDE DEF d
  <2>4. d \in Cache
    BY <1>1, <2>1, <2>2 DEF Cache
  <2>5. WellFormed(d) /\ Has(d, k)
    BY <1>1, <1>2, <2>1, <2>4 DEF WellFormed, Has, Distinct, Occurs
  <2>6. WellFormed(Touch(d, k)) /\ Touch(d, k).val = d.val
    BY <2>5, TouchWellFormed
  <2> QED BY <2>1, <2>3, <2>6
<1>3. CASE ~Has(c, k)
  <2> DEFINE room == MakeRoom(c)
             val2 == [room.val EXCEPT ![k] = v]
             ord2 == <<k>> \o room.order
  <2>1. Store(c, k, v) = [val |-> val2, order |-> ord2]
    BY <1>3 DEF Store
  <2>2. /\ WellFormed(room)
        /\ Len(room.order) < Capacity
        /\ ~Has(room, k)
        /\ \A j \in Key : room.val[j] # c.val[j] =>
              Len(c.order) = Capacity /\ j = LeastRecent(c)
    <3>1. CASE Len(c.order) >= Capacity
      <4>1. Len(c.order) = Capacity /\ Len(c.order) \in 1 .. Len(c.order)
        BY <1>1, <3>1, CapacityAssumption
      <4>2. LeastRecent(c) \in Key /\ Occurs(LeastRecent(c), c.order)
        BY <1>1, <4>1 DEF LeastRecent, Occurs
      <4>3. room = Drop(c, LeastRecent(c))
        BY <3>1 DEF MakeRoom
      <4>4. /\ WellFormed(room)
            /\ room.val = [c.val EXCEPT ![LeastRecent(c)] = None]
            /\ Len(room.order) = Len(c.order) - 1
        BY <1>1, <4>2, <4>3, DropWellFormed
      <4> HIDE DEF room
      <4>5. Len(room.order) < Capacity
        BY <4>1, <4>4, CapacityAssumption
      <4>6. /\ ~Has(room, k)
            /\ \A j \in Key : room.val[j] # c.val[j] => j = LeastRecent(c)
        BY <1>1, <1>3, <4>2, <4>4 DEF Has
      <4> QED BY <4>1, <4>4, <4>5, <4>6
    <3>2. CASE ~(Len(c.order) >= Capacity)
      BY <1>1, <1>3, <3>2, CapacityAssumption DEF MakeRoom
    <3> QED BY <3>1, <3>2
  <2> HIDE DEF room
  <2>3. /\ room.val \in [Key -> Value \cup {None}]
        /\ room.order \in Seq(Key)
        /\ Distinct(room.order)
        /\ Len(room.order) \in Nat
        /\ ~Occurs(k, room.order)
        /\ \A x \in Key : Has(room, x) <=> Occurs(x, room.order)
    <3>1. /\ room.val \in [Key -> Value \cup {None}]
          /\ room.order \in Seq(Key)
          /\ Len(room.order) \in Nat
          /\ Distinct(room.order)
      BY <2>2 DEF WellFormed, Cache, Distinct
    <3>2. \A x \in Key : Has(room, x) <=> Occurs(x, room.order)
      BY <2>2 DEF WellFormed, Occurs
    <3> QED BY <2>2, <3>1, <3>2
  <2>4. /\ ord2 \in Seq(Key)
        /\ Len(ord2) = Len(room.order) + 1
        /\ Distinct(ord2)
        /\ \A x : Occurs(x, ord2) <=> Occurs(x, room.order) \/ x = k
    BY <2>3, PrependProperties
  <2>5. /\ val2 \in [Key -> Value \cup {None}]
        /\ val2[k] = v
        /\ \A x \in Key \ {k} : val2[x] = room.val[x]
    BY <2>3
  <2>6. Len(ord2) <= Capacity
    BY <2>2, <2>3, <2>4, CapacityAssumption
  <2> HIDE DEF ord2, val2
  <2>7. WellFormed([val |-> val2, order |-> ord2])
    <3>1. [val |-> val2, order |-> ord2] \in Cache
      BY <2>4, <2>5 DEF Cache
    <3>2. \A x \in Key : val2[x] # None <=> Occurs(x, ord2)
      BY <2>3, <2>4, <2>5, NoneAssumption DEF Has
    <3> QED BY <3>1, <3>2, <2>4, <2>6 DEF WellFormed, Has, Distinct, Occurs
  <2> QED BY <1>3, <2>1, <2>2, <2>5, <2>7
<1> QED BY <1>2, <1>3

\* A key other than the one put keeps its value or is gone.
LEMMA StoreKeepsOthers ==
    ASSUME NEW c, WellFormed(c), NEW k \in Key, NEW v \in Value,
           NEW j \in Key, j # k, Has(Store(c, k, v), j)
    PROVE  Store(c, k, v).val[j] = c.val[j]
<1>1. /\ c.val \in [Key -> Value \cup {None}]
      /\ c.order \in Seq(Key)
      /\ Len(c.order) \in Nat
  BY DEF WellFormed, Cache
<1>2. CASE Has(c, k)
  BY <1>1, <1>2 DEF Store, Touch
<1>3. CASE ~Has(c, k)
  <2>1. Store(c, k, v).val[j] = MakeRoom(c).val[j]
    <3>1. MakeRoom(c).val \in [Key -> Value \cup {None}]
      BY <1>1 DEF MakeRoom, Drop
    <3> QED BY <1>3, <3>1 DEF Store
  <2>2. MakeRoom(c).val[j] \in {c.val[j], None}
    BY <1>1 DEF MakeRoom, Drop
  <2> QED BY <2>1, <2>2 DEF Has
<1> QED BY <1>2, <1>3

\* Removing a key right after a lookup moved it to the front leaves what
\* removing it without the lookup leaves.
LEMMA DropAfterTouch ==
    ASSUME NEW c, WellFormed(c), NEW k \in Key, Has(c, k)
    PROVE  Drop(Touch(c, k), k) = Drop(c, k)
<1> DEFINE rest == Without(c.order, k)
           new  == <<k>> \o rest
<1>1. c.order \in Seq(Key) /\ Distinct(c.order) /\ Occurs(k, c.order)
  BY DEF WellFormed, Cache, Distinct, Occurs
<1>2. rest \in Seq(Key) /\ ~Occurs(k, rest)
  BY <1>1, WithoutProperties
<1> HIDE DEF rest
<1>3. /\ Len(rest) \in Nat
      /\ Len(new) = Len(rest) + 1
      /\ DOMAIN new = 1 .. Len(rest) + 1
      /\ new[1] = k
      /\ \A i \in 1 .. Len(rest) : new[i + 1] = rest[i]
  BY <1>2
<1> HIDE DEF new
<1>4. \A i \in DOMAIN new : new[i] = k => i = 1
  <2>1. SUFFICES ASSUME NEW i \in DOMAIN new, new[i] = k, i # 1
                 PROVE  FALSE
    OBVIOUS
  <2>2. i - 1 \in 1 .. Len(rest) /\ (i - 1) + 1 = i
    BY <2>1, <1>3
  <2>3. rest[i - 1] = k
    BY <2>1, <2>2, <1>3
  <2> QED BY <2>2, <2>3, <1>2 DEF Occurs
<1>5. (CHOOSE i \in DOMAIN new : new[i] = k) = 1
  BY <1>3, <1>4
<1>6. Without(new, k) = [i \in 1 .. Len(rest) |-> new[i + 1]]
  <2>1. Without(new, k) = [i \in 1 .. Len(new) - 1 |-> IF i < 1 THEN new[i] ELSE new[i + 1]]
    BY <1>5 DEF Without
  <2>2. Len(new) - 1 = Len(rest)
    BY <1>3
  <2> QED BY <2>1, <2>2
<1>7. Without(new, k) = rest
  <2>1. DOMAIN rest = 1 .. Len(rest) /\ rest = [i \in DOMAIN rest |-> rest[i]]
    BY <1>2
  <2> QED BY <2>1, <1>3, <1>6
<1>8. Touch(c, k) = [val |-> c.val, order |-> new]
  BY DEF Touch, rest, new
<1> QED BY <1>7, <1>8 DEF Drop, Has, rest

\* What one execution does to a cache: it answers, and every value it leaves
\* was there before or is the one the request puts.
LEMMA EffectProperties ==
    ASSUME NEW d, WellFormed(d), NEW r \in Request
    PROVE  /\ WellFormed(Effect(d, r))
           /\ Reply(d, r) \in Response /\ Reply(d, r) # Unset
           /\ Reply(d, r).value # None =>
                 Has(d, r.key) /\ Reply(d, r).value = d.val[r.key]
           /\ \A k \in Key : Has(Effect(d, r), k) =>
                 \/ Has(d, k) /\ Effect(d, r).val[k] = d.val[k]
                 \/ r.op = "put" /\ r.key = k /\ Effect(d, r).val[k] = r.value
           /\ r.op # "put" => \A k \in Key \ {r.key} : Effect(d, r).val[k] = d.val[k]
           /\ Effect(d, r).val[r.key] =
                 CASE r.op = "put" /\ r.value # None -> r.value
                   [] r.op = "remove" -> None
                   [] OTHER -> d.val[r.key]
<1>1. /\ r.op \in {"put", "get", "remove"} /\ r.key \in Key
      /\ r.value \in Value \cup {None}
      /\ r.op # "put" => r.value = None
  BY DEF Request
<1>2. d.val \in [Key -> Value \cup {None}]
  BY DEF WellFormed, Cache
<1>3. /\ Reply(d, r) \in Response /\ Reply(d, r) # Unset
      /\ Reply(d, r).value # None => Has(d, r.key) /\ Reply(d, r).value = d.val[r.key]
  BY <1>1, <1>2 DEF Reply, Answer, Response, Code, Unset, Has
<1>4. CASE r.op = "put" /\ r.value = None
  BY <1>1, <1>2, <1>3, <1>4 DEF Effect
<1>5. CASE r.op = "put" /\ r.value # None
  <2>1. r.value \in Value /\ Effect(d, r) = Store(d, r.key, r.value)
    BY <1>1, <1>5 DEF Effect
  <2>2. /\ WellFormed(Store(d, r.key, r.value))
        /\ Store(d, r.key, r.value).val[r.key] = r.value
    BY <1>1, <2>1, StoreWellFormed
  <2>3. ASSUME NEW k \in Key, k # r.key, Has(Store(d, r.key, r.value), k)
        PROVE  Store(d, r.key, r.value).val[k] = d.val[k]
    BY <1>1, <2>1, <2>3, StoreKeepsOthers
  <2> QED BY <1>1, <1>3, <1>5, <2>1, <2>2, <2>3 DEF Has
<1>6. CASE r.op = "get"
  <2>1. Effect(d, r) = TryGet(d, r.key)
    BY <1>6 DEF Effect
  <2>2. WellFormed(TryGet(d, r.key)) /\ TryGet(d, r.key).val = d.val
    BY <1>1, TryGetWellFormed
  <2> QED BY <1>1, <1>3, <1>6, <2>1, <2>2 DEF Has
<1>7. CASE r.op = "remove"
  <2>1. Effect(d, r) = Drop(d, r.key)
    BY <1>7 DEF Effect
  <2>2. /\ WellFormed(Drop(d, r.key))
        /\ Drop(d, r.key).val = [d.val EXCEPT ![r.key] = None]
    BY <1>1, DropWellFormed
  <2> QED BY <1>1, <1>2, <1>3, <1>7, <2>1, <2>2 DEF Has
<1> QED BY <1>1, <1>4, <1>5, <1>6, <1>7
\* A container whose keys all are among those of a set for which there is room
\* is not full when one of the set is missing.
LEMMA RoomLeft ==
    ASSUME NEW S, IsFiniteSet(S), Cardinality(S) <= Capacity,
           NEW c, WellFormed(c), \A j \in Key : Has(c, j) => j \in S,
           NEW k \in S, ~Has(c, k)
    PROVE  Len(c.order) < Capacity
<1> DEFINE n == Len(c.order)
<1>1. /\ c.order \in Seq(Key) /\ n \in Nat
      /\ \A i, j \in 1 .. n : c.order[i] = c.order[j] => i = j
      /\ \A i \in 1 .. n : c.order[i] \in S \ {k}
  BY DEF WellFormed, Cache
<1>2. c.order \in [1 .. n -> S \ {k}]
  BY <1>1
<1>3. c.order \in Injection(1 .. n, S \ {k})
  BY <1>1, <1>2, Fun_IsInj
<1>4. IsFiniteSet(S \ {k}) /\ Cardinality(S \ {k}) = Cardinality(S) - 1
  BY FS_RemoveElement
<1>5. Cardinality(1 .. n) <= Cardinality(S \ {k})
  BY <1>3, <1>4, FS_Injection
<1>6. Cardinality(1 .. n) = n
  BY <1>1, FS_Interval
<1>7. Cardinality(S) \in Nat
  BY FS_CardinalityType
<1> QED BY <1>1, <1>4, <1>5, <1>6, <1>7, CapacityAssumption

\* What is done to one key of such a container takes out no other, and only a
\* remove takes out the key itself.
LEMMA NothingEvicted ==
    ASSUME NEW S, IsFiniteSet(S), Cardinality(S) <= Capacity,
           NEW c, WellFormed(c), \A j \in Key : Has(c, j) => j \in S,
           NEW r \in Request, r.key \in S,
           NEW k \in Key, Has(c, k), r.op # "remove" \/ k # r.key
    PROVE  Has(Effect(c, r), k)
<1>1. r.key \in Key /\ r.op \in {"put", "get", "remove"} /\ r.value \in Value \cup {None}
  BY DEF Request
<1>2. CASE r.op = "put" /\ r.value # None
  <2>1. Effect(c, r) = Store(c, r.key, r.value)
    BY <1>2 DEF Effect
  <2>2. ~Has(c, r.key) => Len(c.order) # Capacity
    BY RoomLeft, CapacityAssumption DEF WellFormed, Cache
  <2>3. /\ Store(c, r.key, r.value).val[r.key] = r.value
        /\ k # r.key => Store(c, r.key, r.value).val[k] = c.val[k]
    BY <1>1, <1>2, <2>2, StoreWellFormed
  <2> QED BY <1>2, <2>1, <2>3 DEF Has
<1>3. CASE r.op = "put" /\ r.value = None
  BY <1>3 DEF Effect
<1>4. CASE r.op # "put"
  BY <1>1, <1>4, EffectProperties DEF Has
<1> QED BY <1>2, <1>3, <1>4
\* A container that serves the keys in Own is that part of a plain store: it
\* answers the same, and all it does beyond the request is to forget other keys,
\* and that only on a put.
LEMMA ExecutionIsStoreStep ==
    ASSUME NEW c, WellFormed(c), NEW r \in Request, NEW Own, r.key \in Own,
           NEW s \in [Key -> Value \cup {None}], NEW t \in [Key -> Value \cup {None}],
           \A k \in Key : k \in Own => s[k] = c.val[k] /\ t[k] = Effect(c, r).val[k],
           \A k \in Key : k \notin Own => t[k] = s[k]
    PROVE  StoreReply(s, r) = Reply(c, r) /\ StoreStep(s, r, t)
<1> DEFINE e == Effect(c, r)
           gone == {k \in Key \ {r.key} : t[k] # s[k]}
<1>1. r.key \in Key /\ r.op \in {"put", "get", "remove"}
  BY DEF Request
<1>2. /\ \A k \in Key : Has(e, k) =>
            \/ Has(c, k) /\ e.val[k] = c.val[k]
            \/ r.op = "put" /\ r.key = k /\ e.val[k] = r.value
      /\ r.op # "put" => \A k \in Key \ {r.key} : e.val[k] = c.val[k]
      /\ e.val[r.key] = CASE r.op = "put" /\ r.value # None -> r.value
                          [] r.op = "remove" -> None
                          [] OTHER -> c.val[r.key]
  BY EffectProperties
<1> HIDE DEF e
<1>3. s[r.key] = c.val[r.key] /\ t[r.key] = e.val[r.key]
  BY <1>1 DEF e
<1>4. StoreReply(s, r) = Reply(c, r)
  BY <1>1, <1>3 DEF StoreReply, Reply, Has
<1>5. /\ \A k \in gone : t[k] = None
      /\ gone # {} => r.op = "put"
  BY <1>2 DEF Has, e
<1>6. /\ StoreAfter(s, r)[r.key] = t[r.key]
      /\ \A k \in Key \ {r.key} : StoreAfter(s, r)[k] = s[k]
  BY <1>1, <1>2, <1>3 DEF StoreAfter
<1>7. ASSUME NEW k \in Key
      PROVE  t[k] = IF k \in gone THEN None ELSE StoreAfter(s, r)[k]
  <2>1. CASE k = r.key
    BY <2>1, <1>6
  <2>2. CASE k # r.key /\ k \in gone
    BY <2>2, <1>5
  <2>3. CASE k # r.key /\ k \notin gone
    BY <1>7, <2>3, <1>6
  <2> QED BY <2>1, <2>2, <2>3
<1>8. gone \in SUBSET (Key \ {r.key})
  OBVIOUS
<1> HIDE DEF gone
<1>9. t = [k \in Key |-> IF k \in gone THEN None ELSE StoreAfter(s, r)[k]]
  BY <1>7
<1> QED BY <1>4, <1>5, <1>8, <1>9 DEF StoreStep
===============================================================================
