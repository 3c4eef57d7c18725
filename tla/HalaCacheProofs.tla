---------------------------- MODULE HalaCacheProofs ----------------------------
(***************************************************************************)
(* halakv::Cache is correct for any number of threads, keys and values and *)
(* any capacity: what its mutex has to protect is protected, and every     *)
(* call takes effect atomically.                                           *)
(***************************************************************************)
EXTENDS HalaCache, LruCacheProofs

\* The helpers that only abbreviate.
USE DEF Goto, Respond

\* The parts of a request; an idle thread has a request of no operation.
LEMMA ShapesDisjoint ==
    /\ NoRequest.op \notin {"put", "get", "remove"}
    /\ \A r \in Request :
          /\ r.op \in {"put", "get", "remove"}
          /\ r.key \in Key
          /\ r.value \in Value \cup {None}
BY DEF NoRequest, Request

\* Every answer the cache fills in is a response.
LEMMA AnswerTyped ==
    /\ \A v \in Value : Answer("Ok", v) \in Response
    /\ Answer("Ok", None) \in Response
    /\ Answer("InvalidArgument", None) \in Response
    /\ Answer("NotFound", None) \in Response
    /\ Unset \in Response
    /\ \A c, v : Answer(c, v).code = c /\ Answer(c, v).value = v
BY DEF Answer, Response, Unset, Code

\* Two threads are in the critical section together only if both read.
LEMMA Excluded ==
    ASSUME CacheInv, NEW t \in Thread, NEW u \in Thread, t # u,
           pc[t] \in Holding, pc[u] \in Holding
    PROVE  ~Exclusive(call[t]) /\ ~Exclusive(call[u])
<1>1. ASSUME NEW x \in Thread, NEW y \in Thread, x # y,
             pc[x] \in Holding, pc[y] \in Holding, Exclusive(call[x])
      PROVE  FALSE
  <2>1. writer = x /\ readers = {}
    BY <1>1, NoThreadAssumption DEF CacheInv, LockProtects
  <2> QED BY <2>1, <1>1 DEF CacheInv, LockProtects
<1> QED BY <1>1

\* The container of the empty server.
LEMMA InitInv == CacheInit => CacheInv
<1> SUFFICES ASSUME CacheInit PROVE CacheInv
  OBVIOUS
<1>1. TypeOK
  BY EmptyWellFormed, AnswerTyped DEF CacheInit, TypeOK, Stages
<1>2. CallShape /\ LockProtects /\ HeldInside /\ EntryStillThere /\ RemoveHandsOver
  BY DEF CacheInit, CallShape, LockProtects, HeldInside, EntryStillThere, RemoveHandsOver, Holding
<1> QED BY <1>1, <1>2 DEF CacheInv

\* A thread calls: it is not near the mutex yet.
LEMMA CallInv == ASSUME CacheInv, NEW t \in Thread, Call(t) PROVE CacheInv'
<1>1. TypeOK'
  BY DEF CacheInv, TypeOK, Call, Stages
<1>2. CallShape'
  BY DEF CacheInv, TypeOK, CallShape, Call, Holding
<1>3. LockProtects' /\ HeldInside'
  BY DEF CacheInv, TypeOK, LockProtects, HeldInside, Call, Holding, Exclusive
<1>4. EntryStillThere' /\ RemoveHandsOver'
  BY DEF CacheInv, TypeOK, EntryStillThere, RemoveHandsOver, Call
<1> QED BY <1>1, <1>2, <1>3, <1>4 DEF CacheInv

\* The early return of put.
LEMMA RejectNoValueInv == ASSUME CacheInv, NEW t \in Thread, RejectNoValue(t) PROVE CacheInv'
<1>1. TypeOK'
  BY AnswerTyped DEF CacheInv, TypeOK, CallShape, RejectNoValue, Stages
<1>2. CallShape'
  BY ShapesDisjoint DEF CacheInv, TypeOK, CallShape, RejectNoValue, Holding, Exclusive
<1>3. LockProtects' /\ HeldInside'
  BY NoThreadAssumption
  DEF CacheInv, TypeOK, LockProtects, HeldInside, RejectNoValue, Holding, Exclusive
<1>4. EntryStillThere' /\ RemoveHandsOver'
  BY DEF CacheInv, TypeOK, EntryStillThere, RemoveHandsOver, RejectNoValue
<1> QED BY <1>1, <1>2, <1>3, <1>4 DEF CacheInv

\* Taking the mutex in put and remove: nobody else is inside.
LEMMA LockExclusiveInv == ASSUME CacheInv, NEW t \in Thread, LockExclusive(t) PROVE CacheInv'
<1>1. TypeOK'
  BY DEF CacheInv, TypeOK, CallShape, LockExclusive, Stages
<1>2. CallShape'
  BY ShapesDisjoint DEF CacheInv, TypeOK, CallShape, LockExclusive, Holding, Exclusive
<1>3. LockProtects' /\ HeldInside'
  BY NoThreadAssumption
  DEF CacheInv, TypeOK, LockProtects, HeldInside, LockExclusive, Holding, Exclusive
<1>4. EntryStillThere' /\ RemoveHandsOver'
  BY DEF CacheInv, TypeOK, EntryStillThere, RemoveHandsOver, LockExclusive
<1> QED BY <1>1, <1>2, <1>3, <1>4 DEF CacheInv

\* Taking the mutex in get: nobody inside writes.
LEMMA LockSharedInv == ASSUME CacheInv, NEW t \in Thread, LockShared(t) PROVE CacheInv'
<1>1. TypeOK'
  BY DEF CacheInv, TypeOK, CallShape, LockShared, Stages
<1>2. CallShape'
  BY ShapesDisjoint DEF CacheInv, TypeOK, CallShape, LockShared, Holding, Exclusive
<1>3. LockProtects' /\ HeldInside'
  BY NoThreadAssumption
  DEF CacheInv, TypeOK, LockProtects, HeldInside, LockShared, Holding, Exclusive
<1>4. EntryStillThere' /\ RemoveHandsOver'
  BY DEF CacheInv, TypeOK, EntryStillThere, RemoveHandsOver, LockShared
<1> QED BY <1>1, <1>2, <1>3, <1>4 DEF CacheInv

\* Giving the mutex back.
LEMMA UnlockInv == ASSUME CacheInv, NEW t \in Thread, Unlock(t) PROVE CacheInv'
<1>1. TypeOK'
  BY AnswerTyped DEF CacheInv, TypeOK, CallShape, Unlock, Stages
<1>2. CallShape'
  BY ShapesDisjoint DEF CacheInv, TypeOK, CallShape, Unlock, Holding, Exclusive
<1>3. LockProtects' /\ HeldInside'
  BY NoThreadAssumption DEF CacheInv, TypeOK, LockProtects, HeldInside, Unlock, Holding, Exclusive
<1>4. EntryStillThere' /\ RemoveHandsOver'
  BY DEF CacheInv, TypeOK, EntryStillThere, RemoveHandsOver, Unlock
<1> QED BY <1>1, <1>2, <1>3, <1>4 DEF CacheInv

\* The end of the call.
LEMMA LeaveInv == ASSUME CacheInv, NEW t \in Thread, Leave(t) PROVE CacheInv'
<1>1. TypeOK'
  BY AnswerTyped DEF CacheInv, TypeOK, CallShape, Leave, Stages
<1>2. CallShape'
  BY ShapesDisjoint DEF CacheInv, TypeOK, CallShape, Leave, Holding, Exclusive
<1>3. LockProtects' /\ HeldInside'
  BY NoThreadAssumption DEF CacheInv, TypeOK, LockProtects, HeldInside, Leave, Holding, Exclusive
<1>4. EntryStillThere' /\ RemoveHandsOver'
  BY DEF CacheInv, TypeOK, EntryStillThere, RemoveHandsOver, Leave
<1> QED BY <1>1, <1>2, <1>3, <1>4 DEF CacheInv

\* The store of put: the thread is alone in the critical section, so nobody
\* has a reference into the container.
LEMMA PutStoreInv == ASSUME CacheInv, NEW t \in Thread, PutStore(t) PROVE CacheInv'
<1>1. /\ pc[t] = "locked" /\ call[t].op = "put"
      /\ call[t].key \in Key /\ call[t].value \in Value
      /\ Exclusive(call[t])
  BY ShapesDisjoint, NoneAssumption
     DEF CacheInv, CallShape, PutStore, Holding, Exclusive
<1>2. \A u \in Thread : u # t => pc[u] \notin Holding
  BY <1>1, Excluded DEF Holding
<1>3. TypeOK'
  BY <1>1, StoreWellFormed DEF CacheInv, TypeOK, PutStore, Stages
<1>4. CallShape'
  BY <1>1 DEF CacheInv, TypeOK, CallShape, PutStore, Holding
<1>5. LockProtects' /\ HeldInside'
  BY DEF CacheInv, TypeOK, LockProtects, HeldInside, PutStore, Holding, Exclusive
<1>6. EntryStillThere' /\ RemoveHandsOver'
  BY <1>2 DEF CacheInv, TypeOK, EntryStillThere, RemoveHandsOver, PutStore, Holding
<1> QED BY <1>3, <1>4, <1>5, <1>6 DEF CacheInv

\* The lookup of get and remove moves entries but keeps every value.
LEMMA LookupInv == ASSUME CacheInv, NEW t \in Thread, Lookup(t) PROVE CacheInv'
<1>1. pc[t] = "locked" /\ call[t].op \in {"get", "remove"} /\ call[t].key \in Key
  BY ShapesDisjoint DEF CacheInv, CallShape, Lookup, Holding
<1>2. WellFormed(lru') /\ lru'.val = lru.val
  BY <1>1, TryGetWellFormed DEF CacheInv, TypeOK, Lookup
<1>3. TypeOK'
  BY <1>2, AnswerTyped DEF CacheInv, TypeOK, Lookup, Stages
<1>4. CallShape'
  BY <1>1 DEF CacheInv, TypeOK, CallShape, Lookup, Holding
<1>5. LockProtects' /\ HeldInside'
  BY DEF CacheInv, TypeOK, LockProtects, HeldInside, Lookup, Holding, Exclusive
<1>6. EntryStillThere'
  BY <1>1, <1>2 DEF CacheInv, TypeOK, EntryStillThere, Lookup, Has
<1>7. RemoveHandsOver'
  BY <1>1, <1>2 DEF CacheInv, TypeOK, RemoveHandsOver, Lookup
<1> QED BY <1>3, <1>4, <1>5, <1>6, <1>7 DEF CacheInv

\* The copy of the value into the response.
LEMMA CopyValueInv == ASSUME CacheInv, NEW t \in Thread, CopyValue(t) PROVE CacheInv'
<1>1. /\ pc[t] = "copy" /\ call[t].op \in {"get", "remove"}
      /\ call[t].key \in Key /\ Has(lru, call[t].key)
  BY ShapesDisjoint DEF CacheInv, CallShape, EntryStillThere, CopyValue
<1>2. lru.val[call[t].key] \in Value
  BY <1>1 DEF CacheInv, TypeOK, WellFormed, Cache, Has
<1>3. TypeOK'
  BY <1>2, AnswerTyped DEF CacheInv, TypeOK, CopyValue, Stages
<1>4. CallShape'
  BY <1>1 DEF CacheInv, TypeOK, CallShape, CopyValue, Holding
<1>5. LockProtects' /\ HeldInside'
  BY DEF CacheInv, TypeOK, LockProtects, HeldInside, CopyValue, Holding, Exclusive
<1>6. EntryStillThere' /\ RemoveHandsOver'
  BY <1>1 DEF CacheInv, TypeOK, EntryStillThere, RemoveHandsOver, CopyValue
<1> QED BY <1>3, <1>4, <1>5, <1>6 DEF CacheInv

\* The erase of remove: as for the store of put.
LEMMA EraseInv == ASSUME CacheInv, NEW t \in Thread, Erase(t) PROVE CacheInv'
<1>1. /\ pc[t] = "erase" /\ call[t].op = "remove"
      /\ call[t].key \in Key /\ Exclusive(call[t])
  BY ShapesDisjoint DEF CacheInv, CallShape, Erase, Exclusive
<1>2. \A u \in Thread : u # t => pc[u] \notin Holding
  BY <1>1, Excluded DEF Holding
<1>3. TypeOK'
  BY <1>1, DropWellFormed DEF CacheInv, TypeOK, Erase, Stages
<1>4. CallShape'
  BY <1>1 DEF CacheInv, TypeOK, CallShape, Erase, Holding
<1>5. LockProtects' /\ HeldInside'
  BY DEF CacheInv, TypeOK, LockProtects, HeldInside, Erase, Holding, Exclusive
<1>6. EntryStillThere' /\ RemoveHandsOver'
  BY <1>2 DEF CacheInv, TypeOK, EntryStillThere, RemoveHandsOver, Erase, Holding
<1> QED BY <1>3, <1>4, <1>5, <1>6 DEF CacheInv

\* Every step of the cache keeps the invariant.
LEMMA StepInv == CacheInv /\ [CacheNext]_cacheVars => CacheInv'
<1> SUFFICES ASSUME CacheInv, [CacheNext]_cacheVars PROVE CacheInv'
  OBVIOUS
<1>1. ASSUME NEW t \in Thread, Call(t) \/ Step(t) PROVE CacheInv'
  BY <1>1, CallInv, RejectNoValueInv, LockExclusiveInv, LockSharedInv,
     PutStoreInv, LookupInv, CopyValueInv, EraseInv, UnlockInv, LeaveInv DEF Step
<1>2. CASE UNCHANGED cacheVars
  BY <1>2 DEF cacheVars, CacheInv, TypeOK, CallShape, LockProtects,
              HeldInside, EntryStillThere, RemoveHandsOver
<1> QED BY <1>1, <1>2 DEF CacheNext

\* The mutex, the references into the container, the hand-over of a removed
\* value, and the capacity: the invariant of the cache, for every number of
\* threads.
THEOREM CacheInvariant == CacheSpec => []CacheInv
BY InitInv, StepInv, PTL DEF CacheSpec

\* The container stays well formed and within its capacity.
THEOREM CacheTypeOK == CacheSpec => []TypeOK
<1>1. CacheInv => TypeOK
  BY DEF CacheInv
<1> QED BY <1>1, CacheInvariant, PTL

\* A remove that answers Ok hands over the very value it takes out.
THEOREM CacheRemoveHandsOver == CacheSpec => []RemoveHandsOver
<1>1. CacheInv => RemoveHandsOver
  BY DEF CacheInv
<1> QED BY <1>1, CacheInvariant, PTL

\* Writers exclude everybody, and every thread inside holds the mutex.
THEOREM CacheLockProtects == CacheSpec => []LockProtects
<1>1. CacheInv => LockProtects
  BY DEF CacheInv
<1> QED BY <1>1, CacheInvariant, PTL

\* A call that waits for the mutex waits for a thread that is on its way out: the
\* threads of the server never all wait.
THEOREM CacheNeverStuck == CacheSpec => []NeverStuck
<1>1. CacheInv => NeverStuck
  <2> SUFFICES ASSUME CacheInv, NEW t \in Thread, pc[t] # "idle"
               PROVE  \E u \in Thread : CanStep(u)
    BY DEF NeverStuck
  <2>2. CASE \E u \in Thread : pc[u] \in Holding
    BY <2>2 DEF CanStep, Holding
  <2>3. CASE \A u \in Thread : pc[u] \notin Holding
    <3>1. writer \in Thread \cup {NoThread} /\ readers \subseteq Thread
      BY DEF CacheInv, TypeOK
    <3>2. writer = NoThread
      BY <2>3, <3>1 DEF CacheInv, HeldInside
    <3>3. \A u : u \notin readers
      BY <2>3, <3>1 DEF CacheInv, HeldInside
    <3> QED BY <3>2, <3>3 DEF CanStep
  <2> QED BY <2>2, <2>3
<1> QED BY <1>1, CacheInvariant, PTL

\* The entry a get or remove has found is still there when it is used.
THEOREM CacheEntryStillThere == CacheSpec => []EntryStillThere
<1>1. CacheInv => EntryStillThere
  BY DEF CacheInv
<1> QED BY <1>1, CacheInvariant, PTL
-------------------------------------------------------------------------------
\* Only a store or an erase changes a value, and both account for the value
\* that goes.
LEMMA StepExplained ==
    ASSUME CacheInv, [CacheNext]_cacheVars
    PROVE  [LossExplained]_cacheVars
<1>1. SUFFICES ASSUME CacheNext, NEW k \in Key, Has(lru, k), lru'.val[k] # lru.val[k]
      PROVE  \E t \in Thread :
                \/ /\ pc[t] = "erase" /\ call[t].key = k
                   /\ response[t].value = lru.val[k]
                \/ pc[t] = "locked" /\ call[t].op = "put" /\ call[t].key = k
                \/ /\ pc[t] = "locked" /\ call[t].op = "put"
                   /\ ~Has(lru, call[t].key)
                   /\ Len(lru.order) = Capacity /\ LeastRecent(lru) = k
  BY DEF LossExplained
<1>2. PICK t \in Thread : PutStore(t) \/ Lookup(t) \/ Erase(t)
  BY <1>1 DEF CacheNext, Step, Call, RejectNoValue, LockExclusive, LockShared,
              CopyValue, Unlock, Leave
<1>3. WellFormed(lru) /\ lru.val \in [Key -> Value \cup {None}]
  BY DEF CacheInv, TypeOK, WellFormed, Cache
<1>4. pc[t] # "idle" /\ call[t].key \in Key
  BY <1>2, ShapesDisjoint DEF PutStore, Lookup, Erase, CacheInv, CallShape
<1>5. CASE PutStore(t)
  <2>1. call[t].value \in Value
    BY <1>5 DEF PutStore, CacheInv, CallShape, Holding
  <2> QED BY <1>1, <1>3, <1>4, <1>5, <2>1, StoreWellFormed DEF PutStore
<1>6. CASE Lookup(t)
  BY <1>1, <1>3, <1>4, <1>6, TryGetWellFormed DEF Lookup
<1>7. CASE Erase(t)
  <2>1. lru'.val = [lru.val EXCEPT ![call[t].key] = None]
    BY <1>3, <1>4, <1>7, DropWellFormed DEF Erase
  <2>2. call[t].key = k
    BY <1>1, <1>3, <2>1
  <2>3. response[t].value = lru.val[k]
    BY <1>7, <2>2, AnswerTyped DEF Erase, CacheInv, RemoveHandsOver
  <2> QED BY <1>7, <2>2, <2>3 DEF Erase
<1> QED BY <1>2, <1>5, <1>6, <1>7

\* No value is lost between two calls: it is handed over, overwritten by a put
\* of its key, or evicted by a put into a full container.
THEOREM CacheNothingLost == CacheSpec => NothingLost
BY CacheInvariant, StepExplained, PTL DEF CacheSpec, NothingLost
-------------------------------------------------------------------------------
\* The most steps the call of a thread still takes.
StepsFrom ==
    [idle |-> 0, returned |-> 1, unlock |-> 2, erase |-> 3, copy |-> 4, locked |-> 5,
     called |-> 6]

StepsLeft(t) == StepsFrom[pc[t]]

\* A step of a call brings it nearer to its end and leaves the others where they
\* are; only a thread that is in no call starts one.
CallsAdvance ==
    \A t \in Thread :
        /\ Step(t) => StepsLeft(t)' < StepsLeft(t)
        /\ StepsLeft(t)' > StepsLeft(t) => pc[t] = "idle"

LEMMA StepAdvances ==
    ASSUME CacheInv, [CacheNext]_cacheVars PROVE CallsAdvance
<1>1. \A t \in Thread : pc[t] \in Stages /\ call[t].op \in {"put", "get", "remove", "none"}
  BY DEF CacheInv, TypeOK, Request, NoRequest
<1>2. ASSUME NEW t \in Thread, Step(t)
      PROVE  /\ StepsLeft(t)' < StepsLeft(t)
             /\ \A u \in Thread \ {t} : pc'[u] = pc[u]
  <2>1. /\ pc \in [Thread -> Stages]
        /\ \A u \in Thread \ {t} : pc'[u] = pc[u]
    BY <1>2 DEF CacheInv, TypeOK, Step, RejectNoValue, LockExclusive, LockShared,
       PutStore, Lookup, CopyValue, Erase, Unlock, Leave
  <2>2. CASE RejectNoValue(t) \/ LockExclusive(t) \/ LockShared(t)
    BY <2>1, <2>2 DEF RejectNoValue, LockExclusive, LockShared, StepsLeft, StepsFrom
  <2>3. CASE PutStore(t) \/ Lookup(t)
    BY <2>1, <2>3 DEF PutStore, Lookup, StepsLeft, StepsFrom
  <2>4. CASE CopyValue(t) \/ Erase(t)
    BY <2>1, <2>4 DEF CopyValue, Erase, StepsLeft, StepsFrom
  <2>5. CASE Unlock(t) \/ Leave(t)
    BY <2>1, <2>5 DEF Unlock, Leave, StepsLeft, StepsFrom
  <2> QED BY <1>2, <2>1, <2>2, <2>3, <2>4, <2>5 DEF Step
<1>3. ASSUME NEW t \in Thread, StepsLeft(t)' > StepsLeft(t) PROVE pc[t] = "idle"
  <2>1. StepsLeft(t) \in 0 .. 6
    BY <1>1 DEF StepsLeft, StepsFrom, Stages
  <2>2. pc'[t] # pc[t]
    BY <1>3, <2>1 DEF StepsLeft
  <2>3. CASE \E u \in Thread : Step(u)
    <3>1. PICK u \in Thread : Step(u)
      BY <2>3
    <3>2. t = u
      BY <1>2, <2>2, <3>1
    <3>3. StepsLeft(t)' < StepsLeft(t)
      BY <1>2, <3>1, <3>2
    <3>4. pc'[t] \in Stages
      BY StepInv DEF CacheInv, TypeOK
    <3>5. StepsLeft(t)' \in 0 .. 6
      BY <3>4 DEF StepsLeft, StepsFrom, Stages
    <3> QED BY <1>3, <2>1, <3>3, <3>5
  <2>4. CASE \E u \in Thread : Call(u)
    BY <2>2, <2>4 DEF Call, CacheInv, TypeOK
  <2>5. CASE UNCHANGED cacheVars
    BY <2>2, <2>5 DEF cacheVars
  <2> QED BY <2>3, <2>4, <2>5 DEF CacheNext
<1> QED BY <1>2, <1>3 DEF CallsAdvance

\* No call goes round in circles: it is over after at most six steps of its own,
\* and nobody else makes it longer.
THEOREM CacheCallsAdvance == CacheSpec => [][CallsAdvance]_cacheVars
BY CacheInvariant, StepAdvances, PTL DEF CacheSpec
-------------------------------------------------------------------------------
\* At most one thread has found an entry it is about to erase, and it is alone.
LEMMA AbsCacheRemoving ==
    ASSUME CacheInv, NEW t \in Thread, Removing(t)
    PROVE  AbsCache = Drop(lru, call[t].key)
<1>1. pc[t] \in Holding /\ Exclusive(call[t])
  BY DEF Removing, Holding, Exclusive
<1>2. ASSUME NEW u \in Thread, Removing(u) PROVE u = t
  BY <1>1, <1>2, Excluded DEF Removing, Holding
<1>3. (CHOOSE u \in Thread : Removing(u)) = t
  BY <1>2
<1> QED BY <1>3 DEF AbsCache

\* The abstract cache is the container unless a remove is between its lookup
\* and its erase.
LEMMA AbsCacheQuiet ==
    ASSUME \A t \in Thread : ~Removing(t)
    PROVE  AbsCache = lru
BY DEF AbsCache

\* A thread that writes or reads the container sees it as it is: nobody else
\* is between finding an entry and erasing it.
LEMMA QuietInside ==
    ASSUME CacheInv, NEW t \in Thread, pc[t] \in Holding, ~Removing(t)
    PROVE  \A u \in Thread : ~Removing(u)
<1>1. SUFFICES ASSUME NEW u \in Thread, Removing(u) PROVE FALSE
  OBVIOUS
<1>2. pc[u] \in Holding /\ Exclusive(call[u])
  BY <1>1 DEF Removing, Holding, Exclusive
<1> QED BY <1>1, <1>2, Excluded

\* The abstract module speaks of the same messages and the same container.
LEMMA SameOperators ==
    /\ Atomic!NoRequest = NoRequest /\ Atomic!Request = Request
    /\ Atomic!Unset = Unset /\ Atomic!EmptyCache = EmptyCache
    /\ \A c, r : Atomic!Reply(c, r) = Reply(c, r)
    /\ \A c, r : Atomic!Effect(c, r) = Effect(c, r)
<1>1. /\ Atomic!NoRequest = NoRequest /\ Atomic!Request = Request
      /\ Atomic!Unset = Unset /\ Atomic!EmptyCache = EmptyCache
      /\ \A x, y : Atomic!Answer(x, y) = Answer(x, y)
      /\ \A c, k : Atomic!Has(c, k) = Has(c, k)
  BY DEF Atomic!NoRequest, NoRequest, Atomic!Request, Request, Atomic!Unset, Unset,
         Atomic!Answer, Answer, Atomic!EmptyCache, EmptyCache, Atomic!Has, Has
<1>2. \A s, k : Atomic!Without(s, k) = Without(s, k)
  BY DEF Atomic!Without, Without
<1>3. \A c, k : Atomic!Touch(c, k) = Touch(c, k) /\ Atomic!Drop(c, k) = Drop(c, k)
  BY <1>1, <1>2 DEF Atomic!Touch, Touch, Atomic!Drop, Drop
<1>4. \A c : Atomic!MakeRoom(c) = MakeRoom(c)
  BY <1>3 DEF Atomic!MakeRoom, MakeRoom, Atomic!LeastRecent, LeastRecent
<1>5. \A c, k, v : Atomic!Store(c, k, v) = Store(c, k, v)
  BY <1>1, <1>3, <1>4 DEF Atomic!Store, Store
<1>6. \A c, k : Atomic!TryGet(c, k) = TryGet(c, k)
  BY <1>1, <1>3 DEF Atomic!TryGet, TryGet
<1>7. \A c, r : Atomic!Reply(c, r) = Reply(c, r)
  BY <1>1 DEF Atomic!Reply, Reply
<1>8. \A c, r : Atomic!Effect(c, r) = Effect(c, r)
  BY <1>3, <1>5, <1>6 DEF Atomic!Effect, Effect
<1> QED BY <1>1, <1>7, <1>8

\* The empty container is the empty abstract cache.
LEMMA InitRefines == CacheInit => Atomic!Init
<1> SUFFICES ASSUME CacheInit PROVE Atomic!Init
  OBVIOUS
<1>1. \A t \in Thread : ~Removing(t)
  BY DEF CacheInit, Removing
<1>2. AbsCache = EmptyCache
  BY <1>1, AbsCacheQuiet DEF CacheInit
<1>3. AbsStage = [t \in Thread |-> "idle"] /\ AbsResp = [t \in Thread |-> Unset]
  BY DEF CacheInit, AbsStage, AbsResp
<1> QED BY <1>2, <1>3, SameOperators DEF CacheInit, Atomic!Init

\* A step that neither changes the container nor who is removing maps to a
\* step that leaves the abstract container alone.
LEMMA AbsCacheSame ==
    ASSUME \A u \in Thread : Removing(u)' <=> Removing(u),
           lru' = lru,
           \A u \in Thread : Removing(u) => call'[u] = call[u],
           CacheInv, CacheInv'
    PROVE  AbsCache' = AbsCache
<1>1. CASE \E u \in Thread : Removing(u)
  <2>1. PICK u \in Thread : Removing(u)
    BY <1>1
  <2>2. AbsCache = Drop(lru, call[u].key)
    BY <2>1, AbsCacheRemoving
  <2>3. AbsCache' = Drop(lru', call'[u].key)
    <3>1. /\ Removing(u)'
          /\ \A x \in Thread : Removing(x)' => x = u
      <4>1. ASSUME NEW x \in Thread, Removing(x), x # u PROVE FALSE
        BY <4>1, <2>1, Excluded DEF Removing, Holding, Exclusive
      <4> QED BY <2>1, <4>1
    <3>2. (CHOOSE x \in Thread : Removing(x)') = u
      BY <3>1
    <3> QED BY <3>1, <3>2 DEF AbsCache
  <2> QED BY <2>1, <2>2, <2>3
<1>2. CASE \A u \in Thread : ~Removing(u)
  BY <1>2 DEF AbsCache
<1> QED BY <1>1, <1>2

\* The steps that map to stuttering: taking the mutex, the copy into the
\* response, the erase of an entry that already counts as gone, the unlock.
LEMMA LockStutters ==
    ASSUME CacheInv, CacheInv', NEW t \in Thread, LockExclusive(t) \/ LockShared(t)
    PROVE  UNCHANGED Atomic!vars
<1>1. /\ pc[t] = "called" /\ pc' = [pc EXCEPT ![t] = "locked"]
      /\ lru' = lru /\ call' = call /\ response' = response
      /\ pc \in [Thread -> Stages]
  BY DEF LockExclusive, LockShared, CacheInv, TypeOK
<1>2. AbsCache' = AbsCache
  <2>1. \A u \in Thread : Removing(u)' <=> Removing(u)
    BY <1>1 DEF Removing
  <2> QED BY <1>1, <2>1, AbsCacheSame
<1>3. AbsStage' = AbsStage /\ AbsResp' = AbsResp
  BY <1>1 DEF AbsStage, AbsResp
<1> QED BY <1>1, <1>2, <1>3 DEF Atomic!vars

\* Copying the value is invisible: the abstract call has its answer since the
\* lookup.
LEMMA CopyStutters ==
    ASSUME CacheInv, CacheInv', NEW t \in Thread, CopyValue(t)
    PROVE  UNCHANGED Atomic!vars
<1>1. /\ pc[t] = "copy"
      /\ pc' = [pc EXCEPT ![t] = IF call[t].op = "remove" THEN "erase" ELSE "unlock"]
      /\ response' = [response EXCEPT ![t] = Answer("Ok", lru.val[call[t].key])]
      /\ lru' = lru /\ call' = call
      /\ call[t].op \in {"get", "remove"}
      /\ pc \in [Thread -> Stages] /\ response \in [Thread -> Response]
  BY DEF CopyValue, CacheInv, TypeOK, CallShape
<1>2. AbsCache' = AbsCache
  <2>1. \A u \in Thread : Removing(u)' <=> Removing(u)
    BY <1>1 DEF Removing
  <2> QED BY <1>1, <2>1, AbsCacheSame
<1>3. AbsStage' = AbsStage
  BY <1>1 DEF AbsStage
<1>4. AbsResp' = AbsResp
  BY <1>1 DEF AbsResp
<1> QED BY <1>1, <1>2, <1>3, <1>4 DEF Atomic!vars

\* Erasing is invisible: the abstract cache lacks the key since the lookup.
LEMMA EraseStutters ==
    ASSUME CacheInv, CacheInv', NEW t \in Thread, Erase(t)
    PROVE  UNCHANGED Atomic!vars
<1>1. /\ pc[t] = "erase" /\ pc' = [pc EXCEPT ![t] = "unlock"]
      /\ lru' = Drop(lru, call[t].key)
      /\ call' = call /\ response' = response
      /\ call[t].op = "remove"
      /\ pc \in [Thread -> Stages]
  BY DEF Erase, CacheInv, TypeOK, CallShape
<1>2. AbsCache = Drop(lru, call[t].key)
  BY <1>1, AbsCacheRemoving DEF Removing
<1>3. \A u \in Thread : u # t => pc[u] \notin Holding
  BY <1>1, Excluded DEF Holding, Exclusive
<1>4. \A u \in Thread : ~Removing(u)'
  BY <1>1, <1>3 DEF Removing, Holding
<1>5. AbsCache' = lru'
  BY <1>4 DEF AbsCache
<1>6. AbsStage' = AbsStage
  BY <1>1 DEF AbsStage
<1>7. AbsResp' = AbsResp
  <2>1. \A u \in Thread : u # t => pc[u] # "copy"
    BY <1>3 DEF Holding
  <2> QED BY <1>1, <2>1 DEF AbsResp
<1> QED BY <1>1, <1>2, <1>5, <1>6, <1>7 DEF Atomic!vars

\* Giving the mutex back is invisible.
LEMMA UnlockStutters ==
    ASSUME CacheInv, CacheInv', NEW t \in Thread, Unlock(t)
    PROVE  UNCHANGED Atomic!vars
<1>1. /\ pc[t] = "unlock" /\ pc' = [pc EXCEPT ![t] = "returned"]
      /\ lru' = lru /\ call' = call
      /\ pc \in [Thread -> Stages] /\ response \in [Thread -> Response]
  BY DEF Unlock, CacheInv, TypeOK
<1>2. AbsCache' = AbsCache
  <2>1. \A u \in Thread : Removing(u)' <=> Removing(u)
    BY <1>1 DEF Removing
  <2> QED BY <1>1, <2>1, AbsCacheSame
<1>3. AbsStage' = AbsStage
  BY <1>1 DEF AbsStage
<1>4. AbsResp' = AbsResp
  <2>1. CASE call[t].op = "put"
    BY <1>1, <2>1 DEF AbsResp, Unlock
  <2>2. CASE call[t].op # "put"
    BY <1>1, <2>2 DEF AbsResp, Unlock
  <2> QED BY <2>1, <2>2
<1> QED BY <1>1, <1>2, <1>3, <1>4 DEF Atomic!vars

\* The beginning and the end of a call.
LEMMA CallRefines ==
    ASSUME CacheInv, CacheInv', NEW t \in Thread, Call(t)
    PROVE  Atomic!Invoke(t)
<1>1. /\ pc[t] = "idle" /\ pc' = [pc EXCEPT ![t] = "called"]
      /\ lru' = lru /\ response' = response
      /\ \E r \in Request : call' = [call EXCEPT ![t] = r]
      /\ pc \in [Thread -> Stages] /\ DOMAIN call = Thread
  BY DEF Call, CacheInv, TypeOK
<1>2. AbsCache' = AbsCache
  <2>1. \A u \in Thread : Removing(u)' <=> Removing(u)
    BY <1>1 DEF Removing
  <2>2. \A u \in Thread : Removing(u) => call'[u] = call[u]
    BY <1>1 DEF Removing
  <2> QED BY <1>1, <2>1, <2>2, AbsCacheSame
<1>3. AbsStage[t] = "idle" /\ AbsStage' = [AbsStage EXCEPT ![t] = "called"]
  BY <1>1 DEF AbsStage
<1>4. AbsResp' = AbsResp
  BY <1>1 DEF AbsResp
<1> QED BY <1>1, <1>2, <1>3, <1>4, SameOperators DEF Atomic!Invoke

\* Returning to the caller is the return of the abstract call.
LEMMA LeaveRefines ==
    ASSUME CacheInv, CacheInv', NEW t \in Thread, Leave(t)
    PROVE  Atomic!Return(t)
<1>1. /\ pc[t] = "returned" /\ pc' = [pc EXCEPT ![t] = "idle"]
      /\ lru' = lru
      /\ response' = [response EXCEPT ![t] = Unset]
      /\ call' = [call EXCEPT ![t] = NoRequest]
      /\ pc \in [Thread -> Stages] /\ DOMAIN call = Thread
      /\ response \in [Thread -> Response]
  BY DEF Leave, CacheInv, TypeOK
<1>2. AbsCache' = AbsCache
  <2>1. \A u \in Thread : Removing(u)' <=> Removing(u)
    BY <1>1 DEF Removing
  <2>2. \A u \in Thread : Removing(u) => call'[u] = call[u]
    BY <1>1 DEF Removing
  <2> QED BY <1>1, <2>1, <2>2, AbsCacheSame
<1>3. AbsStage[t] = "done" /\ AbsStage' = [AbsStage EXCEPT ![t] = "idle"]
  BY <1>1 DEF AbsStage
<1>4. AbsResp' = [AbsResp EXCEPT ![t] = Unset]
  BY <1>1 DEF AbsResp
<1> QED BY <1>1, <1>2, <1>3, <1>4, SameOperators DEF Atomic!Return

\* The linearization points: the early return and the store of put, and the
\* lookup of get and remove.
LEMMA RejectRefines ==
    ASSUME CacheInv, CacheInv', NEW t \in Thread, RejectNoValue(t)
    PROVE  Atomic!Execute(t)
<1>1. /\ pc[t] = "called" /\ pc' = [pc EXCEPT ![t] = "returned"]
      /\ lru' = lru /\ call' = call
      /\ response' = [response EXCEPT ![t] = Answer("InvalidArgument", None)]
      /\ call[t].op = "put" /\ call[t].value = None
      /\ pc \in [Thread -> Stages] /\ response \in [Thread -> Response]
  BY DEF RejectNoValue, CacheInv, TypeOK
<1>2. AbsCache' = AbsCache
  <2>1. \A u \in Thread : Removing(u)' <=> Removing(u)
    BY <1>1 DEF Removing
  <2> QED BY <1>1, <2>1, AbsCacheSame
<1>3. AbsStage[t] = "called" /\ AbsStage' = [AbsStage EXCEPT ![t] = "done"]
  BY <1>1 DEF AbsStage
<1>4. AbsResp' = [AbsResp EXCEPT ![t] = Answer("InvalidArgument", None)]
  BY <1>1 DEF AbsResp
<1>5. /\ Effect(AbsCache, call[t]) = AbsCache
      /\ Reply(AbsCache, call[t]) = Answer("InvalidArgument", None)
  BY <1>1 DEF Effect, Reply
<1> QED BY <1>1, <1>2, <1>3, <1>4, <1>5, SameOperators DEF Atomic!Execute

\* A put takes effect when it stores.
LEMMA PutRefines ==
    ASSUME CacheInv, CacheInv', NEW t \in Thread, PutStore(t)
    PROVE  Atomic!Execute(t)
<1>1. /\ pc[t] = "locked" /\ pc' = [pc EXCEPT ![t] = "unlock"]
      /\ lru' = Store(lru, call[t].key, call[t].value)
      /\ call' = call /\ response' = response
      /\ call[t].op = "put" /\ call[t].value \in Value
      /\ pc \in [Thread -> Stages] /\ response \in [Thread -> Response]
  BY DEF PutStore, CacheInv, TypeOK, CallShape, Holding
<1>2. \A u \in Thread : u # t => pc[u] \notin Holding
  BY <1>1, Excluded, NoneAssumption DEF Holding, Exclusive
<1>3. \A u \in Thread : ~Removing(u) /\ ~Removing(u)'
  BY <1>1, <1>2 DEF Removing, Holding
<1>4. AbsCache = lru /\ AbsCache' = lru'
  BY <1>3 DEF AbsCache
<1>5. AbsStage[t] = "called" /\ AbsStage' = [AbsStage EXCEPT ![t] = "done"]
  BY <1>1 DEF AbsStage
<1>6. AbsResp' = [AbsResp EXCEPT ![t] = Answer("Ok", None)]
  <2>1. \A u \in Thread : u # t => pc[u] # "copy"
    BY <1>2 DEF Holding
  <2> QED BY <1>1, <2>1 DEF AbsResp
<1>7. /\ Effect(lru, call[t]) = lru'
      /\ Reply(lru, call[t]) = Answer("Ok", None)
  BY <1>1, NoneAssumption DEF Effect, Reply
<1> QED BY <1>1, <1>4, <1>5, <1>6, <1>7, SameOperators DEF Atomic!Execute

\* A get or a remove takes effect when it looks the key up.
LEMMA LookupRefines ==
    ASSUME CacheInv, CacheInv', NEW t \in Thread, Lookup(t)
    PROVE  Atomic!Execute(t)
<1> DEFINE k == call[t].key
           hit == Has(lru, k)
           answer == IF hit THEN Answer("Ok", lru.val[k]) ELSE Answer("NotFound", None)
<1>1. /\ pc[t] = "locked"
      /\ pc' = [pc EXCEPT ![t] = IF hit THEN "copy" ELSE "unlock"]
      /\ response' = IF hit THEN response
                            ELSE [response EXCEPT ![t] = Answer("NotFound", None)]
      /\ lru' = TryGet(lru, k)
      /\ call' = call
      /\ call[t].op \in {"get", "remove"}
      /\ pc \in [Thread -> Stages] /\ response \in [Thread -> Response]
  BY DEF Lookup, CacheInv, TypeOK
<1>2. k \in Key /\ WellFormed(lru)
  BY <1>1, ShapesDisjoint DEF CacheInv, TypeOK, CallShape
<1>3. \A u \in Thread : ~Removing(u)
  BY <1>1, QuietInside DEF Removing, Holding
<1>4. AbsCache = lru
  BY <1>3, AbsCacheQuiet
<1>5. lru'.val = lru.val
  BY <1>1, <1>2, TryGetWellFormed
<1>6. AbsCache' = Effect(lru, call[t])
  <2>1. CASE hit /\ call[t].op = "remove"
    <3>1. /\ Removing(t)'
          /\ \A u \in Thread : Removing(u)' => u = t
      BY <1>1, <1>3, <2>1 DEF Removing
    <3>2. (CHOOSE u \in Thread : Removing(u)') = t
      BY <3>1
    <3>3. AbsCache' = Drop(lru', k)
      BY <1>1, <3>1, <3>2 DEF AbsCache
    <3>4. Drop(lru', k) = Drop(lru, k)
      BY <1>1, <1>2, <2>1, DropAfterTouch DEF TryGet
    <3> QED BY <2>1, <3>3, <3>4 DEF Effect
  <2>2. CASE ~hit \/ call[t].op = "get"
    <3>1. \A u \in Thread : ~Removing(u)'
      BY <1>1, <1>3, <2>2 DEF Removing
    <3>2. AbsCache' = lru'
      BY <3>1 DEF AbsCache
    <3>3. Effect(lru, call[t]) = TryGet(lru, k)
      BY <1>1, <2>2 DEF Effect, TryGet, Drop
    <3> QED BY <1>1, <3>2, <3>3
  <2> QED BY <1>1, <2>1, <2>2
<1>7. AbsStage[t] = "called" /\ AbsStage' = [AbsStage EXCEPT ![t] = "done"]
  BY <1>1 DEF AbsStage
<1>8. AbsResp' = [AbsResp EXCEPT ![t] = answer]
  <2>1. CASE hit
    BY <1>1, <1>5, <2>1 DEF AbsResp
  <2>2. CASE ~hit
    BY <1>1, <1>5, <2>2 DEF AbsResp
  <2> QED BY <2>1, <2>2
<1>9. Reply(lru, call[t]) = answer
  BY <1>1 DEF Reply
<1> QED BY <1>1, <1>4, <1>6, <1>7, <1>8, <1>9, SameOperators DEF Atomic!Execute

\* Every step is a step of the abstract cache or invisible.
LEMMA StepRefines ==
    ASSUME CacheInv, CacheInv', [CacheNext]_cacheVars
    PROVE  [Atomic!Next]_Atomic!vars
<1>1. ASSUME NEW t \in Thread, Call(t) \/ Step(t)
      PROVE  Atomic!Next \/ UNCHANGED Atomic!vars
  <2>1. ASSUME Atomic!Invoke(t) \/ Atomic!Execute(t) \/ Atomic!Return(t)
        PROVE  Atomic!Next
    BY <2>1 DEF Atomic!Next
  <2> QED BY <1>1, <2>1, CallRefines, RejectRefines, LockStutters, PutRefines,
             LookupRefines, CopyStutters, EraseStutters, UnlockStutters,
             LeaveRefines DEF Step
<1>2. CASE UNCHANGED cacheVars
  BY <1>2 DEF cacheVars, Atomic!vars, AbsCache, AbsStage, AbsResp, Removing
<1> QED BY <1>1, <1>2 DEF CacheNext

\* The cache is linearizable: with any number of threads every put, get and
\* remove takes effect in one step between its call and its return.
THEOREM CacheIsAtomic == CacheSpec => AtomicSpec
BY CacheInvariant, InitRefines, StepRefines, PTL DEF CacheSpec, AtomicSpec, Atomic!Spec
===============================================================================
