------------------------------- MODULE HalaCache -------------------------------
(***************************************************************************)
(* halakv::Cache of a010-hala-kv: an LRU container behind a shared mutex,  *)
(* called by every thread of the RPC server at once.  put and remove take  *)
(* the mutex exclusively, get takes it shared; the steps between taking    *)
(* and giving back the mutex are separate actions here, so that calls of   *)
(* different threads interleave wherever the mutex lets them.              *)
(***************************************************************************)
EXTENDS KvApi

CONSTANTS
    Thread,     \* the server threads that call the cache
    NoThread    \* nobody holds the mutex exclusively
ASSUME NoThreadAssumption == NoThread \notin Thread

VARIABLES
    lru,        \* _cache
    writer,     \* the thread that holds _mutex exclusively, or NoThread
    readers,    \* the threads that hold _mutex shared
    pc,         \* where each thread is in its call
    call,       \* call[t]: the KvRequest of t's call
    response    \* response[t]: the KvResponse t's call fills in

cacheVars == <<lru, writer, readers, pc, call, response>>

Stages == {"idle", "called", "locked", "copy", "erase", "unlock", "returned"}

CacheInit ==
    /\ lru = EmptyCache
    /\ writer = NoThread
    /\ readers = {}
    /\ pc = [t \in Thread |-> "idle"]
    /\ call = [t \in Thread |-> NoRequest]
    /\ response = [t \in Thread |-> Unset]

Goto(t, stage_) == pc' = [pc EXCEPT ![t] = stage_]
Respond(t, answer) == response' = [response EXCEPT ![t] = answer]

\* A thread enters put, get or remove.
Call(t) ==
    /\ pc[t] = "idle"
    /\ \E r \in Request : call' = [call EXCEPT ![t] = r]
    /\ Goto(t, "called")
    /\ UNCHANGED <<lru, writer, readers, response>>

\* put without a value answers at once and never takes the mutex.
RejectNoValue(t) ==
    /\ pc[t] = "called"
    /\ call[t].op = "put"
    /\ call[t].value = None
    /\ Respond(t, Answer("InvalidArgument", None))
    /\ Goto(t, "returned")
    /\ UNCHANGED <<lru, writer, readers, call>>

Exclusive(r) == r.op = "remove" \/ (r.op = "put" /\ r.value # None)

\* Mutant of LockExclusive: put and remove do not wait for the mutex, like the
\* cache of a009-hala-dkv, which has none.
LockExclusiveNoWait(t) ==
    /\ pc[t] = "called"
    /\ Exclusive(call[t])
    /\ writer' = t
    /\ Goto(t, "locked")
    /\ UNCHANGED <<lru, readers, call, response>>

\* Mutant of LockExclusive: the lock lets readers stay.
LockExclusiveWithReaders(t) ==
    /\ pc[t] = "called"
    /\ Exclusive(call[t])
    /\ writer = NoThread
    /\ writer' = t
    /\ Goto(t, "locked")
    /\ UNCHANGED <<lru, readers, call, response>>

\* std::unique_lock in put and in remove.
LockExclusive(t) ==
    /\ pc[t] = "called"
    /\ Exclusive(call[t])
    /\ writer = NoThread /\ readers = {}
    /\ writer' = t
    /\ Goto(t, "locked")
    /\ UNCHANGED <<lru, readers, call, response>>

\* std::shared_lock in get.
LockShared(t) ==
    /\ pc[t] = "called"
    /\ call[t].op = "get"
    /\ writer = NoThread
    /\ readers' = readers \cup {t}
    /\ Goto(t, "locked")
    /\ UNCHANGED <<lru, writer, call, response>>

\* put: _cache->put under the mutex.
PutStore(t) ==
    /\ pc[t] = "locked"
    /\ call[t].op = "put"
    /\ lru' = Store(lru, call[t].key, call[t].value)
    /\ Goto(t, "unlock")
    /\ UNCHANGED <<writer, readers, call, response>>

\* Mutant of Lookup: a lookup waits for the key, with the mutex in its hands.
LookupWaitsForKey(t) ==
    /\ pc[t] = "locked"
    /\ call[t].op \in {"get", "remove"}
    /\ IF Has(lru, call[t].key)
       THEN lru' = TryGet(lru, call[t].key) /\ Goto(t, "copy")
       ELSE UNCHANGED <<lru, pc>>
    /\ UNCHANGED <<writer, readers, call, response>>

\* Mutant of Lookup: the way out for a missing key leaves the mutex locked.
LookupReturnsLocked(t) ==
    /\ pc[t] = "locked"
    /\ call[t].op \in {"get", "remove"}
    /\ lru' = TryGet(lru, call[t].key)
    /\ IF Has(lru, call[t].key)
       THEN Goto(t, "copy") /\ UNCHANGED response
       ELSE Goto(t, "returned") /\ Respond(t, Answer("NotFound", None))
    /\ UNCHANGED <<writer, readers, call>>

\* get and remove: _cache->try_get, which moves a key it finds to the front
\* of the list; r.first then points at the value.
Lookup(t) ==
    /\ pc[t] = "locked"
    /\ call[t].op \in {"get", "remove"}
    /\ lru' = TryGet(lru, call[t].key)
    /\ IF Has(lru, call[t].key)
       THEN Goto(t, "copy") /\ UNCHANGED response
       ELSE Goto(t, "unlock") /\ Respond(t, Answer("NotFound", None))
    /\ UNCHANGED <<writer, readers, call>>

\* Mutant of CopyValue: remove answers "Ok" without the value it takes out.
CopyValueOnlyInGet(t) ==
    /\ pc[t] = "copy"
    /\ Respond(t, Answer("Ok", IF call[t].op = "get" THEN lru.val[call[t].key] ELSE None))
    /\ Goto(t, IF call[t].op = "remove" THEN "erase" ELSE "unlock")
    /\ UNCHANGED <<lru, writer, readers, call>>

\* get and remove: response->set_value(*r.first) and the code.
CopyValue(t) ==
    /\ pc[t] = "copy"
    /\ Respond(t, Answer("Ok", lru.val[call[t].key]))
    /\ Goto(t, IF call[t].op = "remove" THEN "erase" ELSE "unlock")
    /\ UNCHANGED <<lru, writer, readers, call>>

\* remove: _cache->remove after the answer was filled in.
Erase(t) ==
    /\ pc[t] = "erase"
    /\ lru' = Drop(lru, call[t].key)
    /\ Goto(t, "unlock")
    /\ UNCHANGED <<writer, readers, call, response>>

\* The lock object goes out of scope.  put answers after that.
Unlock(t) ==
    /\ pc[t] = "unlock"
    /\ writer' = IF writer = t THEN NoThread ELSE writer
    /\ readers' = readers \ {t}
    /\ IF call[t].op = "put" THEN Respond(t, Answer("Ok", None))
                             ELSE UNCHANGED response
    /\ Goto(t, "returned")
    /\ UNCHANGED <<lru, call>>

\* The call returns and the server sends the response.
Leave(t) ==
    /\ pc[t] = "returned"
    /\ Goto(t, "idle")
    /\ call' = [call EXCEPT ![t] = NoRequest]
    /\ Respond(t, Unset)
    /\ UNCHANGED <<lru, writer, readers>>

\* The steps of a call once it has been made.
Step(t) ==
    \/ RejectNoValue(t)
    \/ LockExclusive(t)
    \/ LockShared(t)
    \/ PutStore(t)
    \/ Lookup(t)
    \/ CopyValue(t)
    \/ Erase(t)
    \/ Unlock(t)
    \/ Leave(t)

CacheNext == \E t \in Thread : Call(t) \/ Step(t)

CacheSpec == CacheInit /\ [][CacheNext]_cacheVars

\* A server thread inside a call keeps running; nobody has to make a call,
\* and the mutex is not fair.
FairCacheSpec == CacheSpec /\ \A t \in Thread : WF_cacheVars(Step(t))
-------------------------------------------------------------------------------
\* The values the variables take; the container stays well formed and within
\* its capacity.
TypeOK ==
    /\ WellFormed(lru)
    /\ writer \in Thread \cup {NoThread}
    /\ readers \subseteq Thread
    /\ pc \in [Thread -> Stages]
    /\ call \in [Thread -> Request \cup {NoRequest}]
    /\ response \in [Thread -> Response]

Holding == {"locked", "copy", "erase", "unlock"}

\* The mutex protects what it should: a thread between its lock and its unlock
\* holds the mutex in the mode its operation asks for, and while one holds it
\* exclusively nobody else is in there (cache.cc:37, 45, 58).
LockProtects ==
    /\ \A t \in Thread : pc[t] \in Holding =>
          IF Exclusive(call[t]) THEN writer = t ELSE t \in readers
    /\ writer # NoThread => readers = {}

\* And the other way round: whoever holds the mutex is on its way through the
\* critical section.
HeldInside ==
    /\ writer # NoThread => pc[writer] \in Holding /\ Exclusive(call[writer])
    /\ \A t \in readers : pc[t] \in Holding /\ call[t].op = "get"

\* A thread in a call goes on unless it waits for the mutex: the guards of Step.
CanStep(t) ==
    /\ pc[t] # "idle"
    /\ pc[t] = "called" /\ call[t].op = "get" => writer = NoThread
    /\ pc[t] = "called" /\ Exclusive(call[t]) => writer = NoThread /\ readers = {}

\* The server never comes to a stop: whichever calls have been made, one of them
\* can go on.  Every way out of put, get and remove, with and without the key,
\* has given the mutex back (cache.cc:37, 45-55, 58-70).
NeverStuck == (\E t \in Thread : pc[t] # "idle") => \E t \in Thread : CanStep(t)

\* The entry r.first refers to is still in the container when get and remove
\* copy the value out of it, and when remove erases it: nobody erases or
\* evicts it between the lookup and its uses (cache.cc:46-48, 59-64).
EntryStillThere ==
    \A t \in Thread : pc[t] \in {"copy", "erase"} => Has(lru, call[t].key)

\* A remove that answers Ok hands over the very value it takes out: nobody
\* overwrites the entry between the copy into the response and the erase
\* (cache.cc:61-64).
RemoveHandsOver ==
    \A t \in Thread : pc[t] = "erase" =>
        response[t] = Answer("Ok", lru.val[call[t].key])

\* What a thread works on where: an idle thread has no request, a put never
\* gets past the mutex without a value, only a lookup is followed by a copy and
\* only in remove by an erase.
CallShape ==
    \A t \in Thread :
        /\ pc[t] # "idle" => call[t] \in Request
        /\ pc[t] \in Holding /\ call[t].op = "put" => call[t].value \in Value
        /\ pc[t] = "copy" => call[t].op \in {"get", "remove"}
        /\ pc[t] = "erase" => call[t].op = "remove"

\* The inductive invariant: the parts need each other.
CacheInv ==
    /\ TypeOK /\ CallShape
    /\ LockProtects /\ HeldInside
    /\ EntryStillThere /\ RemoveHandsOver

\* A value leaves the container only by a remove that answers with it, by a
\* put of the same key, or by the eviction a put of a new key causes in a full
\* container: nothing is lost between two calls.
LossExplained ==
    \A k \in Key : Has(lru, k) /\ lru'.val[k] # lru.val[k] =>
        \E t \in Thread :
            \/ /\ pc[t] = "erase" /\ call[t].key = k
               /\ response[t].value = lru.val[k]
            \/ pc[t] = "locked" /\ call[t].op = "put" /\ call[t].key = k
            \/ /\ pc[t] = "locked" /\ call[t].op = "put"
               /\ ~Has(lru, call[t].key)
               /\ Len(lru.order) = Capacity /\ LeastRecent(lru) = k

NothingLost == [][LossExplained]_cacheVars

\* Whenever some call has been made, some call gets to its end: no path
\* leaves with the mutex held, and the threads do not wait for each other in
\* a circle.
SomeCallReturns ==
    (\E t \in Thread : pc[t] # "idle") ~> (\E t \in Thread : pc[t] = "returned")
-------------------------------------------------------------------------------
(***************************************************************************)
(* The cache implements AtomicCache.  A put takes effect when it stores, a *)
(* get and a remove when they look the key up; under the exclusive lock    *)
(* the entry a remove has found already counts as gone.                    *)
(***************************************************************************)
Removing(t) == pc[t] \in {"copy", "erase"} /\ call[t].op = "remove"

AbsCache ==
    IF \E t \in Thread : Removing(t)
    THEN Drop(lru, call[CHOOSE t \in Thread : Removing(t)].key)
    ELSE lru

AbsStage ==
    [t \in Thread |-> IF pc[t] = "idle" THEN "idle"
                      ELSE IF pc[t] \in {"called", "locked"} THEN "called"
                      ELSE "done"]

AbsResp ==
    [t \in Thread |->
        IF pc[t] = "copy" THEN Answer("Ok", lru.val[call[t].key])
        ELSE IF pc[t] = "unlock" /\ call[t].op = "put" THEN Answer("Ok", None)
        ELSE response[t]]

Atomic == INSTANCE AtomicCache
    WITH cache <- AbsCache, stage <- AbsStage, req <- call, resp <- AbsResp

\* Every call takes effect at one instant, though its steps interleave with
\* those of the others.
AtomicSpec == Atomic!Spec
===============================================================================
