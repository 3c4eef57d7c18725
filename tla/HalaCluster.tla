------------------------------ MODULE HalaCluster ------------------------------
(***************************************************************************)
(* The cluster of a010-hala-kv.  A client sends a request to any process;  *)
(* that process, the front, serves it from its own cache or forwards it    *)
(* with RouterSender::send_request, which makes up to kRetryTimes attempts.*)
(* An attempt that timed out may still be executed, before or after the    *)
(* next one; processes restart with an empty cache.  A cache operation is  *)
(* one step: HalaCache implements AtomicCache.                             *)
(***************************************************************************)
EXTENDS KvProxy, FiniteSets

CONSTANTS
    Call,           \* the runs of the client, one request each
    Workload,       \* bound: the requests they choose from
    kRetryTimes,    \* RouterSender::kRetryTimes
    MaxRestarts,    \* bound: restarts of processes
    MaxResends      \* bound: requests the RPC library sends a second time

ASSUME ClusterAssumption ==
    /\ Node # {}
    /\ Workload \subseteq Request
    /\ kRetryTimes \in Nat \ {0}
    /\ MaxRestarts \in Nat /\ MaxResends \in Nat
\* Nothing in the code compares the lists, and everything relies on it.
ASSUME PeersAgreeAssumption == PeersAgree

Attempt == 1 .. kRetryTimes

VARIABLES
    entry,      \* entry[c]: the process call c is sent to (--server)
    req,        \* req[c]: its request (--op, --key, --value)
    client,     \* client[c]: what the client of c knows
    answer,     \* answer[c]: the KvResponse the client got
    front,      \* front[c]: the handler of c in process entry[c]
    reply,      \* reply[c]: the KvResponse of that handler
    tries,      \* tries[c]: retry_time in send_request
    leaf,       \* leaf[c][a]: the handler of attempt a in the target process
    leafReply,  \* leafReply[c][a]: the KvResponse of that handler
    cache,      \* cache[n]: the cache of process n
    outcomes,   \* outcomes[c]: all answers executions of c have produced
    restarts,   \* counts up to MaxRestarts
    resends     \* counts up to MaxResends

vars == <<entry, req, client, answer, front, reply, tries, leaf, leafReply,
          cache, outcomes, restarts, resends>>

\* The variables one call's handling changes, apart from the cache.
fixedVars == <<entry, req>>
clientVars == <<client, answer>>
frontVars == <<front, reply, tries>>
leafVars == <<leaf, leafReply>>
storeVars == <<cache, outcomes>>
boundVars == <<restarts, resends>>

Init ==
    /\ entry \in [Call -> Node]
    /\ req \in [Call -> Workload]
    /\ client = [c \in Call |-> "idle"]
    /\ answer = [c \in Call |-> Unset]
    /\ front = [c \in Call |-> "none"]
    /\ reply = [c \in Call |-> Unset]
    /\ tries = [c \in Call |-> 0]
    /\ leaf = [c \in Call |-> [a \in Attempt |-> "none"]]
    /\ leafReply = [c \in Call |-> [a \in Attempt |-> Unset]]
    /\ cache = [n \in Node |-> EmptyCache]
    /\ outcomes = [c \in Call |-> {}]
    /\ restarts = 0
    /\ resends = 0

\* Mutant of ExecuteAt: the handler did not wait for its forward, and the
\* request buffer holds the value of another put by now.
ExecuteAtReusedRequest(n, c) ==
    \E d \in Call :
        LET r == IF req[c].op = "put" /\ req[d].op = "put"
                 THEN [req[c] EXCEPT !.value = req[d].value] ELSE req[c]
        IN  /\ cache' = [cache EXCEPT ![n] = Effect(cache[n], r)]
            /\ outcomes' = [outcomes EXCEPT ![c] = @ \cup {Reply(cache[n], r)}]

\* Process n executes call c on its cache.
ExecuteAt(n, c) ==
    /\ cache' = [cache EXCEPT ![n] = Effect(cache[n], req[c])]
    /\ outcomes' = [outcomes EXCEPT ![c] = @ \cup {Reply(cache[n], req[c])}]
-------------------------------------------------------------------------------
\* The client calls the stub.
ClientSend(c) ==
    /\ client[c] = "idle"
    /\ client' = [client EXCEPT ![c] = "waiting"]
    /\ front' = [front EXCEPT ![c] = "sent"]
    /\ UNCHANGED <<fixedVars, answer, reply, tries, leafVars, storeVars, boundVars>>

\* The response arrives.  The RPC layer turns a response whose required fields
\* are not set into a failure of the call.
ClientAnswered(c) ==
    /\ client[c] = "waiting"
    /\ front[c] = "done"
    /\ reply[c] # Unset
    /\ client' = [client EXCEPT ![c] = "answered"]
    /\ answer' = [answer EXCEPT ![c] = reply[c]]
    /\ UNCHANGED <<fixedVars, frontVars, leafVars, storeVars, boundVars>>

\* cntl.Failed(): --timeout_ms has passed, the connection broke or the
\* response was not complete.
ClientFails(c) ==
    /\ client[c] = "waiting"
    /\ client' = [client EXCEPT ![c] = "failed"]
    /\ UNCHANGED <<fixedVars, answer, frontVars, leafVars, storeVars, boundVars>>

\* The client's RPC library sends the request again (--max_retry) after the
\* connection broke on a handler that was done or died.
ClientResend(c) ==
    /\ client[c] = "waiting"
    /\ front[c] \in {"done", "dead"}
    /\ resends < MaxResends
    /\ resends' = resends + 1
    /\ front' = [front EXCEPT ![c] = "sent"]
    /\ UNCHANGED <<fixedVars, clientVars, reply, tries, leafVars, storeVars, restarts>>
-------------------------------------------------------------------------------
\* Mutant of ServeLocal: every process serves every key itself.
ServeLocalAlways(c) ==
    /\ front[c] = "sent"
    /\ ExecuteAt(entry[c], c)
    /\ reply' = [reply EXCEPT ![c] = Reply(cache[entry[c]], req[c])]
    /\ front' = [front EXCEPT ![c] = "done"]
    /\ UNCHANGED <<fixedVars, clientVars, tries, leafVars, boundVars>>

\* KvProxy::set, get, remove, first branch: the key is local.
ServeLocal(c) ==
    /\ front[c] = "sent"
    /\ IsLocal(entry[c], req[c].key)
    /\ ExecuteAt(entry[c], c)
    /\ reply' = [reply EXCEPT ![c] = Reply(cache[entry[c]], req[c])]
    /\ front' = [front EXCEPT ![c] = "done"]
    /\ UNCHANGED <<fixedVars, clientVars, tries, leafVars, boundVars>>

\* Second branch: a fiber runs the sender and the handler joins it.
Forward(c) ==
    /\ front[c] = "sent"
    /\ ~IsLocal(entry[c], req[c].key)
    /\ reply' = [reply EXCEPT ![c] = Unset]
    /\ tries' = [tries EXCEPT ![c] = 0]
    /\ front' = [front EXCEPT ![c] = "attempting"]
    /\ UNCHANGED <<fixedVars, clientVars, leafVars, storeVars, boundVars>>

\* The fiber does not start, which Fiber::run_urgent only logs: join() waits
\* for the fiber whose number happens to be in _tid.
FiberFails(c) ==
    /\ front[c] = "sent"
    /\ ~IsLocal(entry[c], req[c].key)
    /\ reply' = [reply EXCEPT ![c] = Unset]
    /\ front' = [front EXCEPT ![c] = "joining"]
    /\ UNCHANGED <<fixedVars, clientVars, tries, leafVars, storeVars, boundVars>>

\* There is none, or it ends, if it ever does: the handler ends with OkStatus
\* and a response nobody has filled in.
JoinReturns(c) ==
    /\ front[c] = "joining"
    /\ front' = [front EXCEPT ![c] = "done"]
    /\ UNCHANGED <<fixedVars, clientVars, reply, tries, leafVars, storeVars, boundVars>>

\* One turn of the loop of send_request, after the sleep: the channel is
\* opened and CallMethod sends the request.
StartAttempt(c) ==
    /\ front[c] = "attempting"
    /\ leaf' = [leaf EXCEPT ![c][tries[c] + 1] = "sent"]
    /\ leafReply' = [leafReply EXCEPT ![c][tries[c] + 1] = Unset]
    /\ front' = [front EXCEPT ![c] = "calling"]
    /\ UNCHANGED <<fixedVars, clientVars, reply, tries, storeVars, boundVars>>

\* Mutant of AttemptFails: one turn of the loop too many.
AttemptFailsOneMore(c) ==
    /\ front[c] \in {"attempting", "calling"}
    /\ tries' = [tries EXCEPT ![c] = @ + 1]
    /\ front' = [front EXCEPT ![c] =
                    IF tries[c] + 1 <= kRetryTimes THEN "attempting" ELSE "done"]
    /\ UNCHANGED <<fixedVars, clientVars, reply, leafVars, storeVars, boundVars>>

\* Mutant of AttemptFails: a failed attempt is not counted.
AttemptFailsUncounted(c) ==
    /\ front[c] \in {"attempting", "calling"}
    /\ front' = [front EXCEPT ![c] = "attempting"]
    /\ UNCHANGED <<fixedVars, clientVars, reply, tries, leafVars, storeVars, boundVars>>

\* Mutant of AttemptFails: giving up counts as not having found the key.
AttemptFailsNotFound(c) ==
    /\ front[c] \in {"attempting", "calling"}
    /\ tries' = [tries EXCEPT ![c] = @ + 1]
    /\ IF tries[c] + 1 < kRetryTimes
       THEN front' = [front EXCEPT ![c] = "attempting"] /\ UNCHANGED reply
       ELSE /\ front' = [front EXCEPT ![c] = "done"]
            /\ reply' = [reply EXCEPT ![c] = Answer("NotFound", None)]
    /\ UNCHANGED <<fixedVars, clientVars, leafVars, storeVars, boundVars>>

\* The attempt counts as failed, short_channel.Init in "attempting" or
\* CallMethod in "calling": the loop goes on or gives up.  KvProxy drops the
\* status it gives up with.
AttemptFails(c) ==
    /\ front[c] \in {"attempting", "calling"}
    /\ tries' = [tries EXCEPT ![c] = @ + 1]
    /\ front' = [front EXCEPT ![c] =
                    IF tries[c] + 1 < kRetryTimes THEN "attempting" ELSE "done"]
    /\ UNCHANGED <<fixedVars, clientVars, reply, leafVars, storeVars, boundVars>>

\* CallMethod returns without failure: its response is the handler's.
AttemptSucceeds(c) ==
    /\ front[c] = "calling"
    /\ leaf[c][tries[c] + 1] = "done"
    /\ reply' = [reply EXCEPT ![c] = leafReply[c][tries[c] + 1]]
    /\ front' = [front EXCEPT ![c] = "done"]
    /\ UNCHANGED <<fixedVars, clientVars, tries, leafVars, storeVars, boundVars>>

\* The RPC library sends an attempt again within CallMethod, after the
\* connection broke under the response.
AttemptResend(c) ==
    /\ front[c] = "calling"
    /\ leaf[c][tries[c] + 1] = "done"
    /\ resends < MaxResends
    /\ resends' = resends + 1
    /\ leaf' = [leaf EXCEPT ![c][tries[c] + 1] = "sent"]
    /\ UNCHANGED <<fixedVars, clientVars, frontVars, leafReply, storeVars, restarts>>
-------------------------------------------------------------------------------
\* A forwarded request reaches the target process, whether or not anybody
\* still waits for it.  The handler is the same as the front's: it would
\* forward once more if it did not find the key local; the model stops there.
LeafServes(c, a) ==
    /\ leaf[c][a] = "sent"
    /\ LET n == Target(entry[c], req[c].key)
       IN  IF IsLocal(n, req[c].key)
           THEN /\ ExecuteAt(n, c)
                /\ leaf' = [leaf EXCEPT ![c][a] = "done"]
                /\ leafReply' = [leafReply EXCEPT ![c][a] = Reply(cache[n], req[c])]
           ELSE /\ leaf' = [leaf EXCEPT ![c][a] = "reforward"]
                /\ UNCHANGED <<storeVars, leafReply>>
    /\ UNCHANGED <<fixedVars, clientVars, frontVars, boundVars>>

\* Process n dies and is started again: its cache is empty, the forwards it
\* was making are gone.  Requests on their way to it may still arrive.
Restart(n) ==
    /\ restarts < MaxRestarts
    /\ restarts' = restarts + 1
    /\ cache' = [cache EXCEPT ![n] = EmptyCache]
    /\ front' = [c \in Call |->
                    IF entry[c] = n /\ front[c] \in {"attempting", "calling", "joining"}
                    THEN "dead" ELSE front[c]]
    /\ UNCHANGED <<fixedVars, clientVars, reply, tries, leafVars, outcomes, resends>>
-------------------------------------------------------------------------------
ClientStep(c) ==
    ClientSend(c) \/ ClientAnswered(c) \/ ClientFails(c) \/ ClientResend(c)

FrontStep(c) ==
    \/ ServeLocal(c)
    \/ Forward(c)
    \/ FiberFails(c)
    \/ JoinReturns(c)
    \/ StartAttempt(c)
    \/ AttemptFails(c)
    \/ AttemptSucceeds(c)
    \/ AttemptResend(c)

Next ==
    \/ \E c \in Call : ClientStep(c)
    \/ \E c \in Call : FrontStep(c)
    \/ \E c \in Call, a \in Attempt : LeafServes(c, a)
    \/ \E n \in Node : Restart(n)

Spec == Init /\ [][Next]_vars

\* A running process runs its fibers, and the timer of a channel ends every
\* wait for a response; nobody has to send, deliver or restart anything.
FairSpec ==
    /\ Spec
    /\ \A c \in Call : WF_vars(StartAttempt(c)) /\ WF_vars(AttemptFails(c))
-------------------------------------------------------------------------------
TypeOK ==
    /\ entry \in [Call -> Node]
    /\ req \in [Call -> Request]
    /\ client \in [Call -> {"idle", "waiting", "answered", "failed"}]
    /\ answer \in [Call -> Response]
    /\ front \in [Call -> {"none", "sent", "attempting", "calling", "joining", "done", "dead"}]
    /\ reply \in [Call -> Response]
    /\ tries \in [Call -> 0 .. kRetryTimes]
    /\ leaf \in [Call -> [Attempt -> {"none", "sent", "done", "reforward"}]]
    /\ leafReply \in [Call -> [Attempt -> Response]]
    /\ cache \in [Node -> Cache] /\ \A n \in Node : WellFormed(cache[n])
    /\ outcomes \in [Call -> SUBSET Response]
    /\ restarts \in 0 .. MaxRestarts
    /\ resends \in 0 .. MaxResends

\* A key is only ever held by the process all others look for it in: no get
\* misses a value that another process has (kv_proxy.cc:59, 79, 99).
OwnerOnly ==
    \A n \in Node, k \in Key : Has(cache[n], k) => n = Owner(k)

\* A forwarded request is served where it arrives and never passed on again
\* (kv_service.cc:32 calls the same proxy that forwarded it).
OneHop == \A c \in Call, a \in Attempt : leaf[c][a] # "reforward"

\* A client that got an answer got the answer of an execution of its own
\* request, on the process that owns the key: an answer is never made up from
\* a failed forward or from another attempt's empty response.
AnswerWasExecuted ==
    \A c \in Call : client[c] = "answered" =>
        answer[c] \in outcomes[c] /\ answer[c] # Unset

\* Whatever was retried, executed late or executed twice, a process holds for a
\* key only a value some client asked to put under that key, and a get or
\* remove answers only with such a value.
Sent(k, v) ==
    \E c \in Call : /\ client[c] # "idle"
                    /\ req[c].op = "put" /\ req[c].key = k /\ req[c].value = v

ValuesWereSent ==
    /\ \A n \in Node, k \in Key :
          Has(cache[n], k) => Sent(k, cache[n].val[k])
    /\ \A c \in Call : \A r \in outcomes[c] :
          r.value # None => Sent(req[c].key, r.value)

\* A put that was answered Ok stays visible at the owner while no other call
\* writes the key, no process has restarted and the keys of the owner fit into
\* its cache: late and repeated executions of the same put do no harm.
OtherWriter(c) ==
    \E d \in Call \ {c} : /\ client[d] # "idle" /\ req[d].key = req[c].key
                          /\ req[d].op # "get"

OwnKeys(n) == {k \in Key : Owner(k) = n}

RoomAt(n) == IsFiniteSet(OwnKeys(n)) /\ Cardinality(OwnKeys(n)) <= Capacity

Settled(c) ==
    /\ client[c] = "answered" /\ req[c].op = "put" /\ answer[c].code = "Ok"
    /\ ~OtherWriter(c)
    /\ restarts = 0
    /\ RoomAt(Owner(req[c].key))

SettledPutVisible ==
    \A c \in Call : Settled(c) =>
        cache[Owner(req[c].key)].val[req[c].key] = req[c].value

\* A handler whose fiber forwards ends, whatever happens to its attempts; only
\* one whose fiber did not start may wait for ever (kv_proxy.cc:70,
\* router_sender.h:119, fiber.h:61-68).
ForwardEnds ==
    \A c \in Call :
        front[c] \in {"attempting", "calling"} ~> front[c] \in {"done", "dead"}
\* Where the parts of a call are: the loop of send_request has attempts left
\* while it runs, only requests that were sent are executed, and a response is
\* empty or comes from an execution.
CallShape ==
    \A c \in Call :
        /\ front[c] \in {"attempting", "calling"} => tries[c] < kRetryTimes
        /\ client[c] = "idle" =>
              front[c] = "none" /\ \A a \in Attempt : leaf[c][a] = "none"
        /\ reply[c] \in outcomes[c] \cup {Unset}
        /\ \A a \in Attempt : leafReply[c][a] \in outcomes[c] \cup {Unset}

\* The inductive invariant.
ClusterInv ==
    TypeOK /\ CallShape /\ OwnerOnly /\ OneHop /\ AnswerWasExecuted /\ ValuesWereSent
-------------------------------------------------------------------------------
\* The cluster seen as one store: the value of a key is its owner's.
OneStore == [k \in Key |-> cache[Owner(k)].val[k]]

\* What was sent so far.
SentRequests == [c \in Call |-> IF client[c] = "idle" THEN NoRequest ELSE req[c]]

Abstract == INSTANCE AtLeastOnceKv
    WITH request <- SentRequests, store <- OneStore, status <- client,
         results <- outcomes, answer <- answer

\* The cluster behaves like one store that executes requests at least once.
AbstractSpec == Abstract!Spec
===============================================================================
