----------------------------- MODULE AtLeastOnceKv -----------------------------
(***************************************************************************)
(* What a kv server promises its clients, whether they come through the    *)
(* RPC service of a cluster or through the HTTP interface.  There is one   *)
(* store.  A request that was sent may take effect any number of times,    *)
(* also after its client was told that it failed or that it succeeded; an  *)
(* answer is the answer of one of these executions.  The store forgets     *)
(* keys when a put needs room, since it is a cache, and when one of its    *)
(* processes restarts, and at no other time.                               *)
(***************************************************************************)
EXTENDS KvApi

CONSTANT Call       \* the requests clients send

VARIABLES
    request,    \* request[c]: what call c asks for, once it was sent
    store,      \* store[k]: the value of key k, or None
    status,     \* status[c]: "idle", "waiting", "answered" or "failed"
    results,    \* results[c]: the answers of the executions of c so far
    answer,     \* answer[c]: what the client of c was told
    restarts    \* how often a process has restarted

vars == <<request, store, status, results, answer, restarts>>

Init ==
    /\ request = [c \in Call |-> NoRequest]
    /\ store = [k \in Key |-> None]
    /\ status = [c \in Call |-> "idle"]
    /\ results = [c \in Call |-> {}]
    /\ answer = [c \in Call |-> Unset]
    /\ restarts = 0

Send(c) ==
    /\ status[c] = "idle"
    /\ status' = [status EXCEPT ![c] = "waiting"]
    /\ \E r \in Request : request' = [request EXCEPT ![c] = r]
    /\ UNCHANGED <<store, results, answer, restarts>>

Execute(c) ==
    /\ status[c] # "idle"
    /\ results' = [results EXCEPT ![c] = @ \cup {StoreReply(store, request[c])}]
    /\ StoreStep(store, request[c], store')
    /\ UNCHANGED <<request, status, answer, restarts>>

Tell(c) ==
    /\ status[c] = "waiting"
    /\ \E r \in results[c] : answer' = [answer EXCEPT ![c] = r]
    /\ status' = [status EXCEPT ![c] = "answered"]
    /\ UNCHANGED <<request, store, results, restarts>>

GiveUp(c) ==
    /\ status[c] = "waiting"
    /\ status' = [status EXCEPT ![c] = "failed"]
    /\ UNCHANGED <<request, store, results, answer, restarts>>

\* A process restarts.
Forget ==
    /\ restarts' = restarts + 1
    /\ \E gone \in SUBSET Key :
          store' = [k \in Key |-> IF k \in gone THEN None ELSE store[k]]
    /\ UNCHANGED <<request, status, results, answer>>

Next ==
    \/ \E c \in Call : Send(c) \/ Execute(c) \/ Tell(c) \/ GiveUp(c)
    \/ Forget

Spec == Init /\ [][Next]_vars
===============================================================================
