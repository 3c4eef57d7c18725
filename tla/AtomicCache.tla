------------------------------ MODULE AtomicCache ------------------------------
(***************************************************************************)
(* What halakv::Cache promises to the threads that call it: every call of  *)
(* put, get and remove takes effect in one indivisible step between its    *)
(* invocation and its return, and answers with what that step did.         *)
(***************************************************************************)
EXTENDS KvApi

CONSTANT Thread     \* the server threads that call the cache

VARIABLES
    cache,      \* the container
    stage,      \* stage[t]: "idle", "called" or "done"
    req,        \* req[t]: the request t is working on, NoRequest when idle
    resp        \* resp[t]: the response of t's call, Unset until it has one

vars == <<cache, stage, req, resp>>

Init ==
    /\ cache = EmptyCache
    /\ stage = [t \in Thread |-> "idle"]
    /\ req = [t \in Thread |-> NoRequest]
    /\ resp = [t \in Thread |-> Unset]

Invoke(t) ==
    /\ stage[t] = "idle"
    /\ \E r \in Request : req' = [req EXCEPT ![t] = r]
    /\ stage' = [stage EXCEPT ![t] = "called"]
    /\ UNCHANGED <<cache, resp>>

\* The linearization point.
Execute(t) ==
    /\ stage[t] = "called"
    /\ cache' = Effect(cache, req[t])
    /\ resp' = [resp EXCEPT ![t] = Reply(cache, req[t])]
    /\ stage' = [stage EXCEPT ![t] = "done"]
    /\ UNCHANGED req

Return(t) ==
    /\ stage[t] = "done"
    /\ stage' = [stage EXCEPT ![t] = "idle"]
    /\ req' = [req EXCEPT ![t] = NoRequest]
    /\ resp' = [resp EXCEPT ![t] = Unset]
    /\ UNCHANGED cache

Next == \E t \in Thread : Invoke(t) \/ Execute(t) \/ Return(t)

Spec == Init /\ [][Next]_vars
===============================================================================
