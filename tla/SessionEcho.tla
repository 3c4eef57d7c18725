------------------------------ MODULE SessionEcho ------------------------------
(***************************************************************************)
(* The server of melon-examples/halamelon/session.  Echo writes into the   *)
(* session-local data of its RPC and into the thread-local data of its     *)
(* fiber, sleeps, starts a job in a fiber of its own and returns; the job  *)
(* sleeps, reads the session data and answers.  Session and thread-local   *)
(* data are objects of two pools of the library, modelled from their use:  *)
(* an RPC keeps its session data until done->Run(), a fiber keeps its      *)
(* thread-local data until it ends, and free objects are used again.       *)
(***************************************************************************)
EXTENDS Naturals, FiniteSets

CONSTANTS
    Controller,     \* the RPCs a server works on at the same time
    Session,        \* the MySessionLocalData objects there could be
    Tls,            \* the MyThreadLocalData objects there could be
    None

ASSUME NoneAssumption == None \notin Controller \cup Session \cup Tls
ASSUME FiniteAssumption == IsFiniteSet(Controller)

VARIABLES
    echo,       \* echo[c]: where the fiber that runs Echo for c is
    job,        \* job[c]: where the fiber of AsyncJob::run for c is
    done,       \* done[c]: how often done->Run() was called for c
    sd,         \* sd[c]: c's session-local data, or None
    x,          \* x[s]: the RPC whose value is in s
    tls,        \* tls[c]: the thread-local data of the fiber that runs Echo
    y,          \* y[t]: the RPC whose value is in t
    nsd,        \* the session data that were created
    ntls        \* the thread-local data that were created

vars == <<echo, job, done, sd, x, tls, y, nsd, ntls>>
fiberVars == <<tls, y, ntls>>
sessionVars == <<sd, x, nsd>>

Init ==
    /\ echo = [c \in Controller |-> "idle"]
    /\ job = [c \in Controller |-> "none"]
    /\ done = [c \in Controller |-> 0]
    /\ sd = [c \in Controller |-> None]
    /\ x = [s \in Session |-> None]
    /\ tls = [c \in Controller |-> None]
    /\ y = [t \in Tls |-> None]
    /\ nsd = {}
    /\ ntls = {}

\* What a pool gives out: a free object if there is one, else a new one.
Used(holds) == {holds[c] : c \in Controller} \ {None}

\* Mutant of Borrowed: an object is shared with whoever has it.
BorrowedShared(holds, created, all) ==
    IF created # {} THEN created ELSE all

\* Mutant of Borrowed: free objects are never given out again.
BorrowedNew(holds, created, all) ==
    IF all \ created # {} THEN all \ created ELSE all \ Used(holds)

Borrowed(holds, created, all) ==
    IF created \ Used(holds) # {} THEN created \ Used(holds) ELSE all \ created
-------------------------------------------------------------------------------
\* Echo up to its sleep.  Both data are there: the server was started with
\* both factories.
Echo(c) ==
    /\ echo[c] = "idle"
    /\ \E s \in Borrowed(sd, nsd, Session) :
          /\ sd' = [sd EXCEPT ![c] = s]
          /\ x' = [x EXCEPT ![s] = c]
          /\ nsd' = nsd \cup {s}
    /\ \E t \in Borrowed(tls, ntls, Tls) :
          /\ tls' = [tls EXCEPT ![c] = t]
          /\ y' = [y EXCEPT ![t] = c]
          /\ ntls' = ntls \cup {t}
    /\ echo' = [echo EXCEPT ![c] = "sleeping"]
    /\ UNCHANGED <<job, done>>

\* Mutant of StartJob: a fiber that could not be started is only logged.
StartJobMayFail(c) ==
    /\ echo[c] = "sleeping"
    /\ \E j \in {"sleeping", "done"} : job' = [job EXCEPT ![c] = j]
    /\ echo' = [echo EXCEPT ![c] = "started"]
    /\ UNCHANGED <<done, sessionVars, fiberVars>>

\* After the sleep Echo checks the thread-local data and starts the job.
StartJob(c) ==
    /\ echo[c] = "sleeping"
    /\ job' = [job EXCEPT ![c] = "sleeping"]
    /\ echo' = [echo EXCEPT ![c] = "started"]
    /\ UNCHANGED <<done, sessionVars, fiberVars>>

\* Mutant of ReleaseGuard: done_guard.release() is forgotten, and the guard
\* answers when Echo returns.
ReleaseGuardForgotten(c) ==
    /\ echo[c] = "started"
    /\ done' = [done EXCEPT ![c] = @ + 1]
    /\ sd' = [sd EXCEPT ![c] = None]
    /\ echo' = [echo EXCEPT ![c] = "released"]
    /\ UNCHANGED <<job, x, nsd, fiberVars>>

\* done_guard.release()
ReleaseGuard(c) ==
    /\ echo[c] = "started"
    /\ echo' = [echo EXCEPT ![c] = "released"]
    /\ UNCHANGED <<job, done, sessionVars, fiberVars>>

\* Mutant of Return: the session data goes back with the thread-local data.
ReturnWithSession(c) ==
    /\ echo[c] = "released"
    /\ echo' = [echo EXCEPT ![c] = "returned"]
    /\ tls' = [tls EXCEPT ![c] = None]
    /\ sd' = [sd EXCEPT ![c] = None]
    /\ UNCHANGED <<job, done, x, nsd, y, ntls>>

\* Echo returns and its fiber ends.
Return(c) ==
    /\ echo[c] = "released"
    /\ echo' = [echo EXCEPT ![c] = "returned"]
    /\ tls' = [tls EXCEPT ![c] = None]
    /\ UNCHANGED <<job, done, sessionVars, y, ntls>>

\* AsyncJob::run after its sleep: it checks the session data and fills in the
\* response; its guard calls done->Run(), which sends the response and gives
\* the session data back.
Run(c) ==
    /\ job[c] = "sleeping"
    /\ job' = [job EXCEPT ![c] = "done"]
    /\ done' = [done EXCEPT ![c] = @ + 1]
    /\ sd' = [sd EXCEPT ![c] = None]
    /\ UNCHANGED <<echo, x, nsd, fiberVars>>

\* Both fibers have ended: the next RPC may come.
Reuse(c) ==
    /\ echo[c] = "returned"
    /\ job[c] = "done"
    /\ echo' = [echo EXCEPT ![c] = "idle"]
    /\ job' = [job EXCEPT ![c] = "none"]
    /\ done' = [done EXCEPT ![c] = 0]
    /\ UNCHANGED <<sessionVars, fiberVars>>

Serve(c) == StartJob(c) \/ ReleaseGuard(c) \/ Return(c) \/ Run(c)

Next == \E c \in Controller : Echo(c) \/ Serve(c) \/ Reuse(c)

Spec == Init /\ [][Next]_vars
FairSpec == Spec /\ \A c \in Controller : WF_vars(Serve(c))
-------------------------------------------------------------------------------
\* The values of the variables.
TypeOK ==
    /\ echo \in [Controller -> {"idle", "sleeping", "started", "released", "returned"}]
    /\ job \in [Controller -> {"none", "sleeping", "done"}]
    /\ done \in [Controller -> 0..1]
    /\ sd \in [Controller -> Session \cup {None}]
    /\ x \in [Session -> Controller \cup {None}]
    /\ tls \in [Controller -> Tls \cup {None}]
    /\ y \in [Tls -> Controller \cup {None}]
    /\ nsd \in SUBSET Session
    /\ ntls \in SUBSET Tls

\* The CHECKs of AsyncJob::run hold: when the job wakes up, its RPC is not
\* answered and has the session data Echo saw, with the value Echo wrote,
\* whether or not Echo has returned.
SessionKept ==
    \A c \in Controller :
        job[c] = "sleeping" =>
            /\ done[c] = 0
            /\ sd[c] # None
            /\ x[sd[c]] = c

\* The CHECKs of Echo hold: when it wakes up, its fiber has the thread-local
\* data it had before, with the value it wrote, whatever ran meanwhile.
FiberDataKept ==
    \A c \in Controller :
        echo[c] = "sleeping" => tls[c] # None /\ y[tls[c]] = c

\* "Reused between different RPC": no more session data are created than RPCs
\* were ever worked on at the same time, and so for the thread-local data.
PoolsBounded ==
    /\ Cardinality(nsd) <= Cardinality(Controller)
    /\ Cardinality(ntls) <= Cardinality(Controller)

\* Every RPC Echo has begun to work on is answered.
EveryCallAnswered ==
    \A c \in Controller : echo[c] = "sleeping" ~> done[c] = 1
===============================================================================
