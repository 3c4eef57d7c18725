--------------------------- MODULE SessionEchoProofs ---------------------------
(***************************************************************************)
(* The session server is correct for any number of concurrent RPCs and any *)
(* number of data objects: no object is with two RPCs, the values Echo has *)
(* written are there when they are checked, every RPC is answered at most  *)
(* once, and the pools do not grow beyond the number of concurrent RPCs.   *)
(***************************************************************************)
EXTENDS SessionEcho, FiniteSetTheorems, TLAPS

\* A pool: nobody shares an object, what is given out was created, and there
\* are no more objects than RPCs.
PoolInv(holds, created) ==
    /\ \A c, d \in Controller : holds[c] # None /\ holds[c] = holds[d] => c = d
    /\ Used(holds) \subseteq created
    /\ IsFiniteSet(created)
    /\ Cardinality(created) <= Cardinality(Controller)

\* What the two fibers of an RPC know of each other.
FibersInv ==
    \A c \in Controller :
        /\ echo[c] = "idle" => job[c] = "none" /\ done[c] = 0
        /\ echo[c] = "sleeping" => job[c] = "none"
        /\ echo[c] \in {"idle", "returned"} <=> tls[c] = None
        /\ echo[c] \in {"started", "released", "returned"} => job[c] # "none"
        /\ echo[c] = "idle" \/ job[c] = "done" <=> sd[c] = None
        /\ job[c] = "none" => done[c] = 0
        /\ job[c] = "done" => done[c] = 1

\* The values Echo wrote are in the data the RPC and its fiber have.
DataInv ==
    \A c \in Controller :
        /\ sd[c] # None => x[sd[c]] = c /\ done[c] = 0
        /\ tls[c] # None => y[tls[c]] = c

SessionInv ==
    /\ TypeOK
    /\ PoolInv(sd, nsd)
    /\ PoolInv(tls, ntls)
    /\ FibersInv
    /\ DataInv
-------------------------------------------------------------------------------
\* Taking an object: nobody else has it, and a new one is only created when all
\* the others are with RPCs.
LEMMA BorrowKeepsPool ==
    ASSUME NEW all, None \notin all,
           NEW holds \in [Controller -> all \cup {None}],
           NEW created \in SUBSET all,
           PoolInv(holds, created),
           NEW c \in Controller, holds[c] = None,
           NEW o \in Borrowed(holds, created, all)
    PROVE  /\ o \in all
           /\ \A d \in Controller : holds[d] # o
           /\ PoolInv([holds EXCEPT ![c] = o], created \cup {o})
<1> DEFINE after == [holds EXCEPT ![c] = o]
<1>1. o \in all /\ o # None /\ \A d \in Controller : holds[d] # o
  BY DEF Borrowed, Used, PoolInv
<1>2. \A d, e \in Controller : after[d] # None /\ after[d] = after[e] => d = e
  BY <1>1 DEF PoolInv
<1>3. Used(after) \subseteq created \cup {o}
  BY <1>1 DEF PoolInv, Used
<1>4. IsFiniteSet(created \cup {o})
  BY FS_AddElement DEF PoolInv
<1>5. Cardinality(created \cup {o}) <= Cardinality(Controller)
  <2>1. CASE o \in created
    <3>1. created \cup {o} = created
      BY <2>1
    <3> QED BY <3>1 DEF PoolInv
  <2>2. CASE o \notin created
    <3>1. created \subseteq Used(holds)
      BY <2>2 DEF Borrowed
    <3>2. created \cup {o} \subseteq {after[d] : d \in Controller}
      <4>1. o = after[c]
        OBVIOUS
      <4>2. ASSUME NEW p \in created PROVE \E d \in Controller : p = after[d]
        <5>1. PICK d \in Controller : p = holds[d] /\ p # None
          BY <3>1, <4>2 DEF Used
        <5>2. d # c
          BY <5>1
        <5>3. after[d] = holds[d]
          BY <5>2
        <5> QED BY <5>1, <5>3
      <4> QED BY <4>1, <4>2
    <3>3. /\ IsFiniteSet({after[d] : d \in Controller})
          /\ Cardinality({after[d] : d \in Controller}) <= Cardinality(Controller)
      <4>1. after \in Surjection(Controller, {after[d] : d \in Controller})
        BY DEF Surjection
      <4> QED BY <4>1, FS_Surjection, FiniteAssumption
    <3>4. Cardinality(created \cup {o}) <= Cardinality({after[d] : d \in Controller})
      BY <3>2, <3>3, FS_Subset
    <3>5. /\ Cardinality(created \cup {o}) \in Nat
          /\ Cardinality({after[d] : d \in Controller}) \in Nat
          /\ Cardinality(Controller) \in Nat
      BY <1>4, <3>3, FS_CardinalityType, FiniteAssumption
    <3> QED BY <3>3, <3>4, <3>5
  <2> QED BY <2>1, <2>2
<1> QED BY <1>1, <1>2, <1>3, <1>4, <1>5 DEF PoolInv

\* Giving an object back.
LEMMA GiveBackKeepsPool ==
    ASSUME NEW holds, NEW created, DOMAIN holds = Controller,
           PoolInv(holds, created), NEW c \in Controller
    PROVE  PoolInv([holds EXCEPT ![c] = None], created)
<1> DEFINE after == [holds EXCEPT ![c] = None]
<1>1. \A d \in Controller : after[d] = IF d = c THEN None ELSE holds[d]
  OBVIOUS
<1>2. \A d, e \in Controller : after[d] # None /\ after[d] = after[e] => d = e
  BY <1>1 DEF PoolInv
<1>3. Used(after) \subseteq created
  BY <1>1 DEF PoolInv, Used
<1> QED BY <1>2, <1>3 DEF PoolInv
-------------------------------------------------------------------------------
\* The server has just started.
LEMMA InitSession == Init => SessionInv
<1> SUFFICES ASSUME Init PROVE SessionInv
  OBVIOUS
<1>1. TypeOK /\ FibersInv /\ DataInv
  BY DEF Init, TypeOK, FibersInv, DataInv
<1>2. IsFiniteSet({}) /\ Cardinality({}) <= Cardinality(Controller)
  BY FS_EmptySet, FS_CardinalityType, FiniteAssumption
<1>3. PoolInv(sd, nsd) /\ PoolInv(tls, ntls)
  BY <1>2 DEF Init, PoolInv, Used
<1> QED BY <1>1, <1>3 DEF SessionInv

\* Echo begins: it takes an object from each pool and writes into it.
LEMMA EchoSession == ASSUME SessionInv, NEW c \in Controller, Echo(c) PROVE SessionInv'
<1>1. sd[c] = None /\ tls[c] = None
  BY DEF SessionInv, FibersInv, Echo
<1>2. PICK s \in Borrowed(sd, nsd, Session) :
         /\ sd' = [sd EXCEPT ![c] = s]
         /\ x' = [x EXCEPT ![s] = c]
         /\ nsd' = nsd \cup {s}
  BY DEF Echo
<1>3. PICK t \in Borrowed(tls, ntls, Tls) :
         /\ tls' = [tls EXCEPT ![c] = t]
         /\ y' = [y EXCEPT ![t] = c]
         /\ ntls' = ntls \cup {t}
  BY DEF Echo
<1>4. /\ s \in Session
      /\ \A d \in Controller : sd[d] # s
      /\ PoolInv(sd', nsd')
  BY <1>1, <1>2, BorrowKeepsPool, NoneAssumption DEF SessionInv, TypeOK
<1>5. /\ t \in Tls
      /\ \A d \in Controller : tls[d] # t
      /\ PoolInv(tls', ntls')
  BY <1>1, <1>3, BorrowKeepsPool, NoneAssumption DEF SessionInv, TypeOK
<1>6. TypeOK'
  BY <1>2, <1>3, <1>4, <1>5 DEF SessionInv, TypeOK, Echo
<1>7. FibersInv'
  BY <1>2, <1>3, <1>4, <1>5, NoneAssumption DEF SessionInv, TypeOK, FibersInv, Echo
<1>8. DataInv'
  BY <1>2, <1>3, <1>4, <1>5 DEF SessionInv, TypeOK, DataInv, FibersInv, Echo
<1>9. PoolInv(sd, nsd)' /\ PoolInv(tls, ntls)'
  BY <1>4, <1>5 DEF PoolInv, Used
<1> QED BY <1>6, <1>7, <1>8, <1>9 DEF SessionInv

\* Echo hands over to the job and forgets its guard: no data change hands.
LEMMA HandOverSession ==
    ASSUME SessionInv, NEW c \in Controller, StartJob(c) \/ ReleaseGuard(c) \/ Reuse(c)
    PROVE  SessionInv'
<1>1. TypeOK'
  BY DEF SessionInv, TypeOK, StartJob, ReleaseGuard, Reuse, sessionVars, fiberVars
<1>2. FibersInv'
  BY DEF SessionInv, TypeOK, FibersInv, StartJob, ReleaseGuard, Reuse, sessionVars, fiberVars
<1>3. DataInv'
  BY DEF SessionInv, TypeOK, FibersInv, DataInv, StartJob, ReleaseGuard, Reuse,
         sessionVars, fiberVars
<1>4. PoolInv(sd, nsd)' /\ PoolInv(tls, ntls)'
  BY DEF SessionInv, PoolInv, Used, StartJob, ReleaseGuard, Reuse, sessionVars, fiberVars
<1> QED BY <1>1, <1>2, <1>3, <1>4 DEF SessionInv

\* Echo returns: its fiber's data go back, the session data stay.
LEMMA ReturnSession == ASSUME SessionInv, NEW c \in Controller, Return(c) PROVE SessionInv'
<1>1. TypeOK'
  BY DEF SessionInv, TypeOK, Return, sessionVars
<1>2. FibersInv' /\ DataInv'
  BY DEF SessionInv, TypeOK, FibersInv, DataInv, Return, sessionVars
<1>3. PoolInv(sd, nsd)'
  BY DEF SessionInv, PoolInv, Used, Return, sessionVars
<1>4. PoolInv(tls, ntls)'
  <2>1. PoolInv([tls EXCEPT ![c] = None], ntls)
    BY GiveBackKeepsPool DEF SessionInv, TypeOK
  <2> QED BY <2>1 DEF PoolInv, Used, Return
<1> QED BY <1>1, <1>2, <1>3, <1>4 DEF SessionInv

\* The job answers: the session data go back.
LEMMA RunSession == ASSUME SessionInv, NEW c \in Controller, Run(c) PROVE SessionInv'
<1>1. done[c] = 0
  BY DEF SessionInv, FibersInv, DataInv, Run
<1>2. TypeOK'
  BY <1>1 DEF SessionInv, TypeOK, Run, fiberVars
<1>3. FibersInv' /\ DataInv'
  BY DEF SessionInv, TypeOK, FibersInv, DataInv, Run, fiberVars
<1>4. PoolInv(tls, ntls)'
  BY DEF SessionInv, PoolInv, Used, Run, fiberVars
<1>5. PoolInv(sd, nsd)'
  <2>1. PoolInv([sd EXCEPT ![c] = None], nsd)
    BY GiveBackKeepsPool DEF SessionInv, TypeOK
  <2> QED BY <2>1 DEF PoolInv, Used, Run
<1> QED BY <1>2, <1>3, <1>4, <1>5 DEF SessionInv

\* Every step keeps the inductive invariant.
LEMMA SessionStep == ASSUME SessionInv, [Next]_vars PROVE SessionInv'
<1>1. CASE UNCHANGED vars
  BY <1>1 DEF SessionInv, TypeOK, PoolInv, Used, FibersInv, DataInv, vars
<1>2. ASSUME NEW c \in Controller, Echo(c) \/ Serve(c) \/ Reuse(c) PROVE SessionInv'
  BY <1>2, EchoSession, HandOverSession, ReturnSession, RunSession DEF Serve
<1> QED BY <1>1, <1>2 DEF Next

\* The inductive invariant holds of every behaviour.
THEOREM SessionInvariant == Spec => []SessionInv
BY InitSession, SessionStep, PTL DEF Spec

\* The values of the variables; in particular no RPC is answered twice, whether
\* its job answers before Echo has released the guard or after.
THEOREM SessionTypeOK == Spec => []TypeOK
<1>1. SessionInv => TypeOK
  BY DEF SessionInv
<1> QED BY <1>1, SessionInvariant, PTL

\* AsyncJob::run finds the session data of its RPC with the value Echo wrote.
THEOREM SessionSessionKept == Spec => []SessionKept
<1>1. SessionInv => SessionKept
  BY DEF SessionInv, TypeOK, FibersInv, DataInv, SessionKept
<1> QED BY <1>1, SessionInvariant, PTL

\* Echo finds the thread-local data of its fiber with the value it wrote.
THEOREM SessionFiberDataKept == Spec => []FiberDataKept
<1>1. SessionInv => FiberDataKept
  BY DEF SessionInv, FibersInv, DataInv, FiberDataKept
<1> QED BY <1>1, SessionInvariant, PTL

\* The pools never hold more objects than there are concurrent RPCs.
THEOREM SessionPoolsBounded == Spec => []PoolsBounded
<1>1. SessionInv => PoolsBounded
  BY DEF SessionInv, PoolInv, PoolsBounded
<1> QED BY <1>1, SessionInvariant, PTL
-------------------------------------------------------------------------------
\* The most steps the server still takes for an RPC, in its two fibers.
EchoFrom == [idle |-> 0, returned |-> 0, released |-> 1, started |-> 2, sleeping |-> 4]
JobFrom == [none |-> 0, done |-> 0, sleeping |-> 1]

StepsLeft(c) == EchoFrom[echo[c]] + JobFrom[job[c]]

\* A fiber of the RPC can run: none of them waits for the other one.
CanServe(c) == echo[c] \in {"sleeping", "started", "released"} \/ job[c] = "sleeping"

\* An RPC that has begun can go on or is answered.
ServedOrAnswered ==
    \A c \in Controller :
        /\ CanServe(c) <=> StepsLeft(c) > 0
        /\ CanServe(c) \/ done[c] = 1 \/ echo[c] = "idle"

\* What the server does for an RPC brings it nearer to its end; nobody else's
\* steps take it further away.
ServeAdvances ==
    \A c \in Controller :
        /\ Serve(c) => StepsLeft(c)' < StepsLeft(c)
        /\ StepsLeft(c)' > StepsLeft(c) => echo[c] = "idle"

LEMMA StepsNumber ==
    ASSUME SessionInv, NEW c \in Controller
    PROVE  /\ StepsLeft(c) \in Nat
           /\ StepsLeft(c) > 0 <=> CanServe(c)
BY DEF SessionInv, TypeOK, StepsLeft, EchoFrom, JobFrom, CanServe

LEMMA ServeStepAdvances ==
    ASSUME SessionInv, [Next]_vars PROVE ServeAdvances
<1>1. ASSUME NEW c \in Controller, Serve(c)
      PROVE  /\ StepsLeft(c)' < StepsLeft(c)
             /\ \A d \in Controller \ {c} : echo'[d] = echo[d] /\ job'[d] = job[d]
  <2>1. /\ echo \in [Controller -> {"idle", "sleeping", "started", "released", "returned"}]
        /\ job \in [Controller -> {"none", "sleeping", "done"}]
        /\ echo[c] = "sleeping" => job[c] = "none"
    BY DEF SessionInv, TypeOK, FibersInv
  <2> QED BY <1>1, <2>1 DEF Serve, StartJob, ReleaseGuard, Return, Run, StepsLeft,
             EchoFrom, JobFrom
<1>2. ASSUME NEW c \in Controller, StepsLeft(c)' > StepsLeft(c) PROVE echo[c] = "idle"
  <2>1. SessionInv'
    BY SessionStep
  <2>2. StepsLeft(c) \in Nat /\ StepsLeft(c)' \in Nat
    BY <2>1 DEF SessionInv, TypeOK, StepsLeft, EchoFrom, JobFrom
  <2>3. ~ (echo'[c] = echo[c] /\ job'[c] = job[c])
    BY <1>2, <2>2 DEF StepsLeft
  <2>4. ASSUME NEW d \in Controller, Echo(d) \/ Serve(d) \/ Reuse(d) PROVE echo[c] = "idle"
    <3>1. CASE Serve(d)
      BY <1>1, <1>2, <2>2, <2>3, <3>1
    <3>2. CASE Echo(d)
      BY <2>3, <3>2 DEF Echo, SessionInv, TypeOK
    <3>3. CASE Reuse(d)
      BY <1>2, <2>2, <2>3, <3>3 DEF Reuse, SessionInv, TypeOK, StepsLeft, EchoFrom, JobFrom
    <3> QED BY <2>4, <3>1, <3>2, <3>3
  <2>5. CASE UNCHANGED vars
    BY <2>3, <2>5 DEF vars
  <2> QED BY <2>4, <2>5 DEF Next
<1> QED BY <1>1, <1>2 DEF ServeAdvances

\* No RPC is left behind: as long as it is not answered one of its own fibers
\* can run, whatever the others do with the pools.
THEOREM SessionServedOrAnswered == Spec => []ServedOrAnswered
<1>1. ASSUME SessionInv, NEW c \in Controller
      PROVE  CanServe(c) \/ done[c] = 1 \/ echo[c] = "idle"
  BY <1>1 DEF SessionInv, TypeOK, FibersInv, CanServe
<1>2. SessionInv => ServedOrAnswered
  BY <1>1, StepsNumber DEF ServedOrAnswered
<1> QED BY <1>2, SessionInvariant, PTL

\* And after at most five such steps it is answered.
THEOREM SessionServeAdvances == Spec => [][ServeAdvances]_vars
BY SessionInvariant, ServeStepAdvances, PTL DEF Spec
===============================================================================
