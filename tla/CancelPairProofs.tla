----------------------------- MODULE CancelPairProofs -----------------------------
(***************************************************************************)
(* Why the rounds of the two calls are safe, in any of the infinitely many  *)
(* rounds: TLC explores the model completely, the proof says why.           *)
(***************************************************************************)
EXTENDS CancelPair, TLAPS

Sent == {"sent", "ended", "ran", "done"}

\* What main has done so far with call 1 and with call 2.
Program ==
    /\ main = "send1" => \A i \in Rpc : call[i] = "ready"
    /\ main = "send2" => call[1] \in Sent /\ call[2] \in {"ready", "dead"}
    /\ main \in {"join1", "join2", "log"} => \A i \in Rpc : call[i] \in Sent
    /\ main \in {"join2", "log"} => call[1] = "done"
    /\ main = "log" => call[2] = "done"

\* A request is with the server only if it was sent; a done has run when its
\* call says so; and only a done that has run cancels, of two calls at most one.
CallInv ==
    \A i \in Rpc :
        /\ call[i] \in {"ready", "dead"} => server[i] = "none"
        /\ runs[i] = IF call[i] \in {"ran", "done"} THEN 1 ELSE 0
        /\ error[i] = "cancelled" =>
              call[Other(i)] \in {"ran", "done"} /\ error[Other(i)] # "cancelled"

PairInv == TypeOK /\ Program /\ CallInv

LEMMA OtherCall == /\ \A i \in Rpc : Other(i) \in Rpc /\ Other(i) # i /\ Other(Other(i)) = i
                   /\ Rpc = {1, 2}
BY DEF Rpc, Other

\* Main sends, joins and begins again.
LEMMA MainStep == ASSUME PairInv, Main PROVE PairInv'
<1>1. ASSUME NEW i \in Rpc, NEW next,
             \/ i = 1 /\ next = "send2" /\ Send(i, "send1", next)
             \/ i = 2 /\ next = "join1" /\ Send(i, "send2", next)
      PROVE  PairInv'
  <2>1. /\ call[i] \in {"ready", "dead"} /\ call'[i] \in {"sent", "ended"}
        /\ \A j \in Rpc \ {i} : call'[j] = call[j] /\ server'[j] = server[j]
        /\ main' = next /\ UNCHANGED <<error, runs>>
        /\ call' \in [Rpc -> {"ready", "sent", "dead", "ended", "ran", "done"}]
        /\ server' \in [Rpc -> {"none", "request", "response"}]
    BY <1>1 DEF Send, PairInv, TypeOK
  <2>2. TypeOK'
    BY <1>1, <2>1 DEF PairInv, TypeOK
  <2>3. Program'
    BY <1>1, <2>1, OtherCall DEF PairInv, Program, Sent, Send
  <2>4. CallInv'
    BY <1>1, <2>1, OtherCall DEF PairInv, CallInv
  <2> QED BY <2>2, <2>3, <2>4 DEF PairInv
<1>2. CASE Join(1, "join1", "join2") \/ Join(2, "join2", "log")
  BY <1>2 DEF Join, PairInv, TypeOK, Program, CallInv, Sent, Rpc
<1>3. CASE NextRound
  BY <1>3 DEF NextRound, PairInv, TypeOK, Program, CallInv, Sent, Rpc
<1> QED BY <1>1, <1>2, <1>3, OtherCall DEF Main

\* The server and the library work on one call.
LEMMA LibraryStep == ASSUME PairInv, NEW i \in Rpc, Library(i) PROVE PairInv'
<1>1. CASE Serve(i)
  BY <1>1 DEF Serve, PairInv, TypeOK, Program, CallInv
<1>2. CASE Respond(i)
  <2>1. call[i] \notin {"ready", "dead"}
    BY <1>2 DEF Respond, PairInv, CallInv
  <2>2. Ended(i) = IF call[i] = "sent" THEN "ended" ELSE call[i]
    BY <2>1 DEF Ended
  <2> QED BY <1>2, <2>1, <2>2, OtherCall
          DEF Respond, PairInv, TypeOK, Program, CallInv, Sent
<1>3. CASE Fail(i)
  <2>1. Ended(i) = "ended"
    BY <1>3 DEF Fail, Ended
  <2> QED BY <1>3, <2>1, OtherCall DEF Fail, PairInv, TypeOK, Program, CallInv, Sent
<1>4. CASE RunDone(i)
  <2> DEFINE o == Other(i)
  <2>1. o \in Rpc /\ o # i /\ Other(o) = i /\ Rpc = {i, o}
    BY OtherCall
  <2>2. /\ call[i] = "ended" /\ call'[i] = "ran" /\ call'[o] = Ended(o)
        /\ error'[o] = Cancel(o) /\ error'[i] = error[i]
        /\ runs'[i] = runs[i] + 1 /\ runs'[o] = runs[o]
        /\ UNCHANGED <<main, server>>
    BY <1>4, <2>1 DEF RunDone, PairInv, TypeOK
  <2>3. Ended(o) = CASE call[o] = "ready" -> "dead" [] call[o] = "sent" -> "ended"
                     [] OTHER -> call[o]
    BY DEF Ended
  <2>4. Cancel(o) = IF call[o] \in {"ready", "sent"} THEN "cancelled" ELSE error[o]
    BY DEF Cancel, Open
  <2> HIDE DEF o
  <2>5. /\ call[o] = "ready" => Ended(o) = "dead"
        /\ call[o] = "sent" => Ended(o) = "ended"
        /\ call[o] \notin {"ready", "sent"} => Ended(o) = call[o]
    BY <2>3
  <2>6. TypeOK'
    <3>1. /\ Ended(o) \in {"ready", "sent", "dead", "ended", "ran", "done"}
          /\ Cancel(o) \in {"none", "failed", "cancelled"}
          /\ runs[i] = 0
      BY <2>1, <2>2, <2>4, <2>5 DEF PairInv, TypeOK, CallInv
    <3>2. /\ call' = [call EXCEPT ![i] = "ran", ![o] = Ended(o)]
          /\ error' = [error EXCEPT ![o] = Cancel(o)]
          /\ runs' = [runs EXCEPT ![i] = runs[i] + 1]
      BY <1>4 DEF RunDone, o
    <3>3. call' \in [Rpc -> {"ready", "sent", "dead", "ended", "ran", "done"}]
      BY <3>1, <3>2 DEF PairInv, TypeOK
    <3>4. error' \in [Rpc -> {"none", "failed", "cancelled"}]
      BY <3>1, <3>2 DEF PairInv, TypeOK
    <3>5. runs' \in [Rpc -> 0..1]
      BY <3>1, <3>2 DEF PairInv, TypeOK
    <3> QED BY <2>2, <3>3, <3>4, <3>5 DEF PairInv, TypeOK
  <2>7. Program'
    BY <2>1, <2>2, <2>5, OtherCall DEF PairInv, Program, Sent
  <2>8. CallInv'
    BY <2>1, <2>2, <2>4, <2>5 DEF PairInv, CallInv, o
  <2> QED BY <2>6, <2>7, <2>8 DEF PairInv
<1>5. CASE Destroyed(i)
  BY <1>5, OtherCall DEF Destroyed, PairInv, TypeOK, Program, CallInv, Sent
<1> QED BY <1>1, <1>2, <1>3, <1>4, <1>5 DEF Library

\* What main and the calls know of each other holds in every round.
THEOREM PairInvariant == Spec => []PairInv
<1>1. Init => PairInv
  BY DEF Init, PairInv, TypeOK, Program, CallInv, Rpc
<1>2. PairInv /\ UNCHANGED vars => PairInv'
  BY DEF vars, PairInv, TypeOK, Program, CallInv
<1>3. PairInv /\ [Next]_vars => PairInv'
  BY <1>2, MainStep, LibraryStep DEF Next
<1> QED BY <1>1, <1>3, PTL DEF Spec

\* The values of the variables; in particular no done runs twice.
THEOREM PairTypeOK == Spec => []TypeOK
<1>1. PairInv => TypeOK
  BY DEF PairInv
<1> QED BY <1>1, PairInvariant, PTL

\* The calls never take each other down: of two failed calls, one failed by
\* itself (client.cc:117-124).
THEOREM PairSomeoneAnswers == Spec => []SomeoneAnswers
<1>1. PairInv => SomeoneAnswers
  BY OtherCall DEF PairInv, TypeOK, CallInv, SomeoneAnswers
<1> QED BY <1>1, PairInvariant, PTL

\* Main leaves a round only after both dones (client.cc:119).
THEOREM PairRoundIsOver == Spec => []RoundIsOver
<1>1. PairInv => RoundIsOver
  BY OtherCall DEF PairInv, Program, CallInv, RoundIsOver
<1> QED BY <1>1, PairInvariant, PTL
-------------------------------------------------------------------------------
\* The most steps a round still takes that the client waits for: those of main
\* and of the library, without the server, which need not answer.
MainFrom == [send1 |-> 4, send2 |-> 3, join1 |-> 2, join2 |-> 1, log |-> 0]
CallFrom == [ready |-> 4, sent |-> 3, dead |-> 3, ended |-> 2, ran |-> 1, done |-> 0]

StepsLeft == MainFrom[main] + CallFrom[call[1]] + CallFrom[call[2]]

Driven == Main \/ \E i \in Rpc : Fail(i) \/ RunDone(i) \/ Destroyed(i)

\* One of these steps can be taken: main is not at a join, or its call is done,
\* or the library still works on a call.
CanGoOn ==
    \/ main \in {"send1", "send2", "log"}
    \/ main = "join1" /\ call[1] = "done"
    \/ main = "join2" /\ call[2] = "done"
    \/ \E i \in Rpc : call[i] \in {"sent", "ended", "ran"}

\* They bring the round nearer to its end, and no step takes it further away.
RoundAdvances ==
    /\ Driven /\ main # "log" => StepsLeft' < StepsLeft
    /\ StepsLeft' > StepsLeft => main = "log"

LEMMA StepsNumber ==
    ASSUME PairInv
    PROVE  /\ StepsLeft \in Nat
           /\ \A i \in Rpc :
                StepsLeft = MainFrom[main] + CallFrom[call[i]] + CallFrom[call[Other(i)]]
<1>1. MainFrom[main] \in Nat /\ CallFrom[call[1]] \in Nat /\ CallFrom[call[2]] \in Nat
  BY DEF PairInv, TypeOK, Rpc, MainFrom, CallFrom
<1> QED BY <1>1 DEF StepsLeft, Rpc, Other

LEMMA MainAdvances ==
    ASSUME PairInv, Main, main # "log" PROVE StepsLeft' < StepsLeft
<1>1. CASE Send(1, "send1", "send2") \/ Send(2, "send2", "join1")
  BY <1>1, OtherCall DEF PairInv, TypeOK, Send, StepsLeft, MainFrom, CallFrom
<1>2. CASE Join(1, "join1", "join2") \/ Join(2, "join2", "log")
  BY <1>2, OtherCall DEF PairInv, TypeOK, Join, StepsLeft, MainFrom, CallFrom
<1> QED BY <1>1, <1>2 DEF Main, NextRound

LEMMA LibraryAdvances ==
    ASSUME PairInv, NEW i \in Rpc
    PROVE  /\ Fail(i) \/ RunDone(i) \/ Destroyed(i) => StepsLeft' < StepsLeft
           /\ Serve(i) \/ Respond(i) => StepsLeft' <= StepsLeft
<1> DEFINE o == Other(i)
<1>1. o \in Rpc /\ o # i
  BY OtherCall
<1>2. /\ StepsLeft \in Nat
      /\ StepsLeft = MainFrom[main] + CallFrom[call[i]] + CallFrom[call[o]]
  BY StepsNumber
<1>3. ASSUME Library(i)
      PROVE  StepsLeft' = MainFrom[main] + CallFrom[call'[i]] + CallFrom[call'[o]]
  <2>1. PairInv'
    BY <1>3, LibraryStep
  <2>2. main' = main
    BY <1>3 DEF Library, Serve, Respond, Fail, RunDone, Destroyed
  <2>3. /\ MainFrom[main'] \in Nat /\ CallFrom[call'[1]] \in Nat
        /\ CallFrom[call'[2]] \in Nat
    BY <2>1 DEF PairInv, TypeOK, Rpc, MainFrom, CallFrom
  <2> QED BY <2>2, <2>3 DEF StepsLeft, Rpc, Other
<1>4. /\ MainFrom[main] \in Nat
      /\ call \in [Rpc -> {"ready", "sent", "dead", "ended", "ran", "done"}]
      /\ \A j \in Rpc : CallFrom[Ended(j)] <= CallFrom[call[j]]
      /\ call[i] = "sent" => Ended(i) = "ended"
  BY DEF PairInv, TypeOK, MainFrom, CallFrom, Ended
<1>5. CallFrom[call[i]] \in Nat /\ CallFrom[call[o]] \in Nat
      /\ CallFrom[Ended(o)] \in Nat
  BY <1>1, <1>4 DEF CallFrom, Ended
<1> HIDE DEF o
<1>6. ASSUME Fail(i) PROVE StepsLeft' < StepsLeft
  <2>1. CallFrom[call'[i]] \in Nat /\ CallFrom[call'[i]] < CallFrom[call[i]] /\ call'[o] = call[o]
    BY <1>1, <1>4, <1>6 DEF Fail, CallFrom
  <2> QED BY <1>2, <1>3, <1>4, <1>5, <1>6, <2>1 DEF Library
<1>7. ASSUME RunDone(i) PROVE StepsLeft' < StepsLeft
  <2>1. CallFrom[call'[i]] \in Nat /\ CallFrom[call'[i]] < CallFrom[call[i]] /\ call'[o] = Ended(o)
    BY <1>1, <1>4, <1>7 DEF RunDone, CallFrom, o
  <2> QED BY <1>1, <1>2, <1>3, <1>4, <1>5, <1>7, <2>1 DEF Library
<1>8. ASSUME Destroyed(i) PROVE StepsLeft' < StepsLeft
  <2>1. CallFrom[call'[i]] \in Nat /\ CallFrom[call'[i]] < CallFrom[call[i]] /\ call'[o] = call[o]
    BY <1>1, <1>4, <1>8 DEF Destroyed, CallFrom
  <2> QED BY <1>2, <1>3, <1>4, <1>5, <1>8, <2>1 DEF Library
<1>9. ASSUME Serve(i) PROVE StepsLeft' <= StepsLeft
  <2>1. call' = call
    BY <1>9 DEF Serve
  <2> QED BY <1>2, <1>3, <1>4, <1>5, <1>9, <2>1 DEF Library
<1>10. ASSUME Respond(i) PROVE StepsLeft' <= StepsLeft
  <2>1. call'[i] = Ended(i) /\ call'[o] = call[o]
    BY <1>1, <1>4, <1>10 DEF Respond
  <2>2. CallFrom[call'[i]] <= CallFrom[call[i]] /\ CallFrom[call'[i]] \in Nat
    BY <1>4, <2>1 DEF CallFrom, Ended
  <2> QED BY <1>2, <1>3, <1>4, <1>5, <1>10, <2>1, <2>2 DEF Library
<1> QED BY <1>6, <1>7, <1>8, <1>9, <1>10

LEMMA RoundStepAdvances == ASSUME PairInv, [Next]_vars PROVE RoundAdvances
<1>1. StepsLeft \in Nat
  BY StepsNumber
<1>2. Driven /\ main # "log" => StepsLeft' < StepsLeft
  BY MainAdvances, LibraryAdvances DEF Driven
<1>3. CASE UNCHANGED vars
  <2>1. StepsLeft' = StepsLeft
    BY <1>3 DEF vars, StepsLeft
  <2> QED BY <1>1, <1>2, <2>1 DEF RoundAdvances
<1>4. CASE Main \/ \E i \in Rpc : Library(i)
  <2>2. StepsLeft' \in Nat
    <3>1. PairInv'
      BY <1>4, MainStep, LibraryStep
    <3> QED BY <3>1 DEF PairInv, TypeOK, Rpc, StepsLeft, MainFrom, CallFrom
  <2>1. CASE Main
    BY <1>1, <1>2, <2>1, <2>2, MainAdvances DEF RoundAdvances
  <2>3. ASSUME NEW i \in Rpc, Library(i) PROVE RoundAdvances
    <3>1. StepsLeft' <= StepsLeft
      BY <1>1, <2>2, <2>3, LibraryAdvances DEF Library
    <3> QED BY <1>1, <1>2, <2>2, <3>1 DEF RoundAdvances
  <2> QED BY <1>4, <2>1, <2>3
<1> QED BY <1>3, <1>4 DEF Next

\* The joins never wait for nothing, whoever has cancelled whom and when.
THEOREM PairCanGoOn == Spec => []CanGoOn
<1>1. PairInv => CanGoOn
  BY OtherCall DEF PairInv, TypeOK, Program, Sent, CanGoOn
<1> QED BY <1>1, PairInvariant, PTL

\* And a round is over after at most twelve steps of main and the library.
THEOREM PairRoundAdvances == Spec => [][RoundAdvances]_vars
BY PairInvariant, RoundStepAdvances, PTL DEF Spec
===============================================================================
