------------------------------ MODULE CancelPair -------------------------------
(***************************************************************************)
(* The client of melon-examples/halamelon/cancel: rounds of two            *)
(* asynchronous calls, each with a done that cancels the other call by its *)
(* id, and a main that joins both before the round's objects go out of     *)
(* scope.  A call of the library is modelled from how the client uses it:  *)
(* it ends once, by its response, an error of its own or a cancel; its     *)
(* done runs after that, in a fiber of its own, and Join returns after     *)
(* done has.  A call that was cancelled before it was sent runs its done   *)
(* when it is sent.                                                        *)
(***************************************************************************)
EXTENDS Naturals

Rpc == {1, 2}
Other(i) == 3 - i

VARIABLES
    main,       \* the statement main is at
    call,       \* call[i]: how far RPC i is
    error,      \* error[i]: what cntl.Failed() tells about RPC i
    server,     \* server[i]: how far the server is with request i
    runs        \* runs[i]: how often done i ran in this round

vars == <<main, call, error, server, runs>>

Init ==
    /\ main = "send1"
    /\ call = [i \in Rpc |-> "ready"]
    /\ error = [i \in Rpc |-> "none"]
    /\ server = [i \in Rpc |-> "none"]
    /\ runs = [i \in Rpc |-> 0]
-------------------------------------------------------------------------------
\* RPC i can still end with a result.
Open(i) == call[i] \in {"ready", "sent"}

\* Mutant of Cancel: also a call that has ended but whose id is not destroyed is
\* cancelled.
CancelLate(i) == IF Open(i) \/ call[i] \in {"ended", "ran"} THEN "cancelled" ELSE error[i]

\* What cntl.Failed() tells about RPC i after StartCancel.
Cancel(i) == IF Open(i) THEN "cancelled" ELSE error[i]

\* How far RPC i is after it was ended: done runs only for a call that was sent.
Ended(i) == CASE call[i] = "ready" -> "dead"
              [] call[i] = "sent" -> "ended"
              [] OTHER -> call[i]

\* Mutant of Send: for a call that was cancelled before, main runs the done too.
SendRunsDone(i, here, next) ==
    /\ main = here
    /\ main' = next
    /\ \/ /\ call[i] = "ready"
          /\ call' = [call EXCEPT ![i] = "sent"]
          /\ server' = [server EXCEPT ![i] = "request"]
          /\ UNCHANGED runs
       \/ /\ call[i] = "dead"
          /\ call' = [call EXCEPT ![i] = "ended"]
          /\ runs' = [runs EXCEPT ![i] = @ + 1]
          /\ UNCHANGED server
    /\ UNCHANGED error

\* stub.Echo(&cntl_i, ..., &done_i).  A call that was cancelled before runs its
\* done at once.
Send(i, here, next) ==
    /\ main = here
    /\ main' = next
    /\ \/ /\ call[i] = "ready"
          /\ call' = [call EXCEPT ![i] = "sent"]
          /\ server' = [server EXCEPT ![i] = "request"]
       \/ /\ call[i] = "dead"
          /\ call' = [call EXCEPT ![i] = "ended"]
          /\ UNCHANGED server
    /\ UNCHANGED <<error, runs>>

\* Mutant of Join: Join(id) comes back as soon as the response is there.
JoinEarly(i, here, next) ==
    /\ main = here
    /\ call[i] \in {"ended", "ran", "done"}
    /\ main' = next
    /\ UNCHANGED <<call, error, server, runs>>

\* melon::Join(id_i).
Join(i, here, next) ==
    /\ main = here
    /\ call[i] = "done"
    /\ main' = next
    /\ UNCHANGED <<call, error, server, runs>>

\* main logs who answered, sleeps and starts the next round with new
\* controllers, ids and closures.
NextRound ==
    /\ main = "log"
    /\ main' = "send1"
    /\ call' = [i \in Rpc |-> "ready"]
    /\ error' = [i \in Rpc |-> "none"]
    /\ server' = [i \in Rpc |-> "none"]
    /\ runs' = [i \in Rpc |-> 0]

Main ==
    \/ Send(1, "send1", "send2")
    \/ Send(2, "send2", "join1")
    \/ Join(1, "join1", "join2")
    \/ Join(2, "join2", "log")
    \/ NextRound

\* The server's Echo.
Serve(i) ==
    /\ server[i] = "request"
    /\ server' = [server EXCEPT ![i] = "response"]
    /\ UNCHANGED <<main, call, error, runs>>

\* The response comes back; it is dropped when the call has ended already.
Respond(i) ==
    /\ server[i] = "response"
    /\ server' = [server EXCEPT ![i] = "none"]
    /\ call' = [call EXCEPT ![i] = Ended(i)]
    /\ UNCHANGED <<main, error, runs>>

\* The call fails by itself: its time is over or the server is not there.
Fail(i) ==
    /\ call[i] = "sent"
    /\ call' = [call EXCEPT ![i] = Ended(i)]
    /\ error' = [error EXCEPT ![i] = "failed"]
    /\ UNCHANGED <<main, server, runs>>

\* Mutant of RunDone: done waits for the call it has cancelled.
RunDoneJoins(i) ==
    /\ call[i] = "ended"
    /\ call[Other(i)] = "done"
    /\ call' = [call EXCEPT ![i] = "ran"]
    /\ runs' = [runs EXCEPT ![i] = @ + 1]
    /\ UNCHANGED <<main, error, server>>

\* CancelRPC::Run: StartCancel of the other call.
RunDone(i) ==
    /\ call[i] = "ended"
    /\ call' = [call EXCEPT ![i] = "ran", ![Other(i)] = Ended(Other(i))]
    /\ error' = [error EXCEPT ![Other(i)] = Cancel(Other(i))]
    /\ runs' = [runs EXCEPT ![i] = @ + 1]
    /\ UNCHANGED <<main, server>>

\* done has returned: the id is destroyed and Join may return.
Destroyed(i) ==
    /\ call[i] = "ran"
    /\ call' = [call EXCEPT ![i] = "done"]
    /\ UNCHANGED <<main, error, server, runs>>

Library(i) == Serve(i) \/ Respond(i) \/ Fail(i) \/ RunDone(i) \/ Destroyed(i)

Next == Main \/ \E i \in Rpc : Library(i)

Spec == Init /\ [][Next]_vars
FairSpec ==
    /\ Spec
    /\ WF_vars(Main)
    /\ \A i \in Rpc : WF_vars(Fail(i)) /\ WF_vars(RunDone(i)) /\ WF_vars(Destroyed(i))
-------------------------------------------------------------------------------
\* The values of the variables.
TypeOK ==
    /\ main \in {"send1", "send2", "join1", "join2", "log"}
    /\ call \in [Rpc -> {"ready", "sent", "dead", "ended", "ran", "done"}]
    /\ error \in [Rpc -> {"none", "failed", "cancelled"}]
    /\ server \in [Rpc -> {"none", "request", "response"}]
    /\ runs \in [Rpc -> 0..1]

\* "Canceling a finished RPC has no effect": the calls cannot cancel each
\* other, so that main logs "Both failed" only if one failed by itself.
SomeoneAnswers ==
    main = "log" /\ (\A i \in Rpc : error[i] # "none") =>
        \E i \in Rpc : error[i] = "failed"

\* "done also runs": when main leaves the scope of the round, each done has run
\* exactly once and nothing of the library works on the round's calls any more.
RoundIsOver ==
    main = "log" => \A i \in Rpc : call[i] = "done" /\ runs[i] = 1

\* main comes back from both joins, whoever of the calls ends first and also if
\* a call is cancelled before it was sent.
RoundEnds == main = "send2" ~> main = "log"
===============================================================================
