--------------------------- MODULE HalaClusterProofs ---------------------------
(***************************************************************************)
(* The routing and the forwarding of the cluster are correct for any       *)
(* number of processes, keys, calls and attempts, provided the processes   *)
(* were started with the same --peers list without repetitions.            *)
(***************************************************************************)
EXTENDS HalaCluster, LruCacheProofs

\* The index a process finds itself at is the one it has in its list.
LEMMA PeerIndexProperties ==
    ASSUME NEW n \in Node
    PROVE  PeerIndex(n) \in 1 .. Len(Peers[n]) /\ Peers[n][PeerIndex(n)] = n
<1>1. PICK i \in 1 .. Len(Peers[n]) : Peers[n][i] = n
  BY PeersAssumption
<1>2. \A j \in 1 .. i - 1 : Peers[n][j] # n
  <2>1. \A j \in 1 .. Len(Peers[n]) : Peers[n][j] = n => j = i
    BY <1>1, PeersAgreeAssumption DEF PeersAgree
  <2>2. Len(Peers[n]) \in Nat
    BY PeersAssumption
  <2> QED BY <1>1, <2>1, <2>2
<1> QED BY <1>1, <1>2 DEF PeerIndex

\* A hash always selects a member of the list.
LEMMA GetPeerIndexInRange ==
    ASSUME NEW n \in Node, NEW k \in Key
    PROVE  GetPeerIndex(n, k) \in 1 .. Len(Peers[n])
<1>1. Hash[k] \in Nat
  BY HashAssumption
<1>2. Len(Peers[n]) \in Nat \ {0}
  BY PeersAssumption
<1>3. Hash[k] % Len(Peers[n]) \in 0 .. Len(Peers[n]) - 1
  BY <1>1, <1>2
<1> QED BY <1>2, <1>3 DEF GetPeerIndex

\* All processes send a key to the same process, and that process, and no
\* other, finds the key local.
LEMMA Routing ==
    ASSUME NEW k \in Key
    PROVE  /\ Owner(k) \in Node
           /\ \A n \in Node : Target(n, k) = Owner(k)
           /\ \A n \in Node : IsLocal(n, k) <=> n = Owner(k)
<1> DEFINE m == CHOOSE n \in Node : TRUE
<1>1. m \in Node
  BY ClusterAssumption
<1>2. ASSUME NEW n \in Node
      PROVE  Peers[n] = Peers[m] /\ GetPeerIndex(n, k) = GetPeerIndex(m, k)
  BY <1>1, <1>2, PeersAgreeAssumption DEF PeersAgree, GetPeerIndex
<1> HIDE DEF m
<1>3. Owner(k) = Peers[m][GetPeerIndex(m, k)]
  BY DEF Owner, Target, m
<1>4. Owner(k) \in Node
  BY <1>1, <1>3, GetPeerIndexInRange, PeersAssumption
<1>5. \A n \in Node : Target(n, k) = Owner(k)
  BY <1>2, <1>3 DEF Target
<1>6. ASSUME NEW n \in Node
      PROVE  IsLocal(n, k) <=> n = Owner(k)
  <2>1. /\ GetPeerIndex(n, k) \in 1 .. Len(Peers[n])
        /\ PeerIndex(n) \in 1 .. Len(Peers[n])
        /\ Peers[n][PeerIndex(n)] = n
        /\ Peers[n][GetPeerIndex(n, k)] = Owner(k)
    BY <1>2, <1>3, GetPeerIndexInRange, PeerIndexProperties
  <2>2. \A i, j \in 1 .. Len(Peers[n]) : Peers[n][i] = Peers[n][j] => i = j
    BY PeersAgreeAssumption DEF PeersAgree
  <2> QED BY <2>1, <2>2 DEF IsLocal
<1> QED BY <1>4, <1>5, <1>6

\* The same for a process of the cluster that executes a call it owns the key
\* of: what ServeLocal and LeafServes have in common.
LEMMA Execution ==
    ASSUME ClusterInv, NEW n \in Node, NEW c \in Call,
           n = Owner(req[c].key), client[c] # "idle",
           ExecuteAt(n, c), UNCHANGED <<req, client>>
    PROVE  /\ cache' \in [Node -> Cache] /\ \A m \in Node : WellFormed(cache'[m])
           /\ outcomes' \in [Call -> SUBSET Response]
           /\ \A d \in Call : outcomes[d] \subseteq outcomes'[d]
           /\ Reply(cache[n], req[c]) \in outcomes'[c]
           /\ Reply(cache[n], req[c]) \in Response \ {Unset}
           /\ OwnerOnly' /\ ValuesWereSent'
<1> DEFINE r == req[c]
           d == cache[n]
<1>1. /\ r \in Request /\ r.key \in Key /\ WellFormed(d)
      /\ cache \in [Node -> Cache] /\ \A m \in Node : WellFormed(cache[m])
      /\ outcomes \in [Call -> SUBSET Response]
  BY DEF ClusterInv, TypeOK, Request
<1>2. /\ cache' = [cache EXCEPT ![n] = Effect(d, r)]
      /\ outcomes' = [outcomes EXCEPT ![c] = outcomes[c] \cup {Reply(d, r)}]
  BY DEF ExecuteAt
<1>3. /\ WellFormed(Effect(d, r))
      /\ Reply(d, r) \in Response /\ Reply(d, r) # Unset
      /\ Reply(d, r).value # None => Has(d, r.key) /\ Reply(d, r).value = d.val[r.key]
      /\ \A k \in Key : Has(Effect(d, r), k) =>
            \/ Has(d, k) /\ Effect(d, r).val[k] = d.val[k]
            \/ r.op = "put" /\ r.key = k /\ Effect(d, r).val[k] = r.value
  BY <1>1, EffectProperties
<1>4. Effect(d, r) \in Cache
  BY <1>3 DEF WellFormed
<1> HIDE DEF r, d
<1>5. /\ cache' \in [Node -> Cache] /\ \A m \in Node : WellFormed(cache'[m])
      /\ outcomes' \in [Call -> SUBSET Response]
      /\ \A e \in Call : outcomes[e] \subseteq outcomes'[e]
      /\ Reply(d, r) \in outcomes'[c]
  BY <1>1, <1>2, <1>3, <1>4
<1>6. OwnerOnly'
  <2>1. SUFFICES ASSUME NEW m \in Node, NEW k \in Key, Has(cache'[m], k)
                 PROVE  m = Owner(k)
    BY DEF OwnerOnly
  <2>2. CASE m # n
    BY <1>1, <1>2, <2>1, <2>2 DEF ClusterInv, OwnerOnly
  <2>3. CASE m = n
    <3>1. Has(Effect(d, r), k)
      BY <1>1, <1>2, <2>1, <2>3
    <3>2. Has(d, k) \/ r.key = k
      BY <1>3, <3>1
    <3> QED BY <2>3, <3>2 DEF ClusterInv, OwnerOnly, r, d
  <2> QED BY <2>2, <2>3
<1> DEFINE Sent2(k, v) ==
        \E e \in Call : /\ client'[e] # "idle"
                        /\ req'[e].op = "put" /\ req'[e].key = k /\ req'[e].value = v
<1>7. \A k, v : Sent(k, v) => Sent2(k, v)
  BY DEF Sent
<1> HIDE DEF Sent2
<1>8. ValuesWereSent'
  <2>1. ASSUME NEW m \in Node, NEW k \in Key, Has(cache'[m], k)
        PROVE  Sent2(k, cache'[m].val[k])
    <3>1. CASE m # n
      BY <1>1, <1>2, <1>7, <2>1, <3>1 DEF ClusterInv, ValuesWereSent
    <3>2. CASE m = n
      <4>1. cache'[m] = Effect(d, r)
        BY <1>1, <1>2, <3>2
      <4>2. CASE Has(d, k) /\ Effect(d, r).val[k] = d.val[k]
        BY <1>7, <3>2, <4>1, <4>2 DEF ClusterInv, ValuesWereSent, d
      <4>3. CASE r.op = "put" /\ r.key = k /\ Effect(d, r).val[k] = r.value
        <5>1. Sent(k, r.value)
          BY <4>3 DEF Sent, r
        <5> QED BY <1>7, <4>1, <4>3, <5>1
      <4> QED BY <1>3, <2>1, <4>1, <4>2, <4>3
    <3> QED BY <3>1, <3>2
  <2>2. ASSUME NEW e \in Call, NEW x \in outcomes'[e], x.value # None
        PROVE  Sent2(req[e].key, x.value)
    <3>1. CASE x \in outcomes[e]
      BY <1>7, <2>2, <3>1 DEF ClusterInv, ValuesWereSent
    <3>2. CASE x \notin outcomes[e]
      <4>1. e = c /\ x = Reply(d, r)
        BY <1>1, <1>2, <2>2, <3>2
      <4>2. Sent(r.key, d.val[r.key])
        BY <1>1, <1>3, <2>2, <4>1 DEF ClusterInv, ValuesWereSent, d
      <4> QED BY <1>3, <1>7, <2>2, <4>1, <4>2 DEF r
    <3> QED BY <3>1, <3>2
  <2>3. \A e \in Call : req'[e] = req[e]
    OBVIOUS
  <2> QED BY <2>1, <2>2, <2>3 DEF ValuesWereSent, Sent, Sent2
<1> QED BY <1>3, <1>5, <1>6, <1>8 DEF r, d
-------------------------------------------------------------------------------
USE DEF fixedVars, clientVars, frontVars, leafVars, storeVars, boundVars

\* A response without its fields is a response.
LEMMA UnsetTyped == Unset \in Response
BY DEF Unset, Answer, Response

\* Counting one attempt more stays within the attempts.
LEMMA AttemptTyped ==
    /\ \A a \in 0 .. kRetryTimes : a < kRetryTimes => a + 1 \in Attempt
    /\ \A a \in 0 .. kRetryTimes : a < kRetryTimes => a + 1 \in 0 .. kRetryTimes
    /\ 0 \in 0 .. kRetryTimes /\ 0 < kRetryTimes
BY ClusterAssumption DEF Attempt

\* A step that executes nothing moves no value.
LEMMA NothingExecuted ==
    ASSUME ClusterInv, UNCHANGED <<cache, outcomes, req>>,
           \A c \in Call : client[c] # "idle" => client'[c] # "idle"
    PROVE  OwnerOnly' /\ ValuesWereSent'
<1>1. OwnerOnly'
  BY DEF ClusterInv, OwnerOnly
<1>2. \A k, v : Sent(k, v) => \E d \in Call :
          client'[d] # "idle" /\ req'[d].op = "put" /\ req'[d].key = k /\ req'[d].value = v
  BY DEF Sent
<1>3. ValuesWereSent'
  BY <1>2 DEF ClusterInv, ValuesWereSent, Sent
<1> QED BY <1>1, <1>3

\* The servers have just been started and nobody has called.
LEMMA InitInv == Init => ClusterInv
<1> SUFFICES ASSUME Init PROVE ClusterInv
  OBVIOUS
<1>1. WellFormed(EmptyCache) /\ EmptyCache \in Cache
  BY EmptyWellFormed DEF WellFormed
<1>2. TypeOK
  BY <1>1, UnsetTyped, AttemptTyped, ClusterAssumption DEF Init, TypeOK
<1>3. CallShape /\ OneHop /\ AnswerWasExecuted
  BY DEF Init, CallShape, OneHop, AnswerWasExecuted
<1>4. OwnerOnly /\ ValuesWereSent
  BY DEF Init, OwnerOnly, ValuesWereSent, EmptyCache, Has
<1> QED BY <1>2, <1>3, <1>4 DEF ClusterInv

\* The steps of the client change what the client knows and wake the front.
LEMMA ClientInv ==
    ASSUME ClusterInv, NEW c \in Call, ClientStep(c)
    PROVE  ClusterInv'
<1>1. TypeOK'
  <2>1. CASE ClientSend(c)
    BY <2>1 DEF ClusterInv, TypeOK, ClientSend
  <2>2. CASE ClientAnswered(c)
    BY <2>2 DEF ClusterInv, TypeOK, ClientAnswered
  <2>3. CASE ClientFails(c)
    BY <2>3 DEF ClusterInv, TypeOK, ClientFails
  <2>4. CASE ClientResend(c)
    BY <2>4, ClusterAssumption DEF ClusterInv, TypeOK, ClientResend
  <2> QED BY <2>1, <2>2, <2>3, <2>4 DEF ClientStep
<1>2. CallShape'
  BY DEF ClusterInv, TypeOK, CallShape, ClientStep, ClientSend, ClientAnswered,
         ClientFails, ClientResend
<1>3. OneHop'
  BY DEF ClusterInv, OneHop, ClientStep, ClientSend, ClientAnswered, ClientFails, ClientResend
<1>4. AnswerWasExecuted'
  <2>1. CASE ClientSend(c)
    BY <2>1 DEF ClusterInv, TypeOK, AnswerWasExecuted, ClientSend
  <2>2. CASE ClientAnswered(c)
    BY <2>2 DEF ClusterInv, TypeOK, CallShape, AnswerWasExecuted, ClientAnswered
  <2>3. CASE ClientFails(c)
    BY <2>3 DEF ClusterInv, TypeOK, AnswerWasExecuted, ClientFails
  <2>4. CASE ClientResend(c)
    BY <2>4 DEF ClusterInv, AnswerWasExecuted, ClientResend
  <2> QED BY <2>1, <2>2, <2>3, <2>4 DEF ClientStep
<1>5. OwnerOnly' /\ ValuesWereSent'
  <2>1. /\ UNCHANGED <<cache, outcomes, req>>
        /\ \A d \in Call : client[d] # "idle" => client'[d] # "idle"
    BY DEF ClusterInv, TypeOK, ClientStep, ClientSend, ClientAnswered, ClientFails, ClientResend
  <2> QED BY <2>1, NothingExecuted
<1> QED BY <1>1, <1>2, <1>3, <1>4, <1>5 DEF ClusterInv

\* The front serves the key itself.
LEMMA ServeLocalInv ==
    ASSUME ClusterInv, NEW c \in Call, ServeLocal(c)
    PROVE  ClusterInv'
<1> DEFINE x == Reply(cache[entry[c]], req[c])
<1>1. /\ entry[c] \in Node /\ req[c].key \in Key
      /\ entry[c] = Owner(req[c].key)
      /\ client[c] # "idle"
  <2>1. entry[c] \in Node /\ req[c].key \in Key
    BY DEF ClusterInv, TypeOK, Request
  <2> QED BY <2>1, Routing DEF ClusterInv, CallShape, ServeLocal
<1>2. /\ cache' \in [Node -> Cache] /\ \A m \in Node : WellFormed(cache'[m])
      /\ outcomes' \in [Call -> SUBSET Response]
      /\ \A d \in Call : outcomes[d] \subseteq outcomes'[d]
      /\ x \in outcomes'[c]
      /\ x \in Response \ {Unset}
      /\ OwnerOnly' /\ ValuesWereSent'
  BY <1>1, Execution DEF ServeLocal
<1> HIDE DEF x
<1>3. /\ reply' = [reply EXCEPT ![c] = x] /\ front' = [front EXCEPT ![c] = "done"]
      /\ UNCHANGED <<fixedVars, clientVars, tries, leafVars, boundVars>>
  BY DEF ServeLocal, x
<1>4. TypeOK'
  BY <1>2, <1>3 DEF ClusterInv, TypeOK
<1>5. CallShape'
  BY <1>1, <1>2, <1>3 DEF ClusterInv, TypeOK, CallShape
<1>6. OneHop'
  BY <1>3 DEF ClusterInv, OneHop
<1>7. AnswerWasExecuted'
  BY <1>2, <1>3 DEF ClusterInv, AnswerWasExecuted
<1> QED BY <1>2, <1>4, <1>5, <1>6, <1>7 DEF ClusterInv

\* A forwarded request finds its key local: it was sent to the owner.
LEMMA LeafServesInv ==
    ASSUME ClusterInv, NEW c \in Call, NEW a \in Attempt, LeafServes(c, a)
    PROVE  ClusterInv'
<1> DEFINE n == Target(entry[c], req[c].key)
           x == Reply(cache[n], req[c])
<1>1. /\ n \in Node /\ req[c].key \in Key
      /\ n = Owner(req[c].key) /\ IsLocal(n, req[c].key)
      /\ client[c] # "idle"
  <2>1. entry[c] \in Node /\ req[c].key \in Key
    BY DEF ClusterInv, TypeOK, Request
  <2> QED BY <2>1, Routing DEF ClusterInv, CallShape, LeafServes
<1>2. /\ ExecuteAt(n, c)
      /\ leaf' = [leaf EXCEPT ![c][a] = "done"]
      /\ leafReply' = [leafReply EXCEPT ![c][a] = x]
      /\ UNCHANGED <<fixedVars, clientVars, frontVars, boundVars>>
  BY <1>1 DEF LeafServes
<1> HIDE DEF n
<1>3. /\ cache' \in [Node -> Cache] /\ \A m \in Node : WellFormed(cache'[m])
      /\ outcomes' \in [Call -> SUBSET Response]
      /\ \A d \in Call : outcomes[d] \subseteq outcomes'[d]
      /\ x \in outcomes'[c]
      /\ x \in Response \ {Unset}
      /\ OwnerOnly' /\ ValuesWereSent'
  BY <1>1, <1>2, Execution
<1> HIDE DEF x
<1>4. TypeOK'
  BY <1>2, <1>3 DEF ClusterInv, TypeOK
<1>5. CallShape'
  BY <1>1, <1>2, <1>3 DEF ClusterInv, TypeOK, CallShape
<1>6. OneHop'
  BY <1>2 DEF ClusterInv, TypeOK, OneHop
<1>7. AnswerWasExecuted'
  BY <1>2, <1>3 DEF ClusterInv, AnswerWasExecuted
<1> QED BY <1>3, <1>4, <1>5, <1>6, <1>7 DEF ClusterInv

\* The front hands the request to the sender.
LEMMA ForwardInv ==
    ASSUME ClusterInv, NEW c \in Call, Forward(c)
    PROVE  ClusterInv'
<1>1. TypeOK'
  BY AttemptTyped, UnsetTyped, ClusterAssumption
     DEF ClusterInv, TypeOK, CallShape, Forward
<1>2. CallShape'
  BY AttemptTyped DEF ClusterInv, TypeOK, CallShape, Forward
<1>3. OneHop' /\ AnswerWasExecuted'
  BY AttemptTyped
     DEF ClusterInv, TypeOK, CallShape, OneHop, AnswerWasExecuted, Forward
<1>4. OwnerOnly' /\ ValuesWereSent'
  BY NothingExecuted DEF Forward
<1> QED BY <1>1, <1>2, <1>3, <1>4 DEF ClusterInv

\* The sender's fiber does not start.
LEMMA FiberFailsInv ==
    ASSUME ClusterInv, NEW c \in Call, FiberFails(c)
    PROVE  ClusterInv'
<1>1. TypeOK'
  BY AttemptTyped, UnsetTyped, ClusterAssumption
     DEF ClusterInv, TypeOK, CallShape, FiberFails
<1>2. CallShape'
  BY AttemptTyped DEF ClusterInv, TypeOK, CallShape, FiberFails
<1>3. OneHop' /\ AnswerWasExecuted'
  BY AttemptTyped
     DEF ClusterInv, TypeOK, CallShape, OneHop, AnswerWasExecuted, FiberFails
<1>4. OwnerOnly' /\ ValuesWereSent'
  BY NothingExecuted DEF FiberFails
<1> QED BY <1>1, <1>2, <1>3, <1>4 DEF ClusterInv

\* The join of a sender's fiber that did not start returns.
LEMMA JoinReturnsInv ==
    ASSUME ClusterInv, NEW c \in Call, JoinReturns(c)
    PROVE  ClusterInv'
<1>1. TypeOK' /\ CallShape'
  BY DEF ClusterInv, TypeOK, CallShape, JoinReturns
<1>2. OneHop' /\ AnswerWasExecuted'
  BY DEF ClusterInv, TypeOK, CallShape, OneHop, AnswerWasExecuted, JoinReturns
<1>3. OwnerOnly' /\ ValuesWereSent'
  BY NothingExecuted DEF JoinReturns
<1> QED BY <1>1, <1>2, <1>3 DEF ClusterInv

\* One turn of the loop of send_request.
LEMMA StartAttemptInv ==
    ASSUME ClusterInv, NEW c \in Call, StartAttempt(c)
    PROVE  ClusterInv'
<1>1. TypeOK'
  BY AttemptTyped, UnsetTyped, ClusterAssumption
     DEF ClusterInv, TypeOK, CallShape, StartAttempt
<1>2. CallShape'
  BY AttemptTyped DEF ClusterInv, TypeOK, CallShape, StartAttempt
<1>3. OneHop' /\ AnswerWasExecuted'
  BY AttemptTyped
     DEF ClusterInv, TypeOK, CallShape, OneHop, AnswerWasExecuted, StartAttempt
<1>4. OwnerOnly' /\ ValuesWereSent'
  BY NothingExecuted DEF StartAttempt
<1> QED BY <1>1, <1>2, <1>3, <1>4 DEF ClusterInv

\* An attempt is counted as failed.
LEMMA AttemptFailsInv ==
    ASSUME ClusterInv, NEW c \in Call, AttemptFails(c)
    PROVE  ClusterInv'
<1>1. TypeOK'
  BY AttemptTyped, UnsetTyped, ClusterAssumption
     DEF ClusterInv, TypeOK, CallShape, AttemptFails
<1>2. CallShape'
  BY AttemptTyped DEF ClusterInv, TypeOK, CallShape, AttemptFails
<1>3. OneHop' /\ AnswerWasExecuted'
  BY AttemptTyped
     DEF ClusterInv, TypeOK, CallShape, OneHop, AnswerWasExecuted, AttemptFails
<1>4. OwnerOnly' /\ ValuesWereSent'
  BY NothingExecuted DEF AttemptFails
<1> QED BY <1>1, <1>2, <1>3, <1>4 DEF ClusterInv

\* The response of the attempt becomes the response of the front.
LEMMA AttemptSucceedsInv ==
    ASSUME ClusterInv, NEW c \in Call, AttemptSucceeds(c)
    PROVE  ClusterInv'
<1>1. TypeOK'
  BY AttemptTyped, UnsetTyped, ClusterAssumption
     DEF ClusterInv, TypeOK, CallShape, AttemptSucceeds
<1>2. CallShape'
  BY AttemptTyped DEF ClusterInv, TypeOK, CallShape, AttemptSucceeds
<1>3. OneHop' /\ AnswerWasExecuted'
  BY AttemptTyped
     DEF ClusterInv, TypeOK, CallShape, OneHop, AnswerWasExecuted, AttemptSucceeds
<1>4. OwnerOnly' /\ ValuesWereSent'
  BY NothingExecuted DEF AttemptSucceeds
<1> QED BY <1>1, <1>2, <1>3, <1>4 DEF ClusterInv

\* The library repeats an attempt.
LEMMA AttemptResendInv ==
    ASSUME ClusterInv, NEW c \in Call, AttemptResend(c)
    PROVE  ClusterInv'
<1>1. TypeOK'
  BY AttemptTyped, UnsetTyped, ClusterAssumption
     DEF ClusterInv, TypeOK, CallShape, AttemptResend
<1>2. CallShape'
  BY AttemptTyped DEF ClusterInv, TypeOK, CallShape, AttemptResend
<1>3. OneHop' /\ AnswerWasExecuted'
  BY AttemptTyped
     DEF ClusterInv, TypeOK, CallShape, OneHop, AnswerWasExecuted, AttemptResend
<1>4. OwnerOnly' /\ ValuesWereSent'
  BY NothingExecuted DEF AttemptResend
<1> QED BY <1>1, <1>2, <1>3, <1>4 DEF ClusterInv

\* A restart empties one cache and kills the forwards of that process.
LEMMA RestartInv ==
    ASSUME ClusterInv, NEW n \in Node, Restart(n)
    PROVE  ClusterInv'
<1>1. WellFormed(EmptyCache) /\ EmptyCache \in Cache /\ \A k \in Key : ~Has(EmptyCache, k)
  BY EmptyWellFormed DEF WellFormed, EmptyCache, Has
<1>2. TypeOK'
  BY <1>1, ClusterAssumption DEF ClusterInv, TypeOK, Restart
<1>3. CallShape'
  BY DEF ClusterInv, TypeOK, CallShape, Restart
<1>4. OneHop' /\ AnswerWasExecuted'
  BY DEF ClusterInv, OneHop, AnswerWasExecuted, Restart
<1>5. \A m \in Node, k \in Key :
         Has(cache'[m], k) => Has(cache[m], k) /\ cache'[m].val[k] = cache[m].val[k]
  BY <1>1 DEF ClusterInv, TypeOK, Restart
<1>6. OwnerOnly'
  BY <1>5 DEF ClusterInv, OwnerOnly
<1>7. ValuesWereSent'
  BY <1>5 DEF ClusterInv, ValuesWereSent, Sent, Restart
<1> QED BY <1>2, <1>3, <1>4, <1>6, <1>7 DEF ClusterInv

\* Every step of the cluster keeps the invariant.
LEMMA StepInv == ClusterInv /\ [Next]_vars => ClusterInv'
<1> SUFFICES ASSUME ClusterInv, [Next]_vars PROVE ClusterInv'
  OBVIOUS
<1>1. ASSUME NEW c \in Call, ClientStep(c) PROVE ClusterInv'
  BY <1>1, ClientInv
<1>2. ASSUME NEW c \in Call, FrontStep(c) PROVE ClusterInv'
  BY <1>2, ServeLocalInv, ForwardInv, FiberFailsInv, JoinReturnsInv, StartAttemptInv,
     AttemptFailsInv, AttemptSucceedsInv, AttemptResendInv DEF FrontStep
<1>3. ASSUME NEW c \in Call, NEW a \in Attempt, LeafServes(c, a) PROVE ClusterInv'
  BY <1>3, LeafServesInv
<1>4. ASSUME NEW n \in Node, Restart(n) PROVE ClusterInv'
  BY <1>4, RestartInv
<1>5. CASE UNCHANGED vars
  BY <1>5 DEF vars, ClusterInv, TypeOK, CallShape, OwnerOnly, OneHop,
              AnswerWasExecuted, ValuesWereSent, Sent
<1> QED BY <1>1, <1>2, <1>3, <1>4, <1>5 DEF Next

\* The invariant of the cluster.
THEOREM ClusterInvariant == Spec => []ClusterInv
BY InitInv, StepInv, PTL DEF Spec

\* A key is only ever held by its owner.
THEOREM ClusterOwnerOnly == Spec => []OwnerOnly
<1>1. ClusterInv => OwnerOnly
  BY DEF ClusterInv
<1> QED BY <1>1, ClusterInvariant, PTL

\* No forwarded request is forwarded again: forwards cannot form a loop.
THEOREM ClusterOneHop == Spec => []OneHop
<1>1. ClusterInv => OneHop
  BY DEF ClusterInv
<1> QED BY <1>1, ClusterInvariant, PTL

\* An answer is the answer of an execution of the client's own request.
THEOREM ClusterAnswerWasExecuted == Spec => []AnswerWasExecuted
<1>1. ClusterInv => AnswerWasExecuted
  BY DEF ClusterInv
<1> QED BY <1>1, ClusterInvariant, PTL

\* No value appears that nobody put there.
THEOREM ClusterValuesWereSent == Spec => []ValuesWereSent
<1>1. ClusterInv => ValuesWereSent
  BY DEF ClusterInv
<1> QED BY <1>1, ClusterInvariant, PTL

\* The variables keep their types and every cache its capacity.
THEOREM ClusterTypeOK == Spec => []TypeOK
<1>1. ClusterInv => TypeOK
  BY DEF ClusterInv
<1> QED BY <1>1, ClusterInvariant, PTL
-------------------------------------------------------------------------------
\* A put that some execution has answered with Ok is what the owner holds, as
\* long as nobody else writes the key, nothing has restarted and all keys of the
\* owner fit: SettledPutVisible, from the execution on and not from the answer.
PutDone(c) ==
    /\ req[c].op = "put" /\ \E x \in outcomes[c] : x.code = "Ok"
    /\ ~OtherWriter(c)
    /\ restarts = 0
    /\ RoomAt(Owner(req[c].key))

SettledInv ==
    \A c \in Call : PutDone(c) =>
        /\ req[c].value # None
        /\ cache[Owner(req[c].key)].val[req[c].key] = req[c].value

\* An execution at the owner of the key stores the put, leaves the puts of other
\* keys where they are, and does not write a key another call has to itself.
LEMMA ExecutionSettled ==
    ASSUME ClusterInv, SettledInv, NEW n \in Node, NEW d \in Call,
           n = Owner(req[d].key), client[d] # "idle",
           ExecuteAt(n, d), UNCHANGED <<req, client, restarts>>
    PROVE  SettledInv'
<1> DEFINE r == req[d]
           e == Effect(cache[n], r)
<1>1. /\ r \in Request /\ r.key \in Key /\ r.op \in {"put", "get", "remove"}
      /\ WellFormed(cache[n]) /\ cache \in [Node -> Cache]
      /\ outcomes \in [Call -> SUBSET Response]
      /\ \A k \in Key : Has(cache[n], k) => k \in OwnKeys(n)
  BY DEF ClusterInv, TypeOK, Request, OwnerOnly, OwnKeys
<1>2. /\ cache' = [cache EXCEPT ![n] = e]
      /\ outcomes' = [outcomes EXCEPT ![d] = outcomes[d] \cup {Reply(cache[n], r)}]
  BY DEF ExecuteAt
<1>3. /\ \A k \in Key : Has(e, k) =>
            \/ Has(cache[n], k) /\ e.val[k] = cache[n].val[k]
            \/ r.op = "put" /\ r.key = k /\ e.val[k] = r.value
      /\ e.val[r.key] = CASE r.op = "put" /\ r.value # None -> r.value
                          [] r.op = "remove" -> None
                          [] OTHER -> cache[n].val[r.key]
      /\ r.op # "put" => \A k \in Key \ {r.key} : e.val[k] = cache[n].val[k]
  <2> HIDE DEF r
  <2> QED BY <1>1, EffectProperties
<1>4. r.op = "put" => (Reply(cache[n], r).code = "Ok" <=> r.value # None)
  BY DEF Reply, Answer
<1>5. n = Owner(r.key)
  OBVIOUS
<1> HIDE DEF r, e
<1>6. SUFFICES ASSUME NEW c \in Call, PutDone(c)'
      PROVE  /\ req[c].value # None
             /\ cache'[Owner(req[c].key)].val[req[c].key] = req[c].value
  BY DEF SettledInv
<1>7. /\ req[c].op = "put" /\ req[c].key \in Key /\ ~OtherWriter(c) /\ restarts = 0
      /\ \E x \in outcomes'[c] : x.code = "Ok"
      /\ RoomAt(Owner(req[c].key))
  BY <1>6 DEF PutDone, OtherWriter, RoomAt, OwnKeys, ClusterInv, TypeOK, Request
<1>8. CASE c = d
  <2>1. req[c].value # None
    <3>1. CASE Reply(cache[n], r).code = "Ok"
      BY <1>4, <1>7, <1>8, <3>1 DEF r
    <3>2. CASE Reply(cache[n], r).code # "Ok"
      <4>1. PutDone(c)
        BY <1>1, <1>2, <1>7, <1>8, <3>2 DEF PutDone
      <4> QED BY <4>1 DEF SettledInv
    <3> QED BY <3>1, <3>2
  <2>2. e.val[r.key] = r.value
    BY <1>3, <1>7, <1>8, <2>1 DEF r
  <2> QED BY <1>1, <1>2, <1>5, <1>8, <2>1, <2>2 DEF r
<1>9. CASE c # d
  <2>1. PutDone(c)
    BY <1>1, <1>2, <1>7, <1>9 DEF PutDone
  <2>2. /\ req[c].value # None
        /\ cache[Owner(req[c].key)].val[req[c].key] = req[c].value
    BY <2>1 DEF SettledInv
  <2>3. CASE Owner(req[c].key) # n
    BY <1>1, <1>2, <1>7, <2>2, <2>3, Routing
  <2>4. CASE Owner(req[c].key) = n
    <3>1. r.op = "get" \/ r.key # req[c].key
      BY <1>7, <1>9 DEF OtherWriter, r
    <3>2. Has(cache[n], req[c].key)
      BY <2>2, <2>4 DEF Has
    <3>3. r.key \in OwnKeys(n)
      BY <1>1, <1>5 DEF OwnKeys
    <3>4. Has(e, req[c].key)
      BY <1>1, <1>7, <2>4, <3>1, <3>2, <3>3, NothingEvicted DEF RoomAt, e
    <3>5. e.val[req[c].key] = cache[n].val[req[c].key]
      BY <1>3, <1>7, <3>1, <3>4
    <3> QED BY <1>1, <1>2, <2>2, <2>4, <3>5
  <2> QED BY <2>3, <2>4
<1> QED BY <1>8, <1>9

\* Whatever else happens, calls only become more and restarts are counted.
LEMMA OthersSettled ==
    ASSUME SettledInv, UNCHANGED <<req, cache, outcomes, restarts>>,
           \A d \in Call : client[d] # "idle" => client'[d] # "idle"
    PROVE  SettledInv'
<1> SUFFICES ASSUME NEW c \in Call, PutDone(c)'
             PROVE  /\ req[c].value # None
                    /\ cache[Owner(req[c].key)].val[req[c].key] = req[c].value
  BY DEF SettledInv
<1>1. ~OtherWriter(c)
  BY DEF PutDone, OtherWriter
<1>2. PutDone(c)
  BY <1>1 DEF PutDone, RoomAt, OwnKeys
<1> QED BY <1>2 DEF SettledInv

\* Every step keeps what settled puts have stored.
LEMMA StepSettled == ClusterInv /\ SettledInv /\ [Next]_vars => SettledInv'
<1> SUFFICES ASSUME ClusterInv, SettledInv, [Next]_vars PROVE SettledInv'
  OBVIOUS
<1>1. ASSUME NEW c \in Call, ClientStep(c) PROVE SettledInv'
  <2>1. /\ UNCHANGED <<req, cache, outcomes, restarts>>
        /\ \A d \in Call : client[d] # "idle" => client'[d] # "idle"
    BY <1>1 DEF ClusterInv, TypeOK, ClientStep, ClientSend, ClientAnswered,
                ClientFails, ClientResend
  <2> QED BY <2>1, OthersSettled
<1>2. ASSUME NEW c \in Call, FrontStep(c) PROVE SettledInv'
  <2>1. CASE ServeLocal(c)
    <3>1. entry[c] \in Node /\ req[c].key \in Key
      BY DEF ClusterInv, TypeOK, Request
    <3>2. entry[c] = Owner(req[c].key) /\ client[c] # "idle"
      BY <2>1, <3>1, Routing DEF ServeLocal, ClusterInv, CallShape
    <3> QED BY <2>1, <3>1, <3>2, ExecutionSettled DEF ServeLocal
  <2>2. CASE ~ServeLocal(c)
    BY <1>2, <2>2, OthersSettled DEF FrontStep, Forward, FiberFails, JoinReturns, StartAttempt,
       AttemptFails, AttemptSucceeds, AttemptResend
  <2> QED BY <2>1, <2>2
<1>3. ASSUME NEW c \in Call, NEW a \in Attempt, LeafServes(c, a) PROVE SettledInv'
  <2> DEFINE n == Target(entry[c], req[c].key)
  <2>1. entry[c] \in Node /\ req[c].key \in Key
    BY DEF ClusterInv, TypeOK, Request
  <2>2. /\ n \in Node /\ n = Owner(req[c].key) /\ IsLocal(n, req[c].key)
        /\ client[c] # "idle"
    BY <1>3, <2>1, Routing DEF LeafServes, ClusterInv, CallShape
  <2>3. ExecuteAt(n, c) /\ UNCHANGED <<req, client, restarts>>
    BY <1>3, <2>2 DEF LeafServes
  <2> HIDE DEF n
  <2> QED BY <2>2, <2>3, ExecutionSettled
<1>4. ASSUME NEW n \in Node, Restart(n) PROVE SettledInv'
  <2>1. restarts' # 0
    BY <1>4, ClusterAssumption DEF Restart, ClusterInv, TypeOK
  <2> QED BY <2>1 DEF SettledInv, PutDone
<1>5. CASE UNCHANGED vars
  BY <1>5, OthersSettled DEF vars
<1> QED BY <1>1, <1>2, <1>3, <1>4, <1>5 DEF Next

\* A put that was answered Ok stays visible at the owner while nobody else writes
\* the key, whatever is retried, executed late or executed twice.
THEOREM ClusterSettledPutVisible == Spec => []SettledPutVisible
<1>1. Init => SettledInv
  BY DEF Init, SettledInv, PutDone
<1>2. ClusterInv /\ SettledInv => SettledPutVisible
  BY DEF ClusterInv, AnswerWasExecuted, SettledInv, PutDone, SettledPutVisible, Settled
<1> QED BY <1>1, <1>2, InitInv, StepInv, StepSettled, PTL DEF Spec
-------------------------------------------------------------------------------
\* The most turns the loop of send_request still makes: two for each attempt that
\* is left, one of them when the attempt is already under way.
Forwarding(c) == front[c] \in {"attempting", "calling"}

TurnsLeft(c) ==
    IF front[c] = "attempting" THEN 2 * (kRetryTimes - tries[c])
    ELSE IF front[c] = "calling" THEN 2 * (kRetryTimes - tries[c]) - 1
    ELSE 0

\* A handler that forwards has a turn left; each of its turns leaves fewer, no
\* resend, execution or restart adds one, and out of the loop it is done or dead.
ForwardsAdvance ==
    \A c \in Call : Forwarding(c) =>
        /\ TurnsLeft(c) > 0
        /\ StartAttempt(c) \/ AttemptFails(c) \/ AttemptSucceeds(c) =>
              TurnsLeft(c)' < TurnsLeft(c)
        /\ TurnsLeft(c)' <= TurnsLeft(c)
        /\ Forwarding(c)' \/ front'[c] \in {"done", "dead"}

\* What is known of a handler in the loop.
LEMMA TurnsBounded ==
    ASSUME ClusterInv, NEW c \in Call, Forwarding(c)
    PROVE  /\ kRetryTimes \in Nat /\ tries[c] \in 0 .. kRetryTimes /\ tries[c] < kRetryTimes
           /\ TurnsLeft(c) \in Nat \ {0}
BY ClusterAssumption DEF ClusterInv, TypeOK, CallShape, Forwarding, TurnsLeft

\* A turn of the loop.
LEMMA TurnAdvances ==
    ASSUME ClusterInv, NEW c \in Call, Forwarding(c),
           StartAttempt(c) \/ AttemptFails(c) \/ AttemptSucceeds(c)
    PROVE  /\ TurnsLeft(c)' < TurnsLeft(c)
           /\ Forwarding(c)' \/ front'[c] \in {"done", "dead"}
<1>1. front[c] \in {"attempting", "calling"} /\ c \in DOMAIN front /\ c \in DOMAIN tries
  BY DEF ClusterInv, TypeOK, Forwarding
<1>2. CASE StartAttempt(c)
  <2>1. front[c] = "attempting" /\ front'[c] = "calling" /\ tries'[c] = tries[c]
    BY <1>1, <1>2 DEF StartAttempt
  <2> QED BY <2>1, TurnsBounded DEF TurnsLeft, Forwarding
<1>3. CASE AttemptFails(c)
  <2>1. /\ tries'[c] = tries[c] + 1
        /\ front'[c] = IF tries[c] + 1 < kRetryTimes THEN "attempting" ELSE "done"
    BY <1>1, <1>3 DEF AttemptFails
  <2>2. CASE tries[c] + 1 < kRetryTimes
    BY <1>1, <2>1, <2>2, TurnsBounded DEF TurnsLeft, Forwarding
  <2>3. CASE ~(tries[c] + 1 < kRetryTimes)
    BY <1>1, <2>1, <2>3, TurnsBounded DEF TurnsLeft, Forwarding
  <2> QED BY <2>2, <2>3
<1>4. CASE AttemptSucceeds(c)
  <2>1. front'[c] = "done"
    BY <1>1, <1>4 DEF AttemptSucceeds
  <2> QED BY <2>1, TurnsBounded DEF TurnsLeft
<1> QED BY <1>2, <1>3, <1>4

\* Everything else leaves a handler in the loop where it is, or kills it.
LEMMA OthersLeaveForward ==
    ASSUME ClusterInv, [Next]_vars, NEW c \in Call, Forwarding(c),
           ~(StartAttempt(c) \/ AttemptFails(c) \/ AttemptSucceeds(c))
    PROVE  (front'[c] = front[c] /\ tries'[c] = tries[c]) \/ front'[c] = "dead"
<1>1. /\ front \in [Call -> {"none", "sent", "attempting", "calling", "joining", "done", "dead"}]
      /\ tries \in [Call -> 0 .. kRetryTimes]
      /\ client[c] # "idle"
  BY DEF ClusterInv, TypeOK, CallShape, Forwarding
<1>2. ASSUME NEW d \in Call, ClientStep(d)
      PROVE  front'[c] = front[c] /\ tries'[c] = tries[c]
  BY <1>1, <1>2 DEF Forwarding, ClientStep, ClientSend, ClientAnswered, ClientFails, ClientResend
<1>3. ASSUME NEW d \in Call, FrontStep(d)
      PROVE  front'[c] = front[c] /\ tries'[c] = tries[c]
  <2>1. CASE d = c
    BY <1>1, <1>3, <2>1 DEF Forwarding, FrontStep, ServeLocal, Forward, FiberFails,
       JoinReturns, AttemptResend
  <2>2. CASE d # c
    BY <1>1, <1>3, <2>2 DEF FrontStep, ServeLocal, Forward, FiberFails, JoinReturns, StartAttempt,
       AttemptFails, AttemptSucceeds, AttemptResend
  <2> QED BY <2>1, <2>2
<1>4. ASSUME NEW d \in Call, NEW a \in Attempt, LeafServes(d, a)
      PROVE  front'[c] = front[c] /\ tries'[c] = tries[c]
  BY <1>4 DEF LeafServes
<1>5. ASSUME NEW n \in Node, Restart(n)
      PROVE  (front'[c] = front[c] /\ tries'[c] = tries[c]) \/ front'[c] = "dead"
  BY <1>5 DEF Restart
<1>6. CASE UNCHANGED vars
  BY <1>6 DEF vars
<1> QED BY <1>2, <1>3, <1>4, <1>5, <1>6 DEF Next

LEMMA StepAdvancesForwards ==
    ASSUME ClusterInv, [Next]_vars PROVE ForwardsAdvance
<1> SUFFICES ASSUME NEW c \in Call, Forwarding(c)
             PROVE  /\ TurnsLeft(c) > 0
                    /\ StartAttempt(c) \/ AttemptFails(c) \/ AttemptSucceeds(c) =>
                          TurnsLeft(c)' < TurnsLeft(c)
                    /\ TurnsLeft(c)' <= TurnsLeft(c)
                    /\ Forwarding(c)' \/ front'[c] \in {"done", "dead"}
  BY DEF ForwardsAdvance
<1>1. TurnsLeft(c) \in Nat \ {0} /\ kRetryTimes \in Nat /\ tries[c] \in 0 .. kRetryTimes
  BY TurnsBounded
<1>2. TurnsLeft(c)' \in Int
  <2>1. tries'[c] \in 0 .. kRetryTimes
    BY StepInv DEF ClusterInv, TypeOK
  <2> QED BY <1>1, <2>1 DEF TurnsLeft
<1>3. CASE StartAttempt(c) \/ AttemptFails(c) \/ AttemptSucceeds(c)
  <2>1. TurnsLeft(c)' < TurnsLeft(c) /\ (Forwarding(c)' \/ front'[c] \in {"done", "dead"})
    BY <1>3, TurnAdvances
  <2> QED BY <1>1, <1>2, <2>1
<1>4. CASE ~(StartAttempt(c) \/ AttemptFails(c) \/ AttemptSucceeds(c))
  <2>1. CASE front'[c] = front[c] /\ tries'[c] = tries[c]
    BY <1>1, <1>4, <2>1 DEF TurnsLeft, Forwarding
  <2>2. CASE front'[c] = "dead"
    BY <1>1, <1>4, <2>2 DEF TurnsLeft
  <2> QED BY <1>4, <2>1, <2>2, OthersLeaveForward
<1> QED BY <1>3, <1>4

\* A forward is over after at most two turns for each of its kRetryTimes attempts,
\* whatever the peers, the network and the other calls do.
THEOREM ClusterForwardsAdvance == Spec => [][ForwardsAdvance]_vars
BY ClusterInvariant, StepAdvancesForwards, PTL DEF Spec
-------------------------------------------------------------------------------
\* The abstract module speaks of the same messages.
LEMMA SameMessages ==
    /\ Abstract!Request = Request /\ Abstract!NoRequest = NoRequest
    /\ Abstract!Unset = Unset
    /\ \A s, r : Abstract!StoreReply(s, r) = StoreReply(s, r)
    /\ \A s, r, t : Abstract!StoreStep(s, r, t) <=> StoreStep(s, r, t)
BY DEF Abstract!Request, Request, Abstract!NoRequest, NoRequest, Abstract!Unset, Unset,
       Abstract!Answer, Answer, Abstract!StoreReply, StoreReply, Abstract!StoreStep, StoreStep,
       Abstract!StoreAfter, StoreAfter

\* What was sent changes only when a client sends.
LEMMA SentRequestsKept ==
    /\ UNCHANGED <<req, client>> => UNCHANGED SentRequests
    /\ \A c \in Call : client[c] # "idle" => SentRequests[c] = req[c]
BY DEF SentRequests

\* Empty processes are an empty store.
LEMMA InitRefines == Init => Abstract!Init
<1> SUFFICES ASSUME Init PROVE Abstract!Init
  OBVIOUS
<1>1. SentRequests = [c \in Call |-> NoRequest]
  BY DEF Init, SentRequests
<1>2. OneStore = [k \in Key |-> None]
  <2>1. \A k \in Key : cache[Owner(k)].val[k] = None
    BY Routing DEF Init, EmptyCache
  <2> QED BY <2>1 DEF OneStore
<1> QED BY <1>1, <1>2, SameMessages DEF Init, Abstract!Init

\* What an execution at the owner does to the one store.
LEMMA ExecutionRefines ==
    ASSUME ClusterInv, NEW n \in Node, NEW c \in Call,
           n = Owner(req[c].key), client[c] # "idle",
           ExecuteAt(n, c), UNCHANGED <<req, client, answer, restarts>>
    PROVE  Abstract!Execute(c)
<1> DEFINE r == req[c]
<1>1. /\ r \in Request /\ r.key \in OwnKeys(n) /\ WellFormed(cache[n])
      /\ cache \in [Node -> Cache]
  BY DEF ClusterInv, TypeOK, Request, OwnKeys
<1>2. /\ cache' = [cache EXCEPT ![n] = Effect(cache[n], r)]
      /\ outcomes' = [outcomes EXCEPT ![c] = outcomes[c] \cup {Reply(cache[n], r)}]
      /\ SentRequests[c] = r /\ UNCHANGED SentRequests
  BY SentRequestsKept DEF ExecuteAt
<1> HIDE DEF r
<1>3. /\ OneStore = [k \in Key |-> cache[Owner(k)].val[k]]
      /\ OneStore' = [k \in Key |-> cache'[Owner(k)].val[k]]
  BY DEF OneStore
<1>4. \A k \in Key : k \in OwnKeys(n) =>
          OneStore[k] = cache[n].val[k] /\ OneStore'[k] = Effect(cache[n], r).val[k]
  BY <1>1, <1>2, <1>3 DEF OwnKeys
<1>5. \A k \in Key : k \notin OwnKeys(n) => OneStore'[k] = OneStore[k]
  BY <1>1, <1>2, <1>3, Routing DEF OwnKeys
<1>6. OneStore \in [Key -> Value \cup {None}] /\ OneStore' \in [Key -> Value \cup {None}]
  <2>1. \A m \in Node : cache[m].val \in [Key -> Value \cup {None}]
    BY DEF ClusterInv, TypeOK, WellFormed, Cache
  <2>2. Effect(cache[n], r).val \in [Key -> Value \cup {None}]
    BY <1>1, EffectProperties DEF WellFormed, Cache
  <2> QED BY <1>1, <1>2, <1>3, <2>1, <2>2, Routing
<1>7. StoreReply(OneStore, r) = Reply(cache[n], r) /\ StoreStep(OneStore, r, OneStore')
  BY <1>1, <1>4, <1>5, <1>6, ExecutionIsStoreStep
<1>8. /\ Abstract!StoreReply(OneStore, r) = Reply(cache[n], r)
      /\ Abstract!StoreStep(OneStore, r, OneStore')
  BY <1>7, SameMessages
<1> QED BY <1>2, <1>8 DEF Abstract!Execute

\* Every step is a step of the one store or invisible.
LEMMA StepRefines ==
    ASSUME ClusterInv, [Next]_vars
    PROVE  [Abstract!Next]_Abstract!vars
<1>1. ASSUME UNCHANGED <<req, cache, client, outcomes, answer, restarts>>
      PROVE  UNCHANGED Abstract!vars
  BY <1>1, SentRequestsKept DEF Abstract!vars, OneStore
<1>2. ASSUME NEW c \in Call, ClientStep(c)
      PROVE  [Abstract!Next]_Abstract!vars
  <2>1. CASE ClientSend(c)
    <3>1. OneStore' = OneStore
      BY <2>1 DEF ClientSend, OneStore
    <3>2. SentRequests' = [SentRequests EXCEPT ![c] = req[c]]
      BY <2>1 DEF ClientSend, SentRequests, ClusterInv, TypeOK
    <3>3. req[c] \in Request
      BY DEF ClusterInv, TypeOK
    <3>4. Abstract!Send(c)
      BY <2>1, <3>1, <3>2, <3>3, SameMessages DEF ClientSend, Abstract!Send
    <3> QED BY <3>4 DEF Abstract!Next
  <2>2. CASE ClientAnswered(c)
    <3>1. OneStore' = OneStore
      BY <2>2 DEF ClientAnswered, OneStore
    <3>2. reply[c] \in outcomes[c]
      BY <2>2 DEF ClientAnswered, ClusterInv, CallShape
    <3>3. UNCHANGED SentRequests
      BY <2>2 DEF ClientAnswered, SentRequests, ClusterInv, TypeOK
    <3>4. Abstract!Tell(c)
      BY <2>2, <3>1, <3>2, <3>3 DEF ClientAnswered, Abstract!Tell
    <3> QED BY <3>4 DEF Abstract!Next
  <2>3. CASE ClientFails(c)
    <3>1. OneStore' = OneStore
      BY <2>3 DEF ClientFails, OneStore
    <3>2. UNCHANGED SentRequests
      BY <2>3 DEF ClientFails, SentRequests, ClusterInv, TypeOK
    <3>3. Abstract!GiveUp(c)
      BY <2>3, <3>1, <3>2 DEF ClientFails, Abstract!GiveUp
    <3> QED BY <3>3 DEF Abstract!Next
  <2>4. CASE ClientResend(c)
    BY <1>1, <2>4 DEF ClientResend
  <2> QED BY <1>2, <2>1, <2>2, <2>3, <2>4 DEF ClientStep
<1>3. ASSUME NEW c \in Call, FrontStep(c)
      PROVE  [Abstract!Next]_Abstract!vars
  <2>1. CASE ServeLocal(c)
    <3>1. entry[c] \in Node /\ entry[c] = Owner(req[c].key) /\ client[c] # "idle"
      <4>1. entry[c] \in Node /\ req[c].key \in Key
        BY DEF ClusterInv, TypeOK, Request
      <4> QED BY <2>1, <4>1, Routing DEF ServeLocal, ClusterInv, CallShape
    <3>2. Abstract!Execute(c)
      BY <2>1, <3>1, ExecutionRefines DEF ServeLocal
    <3> QED BY <3>2 DEF Abstract!Next
  <2>2. CASE ~ServeLocal(c)
    BY <1>1, <1>3, <2>2 DEF FrontStep, Forward, FiberFails, JoinReturns, StartAttempt,
       AttemptFails, AttemptSucceeds, AttemptResend
  <2> QED BY <2>1, <2>2
<1>4. ASSUME NEW c \in Call, NEW a \in Attempt, LeafServes(c, a)
      PROVE  [Abstract!Next]_Abstract!vars
  <2> DEFINE n == Target(entry[c], req[c].key)
  <2>1. /\ n \in Node /\ n = Owner(req[c].key) /\ IsLocal(n, req[c].key)
        /\ client[c] # "idle"
    <3>1. entry[c] \in Node /\ req[c].key \in Key
      BY DEF ClusterInv, TypeOK, Request
    <3> QED BY <1>4, <3>1, Routing DEF LeafServes, ClusterInv, CallShape
  <2>2. ExecuteAt(n, c) /\ UNCHANGED <<req, client, answer, restarts>>
    BY <1>4, <2>1 DEF LeafServes
  <2> HIDE DEF n
  <2>3. Abstract!Execute(c)
    BY <2>1, <2>2, ExecutionRefines
  <2> QED BY <2>3 DEF Abstract!Next
<1>5. ASSUME NEW n \in Node, Restart(n)
      PROVE  [Abstract!Next]_Abstract!vars
  <2> DEFINE gone == {k \in Key : Owner(k) = n}
  <2>1. \A k \in Key : cache'[Owner(k)].val[k] =
            IF k \in gone THEN None ELSE cache[Owner(k)].val[k]
    BY <1>5, Routing DEF Restart, ClusterInv, TypeOK, EmptyCache
  <2>2. gone \in SUBSET Key
    OBVIOUS
  <2> HIDE DEF gone
  <2>3. OneStore' = [k \in Key |-> IF k \in gone THEN None ELSE OneStore[k]]
    BY <2>1 DEF OneStore
  <2>4. Abstract!Forget
    BY <1>5, <2>2, <2>3, SentRequestsKept DEF Restart, Abstract!Forget
  <2> QED BY <2>4 DEF Abstract!Next
<1>6. CASE UNCHANGED vars
  BY <1>1, <1>6 DEF vars
<1> QED BY <1>2, <1>3, <1>4, <1>5, <1>6 DEF Next

\* Seen from its clients the cluster is one store that executes a request at
\* least once for every answer it gives, and never anything nobody sent.
THEOREM ClusterIsAtLeastOnce == Spec => AbstractSpec
BY ClusterInvariant, InitRefines, StepRefines, PTL DEF Spec, AbstractSpec, Abstract!Spec
===============================================================================
