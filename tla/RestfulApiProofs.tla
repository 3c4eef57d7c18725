---------------------------- MODULE RestfulApiProofs ----------------------------
(***************************************************************************)
(* The HTTP interface for any number of browsers, keys and values: what a   *)
(* browser reads was executed, and only complete requests reach the cache   *)
(* that holds their key.                                                    *)
(***************************************************************************)
EXTENDS RestfulApi, LruCacheProofs

\* What is known of a request while its handler is at work.
HandlerInv ==
    \A b \in Browser :
        /\ stage[b] # "idle" => http[b] \in HttpRequest
        /\ stage[b] \in {"idle", "sent"} => answers[b] = {}
        /\ stage[b] = "served" => Complete(http[b])
        /\ stage[b] = "forwarding" => Complete(http[b]) /\ http[b].key \notin LocalKey
        /\ answers[b] # {} => Complete(http[b])
        /\ stage[b] = "replied" /\ Complete(http[b]) =>
              body[b] \in answers[b] \cup {proto_conversion_err}
        /\ Unset \notin answers[b]

RestfulInv == TypeOK /\ HandlerInv /\ BodyIsExecution /\ RightCache
-------------------------------------------------------------------------------
LEMMA InitRestful == Init => RestfulInv
<1> SUFFICES ASSUME Init PROVE RestfulInv
  OBVIOUS
<1>1. TypeOK
  BY EmptyWellFormed DEF Init, TypeOK, Unset, Answer, Response
<1>2. RightCache
  BY LocalKeyAssumption DEF Init, RightCache, EmptyCache, Has
<1> QED BY <1>1, <1>2 DEF Init, RestfulInv, HandlerInv, BodyIsExecution

\* A complete request is one the cache takes, and its answer says so.
LEMMA CompleteAnswer ==
    ASSUME NEW r \in HttpRequest, Complete(r), NEW c, WellFormed(c)
    PROVE  /\ KvRequestOf(r) \in Request /\ KvRequestOf(r).key = r.key
           /\ Reply(c, KvRequestOf(r)) \in Response
           /\ Reply(c, KvRequestOf(r)) # Unset
           /\ Reply(c, KvRequestOf(r)).code # "InvalidArgument"
           /\ WellFormed(Effect(c, KvRequestOf(r)))
           /\ \A k \in Key \ {r.key} : Has(Effect(c, KvRequestOf(r)), k) => Has(c, k)
<1>1. KvRequestOf(r) \in Request /\ KvRequestOf(r).key = r.key
  BY DEF KvRequestOf, Request, HttpRequest, Complete
<1>2. Reply(c, KvRequestOf(r)).code # "InvalidArgument"
  BY DEF KvRequestOf, Complete, Reply, Answer
<1>3. \A k \in Key \ {r.key} : Has(Effect(c, KvRequestOf(r)), k) => Has(c, k)
  BY <1>1, EffectProperties
<1> QED BY <1>1, <1>2, <1>3, EffectProperties

\* A response: the other browsers see nothing of it.
LEMMA RespondRestful ==
    ASSUME RestfulInv, NEW b \in Browser, stage[b] \in {"sent", "served", "forwarding"},
           NEW code \in {200, 404}, NEW content, SendResponse(b, code, content),
           content \in Response \cup {RootPage, NotFoundPage, proto_conversion_err},
           UNCHANGED <<here, there, http, answers>>,
           content.code \in {"Ok", "NotFound"} => content \in answers[b],
           Complete(http[b]) => content \in answers[b] \cup {proto_conversion_err}
    PROVE  RestfulInv'
<1>1. /\ status' = [status EXCEPT ![b] = code]
      /\ body' = [body EXCEPT ![b] = content]
      /\ stage' = [stage EXCEPT ![b] = "replied"]
  BY DEF SendResponse
<1>2. TypeOK'
  BY <1>1 DEF RestfulInv, TypeOK
<1>3. HandlerInv'
  BY <1>1 DEF RestfulInv, TypeOK, HandlerInv
<1>4. BodyIsExecution'
  BY <1>1 DEF RestfulInv, TypeOK, HandlerInv, BodyIsExecution
<1>5. RightCache'
  BY DEF RestfulInv, RightCache
<1> QED BY <1>2, <1>3, <1>4, <1>5 DEF RestfulInv

\* The bodies no execution stands behind are none of "Ok" and "NotFound".
LEMMA PreparedBodies ==
    /\ RootPage.code = "RootPage" /\ NotFoundPage.code = "NotFoundPage"
    /\ proto_conversion_err.code = "Internal"
    /\ get_nokey_err = proto_conversion_err
    /\ ToBody(Unset) = proto_conversion_err
    /\ ToBody(Answer("InvalidArgument", None)).code = "InvalidArgument"
    /\ ToBody(Answer("InvalidArgument", None)) \in Response
    /\ \A r : r # Unset => ToBody(r) = r
  BY DEF RootPage, NotFoundPage, proto_conversion_err, get_nokey_err, ToBody,
     get_proto_conversion_err, Answer, Unset, Response, Code

LEMMA PageRestful ==
    ASSUME RestfulInv, NEW b \in Browser, Root(b) \/ NotFound(b) \/ Incomplete(b)
    PROVE  RestfulInv'
<1>1. CASE Root(b)
  BY <1>1, RespondRestful, PreparedBodies DEF Root, Complete, CachePath
<1>2. CASE NotFound(b)
  BY <1>2, RespondRestful, PreparedBodies DEF NotFound, Complete, CachePath
<1>3. CASE Incomplete(b)
  BY <1>3, RespondRestful, PreparedBodies DEF Incomplete
<1> QED BY <1>1, <1>2, <1>3

\* A local execution: only this key comes here.
LEMMA ServeRestful ==
    ASSUME RestfulInv, NEW b \in Browser, Serve(b) PROVE RestfulInv'
<1> DEFINE r == KvRequestOf(http[b])
           a == Reply(here, r)
<1>1. /\ http[b] \in HttpRequest /\ Complete(http[b]) /\ http[b].key \in LocalKey
      /\ here' = Effect(here, r)
      /\ answers' = [answers EXCEPT ![b] = answers[b] \cup {a}]
      /\ stage' = [stage EXCEPT ![b] = "served"]
      /\ UNCHANGED <<there, http, status, body>>
  BY DEF Serve, RestfulInv, HandlerInv
<1>2. /\ a \in Response /\ a # Unset /\ a.code # "InvalidArgument"
      /\ WellFormed(Effect(here, r))
      /\ \A k \in Key \ {http[b].key} : Has(Effect(here, r), k) => Has(here, k)
  BY <1>1, CompleteAnswer DEF RestfulInv, TypeOK
<1> HIDE DEF r, a
<1>4. TypeOK'
  BY <1>1, <1>2 DEF RestfulInv, TypeOK
<1>5. HandlerInv'
  BY <1>1, <1>2 DEF RestfulInv, TypeOK, HandlerInv
<1>6. BodyIsExecution'
  BY <1>1 DEF RestfulInv, TypeOK, BodyIsExecution
<1>7. RightCache'
  BY <1>1, <1>2 DEF RestfulInv, TypeOK, RightCache, Answer
<1> QED BY <1>4, <1>5, <1>6, <1>7 DEF RestfulInv

\* An execution by a peer, awaited or late: the request was complete, and its
\* key is not local.
LEMMA PeerRestful ==
    ASSUME RestfulInv, NEW b \in Browser, PeerExecutes(b) PROVE RestfulInv'
<1> DEFINE r == KvRequestOf(http[b])
           a == Reply(there, r)
<1>1. /\ http[b] \in HttpRequest /\ Complete(http[b]) /\ http[b].key \notin LocalKey
      /\ stage[b] \in {"forwarding", "replied"}
      /\ there' = Effect(there, r)
      /\ answers' = [answers EXCEPT ![b] = answers[b] \cup {a}]
      /\ UNCHANGED <<here, stage, http, status, body>>
  BY DEF PeerExecutes, Forwarded, RestfulInv, HandlerInv
<1>2. /\ a \in Response /\ a # Unset /\ a.code # "InvalidArgument"
      /\ WellFormed(Effect(there, r))
      /\ \A k \in Key \ {http[b].key} : Has(Effect(there, r), k) => Has(there, k)
  BY <1>1, CompleteAnswer DEF RestfulInv, TypeOK
<1> HIDE DEF r, a
<1>4. TypeOK'
  BY <1>1, <1>2 DEF RestfulInv, TypeOK
<1>5. HandlerInv'
  BY <1>1, <1>2 DEF RestfulInv, TypeOK, HandlerInv
<1>6. BodyIsExecution'
  BY <1>1 DEF RestfulInv, TypeOK, BodyIsExecution
<1>7. RightCache'
  BY <1>1, <1>2 DEF RestfulInv, TypeOK, RightCache, Answer
<1> QED BY <1>4, <1>5, <1>6, <1>7 DEF RestfulInv

\* The proxy comes back, with a response or without one.
LEMMA AnsweredRestful ==
    ASSUME RestfulInv, NEW b \in Browser, Answered(b) \/ ForwardFails(b)
    PROVE  RestfulInv'
<1>1. CASE Answered(b)
  <2>1. PICK response \in answers[b] : SendResponse(b, 200, ToBody(response))
    BY <1>1 DEF Answered
  <2>2. response \in Response
    BY <2>1 DEF RestfulInv, TypeOK
  <2>3. ToBody(response) \in {response, proto_conversion_err}
    BY PreparedBodies
  <2> QED BY <1>1, <2>1, <2>2, <2>3, RespondRestful, PreparedBodies DEF Answered
<1>2. CASE ForwardFails(b)
  BY <1>2, RespondRestful, PreparedBodies DEF ForwardFails
<1> QED BY <1>1, <1>2

\* A request is sent or is handed to the fiber of a sender.
LEMMA BrowserRestful ==
    ASSUME RestfulInv, NEW b \in Browser, Browse(b) \/ Forward(b)
    PROVE  RestfulInv'
<1>1. CASE Browse(b)
  BY <1>1 DEF RestfulInv, TypeOK, HandlerInv, BodyIsExecution, RightCache, Browse
<1>2. CASE Forward(b)
  BY <1>2 DEF RestfulInv, TypeOK, HandlerInv, BodyIsExecution, RightCache, Forward
<1> QED BY <1>1, <1>2

\* The inductive invariant holds of every behaviour.
THEOREM RestfulInvariant == Spec => []RestfulInv
<1>1. RestfulInv /\ [Next]_vars => RestfulInv'
  <2>1. ASSUME RestfulInv, UNCHANGED vars PROVE RestfulInv'
    BY <2>1 DEF RestfulInv, TypeOK, HandlerInv, BodyIsExecution, RightCache, vars
  <2> QED BY <2>1, PageRestful, ServeRestful, PeerRestful, AnsweredRestful,
             BrowserRestful DEF Next, Handle
<1> QED BY InitRestful, <1>1, PTL DEF Spec

\* The values of the variables.
THEOREM RestfulTypeOK == Spec => []TypeOK
<1>1. RestfulInv => TypeOK
  BY DEF RestfulInv
<1> QED BY <1>1, RestfulInvariant, PTL

\* A browser that reads "Ok" or "NotFound" reads the answer of an execution.
THEOREM RestfulBodyIsExecution == Spec => []BodyIsExecution
<1>1. RestfulInv => BodyIsExecution
  BY DEF RestfulInv
<1> QED BY <1>1, RestfulInvariant, PTL

\* Only complete requests reach a cache, and a key is in one cache only.
THEOREM RestfulRightCache == Spec => []RightCache
<1>1. RestfulInv => RightCache
  BY DEF RestfulInv
<1> QED BY <1>1, RestfulInvariant, PTL
-------------------------------------------------------------------------------
\* The abstract module speaks of the same messages.
LEMMA SameMessages ==
    /\ Abstract!Request = Request /\ Abstract!NoRequest = NoRequest
    /\ Abstract!Unset = Unset
    /\ \A s, r : Abstract!StoreReply(s, r) = StoreReply(s, r)
    /\ \A s, r, t : Abstract!StoreStep(s, r, t) <=> StoreStep(s, r, t)
BY DEF Abstract!Request, Request, Abstract!NoRequest, NoRequest, Abstract!Unset, Unset,
       Abstract!Answer, Answer, Abstract!StoreReply, StoreReply, Abstract!StoreStep, StoreStep,
       Abstract!StoreAfter, StoreAfter

\* Nobody has asked for anything and both caches are empty.
LEMMA InitRefines == Init => Abstract!Init
<1> SUFFICES ASSUME Init PROVE Abstract!Init
  OBVIOUS
<1>1. AbsStore = [k \in Key |-> None]
  BY DEF Init, AbsStore, EmptyCache
<1>2. \A b \in Browser : ~AsksCache(b)
  BY DEF Init, AsksCache
<1>3. /\ AbsRequest = [b \in Browser |-> NoRequest]
      /\ AbsStatus = [b \in Browser |-> "idle"]
  BY <1>2 DEF AbsRequest, AbsStatus
<1>4. AbsAnswer = [b \in Browser |-> Unset]
  BY <1>3 DEF AbsAnswer
<1> QED BY <1>1, <1>3, <1>4, SameMessages DEF Init, Abstract!Init

\* A step that sends and answers nothing looks like none from outside.
LEMMA NothingSeen ==
    ASSUME UNCHANGED <<here, there, answers>>,
           UNCHANGED <<AbsRequest, AbsStatus, AbsAnswer>>
    PROVE  UNCHANGED Abstract!vars
BY DEF Abstract!vars, AbsStore

\* What an execution in one of the caches does to the one store.
LEMMA ExecutionRefines ==
    ASSUME RestfulInv, NEW b \in Browser, Complete(http[b]), stage[b] # "idle",
           NEW c, WellFormed(c), NEW Own, http[b].key \in Own,
           AbsStore' \in [Key -> Value \cup {None}],
           \A k \in Key : k \in Own =>
               /\ AbsStore[k] = c.val[k]
               /\ AbsStore'[k] = Effect(c, KvRequestOf(http[b])).val[k],
           \A k \in Key : k \notin Own => AbsStore'[k] = AbsStore[k],
           answers' = [answers EXCEPT ![b] =
                          answers[b] \cup {Reply(c, KvRequestOf(http[b]))}],
           UNCHANGED <<AbsRequest, AbsStatus, AbsAnswer>>
    PROVE  Abstract!Execute(b)
<1> DEFINE r == KvRequestOf(http[b])
<1>1. http[b] \in HttpRequest /\ r \in Request /\ r.key \in Own
  BY CompleteAnswer DEF RestfulInv, HandlerInv
<1>2. AbsStore \in [Key -> Value \cup {None}]
  BY DEF RestfulInv, TypeOK, WellFormed, Cache, AbsStore
<1>3. AbsRequest[b] = r /\ AbsStatus[b] # "idle"
  BY DEF AbsRequest, AbsStatus, AsksCache
<1> HIDE DEF r
<1>4. StoreReply(AbsStore, r) = Reply(c, r) /\ StoreStep(AbsStore, r, AbsStore')
  BY <1>1, <1>2, ExecutionIsStoreStep DEF r
<1>5. /\ Abstract!StoreReply(AbsStore, r) = Reply(c, r)
      /\ Abstract!StoreStep(AbsStore, r, AbsStore')
  BY <1>4, SameMessages
<1> QED BY <1>3, <1>5 DEF Abstract!Execute, r
\* What the step of one browser's request changes for the others: nothing.
LEMMA OnlyThisBrowser ==
    ASSUME RestfulInv, NEW b \in Browser,
           \A d \in Browser \ {b} :
              stage'[d] = stage[d] /\ http'[d] = http[d] /\ body'[d] = body[d]
    PROVE  /\ AbsRequest' = [AbsRequest EXCEPT ![b] = AbsRequest'[b]]
           /\ AbsStatus' = [AbsStatus EXCEPT ![b] = AbsStatus'[b]]
           /\ AbsAnswer' = [AbsAnswer EXCEPT ![b] = AbsAnswer'[b]]
           /\ AbsRequest'[b] = AbsRequest[b] => UNCHANGED AbsRequest
           /\ AbsStatus'[b] = AbsStatus[b] => UNCHANGED AbsStatus
           /\ AbsAnswer'[b] = AbsAnswer[b] => UNCHANGED AbsAnswer
<1>1. \A d \in Browser \ {b} : AsksCache(d)' <=> AsksCache(d)
  BY DEF AsksCache
<1>2. \A d \in Browser \ {b} :
        AbsRequest'[d] = AbsRequest[d] /\ AbsStatus'[d] = AbsStatus[d]
  BY <1>1 DEF AbsRequest, AbsStatus
<1>3. \A d \in Browser \ {b} : AbsAnswer'[d] = AbsAnswer[d]
  BY <1>2 DEF AbsAnswer
<1>4. /\ AbsRequest = [d \in Browser |-> AbsRequest[d]]
      /\ AbsRequest' = [d \in Browser |-> AbsRequest'[d]]
      /\ AbsStatus = [d \in Browser |-> AbsStatus[d]]
      /\ AbsStatus' = [d \in Browser |-> AbsStatus'[d]]
      /\ AbsAnswer = [d \in Browser |-> AbsAnswer[d]]
      /\ AbsAnswer' = [d \in Browser |-> AbsAnswer'[d]]
  BY DEF AbsRequest, AbsStatus, AbsAnswer
<1> QED BY <1>2, <1>3, <1>4

\* A browser sends: a complete request goes to the store, another one does not.
LEMMA BrowseRefines ==
    ASSUME RestfulInv, NEW b \in Browser, Browse(b)
    PROVE  Abstract!Send(b) \/ UNCHANGED Abstract!vars
<1>1. PICK r \in HttpRequest : http' = [http EXCEPT ![b] = r]
  BY DEF Browse
<1>2. /\ http'[b] = r /\ stage'[b] = "sent" /\ stage[b] = "idle"
      /\ ~AsksCache(b) /\ (AsksCache(b)' <=> Complete(r))
      /\ \A d \in Browser \ {b} :
            stage'[d] = stage[d] /\ http'[d] = http[d] /\ body'[d] = body[d]
  BY <1>1 DEF Browse, RestfulInv, TypeOK, AsksCache
<1>3. /\ AbsStatus[b] = "idle" /\ AbsAnswer[b] = Unset /\ AbsRequest[b] = NoRequest
      /\ AbsStatus'[b] = IF Complete(r) THEN "waiting" ELSE "idle"
      /\ AbsRequest'[b] = IF Complete(r) THEN KvRequestOf(r) ELSE NoRequest
  BY <1>2 DEF AbsStatus, AbsAnswer, AbsRequest
<1>4. AbsAnswer'[b] = Unset
  BY <1>3 DEF AbsAnswer
<1>5. /\ AbsRequest' = [AbsRequest EXCEPT ![b] = AbsRequest'[b]]
      /\ AbsStatus' = [AbsStatus EXCEPT ![b] = AbsStatus'[b]]
      /\ AbsRequest'[b] = AbsRequest[b] => UNCHANGED AbsRequest
      /\ AbsStatus'[b] = AbsStatus[b] => UNCHANGED AbsStatus
      /\ AbsAnswer'[b] = AbsAnswer[b] => UNCHANGED AbsAnswer
  BY <1>2, OnlyThisBrowser
<1>6. UNCHANGED AbsAnswer
  BY <1>3, <1>4, <1>5
<1>7. UNCHANGED AbsStore /\ UNCHANGED answers
  BY DEF Browse, AbsStore
<1>8. CASE Complete(r)
  <2>1. KvRequestOf(r) \in Request
    BY <1>8 DEF KvRequestOf, Request, HttpRequest, Complete
  <2> QED BY <1>3, <1>5, <1>6, <1>7, <1>8, <2>1, SameMessages DEF Abstract!Send
<1>9. CASE ~Complete(r)
  BY <1>3, <1>5, <1>6, <1>7, <1>9 DEF Abstract!vars
<1> QED BY <1>8, <1>9

\* The processors that never get to the proxy.
LEMMA PageRefines ==
    ASSUME RestfulInv, NEW b \in Browser, Root(b) \/ NotFound(b) \/ Incomplete(b)
    PROVE  UNCHANGED Abstract!vars
<1>1. ~Complete(http[b])
  BY DEF Root, NotFound, Incomplete, Complete, CachePath
<1>2. /\ UNCHANGED <<here, there, http, answers>>
      /\ \A d \in Browser \ {b} : stage'[d] = stage[d] /\ body'[d] = body[d]
  BY DEF Root, NotFound, Incomplete, SendResponse, RestfulInv, TypeOK
<1>3. \A d \in Browser : AsksCache(d)' <=> AsksCache(d)
  BY <1>1, <1>2 DEF AsksCache
<1>4. UNCHANGED AbsRequest
  BY <1>2, <1>3 DEF AbsRequest
<1>5. UNCHANGED AbsStatus
  BY <1>1, <1>2, <1>3 DEF AbsStatus, AsksCache
<1>6. \A d \in Browser : AbsStatus[d] = "answered" => d # b
  BY <1>1 DEF AbsStatus, AsksCache
<1>7. UNCHANGED AbsAnswer
  BY <1>2, <1>5, <1>6 DEF AbsAnswer
<1> QED BY <1>2, <1>4, <1>5, <1>7, NothingSeen

\* A request moves on between its parts: nobody outside sees that.
LEMMA StageKept ==
    ASSUME RestfulInv, NEW b \in Browser, stage[b] = "sent",
           NEW s \in {"served", "forwarding"}, stage' = [stage EXCEPT ![b] = s],
           UNCHANGED <<http, body>>
    PROVE  UNCHANGED <<AbsRequest, AbsStatus, AbsAnswer>>
<1>1. \A d \in Browser : /\ stage'[d] = "idle" <=> stage[d] = "idle"
                         /\ stage'[d] = "replied" <=> stage[d] = "replied"
  BY DEF RestfulInv, TypeOK
<1>2. \A d \in Browser : AsksCache(d)' <=> AsksCache(d)
  BY <1>1 DEF AsksCache
<1>3. UNCHANGED AbsRequest /\ UNCHANGED AbsStatus
  BY <1>1, <1>2 DEF AbsRequest, AbsStatus
<1> QED BY <1>3 DEF AbsAnswer

\* An execution on this process, awaited by the handler.
LEMMA ServeRefines ==
    ASSUME RestfulInv, RestfulInv', NEW b \in Browser, Serve(b)
    PROVE  Abstract!Execute(b)
<1>1. /\ stage[b] = "sent" /\ Complete(http[b]) /\ http[b].key \in LocalKey
      /\ here' = Effect(here, KvRequestOf(http[b]))
      /\ answers' = [answers EXCEPT ![b] =
                        answers[b] \cup {Reply(here, KvRequestOf(http[b]))}]
      /\ stage' = [stage EXCEPT ![b] = "served"]
      /\ UNCHANGED <<there, http, status, body>>
  BY DEF Serve
<1>2. AbsStore' \in [Key -> Value \cup {None}]
  BY DEF RestfulInv, TypeOK, WellFormed, Cache, AbsStore
<1>3. /\ \A k \in Key : k \in LocalKey =>
             /\ AbsStore[k] = here.val[k]
             /\ AbsStore'[k] = Effect(here, KvRequestOf(http[b])).val[k]
      /\ \A k \in Key : k \notin LocalKey => AbsStore'[k] = AbsStore[k]
  BY <1>1 DEF AbsStore
<1>4. UNCHANGED <<AbsRequest, AbsStatus, AbsAnswer>>
  BY <1>1, StageKept
<1>5. WellFormed(here)
  BY DEF RestfulInv, TypeOK
<1> QED BY <1>1, <1>2, <1>3, <1>4, <1>5, ExecutionRefines

\* An execution on the peer, in time or after the browser has its response.
LEMMA PeerRefines ==
    ASSUME RestfulInv, RestfulInv', NEW b \in Browser, PeerExecutes(b)
    PROVE  Abstract!Execute(b)
<1> DEFINE Elsewhere == Key \ LocalKey
<1>1. /\ stage[b] # "idle" /\ Complete(http[b])
      /\ http[b].key \in Key /\ http[b].key \notin LocalKey
      /\ there' = Effect(there, KvRequestOf(http[b]))
      /\ answers' = [answers EXCEPT ![b] =
                        answers[b] \cup {Reply(there, KvRequestOf(http[b]))}]
      /\ UNCHANGED <<here, stage, http, status, body>>
  <2>1. stage[b] # "idle" /\ Complete(http[b]) /\ http[b].key \notin LocalKey
    BY DEF PeerExecutes, Forwarded, RestfulInv, HandlerInv
  <2>2. http[b].key \in Key
    BY <2>1 DEF RestfulInv, HandlerInv, HttpRequest, Complete
  <2> QED BY <2>1, <2>2 DEF PeerExecutes
<1>2. AbsStore' \in [Key -> Value \cup {None}]
  BY DEF RestfulInv, TypeOK, WellFormed, Cache, AbsStore
<1>3. /\ \A k \in Key : k \in Elsewhere =>
             /\ AbsStore[k] = there.val[k]
             /\ AbsStore'[k] = Effect(there, KvRequestOf(http[b])).val[k]
      /\ \A k \in Key : k \notin Elsewhere => AbsStore'[k] = AbsStore[k]
  BY <1>1 DEF AbsStore
<1>4. \A d \in Browser : AsksCache(d)' <=> AsksCache(d)
  BY <1>1 DEF AsksCache
<1>5. UNCHANGED AbsRequest /\ UNCHANGED AbsStatus
  BY <1>1, <1>4 DEF AbsRequest, AbsStatus
<1>6. UNCHANGED AbsAnswer
  BY <1>1, <1>5 DEF AbsAnswer
<1>7. WellFormed(there) /\ http[b].key \in Elsewhere
  BY <1>1 DEF RestfulInv, TypeOK
<1> HIDE DEF Elsewhere
<1> QED BY <1>1, <1>2, <1>3, <1>5, <1>6, <1>7, ExecutionRefines

\* The browser gets its response: an answer, or a failure.
LEMMA ResponseRefines ==
    ASSUME RestfulInv, NEW b \in Browser, Answered(b) \/ ForwardFails(b)
    PROVE  Abstract!Tell(b) \/ Abstract!GiveUp(b)
<1>1. /\ stage[b] \in {"served", "forwarding"} /\ Complete(http[b])
      /\ UNCHANGED <<here, there, http, answers>>
  BY DEF Answered, ForwardFails, RestfulInv, HandlerInv
<1>2. PICK content : /\ SendResponse(b, 200, content)
                     /\ content \in answers[b] \cup {proto_conversion_err}
                     /\ Answered(b) \/ content = proto_conversion_err
  <2>1. CASE ForwardFails(b)
    BY <2>1, PreparedBodies DEF ForwardFails
  <2>2. CASE Answered(b)
    <3>1. PICK response \in answers[b] : SendResponse(b, 200, ToBody(response))
      BY <2>2 DEF Answered
    <3>2. ToBody(response) \in {response, proto_conversion_err}
      BY PreparedBodies
    <3> QED BY <2>2, <3>1, <3>2
  <2> QED BY <2>1, <2>2
<1>3. /\ stage'[b] = "replied" /\ body'[b] = content
      /\ \A d \in Browser \ {b} :
            stage'[d] = stage[d] /\ http'[d] = http[d] /\ body'[d] = body[d]
  BY <1>1, <1>2 DEF SendResponse, RestfulInv, TypeOK
<1>4. AsksCache(b) /\ AsksCache(b)'
  BY <1>1, <1>3 DEF AsksCache
<1>5. /\ AbsStatus[b] = "waiting"
      /\ AbsStatus'[b] = IF content = proto_conversion_err THEN "failed" ELSE "answered"
      /\ AbsRequest'[b] = AbsRequest[b]
  BY <1>1, <1>3, <1>4 DEF AbsStatus, AbsRequest
<1>6. /\ AbsAnswer[b] = Unset
      /\ AbsAnswer'[b] = IF content = proto_conversion_err THEN Unset ELSE content
  BY <1>3, <1>5 DEF AbsAnswer
<1>7. /\ AbsRequest' = [AbsRequest EXCEPT ![b] = AbsRequest'[b]]
      /\ AbsStatus' = [AbsStatus EXCEPT ![b] = AbsStatus'[b]]
      /\ AbsAnswer' = [AbsAnswer EXCEPT ![b] = AbsAnswer'[b]]
      /\ AbsRequest'[b] = AbsRequest[b] => UNCHANGED AbsRequest
      /\ AbsAnswer'[b] = AbsAnswer[b] => UNCHANGED AbsAnswer
  BY <1>3, OnlyThisBrowser
<1>8. UNCHANGED <<AbsRequest, AbsStore, answers>>
  BY <1>1, <1>5, <1>7 DEF AbsStore
<1>9. CASE content = proto_conversion_err
  BY <1>5, <1>6, <1>7, <1>8, <1>9 DEF Abstract!GiveUp
<1>10. CASE content # proto_conversion_err
  <2>1. content \in answers[b] /\ AbsAnswer' = [AbsAnswer EXCEPT ![b] = content]
    BY <1>2, <1>6, <1>7, <1>10
  <2>2. AbsStatus' = [AbsStatus EXCEPT ![b] = "answered"]
    BY <1>5, <1>7, <1>10
  <2> QED BY <1>5, <1>8, <2>1, <2>2 DEF Abstract!Tell
<1> QED BY <1>9, <1>10

\* Every step is a step of the one store or invisible.
LEMMA StepRefines ==
    ASSUME RestfulInv, RestfulInv', [Next]_vars
    PROVE  [Abstract!Next]_Abstract!vars
<1>1. ASSUME NEW b \in Browser, Browse(b) PROVE [Abstract!Next]_Abstract!vars
  BY <1>1, BrowseRefines DEF Abstract!Next
<1>2. ASSUME NEW b \in Browser, Handle(b) PROVE [Abstract!Next]_Abstract!vars
  <2>1. CASE Root(b) \/ NotFound(b) \/ Incomplete(b)
    BY <2>1, PageRefines
  <2>2. CASE Serve(b)
    BY <2>2, ServeRefines DEF Abstract!Next
  <2>3. CASE Forward(b)
    BY <2>3, StageKept, NothingSeen DEF Forward
  <2>4. CASE PeerExecutes(b)
    BY <2>4, PeerRefines DEF Abstract!Next
  <2>5. CASE Answered(b) \/ ForwardFails(b)
    BY <2>5, ResponseRefines DEF Abstract!Next
  <2> QED BY <1>2, <2>1, <2>2, <2>3, <2>4, <2>5 DEF Handle
<1>3. CASE UNCHANGED vars
  BY <1>3 DEF vars, Abstract!vars, AbsStore, AbsRequest, AbsStatus, AbsAnswer, AsksCache
<1> QED BY <1>1, <1>2, <1>3 DEF Next

\* Through HTTP the store is the one the RPC clients know: every answer a browser
\* reads is that of an execution of its request, on the one value of the key.
THEOREM RestfulIsAtLeastOnce == Spec => AbstractSpec
BY RestfulInvariant, InitRefines, StepRefines, PTL DEF Spec, AbstractSpec, Abstract!Spec
===============================================================================
