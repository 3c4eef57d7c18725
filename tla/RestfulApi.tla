------------------------------- MODULE RestfulApi -------------------------------
(***************************************************************************)
(* The HTTP interface of a010-hala-kv: the processors of the paths          *)
(* /cache/set and /cache/get, of the root and of every other path.  They   *)
(* run in one process and go through its KvProxy: a key is served from the *)
(* local cache or forwarded to a peer, which HalaCluster models attempt by *)
(* attempt.  Here a forward executes any number of times on the peer and   *)
(* ends with one of the answers or with none.                              *)
(***************************************************************************)
EXTENDS KvApi

CONSTANTS
    Browser,    \* the HTTP clients, one request each
    LocalKey    \* the keys whose peer is this process

ASSUME LocalKeyAssumption == LocalKey \subseteq Key
ASSUME NoKeyAssumption == None \notin Key

Path == {"/", "/cache/set", "/cache/get", "other"}
CachePath == {"/cache/set", "/cache/get"}

\* GetQuery("key") and body(); None is a missing key and an empty body.
HttpRequest ==
    [path : Path, key : Key \cup {None}, body : Value \cup {None}]
NoHttpRequest == [path |-> "none", key |-> None, body |-> None]

VARIABLES
    here,       \* the cache of this process
    there,      \* the caches of the peers, as one container
    stage,      \* stage[b]: "idle", "sent", "served", "forwarding" or
                \* "replied"
    http,       \* http[b]: the request of b
    answers,    \* answers[b]: what executions of b's request have answered
    status,     \* status[b]: the HTTP status of the response to b, or 0
    body        \* body[b]: its body, as the code and the value in it

vars == <<here, there, stage, http, answers, status, body>>

\* The bodies that no KvResponse stands behind: the two texts, and the two
\* objects init_error_once prepares.
RootPage == Answer("RootPage", None)
NotFoundPage == Answer("NotFoundPage", None)
proto_conversion_err == Answer("Internal", None)
no_key_err == Answer("InvalidArgument", None)

get_proto_conversion_err == proto_conversion_err
get_nokey_err == proto_conversion_err

\* Mutant of ToBody: an empty response reads as a key that is not there.
ToBodyNotFound(response) ==
    IF response = Unset THEN Answer("NotFound", None) ELSE response

\* ProtoMessageToJson fails on a KvResponse without its required fields.
ToBody(response) == IF response = Unset THEN get_proto_conversion_err ELSE response

Init ==
    /\ here = EmptyCache
    /\ there = EmptyCache
    /\ stage = [b \in Browser |-> "idle"]
    /\ http = [b \in Browser |-> NoHttpRequest]
    /\ answers = [b \in Browser |-> {}]
    /\ status = [b \in Browser |-> 0]
    /\ body = [b \in Browser |-> Unset]

SendResponse(b, code, content) ==
    /\ status' = [status EXCEPT ![b] = code]
    /\ body' = [body EXCEPT ![b] = content]
    /\ stage' = [stage EXCEPT ![b] = "replied"]

\* The KvRequest the processors make of an HTTP request.
KvRequestOf(r) ==
    IF r.path = "/cache/set" THEN [op |-> "put", key |-> r.key, value |-> r.body]
                             ELSE [op |-> "get", key |-> r.key, value |-> None]

\* Mutant of Complete: set accepts an empty body.
CompleteWithoutBody(r) == r.path \in CachePath /\ r.key # None

\* The first test of the two cache processors.
Complete(r) ==
    /\ r.path \in CachePath
    /\ r.key # None
    /\ r.path = "/cache/set" => r.body # None
-------------------------------------------------------------------------------
Browse(b) ==
    /\ stage[b] = "idle"
    /\ \E r \in HttpRequest : http' = [http EXCEPT ![b] = r]
    /\ stage' = [stage EXCEPT ![b] = "sent"]
    /\ UNCHANGED <<here, there, answers, status, body>>

\* RootProcessor
Root(b) ==
    /\ stage[b] = "sent"
    /\ http[b].path = "/"
    /\ SendResponse(b, 200, RootPage)
    /\ UNCHANGED <<here, there, http, answers>>

\* NotFoundProcessor
NotFound(b) ==
    /\ stage[b] = "sent"
    /\ http[b].path = "other"
    /\ SendResponse(b, 404, NotFoundPage)
    /\ UNCHANGED <<here, there, http, answers>>

\* CacheSetProcessor without a key or a value, CacheGetProcessor without a
\* key: set answers with a prepared object, get with a KvResponse it fills in.
Incomplete(b) ==
    /\ stage[b] = "sent"
    /\ http[b].path \in CachePath
    /\ ~Complete(http[b])
    /\ SendResponse(b, 200, IF http[b].path = "/cache/set" THEN get_nokey_err
                            ELSE ToBody(Answer("InvalidArgument", None)))
    /\ UNCHANGED <<here, there, http, answers>>

\* Both processors, when KvProxy serves the key itself.
Serve(b) ==
    /\ stage[b] = "sent"
    /\ Complete(http[b])
    /\ http[b].key \in LocalKey
    /\ LET r == KvRequestOf(http[b])
       IN  /\ here' = Effect(here, r)
           /\ answers' = [answers EXCEPT ![b] = @ \cup {Reply(here, r)}]
    /\ stage' = [stage EXCEPT ![b] = "served"]
    /\ UNCHANGED <<there, http, status, body>>

\* Both processors, when KvProxy starts the fiber of a sender and joins it.
Forward(b) ==
    /\ stage[b] = "sent"
    /\ Complete(http[b])
    /\ http[b].key \notin LocalKey
    /\ stage' = [stage EXCEPT ![b] = "forwarding"]
    /\ UNCHANGED <<here, there, http, answers, status, body>>

\* The request has left for the peer, maybe for good.
Forwarded(b) ==
    \/ stage[b] = "forwarding"
    \/ stage[b] = "replied" /\ Complete(http[b]) /\ http[b].key \notin LocalKey

\* The peer executes an attempt of the sender, maybe one the sender has given
\* up already.
PeerExecutes(b) ==
    /\ Forwarded(b)
    /\ LET r == KvRequestOf(http[b])
       IN  /\ there' = Effect(there, r)
           /\ answers' = [answers EXCEPT ![b] = @ \cup {Reply(there, r)}]
    /\ UNCHANGED <<here, stage, http, status, body>>

\* KvProxy comes back with the KvResponse of the local cache or of one of the
\* attempts, and both processors make the body of it.
Answered(b) ==
    /\ stage[b] \in {"served", "forwarding"}
    /\ \E response \in answers[b] : SendResponse(b, 200, ToBody(response))
    /\ UNCHANGED <<here, there, http, answers>>

\* Or all attempts have failed: KvProxy drops the status of the sender and
\* returns OkStatus with the empty KvResponse.
ForwardFails(b) ==
    /\ stage[b] = "forwarding"
    /\ SendResponse(b, 200, ToBody(Unset))
    /\ UNCHANGED <<here, there, http, answers>>

Handle(b) ==
    \/ Root(b)
    \/ NotFound(b)
    \/ Incomplete(b)
    \/ Serve(b)
    \/ Forward(b)
    \/ PeerExecutes(b)
    \/ Answered(b)
    \/ ForwardFails(b)

Next == \E b \in Browser : Browse(b) \/ Handle(b)

Spec == Init /\ [][Next]_vars
-------------------------------------------------------------------------------
TypeOK ==
    /\ WellFormed(here) /\ WellFormed(there)
    /\ stage \in [Browser -> {"idle", "sent", "served", "forwarding", "replied"}]
    /\ http \in [Browser -> HttpRequest \cup {NoHttpRequest}]
    /\ answers \in [Browser -> SUBSET Response]
    /\ status \in [Browser -> {0, 200, 404}]
    /\ body \in [Browser -> Response \cup
                    {RootPage, NotFoundPage, proto_conversion_err}]

\* A browser that reads "Ok" or "NotFound" reads what an execution of its own
\* request answered; a forward that ended without an answer shows as the
\* conversion error and never as a missing key (restful_service.cc:75-87,
\* 112-127).
BodyIsExecution ==
    \A b \in Browser :
        stage[b] = "replied" /\ body[b].code \in {"Ok", "NotFound"} =>
            body[b] \in answers[b] /\ Complete(http[b])

\* The processors let no request through to a cache that the cache would
\* reject, and none of them touches another process's keys: a value comes into
\* a cache from a body that was not empty, and into the cache of the process
\* all others ask for the key (restful_service.cc:66, 97, kv_proxy.cc:59).
RightCache ==
    /\ \A b \in Browser : Answer("InvalidArgument", None) \notin answers[b]
    /\ \A k \in Key : IF k \in LocalKey THEN ~Has(there, k) ELSE ~Has(here, k)

\* The object prepared for a request without key or value says "no key or
\* value" and carries kInvalidArgument (restful_service.cc:42-46): a browser
\* that forgot the key can tell that from an internal error.
NoKeyToldApart ==
    \A b \in Browser :
        stage[b] = "replied" /\ http[b].path \in CachePath /\ ~Complete(http[b])
            => body[b] = no_key_err

\* The processors answer 500 when the proxy could not serve the request
\* (restful_service.cc:76-77, 113-114): a status of 200 says that the request
\* was executed or was incomplete.
FailureIs500 ==
    \A b \in Browser :
        status[b] = 200 /\ Complete(http[b]) => body[b] \in answers[b]
-------------------------------------------------------------------------------
(***************************************************************************)
(* The HTTP interface seen by a browser that asks for a key: the same store *)
(* that executes at least once.  Requests the processors answer themselves *)
(* never get there, and a body without an execution is a failure.          *)
(***************************************************************************)
AsksCache(b) == stage[b] # "idle" /\ Complete(http[b])

AbsRequest == [b \in Browser |-> IF AsksCache(b) THEN KvRequestOf(http[b]) ELSE NoRequest]

AbsStore == [k \in Key |-> IF k \in LocalKey THEN here.val[k] ELSE there.val[k]]

AbsStatus ==
    [b \in Browser |->
        IF ~AsksCache(b) THEN "idle"
        ELSE IF stage[b] # "replied" THEN "waiting"
        ELSE IF body[b] = proto_conversion_err THEN "failed" ELSE "answered"]

AbsAnswer == [b \in Browser |-> IF AbsStatus[b] = "answered" THEN body[b] ELSE Unset]

Abstract == INSTANCE AtLeastOnceKv
    WITH Call <- Browser, request <- AbsRequest, store <- AbsStore,
         status <- AbsStatus, results <- answers, answer <- AbsAnswer,
         restarts <- 0

\* A set or get that reaches a cache is executed at least once for every answer
\* the browser reads, on the one value its key has in all processes, and an
\* evicted or missing key never shows as anything else (restful_service.cc:72-87,
\* 103-127): the promise the RPC clients of the cluster get.
AbstractSpec == Abstract!Spec
===============================================================================
