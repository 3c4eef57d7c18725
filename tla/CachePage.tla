------------------------------- MODULE CachePage -------------------------------
(***************************************************************************)
(* The web pages of the caches: HelloWorld.vue of a006-hala-vue and of       *)
(* a008-hala-kv, open in several tabs of a browser, and the windows SetKv   *)
(* and GetKv of a010-hala-kv.  A page has a key, a value and the code and   *)
(* message of an answer; a button sends a request made of the fields as     *)
(* they are, and the answer writes to the fields as they are by then.       *)
(* Nothing keeps the user from typing or clicking while a request is out,   *)
(* answers may overtake each other, a connection may fail before or after    *)
(* the server has worked, and a document may be reloaded at any time.        *)
(*                                                                         *)
(* A server is a cache, and what its threads do to each other is the       *)
(* subject of HalaCache.  That of a006 and of a008 works once on a request *)
(* before it answers; a process of a010 does so for the keys it serves      *)
(* itself and forwards the others to a peer, which may work on a request   *)
(* more than once and after it was answered, as in HalaCluster.  A process  *)
(* and its peers are one cache here.                                        *)
(***************************************************************************)
EXTENDS KvApi, FiniteSets

CONSTANTS
    Page,           \* the tabs, or the windows
    TypedKey,       \* what users type as a key
    TypedValue,     \* what they type as a value
    UrlKey,         \* UrlKey[k]: the key the server reads in ".../cache?key=" + k
    LocalKey,       \* the keys the processes of a010 that pages ask serve themselves
    FirstKey,       \* the key a page starts with
    FirstValue,     \* the value HelloWorld.vue starts with, or that is in SetKv
                    \* when the first request is made
    MaxRequests,    \* how many requests are made (a bound of the model)
    MaxRetried,     \* how many of them are retried (a bound of the model)
    MaxLost,        \* after how many that were rejected or are gone with their
                    \* document no connection fails any more and no document
                    \* with requests out is reloaded (a bound of the model)
    MaxTypings      \* how many fields the users change (a bound of the model)

ASSUME UrlKeyAssumption == UrlKey \in [TypedKey -> Key]
ASSUME LocalKeyAssumption == LocalKey \subseteq Key
ASSUME MaxTypingsAssumption == MaxTypings \in Nat
ASSUME MaxRequestsAssumption == MaxRequests \in Nat
ASSUME FirstAssumption == FirstKey \in TypedKey /\ FirstValue \in Value

VARIABLES
    kind,       \* kind[p]: the program p belongs to and, in a010, the window
    row,        \* row[p]: the fields of p, shown as the row of its table
    address,    \* address[p]: the server p asks
    xhr,        \* the requests of all pages (Axios)
    cache,      \* cache[a]: the cache of the server at address a
    answers,    \* answers[i]: what the executions of request i have answered
    retried,    \* retried[i]: the forward of i has given up an attempt, or the
                \* library has sent one again
    click,      \* click[p]: the last request of p in this document, or 0
    calm,       \* calm[p]: p had no request out at that click and its user has
                \* not typed a key or a value since
    seen,       \* seen[i]: what the cache held for the key of request i right
                \* after its executions
    past,       \* past[i]: the requests answered "Ok" before i was clicked
    typings     \* how many fields have been changed

\* The variables of the pages, and those of the servers.
pageVars == <<kind, row, address, click, calm, past, typings>>
serverVars == <<cache, answers, retried, seen>>

vars == <<xhr, pageVars, serverVars>>

INSTANCE Axios

ASSUME TypedValueAssumption == TypedValue \subseteq Value \cup {Empty}

\* The programs: tabs with the page of a006 or of a008, or the tabs of a010's
\* window, where SetKv and GetKv come together.
HelloWorld == {"a006", "a008"}
SetAndGet == {"SetKv", "GetKv"}
Programs ==
    {[p \in Page |-> k] : k \in HelloWorld}
    \cup {w \in [Page -> SetAndGet] : SetAndGet = {w[p] : p \in Page}}

\* The tab itself in a006 and a008; in a010 the windows are one document.
Document(p) == IF kind[p] \in HelloWorld THEN {p} ELSE Page

\* Two caches run the program the pages belong to; "elsewhere" is an address
\* where something else listens.
CacheServer == {"home", "other"}
Address == CacheServer \cup {"elsewhere"}

\* data() of the three components; the code 0 they start with is that of "Ok".
FirstRow(k) ==
    [key |-> FirstKey, value |-> IF k \in HelloWorld THEN FirstValue ELSE Empty,
     code |-> "Ok", msg |-> IF k \in HelloWorld THEN Empty ELSE "null"]

Init ==
    /\ kind \in Programs
    /\ row = [p \in Page |-> IF kind[p] = "SetKv"
                            THEN [FirstRow("SetKv") EXCEPT !.value = FirstValue]
                            ELSE FirstRow(kind[p])]
    /\ address = [p \in Page |-> "home"]
    /\ xhr = << >>
    /\ cache = [a \in CacheServer |-> EmptyCache]
    /\ answers = << >>
    /\ retried = << >>
    /\ click = [p \in Page |-> 0]
    /\ calm = [p \in Page |-> FALSE]
    /\ seen = << >>
    /\ past = << >>
    /\ typings = 0

OpenOf(p) == {i \in Made : xhr[i].owner = p /\ Open(i)}

MayLose ==
    Cardinality({i \in Made : xhr[i].outcome = "rejected" \/ xhr[i].request = "gone"}) < MaxLost

AnsweredOk(i) == xhr[i].outcome = "resolved" /\ xhr[i].reply.body.code = "Ok"
-------------------------------------------------------------------------------
(* The user. *)

Edit ==
    /\ typings < MaxTypings
    /\ typings' = typings + 1
    /\ UNCHANGED <<kind, xhr, click, past, serverVars>>

Type(p) ==
    /\ Edit
    /\ \/ \E k \in TypedKey \ {row[p].key} : row' = [row EXCEPT ![p].key = k]
       \/ /\ kind[p] # "GetKv"
          /\ \E v \in TypedValue \ {row[p].value} : row' = [row EXCEPT ![p].value = v]
    /\ calm' = [calm EXCEPT ![p] = FALSE]
    /\ UNCHANGED address

\* The page of a008 has a field "server"; the settings of a010 set the
\* backendAddr of all its windows.
TypeAddress(p) ==
    /\ Edit
    /\ kind[p] # "a006"
    /\ \E a \in Address \ {address[p]} :
          address' = [q \in Page |-> IF q \in Document(p) THEN a ELSE address[q]]
    /\ UNCHANGED <<row, calm>>

\* A button: the request carries the fields as they are at the click.
Click(p, method, data) ==
    /\ Send(p, [method |-> method, address |-> address[p],
                key |-> row[p].key, data |-> data])
    /\ click' = [click EXCEPT ![p] = Len(xhr) + 1]
    /\ calm' = [calm EXCEPT ![p] = OpenOf(p) = {}]
    /\ past' = Append(past, {i \in Made : AnsweredOk(i)})
    /\ answers' = Append(answers, {})
    /\ retried' = Append(retried, FALSE)
    /\ seen' = Append(seen, {})
    /\ UNCHANGED <<kind, row, address, cache, typings>>

get_cache_value(p) == kind[p] # "SetKv" /\ Click(p, "get", Undefined)

set_cache_value(p) == kind[p] # "GetKv" /\ Click(p, "post", row[p].value)

\* The fields start again and the requests of the document are gone.
Reload(p) ==
    LET gone == Document(p)
    IN  /\ MayLose \/ \A q \in gone : OpenOf(q) = {}
        /\ row' = [q \in Page |-> IF q \in gone THEN FirstRow(kind[q]) ELSE row[q]]
        /\ address' = [q \in Page |-> IF q \in gone THEN "home" ELSE address[q]]
        /\ click' = [q \in Page |-> IF q \in gone THEN 0 ELSE click[q]]
        /\ calm' = [q \in Page |-> IF q \in gone THEN FALSE ELSE calm[q]]
        /\ Unload(UNION {OpenOf(q) : q \in gone})
        /\ UNCHANGED <<kind, past, typings, serverVars>>
-------------------------------------------------------------------------------
(* The servers. *)

\* The KvRequest of an HTTP request; an empty body is no value.
KvRequestOf(config) ==
    IF config.method = "get"
    THEN [op |-> "get", key |-> UrlKey[config.key], value |-> None]
    ELSE [op |-> "put", key |-> UrlKey[config.key],
          value |-> IF BodySent(config.data) = Empty THEN None
                    ELSE BodySent(config.data)]

\* The bodies of a006: msg, and an empty value where there is none.
BodyOfA006(answer) ==
    Body(answer.code, answer.code, Undefined,
         IF answer.value = None THEN Empty ELSE answer.value)

\* The KvResponse of a008 and a010 as JSON: message, and no value where there
\* is none.
BodyOfKvResponse(answer) ==
    Body(answer.code, Undefined, answer.code,
         IF answer.value = None THEN Undefined ELSE answer.value)

\* get_proto_conversion_err, which get_nokey_err returns too
ConversionError == Body("Internal", "Internal", Undefined, Empty)

\* The body of an answer, by the program.
BodyOf(k, answer) == IF k = "a006" THEN BodyOfA006(answer) ELSE BodyOfKvResponse(answer)

\* How request i is dealt with: a set without a value is refused by a008 and
\* a010 before it is a KvRequest; a010 forwards what is not local.
Asked(i) == KvRequestOf(xhr[i].config)
ToCache(i) == xhr[i].config.address \in CacheServer
Program(i) == kind[xhr[i].owner]
Incomplete(i) == Program(i) # "a006" /\ Asked(i).op = "put" /\ Asked(i).value = None
Forwarded(i) == Program(i) \notin HelloWorld /\ ~Incomplete(i) /\ Asked(i).key \notin LocalKey

\* The cache request i was sent to executes it.
Execute(i) ==
    LET a == xhr[i].config.address
        r == Asked(i)
        c == Effect(cache[a], r)
    IN  /\ cache' = [cache EXCEPT ![a] = c]
        /\ answers' = [answers EXCEPT ![i] = @ \cup {Reply(cache[a], r)}]
        /\ seen' = [seen EXCEPT ![i] = @ \cup {c.val[r.key]}]

Refuse(i) ==
    /\ ToCache(i) /\ Incomplete(i)
    /\ Arrive(i, HttpReply(200, ConversionError))
    /\ UNCHANGED <<pageVars, serverVars>>

\* An execution and its answer: CacheService::process; in a010 the processors,
\* with the local cache or with an attempt of the forward whose answer is in
\* time.  What this answer meets on its way from the peer it can meet on its way
\* to the page.
Serve(i) ==
    /\ ToCache(i) /\ ~Incomplete(i)
    /\ Arrive(i, HttpReply(200, BodyOf(Program(i), Reply(cache[xhr[i].config.address], Asked(i)))))
    /\ Execute(i)
    /\ UNCHANGED <<retried, pageVars>>

\* The loop of send_request gives an attempt up, or the library sends it again.
Retry(i) ==
    /\ ToCache(i) /\ Forwarded(i)
    /\ xhr[i].net = "travelling"
    /\ ~retried[i] /\ Cardinality({j \in Made : retried[j]}) < MaxRetried
    /\ retried' = [retried EXCEPT ![i] = TRUE]
    /\ UNCHANGED <<xhr, cache, answers, seen, pageVars>>

\* An attempt whose answer nobody waits for reaches the peer all the same,
\* before the next one or at any time after it.
LateExecution(i) ==
    /\ retried[i]
    /\ Execute(i)
    /\ UNCHANGED <<xhr, retried, pageVars>>

\* Mutant of UnsetBody: a KvResponse nobody has filled in is written with the
\* defaults of its fields, and the default of the code is 0.
UnsetBodyWithDefaults == Body("Ok", Undefined, Empty, Undefined)

\* What ProtoMessageToJson leaves of a KvResponse nobody has filled in.
UnsetBody == ConversionError

\* All attempts are given up.
ForwardFails(i) ==
    /\ retried[i]
    /\ Arrive(i, HttpReply(200, UnsetBody))
    /\ UNCHANGED <<pageVars, serverVars>>

\* What something else answers: that there is no such path, with a page, or
\* with JSON that has a code of its own, which the pages read like a cache's.
ForeignReply ==
    {HttpReply(404, Text), HttpReply(200, Text),
     HttpReply(200, Body("Ok", Undefined, Undefined, Undefined))}

ServeElsewhere(i) ==
    /\ ~ToCache(i)
    /\ \E reply \in ForeignReply : Arrive(i, reply)
    /\ UNCHANGED <<pageVars, serverVars>>
-------------------------------------------------------------------------------
(* The handlers of the pages. *)

MessageOf(k, body) == IF k = "a006" THEN body.msg ELSE body.message

\* Mutant of Shown: a page keeps the value it shows when the key is not there
\* and forgets to show that.
ShownUnlessMissing(k, fields, method, body) ==
    IF body.code = "NotFound" THEN fields
    ELSE [key |-> fields.key,
          value |-> IF method = "get" THEN body.value ELSE fields.value,
          code |-> body.code, msg |-> MessageOf(k, body)]

\* The handler given to then: a get of HelloWorld.vue always writes the value,
\* that of GetKv only when the key was there.
Shown(k, fields, method, body) ==
    [key   |-> fields.key,
     value |-> IF method = "get" /\ (k \in HelloWorld \/ body.code = "Ok")
               THEN body.value ELSE fields.value,
     code  |-> body.code,
     msg   |-> MessageOf(k, body)]

\* A rejected promise changes no field: HelloWorld.vue has no handler for it,
\* SetKv and GetKv have one that notifies the user.
Answered(i) ==
    LET p == xhr[i].owner
    IN  /\ LoadEnd(i)
        /\ row' = IF Settle(xhr[i].reply) = "resolved"
                  THEN [row EXCEPT ![p] = Shown(kind[p], @, xhr[i].config.method,
                                                xhr[i].reply.body)]
                  ELSE row
        /\ UNCHANGED <<kind, address, click, calm, past, typings, serverVars>>

Failed(i) ==
    /\ MayLose
    /\ HandleError(i)
    /\ UNCHANGED <<pageVars, serverVars>>

Next ==
    \/ \E p \in Page : \/ Type(p) \/ TypeAddress(p)
                       \/ get_cache_value(p) \/ set_cache_value(p)
                       \/ Reload(p)
    \/ \E i \in Made : \/ Serve(i) \/ Refuse(i) \/ ServeElsewhere(i)
                       \/ Retry(i) \/ LateExecution(i) \/ ForwardFails(i)
                       \/ Answered(i) \/ Failed(i)

Spec == Init /\ [][Next]_vars
-------------------------------------------------------------------------------
\* The text of a field, and of the code or message of an answer.
FieldText == Value \cup {Empty, Undefined}
AnswerText == Code \cup {"Internal", "null", Empty, Undefined}

XmlHttpRequest ==
    [owner  : Page,
     config : [method : {"get", "post"}, address : Address, key : TypedKey,
               data : FieldText],
     net    : {"travelling", "answered"},
     reply  : [status : {0, 200, 404},
               body : [code : AnswerText, msg : AnswerText, message : AnswerText,
                       value : FieldText]],
     request : {"open", "null", "gone"},
     outcome : {"pending", "resolved", "rejected"}]

\* The values of the variables.  In particular a cache never holds what a page
\* shows for a key that is not there, although a page sends it back when its
\* user sets that key.
TypeOK ==
    /\ kind \in Programs
    /\ row \in [Page -> [key : TypedKey, value : FieldText,
                        code : AnswerText, msg : AnswerText]]
    /\ address \in [Page -> Address]
    /\ xhr \in Seq(XmlHttpRequest)
    /\ cache \in [CacheServer -> Cache] /\ \A a \in CacheServer : WellFormed(cache[a])
    /\ answers \in Seq(SUBSET Response) /\ Len(answers) = Len(xhr)
    /\ retried \in Seq(BOOLEAN) /\ Len(retried) = Len(xhr)
    /\ click \in [Page -> Made \cup {0}]
    /\ calm \in [Page -> BOOLEAN]
    /\ seen \in Seq(SUBSET (Value \cup {None})) /\ Len(seen) = Len(xhr)
    /\ past \in Seq(SUBSET Made) /\ Len(past) = Len(xhr)
    /\ typings \in 0 .. MaxTypings

\* What the row of a page says was so.  When the user has waited for the
\* answers of a page and typed no key or value since the last click, and a cache
\* has answered that click, a row with code 0 shows a value which this cache
\* held for this key right after an execution of that click, whether it was a
\* get or a set; a row with "not found" shows a key that was not there.  A
\* failed click before it, a reload, another address, the other tabs, attempts
\* that are repeated and requests that are still on their way from before do
\* not spoil the row (HelloWorld.vue:22-36, 55-69).
RowIsTrue ==
    \A p \in Page :
        LET i == click[p]
        IN  (calm[p] /\ i # 0) =>
                (xhr[i].outcome = "resolved" /\ ToCache(i) =>
                    /\ row[p].code = "Ok" => row[p].value \in seen[i]
                    /\ row[p].code = "NotFound" => None \in seen[i]
                    /\ row[p].key = xhr[i].config.key)

\* A set that a cache reports as done was done: code 0, which SetKv announces
\* as a success, means that the cache has stored the value the user sent,
\* however the forward, the connection or the page have failed in between
\* (HelloWorld.vue:64-68; restful_service.cc:82-87 in a010).
OkWasDone ==
    \A i \in Made :
        AnsweredOk(i) /\ xhr[i].config.method = "post" /\ ToCache(i) =>
            BodySent(xhr[i].config.data) \in seen[i]

AllFit == IsFiniteSet(Key) /\ Cardinality(Key) <= Capacity

\* The sets of the key and at the cache of request i.
SetsLike(i) ==
    {j \in Made : /\ xhr[j].config.method = "post"
                  /\ xhr[j].config.address = xhr[i].config.address
                  /\ Asked(j).key = Asked(i).key}

\* No tab reads the past, but what a retry brings back.  A get that a cache has
\* answered reads the value of some set of its key at this cache, and either no
\* other set was both begun after that one was reported as done and reported as
\* done before the get was clicked, or the forward of that one was retried, so
\* that an attempt of it may come late (router_sender.h:94-119).  Once a
\* set has been reported as done, the key is found.  Sets that failed or whose
\* tab is gone may still arrive at any time (the container has room for all
\* keys here, so that nothing is evicted).
RegularRead ==
    \A i \in Made :
        (xhr[i].config.method = "get" /\ xhr[i].outcome = "resolved" /\ ToCache(i) /\ AllFit) =>
            /\ xhr[i].reply.body.code = "Ok" =>
                  \E j \in SetsLike(i) :
                      /\ BodySent(xhr[j].config.data) = xhr[i].reply.body.value
                      /\ seen[j] # {}
                      /\ retried[j] \/ ~ \E l \in SetsLike(i) \cap past[i] : j \in past[l]
            /\ xhr[i].reply.body.code = "NotFound" => SetsLike(i) \cap past[i] = {}
===============================================================================
