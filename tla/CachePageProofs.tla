---------------------------- MODULE CachePageProofs ----------------------------
(***************************************************************************)
(* The pages are true for any number of tabs, windows, keys, values and     *)
(* requests, whatever fails, comes late, is repeated or is overtaken: the    *)
(* row a page shows was so, a set that is reported as done was done, and no *)
(* get reads the past, except what a retried set has brought back.           *)
(***************************************************************************)
EXTENDS CachePage, LruCacheProofs

Method(i) == xhr[i].config.method
At(i) == xhr[i].config.address
Sent(i) == BodySent(xhr[i].config.data)
BodyAt(i) == xhr[i].reply.body

\* Request i is a set of key k for the cache at address a, or one that this
\* cache has stored.
SetAt(i, a, k) == Method(i) = "post" /\ At(i) = a /\ Asked(i).key = k
StoredSet(i) == Method(i) = "post" /\ Sent(i) # Empty /\ seen[i] # {}
StoredAt(i, a, k) == StoredSet(i) /\ SetAt(i, a, k)

\* The value of the stored set j of k at a may be there although the sets in L
\* were begun: none of them was begun after j was reported as done, or an
\* attempt of j may still come.
Stands(j, L, a, k) == retried[j] \/ \A l \in L : SetAt(l, a, k) => j \notin past[l]

\* The answer the body of request i tells.
AnswerIn(i) ==
    Answer(BodyAt(i).code,
           IF Method(i) = "get" /\ BodyAt(i).code = "Ok" THEN BodyAt(i).value ELSE None)

\* What a request knows of itself: it is pending as long as it is open, was
\* settled by its answer, only reaches a cache at the address of one, and its
\* answer tells what an execution did.
RequestInv ==
    \A i \in Made :
        /\ Open(i) => xhr[i].outcome = "pending"
        /\ xhr[i].outcome = "resolved" => xhr[i].net = "answered"
        /\ retried[i] \/ seen[i] # {} => ToCache(i)
        /\ Method(i) = "post" /\ Sent(i) # Empty => seen[i] \subseteq {Sent(i)}
        /\ xhr[i].net = "answered" /\ ToCache(i) =>
            /\ BodyAt(i).code \in Code => AnswerIn(i) \in answers[i]
            /\ BodyAt(i).code = "Ok" /\ Method(i) = "post" => StoredSet(i)
            /\ BodyAt(i).code = "Ok" /\ Method(i) = "get" =>
                BodyAt(i).value \in seen[i] \ {None}
            /\ BodyAt(i).code = "NotFound" => Method(i) = "get" /\ None \in seen[i]

\* The row of a page whose user waits for the answer to the last click.
RowInv ==
    \A p \in Page :
        LET i == click[p]
        IN  calm[p] /\ i # 0 =>
              /\ OpenOf(p) \subseteq {i}
              /\ xhr[i].owner = p
              /\ row[p].key = xhr[i].config.key
              /\ Open(i) /\ Method(i) = "post" => row[p].value = xhr[i].config.data
              /\ xhr[i].outcome = "resolved" /\ ToCache(i) =>
                    /\ row[p].code = "Ok" => row[p].value \in seen[i]
                    /\ row[p].code = "NotFound" => None \in seen[i]

\* What a cache holds was stored by a set which, unless it was retried, is not
\* older than any other stored set; and where there is room for all keys nothing
\* stored is lost.
CacheInv ==
    /\ \A i \in Made : past[i] \subseteq {j \in Made : AnsweredOk(j)}
    /\ \A a \in CacheServer, k \in Key : Has(cache[a], k) =>
        \E j \in Made :
            /\ StoredAt(j, a, k) /\ Sent(j) = cache[a].val[k]
            /\ Stands(j, {l \in Made : StoredSet(l)}, a, k)
    /\ AllFit => \A j \in Made : StoredSet(j) => Has(cache[At(j)], Asked(j).key)

\* What the executions of a get have found.
ReadInv ==
    AllFit => \A i \in Made : Method(i) = "get" =>
        /\ \A v \in seen[i] \ {None} :
              \E j \in Made : /\ StoredAt(j, At(i), Asked(i).key) /\ Sent(j) = v
                              /\ Stands(j, past[i], At(i), Asked(i).key)
        /\ None \in seen[i] => \A l \in past[i] : ~SetAt(l, At(i), Asked(i).key)

PageInv == TypeOK /\ RequestInv /\ RowInv /\ CacheInv /\ ReadInv
-------------------------------------------------------------------------------
\* A sequence after one of its elements was replaced.
LEMMA ReplaceElement ==
    ASSUME NEW S, NEW s \in Seq(S), NEW i \in DOMAIN s, NEW e \in S
    PROVE  /\ [s EXCEPT ![i] = e] \in Seq(S)
           /\ Len([s EXCEPT ![i] = e]) = Len(s)
           /\ DOMAIN [s EXCEPT ![i] = e] = DOMAIN s
  OBVIOUS

\* A sequence after an element was added.
LEMMA AppendElement ==
    ASSUME NEW S, NEW s \in Seq(S), NEW e \in S, NEW i \in 1 .. Len(s)
    PROVE  Append(s, e)[i] = s[i]
  OBVIOUS

AnyBody == [code : AnswerText, msg : AnswerText, message : AnswerText, value : FieldText]
AnyReply == [status : {0, 200, 404}, body : AnyBody]

AnyConfig == [method : {"get", "post"}, address : Address, key : TypedKey, data : FieldText]

Row == [key : TypedKey, value : FieldText, code : AnswerText, msg : AnswerText]

\* The shape of a request, without that of its parts.
LEMMA RequestShape ==
    XmlHttpRequest =
        [owner : Page, config : AnyConfig, net : {"travelling", "answered"},
         reply : AnyReply, request : {"open", "null", "gone"},
         outcome : {"pending", "resolved", "rejected"}]
BY DEF XmlHttpRequest, AnyConfig, AnyReply, AnyBody

\* The parts of a request are what they are said to be.
LEMMA RequestTypes ==
    ASSUME TypeOK, NEW i \in Made
    PROVE  /\ xhr[i] \in XmlHttpRequest
           /\ Made = 1 .. Len(xhr) /\ Len(xhr) \in Nat
           /\ DOMAIN seen = Made /\ DOMAIN past = Made
           /\ DOMAIN answers = Made /\ DOMAIN retried = Made
           /\ seen[i] \in SUBSET (Value \cup {None}) /\ past[i] \in SUBSET Made
           /\ answers[i] \in SUBSET Response /\ retried[i] \in BOOLEAN
           /\ xhr[i].owner \in Page
           /\ Method(i) \in {"get", "post"}
           /\ Asked(i) \in Request
           /\ Asked(i).op = IF Method(i) = "get" THEN "get" ELSE "put"
           /\ Asked(i).key \in Key
           /\ Method(i) = "post" =>
                Asked(i).value = IF Sent(i) = Empty THEN None ELSE Sent(i)
           /\ Method(i) = "post" /\ Sent(i) # Empty => Sent(i) \in Value
<1>1. /\ xhr[i] \in XmlHttpRequest
      /\ Made = 1 .. Len(xhr) /\ Len(xhr) \in Nat
      /\ DOMAIN seen = Made /\ DOMAIN past = Made
      /\ DOMAIN answers = Made /\ DOMAIN retried = Made
  BY DEF TypeOK, Made
<1>2. /\ seen[i] \in SUBSET (Value \cup {None}) /\ past[i] \in SUBSET Made
      /\ answers[i] \in SUBSET Response /\ retried[i] \in BOOLEAN
  BY <1>1 DEF TypeOK
<1>3. /\ xhr[i].owner \in Page /\ Method(i) \in {"get", "post"}
      /\ xhr[i].config.key \in TypedKey
      /\ xhr[i].config.data \in FieldText
  BY <1>1 DEF XmlHttpRequest, Method
<1>4. Sent(i) # Empty => Sent(i) \in Value
  BY <1>3 DEF Sent, BodySent, FieldText
<1>5. UrlKey[xhr[i].config.key] \in Key
  BY <1>3, UrlKeyAssumption
<1> QED BY <1>1, <1>2, <1>3, <1>4, <1>5 DEF Asked, KvRequestOf, Method, Sent, Request

\* What a request asks for depends on what was sent.
LEMMA SameConfig ==
    ASSUME NEW i, xhr'[i].config = xhr[i].config
    PROVE  /\ Method(i)' = Method(i) /\ At(i)' = At(i) /\ Sent(i)' = Sent(i)
           /\ Asked(i)' = Asked(i) /\ ToCache(i)' = ToCache(i)
           /\ \A a, k : SetAt(i, a, k)' <=> SetAt(i, a, k)
BY DEF Method, At, Sent, Asked, ToCache, SetAt

\* A step that executes nothing keeps what is known of the requests, of the
\* caches and of the reads: answered requests stay answered, retried ones
\* retried, and a new answer of a cache has none of its codes.
LEMMA QuietStep ==
    ASSUME PageInv, Made' = Made, UNCHANGED <<cache, answers, seen, past>>,
           \A i \in Made :
              /\ xhr'[i].config = xhr[i].config
              /\ xhr[i].net = "answered" =>
                    xhr'[i].net = "answered" /\ xhr'[i].reply = xhr[i].reply
              /\ xhr[i].net # "answered" /\ xhr'[i].net = "answered" /\ ToCache(i) =>
                    xhr'[i].reply.body.code \notin Code
              /\ xhr[i].outcome = "resolved" => xhr'[i].outcome = "resolved"
              /\ xhr'[i].outcome = "resolved" => xhr'[i].net = "answered"
              /\ xhr'[i].request = "open" => xhr'[i].outcome = "pending"
              /\ retried[i] => retried'[i]
              /\ retried'[i] => ToCache(i)
    PROVE  RequestInv' /\ CacheInv' /\ ReadInv'
<1>1. \A i \in Made :
        /\ Method(i)' = Method(i) /\ At(i)' = At(i) /\ Sent(i)' = Sent(i)
        /\ Asked(i)' = Asked(i) /\ ToCache(i)' = ToCache(i)
        /\ \A a, k : SetAt(i, a, k)' <=> SetAt(i, a, k)
  BY SameConfig
<1>2. \A i \in Made : /\ StoredSet(i)' <=> StoredSet(i)
                      /\ \A a, k : StoredAt(i, a, k)' <=> StoredAt(i, a, k)
  BY <1>1 DEF StoredSet, StoredAt
<1>3. \A i \in Made : AnsweredOk(i) => AnsweredOk(i)'
  BY DEF PageInv, RequestInv, AnsweredOk
<1>4. \A i \in Made : past[i] \subseteq Made
  BY RequestTypes DEF PageInv
<1>5. \A j \in Made : \A a, k : \A L \in SUBSET Made :
        Stands(j, L, a, k) => Stands(j, L, a, k)'
  BY <1>1 DEF Stands
<1>6. RequestInv'
  <2> SUFFICES ASSUME NEW i \in Made
               PROVE  /\ Open(i)' => xhr'[i].outcome = "pending"
                      /\ xhr'[i].outcome = "resolved" => xhr'[i].net = "answered"
                      /\ retried'[i] \/ seen[i] # {} => ToCache(i)
                      /\ Method(i) = "post" /\ Sent(i) # Empty => seen[i] \subseteq {Sent(i)}
                      /\ xhr'[i].net = "answered" /\ ToCache(i) =>
                          /\ BodyAt(i)'.code \in Code => AnswerIn(i)' \in answers[i]
                          /\ BodyAt(i)'.code = "Ok" /\ Method(i) = "post" => StoredSet(i)
                          /\ BodyAt(i)'.code = "Ok" /\ Method(i) = "get" =>
                              BodyAt(i)'.value \in seen[i] \ {None}
                          /\ BodyAt(i)'.code = "NotFound" =>
                              Method(i) = "get" /\ None \in seen[i]
    BY <1>1, <1>2 DEF RequestInv
  <2>1. CASE xhr[i].net = "answered"
    <3>1. BodyAt(i)' = BodyAt(i) /\ AnswerIn(i)' = AnswerIn(i)
      BY <1>1, <2>1 DEF BodyAt, AnswerIn
    <3> QED BY <2>1, <3>1 DEF PageInv, RequestInv, Open
  <2>2. CASE xhr[i].net # "answered"
    BY <2>2 DEF PageInv, RequestInv, Open, BodyAt, Code
  <2> QED BY <2>1, <2>2
<1>7. CacheInv'
  <2>1. \A i \in Made : past[i] \subseteq {j \in Made : AnsweredOk(j)'}
    BY <1>3 DEF PageInv, CacheInv
  <2>2. ASSUME NEW a \in CacheServer, NEW k \in Key, Has(cache[a], k)
        PROVE  \E j \in Made : /\ StoredAt(j, a, k)' /\ Sent(j)' = cache[a].val[k]
                               /\ Stands(j, {l \in Made : StoredSet(l)}, a, k)'
    <3>1. PICK j \in Made : /\ StoredAt(j, a, k) /\ Sent(j) = cache[a].val[k]
                            /\ Stands(j, {l \in Made : StoredSet(l)}, a, k)
      BY <2>2 DEF PageInv, CacheInv
    <3>2. Stands(j, {l \in Made : StoredSet(l)}, a, k)'
      BY <1>1, <1>2, <3>1 DEF Stands
    <3> QED BY <1>1, <1>2, <3>1, <3>2
  <2>3. AllFit => \A j \in Made : StoredSet(j)' => Has(cache[At(j)'], Asked(j)'.key)
    BY <1>1, <1>2 DEF PageInv, CacheInv
  <2>4. AllFit' = AllFit
    BY DEF AllFit
  <2> QED BY <2>1, <2>2, <2>3, <2>4 DEF CacheInv
<1>8. ReadInv'
  <2>1. ASSUME AllFit, NEW i \in Made, Method(i) = "get"
        PROVE  /\ \A v \in seen[i] \ {None} :
                     \E j \in Made : /\ StoredAt(j, At(i), Asked(i).key)' /\ Sent(j)' = v
                                     /\ Stands(j, past[i], At(i), Asked(i).key)'
               /\ None \in seen[i] => \A l \in past[i] : ~SetAt(l, At(i), Asked(i).key)'
    <3>1. /\ \A v \in seen[i] \ {None} :
                \E j \in Made : /\ StoredAt(j, At(i), Asked(i).key) /\ Sent(j) = v
                                /\ Stands(j, past[i], At(i), Asked(i).key)
          /\ None \in seen[i] => \A l \in past[i] : ~SetAt(l, At(i), Asked(i).key)
      BY <2>1 DEF PageInv, ReadInv
    <3>2. \A j \in Made : Stands(j, past[i], At(i), Asked(i).key) =>
                             Stands(j, past[i], At(i), Asked(i).key)'
      BY <1>1, <1>4 DEF Stands
    <3> QED BY <1>1, <1>2, <1>4, <3>1, <3>2
  <2>2. AllFit' = AllFit
    BY DEF AllFit
  <2> QED BY <1>1, <2>1, <2>2 DEF ReadInv
<1> QED BY <1>6, <1>7, <1>8

\* Typing changes a field of one page, which is not calm any more if it is not
\* that of the server.
LEMMA TypePage ==
    ASSUME PageInv, NEW p \in Page, Type(p) \/ TypeAddress(p) PROVE PageInv'
<1>1. /\ typings < MaxTypings /\ typings' = typings + 1
      /\ UNCHANGED <<kind, xhr, cache, answers, retried, click, seen, past>>
      /\ calm' \in [Page -> BOOLEAN]
      /\ \A q \in Page : calm'[q] => calm[q] /\ row'[q] = row[q]
  BY DEF Type, TypeAddress, Edit, PageInv, TypeOK, serverVars
<1>2. row' \in [Page -> Row]
  <2>1. row \in [Page -> Row]
    BY DEF PageInv, TypeOK, Row
  <2>2. CASE Type(p)
    <3>1. CASE \E k \in TypedKey \ {row[p].key} : row' = [row EXCEPT ![p].key = k]
      BY <2>1, <3>1 DEF Row
    <3>2. CASE \E v \in TypedValue \ {row[p].value} : row' = [row EXCEPT ![p].value = v]
      BY <2>1, <3>2, TypedValueAssumption DEF FieldText, Row
    <3> QED BY <2>2, <3>1, <3>2 DEF Type
  <2>3. CASE TypeAddress(p)
    BY <2>1, <2>3 DEF TypeAddress
  <2> QED BY <2>2, <2>3
<1>3. address' \in [Page -> Address]
  BY DEF Type, TypeAddress, PageInv, TypeOK
<1>4. TypeOK'
  <2>1. typings' \in 0 .. MaxTypings
    BY <1>1, MaxTypingsAssumption DEF PageInv, TypeOK
  <2> QED BY <1>1, <1>2, <1>3, <2>1 DEF PageInv, TypeOK, Made, Row
<1>5. RowInv'
  BY <1>1 DEF PageInv, RowInv, OpenOf, Open, Made, Method, ToCache
<1>6. RequestInv' /\ CacheInv' /\ ReadInv'
  <2>1. \A i \in Made : xhr[i].net \in {"travelling", "answered"}
    BY RequestTypes DEF PageInv, XmlHttpRequest
  <2> QED BY <1>1, <2>1, QuietStep DEF PageInv, RequestInv, Made, Open
<1> QED BY <1>4, <1>5, <1>6 DEF PageInv

\* A request comes to its end without a change of the row: the connection failed.
LEMMA FailedPage == ASSUME PageInv, NEW i \in Made, Failed(i) PROVE PageInv'
<1> DEFINE e == [xhr[i] EXCEPT !.request = "null", !.outcome = "rejected"]
<1>1. /\ xhr' = [xhr EXCEPT ![i] = e] /\ Open(i)
      /\ UNCHANGED <<kind, row, address, cache, answers, retried, click, calm, seen, past,
                     typings>>
  BY DEF Failed, HandleError, pageVars, serverVars
<1>2. /\ e \in XmlHttpRequest /\ e.config = xhr[i].config /\ e.net = xhr[i].net
      /\ e.reply = xhr[i].reply /\ e.request = "null" /\ e.outcome = "rejected"
  <2>1. xhr[i] \in XmlHttpRequest
    BY RequestTypes DEF PageInv
  <2> QED BY <2>1, RequestShape
<1>3. xhr' \in Seq(XmlHttpRequest) /\ Len(xhr') = Len(xhr) /\ Made' = Made
  BY <1>1, <1>2, ReplaceElement DEF PageInv, TypeOK, Made
<1>4. TypeOK'
  BY <1>1, <1>3 DEF PageInv, TypeOK
<1>5. RequestInv' /\ CacheInv' /\ ReadInv'
  <2>1. \A j \in Made : xhr'[j] = IF j = i THEN e ELSE xhr[j]
    BY <1>1 DEF PageInv, TypeOK, Made
  <2>2. xhr[i].outcome = "pending"
    BY <1>1 DEF PageInv, RequestInv
  <2> HIDE DEF e
  <2> QED BY <1>1, <1>2, <1>3, <2>1, <2>2, QuietStep DEF PageInv, RequestInv, Open
<1>6. RowInv'
  BY <1>1, <1>3 DEF PageInv, TypeOK, RowInv, OpenOf, Open, Method, ToCache
<1> QED BY <1>4, <1>5, <1>6 DEF PageInv

\* A request that is answered without an execution.
LEMMA NotExecutedPage ==
    ASSUME PageInv, NEW i \in Made, NEW status \in {200, 404},
           NEW body \in AnyBody,
           ToCache(i) => body.code \notin Code,
           Arrive(i, HttpReply(status, body)),
           UNCHANGED <<pageVars, serverVars>>
    PROVE  PageInv'
<1> DEFINE h == HttpReply(status, body)
           e == [xhr[i] EXCEPT !.net = "answered", !.reply = h]
<1>0. h \in AnyReply /\ h.body = body
  BY DEF HttpReply, AnyReply
<1>1. /\ xhr' = [xhr EXCEPT ![i] = e] /\ xhr[i].net = "travelling"
      /\ UNCHANGED <<kind, row, address, cache, answers, retried, click, calm, seen, past,
                     typings>>
  BY DEF Arrive, pageVars, serverVars
<1> HIDE DEF h
<1>2. /\ e \in XmlHttpRequest /\ e.reply.body = body /\ e.net = "answered"
      /\ e.config = xhr[i].config /\ e.request = xhr[i].request
      /\ e.outcome = xhr[i].outcome /\ e.owner = xhr[i].owner
  <2>1. xhr[i] \in XmlHttpRequest
    BY RequestTypes DEF PageInv
  <2>2. /\ e \in XmlHttpRequest /\ e.reply = h /\ e.net = "answered"
        /\ e.config = xhr[i].config /\ e.request = xhr[i].request
        /\ e.outcome = xhr[i].outcome /\ e.owner = xhr[i].owner
    BY <1>0, <2>1, RequestShape
  <2> QED BY <1>0, <2>2
<1>3. xhr' \in Seq(XmlHttpRequest) /\ Len(xhr') = Len(xhr) /\ Made' = Made
  BY <1>1, <1>2, ReplaceElement DEF PageInv, TypeOK, Made
<1>4. TypeOK'
  BY <1>1, <1>3 DEF PageInv, TypeOK
<1>5. \A j \in Made : xhr'[j] = IF j = i THEN e ELSE xhr[j]
  BY <1>1 DEF PageInv, TypeOK, Made
<1> HIDE DEF e
<1>6. RequestInv' /\ CacheInv' /\ ReadInv'
  BY <1>1, <1>2, <1>3, <1>5, QuietStep DEF PageInv, RequestInv, Open
<1>7. RowInv'
  <2>1. \A j \in Made : /\ xhr'[j].config = xhr[j].config /\ xhr'[j].owner = xhr[j].owner
                        /\ xhr'[j].request = xhr[j].request
                        /\ xhr'[j].outcome = xhr[j].outcome
    BY <1>2, <1>5
  <2>2. \A q \in Page : click[q] \in Made \cup {0}
    BY DEF PageInv, TypeOK
  <2>3. \A q \in Page : OpenOf(q)' = OpenOf(q)
    BY <1>3, <2>1 DEF OpenOf, Open
  <2> QED BY <1>1, <2>1, <2>2, <2>3 DEF PageInv, RowInv, Open, Method, ToCache
<1> QED BY <1>4, <1>6, <1>7 DEF PageInv

\* An attempt of a forward is given up or sent again.
LEMMA RetryPage == ASSUME PageInv, NEW i \in Made, Retry(i) PROVE PageInv'
<1>1. /\ ToCache(i) /\ retried' = [retried EXCEPT ![i] = TRUE]
      /\ UNCHANGED <<xhr, kind, row, address, cache, answers, click, calm, seen, past, typings>>
  BY DEF Retry, pageVars
<1>2. /\ retried \in Seq(BOOLEAN) /\ DOMAIN retried = Made
      /\ \A j \in Made : xhr[j].net \in {"travelling", "answered"}
  BY RequestTypes DEF PageInv, TypeOK, XmlHttpRequest
<1>3. retried' \in Seq(BOOLEAN) /\ Len(retried') = Len(retried)
  BY <1>1, <1>2, ReplaceElement
<1>4. \A j \in Made : retried'[j] <=> retried[j] \/ j = i
  BY <1>1, <1>2
<1>5. TypeOK'
  BY <1>1, <1>3 DEF PageInv, TypeOK, Made
<1>6. RequestInv' /\ CacheInv' /\ ReadInv'
  BY <1>1, <1>2, <1>4, QuietStep DEF PageInv, RequestInv, Made, Open
<1>7. RowInv'
  BY <1>1 DEF PageInv, RowInv, OpenOf, Open, Made, Method, ToCache
<1> QED BY <1>5, <1>6, <1>7 DEF PageInv

\* The document of some pages is loaded again: their rows start again, and
\* nobody waits for what they have asked.
LEMMA ReloadPage == ASSUME PageInv, NEW p \in Page, Reload(p) PROVE PageInv'
<1> DEFINE gone == Document(p)
           out == UNION {OpenOf(q) : q \in gone}
<1>1. /\ xhr' = [i \in Made |-> IF i \in out /\ Open(i)
                               THEN [xhr[i] EXCEPT !.request = "gone"] ELSE xhr[i]]
      /\ row' = [q \in Page |-> IF q \in gone THEN FirstRow(kind[q]) ELSE row[q]]
      /\ address' = [q \in Page |-> IF q \in gone THEN "home" ELSE address[q]]
      /\ click' = [q \in Page |-> IF q \in gone THEN 0 ELSE click[q]]
      /\ calm' = [q \in Page |-> IF q \in gone THEN FALSE ELSE calm[q]]
      /\ UNCHANGED <<kind, cache, answers, retried, seen, past, typings>>
  BY DEF Reload, Unload, serverVars
<1> HIDE DEF gone, out
<1>2. \A i \in Made : xhr'[i] \in XmlHttpRequest
  <2> TAKE i \in Made
  <2>1. xhr[i] \in XmlHttpRequest
    BY RequestTypes DEF PageInv
  <2> QED BY <1>1, <2>1, RequestShape
<1>3. xhr' \in Seq(XmlHttpRequest) /\ Len(xhr') = Len(xhr) /\ Made' = Made
  <2>1. Made = 1 .. Len(xhr) /\ Len(xhr) \in Nat
    BY DEF PageInv, TypeOK, Made
  <2>2. DOMAIN xhr' = 1 .. Len(xhr)
    BY <1>1, <2>1
  <2> QED BY <1>1, <1>2, <2>1, <2>2 DEF Made
<1>4. \A k : FirstRow(k) \in Row
  BY FirstAssumption DEF FirstRow, FieldText, AnswerText, Code, Row
<1>5. TypeOK'
  <2>1. row' \in [Page -> Row]
    BY <1>1, <1>4 DEF PageInv, TypeOK, Row
  <2>2. address' \in [Page -> Address]
    BY <1>1 DEF PageInv, TypeOK, Address, CacheServer
  <2>3. click' \in [Page -> Made \cup {0}] /\ calm' \in [Page -> BOOLEAN]
    BY <1>1 DEF PageInv, TypeOK
  <2> QED BY <1>1, <1>3, <2>1, <2>2, <2>3 DEF PageInv, TypeOK, Row
<1>6. \A i \in Made : /\ xhr'[i].config = xhr[i].config /\ xhr'[i].net = xhr[i].net
                      /\ xhr'[i].owner = xhr[i].owner
                      /\ xhr'[i].reply = xhr[i].reply /\ xhr'[i].outcome = xhr[i].outcome
                      /\ xhr'[i].request = "open" => xhr[i].request = "open"
  <2> TAKE i \in Made
  <2>1. xhr[i] \in XmlHttpRequest
    BY RequestTypes DEF PageInv
  <2> QED BY <1>1, <2>1 DEF XmlHttpRequest
<1>7. RequestInv' /\ CacheInv' /\ ReadInv'
  BY <1>1, <1>3, <1>6, QuietStep DEF PageInv, RequestInv, Open
<1>8. RowInv'
  <2>1. \A q \in Page : calm'[q] /\ click'[q] # 0 =>
            calm[q] /\ click[q] # 0 /\ row'[q] = row[q] /\ click'[q] = click[q]
    BY <1>1 DEF PageInv, TypeOK
  <2>2. \A q \in Page : click[q] \in Made \cup {0} /\ OpenOf(q)' \subseteq OpenOf(q)
    BY <1>3, <1>6 DEF PageInv, TypeOK, OpenOf, Open
  <2>3. seen' = seen
    BY <1>1
  <2> QED BY <1>6, <2>1, <2>2, <2>3 DEF PageInv, RowInv, Open, Method, ToCache
<1> QED BY <1>5, <1>7, <1>8 DEF PageInv

\* An answer reaches the page: if nobody has typed or clicked since the last
\* click, it is the answer to that click, and the row shows it.
LEMMA AnsweredPage == ASSUME PageInv, NEW i \in Made, Answered(i) PROVE PageInv'
<1> DEFINE p == xhr[i].owner
           s == Settle(xhr[i].reply)
           e == [xhr[i] EXCEPT !.request = "null", !.outcome = s]
           new == Shown(kind[p], row[p], xhr[i].config.method, xhr[i].reply.body)
<1>1. /\ xhr' = [xhr EXCEPT ![i] = e] /\ Open(i) /\ xhr[i].net = "answered"
      /\ row' = IF s = "resolved" THEN [row EXCEPT ![p] = new] ELSE row
      /\ UNCHANGED <<kind, address, cache, answers, retried, click, calm, seen, past, typings>>
      /\ s \in {"resolved", "rejected"}
  BY DEF Answered, LoadEnd, Settle, serverVars
<1>2. /\ p \in Page /\ row \in [Page -> Row] /\ xhr[i] \in XmlHttpRequest
      /\ xhr[i].reply.body \in AnyBody
  BY RequestTypes, RequestShape DEF PageInv, TypeOK, AnyReply, Row
<1>3. /\ new \in Row /\ new.key = row[p].key /\ new.code = BodyAt(i).code
      /\ Method(i) = "post" => new.value = row[p].value
      /\ Method(i) = "get" /\ BodyAt(i).code = "Ok" => new.value = BodyAt(i).value
  BY <1>2 DEF Shown, MessageOf, AnyBody, BodyAt, Method, Row
<1> HIDE DEF new, s
<1>4. /\ e \in XmlHttpRequest /\ e.config = xhr[i].config /\ e.owner = xhr[i].owner
      /\ e.net = xhr[i].net /\ e.reply = xhr[i].reply
      /\ e.request = "null" /\ e.outcome = s
  BY <1>1, <1>2, RequestShape
<1> HIDE DEF e
<1>5. xhr' \in Seq(XmlHttpRequest) /\ Len(xhr') = Len(xhr) /\ Made' = Made
  BY <1>1, <1>4, ReplaceElement DEF PageInv, TypeOK, Made
<1>6. xhr'[i] = e /\ \A j \in Made \ {i} : xhr'[j] = xhr[j]
  BY <1>1 DEF PageInv, TypeOK, Made
<1>7. TypeOK'
  <2>1. row' \in [Page -> Row]
    BY <1>1, <1>2, <1>3
  <2> QED BY <1>1, <1>5, <2>1 DEF PageInv, TypeOK, Row
<1>8. RequestInv' /\ CacheInv' /\ ReadInv'
  BY <1>1, <1>4, <1>5, <1>6, QuietStep DEF PageInv, RequestInv, Open
<1>9. ASSUME NEW q \in Page, calm[q], click[q] # 0
      PROVE  /\ OpenOf(q)' \subseteq {click[q]}
             /\ xhr'[click[q]].owner = q
             /\ row'[q].key = xhr'[click[q]].config.key
             /\ Open(click[q])' /\ Method(click[q])' = "post" =>
                    row'[q].value = xhr'[click[q]].config.data
             /\ xhr'[click[q]].outcome = "resolved" /\ ToCache(click[q])' =>
                    /\ row'[q].code = "Ok" => row'[q].value \in seen[click[q]]
                    /\ row'[q].code = "NotFound" => None \in seen[click[q]]
  <2>1. click[q] \in Made
    BY <1>9 DEF PageInv, TypeOK
  <2>2. /\ OpenOf(q) \subseteq {click[q]} /\ xhr[click[q]].owner = q
        /\ row[q].key = xhr[click[q]].config.key
        /\ Open(click[q]) /\ Method(click[q]) = "post" =>
                row[q].value = xhr[click[q]].config.data
        /\ xhr[click[q]].outcome = "resolved" /\ ToCache(click[q]) =>
                /\ row[q].code = "Ok" => row[q].value \in seen[click[q]]
                /\ row[q].code = "NotFound" => None \in seen[click[q]]
    BY <1>9 DEF PageInv, RowInv
  <2>3. OpenOf(q)' \subseteq OpenOf(q)
    BY <1>4, <1>5, <1>6 DEF OpenOf, Open
  <2>4. CASE q # p
    <3>1. click[q] # i /\ row'[q] = row[q]
      BY <1>1, <1>2, <2>2, <2>4
    <3> QED BY <1>1, <1>6, <2>1, <2>2, <2>3, <3>1 DEF Open, Method, ToCache
  <2>5. CASE q = p
    <3>1. click[q] = i
      BY <1>1, <2>2, <2>5 DEF OpenOf
    <3>2. s = "resolved" => row'[q] = new
      BY <1>1, <1>2, <2>5
    <3>3. s # "resolved" => row'[q] = row[q]
      BY <1>1
    <3>4. ToCache(i)' = ToCache(i)
      BY <1>4, <1>6 DEF ToCache
    <3>5. ToCache(i) /\ s = "resolved" /\ new.code = "NotFound" => None \in seen[i]
      BY <1>1, <1>3 DEF PageInv, RequestInv
    <3>6. ToCache(i) /\ s = "resolved" /\ new.code = "Ok" => new.value \in seen[i]
      <4>1. CASE Method(i) = "get"
        BY <1>1, <1>3, <4>1 DEF PageInv, RequestInv
      <4>2. CASE Method(i) = "post"
        <5>1. new.value = xhr[i].config.data
          BY <1>1, <1>3, <2>2, <2>5, <3>1, <4>2
        <5>2. ToCache(i) /\ BodyAt(i).code = "Ok" => Sent(i) \in seen[i] /\ Sent(i) # Empty
          BY <1>1, <4>2 DEF PageInv, RequestInv, StoredSet
        <5> QED BY <1>3, <5>1, <5>2 DEF Sent, BodySent
      <4> QED BY <4>1, <4>2, RequestTypes DEF PageInv
    <3> QED BY <1>1, <1>3, <1>4, <1>6, <2>2, <2>3, <2>5, <3>1, <3>2, <3>3, <3>4, <3>5, <3>6
            DEF Open
  <2> QED BY <2>4, <2>5
<1>10. RowInv'
  BY <1>1, <1>9 DEF RowInv
<1> QED BY <1>7, <1>8, <1>10 DEF PageInv

\* A click makes a request of the fields as they are.
LEMMA ClickPage ==
    ASSUME PageInv, NEW p \in Page, NEW method \in {"get", "post"},
           NEW data \in FieldText, method = "post" => data = row[p].value,
           Click(p, method, data)
    PROVE  PageInv'
<1> DEFINE config == [method |-> method, address |-> address[p],
                      key |-> row[p].key, data |-> data]
           e == [owner |-> p, config |-> config, net |-> "travelling", reply |-> NoReply,
                 request |-> "open", outcome |-> "pending"]
           done == {i \in Made : AnsweredOk(i)}
<1>0. PICK n \in Nat : n = Len(xhr) + 1
  BY DEF PageInv, TypeOK
<1>1. /\ xhr' = Append(xhr, e)
      /\ click' = [click EXCEPT ![p] = n]
      /\ calm' = [calm EXCEPT ![p] = OpenOf(p) = {}]
      /\ answers' = Append(answers, {})
      /\ retried' = Append(retried, FALSE)
      /\ seen' = Append(seen, {})
      /\ past' = Append(past, done)
      /\ UNCHANGED <<kind, row, address, cache, typings>>
  BY <1>0 DEF Click, Send
<1>2. /\ xhr \in Seq(XmlHttpRequest) /\ Len(xhr) \in Nat /\ Made = 1 .. Len(xhr)
      /\ answers \in Seq(SUBSET Response) /\ Len(answers) = Len(xhr)
      /\ retried \in Seq(BOOLEAN) /\ Len(retried) = Len(xhr)
      /\ seen \in Seq(SUBSET (Value \cup {None})) /\ Len(seen) = Len(xhr)
      /\ past \in Seq(SUBSET Made) /\ Len(past) = Len(xhr)
  BY DEF PageInv, TypeOK, Made
<1>3. e \in XmlHttpRequest /\ config \in AnyConfig
  <2>1. config \in AnyConfig
    BY DEF PageInv, TypeOK, AnyConfig
  <2>2. NoReply \in AnyReply
    BY DEF NoReply, HttpReply, Text, Body, AnyReply, AnyBody, AnswerText, FieldText
  <2> HIDE DEF config
  <2> QED BY <2>1, <2>2, RequestShape
<1> DEFINE M == 1 .. Len(xhr)
<1>4. /\ Made' = M \cup {n} /\ n \notin M /\ n # 0 /\ n \in Nat
      /\ xhr'[n] = e /\ seen'[n] = {} /\ past'[n] = done /\ retried'[n] = FALSE
      /\ \A i \in M : /\ xhr'[i] = xhr[i] /\ seen'[i] = seen[i] /\ past'[i] = past[i]
                      /\ answers'[i] = answers[i] /\ retried'[i] = retried[i]
  <2>1. DOMAIN xhr' = 1 .. Len(xhr) + 1
    BY <1>1, <1>2, <1>3
  <2> HIDE DEF e, done
  <2>2. xhr'[n] = e /\ seen'[n] = {} /\ past'[n] = done /\ retried'[n] = FALSE
    BY <1>0, <1>1, <1>2, <1>3
  <2>3. \A i \in M : xhr'[i] = xhr[i]
    BY <1>1, <1>2, <1>3
  <2>4. \A i \in M : seen'[i] = seen[i] /\ past'[i] = past[i]
    BY <1>1, <1>2
  <2>5. \A i \in M : answers'[i] = answers[i]
    BY <1>1, <1>2
  <2>6. ASSUME NEW i \in M PROVE retried'[i] = retried[i]
    <3>1. i \in 1 .. Len(retried)
      BY <1>2
    <3>2. retried \in Seq(BOOLEAN) /\ FALSE \in BOOLEAN
      BY <1>2
    <3>3. Append(retried, FALSE)[i] = retried[i]
      BY <3>1, <3>2, AppendElement, Zenon
    <3> QED BY <1>1, <3>3, Zenon
  <2> QED BY <1>0, <1>2, <2>1, <2>2, <2>3, <2>4, <2>5, <2>6 DEF Made
<1>5. /\ e.owner = p /\ e.config.method = method /\ e.config.key = row[p].key
      /\ e.config.data = data /\ e.net = "travelling"
      /\ e.request = "open" /\ e.outcome = "pending"
  OBVIOUS
<1> HIDE DEF e, config, M
<1>6. TypeOK'
  <2>1. xhr' \in Seq(XmlHttpRequest) /\ Len(xhr') = Len(xhr) + 1
    BY <1>1, <1>2, <1>3
  <2>2. /\ answers' \in Seq(SUBSET Response) /\ Len(answers') = Len(xhr')
        /\ retried' \in Seq(BOOLEAN) /\ Len(retried') = Len(xhr')
        /\ seen' \in Seq(SUBSET (Value \cup {None})) /\ Len(seen') = Len(xhr')
    BY <1>1, <1>2, <2>1
  <2>3. past' \in Seq(SUBSET Made') /\ Len(past') = Len(xhr')
    <3>1. past \in Seq(SUBSET Made') /\ done \in SUBSET Made'
      <4>1. Made \subseteq Made'
        BY <1>2, <1>4 DEF M
      <4> QED BY <1>2, <4>1
    <3> HIDE DEF done
    <3> QED BY <1>1, <1>2, <2>1, <3>1
  <2>4. click' \in [Page -> Made' \cup {0}] /\ calm' \in [Page -> BOOLEAN]
    BY <1>1, <1>2, <1>4 DEF PageInv, TypeOK, M
  <2> QED BY <1>1, <2>1, <2>2, <2>3, <2>4 DEF PageInv, TypeOK
<1>7. Made = M
  BY <1>2 DEF M
<1>8. /\ \A i \in M : /\ Method(i)' = Method(i) /\ At(i)' = At(i) /\ Sent(i)' = Sent(i)
                      /\ Asked(i)' = Asked(i) /\ ToCache(i)' = ToCache(i)
                      /\ BodyAt(i)' = BodyAt(i) /\ AnswerIn(i)' = AnswerIn(i)
                      /\ StoredSet(i)' = StoredSet(i) /\ AnsweredOk(i)' = AnsweredOk(i)
                      /\ past[i] \subseteq M
      /\ ~StoredSet(n)' /\ done \subseteq M
  BY <1>2, <1>4, <1>7, RequestTypes
     DEF PageInv, Method, At, Asked, ToCache, Sent, AnswerIn, StoredSet, BodyAt, AnsweredOk
<1>9. \A i \in M : /\ \A a, k : SetAt(i, a, k)' <=> SetAt(i, a, k)
                   /\ \A a, k : StoredAt(i, a, k)' <=> StoredAt(i, a, k)
  BY <1>8 DEF SetAt, StoredAt
<1>10. \A j \in M : \A a, k : \A L \in SUBSET M :
        Stands(j, L, a, k) => Stands(j, L, a, k)'
  BY <1>4, <1>9 DEF Stands
<1>11. RequestInv'
  BY <1>4, <1>5, <1>7, <1>8 DEF PageInv, RequestInv, Open
<1>12. RowInv'
  <2>1. \A q \in Page \ {p} : calm'[q] = calm[q]
    BY <1>1 DEF PageInv, TypeOK
  <2>2. calm'[p] = (OpenOf(p) = {})
    BY <1>1 DEF PageInv, TypeOK
  <2>3. click'[p] = n /\ \A q \in Page \ {p} : click'[q] = click[q]
    BY <1>1 DEF PageInv, TypeOK
  <2>4. /\ \A q \in Page \ {p} : OpenOf(q)' = OpenOf(q)
        /\ OpenOf(p)' = OpenOf(p) \cup {n}
    BY <1>4, <1>5, <1>7 DEF OpenOf, Open
  <2>5. \A q \in Page \ {p} : click[q] # 0 => click[q] \in M
    BY <1>7 DEF PageInv, TypeOK
  <2>6. ASSUME NEW q \in Page \ {p}, calm'[q], click'[q] # 0
        PROVE  /\ OpenOf(q)' \subseteq {click'[q]}
               /\ xhr'[click'[q]].owner = q
               /\ row'[q].key = xhr'[click'[q]].config.key
               /\ Open(click[q])' /\ Method(click[q])' = "post" =>
                      row'[q].value = xhr'[click'[q]].config.data
               /\ xhr'[click'[q]].outcome = "resolved" /\ ToCache(click[q])' =>
                      /\ row'[q].code = "Ok" => row'[q].value \in seen'[click'[q]]
                      /\ row'[q].code = "NotFound" => None \in seen'[click'[q]]
    <3>1. calm[q] /\ click[q] \in M /\ click[q] # 0
      BY <2>1, <2>3, <2>5, <2>6
    <3>2. /\ OpenOf(q) \subseteq {click[q]}
          /\ xhr[click[q]].owner = q
          /\ row[q].key = xhr[click[q]].config.key
          /\ Open(click[q]) /\ Method(click[q]) = "post" =>
                 row[q].value = xhr[click[q]].config.data
          /\ xhr[click[q]].outcome = "resolved" /\ ToCache(click[q]) =>
                 /\ row[q].code = "Ok" => row[q].value \in seen[click[q]]
                 /\ row[q].code = "NotFound" => None \in seen[click[q]]
      BY <3>1 DEF PageInv, RowInv
    <3>3. /\ row'[q] = row[q] /\ click'[q] = click[q] /\ OpenOf(q)' = OpenOf(q)
          /\ xhr'[click[q]] = xhr[click[q]] /\ seen'[click[q]] = seen[click[q]]
      BY <1>1, <1>4, <2>3, <2>4, <3>1
    <3>4. /\ Open(click[q])' = Open(click[q]) /\ Method(click[q])' = Method(click[q])
          /\ ToCache(click[q])' = ToCache(click[q])
      BY <3>3 DEF Open, Method, ToCache
    <3> QED BY <3>2, <3>3, <3>4
  <2>7. ASSUME calm'[p]
        PROVE  /\ OpenOf(p)' \subseteq {n} /\ xhr'[n].owner = p
               /\ row'[p].key = xhr'[n].config.key
               /\ method = "post" => row'[p].value = xhr'[n].config.data
               /\ xhr'[n].outcome = "pending"
    BY <1>1, <1>4, <1>5, <2>2, <2>4, <2>7
  <2> QED BY <1>4, <1>5, <2>3, <2>6, <2>7 DEF RowInv, Open, Method, ToCache
<1>13. CacheInv'
  <2>1. \A i \in Made' : past'[i] \subseteq {j \in Made' : AnsweredOk(j)'}
    BY <1>4, <1>7, <1>8 DEF PageInv, CacheInv
  <2>2. {l \in Made' : StoredSet(l)'} = {l \in M : StoredSet(l)}
    BY <1>4, <1>8
  <2>3. ASSUME NEW a \in CacheServer, NEW k \in Key, Has(cache[a], k)
        PROVE  \E j \in Made' : /\ StoredAt(j, a, k)' /\ Sent(j)' = cache[a].val[k]
                                /\ Stands(j, {l \in Made : StoredSet(l)}, a, k)'
    <3>1. PICK j \in M : /\ StoredAt(j, a, k) /\ Sent(j) = cache[a].val[k]
                         /\ Stands(j, {l \in M : StoredSet(l)}, a, k)
      BY <1>7, <2>3 DEF PageInv, CacheInv
    <3>2. Stands(j, {l \in Made : StoredSet(l)}, a, k)'
      BY <1>4, <1>9, <2>2, <3>1 DEF Stands
    <3> QED BY <1>4, <1>8, <1>9, <3>1, <3>2
  <2>4. AllFit' = AllFit
    BY DEF AllFit
  <2> QED BY <1>1, <1>4, <1>7, <1>8, <2>1, <2>3, <2>4 DEF PageInv, CacheInv
<1>14. ReadInv'
  <2>1. ASSUME AllFit, NEW i \in M, Method(i) = "get"
        PROVE  /\ \A v \in seen[i] \ {None} :
                     \E j \in Made' : /\ StoredAt(j, At(i), Asked(i).key)' /\ Sent(j)' = v
                                      /\ Stands(j, past[i], At(i), Asked(i).key)'
               /\ None \in seen[i] => \A l \in past[i] : ~SetAt(l, At(i), Asked(i).key)'
    <3>1. /\ \A v \in seen[i] \ {None} :
                \E j \in M : /\ StoredAt(j, At(i), Asked(i).key) /\ Sent(j) = v
                             /\ Stands(j, past[i], At(i), Asked(i).key)
          /\ None \in seen[i] => \A l \in past[i] : ~SetAt(l, At(i), Asked(i).key)
      BY <1>7, <2>1 DEF PageInv, ReadInv
    <3>2. \A j \in M : Stands(j, past[i], At(i), Asked(i).key) =>
                          Stands(j, past[i], At(i), Asked(i).key)'
      BY <1>4, <1>8, <1>9 DEF Stands
    <3> QED BY <1>4, <1>8, <1>9, <3>1, <3>2
  <2>2. AllFit' = AllFit
    BY DEF AllFit
  <2>3. Made' = M \cup {n} /\ seen'[n] = {}
    BY <1>4
  <2> QED BY <1>4, <1>8, <2>1, <2>2, <2>3 DEF ReadInv
<1> QED BY <1>6, <1>11, <1>12, <1>13, <1>14 DEF PageInv

\* What an answer has to tell of an execution with cache c: "Ok" and "NotFound"
\* are the truth, and a code of the cache tells its answer.
Truthful(c, r, body) ==
    /\ body \in AnyBody
    /\ body.code = "Ok" /\ r.op = "put" => r.value # None
    /\ body.code = "Ok" /\ r.op = "get" =>
          Has(c, r.key) /\ body.value = c.val[r.key]
    /\ body.code = "NotFound" => r.op = "get" /\ ~Has(c, r.key)
    /\ body.code \in Code =>
          Reply(c, r) = Answer(body.code, IF r.op = "get" /\ body.code = "Ok"
                                          THEN body.value ELSE None)

\* The cache executes request i, which is on its way or retried; if it is
\* answered by that, with the truth.
LEMMA ExecutePage ==
    ASSUME PageInv, NEW i \in Made, ToCache(i), Execute(i),
           UNCHANGED <<retried, pageVars>>,
           \/ retried[i] /\ xhr' = xhr
           \/ \E body : /\ Arrive(i, HttpReply(200, body))
                        /\ Truthful(cache[At(i)], Asked(i), body)
    PROVE  PageInv'
<1> DEFINE a == At(i)
           r == Asked(i)
           c == cache[a]
           v == Effect(c, r).val[r.key]
           answered == /\ xhr'[i].net = "answered" /\ xhr[i].net = "travelling"
                       /\ Truthful(c, r, BodyAt(i)')
<1>1. /\ cache' = [cache EXCEPT ![a] = Effect(c, r)]
      /\ answers' = [answers EXCEPT ![i] = @ \cup {Reply(c, r)}]
      /\ seen' = [seen EXCEPT ![i] = @ \cup {v}]
      /\ UNCHANGED <<retried, kind, row, address, click, calm, past, typings>>
  BY DEF Execute, pageVars, At
<1>2. /\ r \in Request /\ r.op = (IF Method(i) = "get" THEN "get" ELSE "put")
      /\ r.key \in Key /\ Method(i) \in {"get", "post"}
      /\ Method(i) = "post" => r.value = IF Sent(i) = Empty THEN None ELSE Sent(i)
      /\ Method(i) = "post" /\ Sent(i) # Empty => Sent(i) \in Value
      /\ xhr[i] \in XmlHttpRequest /\ xhr \in Seq(XmlHttpRequest)
      /\ a \in CacheServer /\ c \in Cache /\ WellFormed(c)
      /\ cache \in [CacheServer -> Cache]
  BY RequestTypes DEF PageInv, TypeOK, ToCache, At
<1>3. /\ WellFormed(Effect(c, r)) /\ Effect(c, r) \in Cache
      /\ Reply(c, r) \in Response
      /\ \A k \in Key : Has(Effect(c, r), k) =>
            \/ Has(c, k) /\ Effect(c, r).val[k] = c.val[k]
            \/ r.op = "put" /\ r.key = k /\ Effect(c, r).val[k] = r.value
      /\ v = IF r.op = "put" /\ r.value # None THEN r.value ELSE c.val[r.key]
  <2>1. WellFormed(Effect(c, r)) => Effect(c, r) \in Cache
    BY DEF WellFormed
  <2> QED BY <1>2, <2>1, EffectProperties
<1>4. v \in Value \cup {None}
  BY <1>2, <1>3 DEF WellFormed, Cache
<1>5. /\ xhr' \in Seq(XmlHttpRequest) /\ Len(xhr') = Len(xhr) /\ Made' = Made
      /\ \A j \in Made \ {i} : xhr'[j] = xhr[j]
      /\ xhr'[i].config = xhr[i].config /\ xhr'[i].owner = xhr[i].owner
      /\ xhr'[i].request = xhr[i].request /\ xhr'[i].outcome = xhr[i].outcome
      /\ (retried[i] /\ xhr'[i] = xhr[i]) \/ answered
  <2>1. CASE retried[i] /\ xhr' = xhr
    BY <1>2, <2>1 DEF Made
  <2>2. ASSUME NEW body, Arrive(i, HttpReply(200, body)), Truthful(c, r, body)
        PROVE  <1>5!:
    <3> DEFINE h == HttpReply(200, body)
               e == [xhr[i] EXCEPT !.net = "answered", !.reply = h]
    <3>1. xhr' = [xhr EXCEPT ![i] = e] /\ xhr[i].net = "travelling"
      BY <2>2 DEF Arrive
    <3>2. h \in AnyReply /\ h.body = body
      BY <2>2 DEF HttpReply, AnyReply, Truthful
    <3> HIDE DEF h
    <3>3. /\ e \in XmlHttpRequest /\ e.config = xhr[i].config /\ e.owner = xhr[i].owner
          /\ e.net = "answered" /\ e.reply = h
          /\ e.request = xhr[i].request /\ e.outcome = xhr[i].outcome
      BY <1>2, <3>2, RequestShape
    <3> HIDE DEF e
    <3>4. /\ xhr' \in Seq(XmlHttpRequest) /\ Len(xhr') = Len(xhr) /\ Made' = Made
          /\ xhr'[i] = e /\ \A j \in Made \ {i} : xhr'[j] = xhr[j]
      BY <1>2, <3>1, <3>3, ReplaceElement DEF Made
    <3>5. answered
      BY <2>2, <3>1, <3>2, <3>3, <3>4 DEF BodyAt
    <3> QED BY <3>3, <3>4, <3>5
  <2> QED BY <2>1, <2>2
<1>6. /\ seen' \in Seq(SUBSET (Value \cup {None})) /\ Len(seen') = Len(seen)
      /\ answers' \in Seq(SUBSET Response) /\ Len(answers') = Len(answers)
      /\ seen'[i] = seen[i] \cup {v} /\ \A j \in Made \ {i} : seen'[j] = seen[j]
      /\ answers'[i] = answers[i] \cup {Reply(c, r)}
      /\ \A j \in Made \ {i} : answers'[j] = answers[j]
  <2> HIDE DEF v, c, r
  <2>1. /\ DOMAIN seen = Made /\ seen \in Seq(SUBSET (Value \cup {None}))
        /\ DOMAIN answers = Made /\ answers \in Seq(SUBSET Response)
        /\ seen[i] \cup {v} \in SUBSET (Value \cup {None})
        /\ answers[i] \cup {Reply(c, r)} \in SUBSET Response
    BY <1>3, <1>4, RequestTypes DEF PageInv, TypeOK
  <2> QED BY <1>1, <2>1, ReplaceElement
<1> HIDE DEF answered
<1>7. TypeOK'
  <2>1. cache' \in [CacheServer -> Cache] /\ \A b \in CacheServer : WellFormed(cache'[b])
    BY <1>1, <1>2, <1>3 DEF PageInv, TypeOK
  <2> QED BY <1>1, <1>5, <1>6, <2>1 DEF PageInv, TypeOK
<1>8. cache'[a] = Effect(c, r) /\ \A b \in CacheServer \ {a} : cache'[b] = cache[b]
  BY <1>1, <1>2
<1> HIDE DEF v, c, r, a
<1>9. /\ \A j \in Made : /\ Method(j)' = Method(j) /\ At(j)' = At(j) /\ Sent(j)' = Sent(j)
                         /\ Asked(j)' = Asked(j) /\ ToCache(j)' = ToCache(j)
                         /\ \A b, k : SetAt(j, b, k)' <=> SetAt(j, b, k)
                         /\ past[j] \subseteq Made
      /\ \A j \in Made \ {i} : StoredSet(j)' <=> StoredSet(j)
      /\ StoredSet(i) => StoredSet(i)'
      /\ StoredSet(i)' <=> Method(i) = "post" /\ Sent(i) # Empty
  <2>1. \A j \in Made : xhr'[j].config = xhr[j].config
    BY <1>5
  <2>2. \A j \in Made : past[j] \subseteq Made
    BY RequestTypes DEF PageInv
  <2>3. \A j \in Made : Method(j)' = Method(j) /\ Sent(j)' = Sent(j)
    BY <2>1, SameConfig
  <2> QED BY <1>6, <2>1, <2>2, <2>3, SameConfig DEF StoredSet
<1>10. \A j \in Made : \A b, k : StoredAt(j, b, k) => StoredAt(j, b, k)'
  BY <1>9 DEF StoredAt
<1>11. /\ StoredSet(i)' => v = Sent(i) /\ r.op = "put" /\ r.value = v
       /\ retried[i] \/ \A j \in Made : i \notin past[j]
  <2>1. StoredSet(i)' => v = Sent(i) /\ r.op = "put" /\ r.value = v
    BY <1>2, <1>3, <1>9, NoneAssumption
  <2>2. retried[i] \/ xhr[i].net = "travelling"
    BY <1>5 DEF answered
  <2>3. xhr[i].net = "travelling" => \A j \in Made : i \notin past[j]
    BY DEF PageInv, RequestInv, CacheInv, AnsweredOk
  <2> QED BY <2>1, <2>2, <2>3
<1>12. RequestInv'
  <2>1. ASSUME NEW j \in Made, j # i
        PROVE  /\ BodyAt(j)' = BodyAt(j) /\ AnswerIn(j)' = AnswerIn(j)
               /\ xhr'[j] = xhr[j] /\ seen'[j] = seen[j] /\ answers'[j] = answers[j]
               /\ Open(j)' = Open(j)
    BY <1>5, <1>6, <2>1 DEF BodyAt, AnswerIn, Method, Open
  <2>2. /\ Open(i)' => xhr'[i].outcome = "pending"
        /\ xhr'[i].outcome = "resolved" => xhr'[i].net = "answered"
        /\ Method(i) = "post" /\ Sent(i) # Empty => seen'[i] \subseteq {Sent(i)}
    BY <1>5, <1>6, <1>9, <1>11 DEF PageInv, RequestInv, Open, answered
  <2>3. xhr'[i].net = "answered" =>
            /\ BodyAt(i)'.code \in Code => AnswerIn(i)' \in answers'[i]
            /\ BodyAt(i)'.code = "Ok" /\ Method(i) = "post" => StoredSet(i)'
            /\ BodyAt(i)'.code = "Ok" /\ Method(i) = "get" =>
                BodyAt(i)'.value \in seen'[i] \ {None}
            /\ BodyAt(i)'.code = "NotFound" => Method(i) = "get" /\ None \in seen'[i]
    <3>1. CASE xhr'[i] = xhr[i]
      <4>1. BodyAt(i)' = BodyAt(i) /\ AnswerIn(i)' = AnswerIn(i)
        BY <1>9, <3>1 DEF BodyAt, AnswerIn
      <4> QED BY <1>6, <1>9, <3>1, <4>1 DEF PageInv, RequestInv
    <3>2. CASE answered
      <4>1. AnswerIn(i)' = Answer(BodyAt(i)'.code,
                                  IF r.op = "get" /\ BodyAt(i)'.code = "Ok"
                                  THEN BodyAt(i)'.value ELSE None)
        BY <1>2, <1>9 DEF AnswerIn
      <4>2. Truthful(c, r, BodyAt(i)')
        BY <3>2 DEF answered
      <4>3. BodyAt(i)'.code = "Ok" /\ Method(i) = "post" => StoredSet(i)'
        BY <1>2, <1>9, <4>2 DEF Truthful
      <4>4. r.op = "get" => v = c.val[r.key]
        BY <1>3
      <4>5. BodyAt(i)'.code = "Ok" /\ Method(i) = "get" =>
                BodyAt(i)'.value \in seen'[i] \ {None}
        BY <1>2, <1>6, <4>2, <4>4 DEF Truthful, Has
      <4>6. BodyAt(i)'.code = "NotFound" => Method(i) = "get" /\ None \in seen'[i]
        BY <1>2, <1>6, <4>2, <4>4 DEF Truthful, Has
      <4> QED BY <1>6, <4>1, <4>2, <4>3, <4>5, <4>6 DEF Truthful
    <3> QED BY <1>5, <3>1, <3>2
  <2>4. ASSUME NEW j \in Made, j # i
        PROVE  /\ Open(j)' => xhr'[j].outcome = "pending"
               /\ xhr'[j].outcome = "resolved" => xhr'[j].net = "answered"
               /\ retried'[j] \/ seen'[j] # {} => ToCache(j)'
               /\ Method(j)' = "post" /\ Sent(j)' # Empty => seen'[j] \subseteq {Sent(j)'}
               /\ xhr'[j].net = "answered" /\ ToCache(j)' =>
                   /\ BodyAt(j)'.code \in Code => AnswerIn(j)' \in answers'[j]
                   /\ BodyAt(j)'.code = "Ok" /\ Method(j)' = "post" => StoredSet(j)'
                   /\ BodyAt(j)'.code = "Ok" /\ Method(j)' = "get" =>
                       BodyAt(j)'.value \in seen'[j] \ {None}
                   /\ BodyAt(j)'.code = "NotFound" =>
                       Method(j)' = "get" /\ None \in seen'[j]
    BY <1>1, <1>9, <2>1, <2>4 DEF PageInv, RequestInv
  <2>5. ToCache(i)' /\ Method(i)' = Method(i) /\ Sent(i)' = Sent(i)
    BY <1>9
  <2> QED BY <1>5, <2>2, <2>3, <2>4, <2>5 DEF RequestInv
<1>13. RowInv'
  <2>1. \A j \in Made : /\ xhr'[j].owner = xhr[j].owner /\ xhr'[j].config = xhr[j].config
                        /\ xhr'[j].request = xhr[j].request
                        /\ xhr'[j].outcome = xhr[j].outcome
                        /\ seen[j] \subseteq seen'[j]
    BY <1>5, <1>6
  <2>2. \A q \in Page : click[q] \in Made \cup {0}
    BY DEF PageInv, TypeOK
  <2>3. \A q \in Page : OpenOf(q)' = OpenOf(q)
    BY <1>5, <2>1 DEF OpenOf, Open
  <2>4. row' = row /\ click' = click /\ calm' = calm
    BY <1>1
  <2> QED BY <1>9, <2>1, <2>2, <2>3, <2>4 DEF PageInv, RowInv, Open, Method
<1>14. CacheInv'
  <2>1. \A j \in Made' : past'[j] \subseteq {l \in Made' : AnsweredOk(l)'}
    <3>1. \A l \in Made : AnsweredOk(l) => AnsweredOk(l)'
      BY <1>5 DEF PageInv, RequestInv, AnsweredOk, answered
    <3> QED BY <1>1, <1>5, <3>1 DEF PageInv, CacheInv
  <2>2. ASSUME NEW b \in CacheServer, NEW k \in Key, Has(cache'[b], k)
        PROVE  \E j \in Made : /\ StoredAt(j, b, k)' /\ Sent(j) = cache'[b].val[k]
                               /\ Stands(j, {l \in Made : StoredSet(l)}, b, k)'
    <3>1. CASE StoredSet(i)' /\ b = a /\ k = r.key
      <4>1. StoredAt(i, b, k)'
        BY <1>9, <3>1 DEF StoredAt, SetAt, StoredSet, a, r
      <4>2. Sent(i) = cache'[b].val[k]
        BY <1>8, <1>11, <3>1 DEF v
      <4>3. Stands(i, {l \in Made : StoredSet(l)}, b, k)'
        BY <1>1, <1>5, <1>11 DEF Stands
      <4> QED BY <4>1, <4>2, <4>3
    <3>2. CASE ~ (StoredSet(i)' /\ b = a /\ k = r.key)
      <4>1. Has(cache[b], k) /\ cache'[b].val[k] = cache[b].val[k]
        <5>1. CASE b = a
          <6>1. CASE Has(c, k) /\ Effect(c, r).val[k] = c.val[k]
            BY <1>8, <5>1, <6>1 DEF c
          <6>2. CASE r.op = "put" /\ r.key = k /\ Effect(c, r).val[k] = r.value
            <7>1. r.value # None
              BY <1>8, <2>2, <5>1, <6>2 DEF Has
            <7> QED BY <1>2, <1>9, <3>2, <5>1, <6>2, <7>1
          <6> QED BY <1>3, <1>8, <2>2, <5>1, <6>1, <6>2
        <5>2. CASE b # a
          BY <1>8, <2>2, <5>2
        <5> QED BY <5>1, <5>2
      <4>2. PICK j \in Made : /\ StoredAt(j, b, k) /\ Sent(j) = cache[b].val[k]
                              /\ Stands(j, {l \in Made : StoredSet(l)}, b, k)
        BY <4>1 DEF PageInv, CacheInv
      <4>3. SetAt(i, b, k) => b = a /\ k = r.key
        BY DEF SetAt, a, r
      <4>4. Stands(j, {l \in Made : StoredSet(l)}, b, k)'
        BY <1>1, <1>5, <1>9, <3>2, <4>2, <4>3 DEF Stands
      <4> QED BY <1>10, <4>1, <4>2, <4>4
    <3> QED BY <3>1, <3>2
  <2>3. ASSUME AllFit, NEW j \in Made, StoredSet(j)'
        PROVE  Has(cache'[At(j)], Asked(j).key)
    <3>1. CASE j = i
      <4>1. cache'[a].val[r.key] = v /\ v = Sent(i) /\ Sent(i) # None
        BY <1>2, <1>8, <1>9, <1>11, <2>3, <3>1, NoneAssumption DEF v
      <4> QED BY <3>1, <4>1 DEF Has, a, r
    <3>2. CASE j # i
      <4>1. Has(cache[At(j)], Asked(j).key) /\ Asked(j).key \in Key
        BY <1>9, <2>3, <3>2, RequestTypes DEF PageInv, CacheInv
      <4>2. At(j) \in CacheServer
        BY <1>9, <2>3, <3>2 DEF PageInv, RequestInv, StoredSet, ToCache, At
      <4>3. CASE At(j) = a
        <5>1. Has(c, Asked(j).key)
          BY <4>1, <4>3 DEF c
        <5>2. r.op # "remove"
          BY <1>2
        <5>3. Has(Effect(c, r), Asked(j).key)
          BY <1>2, <2>3, <4>1, <5>1, <5>2, NothingEvicted DEF AllFit
        <5> QED BY <1>8, <4>3, <5>3
      <4>4. CASE At(j) # a
        BY <1>8, <4>1, <4>2, <4>4
      <4> QED BY <4>3, <4>4
    <3> QED BY <3>1, <3>2
  <2>4. AllFit' = AllFit
    BY DEF AllFit
  <2> QED BY <1>5, <1>9, <2>1, <2>2, <2>3, <2>4 DEF CacheInv
<1>15. ReadInv'
  <2>1. ASSUME AllFit, NEW g \in Made, Method(g) = "get"
        PROVE  /\ \A w \in seen'[g] \ {None} :
                     \E j \in Made : /\ StoredAt(j, At(g), Asked(g).key)' /\ Sent(j) = w
                                     /\ Stands(j, past[g], At(g), Asked(g).key)
               /\ None \in seen'[g] => \A l \in past[g] : ~SetAt(l, At(g), Asked(g).key)
    <3>1. /\ \A w \in seen[g] \ {None} :
                \E j \in Made : /\ StoredAt(j, At(g), Asked(g).key)' /\ Sent(j) = w
                                /\ Stands(j, past[g], At(g), Asked(g).key)
          /\ None \in seen[g] => \A l \in past[g] : ~SetAt(l, At(g), Asked(g).key)
      BY <1>9, <1>10, <2>1 DEF PageInv, ReadInv
    <3>2. CASE g # i
      BY <1>6, <3>1, <3>2
    <3>3. CASE g = i
      <4>1. /\ v = c.val[r.key] /\ At(i) = a /\ Asked(i).key = r.key
            /\ a' = a /\ r' = r
        BY <1>2, <1>3, <1>9, <2>1, <3>3 DEF a, r
      <4>2. \A l \in past[i] : SetAt(l, a, r.key) => l \in Made /\ StoredSet(l)
        BY <1>2, <1>9 DEF PageInv, RequestInv, CacheInv, AnsweredOk, BodyAt, SetAt, ToCache, At
      <4>3. ASSUME v # None
            PROVE  \E j \in Made : /\ StoredAt(j, a, r.key)' /\ Sent(j) = v
                                   /\ Stands(j, past[i], a, r.key)
        <5>1. PICK j \in Made : /\ StoredAt(j, a, r.key) /\ Sent(j) = c.val[r.key]
                                /\ Stands(j, {l \in Made : StoredSet(l)}, a, r.key)
          BY <1>2, <4>1, <4>3 DEF PageInv, CacheInv, Has, c
        <5>2. Stands(j, past[i], a, r.key)
          BY <4>2, <5>1 DEF Stands
        <5> QED BY <1>10, <4>1, <5>1, <5>2
      <4>4. ASSUME v = None
            PROVE  \A l \in past[i] : ~SetAt(l, a, r.key)
        <5>1. ~Has(cache[a], r.key)
          BY <4>1, <4>4 DEF Has, c
        <5>2. ASSUME NEW l \in past[i], SetAt(l, a, r.key) PROVE FALSE
          <6>1. l \in Made /\ StoredSet(l) /\ At(l) = a /\ Asked(l).key = r.key
            BY <4>2, <5>2 DEF SetAt
          <6> QED BY <2>1, <5>1, <6>1 DEF PageInv, CacheInv
        <5> QED BY <5>2
      <4>5. At(g)' = a' /\ Asked(g)'.key = r'.key /\ At(g) = a /\ Asked(g).key = r.key
        BY <1>9, <3>3, <4>1
      <4>6. seen'[g] = seen[g] \cup {v}
        BY <1>6, <3>3
      <4> QED BY <3>1, <3>3, <4>3, <4>4, <4>5, <4>6
    <3> QED BY <3>2, <3>3
  <2>2. AllFit' = AllFit
    BY DEF AllFit
  <2>3. \A j \in Made : \A b, k : \A L \in SUBSET Made :
          Stands(j, L, b, k) => Stands(j, L, b, k)'
    BY <1>1, <1>9 DEF Stands
  <2>4. ASSUME NEW g \in Made, NEW j \in Made, Stands(j, past[g], At(g), Asked(g).key)
        PROVE  Stands(j, past[g], At(g), Asked(g).key)'
    BY <1>1, <1>9, <2>4 DEF Stands
  <2> QED BY <1>1, <1>5, <1>9, <2>1, <2>2, <2>4 DEF ReadInv
<1> QED BY <1>7, <1>12, <1>13, <1>14, <1>15 DEF PageInv

\* The bodies of an answer tell the truth about the execution.
LEMMA BodyTruthful ==
    ASSUME NEW k, NEW c, NEW r \in Request, r.op # "remove", WellFormed(c)
    PROVE  Truthful(c, r, BodyOf(k, Reply(c, r)))
<1> DEFINE a == Reply(c, r)
<1>1. /\ r.op \in {"put", "get"} /\ r.key \in Key /\ r.value \in Value \cup {None}
      /\ c.val \in [Key -> Value \cup {None}]
  BY DEF Request, WellFormed, Cache
<1>2. /\ r.op = "put" /\ r.value = None => a = Answer("InvalidArgument", None)
      /\ r.op = "put" /\ r.value # None => a = Answer("Ok", None)
      /\ r.op = "get" /\ Has(c, r.key) => a = Answer("Ok", c.val[r.key])
      /\ r.op = "get" /\ ~Has(c, r.key) => a = Answer("NotFound", None)
  BY <1>1 DEF Reply
<1>3. /\ a.code \in AnswerText /\ a.value \in Value \cup {None}
      /\ a.code = "Ok" /\ r.op = "put" => r.value # None
      /\ a.code = "Ok" /\ r.op = "get" =>
            Has(c, r.key) /\ a.value = c.val[r.key] /\ a.value # None
      /\ a.code = "NotFound" => r.op = "get" /\ ~Has(c, r.key)
      /\ a = Answer(a.code, IF r.op = "get" /\ a.code = "Ok" THEN a.value ELSE None)
  BY <1>1, <1>2 DEF AnswerText, Code, Has, Answer
<1> HIDE DEF a
<1>4. Truthful(c, r, BodyOfA006(a))
  BY <1>3 DEF Truthful, BodyOfA006, Body, AnyBody, AnswerText, FieldText, a
<1>5. Truthful(c, r, BodyOfKvResponse(a))
  BY <1>3 DEF Truthful, BodyOfKvResponse, Body, AnyBody, AnswerText, FieldText, a
<1> QED BY <1>4, <1>5 DEF BodyOf, a

\* What a request to a cache asks for is no remove.
LEMMA AskedWellFormed ==
    ASSUME PageInv, NEW i \in Made, ToCache(i)
    PROVE  /\ Asked(i) \in Request /\ Asked(i).op # "remove"
           /\ WellFormed(cache[At(i)]) /\ cache[At(i)] \in Cache
BY RequestTypes DEF PageInv, TypeOK, ToCache, At

\* A request reaches a cache and is answered.
LEMMA ServePage == ASSUME PageInv, NEW i \in Made, Serve(i) PROVE PageInv'
<1> DEFINE body == BodyOf(Program(i), Reply(cache[At(i)], Asked(i)))
<1>1. /\ ToCache(i) /\ Execute(i) /\ UNCHANGED <<retried, pageVars>>
      /\ Arrive(i, HttpReply(200, body))
  BY DEF Serve, At
<1>2. Truthful(cache[At(i)], Asked(i), body)
  BY <1>1, AskedWellFormed, BodyTruthful
<1> QED BY <1>1, <1>2, ExecutePage

\* An attempt comes late.
LEMMA LateExecutionPage == ASSUME PageInv, NEW i \in Made, LateExecution(i) PROVE PageInv'
BY ExecutePage DEF LateExecution, PageInv, RequestInv

\* An incomplete set, and a forward whose attempts were all given up.
LEMMA ErrorPage ==
    ASSUME PageInv, NEW i \in Made, Refuse(i) \/ ForwardFails(i) PROVE PageInv'
<1>1. UnsetBody = ConversionError /\ ConversionError \in AnyBody /\ ConversionError.code \notin Code
  BY DEF UnsetBody, ConversionError, Body, AnyBody, AnswerText, FieldText, Code
<1> QED BY <1>1, NotExecutedPage DEF Refuse, ForwardFails

\* Something that is no cache answers.
LEMMA ServeElsewherePage == ASSUME PageInv, NEW i \in Made, ServeElsewhere(i) PROVE PageInv'
<1>1. ~ToCache(i) /\ UNCHANGED <<pageVars, serverVars>>
  BY DEF ServeElsewhere
<1>2. PICK reply \in ForeignReply : Arrive(i, reply)
  BY DEF ServeElsewhere
<1>3. Text \in AnyBody /\ Body("Ok", Undefined, Undefined, Undefined) \in AnyBody
  BY DEF Text, Body, AnyBody, AnswerText, FieldText, Code
<1> QED BY <1>1, <1>2, <1>3, NotExecutedPage DEF ForeignReply

\* Nothing has been asked and nothing stored.
LEMMA InitPage == Init => PageInv
<1> SUFFICES ASSUME Init PROVE PageInv
  OBVIOUS
<1>1. /\ xhr = << >> /\ answers = << >> /\ retried = << >> /\ seen = << >> /\ past = << >>
      /\ cache = [a \in CacheServer |-> EmptyCache] /\ Made = {}
  BY DEF Init, Made
<1>2. TypeOK
  <2>1. \A k : FirstRow(k) \in Row /\ [FirstRow(k) EXCEPT !.value = FirstValue] \in Row
    BY FirstAssumption DEF FirstRow, FieldText, AnswerText, Code, Row
  <2>2. row \in [Page -> Row]
    BY <2>1 DEF Init
  <2>3. WellFormed(EmptyCache) /\ EmptyCache \in Cache
    BY EmptyWellFormed DEF WellFormed
  <2> QED BY <1>1, <2>2, <2>3, MaxTypingsAssumption DEF Init, TypeOK, Address, CacheServer, Row
<1>3. RequestInv /\ RowInv /\ ReadInv
  BY <1>1 DEF Init, RequestInv, RowInv, ReadInv
<1>4. CacheInv
  BY <1>1 DEF CacheInv, EmptyCache, Has
<1> QED BY <1>2, <1>3, <1>4 DEF PageInv

\* Each step keeps the invariant.
LEMMA StepPage == PageInv /\ [Next]_vars => PageInv'
<1> SUFFICES ASSUME PageInv, [Next]_vars PROVE PageInv'
  OBVIOUS
<1>1. ASSUME NEW p \in Page, Type(p) \/ TypeAddress(p) PROVE PageInv'
  BY <1>1, TypePage
<1>2. ASSUME NEW p \in Page, get_cache_value(p) PROVE PageInv'
  BY <1>2, ClickPage DEF get_cache_value, FieldText
<1>3. ASSUME NEW p \in Page, set_cache_value(p) PROVE PageInv'
  <2>1. row[p].value \in FieldText
    BY DEF PageInv, TypeOK
  <2> QED BY <1>3, <2>1, ClickPage DEF set_cache_value
<1>4. ASSUME NEW p \in Page, Reload(p) PROVE PageInv'
  BY <1>4, ReloadPage
<1>5. ASSUME NEW i \in Made,
             \/ Serve(i) \/ Refuse(i) \/ ServeElsewhere(i)
             \/ Retry(i) \/ LateExecution(i) \/ ForwardFails(i)
      PROVE  PageInv'
  BY <1>5, ServePage, LateExecutionPage, ErrorPage, RetryPage, ServeElsewherePage
<1>6. ASSUME NEW i \in Made, Answered(i) \/ Failed(i) PROVE PageInv'
  BY <1>6, AnsweredPage, FailedPage
<1>7. CASE UNCHANGED vars
  <2>1. UNCHANGED <<xhr, kind, row, address, click, calm, past, typings, cache, answers,
                    retried, seen>>
    BY <1>7 DEF vars, pageVars, serverVars
  <2>2. Made' = Made /\ \A i \in Made : xhr[i].net \in {"travelling", "answered"}
    BY <2>1, RequestTypes DEF PageInv, XmlHttpRequest, Made
  <2>3. TypeOK'
    BY <2>1 DEF PageInv, TypeOK, Made
  <2>4. RequestInv' /\ CacheInv' /\ ReadInv'
    BY <2>1, <2>2, QuietStep DEF PageInv, RequestInv, Open
  <2>5. RowInv'
    BY <2>1 DEF PageInv, RowInv, OpenOf, Open, Made, Method, ToCache
  <2> QED BY <2>3, <2>4, <2>5 DEF PageInv
<1> QED BY <1>1, <1>2, <1>3, <1>4, <1>5, <1>6, <1>7 DEF Next

\* What is known of requests, rows, caches and reads holds in every state.
THEOREM PageInvariant == Spec => []PageInv
BY InitPage, StepPage, PTL DEF Spec

\* The variables keep their types; in particular no value that only a page
\* shows gets into a cache.
THEOREM PageTypeOK == Spec => []TypeOK
<1>1. PageInv => TypeOK
  BY DEF PageInv
<1> QED BY <1>1, PageInvariant, PTL

\* The row of a page whose user has waited is true (HelloWorld.vue:47-69).
THEOREM PageRowIsTrue == Spec => []RowIsTrue
<1>1. PageInv => RowIsTrue
  BY DEF PageInv, RowInv, RowIsTrue
<1> QED BY <1>1, PageInvariant, PTL

\* A set that a cache has answered with "Ok" was done, whatever has failed.
THEOREM PageOkWasDone == Spec => []OkWasDone
<1>1. PageInv => OkWasDone
  BY DEF PageInv, RequestInv, OkWasDone, AnsweredOk, StoredSet, Method, Sent, BodyAt
<1> QED BY <1>1, PageInvariant, PTL

\* No get of any tab reads the past, but what a retried set has brought back,
\* where the container has room for all keys.
THEOREM PageRegularRead == Spec => []RegularRead
<1>1. ASSUME PageInv, NEW i \in Made, Method(i) = "get", xhr[i].outcome = "resolved",
             ToCache(i), AllFit
      PROVE  /\ BodyAt(i).code = "Ok" =>
                   \E j \in SetsLike(i) :
                      /\ Sent(j) = BodyAt(i).value /\ seen[j] # {}
                      /\ retried[j] \/ ~ \E l \in SetsLike(i) \cap past[i] : j \in past[l]
             /\ BodyAt(i).code = "NotFound" => SetsLike(i) \cap past[i] = {}
  <2>1. xhr[i].net = "answered"
    BY <1>1 DEF PageInv, RequestInv
  <2>2. \A j \in Made : j \in SetsLike(i) <=> SetAt(j, At(i), Asked(i).key)
    BY DEF SetsLike, SetAt, Method, At
  <2>3. past[i] \subseteq Made
    BY <1>1, RequestTypes DEF PageInv
  <2>4. ASSUME BodyAt(i).code = "Ok"
        PROVE  \E j \in SetsLike(i) :
                  /\ Sent(j) = BodyAt(i).value /\ seen[j] # {}
                  /\ retried[j] \/ ~ \E l \in SetsLike(i) \cap past[i] : j \in past[l]
    <3>1. BodyAt(i).value \in seen[i] \ {None}
      BY <1>1, <2>1, <2>4 DEF PageInv, RequestInv
    <3>2. PICK j \in Made : /\ StoredAt(j, At(i), Asked(i).key) /\ Sent(j) = BodyAt(i).value
                            /\ Stands(j, past[i], At(i), Asked(i).key)
      BY <1>1, <3>1 DEF PageInv, ReadInv
    <3> QED BY <2>2, <2>3, <3>2 DEF StoredAt, StoredSet, Stands
  <2>5. ASSUME BodyAt(i).code = "NotFound" PROVE SetsLike(i) \cap past[i] = {}
    <3>1. None \in seen[i]
      BY <1>1, <2>1, <2>5 DEF PageInv, RequestInv
    <3> QED BY <1>1, <2>2, <2>3, <3>1 DEF PageInv, ReadInv
  <2> QED BY <2>4, <2>5
<1>2. PageInv => RegularRead
  BY <1>1 DEF RegularRead, Method, Sent, BodyAt
<1> QED BY <1>2, PageInvariant, PTL
-------------------------------------------------------------------------------
(* Seen from its pages, the server at home keeps the promise of AtLeastOnceKv *)
(* as well: requests are calls, and what is told of one is the answer of an   *)
(* execution.                                                                 *)
HttpCall == 1 .. MaxRequests

AtHome(i) == i \in Made /\ At(i) = "home"

\* The body of request i tells the answer of the cache.
TellsAnswer(i) == xhr[i].net = "answered" /\ BodyAt(i).code \in Code

RequestOf(i) == IF AtHome(i) THEN Asked(i) ELSE NoRequest

StatusOf(i) ==
    IF ~ AtHome(i) THEN "idle"
    ELSE IF xhr[i].outcome = "pending" THEN "waiting"
    ELSE IF xhr[i].outcome = "resolved" /\ TellsAnswer(i) THEN "answered"
    ELSE "failed"

ResultsOf(i) == IF AtHome(i) THEN answers[i] ELSE {}

AnswerOf(i) == IF StatusOf(i) = "answered" THEN AnswerIn(i) ELSE Unset

AbsRequest == [i \in HttpCall |-> RequestOf(i)]
AbsStatus == [i \in HttpCall |-> StatusOf(i)]
AbsResults == [i \in HttpCall |-> ResultsOf(i)]
AbsAnswer == [i \in HttpCall |-> AnswerOf(i)]

\* The server at home does not restart here.
Promise == INSTANCE AtLeastOnceKv
    WITH Call <- HttpCall, request <- AbsRequest, store <- cache["home"].val,
         status <- AbsStatus, results <- AbsResults, answer <- AbsAnswer, restarts <- 0

\* No more requests are made than there are calls.
EnoughCalls == Len(xhr) <= MaxRequests

\* What an answer, a settled promise and a reload change of the requests.
LEMMA OneRequest ==
    ASSUME PageInv, NEW i \in Made,
           \/ \E reply : Arrive(i, reply)
           \/ LoadEnd(i)
           \/ HandleError(i)
    PROVE  /\ Made' = Made /\ Len(xhr') = Len(xhr)
           /\ \A j \in Made \ {i} : xhr'[j] = xhr[j]
           /\ xhr'[i].config = xhr[i].config /\ xhr'[i].owner = xhr[i].owner
           /\ \A reply : Arrive(i, reply) =>
                /\ xhr'[i].net = "answered" /\ xhr'[i].reply = reply
                /\ xhr'[i].outcome = xhr[i].outcome
           /\ LoadEnd(i) \/ HandleError(i) =>
                xhr'[i].net = xhr[i].net /\ xhr'[i].reply = xhr[i].reply
           /\ LoadEnd(i) => xhr'[i].outcome = Settle(xhr[i].reply)
           /\ HandleError(i) => xhr'[i].outcome = "rejected"
<1>1. xhr[i] \in XmlHttpRequest /\ xhr \in Seq(XmlHttpRequest)
  BY RequestTypes DEF PageInv, TypeOK
<1>2. ASSUME NEW e, xhr' = [xhr EXCEPT ![i] = e]
      PROVE  /\ Made' = Made /\ Len(xhr') = Len(xhr) /\ xhr'[i] = e
             /\ \A j \in Made \ {i} : xhr'[j] = xhr[j]
  <2>1. xhr \in Seq(XmlHttpRequest \cup {e})
    BY <1>1
  <2> QED BY <1>2, <2>1, ReplaceElement DEF Made
<1>3. ASSUME NEW reply, Arrive(i, reply)
      PROVE  xhr' = [xhr EXCEPT ![i] = [xhr[i] EXCEPT !.net = "answered", !.reply = reply]]
  BY <1>3 DEF Arrive
<1>4. ASSUME LoadEnd(i)
      PROVE  xhr' = [xhr EXCEPT ![i] = [xhr[i] EXCEPT !.request = "null",
                                                      !.outcome = Settle(xhr[i].reply)]]
  BY <1>4 DEF LoadEnd
<1>5. ASSUME HandleError(i)
      PROVE  xhr' = [xhr EXCEPT ![i] = [xhr[i] EXCEPT !.request = "null",
                                                      !.outcome = "rejected"]]
  BY <1>5 DEF HandleError
<1>6. DOMAIN xhr[i] = {"owner", "config", "net", "reply", "request", "outcome"}
  BY <1>1 DEF XmlHttpRequest
<1>7. ASSUME NEW reply, Arrive(i, reply)
      PROVE  /\ Made' = Made /\ Len(xhr') = Len(xhr)
             /\ \A j \in Made \ {i} : xhr'[j] = xhr[j]
             /\ xhr'[i].config = xhr[i].config /\ xhr'[i].owner = xhr[i].owner
             /\ xhr'[i].net = "answered" /\ xhr'[i].reply = reply
             /\ xhr'[i].outcome = xhr[i].outcome
  <2> DEFINE e == [xhr[i] EXCEPT !.net = "answered", !.reply = reply]
  <2>1. /\ e.config = xhr[i].config /\ e.owner = xhr[i].owner /\ e.net = "answered"
        /\ e.reply = reply /\ e.outcome = xhr[i].outcome
    BY <1>6
  <2>2. xhr' = [xhr EXCEPT ![i] = e]
    BY <1>3, <1>7
  <2> HIDE DEF e
  <2> QED BY <1>2, <2>1, <2>2
<1>8. ASSUME NEW o,
             xhr' = [xhr EXCEPT ![i] = [xhr[i] EXCEPT !.request = "null", !.outcome = o]]
      PROVE  /\ Made' = Made /\ Len(xhr') = Len(xhr)
             /\ \A j \in Made \ {i} : xhr'[j] = xhr[j]
             /\ xhr'[i].config = xhr[i].config /\ xhr'[i].owner = xhr[i].owner
             /\ xhr'[i].net = xhr[i].net /\ xhr'[i].reply = xhr[i].reply
             /\ xhr'[i].outcome = o
  <2> DEFINE e == [xhr[i] EXCEPT !.request = "null", !.outcome = o]
  <2>1. /\ e.config = xhr[i].config /\ e.owner = xhr[i].owner /\ e.net = xhr[i].net
        /\ e.reply = xhr[i].reply /\ e.outcome = o
    BY <1>6
  <2>2. xhr' = [xhr EXCEPT ![i] = e]
    BY <1>8
  <2> HIDE DEF e
  <2> QED BY <1>2, <2>1, <2>2
<1> QED BY <1>4, <1>5, <1>7, <1>8

\* What a click adds to them.
LEMMA NewRequest ==
    ASSUME PageInv, NEW p \in Page, NEW method, NEW data, Click(p, method, data)
    PROVE  \E n \in Nat :
              /\ n = Len(xhr) + 1 /\ Len(xhr') = n /\ Len(xhr) < MaxRequests
              /\ n \notin Made /\ Made' = Made \cup {n}
              /\ \A j \in Made : xhr'[j] = xhr[j] /\ answers'[j] = answers[j]
              /\ xhr'[n].owner = p /\ xhr'[n].outcome = "pending"
              /\ xhr'[n].net = "travelling" /\ answers'[n] = {}
              /\ xhr'[n].config = [method |-> method, address |-> address[p],
                                   key |-> row[p].key, data |-> data]
<1> DEFINE e == [owner |-> p, config |-> [method |-> method, address |-> address[p],
                                          key |-> row[p].key, data |-> data],
                 net |-> "travelling", reply |-> NoReply,
                 request |-> "open", outcome |-> "pending"]
<1>1. /\ xhr' = Append(xhr, e) /\ answers' = Append(answers, {}) /\ Len(xhr) < MaxRequests
  BY DEF Click, Send
<1>2. /\ e.owner = p /\ e.outcome = "pending" /\ e.net = "travelling"
      /\ e.config = [method |-> method, address |-> address[p],
                      key |-> row[p].key, data |-> data]
  OBVIOUS
<1> HIDE DEF e
<1>3. xhr \in Seq(XmlHttpRequest \cup {e}) /\ answers \in Seq(SUBSET Response)
      /\ Len(answers) = Len(xhr) /\ Made = 1 .. Len(xhr)
  <2>1. xhr \in Seq(XmlHttpRequest)
    BY DEF PageInv, TypeOK
  <2> QED BY <2>1 DEF PageInv, TypeOK, Made
<1>4. PICK n \in Nat : n = Len(xhr) + 1
  BY <1>3
<1>5. /\ Len(xhr') = n /\ Made' = 1 .. n /\ xhr'[n] = e
      /\ \A j \in Made : xhr'[j] = xhr[j]
  BY <1>1, <1>3, <1>4 DEF Made
<1>6. answers'[n] = {} /\ \A j \in Made : answers'[j] = answers[j]
  BY <1>1, <1>3, <1>4
<1> QED BY <1>1, <1>2, <1>3, <1>4, <1>5, <1>6

LEMMA CallsSuffice == Spec => []EnoughCalls
<1>1. Init => EnoughCalls
  BY MaxRequestsAssumption DEF Init, EnoughCalls
<1>2. ASSUME PageInv, EnoughCalls, [Next]_vars PROVE EnoughCalls'
  <2> USE <1>2
  <2>1. ASSUME Len(xhr') = Len(xhr) PROVE EnoughCalls'
    BY <2>1 DEF EnoughCalls
  <2>2. CASE xhr' = xhr
    BY <2>1, <2>2
  <2>3. ASSUME NEW p \in Page, NEW method, NEW data, Click(p, method, data)
        PROVE  EnoughCalls'
    <3>1. PICK n \in Nat : n = Len(xhr) + 1 /\ Len(xhr') = n /\ Len(xhr) < MaxRequests
      BY <2>3, NewRequest
    <3> QED BY <3>1, MaxRequestsAssumption DEF EnoughCalls, PageInv, TypeOK
  <2>4. ASSUME NEW p \in Page, Reload(p) PROVE EnoughCalls'
    <3>1. DOMAIN xhr' = DOMAIN xhr
      BY <2>4 DEF Reload, Unload, Made
    <3>2. TypeOK /\ TypeOK'
      BY StepPage DEF PageInv
    <3>3. Len(xhr') = Len(xhr)
      BY <3>1, <3>2 DEF TypeOK
    <3> QED BY <2>1, <3>3
  <2>5. ASSUME NEW i \in Made,
               \/ \E reply : Arrive(i, reply)
               \/ LoadEnd(i)
               \/ HandleError(i)
        PROVE  EnoughCalls'
    BY <2>1, <2>5, OneRequest
  <2> QED BY <2>2, <2>3, <2>4, <2>5
          DEF Next, Type, TypeAddress, Edit, get_cache_value, set_cache_value, Serve, Refuse,
              ServeElsewhere, Retry, LateExecution, ForwardFails, Answered, Failed, vars
<1> QED BY <1>1, <1>2, PageInvariant, PTL DEF Spec

\* The abstract module speaks of the same messages.
LEMMA SameMessages ==
    /\ Promise!Request = Request /\ Promise!NoRequest = NoRequest
    /\ Promise!Unset = Unset
    /\ \A s, r : Promise!StoreReply(s, r) = StoreReply(s, r)
    /\ \A s, r, t : Promise!StoreStep(s, r, t) <=> StoreStep(s, r, t)
BY DEF Promise!Request, Request, Promise!NoRequest, NoRequest, Promise!Unset, Unset,
       Promise!Answer, Answer, Promise!StoreReply, StoreReply, Promise!StoreStep, StoreStep,
       Promise!StoreAfter, StoreAfter

LEMMA InitKeepsPromise == Init => Promise!Init
<1> SUFFICES ASSUME Init PROVE Promise!Init
  OBVIOUS
<1>1. \A i : ~ AtHome(i)
  BY DEF Init, AtHome, Made
<1>2. \A i : /\ RequestOf(i) = NoRequest /\ StatusOf(i) = "idle" /\ ResultsOf(i) = {}
             /\ AnswerOf(i) = Unset
  BY <1>1 DEF RequestOf, StatusOf, ResultsOf, AnswerOf
<1>3. cache["home"].val = [k \in Key |-> None]
  BY DEF Init, EmptyCache, CacheServer
<1> QED BY <1>2, <1>3, SameMessages
        DEF Promise!Init, AbsRequest, AbsStatus, AbsResults, AbsAnswer

\* The step looks like none for call j.
CallKept(j) ==
    /\ RequestOf(j)' = RequestOf(j) /\ StatusOf(j)' = StatusOf(j)
    /\ ResultsOf(j)' = ResultsOf(j) /\ AnswerOf(j)' = AnswerOf(j)

LEMMA KeptCall ==
    ASSUME NEW j, j \in Made' <=> j \in Made,
           j \in Made => /\ xhr'[j].config = xhr[j].config /\ xhr'[j].net = xhr[j].net
                         /\ xhr'[j].reply = xhr[j].reply
                         /\ xhr'[j].outcome = xhr[j].outcome
                         /\ AtHome(j) => answers'[j] = answers[j]
    PROVE  CallKept(j)
<1>1. AtHome(j)' <=> AtHome(j)
  BY DEF AtHome, At
<1>2. CASE AtHome(j)
  <2>1. j \in Made
    BY <1>2 DEF AtHome
  <2>2. /\ TellsAnswer(j)' <=> TellsAnswer(j)
        /\ AnswerIn(j)' = AnswerIn(j) /\ Asked(j)' = Asked(j)
    BY <2>1, SameConfig DEF TellsAnswer, AnswerIn, BodyAt
  <2>3. StatusOf(j)' = StatusOf(j)
    BY <1>1, <2>1, <2>2 DEF StatusOf
  <2> QED BY <1>1, <1>2, <2>1, <2>2, <2>3 DEF CallKept, RequestOf, ResultsOf, AnswerOf
<1>3. CASE ~ AtHome(j)
  BY <1>1, <1>3 DEF CallKept, RequestOf, StatusOf, ResultsOf, AnswerOf
<1> QED BY <1>2, <1>3

\* A step that concerns one call, or none.
LEMMA OneCall ==
    ASSUME NEW i \in HttpCall, \A j \in HttpCall \ {i} : CallKept(j)
    PROVE  /\ AbsRequest' = [AbsRequest EXCEPT ![i] = RequestOf(i)']
           /\ AbsStatus' = [AbsStatus EXCEPT ![i] = StatusOf(i)']
           /\ AbsResults' = [AbsResults EXCEPT ![i] = ResultsOf(i)']
           /\ AbsAnswer' = [AbsAnswer EXCEPT ![i] = AnswerOf(i)']
           /\ RequestOf(i)' = RequestOf(i) => UNCHANGED AbsRequest
           /\ StatusOf(i)' = StatusOf(i) => UNCHANGED AbsStatus
           /\ ResultsOf(i)' = ResultsOf(i) => UNCHANGED AbsResults
           /\ AnswerOf(i)' = AnswerOf(i) => UNCHANGED AbsAnswer
<1>1. HttpCall' = HttpCall
  BY DEF HttpCall
<1> QED BY <1>1 DEF CallKept, AbsRequest, AbsStatus, AbsResults, AbsAnswer

LEMMA NoCall ==
    ASSUME \A j \in HttpCall : CallKept(j), cache'["home"].val = cache["home"].val
    PROVE  UNCHANGED Promise!vars
<1>1. HttpCall' = HttpCall
  BY DEF HttpCall
<1> QED BY <1>1 DEF CallKept, AbsRequest, AbsStatus, AbsResults, AbsAnswer, Promise!vars

\* A click is a new call, if it is meant for the server at home.
LEMMA ClickKeepsPromise ==
    ASSUME PageInv, NEW p \in Page, NEW method \in {"get", "post"},
           NEW data \in FieldText, Click(p, method, data)
    PROVE  [Promise!Next]_Promise!vars
<1> DEFINE config == [method |-> method, address |-> address[p],
                      key |-> row[p].key, data |-> data]
<1>1. PICK n \in Nat :
        /\ n = Len(xhr) + 1 /\ Len(xhr) < MaxRequests
        /\ n \notin Made /\ Made' = Made \cup {n}
        /\ \A j \in Made : xhr'[j] = xhr[j] /\ answers'[j] = answers[j]
        /\ xhr'[n].outcome = "pending"
        /\ xhr'[n].net = "travelling" /\ answers'[n] = {}
        /\ xhr'[n].config = config
  BY NewRequest
<1>2. n \in HttpCall
  BY <1>1, MaxRequestsAssumption DEF PageInv, TypeOK, HttpCall
<1>3. \A j \in HttpCall \ {n} : CallKept(j)
  BY <1>1, KeptCall
<1>4. KvRequestOf(config) \in Request /\ cache' = cache
  <2>1. config.key \in TypedKey /\ config.method = method /\ config.data = data
    BY DEF PageInv, TypeOK
  <2>2. BodySent(data) = Empty \/ BodySent(data) \in Value
    BY DEF BodySent, FieldText
  <2>3. UrlKey[config.key] \in Key
    BY <2>1, UrlKeyAssumption
  <2> HIDE DEF config
  <2> QED BY <2>1, <2>2, <2>3 DEF KvRequestOf, Request, Click
<1>5. /\ ~ AtHome(n) /\ (AtHome(n)' <=> config.address = "home")
      /\ ~ TellsAnswer(n)'
  BY <1>1 DEF AtHome, At, TellsAnswer
<1>6. /\ RequestOf(n) = NoRequest /\ StatusOf(n) = "idle" /\ ResultsOf(n) = {}
      /\ AnswerOf(n) = Unset
      /\ ResultsOf(n)' = {} /\ AnswerOf(n)' = Unset
      /\ RequestOf(n)' = IF config.address = "home" THEN KvRequestOf(config) ELSE NoRequest
      /\ StatusOf(n)' = IF config.address = "home" THEN "waiting" ELSE "idle"
  <2>1. StatusOf(n)' = IF config.address = "home" THEN "waiting" ELSE "idle"
    BY <1>1, <1>5 DEF StatusOf
  <2> QED BY <1>1, <1>5, <2>1 DEF RequestOf, StatusOf, ResultsOf, AnswerOf, Asked
<1> HIDE DEF config
<1>7. CASE config.address = "home"
  <2>1. Promise!Send(n)
    BY <1>2, <1>3, <1>4, <1>6, <1>7, OneCall, SameMessages
    DEF Promise!Send, AbsStatus, AbsRequest
  <2> QED BY <1>2, <2>1 DEF Promise!Next
<1>8. CASE config.address # "home"
  <2>1. \A j \in HttpCall : CallKept(j)
    BY <1>3, <1>6, <1>8 DEF CallKept
  <2> QED BY <1>4, <2>1, NoCall
<1> QED BY <1>7, <1>8

\* An execution at home, whenever it happens, is one of the call; an execution
\* at the other cache is none of this store.
LEMMA ExecuteKeepsPromise ==
    ASSUME PageInv, EnoughCalls, NEW i \in Made, ToCache(i), Execute(i),
           \/ xhr' = xhr
           \/ \E reply : Arrive(i, reply)
    PROVE  [Promise!Next]_Promise!vars
<1> DEFINE a == At(i)
           r == Asked(i)
           c == cache[a]
<1>1. /\ cache' = [cache EXCEPT ![a] = Effect(c, r)]
      /\ answers' = [answers EXCEPT ![i] = @ \cup {Reply(c, r)}]
  BY DEF Execute, At
<1>2. /\ r \in Request /\ WellFormed(c) /\ a \in CacheServer
      /\ cache \in [CacheServer -> Cache] /\ DOMAIN answers = Made /\ i \in HttpCall
  <2>1. i \in HttpCall
    BY MaxRequestsAssumption DEF PageInv, TypeOK, EnoughCalls, HttpCall, Made
  <2>2. a \in CacheServer
    BY DEF ToCache, At
  <2> QED BY <2>1, <2>2, RequestTypes DEF PageInv, TypeOK
<1>3. /\ Made' = Made /\ xhr'[i].config = xhr[i].config
      /\ \A j \in Made \ {i} : xhr'[j] = xhr[j] /\ answers'[j] = answers[j]
      /\ xhr'[i].outcome = xhr[i].outcome
      /\ xhr[i].outcome = "resolved" => xhr'[i] = xhr[i]
      /\ answers'[i] = answers[i] \cup {Reply(c, r)}
  <2>1. /\ \A j \in Made \ {i} : answers'[j] = answers[j]
        /\ answers'[i] = answers[i] \cup {Reply(c, r)}
    BY <1>1, <1>2
  <2>2. CASE xhr' = xhr
    BY <2>1, <2>2 DEF Made
  <2>3. ASSUME NEW reply, Arrive(i, reply)
        PROVE  /\ Made' = Made /\ xhr'[i].config = xhr[i].config
               /\ \A j \in Made \ {i} : xhr'[j] = xhr[j]
               /\ xhr'[i].outcome = xhr[i].outcome
               /\ xhr[i].outcome # "resolved"
    <3>1. xhr[i].net = "travelling" /\ xhr[i].outcome # "resolved"
      BY <2>3 DEF Arrive, PageInv, RequestInv
    <3> QED BY <2>3, <3>1, OneRequest
  <2> QED BY <2>1, <2>2, <2>3
<1>4. \A j \in HttpCall \ {i} : CallKept(j)
  BY <1>3, KeptCall
<1>5. (AtHome(i)' <=> AtHome(i)) /\ RequestOf(i)' = RequestOf(i)
  <2>1. Asked(i)' = Asked(i) /\ At(i)' = At(i)
    BY <1>3, SameConfig
  <2>2. AtHome(i)' <=> AtHome(i)
    BY <1>3, <2>1 DEF AtHome
  <2> QED BY <2>1, <2>2 DEF RequestOf
<1>6. StatusOf(i)' = StatusOf(i) /\ AnswerOf(i)' = AnswerOf(i)
  <2>1. CASE xhr[i].outcome = "resolved"
    <3>1. /\ TellsAnswer(i)' <=> TellsAnswer(i)
          /\ AnswerIn(i)' = AnswerIn(i)
      BY <1>3, <2>1 DEF TellsAnswer, AnswerIn, BodyAt, Method
    <3> QED BY <1>3, <1>5, <3>1 DEF StatusOf, AnswerOf
  <2>2. CASE xhr[i].outcome # "resolved"
    <3>1. StatusOf(i)' = StatusOf(i) /\ StatusOf(i) # "answered"
      BY <1>3, <1>5, <2>2 DEF StatusOf
    <3> QED BY <3>1 DEF AnswerOf
  <2> QED BY <2>1, <2>2
<1> HIDE DEF r, c
<1>7. CASE AtHome(i)
  <2>1. a = "home" /\ c = cache["home"] /\ cache'["home"] = Effect(c, r)
    BY <1>1, <1>2, <1>7 DEF AtHome, c
  <2>2. /\ StoreReply(cache["home"].val, r) = Reply(c, r)
        /\ StoreStep(cache["home"].val, r, cache'["home"].val)
    <3>1. WellFormed(Effect(c, r)) /\ r.key \in Key
      BY <1>2, EffectProperties DEF Request
    <3>2. /\ cache["home"].val \in [Key -> Value \cup {None}]
          /\ cache'["home"].val \in [Key -> Value \cup {None}]
      BY <1>2, <2>1, <3>1 DEF WellFormed, Cache
    <3>3. \A k \in Key : cache["home"].val[k] = c.val[k]
                         /\ cache'["home"].val[k] = Effect(c, r).val[k]
      BY <2>1
    <3> QED BY <1>2, <3>1, <3>2, <3>3, ExecutionIsStoreStep
  <2>3. /\ Promise!StoreReply(cache["home"].val, r) = Reply(c, r)
        /\ Promise!StoreStep(cache["home"].val, r, cache'["home"].val)
    BY <2>2, SameMessages
  <2>4. /\ AbsRequest[i] = r /\ AbsResults[i] = answers[i] /\ AbsStatus[i] # "idle"
        /\ ResultsOf(i)' = answers[i] \cup {Reply(c, r)}
    BY <1>2, <1>3, <1>5, <1>7
       DEF AbsRequest, AbsResults, AbsStatus, RequestOf, ResultsOf, StatusOf, r
  <2>5. /\ AbsResults' = [AbsResults EXCEPT ![i] = AbsResults[i] \cup {Reply(c, r)}]
        /\ UNCHANGED <<AbsRequest, AbsStatus, AbsAnswer>>
    BY <1>2, <1>4, <1>5, <1>6, <2>4, OneCall
  <2>6. Promise!Execute(i)
    BY <2>3, <2>4, <2>5 DEF Promise!Execute
  <2> QED BY <1>2, <2>6 DEF Promise!Next
<1>8. CASE ~AtHome(i)
  <2>1. CallKept(i)
    BY <1>5, <1>6, <1>8 DEF CallKept, ResultsOf
  <2>2. cache'["home"] = cache["home"]
    BY <1>1, <1>2, <1>8 DEF AtHome, CacheServer
  <2> QED BY <1>4, <2>1, <2>2, NoCall
<1> QED BY <1>7, <1>8

\* An answer without an execution tells no call anything yet.
LEMMA ErrorKeepsPromise ==
    ASSUME PageInv, NEW i \in Made, NEW reply, Arrive(i, reply), UNCHANGED <<cache, answers>>
    PROVE  [Promise!Next]_Promise!vars
<1>1. /\ Made' = Made /\ xhr'[i].config = xhr[i].config
      /\ \A j \in Made \ {i} : xhr'[j] = xhr[j] /\ answers'[j] = answers[j]
      /\ xhr'[i].outcome = xhr[i].outcome /\ answers'[i] = answers[i]
  BY OneRequest
<1>2. xhr[i].net = "travelling" /\ xhr[i].outcome # "resolved"
  BY DEF Arrive, PageInv, RequestInv
<1>3. (AtHome(i)' <=> AtHome(i)) /\ Asked(i)' = Asked(i)
  BY <1>1, SameConfig DEF AtHome
<1>4. StatusOf(i)' = StatusOf(i) /\ StatusOf(i) # "answered"
  BY <1>1, <1>2, <1>3 DEF StatusOf
<1>5. CallKept(i)
  BY <1>1, <1>3, <1>4 DEF CallKept, RequestOf, ResultsOf, AnswerOf
<1>6. \A j \in HttpCall : CallKept(j)
  BY <1>1, <1>5, KeptCall
<1> QED BY <1>6, NoCall

\* The promise of a request is settled: its client is told an answer, or that
\* the request has failed.
LEMMA SettledKeepsPromise ==
    ASSUME PageInv, EnoughCalls, NEW i \in Made, LoadEnd(i) \/ HandleError(i),
           UNCHANGED <<cache, answers>>
    PROVE  [Promise!Next]_Promise!vars
<1>1. /\ Made' = Made /\ xhr'[i].config = xhr[i].config
      /\ \A j \in Made \ {i} : xhr'[j] = xhr[j] /\ answers'[j] = answers[j]
      /\ xhr'[i].net = xhr[i].net /\ xhr'[i].reply = xhr[i].reply
      /\ xhr'[i].outcome \in {"resolved", "rejected"} /\ answers'[i] = answers[i]
  BY OneRequest DEF Settle
<1>2. xhr[i].outcome = "pending"
  BY DEF LoadEnd, HandleError, PageInv, RequestInv
<1>3. \A j \in HttpCall \ {i} : CallKept(j)
  BY <1>1, KeptCall
<1>4. i \in HttpCall
  BY MaxRequestsAssumption DEF PageInv, TypeOK, EnoughCalls, HttpCall, Made
<1>5. /\ AtHome(i)' <=> AtHome(i)
      /\ TellsAnswer(i)' <=> TellsAnswer(i)
      /\ AnswerIn(i)' = AnswerIn(i) /\ Asked(i)' = Asked(i)
  BY <1>1, SameConfig DEF AtHome, TellsAnswer, AnswerIn, BodyAt
<1>6. RequestOf(i)' = RequestOf(i) /\ ResultsOf(i)' = ResultsOf(i)
  BY <1>1, <1>5 DEF RequestOf, ResultsOf
<1>7. CASE ~ AtHome(i)
  <2>1. CallKept(i)
    BY <1>5, <1>6, <1>7 DEF CallKept, StatusOf, AnswerOf
  <2> QED BY <1>3, <2>1, NoCall
<1>8. CASE AtHome(i)
  <2>1. /\ StatusOf(i) = "waiting" /\ AnswerOf(i) = Unset
        /\ AbsStatus[i] = "waiting" /\ AbsResults[i] = ResultsOf(i)
    BY <1>2, <1>4, <1>8 DEF StatusOf, AnswerOf, AbsStatus, AbsResults
  <2>2. /\ AbsStatus' = [AbsStatus EXCEPT ![i] = StatusOf(i)']
        /\ AbsAnswer' = [AbsAnswer EXCEPT ![i] = AnswerOf(i)']
        /\ AnswerOf(i)' = AnswerOf(i) => UNCHANGED AbsAnswer
        /\ UNCHANGED <<AbsRequest, AbsResults>>
    BY <1>3, <1>4, <1>6, OneCall
  <2>3. CASE xhr'[i].outcome = "resolved" /\ TellsAnswer(i)
    <3>1. StatusOf(i)' = "answered" /\ AnswerOf(i)' = AnswerIn(i)
      BY <1>5, <1>8, <2>3 DEF StatusOf, AnswerOf
    <3>2. AnswerIn(i) \in ResultsOf(i)
      BY <1>8, <2>3 DEF PageInv, RequestInv, TellsAnswer, ResultsOf, AtHome, At, ToCache,
                        CacheServer
    <3>3. Promise!Tell(i)
      BY <2>1, <2>2, <3>1, <3>2 DEF Promise!Tell
    <3> QED BY <1>4, <3>3 DEF Promise!Next
  <2>4. CASE ~ (xhr'[i].outcome = "resolved" /\ TellsAnswer(i))
    <3>1. StatusOf(i)' = "failed"
      BY <1>1, <1>5, <1>8, <2>4 DEF StatusOf
    <3>2. AnswerOf(i)' = Unset
      BY <3>1 DEF AnswerOf
    <3>3. Promise!GiveUp(i)
      BY <2>1, <2>2, <3>1, <3>2 DEF Promise!GiveUp
    <3> QED BY <1>4, <3>3 DEF Promise!Next
  <2> QED BY <2>3, <2>4
<1> QED BY <1>7, <1>8

\* A reload forgets who is waiting; the calls stay what they are.
LEMMA ReloadKeepsPromise ==
    ASSUME PageInv, NEW p \in Page, Reload(p) PROVE [Promise!Next]_Promise!vars
<1>1. PICK gone : Unload(gone)
  BY DEF Reload
<1>2. UNCHANGED <<cache, answers>>
  BY DEF Reload, serverVars
<1>3. /\ Made' = Made
      /\ \A j \in Made : xhr'[j] = xhr[j] \/ xhr'[j] = [xhr[j] EXCEPT !.request = "gone"]
  BY <1>1 DEF Unload, Made
<1>4. ASSUME NEW j \in Made
      PROVE  /\ xhr'[j].config = xhr[j].config /\ xhr'[j].net = xhr[j].net
             /\ xhr'[j].reply = xhr[j].reply /\ xhr'[j].outcome = xhr[j].outcome
  <2>1. DOMAIN xhr[j] = {"owner", "config", "net", "reply", "request", "outcome"}
    BY RequestTypes DEF PageInv, XmlHttpRequest
  <2> QED BY <1>3, <2>1
<1>5. \A j \in HttpCall : CallKept(j)
  BY <1>2, <1>3, <1>4, KeptCall
<1> QED BY <1>2, <1>5, NoCall

LEMMA StepKeepsPromise ==
    ASSUME PageInv, EnoughCalls, [Next]_vars PROVE [Promise!Next]_Promise!vars
<1>1. CASE UNCHANGED <<xhr, cache, answers>>
  <2>1. \A j \in HttpCall : CallKept(j)
    BY <1>1, KeptCall DEF Made
  <2> QED BY <1>1, <2>1, NoCall
<1>2. ASSUME NEW p \in Page, get_cache_value(p) PROVE [Promise!Next]_Promise!vars
  BY <1>2, ClickKeepsPromise DEF get_cache_value, FieldText
<1>3. ASSUME NEW p \in Page, set_cache_value(p) PROVE [Promise!Next]_Promise!vars
  <2>1. row[p].value \in FieldText
    BY DEF PageInv, TypeOK
  <2> QED BY <1>3, <2>1, ClickKeepsPromise DEF set_cache_value
<1>4. ASSUME NEW i \in Made, Serve(i) PROVE [Promise!Next]_Promise!vars
  BY <1>4, ExecuteKeepsPromise DEF Serve
<1>5. ASSUME NEW i \in Made, LateExecution(i) PROVE [Promise!Next]_Promise!vars
  BY <1>5, ExecuteKeepsPromise DEF LateExecution, PageInv, RequestInv
<1>6. ASSUME NEW i \in Made, Refuse(i) \/ ForwardFails(i) \/ ServeElsewhere(i)
      PROVE  [Promise!Next]_Promise!vars
  BY <1>6, ErrorKeepsPromise DEF Refuse, ForwardFails, ServeElsewhere, serverVars
<1>7. ASSUME NEW i \in Made, Answered(i) \/ Failed(i) PROVE [Promise!Next]_Promise!vars
  BY <1>7, SettledKeepsPromise DEF Answered, Failed, serverVars
<1> QED BY <1>1, <1>2, <1>3, <1>4, <1>5, <1>6, <1>7, ReloadKeepsPromise
        DEF Next, Type, TypeAddress, Edit, Retry, vars, serverVars

\* What a page is told by the server at home was answered by an execution of its
\* request: the pages and their requests, with every failure, repetition and
\* overtaking, implement the same promise as the RPC cluster and the HTTP
\* interface.
THEOREM PagesKeepPromise == Spec => Promise!Spec
BY PageInvariant, CallsSuffice, InitKeepsPromise, StepKeepsPromise, PTL
   DEF Spec, Promise!Spec
================================================================================
