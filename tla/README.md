# A TLA+ model of the hala examples

This directory holds a formal model of the programs in this repository: the
stages `a001` to `a010` of a tutorial, which end in a distributed in-memory
key-value cache (`a010-hala-kv`), and the collection of RPC examples under
`melon-examples`. The model consists of TLA+ modules, TLC configurations that
check them on small instances, and proofs checked by TLAPS for all instances.

## 1. The system

The core is `a010-hala-kv`: a set of server processes, each with a bounded LRU
cache, that together hold the keys. A client talks to any process, over RPC or
over HTTP; a process serves the keys whose hash selects it from its own cache
and forwards the others to the process they belong to.

```
 browser --HTTP--> restful_service --+                 +--> Cache (shared mutex, LRU)
                                     |                 |
 client.cc --RPC--> kv_service ------+--> KvProxy -----+
                        ^                              |
                        |                              +--> Fiber --> RouterSender::send_request
                        +------------- RPC of a peer <------------------------+
```

| Part | State | Operations | Hard about it |
|---|---|---|---|
| `Cache` (`cache.cc`) | the LRU container, a shared mutex | `put`, `get`, `remove`, from all threads of the server | a lookup returns a pointer into the container; `remove` is a lookup followed by an erase; `get` reorders the recency list under a shared lock; eviction |
| `KvProxy` (`kv_proxy.cc`) | the `--peers` list, the own position in it, one sender per peer | `initialize`, `set`, `get`, `remove` | each process decides alone which peer owns a key; the status of a failed forward is dropped |
| `RouterSender` (`router_sender.h`) | none that changes | `send_request`: up to three attempts of 300 ms, a second apart | an attempt that timed out may still be executed |
| `Fiber` (`fiber.h`) | a fiber number | `run_urgent`, `join` | a start that failed is only logged, and `join` waits for a number nobody assigned |
| `KvServiceimpl` (`kv_service.cc`) | none | `set`, `get`, `remove` over RPC | a forwarded request enters the same proxy again |
| `restful_service.cc` | two prepared error bodies | `/cache/set`, `/cache/get`, root, not found | every outcome has to be put into a status and a body |
| `client.cc` | none | one request per run | its timeout is shorter than a forward |
| `server.cc` | the flags | start-up | a restarted process is empty |
| pages: `HelloWorld.vue` (a006, a008), windows `SetKv` and `GetKv` (a010, `www/js/chunk-d4d8e54a`) with their settings (`chunk-6b4caf3e`) | key, value, code and message on the screen, the requests that are out | two buttons, typing, another server (not in a006), reload | nothing waits for an answer: answers overtake each other, fail after the server has worked, meet fields typed since; a forward of a010 may be executed again later |
| axios (`www/js/chunk-2d0e9211`) | one XMLHttpRequest per call | `get`, `post` | what becomes of an empty body, of a status, of text that is not JSON |
| service worker (`service-worker.js`, `workbox-6567b62a.js`, `registerServiceWorker.js` of a006 and a008) | the precache, the installing, waiting and active worker, the tabs | install, activate, fetch, update | all versions share one precache; builds are copied file by file; the network goes; the old worker serves as long as one tab is open |

What makes them correct: the mutex keeps an entry in place from its lookup to
its last use; a call is atomic for the other threads; a value leaves the cache
only by remove, overwrite or eviction; a key is only ever held by one process;
a forward happens once; an answer is never made up; a handler ends; what a page
shows as done was done; a get reads the past only where a retry brought it back; a page that is installed never breaks, and a new one
arrives in the end.

The earlier stages are subsets: `a009-hala-dkv` has the same proxy and a cache
without a mutex, `a008-hala-kv` no proxy, `a006-hala-vue` only HTTP; `a006`,
`a008` and `a010` come with web pages, those of `a006` and `a008` as installable
applications; `a005` and `a004` are stateless echo servers, `a001` to `a003`
build examples.
`melon-examples/halamelon` holds pairs of servers and clients, each for one
feature of the RPC library: session and thread local data, cancelling,
asynchronous calls, streaming, recursive calls, backup requests, parallel,
partitioned and selective channels, redis, memcache, progressive HTTP.
`PROJECT.json` lists every part with what is modelled of it, and every place
where something can go wrong that a test would hardly reach.

## 2. The modules

| Module | Models | Uses |
|---|---|---|
| `LruCache` | `turbo::LRUCache`, a library: a map and the list of its keys, one atomic step per call | |
| `KvApi` | the messages of `kv.proto`; the answer and the effect of an undisturbed cache operation | `LruCache` |
| `AtomicCache` | abstract: what `Cache` promises to its threads | `KvApi` |
| `HalaCache` | `Cache`, one action per step of `put`, `get`, `remove` between lock and unlock | `KvApi`; implements `AtomicCache` |
| `KvProxy` | the choice of the peer | `KvApi` |
| `AtLeastOnceKv` | abstract: what a kv server promises to its clients, over RPC, over HTTP and through the pages | `KvApi` |
| `HalaCluster` | clients, proxies, senders and RPC handlers of all processes | `KvProxy`; implements `AtLeastOnceKv` |
| `RestfulApi` | the HTTP processors over the proxy | `KvApi`; implements `AtLeastOnceKv` |
| `SessionEcho` | the server of `session`: `Echo`, the job it starts, the pools of their data | |
| `CancelPair` | the client of `cancel`: two calls whose dones cancel each other | |
| `Axios` | a request of axios from the call to the handler of its answer | |
| `CachePage` | the pages and windows, their users, and the server behind them | `Axios`, `KvApi`; implements `AtLeastOnceKv` |
| `ServiceWorker` | the worker, the precache, the tabs, the directory of the server and the network | |
| `MC*` | the constants of the TLC runs | |
| `LruCacheProofs`, `HalaCacheProofs`, `HalaClusterProofs`, `RestfulApiProofs`, `SessionEchoProofs`, `CancelPairProofs`, `CachePageProofs`, `ServiceWorkerProofs` | the theorems | each extends the module it is about |

Names follow the source: `tries` is `retry_time`, `IsLocal` is the comparison of
`get_peer_index(key)` with `_peer_index`, and so on; `PROJECT.json` gives the
lines of every definition. Operators whose comment starts with "Mutant of" are
wrong versions of the definition that follows them, at least one for each
property, with which the property fails. No specification uses them.

**HalaCache.** A thread calls, takes the mutex (`LockExclusive` or
`LockShared`), looks up or stores, copies the value out, erases, unlocks,
leaves. `put` without a value never takes the mutex. The container's calls are
atomic: the code has to rely on that, because `get` reorders the list under a
shared lock. The shared mutex grants any request its holders allow.

**HalaCluster.** One call per client; `front` is where its handler is in the
process it was sent to, `leaf[c][a]` where attempt `a` is in the process that
owns the key. A timeout is a step that may happen at any time (`AttemptFails`,
`ClientFails`), so an attempt may execute before its sender gives up, between
two later attempts, or after everybody has left. The RPC library may resend a
request after a broken connection. The handler whose fiber did not start joins
a number nobody assigned (`FiberFails`); such a join may return (`JoinReturns`)
and may as well never do so, and no fairness says otherwise. A process that
restarts loses its cache and its running forwards. A cache operation is one step
here, which is what `HalaCache` implementing `AtomicCache` justifies.

**RestfulApi.** One request per browser, with and without key and body, to every
path, on keys this process owns and on keys it forwards. The cache is one step
(`Serve`) and the response another (`Answered`), with the requests of other
browsers between them. A forward is executed any number of times, also after the
browser has its response (`PeerExecutes`, which `Forwarded` allows as long as the
request may still be on its way), and ends with one of the answers or none. The
body of a response is the code and value in it; a `KvResponse` without its
required fields cannot be converted to JSON.

**AtLeastOnceKv.** One store, and requests that are executed any number of times
from the moment they are sent; an answer is that of one of the executions, a
failure says nothing. The store forgets keys with a put and with a restart, which
it counts, so that no other step of a model can hide a loss. `HalaCluster`,
`RestfulApi` and `CachePage` implement it, each with its own mapping: the value of
a key is the one its owner holds; the local or the remote cache's; the one in the
cache at home. A request for another path or another server is no call of the
store, and one that is refused before it reaches a cache is a call that fails or
none. What the operations do to the store is said once, in `KvApi`
(`StoreReply`, `StoreAfter`, `StoreStep`), without a container: evictions are
values that a put makes the store forget.

**SessionEcho.** `echo[c]` and `job[c]` are the two fibers of an RPC. `Echo`
starts the job before it releases its guard, so the job may answer while `Echo`
is still in its last lines; the 10 ms sleep that is meant to prevent this is no
guard in the model, and nothing depends on it. An object of a pool carries the
RPC that last wrote into it, which stands for the value the `CHECK`s compare
(`expected_value` mixes the controller's address in). The two kinds of
thread-local data are kept and given back together and are one object here.

**CancelPair.** `main` sends, joins and starts again; a call is ready, sent,
ended, or dead when it was cancelled before it was sent. Its `done` runs, in
between the end of the call and the return of `Join`, and cancels the other.
Ids are never used again, so what comes back for an earlier round is dropped and
the model starts every round from nothing.

**Axios, CachePage.** `xhr[i]` is the `i`-th request of all pages: its owner,
method, address, key and body, whether it travels, was answered or failed, and how
its promise was settled. `Send` is everything between the click and
`XMLHttpRequest.send`, `LoadEnd`, `HandleError` and `Unload` are the ways back: a
string is sent as it is, what counts as false is sent as no body, a status
outside 200 to 299 rejects. A request may fail before or after the server has
worked. `row[p]` is what a page shows; the handlers write code and message, and
`get` also the value, to the fields as they are by then.

A page asks the server at `address[p]`, which its user may change: the page of
a008 has a field for it, and the settings of a010 set one address for all windows of
the document (`uptoParent`). At `"home"` and `"other"` there is a cache each, with
the program the pages belong to (`kind`) and a store of its own; `"elsewhere"` is an
address where something else listens, which answers 404, a page, or JSON with a code
of its own (`ForeignReply`). The pages cannot tell the last from a cache's answer, so
the properties are about requests that went to one of the caches.

The servers take the requests in any order. Those of a006 and a008 work once on a
request and answer it (`Serve`), and so does a010 with a key that is local to the
process asked (`LocalKey`). A forward of a010 is another matter: `send_request` gives
attempts up that are still on their way, and the library may resend one (`Retry`);
from then on the request may be executed any number of times, before it is answered
and at any time after (`LateExecution`), it is answered by any attempt (`Serve`) or,
when all are given up, with the error of a response nobody has filled in
(`ForwardFails`). An attempt that answers is executed and answered in one step:
whatever delays its answer between peer and process can as well delay it between
process and page, which is modelled. A process and its peers are one cache, which
`HalaCluster` justifies. Processes do not restart here; `HalaCluster` is about that.
`click`, `calm`, `seen` and `past` are history for the properties and never read
by an action; `retried` and `answers` say what the server has done for a request.

**ServiceWorker.** A build has three files here: the script of the worker,
`index.html`, which workbox stores under a revision, and a script with its hash
in its name, which stands for all of these. `www` is the server's directory, to
which a newer build is copied file by file, over the old one or after removing
it. `Precache` is one entry of `PrecacheController.install`, `Activate` the
clean-up of `activate`; `UpdateFound`, `MayActivate` and who controls a tab are
rules of the browser. `marred` is history: the workers whose installation met a
build that was being copied (what they get under their revision is another build's
file) or the clean-up of another worker. For them the code promises
nothing and the properties claim nothing.

## 3. What the runs check

| Run | Question | Bounds |
|---|---|---|
| `cache` | does the mutex keep entries in place (`EntryStillThere`), does `remove` hand over what it erases (`RemoveHandsOver`), is it held in the right mode (`LockProtects`), does no path leave it locked (`NeverStuck`), does some call always return | 3 threads, so that two readers and a writer meet, 2 keys, 2 values, capacity 1: every put of the other key evicts |
| `cache_refines` | is every call atomic (`AtomicSpec`), is a loss always a remove, an overwrite or an eviction (`NothingLost`) | 2 threads, 3 keys, capacity 2: the order of the list matters |
| `cluster` | one owner per key, one hop, no invented answers or values, a settled put stays visible, one store at least once | 2 processes, 2 keys with different owners, 2 calls, 2 attempts each, 1 resend, no restart (`cluster_evict` and the proofs have them) |
| `cluster_evict` | the same store when two keys compete for one entry and the process restarts; does only a put or the restart make it forget, does a handler that forwards end (`ForwardEnds`) | 2 processes, 2 keys with the same owner, 2 calls, 2 attempts each, 1 restart |
| `restful` | does a body say what was executed, does only what is complete reach a cache, are the processes one store at least once (`AbstractSpec`) | 3 browsers with one request each, 1 local and 2 forwarded keys that compete for one entry, capacity 1 |
| `restful_no_key` | a violation: the body for a missing key is that of an internal error | as `restful`, 2 browsers |
| `restful_failure` | a violation: a failed forward is answered with status 200 | as `restful`, 2 browsers |
| `session` | is every object with at most one user (`SessionKept`, `FiberDataKept`), is nobody answered twice (`TypeOK`), are objects reused (`PoolsBounded`), is every RPC answered | 2 RPCs at a time, 3 objects of each kind, so that one too many can be created |
| `cancel` | can the two calls cancel each other (`SomeoneAnswers`), is anything of a round left when its objects go (`RoundIsOver`), do both joins return | the program's own two calls, any number of rounds |
| `pages` | is the row true for a user who has waited (`RowIsTrue`), was a set that is reported as done done (`OkWasDone`), does a get of any tab read a value a reported set had replaced before the click only if the set of that value was retried (`RegularRead`) | 2 pages, 3 requests, 1 of them retried, failures and losses until 1 is rejected or gone, 1 field typed, 2 values, 2 keys of which 1 is forwarded in a010, capacity 2, 3 addresses (1.5 million states) |
| `worker` | does an active worker have all files (`ActiveComplete`), does a page it serves never break (`InstalledNeverBreaks`), do files in use stay (`FilesInUseStay`), does a new build arrive (`UpdateArrives`) | 2 tabs, 2 builds |
| `worker_refresh` | a violation: a refresh after "please refresh" brings the old page | 1 tab, 2 builds |

The bounds are small enough to finish and large enough for the case that
matters: a second thread, call, browser or page is enough for an interleaving of
two, the third adds one that overtakes both; two attempts are enough for one
that comes late; with three requests a get can be overtaken by a set that
follows another set, and an attempt of the first set can come after the second was
reported; one retried request shows what a late attempt does, since it may be
executed any number of times; a second build is the first that replaces one. Three builds,
with which a waiting worker is itself replaced, were checked once with one tab
and, for the safety properties, with two (1.5 million states); the proofs below
cover all numbers. `cluster`, `cluster_evict` and the `restful` runs use
`CHECK_DEADLOCK FALSE` because each client of these models makes one call and
everything stops after it.
`cluster`, `restful` and `pages` use symmetry; no run with a liveness property
does.

**Fairness.** `FairCacheSpec`: a thread inside a call keeps running (weak
fairness of its steps); nobody has to call, and the mutex is not fair, so only
some call is shown to return. `FairSpec` of `HalaCluster`: `StartAttempt` and
`AttemptFails` are weakly fair, because a running process runs its fibers and
the timer of a channel (300 ms) ends every wait. Delivery and execution are not
fair. `FairSpec` of `SessionEcho`: both fibers of an RPC keep running and their
sleeps end; nobody has to send. `FairSpec` of `CancelPair`: `main`, the timer of
the calls (100 ms) and the fibers that run the dones; the server need not
answer. `FairSpec` of `ServiceWorker`: the browser goes on with an installation
and with the load of a page (weak); it looks for an update with every page
that is opened and activates a waiting worker whenever no tab is controlled by
the old one (strong, because both opportunities come and go). That deployments
end, the network stays and the user opens and closes pages are premises of
`UpdateArrives`, not assumptions of fairness.

**Findings.** Three disagreements between the code and what it says.
`get_nokey_err` returns the other prepared body (`restful_service.cc:56`), so a
set without key or value is answered "proto to json error" and the object with
"no key or value" (`restful_service.cc:42-46`) is never used. `KvProxy` drops the
status of the sender and returns `OkStatus` (`kv_proxy.cc:72`, `92`, `112`), so
the 500 of `restful_service.cc:77` and the `SetFailed` of `kv_service.cc:34` are
never reached; an RPC caller notices because the required fields are missing, a
browser reads 200 with a conversion error. And `registerServiceWorker.js:23` says
"New content is available; please refresh." although the new worker waits until
no page of the old one is open: a refresh is answered by the old worker from its
precache, since nothing sends the message that would make the new one skip this.

What the pages do not promise is no finding, but worth knowing: a user who
clicks again before the answer may see the answer to the older click under the
newer key, and a user who types meanwhile sees it next to what was typed.
`RowIsTrue` is about users who do neither. In a010 a set that was reported as done
may come back: its first attempt times out and stays on its way, the second succeeds
and is reported, a later set of the same key is reported too, and then the first
attempt arrives and stores the old value again (`router_sender.h:94-119`).
`RegularRead` allows this for sets whose forward was retried, and for no others;
`SettledPutVisible` of the cluster is about keys nobody else writes for the same
reason. `OkWasDone` holds for all requests that went to a cache. A page that asks
something that is no cache shows what it answers.

## 4. What is proved

All theorems hold for every number of threads, keys, values, processes, calls,
attempts, resends, restarts, RPCs, data objects, browsers, pages, requests,
builds and tabs. The assumptions are those named in the modules:
the absent value is none of the values, the capacity is at least one, the hash
is a function into the naturals, every process is in its own list, the bounds on
what the users of the pages do are numbers, and
`PeersAgreeAssumption`: all processes were started with the same list without a
repeated address. The code does not check the last one.

There are four kinds of results: the inductive invariants with the safety
properties that follow from them; action properties; refinements of `AtomicCache`
and `AtLeastOnceKv`; and, for each of the five liveness properties, its *safety
core*: that something the property waits for can always happen or is under way,
and that every step which is to be fair brings the end nearer while no other step
sets it back (a measure of the steps left, and its bound). What remains of the
liveness property is that fair steps are taken.

- `LruCacheProofs`: every container operation keeps the map and the list in
  step and within the capacity; what a whole operation of `KvApi` answers and
  leaves (`EffectProperties`), and that nothing is evicted as long as all keys
  that may come fit (`NothingEvicted`).
- `HalaCacheProofs`: `CacheInv` is inductive. It joins the types, which
  operation a thread at each step can be in (`CallShape`), and the three safety
  properties: `EntryStillThere` needs `LockProtects` to know that nobody else is
  between lock and unlock, `RemoveHandsOver` needs both. From it follow
  `NothingLost` as an action property and `AtomicSpec`: `put` takes effect in
  `PutStore`, `get` and `remove` in `Lookup`; between lookup and erase the
  abstract cache already lacks the key, and nobody else can look. The core of
  `SomeCallReturns` is `CacheNeverStuck`, which needs that the mutex is only held
  by threads inside (`HeldInside`), and `CacheCallsAdvance`: six steps at most.
- `HalaClusterProofs`: `ClusterInv` is inductive: a key is only at its owner
  because `IsLocal` and `Target` agree on all processes; replies are empty or
  results of executions (`CallShape`), which is what `AnswerWasExecuted` needs.
  `AbstractSpec` follows with the owner's value as the value of the one store.
  `SettledPutVisible` is not inductive, because the store happens long before the
  answer: `SettledInv` says the same of every put one of whose executions was
  answered Ok, and `NothingEvicted` keeps it when other keys are put. The core of
  `ForwardEnds` is `ClusterForwardsAdvance`: two turns for each attempt, which no
  peer, message or other call can add to. Handlers that join a fiber which did not
  start are left out of both: nothing in the code ends them.
- `RestfulApiProofs`: a body with a code is the answer of an execution in the
  process that serves the key, and a key is only ever held there, whichever path
  the requests take and however often a forward is executed. `AbstractSpec` needs
  both: that no response is made before an execution (`HandlerInv`) and that the
  two containers never hold the same key. The three refinements of
  `AtLeastOnceKv` share one lemma of `LruCacheProofs`, `ExecutionIsStoreStep`: an
  operation on a well-formed container is a step of the store.
- `SessionEchoProofs`: `SessionInv` is inductive: no two RPCs have the same
  object and an object in use was created (`PoolInv`), what the two fibers of an
  RPC know of each other (`FibersInv`), and the values in the objects
  (`DataInv`). A pool grows only when every object is in use, so it stays within
  the number of RPCs, which is assumed to be finite. The core of
  `EveryCallAnswered` is `SessionServedOrAnswered` (the two fibers never wait for
  each other) and `SessionServeAdvances` (five steps at most).
- `CancelPairProofs`: `PairInv` is inductive: what `main` has sent and joined at
  each of its steps (`Program`), and that a call is cancelled only by the done of
  the other, which then was not cancelled itself (`CallInv`). The core of
  `RoundEnds` is `PairCanGoOn` (a join never waits for nothing, in whatever order
  the calls were sent, cancelled and ended) and `PairRoundAdvances` (twelve steps
  of `main`, the timer and the dones).
- `CachePageProofs`: `PageInv` is inductive. `RequestInv` relates what a request
  was told to what the server did for it; `RowInv` says what a row and the request
  of a waiting user know of each other. `CacheInv` says of every key a cache holds
  that it was stored by a set which *stands* (`Stands`): its forward was retried, so
  that it may come at any time, or no other stored set was begun after it had been
  reported as done (`past`). An execution of a retried set keeps this because it
  stands itself, and the one execution of any other set because it is not reported
  before. `ReadInv` says the same of what the executions of a get have found, with
  the sets reported before its click, and `RegularRead` follows where there is room
  for all keys. All of it holds for any number of late executions.
  `PagesKeepPromise` says that the pages implement `AtLeastOnceKv`, with requests
  that overtake each other, fail late, outlive their page or are executed again after
  they were answered. A request that goes to the cache at home is a call of the store
  from the click on; what the pages do with the other addresses is no step of it.
  No run has this property: on the states of `pages` it takes TLC longer
  than all the others together.
- `ServiceWorkerProofs`: the inductive invariant relates the precache to the
  workers: what is stored under the revision of a worker that is not marred is
  its own file, the entries an installation has passed are there, and only the
  clean-up takes entries away, never those of a worker that controls a tab. The
  core of `UpdateArrives` is about the time after the last deployment with the
  server in reach (`Settled`). `WorkerUpdateUnderWay`: the newest build is active,
  waits, is being installed, an older one still is, or it is there to be found.
  `WorkerUpdateAdvances`: every step of the worker brings it nearer (seventeen at
  most), its own installation no longer fails, and no load, refresh or closing of
  a tab sets it back. `CopiedInv` is what it rests on: a deployment that has ended
  has left all its files.

Only model-checked: the liveness properties (`SomeCallReturns`, `ForwardEnds`,
`EveryCallAnswered`, `RoundEnds`, `UpdateArrives`) beyond their safety cores,
because the provers reason neither about fairness (`ENABLED`) nor by induction
over a measure. All invariants, action properties and refinements the passing
runs check are proved.

## 5. What is not modelled

Serialisation, logging, metrics, flags that only tune, and the RPC library
below the calls the code makes. The library's parts the code relies on
(`turbo::LRUCache`, resends, the failure of a call whose response lacks required
fields) and the rules of the browser (workers, tabs, the directory a build is
copied to) are modelled from their use and marked external. Keys and values are
abstract; the hash is an arbitrary function, and so is what a typed key becomes
in a URL. A process whose peer list differs from the others is outside the model.

The caches of a006, a008 and a009 have no mutex: what two threads do to the
container then is undefined, and its code is not in the repository. The mutant
`LockExclusiveNoWait` of `HalaCache` shows the mildest form of it. `CachePage` is
about their requests one after the other.

Of a010's web front end only the windows that talk to the cache, the address in
their settings and the requests of axios are modelled. The desktop around them
(window manager, dialogs) is a template of which only minified chunks are here, with the state of
one user's clicks and nothing concurrent; Vue and its plug-ins are third-party
code. Notifications are left out, and so are interceptors, cancel tokens and time
limits of axios, which the pages do not use.

Examples of `melon-examples` without a module are stateless handlers, or wait for
one (below). `PROJECT.json` lists every part without a module and the reason.

## 6. Plan

1. Done: the cache, the cluster, the HTTP interface, session data, the
   cancelling pair, the pages and the service worker, each with its proofs:
   invariants, action properties, the refinements and the safety cores of the
   liveness properties.
2. The other concurrent examples of `melon-examples`: the reporters of the
   partition and parallel clients against their senders, streams whose server
   overwrites `_sd`, progressive HTTP responses, cascades, backup requests, the
   redis server with its press client, memcache.
3. `Startup`: the order of the steps of `server.cc` and lists that disagree.
4. Fewer and broader runs: `cache` and `cache_refines` could be one run if the
   state space of three threads over three keys were smaller.
