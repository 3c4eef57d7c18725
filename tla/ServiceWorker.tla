----------------------------- MODULE ServiceWorker -----------------------------
(***************************************************************************)
(* The web pages of a006-hala-vue and a008-hala-kv as an installed          *)
(* application: a browser with several tabs, the worker that                *)
(* registerServiceWorker.js registers and service-worker.js implements with *)
(* workbox, the precache all versions of the worker share, and the directory*)
(* www of the server, to which new builds are copied file by file.          *)
(*                                                                         *)
(* A build has three files here: the script of the worker, index.html, and  *)
(* a script whose name contains its hash, which stands for all such files.  *)
(* The precache keeps index.html under the revision the worker's script      *)
(* names, and what it gets under that name is what the server has by then.  *)
(***************************************************************************)
EXTENDS Naturals, Sequences, FiniteSets

CONSTANTS
    Tab,        \* the tabs of the browser
    MaxBuild    \* how many builds there are (a bound of the model)

ASSUME MaxBuildAssumption == MaxBuild \in Nat \ {0}

Build == 1 .. MaxBuild
Nothing == 0                      \* no build, no worker, no file
File == {"script", "index", "hashed"}

VARIABLES
    www,        \* the files of the server: the build of script and of index,
                \* and the builds whose hashed script is there
    copying,    \* the files of the newest build that are not copied yet
    newest,     \* the newest build
    online,     \* the browser reaches the server
    precache,   \* precache.index[b]: what is stored as the index.html of
                \* revision b; precache.hashed: the stored hashed scripts
    installing, \* the worker that is being installed and the entries left
    waiting,    \* the installed worker that waits for the tabs of the active
    active,     \* the worker that serves the pages
    tab,        \* tab[t]: its page and who controls it
    marred      \* the workers whose installation met a build being copied, or
                \* the clean-up of another worker

vars == <<www, copying, newest, online, precache, installing, waiting, active,
          tab, marred>>

NoInstall == [build |-> Nothing, left |-> << >>]

\* state: "closed", "index" (its scripts are not loaded yet), "whole", or
\* "broken" (index.html or its script is missing).  told: the build hook
\* updated has announced to this page.
Closed == [state |-> "closed", page |-> Nothing, by |-> Nothing, told |-> Nothing]

Init ==
    /\ www = [script |-> 1, index |-> 1, hashed |-> {1}]
    /\ copying = {}
    /\ newest = 1
    /\ online = TRUE
    /\ precache = [index |-> [b \in Build |-> Nothing], hashed |-> {}]
    /\ installing = NoInstall
    /\ waiting = Nothing
    /\ active = Nothing
    /\ tab = [t \in Tab |-> Closed]
    /\ marred = {}

Controlled(w) == {t \in Tab : w # Nothing /\ tab[t].by = w}
-------------------------------------------------------------------------------
(* The server and the network. *)

\* A new build replaces the old one: into the directory as it is, or after
\* everything in it has been removed.
StartDeploy ==
    /\ copying = {}
    /\ newest < MaxBuild
    /\ newest' = newest + 1
    /\ copying' = File
    /\ www' \in {www, [script |-> Nothing, index |-> Nothing, hashed |-> {}]}
    /\ UNCHANGED <<online, precache, installing, waiting, active, tab, marred>>

CopyFile(f) ==
    /\ f \in copying
    /\ copying' = copying \ {f}
    /\ www' = IF f = "hashed" THEN [www EXCEPT !.hashed = @ \cup {newest}]
                              ELSE [www EXCEPT ![f] = newest]
    /\ UNCHANGED <<newest, online, precache, installing, waiting, active, tab, marred>>

Deploy == StartDeploy \/ \E f \in File : CopyFile(f)

SwitchNetwork ==
    /\ online' = ~online
    /\ UNCHANGED <<www, copying, newest, precache, installing, waiting, active, tab, marred>>

\* What a request gets from WebServie::process: the file, or nothing (404, or
\* no connection).
FetchIndex == IF online THEN www.index ELSE Nothing
FetchHashed(b) == online /\ b \in www.hashed
-------------------------------------------------------------------------------
(* The worker. *)

\* Mutant of CacheKey: index.html is stored without its revision.
CacheKeyWithoutRevision(b) == 1

\* The key of the index.html of worker b: the URL with the revision.
CacheKey(b) == b

StoredIndex(b) == precache.index[CacheKey(b)]

NewestWorker == IF waiting = Nothing THEN active ELSE waiting

\* Mutant of UpdateFound: the script is not compared with the newest worker.
UpdateFoundAlways ==
    /\ online
    /\ \E t \in Tab : tab[t].state = "whole" \/ tab[t].by # Nothing
    /\ installing = NoInstall
    /\ www.script # Nothing
    /\ installing' = [build |-> www.script, left |-> <<"index", "hashed">>]
    /\ UNCHANGED <<www, copying, newest, online, precache, waiting, active, tab, marred>>

\* Mutant of UpdateFound: only a page without a worker looks for one.
UpdateFoundFirst ==
    /\ online
    /\ \E t \in Tab : tab[t].state = "whole"
    /\ NewestWorker = Nothing
    /\ installing = NoInstall
    /\ www.script # Nothing
    /\ installing' = [build |-> www.script, left |-> <<"index", "hashed">>]
    /\ UNCHANGED <<www, copying, newest, online, precache, waiting, active, tab, marred>>

\* register() of a page, or the browser after a navigation, finds a script that
\* differs from that of the newest worker.  One installation runs at a time.
UpdateFound ==
    /\ online
    /\ \E t \in Tab : tab[t].state = "whole" \/ tab[t].by # Nothing
    /\ installing = NoInstall
    /\ www.script \notin {Nothing, NewestWorker}
    /\ installing' = [build |-> www.script, left |-> <<"index", "hashed">>]
    /\ UNCHANGED <<www, copying, newest, online, precache, waiting, active, tab, marred>>

\* Mutant of Fetched: the status of the response is not looked at.
FetchedAnyStatus(f, b) == online

\* handleAll of one entry: a stored one is taken as it is; another one is
\* fetched and stored unless its status is 400 or more.
Stored(f, b) == IF f = "index" THEN StoredIndex(b) # Nothing
                               ELSE b \in precache.hashed
Fetched(f, b) == IF f = "index" THEN FetchIndex # Nothing ELSE FetchHashed(b)

Precache ==
    /\ installing.left # << >>
    /\ LET f == Head(installing.left)
           b == installing.build
       IN  /\ Stored(f, b) \/ Fetched(f, b)
           /\ installing' = [installing EXCEPT !.left = Tail(@)]
           /\ precache' =
                IF Stored(f, b) THEN precache
                ELSE IF f = "index"
                THEN [precache EXCEPT !.index[CacheKey(b)] = FetchIndex]
                ELSE [precache EXCEPT
                        !.hashed = IF FetchHashed(b) THEN @ \cup {b} ELSE @]
           /\ marred' = IF f = "index" /\ ~ Stored(f, b) /\ www.index # b
                       THEN marred \cup {b} ELSE marred
    /\ UNCHANGED <<www, copying, newest, online, waiting, active, tab>>

\* "bad-precaching-response", or no response: the worker is dropped, and what
\* it has stored stays.
InstallFails ==
    /\ installing.left # << >>
    /\ ~ Stored(Head(installing.left), installing.build)
    /\ ~ Fetched(Head(installing.left), installing.build)
    /\ installing' = NoInstall
    /\ UNCHANGED <<www, copying, newest, online, precache, waiting, active, tab, marred>>

\* The worker is installed.  The pages that have a controller are told
\* "updated", the others "cached".
Installed ==
    /\ installing # NoInstall
    /\ installing.left = << >>
    /\ waiting' = installing.build
    /\ installing' = NoInstall
    /\ tab' = [t \in Tab |->
                IF tab[t].state = "whole" /\ tab[t].by # Nothing
                THEN [tab[t] EXCEPT !.told = installing.build] ELSE tab[t]]
    /\ UNCHANGED <<www, copying, newest, online, precache, active, marred>>

\* Mutant of MayActivate: the worker does not wait (skipWaiting).
MayActivateAtOnce == TRUE

\* The worker waits until no tab is controlled by the active one; the message
\* that would make it skip this is never sent.
MayActivate == Controlled(active) = {}

\* activate: what is not in the worker's own list is deleted.
Kept(b) ==
    [index  |-> [r \in Build |-> IF r = CacheKey(b) THEN precache.index[r] ELSE Nothing],
     hashed |-> precache.hashed \cap {b}]

Activate ==
    /\ waiting # Nothing
    /\ MayActivate
    /\ active' = waiting
    /\ waiting' = Nothing
    /\ precache' = Kept(waiting)
    /\ marred' = IF installing = NoInstall THEN marred
                ELSE marred \cup {installing.build}
    /\ UNCHANGED <<www, copying, newest, online, installing, tab>>
-------------------------------------------------------------------------------
(* The tabs. *)

\* A navigation or a refresh: the active worker becomes the controller and
\* answers from the precache, or from the network where that has nothing.
LoadIndex(t) ==
    LET stored == active # Nothing /\ StoredIndex(active) # Nothing
        index  == IF stored THEN StoredIndex(active) ELSE FetchIndex
    IN  /\ tab' = [tab EXCEPT ![t] =
                    [state |-> IF index = Nothing THEN "broken" ELSE "index",
                     page |-> index, by |-> active, told |-> Nothing]]
        /\ UNCHANGED <<www, copying, newest, online, precache, installing,
                       waiting, active, marred>>

\* The page loads its script: only that of the controller's own build is in
\* its list.
LoadScript(t) ==
    LET b == tab[t].page
        stored == b = tab[t].by /\ b \in precache.hashed
    IN  /\ tab[t].state = "index"
        /\ tab' = [tab EXCEPT ![t].state =
                    IF stored \/ FetchHashed(b) THEN "whole" ELSE "broken"]
        /\ UNCHANGED <<www, copying, newest, online, precache, installing,
                       waiting, active, marred>>

CloseTab(t) ==
    /\ tab[t] # Closed
    /\ tab' = [tab EXCEPT ![t] = Closed]
    /\ UNCHANGED <<www, copying, newest, online, precache, installing,
                   waiting, active, marred>>

Worker == UpdateFound \/ Precache \/ InstallFails \/ Installed \/ Activate

Next ==
    \/ Deploy
    \/ SwitchNetwork
    \/ Worker
    \/ \E t \in Tab : LoadIndex(t) \/ LoadScript(t) \/ CloseTab(t)

Spec == Init /\ [][Next]_vars

\* The browser goes on with what it has begun; an update check comes with every
\* page that is opened, and a worker is activated whenever its turn has come.
Fairness ==
    /\ WF_vars(Precache) /\ WF_vars(InstallFails) /\ WF_vars(Installed)
    /\ SF_vars(UpdateFound) /\ SF_vars(Activate)
    /\ \A t \in Tab : WF_vars(LoadScript(t))

FairSpec == Spec /\ Fairness
-------------------------------------------------------------------------------
\* The types; and every worker is newer than the one it is to replace.
TypeOK ==
    /\ www \in [script : 0 .. MaxBuild, index : 0 .. MaxBuild, hashed : SUBSET Build]
    /\ copying \subseteq File
    /\ newest \in Build
    /\ online \in BOOLEAN
    /\ precache \in [index : [Build -> 0 .. MaxBuild], hashed : SUBSET Build]
    /\ installing \in [build : 0 .. MaxBuild,
                       left : {<<"index", "hashed">>, <<"hashed">>, << >>}]
    /\ waiting \in 0 .. MaxBuild
    /\ active \in 0 .. MaxBuild
    /\ tab \in [Tab -> [state : {"closed", "index", "whole", "broken"},
                       page : 0 .. MaxBuild, by : 0 .. MaxBuild,
                       told : 0 .. MaxBuild]]
    /\ marred \subseteq Build
    /\ waiting # Nothing => waiting > active
    /\ installing.build # Nothing => installing.build > NewestWorker

\* A worker serves pages only when its installation has stored all of its
\* files, and no clean-up has taken one of them since, whatever has failed or
\* was deployed in between: that is what hook cached promises ("Content has
\* been cached for offline use", registerServiceWorker.js:16-18).
ActiveComplete ==
    active # Nothing /\ active \notin marred =>
        StoredIndex(active) = active /\ active \in precache.hashed

\* A page served by a worker is the page of that worker's build and finds its
\* script, without a connection and in the middle of a deployment too.
InstalledNeverBreaks ==
    \A t \in Tab :
        tab[t].by # Nothing /\ tab[t].by \notin marred =>
            tab[t].page = tab[t].by /\ tab[t].state # "broken"

\* As long as a page of a worker is open, no other worker's installation or
\* activation takes the files that page uses out of the shared precache.
FilesInUseStay ==
    [][\A t \in Tab :
        tab[t].by # Nothing /\ tab'[t].by = tab[t].by =>
            LET w == tab[t].by
            IN  /\ StoredIndex(w) # Nothing => StoredIndex(w)' = StoredIndex(w)
                /\ w \in precache.hashed => w \in precache'.hashed]_vars

\* A deployed build reaches the user: when deployments have ended and the
\* server can be reached, and the user again and again opens the page and again
\* and again has none open, the newest build is the active one for good.
UpdateArrives ==
    (/\ <>[](copying = {} /\ newest = MaxBuild /\ online)
     /\ []<>(\E t \in Tab : tab[t].state = "whole")
     /\ []<>(\A t \in Tab : tab[t].by = Nothing))
        => <>[](active = MaxBuild)

\* registerServiceWorker.js:22-24: "New content is available; please refresh."
\* A page that is refreshed after this message is the new one.
RefreshBringsNew ==
    [][\A t \in Tab :
        tab[t].told # Nothing /\ tab'[t].state = "index" =>
            tab'[t].page >= tab[t].told]_vars
===============================================================================
