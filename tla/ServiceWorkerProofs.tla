-------------------------- MODULE ServiceWorkerProofs --------------------------
(***************************************************************************)
(* The installed pages are safe for any number of tabs and of builds: a     *)
(* worker that serves pages has all of its files, a page it serves is that  *)
(* of its build and finds its script, and no installation or clean-up takes *)
(* the files of an open page away.                                          *)
(***************************************************************************)
EXTENDS ServiceWorker, TLAPS

\* Builds reach the server and the browser in their order.
OrderInv ==
    /\ installing.build = Nothing => installing = NoInstall
    /\ www.script <= newest
    /\ installing.build <= newest /\ NewestWorker <= newest
    /\ www.script # Nothing =>
        www.script >= installing.build /\ www.script >= NewestWorker

\* The files of build b are stored, and they are those of b.
Complete(b) == precache.index[b] = b /\ b \in precache.hashed

\* What the precache holds for the workers that met no disturbance.
PrecacheInv ==
    /\ \A b \in Build \ marred : precache.index[b] \in {Nothing, b}
    /\ installing.build \notin marred \cup {Nothing} =>
        /\ installing.left # <<"index", "hashed">> =>
            precache.index[installing.build] = installing.build
        /\ installing.left = << >> => installing.build \in precache.hashed
    /\ waiting \notin marred \cup {Nothing} => Complete(waiting)
    /\ active \notin marred \cup {Nothing} => Complete(active)

\* Only the active worker controls tabs, and they show its build.
TabInv ==
    \A t \in Tab :
        /\ tab[t].by \in {Nothing, active}
        /\ tab[t].by \notin marred \cup {Nothing} =>
            tab[t].page = tab[t].by /\ tab[t].state # "broken"

WorkerInv == TypeOK /\ OrderInv /\ PrecacheInv /\ TabInv
-------------------------------------------------------------------------------
LEMMA LeftOver ==
    /\ <<"index", "hashed">> # <<"hashed">> /\ <<"index", "hashed">> # << >>
    /\ <<"hashed">> # << >>
    /\ Head(<<"index", "hashed">>) = "index" /\ Head(<<"hashed">>) = "hashed"
    /\ Tail(<<"index", "hashed">>) = <<"hashed">> /\ Tail(<<"hashed">>) = << >>
  OBVIOUS

LEMMA NoInstallType ==
    NoInstall \in [build : 0 .. MaxBuild,
                   left : {<<"index", "hashed">>, <<"hashed">>, << >>}]
  BY MaxBuildAssumption DEF NoInstall, Nothing

TabType == [state : {"closed", "index", "whole", "broken"},
            page : 0 .. MaxBuild, by : 0 .. MaxBuild, told : 0 .. MaxBuild]

\* A tab after its state, or the build it was told of, has changed.
LEMMA TabShape ==
    ASSUME NEW r \in TabType
    PROVE  /\ \A s \in {"whole", "broken"} : [r EXCEPT !.state = s] \in TabType
           /\ \A b \in 0 .. MaxBuild : [r EXCEPT !.told = b] \in TabType
  BY DEF TabType

LEMMA InitWorker == Init => WorkerInv
  BY MaxBuildAssumption
  DEF Init, WorkerInv, TypeOK, OrderInv, PrecacheInv, TabInv, NoInstall, Closed,
      Build, Nothing, NewestWorker, Complete

\* A deployment changes only the files of the server; the script gets newer.
LEMMA DeployWorker == ASSUME WorkerInv, Deploy PROVE WorkerInv'
<1>1. TypeOK'
  <2>1. CASE StartDeploy
    <3>1. www' \in [script : 0 .. MaxBuild, index : 0 .. MaxBuild, hashed : SUBSET Build]
      BY <2>1, MaxBuildAssumption DEF WorkerInv, TypeOK, StartDeploy, Nothing
    <3>2. newest' \in Build
      BY <2>1, MaxBuildAssumption DEF WorkerInv, TypeOK, StartDeploy, Build
    <3> QED BY <2>1, <3>1, <3>2 DEF WorkerInv, TypeOK, StartDeploy, NewestWorker
  <2>2. ASSUME NEW f \in File, CopyFile(f) PROVE TypeOK'
    <3>1. www' \in [script : 0 .. MaxBuild, index : 0 .. MaxBuild, hashed : SUBSET Build]
      BY <2>2, MaxBuildAssumption DEF WorkerInv, TypeOK, CopyFile, File, Build
    <3> QED BY <2>2, <3>1 DEF WorkerInv, TypeOK, CopyFile, NewestWorker
  <2> QED BY <2>1, <2>2 DEF Deploy
<1>2. OrderInv'
  BY MaxBuildAssumption DEF WorkerInv, TypeOK, OrderInv, Deploy, StartDeploy,
     CopyFile, File, Build, Nothing, NewestWorker
<1>3. PrecacheInv' /\ TabInv'
  BY DEF WorkerInv, PrecacheInv, TabInv, Complete, Deploy, StartDeploy, CopyFile
<1> QED BY <1>1, <1>2, <1>3 DEF WorkerInv

LEMMA SwitchNetworkWorker == ASSUME WorkerInv, SwitchNetwork PROVE WorkerInv'
  BY DEF WorkerInv, TypeOK, OrderInv, NewestWorker, PrecacheInv, TabInv, Complete,
     SwitchNetwork

\* A new installation has stored nothing yet, and its build is newer.
LEMMA UpdateFoundWorker == ASSUME WorkerInv, UpdateFound PROVE WorkerInv'
<1>1. TypeOK' /\ OrderInv'
  BY DEF WorkerInv, TypeOK, OrderInv, UpdateFound, NoInstall, Build, Nothing,
     NewestWorker
<1>2. PrecacheInv' /\ TabInv'
  BY LeftOver DEF WorkerInv, PrecacheInv, TabInv, Complete, UpdateFound
<1> QED BY <1>1, <1>2 DEF WorkerInv

LEMMA InstallFailsWorker == ASSUME WorkerInv, InstallFails PROVE WorkerInv'
<1>1. TypeOK'
  <2>1. installing' = NoInstall /\ installing'.build = Nothing
    BY DEF InstallFails, NoInstall
  <2> QED BY <2>1, NoInstallType DEF WorkerInv, TypeOK, InstallFails, NewestWorker
<1>3. OrderInv'
  BY DEF WorkerInv, TypeOK, OrderInv, InstallFails, NoInstall, Nothing, NewestWorker, Build
<1>2. PrecacheInv' /\ TabInv'
  BY DEF WorkerInv, PrecacheInv, TabInv, Complete, InstallFails, NoInstall
<1> QED BY <1>1, <1>2, <1>3 DEF WorkerInv

\* An entry is stored under its own revision, or the installation is marred.
LEMMA PrecacheWorker == ASSUME WorkerInv, Precache PROVE WorkerInv'
<1> DEFINE b == installing.build
<1> USE DEF StoredIndex, CacheKey, Stored, Fetched, FetchIndex, FetchHashed
<1>1. b \in Build
  BY DEF WorkerInv, TypeOK, OrderInv, Precache, NoInstall, Build, Nothing
<1>2. TypeOK'
  BY <1>1, LeftOver DEF WorkerInv, TypeOK, Precache, Nothing, NewestWorker
<1>3. OrderInv'
  BY <1>1 DEF WorkerInv, TypeOK, OrderInv, Precache, NewestWorker, Build, Nothing
<1>4. PrecacheInv'
  BY <1>1, LeftOver DEF WorkerInv, TypeOK, PrecacheInv, Precache, Complete, Nothing
<1>5. TabInv'
  BY DEF WorkerInv, TabInv, Precache
<1> QED BY <1>2, <1>3, <1>4, <1>5 DEF WorkerInv

\* An installation that has ended has stored everything.
LEMMA InstalledWorker == ASSUME WorkerInv, Installed PROVE WorkerInv'
<1>1. /\ installing' = NoInstall /\ installing'.build = Nothing
     /\ waiting' = installing.build /\ waiting' \in Build
  BY DEF WorkerInv, TypeOK, OrderInv, Installed, NoInstall, Build, Nothing
<1>4. TypeOK'
  <2>1. tab' \in [Tab -> TabType]
    <3>1. installing.build \in 0 .. MaxBuild /\ tab \in [Tab -> TabType]
      BY DEF WorkerInv, TypeOK, TabType
    <3>2. ASSUME NEW t \in Tab PROVE tab'[t] \in TabType
      <4> DEFINE r == [tab[t] EXCEPT !.told = installing.build]
      <4>1. tab[t] \in TabType
        BY <3>1
      <4>2. r \in TabType
        BY <3>1, <4>1, TabShape
      <4>3. tab'[t] = tab[t] \/ tab'[t] = r
        BY DEF Installed
      <4> HIDE DEF r
      <4> QED BY <4>1, <4>2, <4>3
    <3>3. tab' = [t \in Tab |-> tab'[t]]
      BY DEF Installed
    <3> QED BY <3>2, <3>3
  <2>2. waiting' > active'
    BY <1>1 DEF WorkerInv, TypeOK, Installed, NewestWorker, Build, Nothing
  <2> QED BY <1>1, <2>1, <2>2, NoInstallType DEF WorkerInv, TypeOK, Installed, Build, TabType
<1>5. OrderInv'
  BY <1>1 DEF WorkerInv, TypeOK, OrderInv, Installed, NewestWorker, Build, Nothing
<1>2. PrecacheInv'
  BY LeftOver DEF WorkerInv, TypeOK, PrecacheInv, Installed, NoInstall, Complete,
     Build, Nothing
<1>3. TabInv'
  BY DEF WorkerInv, TypeOK, TabInv, Installed
<1> QED BY <1>2, <1>3, <1>4, <1>5 DEF WorkerInv

\* No tab has a controller when the worker takes over, and the clean-up keeps
\* its own files.
LEMMA ActivateWorker == ASSUME WorkerInv, Activate PROVE WorkerInv'
<1>1. TypeOK'
  <2>1. precache' \in [index : [Build -> 0 .. MaxBuild], hashed : SUBSET Build]
    <3>1. precache' = Kept(waiting)
      BY DEF Activate
    <3>2. [r \in Build |-> IF r = CacheKey(waiting) THEN precache.index[r] ELSE Nothing]
            \in [Build -> 0 .. MaxBuild]
      BY MaxBuildAssumption DEF WorkerInv, TypeOK, Nothing
    <3>3. precache.hashed \cap {waiting} \in SUBSET Build
      BY DEF WorkerInv, TypeOK
    <3> QED BY <3>1, <3>2, <3>3 DEF Kept
  <2>2. marred' \subseteq Build
    <3>1. CASE installing = NoInstall
      BY <3>1 DEF WorkerInv, TypeOK, Activate
    <3>2. CASE installing # NoInstall
      <4>1. installing.build \in Build
        BY <3>2 DEF WorkerInv, TypeOK, OrderInv, Build, Nothing
      <4> QED BY <3>2, <4>1 DEF WorkerInv, TypeOK, Activate
    <3> QED BY <3>1, <3>2
  <2>3. waiting' = Nothing /\ NewestWorker' = NewestWorker /\ active' \in 0 .. MaxBuild
    BY DEF WorkerInv, TypeOK, Activate, NewestWorker
  <2>4. UNCHANGED <<www, copying, newest, online, installing, tab>>
    BY DEF Activate
  <2>5. 0 \in 0 .. MaxBuild
    BY MaxBuildAssumption
  <2> HIDE DEF NewestWorker
  <2> QED BY <2>1, <2>2, <2>3, <2>4, <2>5 DEF WorkerInv, TypeOK, Nothing
<1>4. OrderInv'
  BY DEF WorkerInv, TypeOK, OrderInv, Activate, Nothing, NewestWorker
<1>2. PrecacheInv'
  BY DEF WorkerInv, TypeOK, PrecacheInv, Activate, Kept, CacheKey, Complete,
     Build, Nothing, NoInstall, NewestWorker
<1>3. TabInv'
  BY DEF WorkerInv, TypeOK, TabInv, Activate, MayActivate, Controlled, Nothing
<1> QED BY <1>1, <1>2, <1>3, <1>4 DEF WorkerInv

\* A page comes from the files of its controller.
LEMMA TabWorker ==
    ASSUME WorkerInv, NEW t \in Tab, LoadIndex(t) \/ LoadScript(t) \/ CloseTab(t)
    PROVE  WorkerInv'
<1>1. UNCHANGED <<www, newest, precache, installing, waiting, active, marred>>
  BY DEF LoadIndex, LoadScript, CloseTab
<1> USE DEF StoredIndex, CacheKey, FetchIndex
<1>2. TypeOK'
  <2>0. tab \in [Tab -> TabType]
    BY DEF WorkerInv, TypeOK, TabType
  <2>1. tab' \in [Tab -> TabType]
    <3>1. CASE LoadIndex(t)
      <4> DEFINE index == IF active # Nothing /\ StoredIndex(active) # Nothing
                          THEN StoredIndex(active) ELSE FetchIndex
                 r == [state |-> IF index = Nothing THEN "broken" ELSE "index",
                       page |-> index, by |-> active, told |-> Nothing]
      <4>1. tab' = [tab EXCEPT ![t] = r]
        BY <3>1 DEF LoadIndex
      <4>2. index \in 0 .. MaxBuild /\ active \in 0 .. MaxBuild /\ Nothing \in 0 .. MaxBuild
        BY MaxBuildAssumption DEF WorkerInv, TypeOK, Build, Nothing
      <4>3. r \in TabType
        <5> HIDE DEF index
        <5> QED BY <4>2 DEF TabType
      <4> HIDE DEF r
      <4> QED BY <2>0, <4>1, <4>3
    <3>2. CASE LoadScript(t)
      <4>1. PICK s \in {"whole", "broken"} : tab' = [tab EXCEPT ![t].state = s]
        BY <3>2 DEF LoadScript
      <4> DEFINE r == [tab[t] EXCEPT !.state = s]
      <4>2. tab[t] \in TabType
        BY <2>0
      <4>3. r \in TabType
        BY <4>2, TabShape
      <4>4. tab' = [tab EXCEPT ![t] = r]
        BY <4>1
      <4> HIDE DEF r
      <4> QED BY <2>0, <4>3, <4>4
    <3>3. CASE CloseTab(t)
      <4>1. Closed \in TabType
        BY MaxBuildAssumption DEF Closed, Nothing, TabType
      <4> QED BY <2>0, <3>3, <4>1 DEF CloseTab
    <3> QED BY <3>1, <3>2, <3>3
  <2> QED BY <1>1, <2>1 DEF TabType, WorkerInv, TypeOK, NewestWorker, LoadIndex,
             LoadScript, CloseTab
<1>3. OrderInv' /\ PrecacheInv'
  BY <1>1 DEF WorkerInv, OrderInv, PrecacheInv, Complete, NewestWorker
<1>4. TabInv'
  <2>1. CASE LoadIndex(t)
    BY <2>1 DEF WorkerInv, TypeOK, PrecacheInv, TabInv, LoadIndex, Complete, Nothing
  <2>2. CASE LoadScript(t)
    BY <2>2 DEF WorkerInv, TypeOK, PrecacheInv, TabInv, LoadScript, Complete, Nothing
  <2>3. CASE CloseTab(t)
    BY <2>3 DEF WorkerInv, TypeOK, TabInv, CloseTab, Closed
  <2> QED BY <2>1, <2>2, <2>3
<1> QED BY <1>2, <1>3, <1>4 DEF WorkerInv

\* Every step keeps the inductive invariant.
LEMMA WorkerStep == ASSUME WorkerInv, [Next]_vars PROVE WorkerInv'
<1>1. ASSUME UNCHANGED vars PROVE WorkerInv'
  BY <1>1 DEF WorkerInv, TypeOK, OrderInv, NewestWorker, PrecacheInv, Complete,
     TabInv, vars
<1> QED BY <1>1, DeployWorker, SwitchNetworkWorker, UpdateFoundWorker,
           PrecacheWorker, InstallFailsWorker, InstalledWorker, ActivateWorker,
           TabWorker DEF Next, Worker

\* The inductive invariant holds of every behaviour.
THEOREM WorkerInvariant == Spec => []WorkerInv
BY InitWorker, WorkerStep, PTL DEF Spec

\* The values of the variables; a worker is only ever replaced by a newer one.
THEOREM WorkerTypeOK == Spec => []TypeOK
<1>1. WorkerInv => TypeOK
  BY DEF WorkerInv
<1> QED BY <1>1, WorkerInvariant, PTL

\* The active worker has stored all of its files.
THEOREM WorkerActiveComplete == Spec => []ActiveComplete
<1>1. WorkerInv => ActiveComplete
  BY DEF WorkerInv, PrecacheInv, Complete, ActiveComplete, StoredIndex, CacheKey
<1> QED BY <1>1, WorkerInvariant, PTL

\* A page a worker serves is the page of its build and is not broken.
THEOREM WorkerInstalledNeverBreaks == Spec => []InstalledNeverBreaks
<1>1. WorkerInv => InstalledNeverBreaks
  BY DEF WorkerInv, TabInv, InstalledNeverBreaks
<1> QED BY <1>1, WorkerInvariant, PTL

\* No step takes a stored file of an open page out of the precache.
THEOREM WorkerFilesInUseStay == Spec => FilesInUseStay
<1> DEFINE Stay ==
      \A t \in Tab :
        tab[t].by # Nothing /\ tab'[t].by = tab[t].by =>
            LET w == tab[t].by
            IN  /\ StoredIndex(w) # Nothing => StoredIndex(w)' = StoredIndex(w)
                /\ w \in precache.hashed => w \in precache'.hashed
<1>1. WorkerInv /\ [Next]_vars => [Stay]_vars
  <2> SUFFICES ASSUME WorkerInv, Next PROVE Stay
    OBVIOUS
  <2>1. CASE Precache
    BY <2>1 DEF WorkerInv, TypeOK, Precache, StoredIndex, CacheKey, Stored, Fetched,
       FetchIndex, FetchHashed, Nothing
  <2>2. CASE Activate
    BY <2>2 DEF WorkerInv, TabInv, Activate, MayActivate, Controlled
  <2>3. CASE UNCHANGED precache
    BY <2>3 DEF StoredIndex, CacheKey
  <2> QED BY <2>1, <2>2, <2>3 DEF Next, Worker, Deploy, StartDeploy, CopyFile,
             SwitchNetwork, UpdateFound, InstallFails, Installed, LoadIndex,
             LoadScript, CloseTab
<1> QED BY <1>1, WorkerInvariant, PTL DEF Spec, FilesInUseStay
-------------------------------------------------------------------------------
\* The deployments have ended and the server can be reached.
Settled == copying = {} /\ newest = MaxBuild /\ online

\* What has been copied is that of the newest build.
CopiedInv ==
    /\ "script" \notin copying => www.script = newest
    /\ "index" \notin copying => www.index = newest
    /\ "hashed" \notin copying => newest \in www.hashed

\* How far the browser is from running the newest build: an installation of an
\* older one has to end first, one way or the other.
Phase ==
    IF active = MaxBuild THEN 0
    ELSE IF waiting = MaxBuild THEN 1
    ELSE IF installing = NoInstall THEN 5
    ELSE IF installing.build = MaxBuild THEN 2 + Len(installing.left)
    ELSE 6 + Len(installing.left)

\* The most steps the worker's life cycle still takes; an older worker that is
\* waiting may be activated in between.
UpdateLeft == 2 * Phase + (IF waiting \in {Nothing, MaxBuild} THEN 0 ELSE 1)

\* The update is not done before the newest build is active, and until then it
\* is waiting, or being installed, or a page that looks for it finds it.
UpdateUnderWay ==
    Settled =>
        /\ UpdateLeft = 0 <=> active = MaxBuild
        /\ \/ active = MaxBuild
           \/ waiting = MaxBuild
           \/ installing # NoInstall
           \/ www.script \notin {Nothing, NewestWorker}

\* Each step of the worker's life cycle brings the newest build nearer, also
\* when the installation of an older one fails because its files are gone; its
\* own does not fail; and nobody else's step sets it back.
UpdateAdvances ==
    Settled /\ Settled' =>
        /\ Worker => UpdateLeft' < UpdateLeft
        /\ UpdateLeft' <= UpdateLeft
        /\ InstallFails => installing.build # MaxBuild

LEMMA CopiedInvariant == Spec => []CopiedInv
<1>1. Init => CopiedInv
  BY DEF Init, CopiedInv
<1>2. ASSUME WorkerInv, CopiedInv, [Next]_vars PROVE CopiedInv'
  <2>1. CASE UNCHANGED <<www, copying, newest>>
    BY <1>2, <2>1 DEF CopiedInv
  <2>2. CASE StartDeploy
    BY <2>2 DEF CopiedInv, StartDeploy, File
  <2>3. ASSUME NEW f \in File, CopyFile(f) PROVE CopiedInv'
    <3>1. DOMAIN www = {"script", "index", "hashed"}
      BY <1>2 DEF WorkerInv, TypeOK
    <3> QED BY <1>2, <2>3, <3>1 DEF CopiedInv, CopyFile, File
  <2> QED BY <1>2, <2>1, <2>2, <2>3 DEF Next, Worker, Deploy, SwitchNetwork,
             UpdateFound, Precache, InstallFails, Installed, Activate, LoadIndex,
             LoadScript, CloseTab, vars
<1> QED BY <1>1, <1>2, WorkerInvariant, PTL DEF Spec

\* The length of what is left to install.
LEMMA LeftLength ==
    ASSUME WorkerInv
    PROVE  /\ Len(installing.left) \in 0 .. 2
           /\ installing.left # << >> =>
                /\ Len(Tail(installing.left)) = Len(installing.left) - 1
                /\ Head(installing.left) \in {"index", "hashed"}
           /\ Phase \in 0 .. 8 /\ UpdateLeft \in 0 .. 17
<1>1. installing.left \in {<<"index", "hashed">>, <<"hashed">>, << >>}
  BY DEF WorkerInv, TypeOK
<1>2. /\ Len(installing.left) \in 0 .. 2
      /\ installing.left # << >> =>
            /\ Len(Tail(installing.left)) = Len(installing.left) - 1
            /\ Head(installing.left) \in {"index", "hashed"}
  BY <1>1
<1> DEFINE n == Len(installing.left)
<1>3. n \in {0, 1, 2} /\ 2 + n \in 2 .. 4 /\ 6 + n \in 6 .. 8
  <2>1. n \in 0 .. 2
    BY <1>2
  <2> HIDE DEF n
  <2> QED BY <2>1
<1>4. Phase \in {0, 1, 5, 2 + n, 6 + n}
  BY DEF Phase
<1>5. Phase \in 0 .. 8
  BY <1>3, <1>4
<1> QED BY <1>2, <1>5 DEF UpdateLeft

LEMMA WorkerAdvances ==
    ASSUME WorkerInv, CopiedInv, Settled, Settled', Worker
    PROVE  /\ UpdateLeft' < UpdateLeft
           /\ InstallFails => installing.build # MaxBuild
<1>1. /\ www.script = MaxBuild /\ www.index = MaxBuild /\ MaxBuild \in www.hashed
      /\ online /\ MaxBuild # Nothing /\ MaxBuild \in Nat
  BY MaxBuildAssumption DEF CopiedInv, Settled, Nothing
<1>2. /\ Phase \in 0 .. 8 /\ Len(installing.left) \in 0 .. 2
      /\ installing.left # << >> =>
            /\ Len(Tail(installing.left)) = Len(installing.left) - 1
            /\ Head(installing.left) \in {"index", "hashed"}
  BY LeftLength
<1>3. /\ installing # NoInstall => installing.build > NewestWorker
      /\ installing # NoInstall => installing.build # Nothing
      /\ waiting # Nothing => waiting > active
      /\ active \in 0 .. MaxBuild /\ waiting \in 0 .. MaxBuild
      /\ installing.build \in 0 .. MaxBuild
      /\ NewestWorker = IF waiting = Nothing THEN active ELSE waiting
  BY DEF WorkerInv, TypeOK, OrderInv, NewestWorker
<1>4. InstallFails => installing.build # MaxBuild
  BY <1>1, <1>2 DEF InstallFails, Fetched, FetchIndex, FetchHashed, Nothing
<1>5. ASSUME UpdateFound PROVE UpdateLeft' < UpdateLeft
  <2>1. active # MaxBuild /\ waiting # MaxBuild /\ installing = NoInstall
    BY <1>1, <1>3, <1>5 DEF UpdateFound
  <2>2. /\ installing' = [build |-> MaxBuild, left |-> <<"index", "hashed">>]
        /\ UNCHANGED <<active, waiting>>
    BY <1>1, <1>5 DEF UpdateFound
  <2>3. Phase = 5
    BY <2>1 DEF Phase
  <2>4. installing' # NoInstall /\ installing'.build = MaxBuild /\ Len(installing'.left) = 2
    BY <1>1, <2>2 DEF NoInstall
  <2>5. Phase' = 4
    BY <2>1, <2>2, <2>4 DEF Phase
  <2> QED BY <2>2, <2>3, <2>5 DEF UpdateLeft
<1>6. ASSUME Precache PROVE UpdateLeft' < UpdateLeft
  <2>1. /\ installing.left # << >> /\ installing # NoInstall
        /\ installing'.build = installing.build
        /\ installing'.left = Tail(installing.left)
        /\ UNCHANGED <<active, waiting>>
    BY <1>6 DEF Precache, NoInstall, WorkerInv, TypeOK
  <2>2. installing'.build # Nothing /\ installing' # NoInstall
    BY <1>3, <2>1 DEF NoInstall
  <2>3. Len(installing'.left) = Len(installing.left) - 1
    BY <1>2, <2>1
  <2>4. active # MaxBuild /\ waiting # MaxBuild
    BY <1>3, <2>1, MaxBuildAssumption DEF Nothing
  <2>5. Phase' = Phase - 1
    BY <1>2, <2>1, <2>2, <2>3, <2>4 DEF Phase
  <2> QED BY <1>2, <2>1, <2>5 DEF UpdateLeft
<1>7. ASSUME InstallFails PROVE UpdateLeft' < UpdateLeft
  <2>1. /\ installing.left # << >> /\ installing # NoInstall
        /\ installing' = NoInstall /\ UNCHANGED <<active, waiting>>
    BY <1>7 DEF InstallFails, NoInstall
  <2>2. active # MaxBuild /\ waiting # MaxBuild /\ installing.build # MaxBuild
    BY <1>3, <1>4, <1>7, <2>1, MaxBuildAssumption DEF Nothing
  <2>3. Phase' = 5 /\ Phase \in 6 .. 8
    BY <1>2, <2>1, <2>2 DEF Phase
  <2> QED BY <2>1, <2>3 DEF UpdateLeft
<1>8. ASSUME Installed PROVE UpdateLeft' < UpdateLeft
  <2>1. /\ installing # NoInstall /\ Len(installing.left) = 0
        /\ installing' = NoInstall /\ waiting' = installing.build /\ active' = active
    BY <1>8 DEF Installed
  <2>2. active # MaxBuild /\ waiting # MaxBuild
    BY <1>3, <2>1, MaxBuildAssumption DEF Nothing
  <2>3. CASE installing.build = MaxBuild
    <3>1. Phase = 2 /\ Phase' = 1
      BY <2>1, <2>2, <2>3 DEF Phase
    <3> QED BY <2>1, <2>3, <3>1 DEF UpdateLeft
  <2>4. CASE installing.build # MaxBuild
    <3>1. Phase = 6 /\ Phase' = 5
      BY <2>1, <2>2, <2>4 DEF Phase
    <3> QED BY <3>1 DEF UpdateLeft
  <2> QED BY <2>3, <2>4
<1>9. ASSUME Activate PROVE UpdateLeft' < UpdateLeft
  <2>1. /\ waiting # Nothing /\ active # MaxBuild
        /\ active' = waiting /\ waiting' = Nothing /\ installing' = installing
    BY <1>3, <1>9 DEF Activate
  <2>2. CASE waiting = MaxBuild
    <3>1. Phase = 1 /\ Phase' = 0
      BY <2>1, <2>2 DEF Phase
    <3> QED BY <2>1, <2>2, <3>1 DEF UpdateLeft
  <2>3. CASE waiting # MaxBuild
    <3>1. Phase' = Phase
      BY <1>1, <2>1, <2>3 DEF Phase
    <3> QED BY <1>2, <2>1, <2>3, <3>1 DEF UpdateLeft
  <2> QED BY <2>2, <2>3
<1> QED BY <1>4, <1>5, <1>6, <1>7, <1>8, <1>9 DEF Worker

LEMMA OthersSetNothingBack ==
    ASSUME WorkerInv, Settled, Settled', [Next]_vars
    PROVE  Worker \/ UpdateLeft' = UpdateLeft
BY DEF Settled, Next, Deploy, StartDeploy, CopyFile, SwitchNetwork, LoadIndex,
   LoadScript, CloseTab, vars, UpdateLeft, Phase

\* When the deployments have ended the update is always under way.
THEOREM WorkerUpdateUnderWay == Spec => []UpdateUnderWay
<1>1. ASSUME WorkerInv, CopiedInv, Settled PROVE www.script = MaxBuild
  BY <1>1 DEF CopiedInv, Settled
<1>2. ASSUME WorkerInv, CopiedInv, Settled
      PROVE  /\ UpdateLeft = 0 <=> active = MaxBuild
             /\ \/ active = MaxBuild
                \/ waiting = MaxBuild
                \/ installing # NoInstall
                \/ www.script \notin {Nothing, NewestWorker}
  <2>1. UpdateLeft = 0 <=> active = MaxBuild
    <3>1. Phase \in 0 .. 8 /\ Len(installing.left) \in 0 .. 2
      BY <1>2, LeftLength
    <3>2. Phase = 0 <=> active = MaxBuild
      BY <3>1 DEF Phase
    <3>3. active = MaxBuild => waiting = Nothing
      BY <1>2, MaxBuildAssumption DEF WorkerInv, TypeOK, Nothing
    <3> QED BY <3>1, <3>2, <3>3 DEF UpdateLeft
  <2> QED BY <1>1, <1>2, <2>1, MaxBuildAssumption DEF NewestWorker, Nothing
<1>3. WorkerInv /\ CopiedInv => UpdateUnderWay
  BY <1>2 DEF UpdateUnderWay
<1> QED BY <1>3, WorkerInvariant, CopiedInvariant, PTL

\* And it is at most seventeen steps away.
THEOREM WorkerUpdateAdvances == Spec => [][UpdateAdvances]_vars
<1>1. WorkerInv /\ CopiedInv /\ [Next]_vars => UpdateAdvances
  <2> SUFFICES ASSUME WorkerInv, CopiedInv, [Next]_vars, Settled, Settled'
               PROVE  /\ Worker => UpdateLeft' < UpdateLeft
                      /\ UpdateLeft' <= UpdateLeft
                      /\ InstallFails => installing.build # MaxBuild
    BY DEF UpdateAdvances
  <2>1. UpdateLeft \in Nat
    BY LeftLength
  <2>2. CASE Worker
    <3>1. UpdateLeft' < UpdateLeft /\ (InstallFails => installing.build # MaxBuild)
      BY <2>2, WorkerAdvances
    <3>2. UpdateLeft' \in Nat
      <4>1. installing'.left \in {<<"index", "hashed">>, <<"hashed">>, << >>}
        BY WorkerStep DEF WorkerInv, TypeOK
      <4>2. Len(installing'.left) \in Nat
        BY <4>1
      <4>3. Phase' \in Nat
        BY <4>2 DEF Phase
      <4>4. \A n \in Nat : 2 * n + 0 \in Nat /\ 2 * n + 1 \in Nat
        OBVIOUS
      <4> QED BY <4>3, <4>4 DEF UpdateLeft
    <3> QED BY <2>1, <3>1, <3>2
  <2>3. CASE ~ Worker
    <3>1. UpdateLeft' = UpdateLeft
      BY <2>3, OthersSetNothingBack
    <3> QED BY <2>1, <2>3, <3>1 DEF Worker
  <2> QED BY <2>2, <2>3
<1> QED BY <1>1, WorkerInvariant, CopiedInvariant, PTL DEF Spec
===============================================================================
