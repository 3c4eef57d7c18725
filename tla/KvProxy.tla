--------------------------------- MODULE KvProxy ---------------------------------
(***************************************************************************)
(* How halakv::KvProxy decides which peer serves a key.  Every process is  *)
(* started with its own --peers list and its own --local_peer; nothing in  *)
(* the code compares the lists of two processes.  Lists are numbered from  *)
(* 1 here, from 0 in the code.                                             *)
(***************************************************************************)
EXTENDS KvApi

CONSTANTS
    Node,       \* the server processes, by their address
    Peers,      \* Peers[n]: the --peers list process n was started with
    Hash        \* _hash, std::hash of the key

\* initialize refuses to start a process that is not in its own list.
ASSUME PeersAssumption ==
    /\ Peers \in [Node -> Seq(Node)]
    /\ \A n \in Node : \E i \in 1 .. Len(Peers[n]) : Peers[n][i] = n
ASSUME HashAssumption == Hash \in [Key -> Nat]

\* Mutant of PeerIndex: the position is one too low.
PeerIndexOffByOne(n) ==
    (CHOOSE i \in 1 .. Len(Peers[n]) : Peers[n][i] = n) - 1

\* _peer_index: where initialize finds the process in its list, first match.
PeerIndex(n) ==
    CHOOSE i \in 1 .. Len(Peers[n]) :
        Peers[n][i] = n /\ \A j \in 1 .. i - 1 : Peers[n][j] # n

\* Mutant of GetPeerIndex: the hash counts from the process's own position.
GetPeerIndexFromHere(n, k) == ((Hash[k] + PeerIndex(n)) % Len(Peers[n])) + 1

\* get_peer_index
GetPeerIndex(n, k) == (Hash[k] % Len(Peers[n])) + 1

\* set, get and remove serve the key from the local cache ...
IsLocal(n, k) == GetPeerIndex(n, k) = PeerIndex(n)

\* ... or pass the request to the sender of this peer.
Target(n, k) == Peers[n][GetPeerIndex(n, k)]

\* What the processes of one cluster have to be started with for the rest to
\* work: the same list, and no address twice in it.
PeersAgree ==
    /\ \A m, n \in Node : Peers[m] = Peers[n]
    /\ \A n \in Node : \A i, j \in 1 .. Len(Peers[n]) :
          Peers[n][i] = Peers[n][j] => i = j

\* The process that serves the key; the same for all when PeersAgree.
Owner(k) == Target(CHOOSE n \in Node : TRUE, k)
===============================================================================
