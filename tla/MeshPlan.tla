------------------------------ MODULE MeshPlan ------------------------------
(***************************************************************************)
(* What meshctl computes from an inventory: the node IDs, the links, and   *)
(* for each node the WireGuard peers with the ports of both ends.  An      *)
(* inventory is the list of nodes in the order of the file; names are      *)
(* numbers in alphabetical order.                                          *)
(*                                                                         *)
(* A node is [name, linux, endpoint, peersWith, id, port, peerPort]: id    *)
(* and peerPort are 0 when the file does not set them, port is             *)
(* EffectiveWGPort, endpoint says whether the node has a public address.   *)
(***************************************************************************)
EXTENDS Integers, Sequences, FiniteSets

NamesOf(inv) == {inv[i].name : i \in DOMAIN inv}

NodeByName(inv, n) == inv[CHOOSE i \in DOMAIN inv : inv[i].name = n]

\* No two nodes set the same value of a field that 0 leaves unset.
DistinctUnlessZero(inv, field) ==
    \A i, j \in DOMAIN inv : inv[i][field] = inv[j][field] /\ inv[i][field] # 0 => i = j

\* Config.Validate.
Valid(inv) ==
    /\ inv # <<>>
    /\ DistinctUnlessZero(inv, "name")
    /\ DistinctUnlessZero(inv, "peerPort")
    /\ DistinctUnlessZero(inv, "id")
    /\ \A i \in DOMAIN inv : inv[i].peersWith \subseteq NamesOf(inv) \ {inv[i].name}

\* The first number after k that is not taken.
NextFree(taken, k) ==
    LET free == (k + 1 .. k + 1 + Cardinality(taken)) \ taken
    IN  CHOOSE x \in free : \A y \in free : x <= y

\* The k-th number handed out when those before it are and taken is skipped.
Numbered(taken, first, k) ==
    LET number[i \in 0..k] == IF i = 0 THEN first - 1 ELSE NextFree(taken, number[i-1])
    IN  number[k]

Rank(n, names) == Cardinality({m \in names : m <= n})

Unassigned(inv) == {n \in NamesOf(inv) : NodeByName(inv, n).id = 0}
ExplicitIDs(inv) == {inv[i].id : i \in DOMAIN inv} \ {0}

\* Mutants: IDs in the order of the file; explicit IDs are given out again.
NodeIDListed(inv, n) ==
    IF n \notin Unassigned(inv) THEN NodeByName(inv, n).id
    ELSE LET at == CHOOSE i \in DOMAIN inv : inv[i].name = n
         IN  Numbered(ExplicitIDs(inv), 1, Cardinality({i \in 1..at : inv[i].id = 0}))

NodeIDReused(inv, n) ==
    IF n \notin Unassigned(inv) THEN NodeByName(inv, n).id ELSE Rank(n, Unassigned(inv))

\* Auto-assigned IDs follow the alphabetical order and skip the explicit ones.
NodeID(inv, n) ==
    IF n \notin Unassigned(inv) THEN NodeByName(inv, n).id
    ELSE Numbered(ExplicitIDs(inv), 1, Rank(n, Unassigned(inv)))

\* The first address of the link-local range: which one makes no difference.
RangeBase == 65536

\* AssignAddresses.
NodeAddr(inv, n) == RangeBase + NodeID(inv, n)

\* peerAllowed: a node with peers_with links with those it lists only.
Lists(inv, a, b) == NodeByName(inv, a).peersWith = {} \/ b \in NodeByName(inv, a).peersWith
PeerAllowed(inv, a, b) == Lists(inv, a, b) /\ Lists(inv, b, a)

Links(inv) == {p \in NamesOf(inv) \X NamesOf(inv) : p[1] < p[2] /\ PeerAllowed(inv, p[1], p[2])}

\* ComputeLinks refuses a link without a public address on either side.
Viable(inv) ==
    \A p \in Links(inv) :
        NodeByName(inv, p[1]).endpoint \/ NodeByName(inv, p[2]).endpoint

PeersOf(inv, n) == {p \in NamesOf(inv) \ {n} : PeerAllowed(inv, n, p)}

FixedPorts(inv, n) == {NodeByName(inv, p).peerPort : p \in PeersOf(inv, n)} \ {0}
AutoPeers(inv, n)  == {p \in PeersOf(inv, n) : NodeByName(inv, p).peerPort = 0}

\* Mutants: a fixed port is not skipped; wg_peer_port is not looked at.
PeerPortBlind(inv, n, peer) ==
    LET fixed == NodeByName(inv, peer).peerPort
    IN  IF fixed # 0 THEN fixed
        ELSE Numbered({}, NodeByName(inv, n).port, Rank(peer, AutoPeers(inv, n)))

PeerPortUnpinned(inv, n, peer) ==
    Numbered({}, NodeByName(inv, n).port, Rank(peer, PeersOf(inv, n)))

\* The port n listens on for peer.
PeerPort(inv, n, peer) ==
    LET fixed == NodeByName(inv, peer).peerPort
    IN  IF fixed # 0 THEN fixed
        ELSE Numbered(FixedPorts(inv, n), NodeByName(inv, n).port,
                      Rank(peer, AutoPeers(inv, n)))

\* BuildWGPeers.  Both tunnel addresses of a link are the base plus a node ID.
WGPeers(inv, n) ==
    [p \in PeersOf(inv, n) |->
        [listen   |-> PeerPort(inv, n, p),
         endpoint |-> IF NodeByName(inv, p).endpoint THEN PeerPort(inv, p, n) ELSE 0,
         self     |-> NodeAddr(inv, n),
         peer     |-> NodeAddr(inv, p)]]
=============================================================================
