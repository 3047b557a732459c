--------------------------- MODULE MCMeshRollout ---------------------------
(***************************************************************************)
(* MeshRollout for TLC.  Nodes 1 and 3 are pinned, with a wg_peer_port     *)
(* that lies in the range others are assigned from; 2 and 4 are not; 4 has *)
(* no public address and links with 1 and 2 only.                          *)
(***************************************************************************)
EXTENDS MeshRollout

Node(name, id, port, peerPort, endpoint, peersWith) ==
    [name |-> name, linux |-> name # 3, endpoint |-> endpoint, peersWith |-> peersWith,
     id |-> id, port |-> port, peerPort |-> peerPort]

One   == Node(1, 2, 10, 11, TRUE,  {})
Two   == Node(2, 0, 10, 0,  TRUE,  {})
Three == Node(3, 1, 20, 10, TRUE,  {})
Four  == Node(4, 0, 10, 0,  FALSE, {1, 2})

FourNodes == {One, Two, Three, Four}

\* A new file, and a mesh to add nodes to and remove nodes from.
SomeFiles == {<<>>, <<Three, Two, One>>}
=============================================================================
