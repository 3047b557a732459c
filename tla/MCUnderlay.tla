---------------------------- MODULE MCUnderlay ----------------------------
(***************************************************************************)
(* UnderlayRoutes for TLC: a node with two peers, the first one with both  *)
(* address families.                                                       *)
(***************************************************************************)
EXTENDS UnderlayRoutes

CONSTANTS p1, p2, own4, own6, new4, a4, a6, b4, moved4, gw4, gw6, other4, far4

Both(v4, v6) == [f \in Family |-> IF f = "ipv4" THEN v4 ELSE v6]

Peer1     == [name |-> p1, endpoint |-> Both(a4, a6)]
Peer2     == [name |-> p2, endpoint |-> Both(b4, None)]
Peer2Else == [name |-> p2, endpoint |-> Both(moved4, None)]

Inv(underlay, peers) == [own |-> Both(own4, own6), underlay |-> underlay, peers |-> peers]

Default == Both(None, None)
Alone   == Inv(Default, <<Peer1>>)
Joined  == Inv(Default, <<Peer1, Peer2>>)
Renamed == Inv(Both("iface", "auto"), <<Peer2Else, Peer1>>)
Plain   == Inv(None, <<Peer1>>)
Detected == Inv(Both("iface", "auto"), <<Peer1>>)

Net(gateway, address, onlink) ==
    [gateway |-> gateway, address |-> address, onlink |-> onlink]

Home    == Net(Both(gw4, gw6), Both(own4, own6), {gw4, gw6})
NoV6    == Net(Both(gw4, None), Both(own4, None), {gw4})
Moved   == Net(Both(other4, gw6), Both(new4, own6), {other4, gw6})
NextTo  == Net(Both(far4, gw6), Both(new4, own6), {far4, gw6, a4})
SameLan == Net(Both(other4, gw6), Both(own4, own6), {gw4, gw6, other4})

MkBudget(publish, net, detect, write, reload, crash) ==
    [publish |-> publish, network |-> net, detect |-> detect, write |-> write,
     reload |-> reload, crash |-> crash]

\* Peers join, leave and move while detections, writes, reloads and processes fail.
Editing == [inventories |-> {Alone, Joined, Renamed}, networks |-> {Home},
            budget |-> MkBudget(2, 0, 1, 1, 1, 1)]

\* The node moves and loses a family.
Moving == [inventories |-> {Detected}, networks |-> {Home, NoV6, Moved, NextTo},
           budget |-> MkBudget(0, 2, 1, 0, 1, 1)]

\* The router is replaced by another one on the same link.
Replaced == [inventories |-> {Joined}, networks |-> {Home, SameLan},
             budget |-> MkBudget(0, 2, 0, 0, 0, 1)]

\* The underlay section is added to a node, or taken away.
Switched == [inventories |-> {Plain, Alone}, networks |-> {Home},
             budget |-> MkBudget(1, 0, 0, 0, 0, 0)]

Nodes    == {Editing, Moving, Replaced, Switched}
SwitchedOnly == {Switched}
=============================================================================
