----------------------------- MODULE MCWGApply -----------------------------
(***************************************************************************)
(* WGApply for TLC: three names, of which the inventories manage a and b.  *)
(* One inventory drops b, one makes it unmanaged, one rotates a's key and  *)
(* has an unmanaged peer on c.                                             *)
(***************************************************************************)
EXTENDS WGApply

CONSTANTS a, b, c, k1, k2, k3

Peer(iface, key, unmanaged) ==
    [iface |-> iface, key |-> key, unmanaged |-> unmanaged]

Both    == <<Peer(a, k1, FALSE), Peer(b, k2, FALSE)>>
Handed  == <<Peer(b, k2, TRUE), Peer(a, k1, FALSE)>>
Rotated == <<Peer(a, k3, FALSE), Peer(c, k2, TRUE)>>

All == {Both, Handed, Rotated}

MkBudget(publish, fault, operator, crash) ==
    [publish |-> publish, fault |-> fault, operator |-> operator, crash |-> crash]

Rough      == MkBudget(2, 1, 2, 1)
OneForeign == MkBudget(1, 0, 1, 0)
=============================================================================
