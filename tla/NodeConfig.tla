----------------------------- MODULE NodeConfig -----------------------------
(***************************************************************************)
(* What a node promises the operator about the configuration it runs,      *)
(* whatever the way from the sources to the node: it is one that was       *)
(* published, and a newer one is given up for an older one only when       *)
(* something went wrong that allows it.  Publications are counted.         *)
(***************************************************************************)
EXTENDS Integers

CONSTANT None   \* the node runs no configuration yet

VARIABLES
    offered,    \* how many configurations were published
    lagging,    \* what reaches the node may be older than what it runs
    runs        \* the configuration the node runs

vars == <<offered, lagging, runs>>

NodeInit == offered = 1 /\ lagging \in BOOLEAN /\ runs = None

Offer == offered' = offered + 1 /\ UNCHANGED <<lagging, runs>>

Lapse == lagging' = TRUE /\ UNCHANGED <<offered, runs>>

Take(v) ==
    /\ ~lagging /\ runs # None => v >= runs
    /\ runs' = v
    /\ UNCHANGED <<offered, lagging>>

NodeNext == Offer \/ Lapse \/ \E v \in 1..offered : Take(v)

NodeSpec == NodeInit /\ [][NodeNext]_vars
=============================================================================
