--------------------------- MODULE MCDynamicCost ---------------------------
(***************************************************************************)
(* DynamicCost for TLC: two peers, two bands that are entered at once, an  *)
(* outage after two failures, and inventories that differ in one respect.  *)
(***************************************************************************)
EXTENDS DynamicCost, TLC

CONSTANTS p1, p2, i1, i2, i3

MkRow(iface, mode, static, bw) ==
    [iface |-> iface, mode |-> mode, static |-> static, bw |-> bw]

MkBand(up, down_, cost) == [up |-> up, down |-> down_, cost |-> cost, hold |-> 1]

\* The settings the agent is built with, and those of wireguard.json: without
\* a penalty, so that the default applies.
BuiltIn == [bands |-> <<MkBand(0, 0, 20), MkBand(4, 2, 80)>>,
            penalty |-> 65535, alpha |-> 100, limit |-> 2]
Generic == [BuiltIn EXCEPT !.penalty = 0]
NoBands == [bands |-> <<>>, penalty |-> 0, alpha |-> 0, limit |-> 0]

Inv(peers, engine) == [peers |-> peers, engine |-> engine]

Plain   == Inv(p1 :> MkRow(i1, "probe", None, 0) @@ p2 :> MkRow(i2, "probe", None, 0), Generic)
Alone   == Inv(p1 :> MkRow(i1, "probe", None, 0), Generic)
Fallback == Inv(p1 :> MkRow(i1, "probe", 150, 0) @@ p2 :> MkRow(i2, "probe", None, 50), Generic)
Pinned  == Inv(p1 :> MkRow(i1, "probe", None, 0) @@ p2 :> MkRow(i2, "static", 150, 0), Generic)
PinnedRenamed == Inv(p1 :> MkRow(i3, "probe", None, 0) @@ p2 :> MkRow(i2, "static", 150, 0), NoBands)

MkBudget(syncs, publish, flap, apply, bird, crash) ==
    [sync |-> syncs, publish |-> publish, flap |-> flap, apply |-> apply,
     bird |-> bird, crash |-> crash]

\* A rename and every kind of fault, with syncs for ever.
Faulty == [inventories |-> {Pinned, PinnedRenamed}, delays |-> {1},
           budget |-> MkBudget(Unlimited, 1, 1, 1, 1, 1)]

\* A peer joins, or leaves, while a round is on its way.
Joining == [inventories |-> {Alone, Plain}, delays |-> {1},
            budget |-> MkBudget(Unlimited, 1, 1, 0, 0, 0)]

\* One sync, then outages while the links' delays move between the bands.
Outages == [inventories |-> {Fallback}, delays |-> {1, 9},
            budget |-> MkBudget(1, 0, 2, 0, 0, 0)]

\* Syncs for ever, one outage, nothing goes wrong.
Quiet == [inventories |-> {Plain}, delays |-> {1},
          budget |-> MkBudget(Unlimited, 0, 1, 0, 0, 0)]

Deployments == {Faulty, Joining, Outages}
QuietOnly   == {Quiet}

\* What two of the theorems suppose of the deployments.
ASSUME HypothesesAssumption == FiniteFaults /\ StaticPeersApart
=============================================================================
