----------------------------- MODULE CostEngine -----------------------------
(***************************************************************************)
(* cost.Engine as a state machine: the per-peer LinkStates and the four    *)
(* configuration fields, changed by the calls the agent makes.  The engine *)
(* has no lock, so the order of calls is arbitrary here; every call is one *)
(* step, which is what its callers assume.  (The calls really overlap in   *)
(* the agent: see the hazards of the README.)                              *)
(***************************************************************************)
EXTENDS CostBands

CONSTANTS
    Peers,         \* peer names the agent may meet
    Configs,       \* configurations UpdateConfig may receive
    InitConfig,    \* the configuration NewEngine is given
    Delays,        \* forward delays a probe may report
    Rtts,          \* round-trip times a probe may report
    Costs,         \* static and fallback costs an inventory may name
    Surcharges,    \* bandwidth penalties an inventory may name
    MaxFailures    \* bound: failures are counted up to here

ASSUME ConfigAssumption ==
    /\ \A c \in Configs : WellFormed(c)
    /\ WellFormed(InitConfig)
ASSUME InputAssumption ==
    /\ Delays \subseteq Int
    /\ Rtts \subseteq Nat
    /\ Costs \subseteq Nat
    /\ Surcharges \subseteq Nat
    /\ MaxFailures \in Nat

\* No band costs so much that its surcharged cost is cut off in CurrentCost: true of any
\* sensible inventory, and checked nowhere in the code.
NoOverflow ==
    \A c \in Configs \cup {InitConfig}, n \in Surcharges :
       \A i \in 1..Len(c.bands) : c.bands[i].cost * (1000 + n * 10) < Word

VARIABLES
    config,   \* bands, penaltyCost, alpha and failureLimit
    known,    \* the keys of Engine.state
    link      \* the LinkState of each peer; ZeroState for a peer not known

engineVars == <<config, known, link>>

EngineTypeOK ==
    /\ config \in EngineConfig
    /\ known \subseteq Peers
    /\ link \in [Peers -> LinkState]

\* NewEngine
EngineInit ==
    /\ config = InitConfig
    /\ known = {}
    /\ link = [p \in Peers |-> ZeroState]

CurrentCost(p) ==
    IF p \in known THEN CostOf(config, link[p]) ELSE config.penalty

IsStatic(p) == p \in known /\ link[p].static # None

-----------------------------------------------------------------------------
(***************************************************************************)
(* The calls.  Each makes its peer known, as getState does.                *)
(***************************************************************************)
Store(p, s) ==
    /\ known' = known \cup {p}
    /\ link' = [link EXCEPT ![p] = s]
    /\ UNCHANGED config

SetStaticCost(p, cost) == Store(p, [link[p] EXCEPT !.static = cost])

SetFallbackCost(p, cost) == Store(p, [link[p] EXCEPT !.fallback = cost])

SetBandwidthPenalty(p, n) == Store(p, [link[p] EXCEPT !.bw = n])

RecordSuccess(p, forward, rtt) == Store(p, Success(config, link[p], forward, rtt))

RecordFailure(p) ==
    /\ link[p].failures < MaxFailures
    /\ Store(p, Failure(link[p]))

\* A peer without a LinkState has nothing to clamp.
UpdateConfig(c) ==
    /\ config' = c
    /\ link' = [p \in Peers |->
                  IF p \in known THEN Clamp(Len(c.bands), link[p]) ELSE link[p]]
    /\ UNCHANGED known

EngineNext ==
    \/ \E p \in Peers, cost \in Costs : SetStaticCost(p, cost)
    \/ \E p \in Peers, cost \in Costs : SetFallbackCost(p, cost)
    \/ \E p \in Peers, n \in Surcharges : SetBandwidthPenalty(p, n)
    \/ \E p \in Peers, d \in Delays, rtt \in Rtts : RecordSuccess(p, d, rtt)
    \/ \E p \in Peers : RecordFailure(p)
    \/ \E c \in Configs : UpdateConfig(c)

EngineSpec == EngineInit /\ [][EngineNext]_engineVars

-----------------------------------------------------------------------------
(***************************************************************************)
(* Properties.                                                             *)
(***************************************************************************)

\* Both band numbers of every peer index the band list in force, whatever
\* sequence of probes and hot reloads led here: CurrentCost and evaluateBand
\* index e.bands with them, and a reload may shorten the list under a peer.
BandsInRange ==
    \A p \in Peers : /\ link[p].current \in 1..Len(config.bands)
                     /\ link[p].pending \in 1..Len(config.bands)

\* Hysteresis: the measurement that moves a peer to a new band would not move
\* it again.  So repeating one delay for ever changes the OSPF cost at most
\* once, for any band list the loader accepts (down <= up in every band).
SwitchSettles ==
    [][\A p \in Peers :
          config' = config /\ link'[p].current # link[p].current
            => Target(config'.bands, link'[p].current, link'[p].delay)
                 = link'[p].current]_engineVars

\* A reachable peer's cost moves exactly when RecordSuccess says the band
\* changed: the agent rewrites BIRD's file on that answer alone.
ReportedIffCostMoves ==
    [][\A p \in known :
          /\ config' = config
          /\ ~Unreachable(config, link[p]) /\ ~Unreachable(config, link'[p])
          /\ link'[p].static = None
          /\ link'[p].bw = link[p].bw /\ link'[p].static = link[p].static
          => (CurrentCost(p)' # CurrentCost(p)
                <=> SuccessReported(link[p], link'[p]))]_engineVars

\* A probe failure that moves the advertised cost of a peer already known is
\* reported, also when hot reloads raise or lower the failure limit under a
\* peer that is in the middle of a run of failures.
OutageReported ==
    [][\A p \in known :
          /\ link'[p].failures > link[p].failures
          /\ CurrentCost(p)' # CurrentCost(p)
          => FailureReported(config, link'[p])]_engineVars
=============================================================================
