---------------------------- MODULE DynamicCost ----------------------------
(***************************************************************************)
(* The agent's cost loop: how inventories and probe results reach BIRD.    *)
(*                                                                         *)
(* Two goroutines of agent.Run share the cost engine (CostEngine), the     *)
(* peer maps guarded by a.mu, and one file, the BIRD include:              *)
(*   - config sync fetches an inventory, applies it to WireGuard and BIRD, *)
(*     then updates the maps and the engine;                               *)
(*   - the probe loop measures the peers of the maps, records the results  *)
(*     in the engine and, when one is reported as a change, rewrites the   *)
(*     costs in the include file.                                          *)
(* Both tell BIRD to reload.  A step is one access to shared state: a      *)
(* critical section of a.mu, an engine call, a file access, a BIRD call.   *)
(*                                                                         *)
(* peerIfaces stands for peerAddrs as well: the generator gives each peer  *)
(* an interface and a probe address, and the agent stores both together.   *)
(***************************************************************************)
EXTENDS CostEngine

CONSTANTS
    Ifaces,          \* interface names
    Scenarios,       \* the deployments a behaviour may be about: the inventories
                     \* meshctl may generate for this node, the delays its
                     \* links may have, and the budget
    NoFile,          \* the include file does not exist (BIRD has not read it)
    DefaultPenalty,  \* penalty cost when wireguard.json has none
    DefaultAlpha,    \* the same for the EWMA factor, in percent
    DefaultLimit,    \* the same for the failure limit
    InitialCost,     \* OSPF cost generated for a probed peer
    Unlimited        \* a budget that is never spent

VARIABLES
    peerIfaces,   \* a.peerIfaces and a.peerAddrs: peer -> interface
    sync,         \* the config sync goroutine
    probe,        \* the probe goroutine
    include,      \* the BIRD include file: interface -> cost
    running,      \* the include file as BIRD last read it
    published,    \* the inventory the config sources serve
    down,         \* peers whose tunnel carries no probe now
    left,         \* what is left of the budget: how often each event of
                  \* EventKind may still happen
    scenario      \* the deployment: never changes

agentVars == <<config, known, link, peerIfaces, sync, probe>>
birdVars  == <<include, running>>
worldVars == <<published, down, left, scenario>>
allVars   == <<agentVars, birdVars, worldVars>>

EventKind == {"sync", "publish", "flap", "apply", "bird", "crash"}

IsCostFile(f) ==
    f # NoFile => DOMAIN f \subseteq Ifaces /\ \A i \in DOMAIN f : f[i] \in Nat
IfaceMap == UNION {[S -> Ifaces] : S \in SUBSET Peers}

SyncIdle  == [at |-> "idle", inv |-> None, todo |-> {}]
ProbeIdle == [at |-> "idle", todo |-> {}, changed |-> FALSE,
              ifaces |-> <<>>, costs |-> NoFile]

DynTypeOK ==
    /\ EngineTypeOK
    /\ peerIfaces \in IfaceMap
    /\ sync.at \in {"idle", "wireguard", "compare", "write", "configure",
                    "lock", "peers"}
    /\ sync.inv \in scenario.inventories \cup {None} /\ sync.todo \subseteq Peers
    /\ probe.at \in {"idle", "record", "price", "read", "write", "configure"}
    /\ probe.todo \subseteq Peers
    /\ probe.changed \in BOOLEAN
    /\ probe.ifaces \in IfaceMap
    /\ IsCostFile(probe.costs)
    /\ IsCostFile(include)
    /\ IsCostFile(running)
    /\ published \in scenario.inventories
    /\ down \subseteq Peers
    /\ scenario \in Scenarios
    /\ \A e \in EventKind : left[e] = Unlimited \/ left[e] \in Nat

May(event) == left[event] # 0
Spend(event) ==
    left' = IF left[event] = Unlimited THEN left
            ELSE [left EXCEPT ![event] = @ - 1]

-----------------------------------------------------------------------------
(***************************************************************************)
(* Inventories: the peers and cost settings of one wireguard.json, with    *)
(* the bird-meshctl.conf generated beside it.                              *)
(***************************************************************************)

Row == [iface : Ifaces, mode : {"static", "probe"}, static : OptCost, bw : Nat]

\* Mutant: the static cost is used without asking whether there is one.
GeneratedRaw(r) == r.static

\* buildData: a static cost is the initial cost in either cost mode.
GeneratedCost(r) == IF r.static # None THEN r.static ELSE InitialCost

IfaceSet(inv) == {inv.peers[p].iface : p \in DOMAIN inv.peers}

Generated(inv) ==
    [i \in IfaceSet(inv) |->
        GeneratedCost(inv.peers[CHOOSE p \in DOMAIN inv.peers :
                                    inv.peers[p].iface = i])]

\* Mutant: a static cost only ever becomes the fallback.
ConfiguredAsFallback(s, r) ==
    [s EXCEPT !.fallback = IF r.static # None THEN r.static ELSE @,
              !.bw = IF r.bw > 0 THEN r.bw ELSE @]

\* updatePeerAddrs, one peer: a probed peer's static cost is its fallback.
Configured(s, r) ==
    [s EXCEPT
        !.static   = IF r.mode = "static" /\ r.static # None THEN r.static ELSE @,
        !.fallback = IF r.mode # "static" /\ r.static # None THEN r.static ELSE @,
        !.bw       = IF r.bw > 0 THEN r.bw ELSE @]

\* Peers some engine call is made for.
Touched(r) == r.static # None \/ r.bw > 0

\* The cost settings of wireguard.json, where 0 means absent.
Defaulted(c) ==
    [c EXCEPT !.penalty = IF @ = 0 THEN DefaultPenalty ELSE @,
              !.alpha   = IF @ = 0 THEN DefaultAlpha ELSE @,
              !.limit   = IF @ = 0 THEN DefaultLimit ELSE @]

\* The generator rejects two peers of a node on one interface name, and the
\* bound on failure counts lies above every failure limit.
ASSUME InventoryAssumption ==
    /\ InitialCost \in Nat /\ InitConfig.limit < MaxFailures
    /\ \A s \in Scenarios : \A inv \in s.inventories :
        /\ DOMAIN inv.peers \subseteq Peers /\ inv.peers \in [DOMAIN inv.peers -> Row]
        /\ \A p, q \in DOMAIN inv.peers :
              inv.peers[p].iface = inv.peers[q].iface => p = q
        /\ inv.engine.bands # <<>> =>
              /\ WellFormed(Defaulted(inv.engine))
              /\ Defaulted(inv.engine).limit < MaxFailures
ASSUME ScenarioAssumption ==
    /\ Unlimited \notin Nat /\ \A S \in SUBSET Ifaces : NoFile \notin [S -> Nat]
    /\ \A s \in Scenarios :
        /\ s.delays \subseteq Int
        /\ s.budget \in [EventKind -> Nat \cup {Unlimited}]

\* The loader wants a static cost for a static peer (config.go:575), and the
\* peer's interface is not another peer's in a later inventory.
StaticPeersApart ==
    \A s \in Scenarios : \A v, w \in s.inventories :
        \A p \in DOMAIN v.peers, q \in DOMAIN w.peers :
            v.peers[p].mode = "static" =>
                /\ v.peers[p].static # None
                /\ w.peers[q].iface = v.peers[p].iface => q = p

\* Failed reloads and restarts can be told from the budget that is left.
FiniteFaults == \A s \in Scenarios : s.budget.bird \in Nat /\ s.budget.crash \in Nat

Overlaid(new, old) ==
    [x \in DOMAIN new \cup DOMAIN old |-> IF x \in DOMAIN new THEN new[x] ELSE old[x]]

\* Mutant: interfaces of the map that the file lacks are appended to it.
RepricedAll(file, costs) == Overlaid(costs, file)

\* replaceBIRDCosts: interface blocks of the file keep their place, and a cost
\* is replaced where the map has one for the block's interface.
Repriced(file, costs) ==
    [i \in DOMAIN file |-> IF i \in DOMAIN costs THEN costs[i] ELSE file[i]]

-----------------------------------------------------------------------------
DynInit ==
    /\ EngineInit
    /\ peerIfaces = <<>>
    /\ sync = SyncIdle
    /\ probe = ProbeIdle
    /\ include = NoFile
    /\ running = NoFile
    /\ scenario \in Scenarios
    /\ published \in scenario.inventories
    /\ down \in SUBSET Peers
    /\ left = scenario.budget

\* updatePeerAddrs holds a.mu for writing from the first peer to the band list.
Locked == sync.at = "peers"

(***************************************************************************)
(* doConfigSync.  A failed fetch changes nothing here: it is a stutter.    *)
(***************************************************************************)
SyncGoto(pc) == sync' = [sync EXCEPT !.at = pc]

SyncFetch ==
    /\ sync.at = "idle"
    /\ May("sync") /\ Spend("sync")
    /\ sync' = [at |-> "wireguard", inv |-> published, todo |-> {}]
    /\ UNCHANGED <<engineVars, peerIfaces, probe, birdVars, published, down, scenario>>

SyncWireguard ==
    /\ sync.at = "wireguard"
    /\ SyncGoto("compare")
    /\ UNCHANGED <<engineVars, peerIfaces, probe, birdVars, worldVars>>

\* Every WireGuard peer failed, underlay routes or the include cannot be
\* written: Apply returns an error and the sync is over.
SyncAbandoned ==
    /\ sync.at \in {"wireguard", "write"}
    /\ May("apply") /\ Spend("apply")
    /\ sync' = SyncIdle
    /\ UNCHANGED <<engineVars, peerIfaces, probe, birdVars, published, down, scenario>>

\* Mutants: an existing file is taken for the current one; costs are left out of
\* the comparison, to keep dynamic costs over a sync.
SyncCompareExists ==
    /\ sync.at = "compare"
    /\ SyncGoto(IF include # NoFile THEN "lock" ELSE "write")
    /\ UNCHANGED <<engineVars, peerIfaces, probe, birdVars, worldVars>>

SyncCompareTopology ==
    /\ sync.at = "compare"
    /\ SyncGoto(IF include # NoFile /\ DOMAIN include = IfaceSet(sync.inv)
                  THEN "lock" ELSE "write")
    /\ UNCHANGED <<engineVars, peerIfaces, probe, birdVars, worldVars>>

\* applyBIRD up to its early return.
SyncCompare ==
    /\ sync.at = "compare"
    /\ SyncGoto(IF include = Generated(sync.inv) THEN "lock" ELSE "write")
    /\ UNCHANGED <<engineVars, peerIfaces, probe, birdVars, worldVars>>

SyncWrite ==
    /\ sync.at = "write"
    /\ include' = Generated(sync.inv)
    /\ SyncGoto("configure")
    /\ UNCHANGED <<engineVars, peerIfaces, probe, running, worldVars>>

SyncConfigure ==
    /\ sync.at = "configure"
    /\ running' = include
    /\ SyncGoto("lock")
    /\ UNCHANGED <<engineVars, peerIfaces, probe, include, worldVars>>

\* BIRD may have reloaded before the answer was lost.
SyncConfigureFails ==
    /\ sync.at = "configure"
    /\ May("bird") /\ Spend("bird")
    /\ running' \in {running, include}
    /\ sync' = SyncIdle
    /\ UNCHANGED <<engineVars, peerIfaces, probe, include, published, down, scenario>>

SyncLock ==
    /\ sync.at = "lock"
    /\ sync' = [sync EXCEPT !.at = "peers", !.todo = DOMAIN sync.inv.peers]
    /\ UNCHANGED <<engineVars, peerIfaces, probe, birdVars, worldVars>>

\* One peer of wgCfg.Peers (a list, its order left open): its entry in the maps and the
\* one or two engine calls about it.  Peers that left the inventory keep theirs.
SyncPeer(p) ==
    /\ sync.at = "peers" /\ p \in sync.todo
    /\ LET row == sync.inv.peers[p]
       IN  /\ peerIfaces' = Overlaid([q \in {p} |-> row.iface], peerIfaces)
           /\ link' = [link EXCEPT ![p] = Configured(@, row)]
           /\ known' = IF Touched(row) THEN known \cup {p} ELSE known
    /\ sync' = [sync EXCEPT !.todo = @ \ {p}]
    /\ UNCHANGED <<config, probe, birdVars, worldVars>>

SyncBands ==
    /\ sync.at = "peers" /\ sync.todo = {}
    /\ IF sync.inv.engine.bands # <<>>
         THEN UpdateConfig(Defaulted(sync.inv.engine))
         ELSE UNCHANGED engineVars
    /\ sync' = SyncIdle
    /\ UNCHANGED <<peerIfaces, probe, birdVars, worldVars>>

SyncStep ==
    \/ SyncFetch \/ SyncWireguard \/ SyncAbandoned \/ SyncCompare \/ SyncWrite
    \/ SyncConfigure \/ SyncConfigureFails \/ SyncLock \/ SyncBands
    \/ \E p \in Peers : SyncPeer(p)

-----------------------------------------------------------------------------
(***************************************************************************)
(* doProbeRound and applyDynamicCosts.                                     *)
(***************************************************************************)
ProbeStart ==
    /\ probe.at = "idle" /\ ~Locked
    /\ LET targets == {p \in DOMAIN peerIfaces : ~IsStatic(p)}
       IN  /\ targets # {}
           /\ probe' = [probe EXCEPT !.at = "record", !.todo = targets]
    /\ UNCHANGED <<engineVars, peerIfaces, sync, birdVars, worldVars>>

\* Mutant: the last result of the round decides.
RecordedLast(p, reported) ==
    /\ probe' = [probe EXCEPT !.todo = @ \ {p}, !.changed = reported]
    /\ UNCHANGED <<peerIfaces, sync, birdVars, worldVars>>

Recorded(p, reported) ==
    /\ probe' = [probe EXCEPT !.todo = @ \ {p}, !.changed = @ \/ reported]
    /\ UNCHANGED <<peerIfaces, sync, birdVars, worldVars>>

ProbeAnswered(p) ==
    /\ probe.at = "record" /\ p \in probe.todo \ down
    /\ \E d \in scenario.delays, rtt \in Rtts : RecordSuccess(p, d, rtt)
    /\ Recorded(p, SuccessReported(link[p], link'[p]))

\* A lost packet is a tunnel that is down for one probe.  At the bound the counter
\* stays: no limit is as high (InventoryAssumption), so no comparison with a limit
\* can tell.
ProbeLost(p) ==
    /\ probe.at = "record" /\ p \in probe.todo \cap down
    /\ IF link[p].failures < MaxFailures THEN RecordFailure(p)
                                         ELSE UNCHANGED engineVars
    /\ Recorded(p, /\ link[p].failures < MaxFailures
                   /\ FailureReported(config, link'[p]))

ProbeDone == probe.at = "record" /\ probe.todo = {}

ProbeQuiet ==
    /\ ProbeDone /\ ~probe.changed
    /\ probe' = ProbeIdle
    /\ UNCHANGED <<engineVars, peerIfaces, sync, birdVars, worldVars>>

CopyIfaces ==
    /\ ProbeDone /\ probe.changed /\ ~Locked
    /\ probe' = [at |-> "price", todo |-> DOMAIN peerIfaces, changed |-> FALSE,
                  ifaces |-> peerIfaces, costs |-> <<>>]
    /\ UNCHANGED <<engineVars, peerIfaces, sync, birdVars, worldVars>>

\* One peer of the copied map, in any order; the last one priced for an interface
\* wins.  A config sync may call the engine between two of them.
PricePeer(p) ==
    /\ probe.at = "price" /\ p \in probe.todo
    /\ LET prices == Overlaid([i \in {probe.ifaces[p]} |-> CurrentCost(p)], probe.costs)
       IN  probe' = IF probe.todo = {p}
                      THEN [ProbeIdle EXCEPT !.at = "read", !.costs = prices]
                      ELSE [probe EXCEPT !.todo = @ \ {p}, !.costs = prices]
    /\ UNCHANGED <<engineVars, peerIfaces, sync, birdVars, worldVars>>

\* From here costs is the new content of the file.
ReadInclude ==
    /\ probe.at = "read"
    /\ LET updated == IF include = NoFile THEN NoFile
                      ELSE Repriced(include, probe.costs)
       IN  probe' = IF updated = include
                      THEN ProbeIdle
                      ELSE [probe EXCEPT !.at = "write", !.costs = updated]
    /\ UNCHANGED <<engineVars, peerIfaces, sync, birdVars, worldVars>>

\* Mutant: the file is written but BIRD is not told.
WriteCostsOnly ==
    /\ probe.at = "write"
    /\ include' = probe.costs
    /\ probe' = ProbeIdle
    /\ UNCHANGED <<engineVars, peerIfaces, sync, running, worldVars>>

WriteCosts ==
    /\ probe.at = "write"
    /\ include' = probe.costs
    /\ probe' = [ProbeIdle EXCEPT !.at = "configure"]
    /\ UNCHANGED <<engineVars, peerIfaces, sync, running, worldVars>>

WriteCostsFails ==
    /\ probe.at = "write"
    /\ May("apply") /\ Spend("apply")
    /\ probe' = ProbeIdle
    /\ UNCHANGED <<engineVars, peerIfaces, sync, birdVars, published, down, scenario>>

ConfigureCosts ==
    /\ probe.at = "configure"
    /\ running' = include
    /\ probe' = ProbeIdle
    /\ UNCHANGED <<engineVars, peerIfaces, sync, include, worldVars>>

ConfigureCostsFails ==
    /\ probe.at = "configure"
    /\ May("bird") /\ Spend("bird")
    /\ running' \in {running, include}
    /\ probe' = ProbeIdle
    /\ UNCHANGED <<engineVars, peerIfaces, sync, include, published, down, scenario>>

ProbeStep ==
    \/ ProbeStart
    \/ \E p \in Peers : ProbeAnswered(p) \/ ProbeLost(p) \/ PricePeer(p)
    \/ ProbeQuiet \/ CopyIfaces \/ ReadInclude
    \/ WriteCosts \/ WriteCostsFails \/ ConfigureCosts \/ ConfigureCostsFails

-----------------------------------------------------------------------------
(***************************************************************************)
(* The world around the two goroutines.                                    *)
(***************************************************************************)
Publish(inv) ==
    /\ inv # published
    /\ May("publish") /\ Spend("publish")
    /\ published' = inv
    /\ UNCHANGED <<agentVars, birdVars, down, scenario>>

Flap(p) ==
    /\ May("flap") /\ Spend("flap")
    /\ down' = IF p \in down THEN down \ {p} ELSE down \cup {p}
    /\ UNCHANGED <<agentVars, birdVars, published, scenario>>

\* The agent is killed and started again; the file and BIRD remain.
AgentRestarts ==
    /\ May("crash") /\ Spend("crash")
    /\ config' = InitConfig
    /\ known' = {}
    /\ link' = [p \in Peers |-> ZeroState]
    /\ peerIfaces' = <<>>
    /\ sync' = SyncIdle
    /\ probe' = ProbeIdle
    /\ UNCHANGED <<birdVars, published, down, scenario>>

BirdRestarts ==
    /\ May("crash") /\ Spend("crash")
    /\ running' = include
    /\ UNCHANGED <<agentVars, include, published, down, scenario>>

WorldStep ==
    \/ \E inv \in scenario.inventories : Publish(inv)
    \/ \E p \in Peers : Flap(p)
    \/ AgentRestarts \/ BirdRestarts

DynNext == SyncStep \/ ProbeStep \/ WorldStep

DynSpec == DynInit /\ [][DynNext]_allVars

\* Both loops are driven by tickers and their blocking calls have time limits.
\* The probe loop competes for a.mu, and sync.RWMutex lets a reader that waits
\* in before the next writer: strong fairness.
DynFairSpec == DynSpec /\ WF_allVars(SyncStep) /\ SF_allVars(ProbeStep)

-----------------------------------------------------------------------------
(***************************************************************************)
(* Properties.                                                             *)
(***************************************************************************)
IfaceOf(p) == published.peers[p].iface

Probed(p) == p \in DOMAIN published.peers /\ published.peers[p].mode = "probe"

UnreachableCost(p) ==
    IF Probed(p) /\ published.peers[p].static # None THEN published.peers[p].static
    ELSE config.penalty

Advertises(p, cost) ==
    /\ p \in DOMAIN published.peers
    /\ running # NoFile /\ IfaceOf(p) \in DOMAIN running /\ running[IfaceOf(p)] = cost

\* Whatever a config sync and a cost update do to the file between each
\* other's steps, it holds the interfaces of one generated inventory, never a
\* mixture of an old and a new one (applyBIRD and replaceBIRDCosts write it).
OneTopology ==
    include # NoFile => \E inv \in scenario.inventories : DOMAIN include = IfaceSet(inv)

\* README "Peers with cost_mode: static ... always use the configured
\* static_cost": such a peer's interface never carries another cost in the
\* file, in no interleaving of the two goroutines and across restarts.
StaticCostKept ==
    include # NoFile =>
      \A p \in Peers :
        LET rows == {inv.peers[p] : inv \in {v \in scenario.inventories :
                                                p \in DOMAIN v.peers}}
        IN  \A r \in rows :
              /\ rows = {r} /\ r.mode = "static"
              /\ r.iface \in DOMAIN include
              => include[r.iface] = r.static

\* Unless a reload failed or a process died, BIRD runs the file on disk or a
\* goroutine is about to tell it to: the two writers cannot lose each other's
\* reload (both call Configure after their own rename).
NoReloadLost ==
    left.bird = scenario.budget.bird /\ left.crash = scenario.budget.crash

ReloadPending ==
    NoReloadLost /\ running # include => sync.at = "configure" \/ probe.at = "configure"

\* Once publishing stops, BIRD ends up with the published interfaces for good,
\* although a cost update that read the file earlier may write an old one back.
TopologyConverges ==
    []NoReloadLost => <>[](running # NoFile /\ DOMAIN running = IfaceSet(published))

\* A peer that stays reachable does not stay at the penalty cost.  No cost
\* update is triggered by the recovery itself (RecordSuccess reports bands
\* only), so this rests on the config sync overwriting the file.
PenaltyLifted ==
    \A p \in Peers :
      <>[](Probed(p) /\ p \notin down /\ May("sync") /\ NoReloadLost)
        => <>[]~Advertises(p, config.penalty)

\* Once no config sync comes between, an outage reaches BIRD: a peer that stays
\* unreachable ends at its fallback or penalty cost (doProbeRound gathers the
\* reports of a whole round, then applyDynamicCosts prices every peer), unless a
\* reload was lost.
OutageReachesBird ==
    \A p \in Peers :
      <>[](Probed(p) /\ p \in down /\ sync.at = "idle" /\ ~May("sync") /\ NoReloadLost)
        => <>[]Advertises(p, UnreachableCost(p))


\* README "unreachable | 65535 (or static_cost fallback)": while a peer stays
\* unreachable BIRD keeps being given that cost.
OutageAdvertised ==
    \A p \in Peers :
      <>[](Probed(p) /\ p \in down) => []<>Advertises(p, UnreachableCost(p))
=============================================================================
