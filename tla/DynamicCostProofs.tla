------------------------- MODULE DynamicCostProofs -------------------------
(***************************************************************************)
(* Proofs about DynamicCost, for any peers, inventories, delays and        *)
(* budgets of syncs, faults and outages.                                   *)
(*                                                                         *)
(* The agent's invariant AgentInv is that of the engine (EngineInv, from   *)
(* CostEngineProofs: here each step of the agent is shown to keep it) and  *)
(* the types of the two goroutines.  On it rest three arguments:           *)
(*   - TopologyInv: whatever is written to the file next was generated     *)
(*     from one inventory, or was read from the file and kept its          *)
(*     interfaces.                                                         *)
(*   - ReloadInv: who has written the file has yet to have it loaded.      *)
(*   - StaticInv: a static peer's cost travels from the inventory to the   *)
(*     file, and from the inventory to the engine to the price list to the *)
(*     file, without ever being another one.                               *)
(* RoundsReprice and AgentSwitchesSettle carry promises of the engine over *)
(* to the agent: only an answered probe changes a band (BandMoves), and    *)
(* only a lost one raises a failure count (OutageMarks).                   *)
(***************************************************************************)
EXTENDS DynamicCost, CostEngineProofs

SyncPoints  == {"idle", "wireguard", "compare", "write", "configure", "lock", "peers"}
ProbePoints == {"idle", "record", "price", "read", "write", "configure"}

SyncOK ==
    /\ sync \in [at : SyncPoints, inv : scenario.inventories \cup {None},
                 todo : SUBSET Peers]
    /\ sync.at # "idle" => sync.inv \in scenario.inventories
    /\ sync.at = "peers" => sync.todo \subseteq DOMAIN sync.inv.peers

ProbeOK ==
    /\ probe = [at |-> probe.at, todo |-> probe.todo, changed |-> probe.changed,
                ifaces |-> probe.ifaces, costs |-> probe.costs]
    /\ probe.at \in ProbePoints
    /\ probe.todo \subseteq Peers /\ probe.changed \in BOOLEAN
    /\ probe.ifaces \in IfaceMap /\ IsCostFile(probe.costs)
    /\ probe.at \in {"price", "read", "write"} => probe.costs # NoFile
    /\ probe.at = "price" => probe.todo \subseteq DOMAIN probe.ifaces

FilesOK ==
    /\ peerIfaces \in IfaceMap
    /\ IsCostFile(include) /\ IsCostFile(running)

WorldOK ==
    /\ scenario \in Scenarios /\ published \in scenario.inventories
    /\ down \subseteq Peers
    /\ left \in [EventKind -> Nat \cup {Unlimited}]

AgentInv == EngineInv /\ SyncOK /\ ProbeOK /\ FilesOK /\ WorldOK

LEMMA AgentTyped == AgentInv => DynTypeOK /\ BandsInRange
BY DEF AgentInv, EngineInv, SyncOK, ProbeOK, FilesOK, WorldOK, DynTypeOK, SyncPoints, ProbePoints

-----------------------------------------------------------------------------
(***************************************************************************)
(* What the helpers return.                                                *)
(***************************************************************************)
\* Generated files hold costs for interfaces.
LEMMA GeneratedType ==
    ASSUME NEW s \in Scenarios, NEW inv \in s.inventories
    PROVE  /\ DOMAIN Generated(inv) = IfaceSet(inv)
           /\ IsCostFile(Generated(inv))
           /\ \A p \in DOMAIN inv.peers :
                 Generated(inv)[inv.peers[p].iface] = GeneratedCost(inv.peers[p])
<1>1. /\ DOMAIN inv.peers \subseteq Peers /\ inv.peers \in [DOMAIN inv.peers -> Row]
      /\ \A p, q \in DOMAIN inv.peers : inv.peers[p].iface = inv.peers[q].iface => p = q
      /\ InitialCost \in Nat
  BY InventoryAssumption
<1>2. \A p \in DOMAIN inv.peers : inv.peers[p].iface \in Ifaces /\ GeneratedCost(inv.peers[p]) \in Nat
  BY <1>1 DEF Row, OptCost, GeneratedCost
<1>3. DOMAIN Generated(inv) = IfaceSet(inv) /\ IfaceSet(inv) \subseteq Ifaces
  BY <1>2 DEF Generated, IfaceSet
<1>4. ASSUME NEW p \in DOMAIN inv.peers
      PROVE  Generated(inv)[inv.peers[p].iface] = GeneratedCost(inv.peers[p])
  <2> DEFINE q == CHOOSE q \in DOMAIN inv.peers : inv.peers[q].iface = inv.peers[p].iface
  <2>1. q \in DOMAIN inv.peers /\ inv.peers[q].iface = inv.peers[p].iface
    BY <1>4
  <2>2. q = p
    BY <1>1, <2>1
  <2>3. inv.peers[p].iface \in IfaceSet(inv)
    BY DEF IfaceSet
  <2>4. Generated(inv)[inv.peers[p].iface] = GeneratedCost(inv.peers[q])
    BY <2>3 DEF Generated
  <2> QED BY <2>2, <2>4
<1>5. \A i \in DOMAIN Generated(inv) : Generated(inv)[i] \in Nat
  BY <1>2, <1>3, <1>4 DEF IfaceSet
<1> QED BY <1>3, <1>4, <1>5 DEF IsCostFile

\* Repricing keeps the interfaces of the file.
LEMMA RepricedType ==
    ASSUME NEW file, NEW costs, IsCostFile(file), IsCostFile(costs),
           file # NoFile, costs # NoFile
    PROVE  DOMAIN Repriced(file, costs) = DOMAIN file /\ IsCostFile(Repriced(file, costs))
BY DEF Repriced, IsCostFile

\* What an inventory sets of one peer is a LinkState, with the bands as they were.
LEMMA ConfiguredType ==
    ASSUME NEW s \in LinkState, NEW r \in Row
    PROVE  /\ Configured(s, r) \in LinkState
           /\ Configured(s, r).current = s.current /\ Configured(s, r).pending = s.pending
           /\ Configured(s, r).static =
                 IF r.mode = "static" /\ r.static # None THEN r.static ELSE s.static
           /\ ~Touched(r) => Configured(s, r) = s
<1> DEFINE a == IF r.mode = "static" /\ r.static # None THEN r.static ELSE s.static
           b == IF r.mode # "static" /\ r.static # None THEN r.static ELSE s.fallback
           c == IF r.bw > 0 THEN r.bw ELSE s.bw
           t1 == [s EXCEPT !.static = a]
           t2 == [t1 EXCEPT !.fallback = b]
           t3 == [t2 EXCEPT !.bw = c]
<1>1. a \in OptCost /\ b \in OptCost /\ c \in Nat
  BY DEF LinkState, Row
<1>2. Configured(s, r) = t3
  BY DEF Configured, LinkState
<1>3. ~Touched(r) => a = s.static /\ b = s.fallback /\ c = s.bw
  BY DEF Touched
<1> HIDE DEF a, b, c
<1>4. t1 \in LinkState /\ t1.current = s.current /\ t1.pending = s.pending /\ t1.static = a
      /\ t1.fallback = s.fallback /\ t1.bw = s.bw /\ (a = s.static => t1 = s)
  BY <1>1 DEF LinkState
<1> HIDE DEF t1
<1>5. t2 \in LinkState /\ t2.current = s.current /\ t2.pending = s.pending /\ t2.static = a
      /\ t2.bw = s.bw /\ (b = t1.fallback => t2 = t1)
  BY <1>1, <1>4 DEF LinkState
<1> HIDE DEF t2
<1>6. t3 \in LinkState /\ t3.current = s.current /\ t3.pending = s.pending /\ t3.static = a
      /\ (c = t2.bw => t3 = t2)
  BY <1>1, <1>5 DEF LinkState
<1>7. t3.static = IF r.mode = "static" /\ r.static # None THEN r.static ELSE s.static
  BY <1>6 DEF a
<1> HIDE DEF t3
<1> QED BY <1>2, <1>3, <1>4, <1>5, <1>6, <1>7

\* The cost of a peer is a number.
LEMMA CostType ==
    ASSUME NEW c, WellFormed(c), NEW s \in LinkState
    PROVE  CostOf(c, s) \in Nat
<1>1. c.bands \in Seq(Band) /\ c.penalty \in Nat
  BY DEF WellFormed, EngineConfig
<1>2. ASSUME NEW cost \in Nat PROVE Surcharged(cost, s.bw) \in Nat
  <2>1. s.bw \in Nat /\ Word \in Nat \ {0}
    BY WordAssumption DEF LinkState
  <2>2. cost * (1000 + s.bw * 10) \in Nat
    BY <2>1
  <2>3. (cost * (1000 + s.bw * 10)) % Word \in Nat
    <3> DEFINE x == cost * (1000 + s.bw * 10)
    <3>1. x \in Nat
      BY <2>2
    <3> HIDE DEF x
    <3>2. x % Word \in Nat
      BY <2>1, <3>1
    <3> QED BY <3>2 DEF x
  <2>4. ((cost * (1000 + s.bw * 10)) % Word) \div 1000 \in Nat
    <3> DEFINE y == (cost * (1000 + s.bw * 10)) % Word
    <3>1. y \in Nat
      BY <2>3
    <3> HIDE DEF y
    <3>2. y \div 1000 \in Nat
      BY <3>1
    <3> QED BY <3>2 DEF y
  <2> QED BY <2>4 DEF Surcharged
<1>3. s.static \in OptCost /\ s.fallback \in OptCost
  BY DEF LinkState
<1>4. ASSUME s.current \in 1..Len(c.bands) PROVE c.bands[s.current].cost \in Nat
  <2>1. c.bands[s.current] \in Band
    BY <1>1, <1>4
  <2> QED BY <2>1 DEF Band
<1> QED BY <1>1, <1>2, <1>3, <1>4 DEF CostOf, OptCost

LEMMA CurrentCostType == EngineInv => \A p \in Peers : CurrentCost(p) \in Nat
<1> SUFFICES ASSUME EngineInv, NEW p \in Peers PROVE CurrentCost(p) \in Nat
  OBVIOUS
<1>1. link[p] \in LinkState /\ WellFormed(config)
  BY DEF EngineInv, EngineTypeOK
<1>2. config.penalty \in Nat
  BY <1>1 DEF WellFormed, EngineConfig
<1> QED BY <1>1, <1>2, CostType DEF CurrentCost

-----------------------------------------------------------------------------
(***************************************************************************)
(* AgentInv is kept, one part of it at a time.                             *)
(***************************************************************************)
LEMMA InitAgent == DynInit => AgentInv
<1> SUFFICES ASSUME DynInit PROVE AgentInv
  OBVIOUS
<1>1. EngineInv
  BY EngineInvInit DEF DynInit
<1>2. SyncOK
  BY DEF DynInit, SyncOK, SyncIdle, SyncPoints
<1>3. <<>> \in IfaceMap
  <2>1. <<>> \in [{} -> Ifaces]
    OBVIOUS
  <2> QED BY <2>1 DEF IfaceMap
<1>4. ProbeOK
  BY <1>3 DEF DynInit, ProbeOK, ProbeIdle, ProbePoints, IsCostFile
<1>5. FilesOK
  BY <1>3 DEF DynInit, FilesOK, IsCostFile
<1>6. WorldOK
  BY ScenarioAssumption DEF DynInit, WorldOK
<1> QED BY <1>1, <1>2, <1>4, <1>5, <1>6 DEF AgentInv

\* The steps that call the engine.
EngineStep ==
    \/ SyncBands \/ AgentRestarts
    \/ \E p \in Peers : SyncPeer(p) \/ ProbeAnswered(p) \/ ProbeLost(p)

LEMMA OtherSteps ==
    ASSUME [DynNext]_allVars, ~EngineStep PROVE UNCHANGED engineVars
BY DEF DynNext, SyncStep, ProbeStep, WorldStep, EngineStep, allVars, agentVars, engineVars,
       SyncFetch, SyncWireguard, SyncAbandoned, SyncCompare, SyncWrite, SyncConfigure,
       SyncConfigureFails, SyncLock, ProbeStart, ProbeQuiet, CopyIfaces, PricePeer,
       ReadInclude, WriteCosts, WriteCostsFails, ConfigureCosts, ConfigureCostsFails, Publish, Flap,
       BirdRestarts

\* A config sync configures one peer of its inventory at a time.
LEMMA SyncPeerFacts ==
    ASSUME AgentInv, NEW p \in Peers, SyncPeer(p)
    PROVE  /\ sync.at = "peers" /\ sync.inv \in scenario.inventories
           /\ p \in DOMAIN sync.inv.peers /\ sync.inv.peers[p] \in Row
           /\ sync' = [at |-> "peers", inv |-> sync.inv, todo |-> sync.todo \ {p}]
           /\ \A q \in Peers : link'[q] = IF q = p THEN Configured(link[q], sync.inv.peers[q])
                                                   ELSE link[q]
           /\ link' \in [Peers -> LinkState]
           /\ known' = IF Touched(sync.inv.peers[p]) THEN known \cup {p} ELSE known
           /\ peerIfaces' = Overlaid([q \in {p} |-> sync.inv.peers[p].iface], peerIfaces)
           /\ UNCHANGED <<config, probe, birdVars, worldVars>>
<1>1. /\ sync.at = "peers" /\ p \in sync.todo /\ SyncOK
      /\ scenario \in Scenarios /\ link \in [Peers -> LinkState]
      /\ link' = [link EXCEPT ![p] = Configured(@, sync.inv.peers[p])]
      /\ sync' = [sync EXCEPT !.todo = @ \ {p}]
      /\ UNCHANGED <<config, probe, birdVars, worldVars>>
  BY DEF SyncPeer, AgentInv, WorldOK, EngineInv, EngineTypeOK
<1>2. /\ sync.inv \in scenario.inventories /\ p \in DOMAIN sync.inv.peers
      /\ sync' = [at |-> "peers", inv |-> sync.inv, todo |-> sync.todo \ {p}]
  BY <1>1 DEF SyncOK
<1>3. sync.inv.peers[p] \in Row
  BY <1>1, <1>2, InventoryAssumption
<1>4. Configured(link[p], sync.inv.peers[p]) \in LinkState
  BY <1>1, <1>3, ConfiguredType
<1>5. /\ \A q \in Peers : link'[q] = IF q = p THEN Configured(link[q], sync.inv.peers[q])
                                              ELSE link[q]
      /\ link' \in [Peers -> LinkState]
  BY <1>1, <1>4
<1>6. /\ known' = IF Touched(sync.inv.peers[p]) THEN known \cup {p} ELSE known
      /\ peerIfaces' = Overlaid([q \in {p} |-> sync.inv.peers[p].iface], peerIfaces)
  BY DEF SyncPeer
<1> QED BY <1>1, <1>2, <1>3, <1>5, <1>6

LEMMA EngineKept == ASSUME AgentInv, [DynNext]_allVars PROVE EngineInv'
<1>1. /\ EngineInv /\ scenario \in Scenarios
      /\ link \in [Peers -> LinkState] /\ known \subseteq Peers
  BY DEF AgentInv, WorldOK, EngineInv, EngineTypeOK
<1>2. ASSUME UNCHANGED engineVars PROVE EngineInv'
  BY <1>1, <1>2 DEF engineVars, EngineInv, EngineTypeOK, UnmetIsZero, BandsInRange
<1>3. ASSUME NEW p \in Peers, SyncPeer(p) PROVE EngineInv'
  <2>1. /\ sync.inv.peers[p] \in Row /\ config' = config
        /\ link' \in [Peers -> LinkState]
        /\ \A q \in Peers : link'[q] = IF q = p THEN Configured(link[q], sync.inv.peers[q])
                                                ELSE link[q]
        /\ known' = IF Touched(sync.inv.peers[p]) THEN known \cup {p} ELSE known
    BY <1>3, SyncPeerFacts
  <2>2. ASSUME NEW q \in Peers
        PROVE  /\ link'[q].current = link[q].current /\ link'[q].pending = link[q].pending
               /\ q \notin known' => q \notin known /\ link'[q] = link[q]
    <3>1. link[q] \in LinkState
      BY <1>1
    <3> QED BY <2>1, <3>1, ConfiguredType
  <2>3. EngineTypeOK' /\ WellFormed(config)'
    BY <1>1, <2>1 DEF EngineInv, EngineTypeOK
  <2>4. BandsInRange'
    BY <1>1, <2>1, <2>2 DEF EngineInv, BandsInRange
  <2>5. UnmetIsZero'
    BY <1>1, <2>1, <2>2 DEF EngineInv, UnmetIsZero
  <2> QED BY <2>3, <2>4, <2>5 DEF EngineInv
<1>4. CASE SyncBands
  <2>1. sync.inv \in scenario.inventories
    BY <1>4 DEF SyncBands, AgentInv, SyncOK
  <2>2. CASE sync.inv.engine.bands # <<>>
    <3>1. WellFormed(Defaulted(sync.inv.engine))
      BY <1>1, <2>1, <2>2, InventoryAssumption
    <3> QED BY <1>1, <1>4, <2>2, <3>1, UpdateInv DEF SyncBands
  <2>3. CASE sync.inv.engine.bands = <<>>
    BY <1>2, <1>4, <2>3 DEF SyncBands
  <2> QED BY <2>2, <2>3
<1>5. CASE AgentRestarts
  <2>1. EngineInit'
    BY <1>5 DEF AgentRestarts, EngineInit
  <2>2. EngineInit' => EngineInv'
    BY EngineInvInit, PTL
  <2> QED BY <2>1, <2>2
<1>6. ASSUME NEW p \in Peers, ProbeAnswered(p) PROVE EngineInv'
  <2>1. PICK d \in scenario.delays, rtt \in Rtts : RecordSuccess(p, d, rtt)
    BY <1>6 DEF ProbeAnswered
  <2>2. d \in Int /\ rtt \in Nat
    BY <1>1, ScenarioAssumption, InputAssumption
  <2> QED BY <1>1, <2>1, <2>2, SuccessInv
<1>7. ASSUME NEW p \in Peers, ProbeLost(p) PROVE EngineInv'
  BY <1>1, <1>2, <1>7, FailureInv DEF ProbeLost
<1> QED BY <1>2, <1>3, <1>4, <1>5, <1>6, <1>7, OtherSteps DEF EngineStep

LEMMA SyncKept == ASSUME AgentInv, [DynNext]_allVars PROVE SyncOK'
<1>1. /\ SyncOK /\ published \in scenario.inventories /\ scenario \in Scenarios
      /\ scenario' = scenario
  BY DEF AgentInv, WorldOK, DynNext, SyncStep, ProbeStep, WorldStep, allVars, worldVars,
         SyncFetch, SyncWireguard, SyncAbandoned, SyncCompare, SyncWrite, SyncConfigure,
         SyncConfigureFails, SyncLock, SyncPeer, SyncBands, ProbeStart, ProbeAnswered, ProbeLost, Recorded,
         ProbeQuiet, CopyIfaces, PricePeer, ReadInclude, WriteCosts, WriteCostsFails,
         ConfigureCosts, ConfigureCostsFails, Publish, Flap, AgentRestarts, BirdRestarts
<1>2. ASSUME sync' \in {sync, SyncIdle} PROVE SyncOK'
  BY <1>1, <1>2 DEF SyncOK, SyncIdle, SyncPoints
<1>3. ASSUME NEW pc \in SyncPoints \ {"idle", "peers"}, SyncGoto(pc), sync.at # "idle"
      PROVE  SyncOK'
  <2>1. sync' = [at |-> pc, inv |-> sync.inv, todo |-> sync.todo]
    BY <1>1, <1>3 DEF SyncGoto, SyncOK
  <2> QED BY <1>1, <1>3, <2>1 DEF SyncOK
<1>4. CASE SyncFetch
  <2>1. sync' = [at |-> "wireguard", inv |-> published, todo |-> {}]
    BY <1>4 DEF SyncFetch
  <2> QED BY <1>1, <2>1 DEF SyncOK, SyncPoints
<1>5. CASE SyncWireguard \/ SyncCompare \/ SyncWrite \/ SyncConfigure
  BY <1>3, <1>5 DEF SyncWireguard, SyncCompare, SyncWrite, SyncConfigure, SyncPoints
<1>6. CASE SyncAbandoned \/ SyncConfigureFails \/ SyncBands
  BY <1>2, <1>6 DEF SyncAbandoned, SyncConfigureFails, SyncBands
<1>7. CASE ProbeStep
  BY <1>2, <1>7 DEF ProbeStep, ProbeStart, ProbeAnswered, ProbeLost, Recorded, ProbeQuiet,
         CopyIfaces, PricePeer, ReadInclude, WriteCosts, WriteCostsFails, ConfigureCosts,
         ConfigureCostsFails
<1>8. CASE WorldStep \/ UNCHANGED allVars
  BY <1>2, <1>8 DEF WorldStep, Publish, Flap, AgentRestarts, BirdRestarts, allVars, agentVars
<1>9. CASE SyncLock
  <2>1. sync.at = "lock" /\ sync' = [at |-> "peers", inv |-> sync.inv, todo |-> DOMAIN sync.inv.peers]
    BY <1>1, <1>9 DEF SyncLock, SyncOK
  <2>2. sync.inv \in scenario.inventories /\ DOMAIN sync.inv.peers \in SUBSET Peers
    BY <1>1, <2>1, InventoryAssumption DEF SyncOK
  <2> QED BY <1>1, <2>1, <2>2 DEF SyncOK, SyncPoints
<1>10. ASSUME NEW p \in Peers, SyncPeer(p) PROVE SyncOK'
  <2>1. sync' = [at |-> "peers", inv |-> sync.inv, todo |-> sync.todo \ {p}] /\ sync.at = "peers"
    BY <1>10, SyncPeerFacts
  <2> QED BY <1>1, <2>1 DEF SyncOK, SyncPoints
<1> QED BY <1>4, <1>5, <1>6, <1>7, <1>8, <1>9, <1>10 DEF DynNext, SyncStep

LEMMA WorldKept == ASSUME AgentInv, [DynNext]_allVars PROVE WorldOK'
<1>1. WorldOK
  BY DEF AgentInv
<1>2. ASSUME NEW event \in EventKind, May(event), Spend(event)
      PROVE  left' \in [EventKind -> Nat \cup {Unlimited}]
  <2>1. left \in [EventKind -> Nat \cup {Unlimited}] /\ left[event] # 0
    BY <1>1, <1>2 DEF WorldOK, May
  <2>2. left[event] # Unlimited => left[event] - 1 \in Nat
    BY <2>1
  <2> QED BY <1>2, <2>1, <2>2 DEF Spend
<1>3. CASE UNCHANGED worldVars
  BY <1>1, <1>3 DEF worldVars, WorldOK
<1>4. CASE SyncFetch \/ SyncAbandoned \/ WriteCostsFails
  BY <1>1, <1>2, <1>4 DEF SyncFetch, SyncAbandoned, WriteCostsFails, WorldOK, EventKind
<1>5. CASE SyncConfigureFails \/ ConfigureCostsFails
  BY <1>1, <1>2, <1>5 DEF SyncConfigureFails, ConfigureCostsFails, WorldOK, EventKind
<1>6. CASE \E inv \in scenario.inventories : Publish(inv)
  BY <1>1, <1>2, <1>6 DEF Publish, WorldOK, EventKind
<1>7. CASE \E p \in Peers : Flap(p)
  BY <1>1, <1>2, <1>7 DEF Flap, WorldOK, EventKind
<1>8. CASE AgentRestarts \/ BirdRestarts
  BY <1>1, <1>2, <1>8 DEF AgentRestarts, BirdRestarts, WorldOK, EventKind
<1>9. [DynNext]_allVars =>
         \/ UNCHANGED worldVars \/ SyncFetch \/ SyncAbandoned \/ WriteCostsFails
         \/ SyncConfigureFails \/ ConfigureCostsFails \/ AgentRestarts \/ BirdRestarts
         \/ (\E inv \in scenario.inventories : Publish(inv)) \/ (\E p \in Peers : Flap(p))
  BY DEF DynNext, SyncStep, ProbeStep, WorldStep, allVars, SyncWireguard, SyncCompare, SyncWrite,
         SyncConfigure, SyncLock, SyncPeer, SyncBands, ProbeStart, ProbeAnswered, ProbeLost, Recorded,
         ProbeQuiet, CopyIfaces, PricePeer, ReadInclude, WriteCosts, ConfigureCosts
<1> QED BY <1>3, <1>4, <1>5, <1>6, <1>7, <1>8, <1>9

\* The peers of an inventory have interfaces.
LEMMA OverlaidType ==
    ASSUME NEW new \in IfaceMap, NEW old \in IfaceMap
    PROVE  Overlaid(new, old) \in IfaceMap
<1>1. PICK S \in SUBSET Peers : new \in [S -> Ifaces]
  BY DEF IfaceMap
<1>2. PICK T \in SUBSET Peers : old \in [T -> Ifaces]
  BY DEF IfaceMap
<1>3. Overlaid(new, old) \in [S \cup T -> Ifaces] /\ S \cup T \in SUBSET Peers
  BY <1>1, <1>2 DEF Overlaid
<1> QED BY <1>3 DEF IfaceMap

LEMMA FilesKept == ASSUME AgentInv, [DynNext]_allVars PROVE FilesOK'
<1>1. FilesOK /\ ProbeOK /\ SyncOK /\ scenario \in Scenarios
  BY DEF AgentInv, WorldOK
<1>2. CASE SyncWrite
  <2>1. sync.inv \in scenario.inventories
    BY <1>1, <1>2 DEF SyncWrite, SyncOK
  <2> QED BY <1>1, <1>2, <2>1, GeneratedType DEF SyncWrite, FilesOK
<1>3. ASSUME NEW p \in Peers, SyncPeer(p) PROVE FilesOK'
  <2> DEFINE entry == [q \in {p} |-> sync.inv.peers[p].iface]
  <2>1. sync.inv.peers[p].iface \in Ifaces /\ UNCHANGED birdVars
        /\ peerIfaces' = Overlaid(entry, peerIfaces)
    BY <1>3, SyncPeerFacts DEF Row
  <2>2. entry \in [{p} -> Ifaces] /\ {p} \in SUBSET Peers
    BY <2>1
  <2>3. entry \in IfaceMap
    BY <2>2 DEF IfaceMap
  <2> HIDE DEF entry
  <2> QED BY <1>1, <2>1, <2>3, OverlaidType DEF FilesOK, birdVars
<1>4. CASE AgentRestarts
  <2>1. <<>> \in [{} -> Ifaces]
    OBVIOUS
  <2>2. peerIfaces' = <<>> /\ UNCHANGED birdVars
    BY <1>4 DEF AgentRestarts
  <2> QED BY <1>1, <2>1, <2>2 DEF FilesOK, IfaceMap, birdVars
<1>5. CASE WriteCosts
  BY <1>1, <1>5 DEF WriteCosts, FilesOK, ProbeOK
<1>6. CASE peerIfaces' = peerIfaces /\ include' = include /\ running' \in {running, include}
  BY <1>1, <1>6 DEF FilesOK
<1>7. [DynNext]_allVars =>
         \/ SyncWrite \/ (\E p \in Peers : SyncPeer(p)) \/ AgentRestarts \/ WriteCosts
         \/ peerIfaces' = peerIfaces /\ include' = include /\ running' \in {running, include}
  BY DEF DynNext, SyncStep, ProbeStep, WorldStep, allVars, agentVars, birdVars,
         SyncFetch, SyncWireguard, SyncAbandoned, SyncCompare, SyncConfigure,
         SyncConfigureFails, SyncLock, SyncBands, ProbeStart, ProbeAnswered, ProbeLost, Recorded,
         ProbeQuiet, CopyIfaces, PricePeer, ReadInclude, WriteCostsFails,
         ConfigureCosts, ConfigureCostsFails, Publish, Flap, BirdRestarts
<1> QED BY <1>2, <1>3, <1>4, <1>5, <1>6, <1>7

\* Costs for some interfaces are a file.
LEMMA IsFile ==
    ASSUME NEW f, NEW S \in SUBSET Ifaces, f \in [S -> Nat]
    PROVE  f # NoFile /\ IsCostFile(f)
BY ScenarioAssumption DEF IsCostFile

LEMMA RepricedFile ==
    ASSUME NEW file, NEW costs, IsCostFile(file), IsCostFile(costs), file # NoFile, costs # NoFile
    PROVE  Repriced(file, costs) # NoFile
<1>1. DOMAIN file \in SUBSET Ifaces /\ Repriced(file, costs) \in [DOMAIN file -> Nat]
  BY DEF Repriced, IsCostFile
<1> QED BY <1>1, IsFile

LEMMA IfaceMapFacts ==
    ASSUME NEW f \in IfaceMap
    PROVE  DOMAIN f \subseteq Peers /\ \A p \in DOMAIN f : f[p] \in Ifaces
BY DEF IfaceMap

\* The price list of a cost update, one peer further.
PricesWith(p) == Overlaid([i \in {probe.ifaces[p]} |-> CurrentCost(p)], probe.costs)

LEMMA PricedFacts ==
    ASSUME EngineInv, ProbeOK, NEW p \in Peers, PricePeer(p)
    PROVE  /\ PricesWith(p) # NoFile /\ IsCostFile(PricesWith(p))
           /\ probe.at = "price" /\ p \in DOMAIN probe.ifaces
           /\ probe'.costs = PricesWith(p)
           /\ \/ /\ probe'.at = "read" /\ probe'.todo = {} /\ probe'.changed = FALSE
                 /\ probe'.ifaces = <<>>
              \/ /\ probe'.at = "price" /\ probe'.todo = probe.todo \ {p}
                 /\ probe'.changed = probe.changed /\ probe'.ifaces = probe.ifaces
           /\ probe' = [at |-> probe'.at, todo |-> probe'.todo, changed |-> probe'.changed,
                        ifaces |-> probe'.ifaces, costs |-> probe'.costs]
<1> DEFINE one    == [i \in {probe.ifaces[p]} |-> CurrentCost(p)]
           prices == Overlaid(one, probe.costs)
<1>1. /\ probe.at = "price" /\ p \in DOMAIN probe.ifaces
      /\ probe.costs # NoFile /\ IsCostFile(probe.costs)
  BY DEF PricePeer, ProbeOK
<1>2. probe.ifaces[p] \in Ifaces /\ CurrentCost(p) \in Nat
  BY <1>1, IfaceMapFacts, CurrentCostType DEF ProbeOK
<1>3. one \in [{probe.ifaces[p]} -> Nat]
  BY <1>2
<1>4. probe' = IF probe.todo = {p} THEN [ProbeIdle EXCEPT !.at = "read", !.costs = prices]
               ELSE [probe EXCEPT !.todo = @ \ {p}, !.costs = prices]
  BY DEF PricePeer
<1>5. prices = PricesWith(p)
  BY DEF PricesWith
<1> HIDE DEF one
<1>6. prices \in [{probe.ifaces[p]} \cup DOMAIN probe.costs -> Nat]
  BY <1>1, <1>3 DEF Overlaid, IsCostFile
<1>7. {probe.ifaces[p]} \cup DOMAIN probe.costs \in SUBSET Ifaces
  BY <1>1, <1>2 DEF IsCostFile
<1>8. prices # NoFile /\ IsCostFile(prices)
  BY <1>6, <1>7, IsFile
<1> HIDE DEF prices
<1>9. CASE probe.todo = {p}
  <2>1. probe' = [at |-> "read", todo |-> {}, changed |-> FALSE, ifaces |-> <<>>, costs |-> prices]
    BY <1>4, <1>9 DEF ProbeIdle
  <2> QED BY <1>1, <1>5, <1>8, <2>1
<1>10. CASE probe.todo # {p}
  <2>1. probe' = [probe EXCEPT !.todo = @ \ {p}, !.costs = prices]
    BY <1>4, <1>10
  <2>2. probe' = [at |-> "price", todo |-> probe.todo \ {p}, changed |-> probe.changed,
                  ifaces |-> probe.ifaces, costs |-> prices]
    BY <1>1, <2>1 DEF ProbeOK
  <2> QED BY <1>1, <1>5, <1>8, <2>2
<1> QED BY <1>9, <1>10

LEMMA ProbeKept == ASSUME AgentInv, [DynNext]_allVars PROVE ProbeOK'
<1>1. ProbeOK /\ EngineInv /\ FilesOK
  BY DEF AgentInv
<1>2. ASSUME probe' = probe PROVE ProbeOK'
  BY <1>1, <1>2 DEF ProbeOK
<1>3. <<>> \in IfaceMap
  <2>1. <<>> \in [{} -> Ifaces]
    OBVIOUS
  <2> QED BY <2>1 DEF IfaceMap
<1>4. ASSUME probe' = ProbeIdle PROVE ProbeOK'
  BY <1>3, <1>4 DEF ProbeOK, ProbeIdle, ProbePoints, IsCostFile
<1>5. ASSUME NEW p, NEW reported \in BOOLEAN, Recorded(p, reported) PROVE ProbeOK'
  <2>1. probe' = [at |-> probe.at, todo |-> probe.todo \ {p}, changed |-> probe.changed \/ reported,
                  ifaces |-> probe.ifaces, costs |-> probe.costs]
    BY <1>1, <1>5 DEF Recorded, ProbeOK
  <2>2. (probe.changed \/ reported) \in BOOLEAN
    OBVIOUS
  <2> QED BY <1>1, <2>1, <2>2 DEF ProbeOK
<1>6. CASE \E p \in Peers : ProbeAnswered(p) \/ ProbeLost(p)
  BY <1>5, <1>6 DEF ProbeAnswered, ProbeLost, SuccessReported, FailureReported
<1>7. CASE ProbeStart
  <2>1. PICK targets \in SUBSET DOMAIN peerIfaces :
          probe' = [at |-> "record", todo |-> targets, changed |-> probe.changed,
                    ifaces |-> probe.ifaces, costs |-> probe.costs]
    BY <1>1, <1>7 DEF ProbeStart, ProbeOK
  <2>2. targets \subseteq Peers
    BY <1>1, <2>1, IfaceMapFacts DEF FilesOK
  <2> QED BY <1>1, <2>1, <2>2 DEF ProbeOK, ProbePoints
<1>8. CASE CopyIfaces
  <2>1. probe' = [at |-> "price", todo |-> DOMAIN peerIfaces, changed |-> FALSE,
                  ifaces |-> peerIfaces, costs |-> <<>>]
    BY <1>8 DEF CopyIfaces
  <2>2. <<>> \in [{} -> Nat] /\ {} \in SUBSET Ifaces
    OBVIOUS
  <2>3. <<>> # NoFile /\ IsCostFile(<<>>)
    BY <2>2, IsFile
  <2>4. DOMAIN peerIfaces \subseteq Peers
    BY <1>1, IfaceMapFacts DEF FilesOK
  <2> QED BY <1>1, <2>1, <2>3, <2>4 DEF ProbeOK, ProbePoints, FilesOK
<1>9. ASSUME NEW p \in Peers, PricePeer(p) PROVE ProbeOK'
  <2>1. /\ probe'.costs # NoFile /\ IsCostFile(probe'.costs)
        /\ probe'.at \in {"read", "price"} /\ probe'.changed \in BOOLEAN
        /\ probe'.todo \subseteq probe.todo
        /\ (probe'.ifaces = <<>> /\ probe'.at = "read") \/ probe'.ifaces = probe.ifaces
        /\ probe.at = "price"
        /\ probe' = [at |-> probe'.at, todo |-> probe'.todo, changed |-> probe'.changed,
                     ifaces |-> probe'.ifaces, costs |-> probe'.costs]
    <3>1. probe.changed \in BOOLEAN
      BY <1>1 DEF ProbeOK
    <3> QED BY <1>1, <1>9, <3>1, PricedFacts
  <2> QED BY <1>1, <1>3, <2>1 DEF ProbeOK, ProbePoints
<1>10. CASE ReadInclude
  <2>1. CASE probe' = ProbeIdle
    BY <1>4, <2>1
  <2>2. CASE probe' # ProbeIdle
    <3>1. /\ include # NoFile
          /\ probe' = [probe EXCEPT !.at = "write", !.costs = Repriced(include, probe.costs)]
      BY <1>10, <2>2 DEF ReadInclude
    <3>2. probe' = [at |-> "write", todo |-> probe.todo, changed |-> probe.changed,
                    ifaces |-> probe.ifaces, costs |-> Repriced(include, probe.costs)]
      BY <1>1, <3>1 DEF ProbeOK
    <3>3. probe.costs # NoFile /\ IsCostFile(probe.costs) /\ IsCostFile(include)
      BY <1>1, <1>10 DEF ReadInclude, ProbeOK, FilesOK
    <3>4. /\ IsCostFile(Repriced(include, probe.costs))
          /\ Repriced(include, probe.costs) # NoFile
      BY <3>1, <3>3, RepricedType, RepricedFile
    <3> QED BY <1>1, <3>2, <3>4 DEF ProbeOK, ProbePoints
  <2> QED BY <2>1, <2>2
<1>11. CASE WriteCosts
  <2>1. probe' = [at |-> "configure", todo |-> {}, changed |-> FALSE, ifaces |-> <<>>, costs |-> NoFile]
    BY <1>11 DEF WriteCosts, ProbeIdle
  <2> QED BY <1>3, <2>1 DEF ProbeOK, ProbePoints, IsCostFile
<1>12. CASE ProbeQuiet \/ WriteCostsFails \/ ConfigureCosts \/ ConfigureCostsFails \/ AgentRestarts
  BY <1>4, <1>12 DEF ProbeQuiet, WriteCostsFails, ConfigureCosts, ConfigureCostsFails, AgentRestarts
<1>13. CASE SyncStep \/ UNCHANGED allVars
  BY <1>2, <1>13 DEF SyncStep, SyncFetch, SyncWireguard, SyncAbandoned, SyncCompare, SyncWrite,
         SyncConfigure, SyncConfigureFails, SyncLock, SyncPeer, SyncBands, allVars, agentVars
<1>14. CASE WorldStep /\ ~AgentRestarts
  BY <1>2, <1>14 DEF WorldStep, Publish, Flap, BirdRestarts, agentVars
<1> QED BY <1>6, <1>7, <1>8, <1>9, <1>10, <1>11, <1>12, <1>13, <1>14 DEF DynNext, ProbeStep

LEMMA NextAgent == AgentInv /\ [DynNext]_allVars => AgentInv'
BY EngineKept, SyncKept, ProbeKept, FilesKept, WorldKept DEF AgentInv

\* DynTypeOK: the goroutines, the file and BIRD hold what the code's types say.
THEOREM DynTypeCorrect == DynSpec => []DynTypeOK
BY InitAgent, NextAgent, AgentTyped, PTL DEF DynSpec

\* BandsInRange in the running agent: no interleaving of config syncs, which
\* exchange the band list, and probe rounds makes the engine index past it.
THEOREM AgentBandsInRange == DynSpec => []BandsInRange
BY InitAgent, NextAgent, AgentTyped, PTL DEF DynSpec

-----------------------------------------------------------------------------
(***************************************************************************)
(* No mixture of topologies.                                               *)
(***************************************************************************)
IsTopology(f) == \E inv \in scenario.inventories : DOMAIN f = IfaceSet(inv)

TopologyInv ==
    /\ OneTopology
    /\ probe.at = "write" => IsTopology(probe.costs)

LEMMA NextTopology == ASSUME AgentInv, TopologyInv, [DynNext]_allVars PROVE TopologyInv'
<1>1. /\ SyncOK /\ ProbeOK /\ FilesOK /\ scenario \in Scenarios
      /\ (include # NoFile => IsTopology(include))
      /\ (probe.at = "write" => IsTopology(probe.costs))
  BY DEF AgentInv, WorldOK, TopologyInv, OneTopology, IsTopology
<1>2. scenario' = scenario
  BY DEF DynNext, SyncStep, ProbeStep, WorldStep, allVars, worldVars,
         SyncFetch, SyncWireguard, SyncAbandoned, SyncCompare, SyncWrite, SyncConfigure,
         SyncConfigureFails, SyncLock, SyncPeer, SyncBands, ProbeStart, ProbeAnswered, ProbeLost, Recorded,
         ProbeQuiet, CopyIfaces, PricePeer, ReadInclude, WriteCosts, WriteCostsFails,
         ConfigureCosts, ConfigureCostsFails, Publish, Flap, AgentRestarts, BirdRestarts
<1>3. CASE SyncWrite
  <2>1. sync.inv \in scenario.inventories /\ include' = Generated(sync.inv) /\ probe' = probe
    BY <1>1, <1>3 DEF SyncWrite, SyncOK
  <2>2. DOMAIN include' = IfaceSet(sync.inv)
    BY <1>1, <2>1, GeneratedType
  <2> QED BY <1>1, <1>2, <2>1, <2>2 DEF TopologyInv, OneTopology, IsTopology
<1>4. CASE WriteCosts
  <2>1. probe.at = "write" /\ include' = probe.costs /\ probe'.at = "configure"
    BY <1>4 DEF WriteCosts, ProbeIdle
  <2> QED BY <1>1, <1>2, <2>1 DEF TopologyInv, OneTopology, IsTopology
<1>5. CASE ReadInclude
  <2>1. include' = include
    BY <1>5 DEF ReadInclude, birdVars
  <2>2. ASSUME probe'.at = "write" PROVE IsTopology(probe'.costs)
    <3>1. include # NoFile /\ probe' = [probe EXCEPT !.at = "write", !.costs = Repriced(include, probe.costs)]
      BY <1>5, <2>2 DEF ReadInclude, ProbeIdle
    <3>2. probe'.costs = Repriced(include, probe.costs)
      BY <1>1, <3>1 DEF ProbeOK
    <3>3. probe.costs # NoFile /\ IsCostFile(probe.costs) /\ IsCostFile(include)
      BY <1>1, <1>5 DEF ReadInclude, ProbeOK, FilesOK
    <3>4. DOMAIN probe'.costs = DOMAIN include
      BY <3>1, <3>2, <3>3, RepricedType
    <3> QED BY <1>1, <3>1, <3>4 DEF IsTopology
  <2> QED BY <1>1, <1>2, <2>1, <2>2 DEF TopologyInv, OneTopology, IsTopology
<1>6. CASE include' = include /\ (probe'.at = "write" => probe' = probe)
  BY <1>1, <1>2, <1>6 DEF TopologyInv, OneTopology, IsTopology
<1>7. ASSUME NEW p, NEW reported, Recorded(p, reported), probe'.at = "write" PROVE probe.at = "write" /\ probe'.costs = probe.costs
  <2>1. probe' = [probe EXCEPT !.todo = @ \ {p}, !.changed = @ \/ reported]
    BY <1>7 DEF Recorded
  <2> QED BY <1>1, <1>7, <2>1 DEF ProbeOK
<1>8. CASE \E p \in Peers : ProbeAnswered(p) \/ ProbeLost(p)
  <2>1. include' = include
    BY <1>8 DEF ProbeAnswered, ProbeLost, Recorded, birdVars
  <2>2. probe'.at = "write" => probe.at = "write" /\ probe'.costs = probe.costs
    BY <1>7, <1>8 DEF ProbeAnswered, ProbeLost
  <2> QED BY <1>1, <1>2, <2>1, <2>2 DEF TopologyInv, OneTopology, IsTopology
<1>9. CASE ProbeStart
  <2>1. probe'.at = "record"
    BY <1>1, <1>9 DEF ProbeStart, ProbeOK
  <2> QED BY <1>6, <1>9, <2>1 DEF ProbeStart, birdVars
<1>10. CASE CopyIfaces \/ \E p \in Peers : PricePeer(p)
  <2>1. CopyIfaces => probe'.at = "price"
    BY DEF CopyIfaces
  <2>2. ASSUME NEW p \in Peers, PricePeer(p) PROVE probe'.at # "write"
    BY <1>1, <2>2, PricedFacts DEF AgentInv
  <2>3. include' = include
    BY <1>10 DEF CopyIfaces, PricePeer, birdVars
  <2> QED BY <1>6, <1>10, <2>1, <2>2, <2>3
<1>11. CASE ProbeQuiet \/ WriteCostsFails \/ ConfigureCosts \/ ConfigureCostsFails
  BY <1>6, <1>11 DEF ProbeQuiet, WriteCostsFails, ConfigureCosts, ConfigureCostsFails, ProbeIdle, birdVars
<1>12. CASE SyncStep /\ ~SyncWrite
  BY <1>6, <1>12 DEF SyncStep, SyncFetch, SyncWireguard, SyncAbandoned, SyncCompare,
         SyncConfigure, SyncConfigureFails, SyncLock, SyncPeer, SyncBands, birdVars
<1>13. CASE WorldStep \/ UNCHANGED allVars
  BY <1>6, <1>13 DEF WorldStep, Publish, Flap, BirdRestarts, AgentRestarts, ProbeIdle,
         allVars, agentVars, birdVars
<1> QED BY <1>3, <1>4, <1>5, <1>8, <1>9, <1>10, <1>11, <1>12, <1>13 DEF DynNext, ProbeStep

\* OneTopology: whatever a config sync and a cost update do between each other's
\* steps, the file never mixes the interfaces of two inventories.
THEOREM NeverAMixture == DynSpec => []OneTopology
<1>1. DynInit => TopologyInv
  BY DEF DynInit, TopologyInv, OneTopology, ProbeIdle
<1>2. TopologyInv => OneTopology
  BY DEF TopologyInv
<1> QED BY InitAgent, NextAgent, NextTopology, <1>1, <1>2, PTL DEF DynSpec

-----------------------------------------------------------------------------
(***************************************************************************)
(* No lost reload.                                                         *)
(***************************************************************************)
ReloadInv ==
    /\ \A e \in {"bird", "crash"} : left[e] \in Nat /\ left[e] <= scenario.budget[e]
    /\ ReloadPending

LEMMA NextReload ==
    ASSUME FiniteFaults, AgentInv, ReloadInv, [DynNext]_allVars
    PROVE  ReloadInv'
<1>1. /\ \A e \in {"bird", "crash"} :
            left[e] \in Nat /\ left[e] <= scenario.budget[e] /\ scenario.budget[e] \in Nat
      /\ left \in [EventKind -> Nat \cup {Unlimited}] /\ Unlimited \notin Nat
      /\ SyncOK /\ ProbeOK
  BY ScenarioAssumption DEF ReloadInv, FiniteFaults, AgentInv, WorldOK
<1>2. scenario' = scenario
  BY DEF DynNext, SyncStep, ProbeStep, WorldStep, allVars, worldVars,
         SyncFetch, SyncWireguard, SyncAbandoned, SyncCompare, SyncWrite, SyncConfigure,
         SyncConfigureFails, SyncLock, SyncPeer, SyncBands, ProbeStart, ProbeAnswered, ProbeLost, Recorded,
         ProbeQuiet, CopyIfaces, PricePeer, ReadInclude, WriteCosts, WriteCostsFails,
         ConfigureCosts, ConfigureCostsFails, Publish, Flap, AgentRestarts, BirdRestarts
<1>3. ASSUME NEW event \in EventKind, May(event), Spend(event)
      PROVE  /\ \A e \in {"bird", "crash"} : left'[e] \in Nat /\ left'[e] <= left[e]
             /\ event \in {"bird", "crash"} => ~NoReloadLost'
             /\ NoReloadLost' => NoReloadLost
  <2>1. CASE left[event] = Unlimited
    <3>1. event \notin {"bird", "crash"} /\ left' = left
      BY <1>1, <1>3, <2>1 DEF Spend
    <3> QED BY <1>1, <1>2, <3>1 DEF NoReloadLost
  <2>2. CASE left[event] # Unlimited
    <3>1. /\ left' = [left EXCEPT ![event] = @ - 1] /\ left[event] # 0 /\ left[event] \in Nat
          /\ left[event] - 1 \in Nat
      BY <1>1, <1>3, <2>2 DEF Spend, May
    <3>2. \A e \in {"bird", "crash"} :
             left'[e] = IF e = event THEN left[e] - 1 ELSE left[e]
      BY <1>1, <3>1 DEF EventKind
    <3>3. \A e \in {"bird", "crash"} : left'[e] \in Nat /\ left'[e] <= left[e]
      BY <1>1, <3>1, <3>2
    <3>4. event \in {"bird", "crash"} => left'[event] < scenario.budget[event]
      BY <1>1, <3>1, <3>2
    <3>5. event \in {"bird", "crash"} => left'[event] # scenario'.budget[event]
      BY <1>1, <1>2, <3>3, <3>4
    <3>6. event \in {"bird", "crash"} => ~NoReloadLost'
      BY <3>5 DEF NoReloadLost
    <3>7. event \notin {"bird", "crash"} => left'.bird = left.bird /\ left'.crash = left.crash
      BY <3>2
    <3> QED BY <1>2, <3>3, <3>6, <3>7 DEF NoReloadLost
  <2> QED BY <2>1, <2>2
<1>4. ASSUME ReloadPending',
             \/ left' = left
             \/ \E event \in EventKind : May(event) /\ Spend(event)
      PROVE  ReloadInv'
  <2>1. \A e \in {"bird", "crash"} : left'[e] \in Nat /\ left'[e] <= left[e]
    BY <1>1, <1>3, <1>4
  <2> QED BY <1>1, <1>2, <1>4, <2>1 DEF ReloadInv
<1>5. ReloadPending
  BY DEF ReloadInv
<1>6. ASSUME UNCHANGED birdVars, sync'.at = "configure" \/ sync.at # "configure",
             probe'.at = "configure" \/ probe.at # "configure",
             NoReloadLost' => NoReloadLost
      PROVE  ReloadPending'
  BY <1>5, <1>6 DEF ReloadPending, birdVars
<1>7. left' = left => (NoReloadLost' => NoReloadLost)
  BY <1>2 DEF NoReloadLost
<1>8. CASE SyncFetch \/ SyncAbandoned
  <2>1. \E event \in EventKind : May(event) /\ Spend(event)
    BY <1>8 DEF SyncFetch, SyncAbandoned, EventKind
  <2>2. NoReloadLost' => NoReloadLost
    BY <1>3, <2>1
  <2>3. UNCHANGED birdVars /\ sync.at # "configure" /\ probe' = probe
    BY <1>8 DEF SyncFetch, SyncAbandoned
  <2> QED BY <1>4, <1>6, <2>1, <2>2, <2>3
<1>9. CASE SyncWireguard \/ SyncCompare \/ SyncLock \/ SyncBands \/ \E p \in Peers : SyncPeer(p)
  <2>1. UNCHANGED birdVars /\ sync.at # "configure" /\ probe' = probe /\ left' = left
    BY <1>9 DEF SyncWireguard, SyncCompare, SyncLock, SyncPeer, SyncBands, worldVars
  <2> QED BY <1>4, <1>6, <1>7, <2>1
<1>10. CASE SyncWrite
  <2>1. sync' = [sync EXCEPT !.at = "configure"] /\ left' = left
    BY <1>10 DEF SyncWrite, SyncGoto, worldVars
  <2>2. sync'.at = "configure"
    BY <1>1, <2>1 DEF SyncOK
  <2> QED BY <1>4, <2>1, <2>2 DEF ReloadPending
<1>11. CASE WriteCosts
  <2>1. probe'.at = "configure" /\ left' = left
    BY <1>11 DEF WriteCosts, ProbeIdle, worldVars
  <2> QED BY <1>4, <2>1 DEF ReloadPending
<1>12. CASE SyncConfigure \/ ConfigureCosts
  <2>1. running' = include' /\ left' = left
    BY <1>12 DEF SyncConfigure, ConfigureCosts, worldVars
  <2> QED BY <1>4, <2>1 DEF ReloadPending
<1>13. CASE SyncConfigureFails \/ ConfigureCostsFails
  <2>1. May("bird") /\ Spend("bird") /\ "bird" \in EventKind
    BY <1>13 DEF SyncConfigureFails, ConfigureCostsFails, EventKind
  <2>2. ~NoReloadLost'
    BY <1>3, <2>1
  <2> QED BY <1>4, <2>1, <2>2 DEF ReloadPending
<1>14. CASE AgentRestarts \/ BirdRestarts
  <2>1. May("crash") /\ Spend("crash") /\ "crash" \in EventKind
    BY <1>14 DEF AgentRestarts, BirdRestarts, EventKind
  <2>2. ~NoReloadLost'
    BY <1>3, <2>1
  <2> QED BY <1>4, <2>1, <2>2 DEF ReloadPending
<1>15. CASE (\E inv \in scenario.inventories : Publish(inv)) \/ (\E p \in Peers : Flap(p))
  <2>1. \E event \in EventKind : May(event) /\ Spend(event)
    BY <1>15 DEF Publish, Flap, EventKind
  <2>2. NoReloadLost' => NoReloadLost
    BY <1>3, <2>1
  <2>3. UNCHANGED birdVars /\ sync' = sync /\ probe' = probe
    BY <1>15 DEF Publish, Flap, agentVars
  <2> QED BY <1>4, <1>6, <2>1, <2>2, <2>3
<1>16. CASE WriteCostsFails
  <2>1. \E event \in EventKind : May(event) /\ Spend(event)
    BY <1>16 DEF WriteCostsFails, EventKind
  <2>2. NoReloadLost' => NoReloadLost
    BY <1>3, <2>1
  <2>3. UNCHANGED birdVars /\ sync' = sync /\ probe.at # "configure"
    BY <1>16 DEF WriteCostsFails
  <2> QED BY <1>4, <1>6, <2>1, <2>2, <2>3
<1>17. ASSUME NEW p, NEW reported, Recorded(p, reported) PROVE ReloadInv'
  <2>1. probe' = [probe EXCEPT !.todo = @ \ {p}, !.changed = @ \/ reported]
        /\ UNCHANGED birdVars /\ sync' = sync /\ left' = left
    BY <1>17 DEF Recorded, worldVars
  <2>2. probe'.at = probe.at
    BY <1>1, <2>1 DEF ProbeOK
  <2> QED BY <1>4, <1>6, <1>7, <2>1, <2>2
<1>18. CASE \E p \in Peers : ProbeAnswered(p) \/ ProbeLost(p)
  BY <1>17, <1>18 DEF ProbeAnswered, ProbeLost
<1>19. CASE ProbeStart \/ ProbeQuiet \/ CopyIfaces \/ ReadInclude \/ \E p \in Peers : PricePeer(p)
  <2>1. UNCHANGED birdVars /\ sync' = sync /\ probe.at # "configure" /\ left' = left
    BY <1>19 DEF ProbeStart, ProbeQuiet, CopyIfaces, PricePeer, ReadInclude, ProbeDone, worldVars
  <2> QED BY <1>4, <1>6, <1>7, <2>1
<1>20. CASE UNCHANGED allVars
  <2>1. UNCHANGED birdVars /\ sync' = sync /\ probe' = probe /\ left' = left
    BY <1>20 DEF allVars, agentVars, worldVars
  <2> QED BY <1>4, <1>6, <1>7, <2>1
<1> QED BY <1>8, <1>9, <1>10, <1>11, <1>12, <1>13, <1>14, <1>15, <1>16, <1>18, <1>19, <1>20
        DEF DynNext, SyncStep, ProbeStep, WorldStep

\* ReloadPending: the two writers of the file cannot lose each other's reload.
THEOREM NoReloadIsLost == FiniteFaults => (DynSpec => []ReloadPending)
<1> SUFFICES ASSUME FiniteFaults PROVE DynSpec => []ReloadPending
  OBVIOUS
<1>1. DynInit => ReloadInv
  <2> SUFFICES ASSUME DynInit PROVE ReloadInv
    OBVIOUS
  <2>1. scenario \in Scenarios /\ left = scenario.budget /\ include = running
    BY DEF DynInit
  <2>2. \A e \in {"bird", "crash"} : left[e] \in Nat /\ left[e] <= scenario.budget[e]
    BY <2>1 DEF FiniteFaults
  <2> QED BY <2>1, <2>2 DEF ReloadInv, ReloadPending
<1>2. ReloadInv => ReloadPending
  BY DEF ReloadInv
<1>3. AgentInv /\ ReloadInv /\ [DynNext]_allVars => ReloadInv'
  BY NextReload
<1> QED BY InitAgent, NextAgent, <1>1, <1>2, <1>3, PTL DEF DynSpec

-----------------------------------------------------------------------------
(***************************************************************************)
(* Static costs.  s is a scenario; kn and ln stand for known and link.     *)
(***************************************************************************)
RowsOf(s, p) == {inv.peers[p] : inv \in {v \in s.inventories : p \in DOMAIN v.peers}}

\* All inventories of the scenario have this static row for the peer.
StaticRow(s, p, r) == p \in Peers /\ RowsOf(s, p) = {r} /\ r.mode = "static"

StaticFile(s, f) ==
    \A p, r : StaticRow(s, p, r) /\ r.iface \in DOMAIN f => f[r.iface] = r.static

\* The engine knows the cost of a static peer the agent has the interface of.
StaticKnown(s, kn, ln, ifaces) ==
    \A p, r : StaticRow(s, p, r) =>
        \A q \in DOMAIN ifaces : ifaces[q] = r.iface =>
            q = p /\ p \in kn /\ ln[p].static = r.static

StaticInv ==
    /\ include # NoFile => StaticFile(scenario, include)
    /\ probe.at \in {"price", "read", "write"} => StaticFile(scenario, probe.costs)
    /\ StaticKnown(scenario, known, link, peerIfaces)
    /\ probe.at = "price" => StaticKnown(scenario, known, link, probe.ifaces)

LEMMA StaticRowFacts ==
    ASSUME StaticPeersApart, NEW s \in Scenarios, NEW p, NEW r, StaticRow(s, p, r)
    PROVE  /\ r.static # None
           /\ \A w \in s.inventories : \A q \in DOMAIN w.peers :
                w.peers[q].iface = r.iface => q = p
           /\ \A w \in s.inventories : p \in DOMAIN w.peers => w.peers[p] = r
<1>1. PICK v \in s.inventories : p \in DOMAIN v.peers /\ v.peers[p] = r
  BY DEF StaticRow, RowsOf
<1>2. \A w \in s.inventories : p \in DOMAIN w.peers => w.peers[p] \in RowsOf(s, p)
  BY DEF RowsOf
<1>3. \A w \in s.inventories : p \in DOMAIN w.peers => w.peers[p] = r
  BY <1>2 DEF StaticRow
<1>4. r.mode = "static"
  BY DEF StaticRow
<1> QED BY <1>1, <1>3, <1>4 DEF StaticPeersApart

\* Measurements and reloads leave static costs alone.
LEMMA StaticsKept ==
    ASSUME AgentInv, [DynNext]_allVars, ~(\E p \in Peers : SyncPeer(p)), ~AgentRestarts
    PROVE  known \subseteq known' /\ \A p \in Peers : link'[p].static = link[p].static
<1>1. /\ EngineInv /\ scenario \in Scenarios /\ link \in [Peers -> LinkState]
      /\ WellFormed(config) /\ \A p \in Peers : InRange(Len(config.bands), link[p])
  BY DEF AgentInv, WorldOK, EngineInv, EngineTypeOK, BandsInRange, InRange
<1>2. CASE UNCHANGED engineVars
  BY <1>2 DEF engineVars
<1>3. ASSUME NEW p \in Peers, NEW s, Store(p, s), s.static = link[p].static
      PROVE  known \subseteq known' /\ \A q \in Peers : link'[q].static = link[q].static
  BY <1>1, <1>3 DEF Store
<1>4. CASE SyncBands
  <2>1. sync.inv \in scenario.inventories
    BY <1>4 DEF SyncBands, AgentInv, SyncOK
  <2>2. CASE sync.inv.engine.bands # <<>>
    <3> DEFINE c == Defaulted(sync.inv.engine)
    <3>1. WellFormed(c)
      BY <1>1, <2>1, <2>2, InventoryAssumption
    <3>2. UpdateConfig(c)
      BY <1>4, <2>2 DEF SyncBands
    <3> HIDE DEF c
    <3>3. Len(c.bands) \in Nat \ {0}
      <4>1. c.bands \in Seq(Band)
        BY <3>1 DEF WellFormed, EngineConfig
      <4> QED BY <3>1, <4>1 DEF WellFormed
    <3>4. ASSUME NEW p \in Peers PROVE link'[p].static = link[p].static
      <4>1. link'[p] = Clamp(Len(c.bands), link[p]) \/ link'[p] = link[p]
        BY <3>2 DEF UpdateConfig
      <4>2. link[p].current >= 1 /\ link[p].pending >= 1
        BY <1>1 DEF InRange
      <4>3. Clamp(Len(c.bands), link[p]).static = link[p].static
        BY <1>1, <3>3, <4>2, ClampType
      <4> QED BY <4>1, <4>3
    <3>5. known' = known
      BY <3>2 DEF UpdateConfig
    <3> QED BY <3>4, <3>5
  <2>3. CASE sync.inv.engine.bands = <<>>
    BY <1>2, <1>4, <2>3 DEF SyncBands
  <2> QED BY <2>2, <2>3
<1>5. ASSUME NEW p \in Peers, ProbeAnswered(p)
      PROVE  known \subseteq known' /\ \A q \in Peers : link'[q].static = link[q].static
  <2>1. PICK d \in scenario.delays, rtt \in Rtts : RecordSuccess(p, d, rtt)
    BY <1>5 DEF ProbeAnswered
  <2>2. d \in Int /\ rtt \in Nat
    BY <1>1, ScenarioAssumption, InputAssumption
  <2>3. WellFormed(config) /\ link[p] \in LinkState /\ InRange(Len(config.bands), link[p])
    BY <1>1
  <2>4. Success(config, link[p], d, rtt).static = link[p].static
    BY <2>2, <2>3, SuccessType
  <2> QED BY <1>3, <2>1, <2>4 DEF RecordSuccess
<1>6. ASSUME NEW p \in Peers, ProbeLost(p)
      PROVE  known \subseteq known' /\ \A q \in Peers : link'[q].static = link[q].static
  <2>1. Failure(link[p]).static = link[p].static
    BY <1>1, FailureType
  <2> QED BY <1>2, <1>3, <1>6, <2>1 DEF ProbeLost, RecordFailure
<1> QED BY <1>2, <1>4, <1>5, <1>6, OtherSteps DEF EngineStep

\* More known peers with the same static costs: what was known still is.
LEMMA StaticKnownKept ==
    ASSUME NEW s, NEW kn, NEW ln, NEW kn2, NEW ln2, NEW ifaces,
           kn \subseteq kn2, \A p \in Peers : ln2[p].static = ln[p].static,
           StaticKnown(s, kn, ln, ifaces)
    PROVE  StaticKnown(s, kn2, ln2, ifaces)
BY DEF StaticKnown, StaticRow

\* A sync makes the engine know the static cost of the peer whose interface it learns.
LEMMA PeersStatic ==
    ASSUME StaticPeersApart, AgentInv, NEW n \in Peers, SyncPeer(n), NEW ifaces
    PROVE  /\ StaticKnown(scenario, known, link, ifaces)
                => StaticKnown(scenario, known', link', ifaces)
           /\ StaticKnown(scenario, known, link, peerIfaces)
                => StaticKnown(scenario, known', link', peerIfaces')
<1> DEFINE peers == sync.inv.peers
<1>1. /\ sync.inv \in scenario.inventories /\ scenario \in Scenarios
      /\ link \in [Peers -> LinkState]
      /\ n \in DOMAIN peers /\ peers[n] \in Row
      /\ \A q \in Peers : link'[q] = IF q = n THEN Configured(link[q], peers[n]) ELSE link[q]
      /\ known' = IF Touched(peers[n]) THEN known \cup {n} ELSE known
      /\ peerIfaces' = Overlaid([q \in {n} |-> peers[n].iface], peerIfaces)
  BY SyncPeerFacts DEF AgentInv, WorldOK, EngineInv, EngineTypeOK
<1>2. ASSUME NEW r, StaticRow(scenario, n, r)
      PROVE  peers[n] = r /\ n \in known' /\ link'[n].static = r.static
  <2>1. peers[n] = r /\ r.static # None /\ r.mode = "static"
    BY <1>1, <1>2, StaticRowFacts DEF StaticRow
  <2>2. n \in known'
    BY <1>1, <2>1 DEF Touched
  <2>3. link[n] \in LinkState /\ r \in Row /\ link'[n] = Configured(link[n], r)
    BY <1>1, <2>1
  <2>4. Configured(link[n], r).static = r.static
    BY <2>1, <2>3, ConfiguredType
  <2> QED BY <2>1, <2>2, <2>3, <2>4
<1>3. ASSUME NEW p, NEW r, StaticRow(scenario, p, r), p \in known, link[p].static = r.static
      PROVE  p \in known' /\ link'[p].static = r.static
  <2>1. p \in Peers
    BY <1>3 DEF StaticRow
  <2> QED BY <1>1, <1>2, <1>3, <2>1
<1>4. ASSUME StaticKnown(scenario, known, link, ifaces)
      PROVE  StaticKnown(scenario, known', link', ifaces)
  BY <1>3, <1>4 DEF StaticKnown
<1>5. ASSUME StaticKnown(scenario, known, link, peerIfaces)
      PROVE  StaticKnown(scenario, known', link', peerIfaces')
  <2>1. ASSUME NEW p, NEW r, StaticRow(scenario, p, r),
               NEW q \in DOMAIN peerIfaces', peerIfaces'[q] = r.iface
        PROVE  q = p /\ p \in known' /\ link'[p].static = r.static
    <3>1. CASE q = n
      <4>1. peers[n].iface = r.iface
        BY <1>1, <2>1, <3>1 DEF Overlaid
      <4>2. n = p
        BY <1>1, <2>1, <4>1, StaticRowFacts
      <4> QED BY <1>2, <2>1, <3>1, <4>2
    <3>2. CASE q # n
      <4>1. q \in DOMAIN peerIfaces /\ peerIfaces[q] = r.iface
        BY <1>1, <2>1, <3>2 DEF Overlaid
      <4>2. q = p /\ p \in known /\ link[p].static = r.static
        BY <1>5, <2>1, <4>1 DEF StaticKnown
      <4> QED BY <1>3, <2>1, <4>2
    <3> QED BY <3>1, <3>2
  <2> QED BY <2>1 DEF StaticKnown
<1> QED BY <1>4, <1>5

\* The price list holds the static cost of a static peer, however far it has got.
LEMMA PricedStatic ==
    ASSUME StaticPeersApart, AgentInv, StaticKnown(scenario, known, link, probe.ifaces),
           StaticFile(scenario, probe.costs), NEW n \in Peers, PricePeer(n)
    PROVE  /\ StaticFile(scenario, probe'.costs)
           /\ probe'.at = "read" \/ (probe'.at = "price" /\ probe'.ifaces = probe.ifaces)
<1>1. n \in DOMAIN probe.ifaces /\ probe'.costs = PricesWith(n)
  BY PricedFacts DEF AgentInv
<1>4. probe'.at = "read" \/ (probe'.at = "price" /\ probe'.ifaces = probe.ifaces)
  BY PricedFacts DEF AgentInv
<1>2. \A p, r : StaticRow(scenario, p, r) => r.static # None
  BY StaticRowFacts DEF AgentInv, WorldOK
<1>3. ASSUME NEW p, NEW r, StaticRow(scenario, p, r), r.iface \in DOMAIN PricesWith(n)
      PROVE  PricesWith(n)[r.iface] = r.static
  <2>1. CASE r.iface = probe.ifaces[n]
    <3>1. n = p /\ p \in known /\ link[p].static = r.static
      BY <1>1, <1>3, <2>1 DEF StaticKnown
    <3>2. PricesWith(n)[r.iface] = CurrentCost(p)
      BY <1>1, <2>1, <3>1 DEF PricesWith, Overlaid
    <3>3. CurrentCost(p) = r.static
      BY <1>2, <1>3, <3>1 DEF CurrentCost, CostOf
    <3> QED BY <3>2, <3>3
  <2>2. CASE r.iface # probe.ifaces[n]
    <3>1. r.iface \in DOMAIN probe.costs /\ PricesWith(n)[r.iface] = probe.costs[r.iface]
      BY <1>1, <1>3, <2>2 DEF PricesWith, Overlaid
    <3> QED BY <1>3, <3>1 DEF StaticFile
  <2> QED BY <2>1, <2>2
<1> QED BY <1>1, <1>3, <1>4 DEF StaticFile

LEMMA NextStatic ==
    ASSUME StaticPeersApart, AgentInv, StaticInv, [DynNext]_allVars PROVE StaticInv'
<1>1. /\ SyncOK /\ ProbeOK /\ FilesOK /\ scenario \in Scenarios
      /\ include # NoFile => StaticFile(scenario, include)
      /\ probe.at \in {"price", "read", "write"} => StaticFile(scenario, probe.costs)
      /\ StaticKnown(scenario, known, link, peerIfaces)
      /\ probe.at = "price" => StaticKnown(scenario, known, link, probe.ifaces)
  BY DEF AgentInv, WorldOK, StaticInv
<1>2. scenario' = scenario
  BY DEF DynNext, SyncStep, ProbeStep, WorldStep, allVars, worldVars,
         SyncFetch, SyncWireguard, SyncAbandoned, SyncCompare, SyncWrite, SyncConfigure,
         SyncConfigureFails, SyncLock, SyncPeer, SyncBands, ProbeStart, ProbeAnswered, ProbeLost, Recorded,
         ProbeQuiet, CopyIfaces, PricePeer, ReadInclude, WriteCosts, WriteCostsFails,
         ConfigureCosts, ConfigureCostsFails, Publish, Flap, AgentRestarts, BirdRestarts
<1>3. ASSUME NEW ifaces, ~AgentRestarts, StaticKnown(scenario, known, link, ifaces)
      PROVE  StaticKnown(scenario, known', link', ifaces)
  <2>1. CASE \E n \in Peers : SyncPeer(n)
    BY <1>3, <2>1, PeersStatic
  <2>2. CASE ~(\E n \in Peers : SyncPeer(n))
    <3>1. known \subseteq known' /\ \A p \in Peers : link'[p].static = link[p].static
      BY <1>3, <2>2, StaticsKept
    <3> QED BY <1>3, <3>1, StaticKnownKept
  <2> QED BY <2>1, <2>2
<1>4. CASE AgentRestarts
  <2>1. include' = include /\ peerIfaces' = <<>> /\ probe'.at = "idle"
    BY <1>4 DEF AgentRestarts, birdVars, ProbeIdle
  <2>2. StaticKnown(scenario', known', link', peerIfaces')
    BY <2>1 DEF StaticKnown
  <2> QED BY <1>1, <1>2, <2>1, <2>2 DEF StaticInv
<1>5. CASE SyncWrite /\ ~AgentRestarts
  <2>1. sync.inv \in scenario.inventories /\ include' = Generated(sync.inv)
        /\ probe' = probe /\ peerIfaces' = peerIfaces
    BY <1>1, <1>5 DEF SyncWrite, SyncOK
  <2>2. ASSUME NEW p, NEW r, StaticRow(scenario, p, r), r.iface \in DOMAIN Generated(sync.inv)
        PROVE  Generated(sync.inv)[r.iface] = r.static
    <3>1. PICK q \in DOMAIN sync.inv.peers : sync.inv.peers[q].iface = r.iface
      BY <1>1, <2>1, <2>2, GeneratedType DEF IfaceSet
    <3>2. q = p /\ sync.inv.peers[q] = r /\ r.static # None
      BY <1>1, <2>1, <2>2, <3>1, StaticRowFacts
    <3>3. Generated(sync.inv)[r.iface] = GeneratedCost(r)
      BY <1>1, <2>1, <3>1, <3>2, GeneratedType
    <3> QED BY <3>2, <3>3 DEF GeneratedCost
  <2>3. StaticFile(scenario, include')
    BY <2>1, <2>2 DEF StaticFile
  <2> QED BY <1>1, <1>2, <1>3, <1>5, <2>1, <2>3 DEF StaticInv
<1>6. CASE WriteCosts /\ ~AgentRestarts
  <2>1. probe.at = "write" /\ include' = probe.costs /\ peerIfaces' = peerIfaces
        /\ probe'.at = "configure"
    BY <1>6 DEF WriteCosts, ProbeIdle
  <2> QED BY <1>1, <1>2, <1>3, <1>6, <2>1 DEF StaticInv
<1>7. CASE ReadInclude /\ ~AgentRestarts
  <2>1. include' = include /\ peerIfaces' = peerIfaces
    BY <1>7 DEF ReadInclude, birdVars
  <2>2. CASE probe' = ProbeIdle
    BY <1>1, <1>2, <1>3, <1>7, <2>1, <2>2 DEF StaticInv, ProbeIdle
  <2>3. CASE probe' # ProbeIdle
    <3>1. /\ include # NoFile
          /\ probe' = [probe EXCEPT !.at = "write", !.costs = Repriced(include, probe.costs)]
      BY <1>7, <2>3 DEF ReadInclude
    <3>2. probe'.at = "write" /\ probe'.costs = Repriced(include, probe.costs)
      BY <1>1, <3>1 DEF ProbeOK
    <3>3. StaticFile(scenario, include) /\ StaticFile(scenario, probe.costs)
      BY <1>1, <1>7, <3>1 DEF ReadInclude
    <3>4. StaticFile(scenario, Repriced(include, probe.costs))
      BY <3>3 DEF StaticFile, Repriced
    <3> QED BY <1>1, <1>2, <1>3, <1>7, <2>1, <3>2, <3>4 DEF StaticInv
  <2> QED BY <2>2, <2>3
<1>8. ASSUME NEW n \in Peers, PricePeer(n), ~AgentRestarts PROVE StaticInv'
  <2>1. include' = include /\ peerIfaces' = peerIfaces /\ probe.at = "price"
    BY <1>8 DEF PricePeer, birdVars
  <2>2. /\ StaticFile(scenario, probe'.costs)
        /\ probe'.at = "read" \/ (probe'.at = "price" /\ probe'.ifaces = probe.ifaces)
    BY <1>1, <1>8, <2>1, PricedStatic
  <2> QED BY <1>1, <1>2, <1>3, <1>8, <2>1, <2>2 DEF StaticInv
<1>9. CASE CopyIfaces /\ ~AgentRestarts
  <2>1. include' = include /\ peerIfaces' = peerIfaces /\ probe'.at = "price"
        /\ probe'.ifaces = peerIfaces /\ probe'.costs = <<>>
    BY <1>9 DEF CopyIfaces, birdVars
  <2>2. StaticFile(scenario, probe'.costs)
    BY <2>1 DEF StaticFile
  <2> QED BY <1>1, <1>2, <1>3, <1>9, <2>1, <2>2 DEF StaticInv
<1>10. ASSUME NEW n \in Peers, SyncPeer(n), ~AgentRestarts PROVE StaticInv'
  <2>1. include' = include /\ probe' = probe
    BY <1>10 DEF SyncPeer, birdVars
  <2>2. StaticKnown(scenario, known', link', peerIfaces')
    BY <1>1, <1>10, PeersStatic
  <2> QED BY <1>1, <1>2, <1>3, <1>10, <2>1, <2>2 DEF StaticInv
<1>11. ASSUME include' = include, peerIfaces' = peerIfaces, ~AgentRestarts,
              probe'.at \in {"read", "write", "price"} => probe' = probe
       PROVE  StaticInv'
  BY <1>1, <1>2, <1>3, <1>11 DEF StaticInv
<1>12. CASE (SyncStep /\ ~SyncWrite /\ ~(\E n \in Peers : SyncPeer(n))) /\ ~AgentRestarts
  BY <1>11, <1>12 DEF SyncStep, SyncFetch, SyncWireguard, SyncAbandoned, SyncCompare,
         SyncConfigure, SyncConfigureFails, SyncLock, SyncBands, birdVars
<1>13. CASE (WorldStep \/ UNCHANGED allVars) /\ ~AgentRestarts
  BY <1>11, <1>13 DEF WorldStep, Publish, Flap, BirdRestarts, allVars, agentVars, birdVars
<1>14. CASE (ProbeQuiet \/ WriteCostsFails \/ ConfigureCosts \/ ConfigureCostsFails) /\ ~AgentRestarts
  BY <1>11, <1>14 DEF ProbeQuiet, WriteCostsFails, ConfigureCosts, ConfigureCostsFails,
         ProbeIdle, birdVars
<1>15. CASE ProbeStart /\ ~AgentRestarts
  <2>1. probe'.at = "record"
    BY <1>1, <1>15 DEF ProbeStart, ProbeOK
  <2> QED BY <1>11, <1>15, <2>1 DEF ProbeStart, birdVars
<1>16. ASSUME NEW p, NEW reported, Recorded(p, reported), ~AgentRestarts PROVE StaticInv'
  <2>1. probe' = [probe EXCEPT !.todo = @ \ {p}, !.changed = @ \/ reported]
        /\ UNCHANGED birdVars /\ peerIfaces' = peerIfaces
    BY <1>16 DEF Recorded
  <2>2. probe'.at = probe.at /\ probe'.costs = probe.costs /\ probe'.ifaces = probe.ifaces
    BY <1>1, <2>1 DEF ProbeOK
  <2> QED BY <1>1, <1>2, <1>3, <1>16, <2>1, <2>2 DEF StaticInv, birdVars
<1>17. CASE (\E p \in Peers : ProbeAnswered(p) \/ ProbeLost(p)) /\ ~AgentRestarts
  BY <1>16, <1>17 DEF ProbeAnswered, ProbeLost
<1> QED BY <1>4, <1>5, <1>6, <1>7, <1>8, <1>9, <1>10, <1>12, <1>13, <1>14, <1>15, <1>17
        DEF DynNext, ProbeStep

\* StaticCostKept: no other cost ever stands at a static peer's interface.
THEOREM StaticCostsKept == StaticPeersApart => (DynSpec => []StaticCostKept)
<1> SUFFICES ASSUME StaticPeersApart PROVE DynSpec => []StaticCostKept
  OBVIOUS
<1>1. DynInit => StaticInv
  BY DEF DynInit, StaticInv, ProbeIdle, StaticKnown
<1>2. StaticInv => StaticCostKept
  BY DEF StaticInv, StaticCostKept, StaticFile, StaticRow, RowsOf
<1>3. AgentInv /\ StaticInv /\ [DynNext]_allVars => StaticInv'
  BY NextStatic
<1> QED BY InitAgent, NextAgent, <1>1, <1>2, <1>3, PTL DEF DynSpec
-----------------------------------------------------------------------------
(***************************************************************************)
(* No missed cost update: what doProbeRound finds out reaches              *)
(* applyDynamicCosts, whatever a config sync does to the engine during the *)
(* round.                                                                  *)
(***************************************************************************)

\* A failed probe that moves the cost of a peer the engine knows marks the round as
\* changed (doProbeRound, anyChanged): the engine's own promise (OutageReported), kept
\* by the agent, with settings and band lists changing between two results.
OutageMarked ==
    [][\A p \in known :
          /\ link'[p].failures > link[p].failures
          /\ CurrentCost(p)' # CurrentCost(p)
          => probe'.changed]_allVars

\* So does a measurement that moves the cost of a reachable peer without a static cost.
\* (A recovery need not: it reports bands only, see PenaltyLifted.)
MoveMarked ==
    [][\A p \in known \cap known' :
          /\ config' = config
          /\ ~Unreachable(config, link[p]) /\ ~Unreachable(config, link'[p])
          /\ link'[p].static = None /\ link'[p].static = link[p].static
          /\ link'[p].bw = link[p].bw
          /\ CurrentCost(p)' # CurrentCost(p)
          => probe'.changed]_allVars

\* A mark is never lost: it is cleared only where the costs are read to be written, or
\* when the agent dies.
MarkActedOn ==
    [][probe.changed /\ ~probe'.changed => probe'.at = "price" \/ AgentRestarts]_allVars

\* The mark is up only while results are recorded, and peers are left to do only then
\* and while they are priced.
RoundInv ==
    /\ probe.changed => probe.at = "record"
    /\ probe.todo # {} => probe.at \in {"record", "price"}

\* Configured, what it leaves alone.
LEMMA ConfiguredKeeps ==
    ASSUME NEW s \in LinkState, NEW r
    PROVE  Configured(s, r).failures = s.failures /\ Configured(s, r).current = s.current
BY DEF Configured, LinkState

\* A clamp to the list in force leaves the band.
LEMMA ClampKeeps ==
    ASSUME NEW n \in Nat, NEW s \in LinkState, s.current \in 1..n
    PROVE  Clamp(n, s).current = s.current
<1>1. s.current \in Nat /\ ~(s.current > n)
  OBVIOUS
<1>2. PICK q, h : Clamp(n, s) = Rebanded(s, s.current, q, h)
  BY <1>1 DEF Clamp
<1>. QED  BY <1>2 DEF Rebanded, LinkState

\* A success or a failure is about one peer.
LEMMA StoreIsLocal ==
    ASSUME link \in [Peers -> LinkState], NEW q \in Peers, NEW s, Store(q, s), NEW p \in Peers
    PROVE  /\ link'[p] = IF p = q THEN s ELSE link[p]
           /\ config' = config
           /\ p \in known => p \in known'
BY DEF Store

LEMMA OutageMarks ==
    ASSUME AgentInv, [DynNext]_allVars, NEW p \in known,
           link'[p].failures > link[p].failures,
           CurrentCost(p)' # CurrentCost(p)
    PROVE  probe'.changed
<1>1. /\ link \in [Peers -> LinkState] /\ WellFormed(config) /\ p \in Peers
      /\ \A q \in Peers : link[q] \in LinkState
      /\ link[p] \in LinkState /\ link[p].failures \in Nat
      /\ config.limit \in Int /\ scenario \in Scenarios
  BY DEF AgentInv, WorldOK, EngineInv, EngineTypeOK, LinkState, EngineConfig
<1>2. link'[p].failures # link[p].failures /\ ~(link'[p].failures = 0)
  BY <1>1
<1>3. EngineStep
  BY <1>2, OtherSteps DEF engineVars
<1>4. ASSUME NEW q \in Peers, SyncPeer(q) PROVE FALSE
  <2>1. link'[p] = link[p] \/ link'[p] = Configured(link[p], sync.inv.peers[q])
    BY <1>1, <1>4, SyncPeerFacts
  <2>. QED  BY <1>1, <1>2, <2>1, ConfiguredKeeps
<1>5. ~SyncBands
  <2> SUFFICES ASSUME SyncBands PROVE FALSE
    OBVIOUS
  <2> DEFINE n == Len(Defaulted(sync.inv.engine).bands)
  <2>1. link' = link \/ link'[p] = link[p] \/ link'[p] = Clamp(n, link[p])
    BY <1>1 DEF SyncBands, UpdateConfig, engineVars
  <2> HIDE DEF n
  <2>. QED  BY <1>1, <1>2, <2>1, ClampFailures
<1>6. ~AgentRestarts
  BY <1>1, <1>2 DEF AgentRestarts, ZeroState
<1>7. ASSUME NEW q \in Peers, ProbeAnswered(q) PROVE FALSE
  <2>1. PICK d \in scenario.delays, rtt \in Rtts : RecordSuccess(q, d, rtt)
    BY <1>7 DEF ProbeAnswered
  <2>2. d \in Int /\ rtt \in Nat /\ config.alpha \in 0..100
    BY <1>1, ScenarioAssumption, InputAssumption DEF WellFormed, EngineConfig
  <2>3. Sample(d, rtt) \in Int
    BY <2>2 DEF Sample
  <2>4. Success(config, link[q], d, rtt).failures = 0
    BY <1>1, <2>2, <2>3, SmoothedType, SuccessFailures
  <2>. QED  BY <1>1, <1>2, <2>1, <2>4, StoreIsLocal DEF RecordSuccess
<1>8. ASSUME NEW q \in Peers, ProbeLost(q) PROVE probe'.changed
  <2>1. CASE ~(link[q].failures < MaxFailures)
    BY <1>2, <1>8, <2>1 DEF ProbeLost, engineVars
  <2>2. CASE link[q].failures < MaxFailures
    <3>1. /\ RecordFailure(q)
          /\ Recorded(q, link[q].failures < MaxFailures /\ FailureReported(config, link'[q]))
      BY <1>8, <2>2 DEF ProbeLost
    <3>2. link'[p] = (IF p = q THEN Failure(link[q]) ELSE link[p]) /\ config' = config
          /\ p \in known'
      BY <1>1, <3>1, StoreIsLocal DEF RecordFailure
    <3>3. p = q /\ link'[p] = Failure(link[p])
      BY <1>2, <3>2
    <3>4. CostOf(config, Failure(link[p])) # CostOf(config, link[p])
      BY <3>2, <3>3 DEF CurrentCost
    <3>5. FailureReported(config, link'[q])
      BY <1>1, <3>3, <3>4, FailureMovesAtLimit
    <3>. QED  BY <2>2, <3>1, <3>5 DEF Recorded, AgentInv, ProbeOK
  <2>. QED  BY <2>1, <2>2
<1>. QED  BY <1>3, <1>4, <1>5, <1>6, <1>7, <1>8 DEF EngineStep

\* Under one configuration only an answered probe changes a band.
LEMMA BandMoves ==
    ASSUME AgentInv, [DynNext]_allVars, ~AgentRestarts, NEW p \in Peers,
           config' = config, link'[p].current # link[p].current
    PROVE  ProbeAnswered(p)
<1>1. /\ link \in [Peers -> LinkState] /\ WellFormed(config)
      /\ \A q \in Peers : link[q] \in LinkState
      /\ link[p] \in LinkState /\ link[p].current \in 1..Len(config.bands)
      /\ Len(config.bands) \in Nat
  BY DEF AgentInv, EngineInv, EngineTypeOK, BandsInRange, EngineConfig
<1>2. EngineStep
  BY OtherSteps DEF engineVars
<1>3. ASSUME NEW q \in Peers, SyncPeer(q) PROVE FALSE
  <2>1. link'[p] = link[p] \/ link'[p] = Configured(link[p], sync.inv.peers[q])
    BY <1>1, <1>3, SyncPeerFacts
  <2>. QED  BY <1>1, <2>1, ConfiguredKeeps
<1>4. ~SyncBands
  <2> SUFFICES ASSUME SyncBands PROVE FALSE
    OBVIOUS
  <2>1. link' = link \/ link'[p] = link[p] \/ link'[p] = Clamp(Len(config.bands), link[p])
    BY <1>1 DEF SyncBands, UpdateConfig, engineVars
  <2>. QED  BY <1>1, <2>1, ClampKeeps
<1>5. ASSUME NEW q \in Peers, ProbeAnswered(q) PROVE ProbeAnswered(p)
  <2>1. PICK d \in scenario.delays, rtt \in Rtts : RecordSuccess(q, d, rtt)
    BY <1>5 DEF ProbeAnswered
  <2>2. p = q
    BY <1>1, <2>1, StoreIsLocal DEF RecordSuccess
  <2>. QED  BY <1>5, <2>2
<1>6. ASSUME NEW q \in Peers, ProbeLost(q) PROVE FALSE
  <2>1. link' = link \/ RecordFailure(q)
    BY <1>6 DEF ProbeLost, engineVars
  <2>2. Failure(link[q]).current = link[q].current
    BY <1>1 DEF Failure, LinkState
  <2>. QED  BY <1>1, <2>1, <2>2, StoreIsLocal DEF RecordFailure
<1>. QED  BY <1>2, <1>3, <1>4, <1>5, <1>6 DEF EngineStep

LEMMA MoveMarks ==
    ASSUME AgentInv, [DynNext]_allVars, NEW p \in known \cap known', config' = config,
           ~Unreachable(config, link[p]), ~Unreachable(config, link'[p]),
           link'[p].static = None, link'[p].static = link[p].static,
           link'[p].bw = link[p].bw,
           CurrentCost(p)' # CurrentCost(p)
    PROVE  probe'.changed
<1>1. p \in Peers /\ ~AgentRestarts
  BY DEF AgentInv, EngineInv, EngineTypeOK, AgentRestarts
<1>2. link'[p].current # link[p].current
  BY DEF CurrentCost, CostOf
<1>3. ProbeAnswered(p)
  BY <1>1, <1>2, BandMoves
<1>4. Recorded(p, SuccessReported(link[p], link'[p])) /\ SuccessReported(link[p], link'[p])
  BY <1>2, <1>3 DEF ProbeAnswered, SuccessReported
<1>. QED  BY <1>4 DEF Recorded, AgentInv, ProbeOK

\* The mark, step by step.
LEMMA RoundStep ==
    ASSUME AgentInv, RoundInv, [DynNext]_allVars
    PROVE  /\ RoundInv'
           /\ probe.changed /\ ~probe'.changed => probe'.at = "price" \/ AgentRestarts
<1>1. /\ probe = [at |-> probe.at, todo |-> probe.todo, changed |-> probe.changed,
                  ifaces |-> probe.ifaces, costs |-> probe.costs]
      /\ probe.changed \in BOOLEAN
  BY DEF AgentInv, ProbeOK
<1>2. CASE probe' = probe
  BY <1>2 DEF RoundInv
<1>3. CASE AgentRestarts
  BY <1>3 DEF AgentRestarts, RoundInv, ProbeIdle
<1>4. CASE SyncStep \/ (WorldStep /\ ~AgentRestarts) \/ UNCHANGED allVars
  BY <1>2, <1>4 DEF SyncStep, WorldStep, allVars, agentVars, SyncFetch, SyncWireguard,
         SyncAbandoned, SyncCompare, SyncWrite, SyncConfigure, SyncConfigureFails, SyncLock,
         SyncPeer, SyncBands, Publish, Flap, BirdRestarts
<1>5. CASE ProbeStart
  <2>1. probe'.at = "record" /\ probe'.changed = probe.changed
    BY <1>1, <1>5 DEF ProbeStart
  <2>. QED  BY <2>1 DEF RoundInv
<1>6. ASSUME NEW p \in Peers, ProbeAnswered(p) \/ ProbeLost(p)
      PROVE  RoundInv' /\ (probe.changed => probe'.changed)
  <2>1. probe.at = "record"
    BY <1>6 DEF ProbeAnswered, ProbeLost, RoundInv
  <2>2. PICK reported : Recorded(p, reported)
    BY <1>6 DEF ProbeAnswered, ProbeLost
  <2>3. probe'.at = probe.at /\ probe'.changed = (probe.changed \/ reported)
    BY <1>1, <2>2 DEF Recorded
  <2>. QED  BY <2>1, <2>3 DEF RoundInv
<1>7. CASE probe' = ProbeIdle /\ ~probe.changed
  BY <1>7 DEF RoundInv, ProbeIdle
<1>8. CASE CopyIfaces
  <2>1. probe'.at = "price" /\ ~probe'.changed
    BY <1>8 DEF CopyIfaces
  <2>. QED  BY <2>1 DEF RoundInv
<1>9. CASE probe.at # "record" /\ (probe'.todo = {} \/ probe'.at = "price") /\ ~probe'.changed
  BY <1>9 DEF RoundInv
<1>10. CASE ProbeQuiet
  BY <1>7, <1>10 DEF ProbeQuiet
<1>11. CASE WriteCosts \/ WriteCostsFails \/ ConfigureCosts \/ ConfigureCostsFails
  <2>1. probe.at # "record" /\ probe'.todo = {} /\ ~probe'.changed
    BY <1>11 DEF WriteCosts, WriteCostsFails, ConfigureCosts,
           ConfigureCostsFails, ProbeIdle
  <2>. QED  BY <1>9, <2>1
<1>12. CASE ReadInclude
  <2>1. probe.at = "read" /\ ~probe.changed /\ probe.todo = {}
    BY <1>12 DEF ReadInclude, RoundInv
  <2>2. CASE probe' = ProbeIdle
    BY <1>7, <2>1, <2>2
  <2>3. CASE probe' # ProbeIdle
    <3>1. probe' = [probe EXCEPT !.at = "write", !.costs = Repriced(include, probe.costs)]
      BY <1>12, <2>3 DEF ReadInclude
    <3>2. probe'.todo = probe.todo /\ probe'.changed = probe.changed
      BY <1>1, <3>1
    <3>. QED  BY <1>9, <2>1, <3>2
  <2>. QED  BY <2>2, <2>3
<1>13. CASE \E p \in Peers : PricePeer(p)
  <2>1. PICK p \in Peers : PricePeer(p)
    BY <1>13
  <2>2. /\ probe.at = "price"
        /\ \/ (probe'.todo = {} /\ ~probe'.changed)
           \/ (probe'.at = "price" /\ probe'.changed = probe.changed)
    BY <2>1, PricedFacts DEF AgentInv
  <2>3. ~probe.changed
    BY <2>2 DEF RoundInv
  <2>. QED  BY <1>9, <2>2, <2>3
<1>. QED  BY <1>3, <1>4, <1>5, <1>6, <1>8, <1>10, <1>11, <1>12, <1>13 DEF DynNext, ProbeStep

\* Every outage and every change of band that moves a cost is followed by a cost update
\* of the same round, for all orders of results, syncs, reloads and faults.
THEOREM RoundsReprice == DynSpec => OutageMarked /\ MoveMarked /\ MarkActedOn
<1>1. DynInit => RoundInv
  BY DEF DynInit, RoundInv, ProbeIdle
<1>2. AgentInv /\ RoundInv /\ [DynNext]_allVars => RoundInv'
  BY RoundStep
<1>3. AgentInv /\ [DynNext]_allVars =>
        [\A p \in known :
            /\ link'[p].failures > link[p].failures
            /\ CurrentCost(p)' # CurrentCost(p)
            => probe'.changed]_allVars
  BY OutageMarks
<1>4. AgentInv /\ [DynNext]_allVars =>
        [\A p \in known \cap known' :
            /\ config' = config
            /\ ~Unreachable(config, link[p]) /\ ~Unreachable(config, link'[p])
            /\ link'[p].static = None /\ link'[p].static = link[p].static
            /\ link'[p].bw = link[p].bw
            /\ CurrentCost(p)' # CurrentCost(p)
            => probe'.changed]_allVars
  BY MoveMarks
<1>5. AgentInv /\ RoundInv /\ [DynNext]_allVars =>
        [probe.changed /\ ~probe'.changed => probe'.at = "price" \/ AgentRestarts]_allVars
  BY RoundStep
<1>. QED  BY InitAgent, NextAgent, <1>1, <1>2, <1>3, <1>4, <1>5, PTL
         DEF DynSpec, OutageMarked, MoveMarked, MarkActedOn

\* The hysteresis of the engine (SwitchSettles) as the agent has it: with settings and
\* band lists replaced between the results, the measurement that changes a peer's band
\* would not change it again.  A restart forgets the bands.
AgentSwitchSettles ==
    [][\A p \in Peers :
          ~AgentRestarts /\ config' = config /\ link'[p].current # link[p].current
            => Target(config'.bands, link'[p].current, link'[p].delay)
                 = link'[p].current]_allVars

\* AgentSwitchSettles, for every deployment with band lists the loader accepts.
THEOREM AgentSwitchesSettle == DynSpec => AgentSwitchSettles
<1>1. AgentInv /\ [DynNext]_allVars =>
        [\A p \in Peers :
            ~AgentRestarts /\ config' = config /\ link'[p].current # link[p].current
              => Target(config'.bands, link'[p].current, link'[p].delay)
                   = link'[p].current]_allVars
  <2> SUFFICES ASSUME AgentInv, [DynNext]_allVars, NEW p \in Peers,
                      ~AgentRestarts, config' = config, link'[p].current # link[p].current
               PROVE  Target(config'.bands, link'[p].current, link'[p].delay)
                        = link'[p].current
    OBVIOUS
  <2>1. /\ link \in [Peers -> LinkState] /\ WellFormed(config)
        /\ link[p] \in LinkState /\ InRange(Len(config.bands), link[p])
        /\ scenario \in Scenarios
    BY DEF AgentInv, WorldOK, EngineInv, EngineTypeOK, BandsInRange, InRange
  <2>2. PICK d \in scenario.delays, rtt \in Rtts : RecordSuccess(p, d, rtt)
    BY BandMoves DEF ProbeAnswered
  <2>3. link'[p] = Success(config, link[p], d, rtt)
    BY <2>1, <2>2, StoreIsLocal DEF RecordSuccess
  <2>4. d \in Int /\ rtt \in Nat
    BY <2>1, ScenarioAssumption, InputAssumption
  <2>5. /\ link'[p].current \in {link[p].current,
                                Target(config.bands, link[p].current, link'[p].delay)}
        /\ link'[p].delay \in Int
    BY <2>1, <2>3, <2>4, SuccessType
  <2>6. /\ config.bands \in Seq(Band)
        /\ \A i \in 2..Len(config.bands) : config.bands[i].down <= config.bands[i].up
        /\ link[p].current \in 1..Len(config.bands)
    BY <2>1 DEF WellFormed, EngineConfig, InRange
  <2>. QED  BY <2>5, <2>6, TargetSettles
<1>. QED  BY InitAgent, NextAgent, <1>1, PTL DEF DynSpec, AgentSwitchSettles
=============================================================================
