# meshctl in TLA+

meshctl generates the configuration of a WireGuard and OSPF mesh from one
inventory, and an agent on every Linux node fetches, applies and tunes it. This
directory holds TLA+ models of that system, the TLC runs that check them and the
theorems TLAPS proves about them. `PROJECT.json` lists the runs, for each
definition the source lines it models, and the hazards the properties are for.

Run a model: `tlc -config MCWGApply.cfg MCWGApply`. Check the proofs of a module:
`tlapm DynamicCostProofs.tla`; the proof modules are those named `...Proofs`.

## The system

Paths are below `src/internal/` unless they start with `cmd/`.

| component | code | state | operations | what makes it correct |
|---|---|---|---|---|
| cost engine | `cost/engine.go` | per peer: smoothed delay, band in use, pending band, hold counter, failures, static and fallback cost, surcharge; the band list | record success and failure, settings, hot reload, current cost | hysteresis earned by consecutive samples, no flapping, indices in range, every cost move reported |
| agent loops | `agent/agent.go` | peer tables, one mutex | config sync, probe round, cost update | what BIRD runs follows the inventory and the measurements |
| BIRD apply | `agent/apply.go` 644-671, `agent/agent.go` 474-564 | the include file; BIRD's running configuration | compare, write, configure; read, reprice, write, configure | no mixture of topologies, no lost reload, outages advertised |
| WireGuard apply | `agent/apply.go` 112-376 | kernel interfaces; the record of managed names | create, key, peer, up; prune; record | own interfaces converge, other interfaces are safe |
| underlay routes | `agent/apply.go` 378-640, `generate/bird.go` | a second include file | resolve source and gateway, write | BIRD has the route to a peer before it runs OSPF with it, and the routes follow inventory and network |
| config fetch | `agent/fetch.go` | clone, download directory, cache, failure count | try sources in order, cache, fall back | a reachable source wins, no rollback, backoff as documented |
| health | `agent/health.go`, `Agent.Run` | status record, health file | record, snapshot, write, shutdown | the file tells the truth |
| probe | `probe/client.go`, `server.go`, `protocol.go` | sequence counter, sockets | send, answer, match, time out | a result belongs to its probe; every probe ends |
| ICMP | `probe/icmp.go` | none | ping | never called by the agent |
| inventory | `config/config.go` | the node list | load, validate, assign ids | ids, names and ports unique |
| planner, generator | `mesh/*.go`, `generate/*.go` | none | links, addresses, ports, texts | both ends of a link agree |
| RouterOS, static output | `generate/routeros.go`, `static.go` | the router's objects | import | an import that stops or is repeated leaves nothing half-built in use |
| commands | `cmd/meshctl`, `cmd/meshctl-agent` | output directory | generate; validate, diff, psk, show-mesh, status | generate is safe to stop and repeat |
| BIRD client | `bird/client.go` | one connection per command | configure | knows whether BIRD reloaded |
| key derivation | `psk/psk.go` | none | derive | both ends derive the same key |
| installation | `scripts/`, `deployments/` | files of a host | install | outside the running system |

How they interact: `generate` turns the inventory into a directory per node; a git
repository, a web server or a disk carries it; the agent's config sync loop runs
fetch, WireGuard apply, underlay routes and BIRD apply in this order, then updates
the peer tables and the engine under the mutex. The probe loop copies the peer
tables, probes, records the results in the engine *without* the mutex, and when a
result was reported as a change reprices BIRD's include file, which the sync loop
writes too. Both loops record in the health tracker.

Hard behaviours: the two loops interleave on the include file, the engine and the
health file; external commands fail one by one; the agent, BIRD and `generate` can
stop between any two steps; UDP loses, delays and duplicates; clocks are apart;
nodes run different generations of the inventory. The full list, at its lines, is
"hazards" in `PROJECT.json`.

## The modules

| module | models | state and actions against the code |
|---|---|---|
| `CostBands` | the pure part of `engine.go` | `Target`, `EvaluateBand`, `Success`, `Failure`, `Clamp`, `CostOf`: the band scans as cardinalities of the set of bands passed without a gap, instead of loops |
| `CostEngine` | `Engine` | `config`, `known` (the map's keys), `link` (the `LinkState`s); one action per call |
| `CostHistory` | `Engine`, with a memory | extends `CostEngine` with `run`: how many results in a row asked for the same band, whatever the engine's own counter says |
| `MCCostEngine` | for TLC | extends `CostHistory` with a phase with one constant delay |
| `DynamicCost` | `Agent`'s two loops on BIRD's file | extends `CostEngine`; `sync` and `probe` are the program counters, `include` the file as a map from interface to cost, `running` what BIRD loaded, `published` what a fetch yields, `down` the unreachable peers; the sync configures the engine, and a cost update prices, one peer per step |
| `WGApply` | `applyWireguard` and its hand-over to BIRD | `kernel` maps names to interfaces, `recorded` is `managed-ifaces.json`, `apply` the place in the round, `failCount` the code's, `routed` the inventory that went on to BIRD; one action per external command (`ip link show` and `ip link add` are two), each with its failure, a round that cannot start included |
| `UnderlayRoutes` | `applyUnderlayRoutes`, `applyBIRD` after it, `BuildUnderlayRoutes` | `sync` is the place in the round with the routes resolved so far, `file` the underlay include, `include` the main one, `running` what BIRD loaded, `network` what the kernel would answer without BIRD; `DetectionFails` is an `ip` command that fails although there is an answer |
| `ConfigFetch` | `Fetcher.Fetch`, then `Apply`'s order of files | `clone`, `download`, `cache` hold the version of each file, or that it is cut off, `fetch` the place, `applied` what the node runs |
| `NodeConfig` | the promise of a fetch | what was offered, what runs, and when it may be older: `ConfigFetch` implements it under the mapping at `Node` |
| `AgentHealth` | `HealthTracker`, the end of `Run` | the status record, `file`, and for each goroutine its step and snapshot |
| `ProbeExchange` | one peer's successive probes | `client`, `net` (a set of packets), `server`, clocks as ticks |
| `MeshPlan` | validation, links, ids, ports, addresses | functions of an inventory |
| `RouterOSImport` | the script of a RouterOS node | what the first `k` commands of a script make of a router |
| `MeshRollout` | the inventory's way to the nodes | `inventory`, `generate` (a run in progress), `output` (per node one file, for a Linux node followed by its BIRD file), `running` (agents and routers), `bird` (the inventory BIRD was last given on an agent's node) |
| `CostEngineProofs`, `DynamicCostProofs`, `WGApplyProofs`, `UnderlayProofs`, `ConfigFetchProofs`, `AgentHealthProofs`, `ProbeProofs`, `MeshProofs` | theorems | see "What is proved" |

Compositions: `DynamicCost` is the agent with the engine (EXTENDS); `MeshRollout` is the
generator (`MeshPlan`) with agents and routers (`RouterOSImport`); `WGApply` and
`UnderlayRoutes` each carry the round on to BIRD; `ConfigFetch` carries a version from
its source through cache and Apply. Data is abstract: files are versions, cost maps or
route maps, names are numbers or model values, keys and addresses are model values.
Every `MC...` module gives the constants of its model values, `*.cfg` picks them.
`AgentHealth` needs no instance.

In `DynamicCost`, `UnderlayRoutes` and `ConfigFetch` the deployment (the inventories
that may be published, the networks or sources, the budget of faults) is chosen in the
initial state from a constant set (`Scenarios`, `Deployments`) and never changes: one run
covers several situations, and the theorems hold for all.

Operators whose comment begins with "Mutant" are not part of a model. Each is a
plausible bug in the definition after it; putting it in that definition's place
must make TLC find the property that `PROJECT.json` names violated.

## The runs

| run | states | what it shows |
|---|---|---|
| `engine` | 46 000 | one peer, two band lists that a reload exchanges, holds of 1 to 3: indices stay in range, a switch was asked for `hold` times in a row (`BandChangeEarned`, which counts measurements independently of the engine's counter), the delay that caused a switch does not cause another, cost moves and outages are reported, and a constant delay comes to rest |
| `dynamic_cost` | 338 000 | both loops step by step in three deployments: a rename with a failing write, a failed reload, a restart and an outage; a peer that joins or leaves during a round; outages after the last sync while the other link's delay moves. The file never mixes topologies, a static cost is never changed; if no reload was lost BIRD converges, recovers and hears of outages |
| `dyn_penalty_erased` | violated | a sync erases the penalty of an unreachable peer for good |
| `wireguard` | 633 000 | two new inventories, one failing command, two moves of the operator, one crash or lost record: foreign names are untouched, wanted interfaces kept and healed, BIRD follows as long as one peer can be configured; undisturbed, all have keys and none is left over but those of peers that became unmanaged |
| `wg_handover` | violated | the first round after a peer becomes `wg_unmanaged` deletes its interface |
| `underlay` | 214 000 | four deployments: peers join, leave and move with failing detections, writes, reloads and restarts; the node moves, or loses a family; its router is replaced; the section is added or removed. BIRD never runs OSPF with a peer ahead of its route, the file follows, and on a node whose costs move BIRD follows too |
| `underlay_by_hand` | violated | routes of a section added to a running node are written and never read |
| `fetch` | 696 000 | one git source with failing commands, two crashes and a cache write that fails or cuts the file; one local directory; a download site with a local directory behind it. Also checks that `ConfigFetch` implements `NodeConfig` |
| `fetch_mirror` | violated | a git mirror as second source is never contacted |
| `health` | 17 000 | two writers and a shutdown that waits for them |
| `probe` | 219 000 | overlapping probes, probes that cannot be sent, one port that every probe reuses, numbers up to the one before they repeat |
| `rollout` | 155 000 | four nodes, one of them a router, two pinned, generations apart, runs and imports that stop half way |

`DynTypeOK` (which holds the engine's type) and `RolloutTypeOK` are checked by runs. The
type invariants of the other modules are theorems, see below.

**Bounds.** All are constants named in the modules; they limit how often the
*environment* does something, never what the code may do.
- `engine`: delays below, between and above every threshold, and 0, for which the
  code substitutes half the round trip; failures up to 4, above both limits; runs
  of requests up to the largest hold. One peer is enough: no call reads the state
  of a second peer except `UpdateConfig`, which treats all alike, and the theorems
  cover any number.
- `dynamic_cost`: two peers, because the hazard is one peer's change carrying the
  other's cost, and three interface names, so that a rename is a change of topology.
  Each kind of fault once: every known failure needs one. `Unlimited` syncs where the
  question is what they do for ever, one where it is what happens without them.
- `wireguard`: three names, two inventories' worth of change and one fault reach
  create, rotate, hand over and drop; both loops of a round are passed with two peers.
- `underlay`: two peers, one with both families; every change of inventory or network has
  a way back; each fault once.
- `fetch`: three versions distinguish "older", "current" and "newer"; seven
  consecutive failures are one beyond the point where the backoff is cut.
- `probe`: a sequence space of 3, so that the third probe has the number after the last (0)
  and none has the number of an earlier one; a time-out of 2 ticks, time for
  three probes, three packets on the way.
- `rollout`: inventories of up to four nodes from three starting files and two edits,
  one interrupted `generate` or import. Pins lie inside the range of the automatic ports on purpose.
- `Word` replaces 2^32 by 2^20, above every product that the instance can form but
  small enough for TLC's integers.

**Fairness.**
- `DynFairSpec`: weak fairness of the sync loop, strong of the probe loop. Both are
  driven by tickers and their blocking calls have deadlines (BIRD's socket has one,
  probes have one). The probe loop takes the mutex as a reader, which Go lets in
  before the next writer: hence strong. Weak fairness of the whole loop, not of each
  of its actions, so that faults stay possible at any step.
- `WgFairSpec`, `FetchFairSpec`, `UnderlayFairSpec`: weak fairness of the loop, on the same ground. A git
  command that hangs has no deadline (`fetch.go:228`), and then nothing below holds.
- `ProbeFairSpec`: time passes and the runtime wakes a read whose deadline is over.
- `RolloutFairSpec`: the operator generates what he edited, a run continues until it
  ends, each node applies its directory now and then. No fairness on edits.
- `HealthFairSpec`: a goroutine that has recorded goes on to its file and ends its write;
  a loop that is back at its `select` with the context cancelled again and again leaves
  (strong: Go's `select` picks among ready cases at random); `Run` goes on after `Wait`.
- `HSpec`: once calm, a probe is recorded for every peer again and again.
Environment actions (faults, crashes, operators, outages) have none.

**Deadlock** is checked in the engine, dynamic cost, WireGuard, underlay and fetch runs. It is off
for `probe` (time ends at the bound), `health` (the agent stops) and `rollout` (nothing to
generate once editing ends and no node has a file).

**What a passing conditional property means.** `KeyReady`, `PruneComplete`,
`ReloadPending`, `TopologyConverges`, `PenaltyLifted`, `OutageReachesBird`, `AppliedWhole`,
`OfflineStillConfigured` and `NoRollback` assume that certain faults did not happen, by comparing the budget left with the one given.
The assumption is there because the property fails with the fault, see below.
`PinsRunWithProbes` assumes that the costs of the main include keep moving; without that it
is `PinsRun`, which is violated. `PinnedBeforePeered` speaks of routes that resolve in every
network of the deployment and that every inventory has in common (`Lasting`), and holds as long as
no `ip` command failed that had an answer: one that fails takes its route out of the file.

## Where the code differs from what it says

Shown by a run: `dyn_penalty_erased` (README.md:344 against `apply.go:657`),
`wg_handover` (`apply.go:152-155` against `apply.go:156`), `fetch_mirror`
(`fetch.go:147` against `fetch.go:228`), `underlay_by_hand` (GETTING-STARTED.zh-TW.md:704
and 706 against `apply.go:477`).

Seen while modelling, in the models but with no run of their own:
- `apply.go:276`: when setting the private key fails, or the agent dies first, no later
  round sets it (`KeyReady` without its condition fails).
- `apply.go:219`: the record of managed names is overwritten when a deletion failed, so
  the interface stays (`PruneComplete`).
- `apply.go:162`: names are recorded whoever created the interface; one the operator
  built under a managed name is deleted when the name leaves the inventory, against
  `apply.go:187-189`.
- `apply.go:667`: a failed reload is never repeated while the file stays the same
  (`TopologyConverges`).
- `agent.go:495`: a cost update can write the previous topology back over a sync's file,
  until the next sync.
- `agent.go:229`: a peer changed from static to probe mode stays static until a restart;
  `agent.go:241`: a surcharge that leaves the inventory stays in the engine;
  `agent.go:206`: a removed peer stays in the tables.
- `agent.go:487`: a peer added during a probe round is priced as unreachable once.
- `fetch.go:334`: a crash inside the cache update leaves files of two versions (`AppliedWhole`).
- `health.go:134`: an older snapshot may stay in the file; `agent.go:177`: using the cache
  counts as a successful fetch.
- `protocol.go:153`: with the peer's clock behind, answered probes are failures, and the
  fallback of `engine.go:202` is never reached.
- `engine.go:234`: a failed probe does not break a row of "consecutive" probes (README.md:346).
- `apply.go:622`: the gateway of a destination is asked of the kernel, which may answer from
  the route BIRD installed from this file: the gateway that was written confirms itself when the
  router is replaced on the same link (`ApartNetworks` excludes it), whereas README.md:277
  has the default gateway detected at runtime.
- `apply.go:396`: when the last underlay route leaves the inventory, the file keeps the old.
- `apply.go:181`: the failures are compared with all peers, the unmanaged ones included, so
  a node with one unmanaged peer never fails as a whole.
- `routeros.go:46-62`: a script never changes an interface or peer that exists;
  GETTING-STARTED.zh-TW.md:526 says that a re-import updates peers ("會更新 peers 而不是重建").
  The interface of a peer that left keeps its port. The find for an address is a pattern
  (`routeros.go:119`), so an address can hide behind a longer one with the same beginning.
- `apply.go:352`: `ip addr replace` does not remove an address with another peer, so a node
  whose id changed keeps the old one (`Applied`); ids and ports have no upper bound
  (`addressing.go:53`).
- README.md:361 gives surcharges of 6 and 16 where the integer arithmetic
  (`BandwidthPenalty`) and the tests give 7 and 17, and calls additive what is a factor.

## What is proved

All theorems hold for every value of the constants that meets the named assumptions, so
for any peers, names, inventories, sources, networks, delays and budgets of faults. In
each module an inductive invariant is shown to hold initially, to be kept by every step
and to imply the property; why the property alone is not inductive is said below.

`CostEngineProofs`
- `EngineTypeCorrect`, `BandsStayInRange`: `EngineInv == EngineTypeOK /\ WellFormed(config)
  /\ UnmetIsZero /\ BandsInRange`. A reload clamps only peers the engine knows, so one
  needs that the others still have the zero state (`UnmetIsZero`) and that no band list is
  empty (`WellFormed`, from `validateCostBands` and the agent's refusal of an empty list).
  `TargetInRange` says that the scans of `evaluateBand` stay inside the list.
- `SwitchesSettle`: the measurement that moves a peer to a band leaves it there. The lemmas
  `PrefixInterval` and `SuffixInterval` turn the scans' cardinalities into the positions
  where they stop (`ClimbStops`, `DropStops`); `TargetSettles` is the argument that with
  down <= up in each band the target of the target is itself.
- `OutagesReported` (`OutageReported`): no call but `RecordFailure` raises a failure count
  (`SuccessFailures`, `ClampFailures`), and a failure moves the cost only at the limit in force
  (`FailureMovesAtLimit`). A reload that lowers the limit below the count moves the cost
  itself and with no report; the theorem says nothing of that case.
- `MovesReported` (`ReportedIffCostMoves`): two bands never cost the same, with a surcharge
  neither (`SurchargedApart`). `validateCostBands` compares neighbours; that any two bands
  are apart follows by induction over their distance (`BandCostsIncrease`). Needs
  `NoOverflow`: beyond 32 bits the product of `engine.go:195` may collide, and a change go
  unnoticed.
- `BandChangesEarned` (`BandChangeEarned`): a band is entered only after `hold` results in a
  row asked for it. `CountInv` says that while the engine counts towards a band, `run` is
  in that band and at least as long as the engine's counter, up to the bound `MaxRun`;
  `HoldsCounted` says that `MaxRun` reaches every hold. The engine forgets its count in
  reloads and on every other request, so it may count less than `run`, never more.

`DynamicCostProofs` (builds on the lemmas of `CostEngineProofs`, one per engine call)
- `DynTypeCorrect`, `AgentBandsInRange`: `AgentInv` is `EngineInv` with the types of both
  goroutines, the file and BIRD; the engine's steps are those of `EngineStep`, all others
  leave it alone.
- `NeverAMixture` (`OneTopology`): what the probe loop is about to write has the interfaces
  of one inventory as well (`TopologyInv`), because repricing keeps the interfaces it read.
- `NoReloadIsLost` (`ReloadPending`): whoever has written is at its reload. Needs
  `FiniteFaults`, for the budget that is left to tell whether a fault happened.
- `StaticCostsKept` (`StaticCostKept`): `StaticInv` follows the cost on both ways, inventory
  to file, and inventory to engine to price list to file, with the interface map read
  earlier than the prices and a config sync between two peers' prices. Needs
  `StaticPeersApart`: a static peer has a static cost (the loader's check, config.go:575) and
  its interface name is never another peer's.
- `RoundsReprice`: the engine's reports reach BIRD's file through the agent. `OutageMarked`:
  a lost probe that moves the cost of a known peer marks the round (`anyChanged`).
  `MoveMarked`: so does a measurement that moves a reachable peer's. `MarkActedOn`: the mark is
  cleared only where the costs are read for a rewrite, or by a restart. Under one
  configuration only an answered probe changes a band (`BandMoves`), although a config
  sync may call the engine between any two results; a recovery is not covered, because
  the code does not report it. No run lists these three: TLC agreed on the instance of
  `dynamic_cost` before they were proved.
- `AgentSwitchesSettle` (`AgentSwitchSettles`): the hysteresis of `SwitchesSettle` in the agent.

`WGApplyProofs`
- `RecordedNamesServed`, `ForeignNeverTouched`: every command names either the peer at the
  round's index (`IfaceManaged`, `VisitIsOwn`: not an unmanaged one) or a candidate, and
  `OwnInv` says that recorded names, candidates and the name about to be deleted were all
  managed by some served inventory; served inventories only grow.
- `WgTypeCorrect`, `WantedNeverDeleted`: `WgInv` adds that the candidates are disjoint from
  the names of the inventory in progress, that the index is within it and that failures are
  counted for visited peers only.
- `KeyAlwaysReady` (`KeyReady`): without fault or crash an interface of the agent without a
  key is the one the round is setting the key of (`KeyInv`).

`UnderlayProofs`
- `UnderlayTypeCorrect`, `RoutesComeFirst` (`PinnedBeforePeered`): `PinInv` follows a lasting
  route from the list of the round to what it found, the file, and BIRD, and says at each
  place that it is there before the peer's interface is, unless a detection failed, which
  stays on record in the budget (`DetectionKept`).

`ConfigFetchProofs`
- `FetchTypeCorrect`, `NodeConfigImplemented`: the refinement of `NodeConfig`. `FetchInv`
  holds that every stored version was published (`PublishedInv`), that the directory chosen
  is the one of the source tried (`DirInv`), and that nothing on its way to the node is
  older than what runs unless it may be (`AheadInv`).
- `OfflineNodesConfigured` (`OfflineStillConfigured`): what runs came through the cache, and
  only a crash or a full disk can take it out (`KeptInv`).
- `NeverRolledBack` (`NoRollback`): `AheadInv` for `wireguard.json`, `BirdInv` for BIRD's file,
  which may also wait in a download whose second request is not answered yet.
- `VersionsNotMixed` (`AppliedWhole`): `WholeInv` says that the cache holds one version
  except between the two writes of `updateCache`, where only the clone is read, and that what
  BIRD gets next is of the version WireGuard got. A crash or full disk stays on record in
  the budget (`DisturbedForGood`).
- `BackoffAsDocumented` (`BackoffDocumented`): the recursion of `backoffDelay` has a solution
  (`DoublingDefined`), its first six values are computed, and it stays at the sixth
  (`DoublingIs`), so the wait is the documented one for any number of failures: 30 s, doubled
  by each further one, 10 minutes from the sixth on.

`AgentHealthProofs`
- `HealthTypeCorrect`, `ShutdownStatusIsLast`, `OwnRecordAlwaysWritten`: once `Run` is past
  its `Wait` no loop records or writes (`FinalInv`), and a snapshot has its own goroutine's
  last record (`FreshInv`).

`ProbeProofs`
- `ProbeTypeCorrect`, and `ProbesMeasured`: `MeasuresThisProbe` as long as fewer probes are
  sent than there are sequence numbers. `CountInv` gives that a packet with the last number
  is of the last probe, `StampInv` that its time stamps lie between its start and now. The
  run `probe` takes its counter past the last number, within its bound on time.

`MeshProofs`
- `RolloutTyped` (`RolloutTypeOK`): a run in progress works on an inventory that was accepted.
  `RolloutInv` (itself `RolloutInvariant`) adds that each directory is what one valid
  inventory gives its node, not all directories the same one (`OutputInv`), and what holds of
  the nodes that took theirs from such directories: an agent takes a whole one, a router
  what an import cut off somewhere adds to what it has (`OutputSteps`, `RunningSteps`).
- `PortsAreDistinct` (`PortsDistinct`) and `AddressesAreDistinct` (`AddressesDistinct`): `NextFree`
  is the least number not taken from a start on (`NextFreeIs`), so the numbers handed out
  grow along the list and skip the fixed ones (`NumberedIs`, `NumberedGrows`), and the rank
  that picks one is a bijection on the names (`RankIs`). From this ids and ports are
  distinct in each valid inventory (`NodeIDDistinct`, `PeerPortDistinct`).
- `PinnedLinksAlwaysAgree` (`PinnedLinksAgree`): what a pinned node is given for a pinned peer
  does not depend on the inventory (`PinnedConfig`), so it is the same in every generation;
  an import keeps it (`ImportPinned`).
- `RoutedLinksAreBuilt` (`RoutedLinksBuilt`): a script adds peer and address before OSPF, and
  an import cut off anywhere runs a prefix of it (`ImportBuilt`).
- `OrderIsIrrelevant` (`OrderIrrelevant`): two inventories with the same nodes have the same
  ranks, ids, ports and links (`SameNodesSameConfig`).

Assumptions on constants are those the modules declare (`WordAssumption`, `NoneAssumption`,
`NoPeerAssumption`, `PoolAssumption`, `ConfigAssumption`, `InputAssumption`,
`InventoryAssumption`, `ScenarioAssumption`, `InventoriesAssumption`, `BudgetAssumption`,
`DeploymentsAssumption`, `BoundsAssumption`, `FileAssumption`, `HealthAssumption`,
`ProbeAssumption`); TLC evaluates each on its instance. The two that name a marker
(`NoneAssumption`, `NoPeerAssumption`) say that it is not one of the values it marks the
absence of. `FiniteFaults`, `StaticPeersApart`, `NoOverflow`, `HoldsCounted` and the bound of
`ProbesMeasured` are hypotheses of their theorems; the instances `MCCostEngine` and
`MCDynamicCost` assume the first four, so TLC evaluates them too. `ProbesMeasured` is about fewer
probes than sequence numbers, failed attempts included; the run `probe` lies just outside that
bound, and no number is on the way twice in it either.

Where an argument needs induction over numbers (numbers handed out, doublings, bands), it is
made from the least counterexample, by the well-foundedness of < on Nat.

Every invariant and action property that a passing run checks is stated by a theorem.
Only model-checked is all liveness (fairness, ENABLED): `SteadyDelaySettles`,
`TopologyConverges`, `PenaltyLifted`, `OutageReachesBird`, `InterfacesHeal`, `BirdFollows`,
`PruneComplete`, `PinsWritten`, `PinsRunWithProbes`, `ReachableSourceApplied`, `ShutdownEnds`,
`ProbeEnds` and `MeshAgrees`.

## Not modelled

- The Go data races on the engine's maps: calls are atomic.
- ICMP (`probe/icmp.go`): never called, though README.md:121 and 368 describe it.
- Texts: templates, addresses as strings, interface names and their truncation, the static
  nodes' instructions, status displays, `validate`, `diff`, `psk`, `show-mesh`.
- Links with `wg_unmanaged` in a RouterOS script.
- Key derivation and the PSK files, the addresses put on an agent's interfaces in `WGApply`
  (their errors are only logged; `MeshRollout` has their effect), installation scripts, the
  clock check of the agent's start.
- The socket protocol of `bird/client.go`: a reload succeeds, fails, or happens while its
  reply is lost.
- Fetches that hang, and files other than a node's two. In a fetch: what a `git` killed
  midway leaves (a lock file, half a clone), a download that cannot be written to disk, and
  `src.Path` itself when a local source has no directory for the node: `ConfigFetch` has the
  node's files found or not. The files of the sources are whole, those of the cache may be cut.
- A `generate` that leaves half a file: it stops between two files (`WriteNodeStops`).
- One lost packet of a peer that is up: `ProbeLost` has it as a tunnel that is down for one
  probe. Two engine calls about one peer in a config sync (`SyncPeer`) are one step.
- WireGuard keys as values: a node keeps its key, and a router finds a peer by interface and
  key (`routeros.go:50`) as the model does by name. Of a script's OSPF part the model has the
  template that puts OSPF on the link; instance, area, loopback and the OSPFv3 template are
  the same for every generation, or follow the OSPFv2 one.
- The fallback of an `auto` source to `ip route get 1.1.1.1` (`apply.go:549-566`): the
  kernel is asked when there is no default route, and no network of a deployment has a way to
  a public address without one.
- OSPF's largest cost, and costs beyond 32 bits (`NoOverflow`).

## Plan

Done, in this order, the most important first: engine and its proofs; dynamic costs;
WireGuard apply; fetch and its refinement; probe; health; plan, rollout and router import;
underlay routes; proofs of the agent's components; proofs about the generated mesh, the
backoff, earned bands and the agent's use of the engine.

Next:
1. Interface names (prefix, truncation, overrides, the collision check) in `MeshPlan`, so that
   the names `DynamicCost` assumes distinct are those a generated inventory has.
2. `wg_unmanaged` links in `MeshPlan` and `RouterOSImport`.
3. An abstract node for the whole round, implemented by `WGApply` and `UnderlayRoutes` as
   `ConfigFetch` implements `NodeConfig`.
4. Proofs: the refinement of 3, and what 1 and 2 add to `MeshProofs`.
