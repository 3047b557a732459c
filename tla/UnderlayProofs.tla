--------------------------- MODULE UnderlayProofs ---------------------------
(***************************************************************************)
(* UnderlayRoutes: as long as no ip command fails, BIRD has a peer's route *)
(* before it has the peer, whatever else fails.                            *)
(***************************************************************************)
EXTENDS UnderlayRoutes, TLAPS

Points == {"idle", "prefsrc", "gateway", "write", "bird", "configure"}
Route  == [peer : Peers, dest : Addresses, family : Family, prefsrc : Prefsrc, place : Nat]
IsRoutes(f) == \A d \in DOMAIN f : d \in Addresses /\ f[d] \in [via : Addresses, src : Addresses]

\* What the kernel answers and what is written are addresses, and the routes still
\* to be resolved are those of the inventory of this sync.
TypeInv ==
    /\ published \in scenario.inventories /\ network \in scenario.networks
    /\ scenario \in Scenarios
    /\ IsRoutes(file) /\ IsRoutes(running.routes) /\ IsRoutes(sync.found)
    /\ include \in [peers : SUBSET Peers, probed : BOOLEAN]
    /\ running = [peers |-> running.peers, routes |-> running.routes]
    /\ running.peers \subseteq Peers
    /\ sync = [at |-> sync.at, inv |-> sync.inv, todo |-> sync.todo, src |-> sync.src,
               found |-> sync.found]
    /\ sync.at \in Points
    /\ sync.inv \in scenario.inventories \cup {None}
    /\ sync.at # "idle" => sync.inv \in scenario.inventories
    /\ sync.todo \subseteq Route
    /\ sync.src \in Addresses \cup {None}
    /\ sync.at = "gateway" => sync.src # None
    /\ left \in [UnderlayEvent -> Nat] /\ left.detect <= scenario.budget.detect

\* A route of the destination that resolves in every network.
Resolves(r, dest) ==
    /\ r.dest = dest
    /\ \A net \in scenario.networks : Resolvable(r, net)

\* A lasting route is on its way from the list of this sync through the file to
\* BIRD, ahead of its peer's interface, unless an ip command failed.
PinInv ==
    NoDetectionFailed => \A peer \in Peers, dest \in Addresses : Lasting(peer, dest) =>
        /\ peer \in running.peers => dest \in DOMAIN running.routes
        /\ peer \in include.peers => dest \in DOMAIN file
        /\ sync.at \in {"prefsrc", "gateway"} =>
              dest \in DOMAIN sync.found \/ \E r \in sync.todo : Resolves(r, dest)
        /\ sync.at = "write" => dest \in DOMAIN sync.found
        /\ sync.at \in {"bird", "configure"} => dest \in DOMAIN file

UnderlayInv == TypeInv /\ PinInv

-----------------------------------------------------------------------------
(***************************************************************************)
(* The operators.                                                          *)
(***************************************************************************)

\* What the assumption says of one scenario.
LEMMA ScenarioKnown ==
    ASSUME NEW s \in Scenarios
    PROVE  /\ None \notin Addresses
           /\ s.inventories \subseteq Inventory /\ s.networks \subseteq Network
           /\ s.budget \in [UnderlayEvent -> Nat]
           /\ \A n \in s.networks, f \in Family :
                 n.gateway[f] # None => n.gateway[f] \in n.onlink
BY ScenarioAssumption

\* An inventory's routes are routes, its peers are peers.
LEMMA RoutesTyped ==
    ASSUME NEW inv \in Inventory
    PROVE  UnderlayRoutesOf(inv) \subseteq Route /\ PeersOf(inv) \subseteq Peers
<1>1. /\ inv.peers \in Seq([name : Peers, endpoint : PerFamily(Addresses)])
      /\ inv.own \in PerFamily(Addresses)
      /\ inv.underlay \in PerFamily(Prefsrc) \cup {None}
  BY DEF Inventory
<1>2. ASSUME NEW i \in DOMAIN inv.peers
      PROVE  /\ i \in Nat /\ inv.peers[i].name \in Peers
             /\ \A f \in Family : inv.peers[i].endpoint[f] \in Addresses \cup {None}
  <2> DEFINE P == [name : Peers, endpoint : PerFamily(Addresses)]
  <2>1. inv.peers \in Seq(P)
    BY <1>1
  <2>2. i \in Nat /\ inv.peers[i] \in P
    <3> HIDE DEF P
    <3> QED BY <2>1
  <2> QED BY <2>2 DEF PerFamily
<1>3. ASSUME NEW f \in Family
      PROVE  EffectivePrefsrc(inv, f) \in Prefsrc \cup {None}
  BY <1>1 DEF EffectivePrefsrc, PerFamily, Prefsrc
<1>4. PeersOf(inv) \subseteq Peers
  BY <1>2 DEF PeersOf
<1>5. ASSUME NEW i \in DOMAIN inv.peers, NEW f \in Family,
             inv.peers[i].endpoint[f] # None, EffectivePrefsrc(inv, f) # None
      PROVE  [peer |-> inv.peers[i].name, dest |-> inv.peers[i].endpoint[f],
              family |-> f, prefsrc |-> EffectivePrefsrc(inv, f), place |-> i] \in Route
  BY <1>2, <1>3, <1>5 DEF Route
<1> QED BY <1>4, <1>5 DEF UnderlayRoutesOf

\* A source that resolves is an address.
LEMMA PrefsrcTyped ==
    ASSUME NEW r \in Route, NEW net \in Network
    PROVE  ResolvedPrefsrc(r, net) \in Addresses \cup {None}
<1>1. net.address \in PerFamily(Addresses) /\ r.family \in Family /\ r.prefsrc \in Prefsrc
  BY DEF Network, Route
<1>2. net.address[r.family] \in Addresses \cup {None}
  BY <1>1 DEF PerFamily
<1> QED BY <1>1, <1>2 DEF ResolvedPrefsrc, Prefsrc

\* The kernel answers with an address or with none, and with an address where the
\* network has a gateway and the destination is not on the link.
LEMMA RouteGetTyped ==
    ASSUME TypeInv, NEW r \in Route
    PROVE  /\ RouteGet(r) \in Addresses \cup {None}
           /\ Resolvable(r, network) => RouteGet(r) # None
<1>1. network \in Network /\ None \notin Addresses
  BY ScenarioKnown DEF TypeInv
<1>2. network.gateway[r.family] \in Addresses \cup {None}
  BY <1>1 DEF Network, Route, PerFamily
<1>3. Installed(r) => running.routes[r.dest].via \in Addresses
  BY DEF Installed, TypeInv, IsRoutes
<1> QED BY <1>1, <1>2, <1>3 DEF RouteGet, Resolvable

-----------------------------------------------------------------------------
(***************************************************************************)
(* The steps.                                                              *)
(***************************************************************************)
LEMMA InitInv == UnderlayInit => UnderlayInv
<1> SUFFICES ASSUME UnderlayInit PROVE UnderlayInv
  OBVIOUS
<1>1. TypeInv
  <2>1. left \in [UnderlayEvent -> Nat] /\ left.detect <= scenario.budget.detect
    BY ScenarioKnown DEF UnderlayInit, UnderlayEvent
  <2> QED BY <2>1, ScenarioKnown DEF UnderlayInit, TypeInv, Idle, IsRoutes, Points
<1>2. PinInv
  BY DEF UnderlayInit, PinInv, Idle
<1> QED BY <1>1, <1>2 DEF UnderlayInv

\* What no step but Publish and NetworkChanges touches.
LEMMA WorldKept ==
    ASSUME UNCHANGED scenario
    PROVE  /\ UNCHANGED left => (NoDetectionFailed' <=> NoDetectionFailed)
           /\ \A peer, dest : Lasting(peer, dest)' <=> Lasting(peer, dest)
           /\ \A r, dest : Resolves(r, dest)' <=> Resolves(r, dest)
BY DEF Lasting, Resolves, NoDetectionFailed

\* A failed ip command is not forgotten.
LEMMA BudgetKept ==
    ASSUME TypeInv, UNCHANGED scenario, NEW e \in UnderlayEvent, Spend(e)
    PROVE  /\ left' \in [UnderlayEvent -> Nat] /\ left'.detect <= scenario'.budget.detect
           /\ NoDetectionFailed' => NoDetectionFailed /\ e # "detect"
<1>1. /\ left \in [UnderlayEvent -> Nat] /\ left[e] > 0 /\ left' = [left EXCEPT ![e] = @ - 1]
      /\ left.detect <= scenario.budget.detect /\ scenario.budget.detect \in Nat
      /\ "detect" \in UnderlayEvent
  BY ScenarioKnown DEF TypeInv, Spend, May, UnderlayEvent
<1>2. left' \in [UnderlayEvent -> Nat] /\ left.detect \in Nat
  BY <1>1
<1>3. CASE e = "detect"
  BY <1>1, <1>2, <1>3 DEF NoDetectionFailed
<1>4. CASE e # "detect"
  BY <1>1, <1>2, <1>4 DEF NoDetectionFailed
<1> QED BY <1>3, <1>4

\* The list of a new sync has every lasting route.
LEMMA StartKept ==
    ASSUME UnderlayInv, SyncStart
    PROVE  UnderlayInv'
<1> DEFINE todo == UnderlayRoutesOf(published)
<1>1. /\ UNCHANGED <<worldVars, file, include, running, left, scenario>>
      /\ sync' = [at |-> IF todo = {} THEN "bird" ELSE "prefsrc", inv |-> published,
                  todo |-> todo, src |-> None, found |-> <<>>]
  BY DEF SyncStart, Idle
<1>2. published \in scenario.inventories /\ todo \subseteq Route
  BY ScenarioKnown, RoutesTyped DEF UnderlayInv, TypeInv
<1> HIDE DEF todo
<1>3. TypeInv'
  BY <1>1, <1>2 DEF UnderlayInv, TypeInv, worldVars, IsRoutes, Points
<1>4. ASSUME NEW peer \in Peers, NEW dest \in Addresses, Lasting(peer, dest)
      PROVE  \E r \in todo : Resolves(r, dest)
  BY <1>2, <1>4 DEF Lasting, Resolves, todo
<1>5. PinInv'
  BY <1>1, <1>4, WorldKept DEF UnderlayInv, PinInv, worldVars
<1> QED BY <1>3, <1>5 DEF UnderlayInv

\* A route leaves the list only into the file to be written, if it resolves.
LEMMA DoneKept ==
    ASSUME UnderlayInv, NEW r \in sync.todo, NEW found, Done(r, found), IsRoutes(found),
           UNCHANGED <<worldVars, file, include, running, left, scenario>>,
           sync.at \in {"prefsrc", "gateway"},
           DOMAIN sync.found \subseteq DOMAIN found,
           \A dest \in Addresses : Resolves(r, dest) => dest \in DOMAIN found
    PROVE  UnderlayInv'
<1>1. sync' = [at |-> IF sync.todo = {r} THEN "write" ELSE "prefsrc", inv |-> sync.inv,
               todo |-> sync.todo \ {r}, src |-> None, found |-> found]
  BY DEF Done, UnderlayInv, TypeInv
<1>2. TypeInv'
  BY <1>1 DEF UnderlayInv, TypeInv, worldVars, IsRoutes, Points
<1>3. ASSUME NEW peer \in Peers, NEW dest \in Addresses, Lasting(peer, dest)
      PROVE  NoDetectionFailed =>
                dest \in DOMAIN found \/ \E q \in sync.todo \ {r} : Resolves(q, dest)
  BY <1>3 DEF UnderlayInv, PinInv
<1>4. PinInv'
  BY <1>1, <1>3, WorldKept DEF UnderlayInv, PinInv, worldVars
<1> QED BY <1>2, <1>4 DEF UnderlayInv

LEMMA PrefsrcKept ==
    ASSUME UnderlayInv, ResolvePrefsrc
    PROVE  UnderlayInv'
<1>1. PICK r \in sync.todo :
        LET src == ResolvedPrefsrc(r, network)
        IN  IF src = None THEN Done(r, sync.found)
            ELSE sync' = [sync EXCEPT !.at = "gateway", !.src = src]
  BY DEF ResolvePrefsrc
<1> DEFINE src == ResolvedPrefsrc(r, network)
<1>2. /\ sync.at = "prefsrc"
      /\ UNCHANGED <<worldVars, file, include, running, left, scenario>>
  BY DEF ResolvePrefsrc
<1>3. src \in Addresses \cup {None}
  BY ScenarioKnown, PrefsrcTyped DEF UnderlayInv, TypeInv
<1>4. CASE src = None
  <2>1. \A dest : ~Resolves(r, dest)
    BY <1>4 DEF Resolves, Resolvable, UnderlayInv, TypeInv
  <2> QED BY <1>1, <1>2, <1>4, <2>1, DoneKept DEF UnderlayInv, TypeInv
<1>5. CASE src # None
  <2>1. sync' = [at |-> "gateway", inv |-> sync.inv, todo |-> sync.todo, src |-> src,
                 found |-> sync.found]
    BY <1>1, <1>5 DEF UnderlayInv, TypeInv
  <2> HIDE DEF src
  <2>2. TypeInv'
    BY <1>2, <1>3, <1>5, <2>1 DEF UnderlayInv, TypeInv, worldVars, IsRoutes, Points
  <2>3. PinInv'
    BY <1>2, <2>1, WorldKept DEF UnderlayInv, PinInv, worldVars
  <2> QED BY <2>2, <2>3 DEF UnderlayInv
<1> QED BY <1>4, <1>5

LEMMA GatewayKept ==
    ASSUME UnderlayInv, DetectGateway
    PROVE  UnderlayInv'
<1> DEFINE via(r) == RouteGet(r)
           found(r) == IF via(r) = None THEN sync.found
                       ELSE With(sync.found, r.dest, [via |-> via(r), src |-> sync.src])
<1>1. PICK r \in sync.todo : Done(r, found(r))
  BY DEF DetectGateway
<1>2. /\ sync.at = "gateway"
      /\ UNCHANGED <<worldVars, file, include, running, left, scenario>>
  BY DEF DetectGateway
<1>3. /\ r \in Route /\ r.dest \in Addresses
      /\ via(r) \in Addresses \cup {None}
      /\ Resolvable(r, network) => via(r) # None
      /\ sync.src \in Addresses
  BY <1>2, RouteGetTyped DEF UnderlayInv, TypeInv, Route
<1>4. /\ via(r) # None => DOMAIN found(r) = {r.dest} \cup DOMAIN sync.found
      /\ IsRoutes(found(r)) /\ DOMAIN sync.found \subseteq DOMAIN found(r)
  BY <1>3 DEF UnderlayInv, TypeInv, IsRoutes, With
<1>5. \A dest \in Addresses : Resolves(r, dest) => dest \in DOMAIN found(r)
  BY <1>3, <1>4 DEF Resolves, UnderlayInv, TypeInv
<1> QED BY <1>1, <1>2, <1>4, <1>5, DoneKept

LEMMA WriteKept ==
    ASSUME UnderlayInv, WriteUnderlay
    PROVE  UnderlayInv'
<1>1. /\ sync.at = "write" /\ UNCHANGED <<worldVars, include, running, left, scenario>>
      /\ file' = IF sync.found = <<>> THEN file ELSE sync.found
      /\ sync' = [at |-> "bird", inv |-> sync.inv, todo |-> sync.todo, src |-> sync.src,
                  found |-> sync.found]
  BY DEF WriteUnderlay, UnderlayInv, TypeInv
<1>2. TypeInv'
  BY <1>1 DEF UnderlayInv, TypeInv, worldVars, IsRoutes, Points
<1>3. ASSUME NEW peer \in Peers, NEW dest \in Addresses, Lasting(peer, dest)
      PROVE  NoDetectionFailed => dest \in DOMAIN sync.found /\ file' = sync.found
  BY <1>1, <1>3 DEF UnderlayInv, PinInv
<1>4. PinInv'
  BY <1>1, <1>3, WorldKept DEF UnderlayInv, PinInv, worldVars
<1> QED BY <1>2, <1>4 DEF UnderlayInv

LEMMA BirdKept ==
    ASSUME UnderlayInv, ApplyBird
    PROVE  UnderlayInv'
<1>1. /\ sync.at = "bird" /\ UNCHANGED <<worldVars, file, running, left, scenario>>
      /\ \/ include' = include /\ sync' = Idle
         \/ /\ include' = [peers |-> PeersOf(sync.inv), probed |-> FALSE]
            /\ sync' = [at |-> "configure", inv |-> sync.inv, todo |-> sync.todo,
                        src |-> sync.src, found |-> sync.found]
  BY DEF ApplyBird, Generated, UnderlayInv, TypeInv
<1>2. sync.inv \in scenario.inventories /\ PeersOf(sync.inv) \subseteq Peers
  BY <1>1, ScenarioKnown, RoutesTyped DEF UnderlayInv, TypeInv
<1>3. include' \in [peers : SUBSET Peers, probed : BOOLEAN]
  <2>1. include \in [peers : SUBSET Peers, probed : BOOLEAN]
    BY DEF UnderlayInv, TypeInv
  <2>2. [peers |-> PeersOf(sync.inv), probed |-> FALSE] \in [peers : SUBSET Peers, probed : BOOLEAN]
    BY <1>2
  <2> QED BY <1>1, <2>1, <2>2
<1>4. TypeInv'
  BY <1>1, <1>2, <1>3 DEF UnderlayInv, TypeInv, worldVars, IsRoutes, Points, Idle
<1>5. PinInv'
  BY <1>1, WorldKept DEF UnderlayInv, PinInv, worldVars, Idle
<1> QED BY <1>4, <1>5 DEF UnderlayInv

\* BIRD reads both files.
LEMMA LoadKept ==
    ASSUME UnderlayInv, Configure \/ CostsChange \/ BirdRestarts
    PROVE  UnderlayInv'
<1>1. /\ UNCHANGED <<worldVars, file, scenario>>
      /\ running' = [peers |-> include.peers, routes |-> file]
      /\ sync' \in {sync, Idle}
      /\ include'.peers = include.peers
      /\ include' \in [peers : SUBSET Peers, probed : BOOLEAN]
      /\ left' \in [UnderlayEvent -> Nat] /\ left'.detect <= scenario'.budget.detect
      /\ NoDetectionFailed' => NoDetectionFailed
  <2>1. left \in [UnderlayEvent -> Nat] /\ include \in [peers : SUBSET Peers, probed : BOOLEAN]
    BY DEF UnderlayInv, TypeInv
  <2>2. CASE Configure
    BY <2>1, <2>2, WorldKept DEF Configure, Loaded, UnderlayInv, TypeInv
  <2>3. CASE CostsChange
    BY <2>1, <2>3, WorldKept DEF CostsChange, Loaded, UnderlayInv, TypeInv
  <2>4. CASE BirdRestarts
    BY <2>1, <2>4, BudgetKept DEF BirdRestarts, Loaded, UnderlayEvent, UnderlayInv
  <2> QED BY <2>2, <2>3, <2>4
<1>2. TypeInv'
  BY <1>1 DEF UnderlayInv, TypeInv, worldVars, IsRoutes, Points, Idle
<1>3. PinInv'
  BY <1>1, WorldKept DEF UnderlayInv, PinInv, worldVars, Idle
<1> QED BY <1>2, <1>3 DEF UnderlayInv

\* A route whose source or gateway was not found leaves the list.
LEMMA DetectionKept ==
    ASSUME UnderlayInv, DetectionFails
    PROVE  UnderlayInv'
<1>1. PICK r \in sync.todo : Done(r, sync.found)
  BY DEF DetectionFails
<1>2. /\ UNCHANGED <<worldVars, file, include, running, scenario>>
      /\ sync' = [at |-> IF sync.todo = {r} THEN "write" ELSE "prefsrc", inv |-> sync.inv,
                  todo |-> sync.todo \ {r}, src |-> None, found |-> sync.found]
      /\ sync.at # "idle"
  BY <1>1 DEF DetectionFails, Done, UnderlayInv, TypeInv
<1>3. /\ left' \in [UnderlayEvent -> Nat] /\ left'.detect <= scenario'.budget.detect
      /\ ~NoDetectionFailed'
  BY BudgetKept DEF DetectionFails, UnderlayInv, UnderlayEvent
<1>4. TypeInv'
  BY <1>2, <1>3 DEF UnderlayInv, TypeInv, worldVars, IsRoutes, Points
<1> QED BY <1>3, <1>4 DEF UnderlayInv, PinInv

\* Steps that fail, the world, and stuttering.
LEMMA OthersKept ==
    ASSUME UnderlayInv,
           \/ WriteUnderlayFails \/ ApplyBirdFails \/ ConfigureFails \/ AgentRestarts
           \/ \E inv \in scenario.inventories : Publish(inv)
           \/ \E net \in scenario.networks : NetworkChanges(net)
           \/ UNCHANGED vars
    PROVE  UnderlayInv'
<1>1. /\ UNCHANGED <<file, include, running, scenario>>
      /\ sync' \in {sync, Idle}
      /\ published' \in scenario.inventories /\ network' \in scenario.networks
  BY DEF WriteUnderlayFails, ApplyBirdFails, ConfigureFails, AgentRestarts, Publish,
         NetworkChanges, vars, worldVars, UnderlayInv, TypeInv
<1>4. UNCHANGED left \/ \E e \in UnderlayEvent : Spend(e)
  BY DEF WriteUnderlayFails, ApplyBirdFails, ConfigureFails, AgentRestarts, Publish,
         NetworkChanges, UnderlayEvent, vars
<1>5. /\ left' \in [UnderlayEvent -> Nat] /\ left'.detect <= scenario'.budget.detect
      /\ NoDetectionFailed' => NoDetectionFailed
  BY <1>1, <1>4, BudgetKept, WorldKept DEF UnderlayInv, TypeInv
<1>2. TypeInv'
  BY <1>1, <1>5 DEF UnderlayInv, TypeInv, IsRoutes, Points, Idle
<1>3. PinInv'
  BY <1>1, <1>5, WorldKept DEF UnderlayInv, PinInv, Idle
<1> QED BY <1>2, <1>3 DEF UnderlayInv

LEMMA NextInv == UnderlayInv /\ [UnderlayNext]_vars => UnderlayInv'
BY StartKept, PrefsrcKept, GatewayKept, DetectionKept, WriteKept, BirdKept, LoadKept, OthersKept
DEF UnderlayNext, SyncStep

\* The agent resolves only routes of the inventory it took, and what it writes for
\* BIRD are addresses, in any network and after any failure.
THEOREM UnderlayTypeCorrect == UnderlaySpec => []UnderlayTypeOK
<1>1. UnderlayInv => UnderlayTypeOK
  BY DEF UnderlayInv, TypeInv, UnderlayTypeOK, IsRoutes, Points
<1> QED BY <1>1, InitInv, NextInv, PTL DEF UnderlaySpec

\* For any inventories, networks and budget of faults: as long as no ip command
\* fails, BIRD has the route of a peer that is pinned throughout before it runs OSPF
\* with it.
THEOREM RoutesComeFirst == UnderlaySpec => []PinnedBeforePeered
<1>1. UnderlayInv => PinnedBeforePeered
  BY DEF UnderlayInv, TypeInv, PinInv, PinnedBeforePeered
<1> QED BY <1>1, InitInv, NextInv, PTL DEF UnderlaySpec
=============================================================================
