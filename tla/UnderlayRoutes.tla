--------------------------- MODULE UnderlayRoutes ---------------------------
(***************************************************************************)
(* The underlay routes of a node: static routes to its peers' endpoints    *)
(* that pin the source address of the tunnels' packets.  The generator     *)
(* puts destination and source into wireguard.json; at each sync the agent *)
(* asks the kernel for the gateway and writes a BIRD include of its own.   *)
(* BIRD reads it together with the main include, and the kernel answers    *)
(* from the routes BIRD installed.                                         *)
(*                                                                         *)
(* Addresses are model values; a route's destination is the peer's         *)
(* endpoint, one address for each family.                                  *)
(***************************************************************************)
EXTENDS Integers, Sequences

CONSTANTS
    Peers,       \* the names of the node's peers
    Addresses,   \* of nodes, endpoints and gateways
    Scenarios,   \* the nodes a behaviour may be about: the inventories that
                 \* may be published, the networks the node may find itself
                 \* in, and how often each event of UnderlayEvent may happen
    None         \* no address, no underlay section, no sync

Family == {"ipv4", "ipv6"}
UnderlayEvent == {"publish", "network", "detect", "write", "reload", "crash"}

\* What an inventory says of this node: its own endpoint, its underlay section
\* (a preferred source for each family, None when empty), its peers' endpoints.
PerFamily(S) == [Family -> S \cup {None}]
Prefsrc      == Addresses \cup {"iface", "auto"}
Inventory ==
    [own      : PerFamily(Addresses),
     underlay : PerFamily(Prefsrc) \cup {None},
     peers    : Seq([name : Peers, endpoint : PerFamily(Addresses)])]

\* The default gateway and the node's address of each family, and what the node
\* reaches without a gateway.
Network ==
    [gateway : PerFamily(Addresses),
     address : PerFamily(Addresses),
     onlink  : SUBSET Addresses]

ASSUME ScenarioAssumption ==
    /\ None \notin Addresses
    /\ \A s \in Scenarios :
          /\ s.inventories \subseteq Inventory /\ s.networks \subseteq Network
          /\ s.budget \in [UnderlayEvent -> Nat]
          /\ \A n \in s.networks, f \in Family :
                n.gateway[f] # None => n.gateway[f] \in n.onlink

VARIABLES
    published,  \* the inventory the config sources serve
    network,    \* the network the node is in
    file,       \* meshctl-underlay.conf: destination -> [via, src]
    include,    \* meshctl.conf: the peers it has OSPF interfaces for, and
                \* whether its costs are probed ones
    running,    \* what BIRD loaded of both files
    sync,       \* the config sync, from Fetch to Configure
    left,       \* what is left of the scenario's budget
    scenario    \* never changes

worldVars == <<published, network>>
vars == <<worldVars, file, include, running, sync, left, scenario>>

Idle   == [at |-> "idle", inv |-> None, todo |-> {}, src |-> None, found |-> <<>>]
Loaded == [peers |-> include.peers, routes |-> file]

UnderlayTypeOK ==
    /\ published \in scenario.inventories /\ network \in scenario.networks
    /\ scenario \in Scenarios
    /\ \A r \in {file, running.routes, sync.found} :
          \A d \in DOMAIN r : d \in Addresses /\ r[d] \in [via : Addresses, src : Addresses]
    /\ include.peers \subseteq Peers /\ include.probed \in BOOLEAN
    /\ running.peers \subseteq Peers
    /\ sync.at \in {"idle", "prefsrc", "gateway", "write", "bird", "configure"}
    /\ sync.inv \in scenario.inventories \cup {None}
    /\ sync.src \in Addresses \cup {None}
    /\ sync.at = "gateway" => sync.src # None
    /\ left \in [UnderlayEvent -> Nat]

May(event) == left[event] > 0
Spend(event) ==
    /\ May(event)
    /\ left' = [left EXCEPT ![event] = @ - 1]

-----------------------------------------------------------------------------
(***************************************************************************)
(* What the generator writes into wireguard.json.                          *)
(***************************************************************************)
EffectivePrefsrc(inv, f) ==
    IF inv.underlay = None THEN None
    ELSE IF inv.underlay[f] # None THEN inv.underlay[f] ELSE inv.own[f]

\* One route for each peer and family in which the peer has an endpoint and the
\* node a source, in the order of the peers.
UnderlayRoutesOf(inv) ==
    {[peer |-> inv.peers[x[1]].name, dest |-> inv.peers[x[1]].endpoint[x[2]],
      family |-> x[2], prefsrc |-> EffectivePrefsrc(inv, x[2]), place |-> x[1]] :
        x \in {y \in (DOMAIN inv.peers) \X Family :
                  /\ inv.peers[y[1]].endpoint[y[2]] # None
                  /\ EffectivePrefsrc(inv, y[2]) # None}}

PeersOf(inv) == {inv.peers[i].name : i \in DOMAIN inv.peers}

-----------------------------------------------------------------------------
(***************************************************************************)
(* What the kernel answers.                                                *)
(***************************************************************************)

\* BIRD installs a route whose gateway it can reach, if the node has the address.
Installed(r) ==
    /\ r.dest \in DOMAIN running.routes
    /\ running.routes[r.dest].via \in network.onlink
    /\ running.routes[r.dest].src = network.address[r.family]

\* `ip route get`: the most specific route, without a gateway when the
\* destination is on the link.
RouteGet(r) ==
    IF Installed(r) THEN running.routes[r.dest].via
    ELSE IF r.dest \in network.onlink THEN None
    ELSE network.gateway[r.family]

\* resolvePrefsrc: "auto" is asked of the default route.  Without one the kernel is
\* asked for the way to a public address, which it has in no network here.
ResolvedPrefsrc(r, net) ==
    CASE r.prefsrc \in Addresses -> r.prefsrc
      [] r.prefsrc = "iface"     -> net.address[r.family]
      [] r.prefsrc = "auto"      -> IF net.gateway[r.family] = None THEN None
                                    ELSE net.address[r.family]

-----------------------------------------------------------------------------
UnderlayInit ==
    /\ scenario \in Scenarios
    /\ published \in scenario.inventories /\ network \in scenario.networks
    /\ file = <<>>
    /\ include = [peers |-> {}, probed |-> FALSE]
    /\ running = [peers |-> {}, routes |-> <<>>]
    /\ sync = Idle
    /\ left = scenario.budget

\* A sync with the inventory fetched and its WireGuard part applied.  Without an
\* underlay route in it applyUnderlayRoutes returns at once.
SyncStart ==
    /\ sync.at = "idle"
    /\ LET todo == UnderlayRoutesOf(published)
       IN  sync' = [Idle EXCEPT !.inv = published, !.todo = todo,
                                !.at  = IF todo = {} THEN "bird" ELSE "prefsrc"]
    /\ UNCHANGED <<worldVars, file, include, running, left, scenario>>

\* wireguard.json has the IPv4 routes first.
Before(q, r) ==
    \/ q.family = "ipv4" /\ r.family = "ipv6"
    \/ q.family = r.family /\ q.place < r.place
First(r) == r \in sync.todo /\ \A q \in sync.todo : ~Before(q, r)

\* On to the next route, or to the file after the last one.
Done(r, found) ==
    sync' = [sync EXCEPT !.todo = @ \ {r}, !.src = None, !.found = found,
                         !.at = IF sync.todo = {r} THEN "write" ELSE "prefsrc"]

\* A route without a source is left out.
ResolvePrefsrc ==
    /\ sync.at = "prefsrc"
    /\ \E r \in sync.todo :
          /\ First(r)
          /\ LET src == ResolvedPrefsrc(r, network)
             IN  IF src = None THEN Done(r, sync.found)
                 ELSE sync' = [sync EXCEPT !.at = "gateway", !.src = src]
    /\ UNCHANGED <<worldVars, file, include, running, left, scenario>>

With(found, dest, route) ==
    [d \in {dest} \cup DOMAIN found |-> IF d = dest THEN route ELSE found[d]]

\* A route without a gateway is left out.
DetectGateway ==
    /\ sync.at = "gateway"
    /\ \E r \in sync.todo :
          /\ First(r)
          /\ Done(r, IF RouteGet(r) = None THEN sync.found
                     ELSE With(sync.found, r.dest, [via |-> RouteGet(r), src |-> sync.src]))
    /\ UNCHANGED <<worldVars, file, include, running, left, scenario>>

\* The ip command itself fails, for the source or the gateway: the route is left out
\* of the file.  A source that is an address needs no command.
DetectionFails ==
    /\ sync.at \in {"prefsrc", "gateway"}
    /\ Spend("detect")
    /\ \E r \in sync.todo :
          /\ First(r) /\ (sync.at = "prefsrc" => r.prefsrc \notin Addresses)
          /\ Done(r, sync.found)
    /\ UNCHANGED <<worldVars, file, include, running, scenario>>

\* Mutants: an existing file is left alone; the sync goes on after a write that
\* failed.
WriteUnderlayOnce ==
    /\ sync.at = "write"
    /\ file' = IF file = <<>> THEN sync.found ELSE file
    /\ sync' = [sync EXCEPT !.at = "bird"]
    /\ UNCHANGED <<worldVars, include, running, left, scenario>>

\* The file is replaced when it differs, and BIRD is not told.  When no route is
\* left the old file stays.
WriteUnderlay ==
    /\ sync.at = "write"
    /\ file' = IF sync.found = <<>> THEN file ELSE sync.found
    /\ sync' = [sync EXCEPT !.at = "bird"]
    /\ UNCHANGED <<worldVars, include, running, left, scenario>>

WriteUnderlayIgnored ==
    /\ sync.at = "write" /\ sync.found \notin {<<>>, file}
    /\ Spend("write")
    /\ sync' = [sync EXCEPT !.at = "bird"]
    /\ UNCHANGED <<worldVars, file, include, running, scenario>>

\* Apply returns the error: BIRD's main include is not touched.
WriteUnderlayFails ==
    /\ sync.at = "write" /\ sync.found \notin {<<>>, file}
    /\ Spend("write")
    /\ sync' = Idle
    /\ UNCHANGED <<worldVars, file, include, running, scenario>>

Generated(inv) == [peers |-> PeersOf(inv), probed |-> FALSE]

\* Mutant: the costs are not compared.
ApplyBirdByPeers ==
    /\ sync.at = "bird"
    /\ IF include.peers = PeersOf(sync.inv)
       THEN include' = include /\ sync' = Idle
       ELSE include' = Generated(sync.inv) /\ sync' = [sync EXCEPT !.at = "configure"]
    /\ UNCHANGED <<worldVars, file, running, left, scenario>>

\* applyBIRD: nothing happens when the main include is the generated one.
ApplyBird ==
    /\ sync.at = "bird"
    /\ IF include = Generated(sync.inv)
       THEN include' = include /\ sync' = Idle
       ELSE include' = Generated(sync.inv) /\ sync' = [sync EXCEPT !.at = "configure"]
    /\ UNCHANGED <<worldVars, file, running, left, scenario>>

ApplyBirdFails ==
    /\ sync.at = "bird" /\ include # Generated(sync.inv)
    /\ Spend("write")
    /\ sync' = Idle
    /\ UNCHANGED <<worldVars, file, include, running, scenario>>

Configure ==
    /\ sync.at = "configure"
    /\ running' = Loaded /\ sync' = Idle
    /\ UNCHANGED <<worldVars, file, include, left, scenario>>

\* BIRD does not get the command.
ConfigureFails ==
    /\ sync.at = "configure"
    /\ Spend("reload")
    /\ sync' = Idle
    /\ UNCHANGED <<worldVars, file, include, running, scenario>>

SyncStep ==
    \/ SyncStart \/ ResolvePrefsrc \/ DetectGateway \/ DetectionFails
    \/ WriteUnderlay \/ WriteUnderlayFails \/ ApplyBird \/ ApplyBirdFails \/ Configure \/ ConfigureFails

\* The probe loop puts other costs into the main include and has BIRD reload
\* (step by step in DynamicCost).
CostsChange ==
    /\ include.peers # {}
    /\ include' = [include EXCEPT !.probed = TRUE]
    /\ running' = Loaded
    /\ UNCHANGED <<worldVars, file, sync, left, scenario>>

AgentRestarts ==
    /\ sync # Idle /\ Spend("crash")
    /\ sync' = Idle
    /\ UNCHANGED <<worldVars, file, include, running, scenario>>

BirdRestarts ==
    /\ Spend("crash")
    /\ running' = Loaded
    /\ UNCHANGED <<worldVars, file, include, sync, scenario>>

Publish(inv) ==
    /\ inv # published /\ Spend("publish")
    /\ published' = inv
    /\ UNCHANGED <<network, file, include, running, sync, scenario>>

NetworkChanges(net) ==
    /\ net # network /\ Spend("network")
    /\ network' = net
    /\ UNCHANGED <<published, file, include, running, sync, scenario>>

UnderlayNext ==
    \/ SyncStep
    \/ CostsChange
    \/ AgentRestarts \/ BirdRestarts
    \/ \E inv \in scenario.inventories : Publish(inv)
    \/ \E net \in scenario.networks : NetworkChanges(net)

UnderlaySpec == UnderlayInit /\ [][UnderlayNext]_vars

\* The ticker of the config sync loop comes round again and again.
UnderlayFairSpec == UnderlaySpec /\ WF_vars(SyncStep)

-----------------------------------------------------------------------------
(***************************************************************************)
(* Properties.                                                             *)
(***************************************************************************)
\* The network gives a source and a gateway for the route.
Resolvable(r, net) ==
    /\ ResolvedPrefsrc(r, net) # None
    /\ net.gateway[r.family] # None /\ r.dest \notin net.onlink

\* The routes of an inventory as a network alone determines them.
Pins(inv, net) ==
    LET has == {r \in UnderlayRoutesOf(inv) : Resolvable(r, net)}
    IN  [d \in {r.dest : r \in has} |->
            LET r == CHOOSE x \in has : x.dest = d
            IN  [via |-> net.gateway[r.family], src |-> ResolvedPrefsrc(r, net)]]

\* Every inventory of the scenario pins the peer to this destination, in every
\* network.
Lasting(peer, dest) ==
    \A inv \in scenario.inventories : \E r \in UnderlayRoutesOf(inv) :
        /\ r.peer = peer /\ r.dest = dest
        /\ \A net \in scenario.networks : Resolvable(r, net)

NoDetectionFailed == left.detect = scenario.budget.detect

\* The routes come first (Apply): BIRD never runs OSPF with a peer whose packets
\* it does not pin, whatever else is published, where the node moves, and which
\* write, reload or process fails, if the peer's route was there all along and no
\* ip command failed.  (One that fails takes its route out of the file again.)
PinnedBeforePeered ==
    NoDetectionFailed =>
      \A peer \in running.peers, dest \in Addresses :
        Lasting(peer, dest) => dest \in DOMAIN running.routes

\* No installed route outlives the network it was right for: where its gateway is
\* still in reach it is still the gateway, and no peer came onto the link.
ApartNetworks ==
    \A m, n \in scenario.networks, f \in Family :
        m.gateway[f] \in n.onlink =>
            /\ m.gateway[f] = n.gateway[f]
            /\ \A inv \in scenario.inventories : \A r \in UnderlayRoutesOf(inv) :
                  r.family = f /\ r.dest \in n.onlink => r.dest \in m.onlink

\* The include follows the inventory and the network through failed detections,
\* failed writes and crashes: every route that can be resolved has its source,
\* and the routes and gateways are right too when the kernel's answers do not
\* come from routes BIRD installed earlier.  (No routes at all are never written.)
PinsWritten ==
    <>[](LET pins == Pins(published, network)
         IN  /\ \A d \in DOMAIN pins : d \in DOMAIN file /\ file[d].src = pins[d].src
             /\ ApartNetworks /\ pins # <<>> => file = pins)

\* "The agent handles this at every config sync": on a node whose link costs keep
\* moving BIRD ends up with the routes, although nothing tells it to read them:
\* each sync takes the probed costs back and reloads.
PinsRunWithProbes ==
    ApartNetworks /\ []<>include.probed =>
      <>[](Pins(published, network) # <<>> =>
              running.routes = Pins(published, network))

\* GETTING-STARTED 9.3 "no manual steps, the agent handles this at every config
\* sync": in the end BIRD runs the routes of the published inventory.
PinsRun == <>[](running.routes = Pins(published, network))
=============================================================================
