---------------------------- MODULE MeshRollout ----------------------------
(***************************************************************************)
(* An inventory on its way to the nodes: the operator edits it and runs    *)
(* `meshctl generate`, which writes one directory after the other, and     *)
(* each node takes over its directory when its agent, or the operator by   *)
(* hand, gets to it.  So the two ends of a link may run the results of     *)
(* different inventories.                                                  *)
(***************************************************************************)
EXTENDS MeshPlan, RouterOSImport, SequencesExt

CONSTANTS
    Pool,        \* the nodes an inventory is made of, one for each name
    Starts,      \* what meshctl.yaml may hold when the rollouts begin
    MaxEdits,    \* bound: edits of the inventory
    MaxFaults,   \* bound: generate runs that stop half way
    None         \* no directory, no configuration

ASSUME PoolAssumption ==
    /\ \A m, n \in Pool : m.name = n.name => m = n
    /\ \A n \in Pool :
          n.name \in Nat \ {0} /\ n.id \in Nat /\ n.port \in Int /\ n.peerPort \in Int
    /\ Starts \subseteq Seq(Pool)
    /\ MaxEdits \in Nat /\ MaxFaults \in Nat

\* What a directory says of each peer, and what can be said of none.
PeerConfig == [listen : Int, endpoint : Int, self : Int, peer : Int]
ASSUME NoneAssumption ==
    \A peers \in SUBSET {n.name : n \in Pool} : None \notin [peers -> PeerConfig]

VARIABLES
    inventory,   \* the nodes of meshctl.yaml, in the order of the file
    generate,    \* the run in progress: the inventory it loaded, the next node
    generated,   \* the inventory of the last run, <<>> when it stopped half way
    output,      \* name -> what its directory says
    bird,        \* name -> the peers its bird-meshctl.conf has interfaces for
    running,     \* name -> what the node runs
    edits, faults

vars == <<inventory, generate, generated, output, bird, running, edits, faults>>

Names  == {n.name : n \in Pool}
Agents == {n.name : n \in {x \in Pool : x.linux}}
Idle == [inv |-> <<>>, next |-> 1]

RolloutTypeOK ==
    /\ inventory \in Seq(Pool)
    /\ generate.inv \in Seq(Pool) /\ generate.next \in 1..Len(generate.inv) + 1
    /\ generate.inv # <<>> => Valid(generate.inv) /\ Viable(generate.inv)
    /\ DOMAIN output = Names /\ DOMAIN running = Names
    /\ bird \in [Names -> SUBSET Names]
    /\ \A n \in Names : running[n] # None => output[n] # None
    /\ edits \in 0..MaxEdits /\ faults \in 0..MaxFaults

RolloutInit ==
    /\ inventory \in Starts
    /\ generate = Idle /\ generated = <<>>
    /\ output = [n \in Names |-> None] /\ bird = [n \in Names |-> {}]
    /\ running = [n \in Names |-> None]
    /\ edits = 0 /\ faults = 0

-----------------------------------------------------------------------------

Edit(new) ==
    /\ edits < MaxEdits /\ edits' = edits + 1
    /\ inventory' = new
    /\ UNCHANGED <<generate, generated, output, bird, running, faults>>

AddNode(n)    == /\ n.name \notin NamesOf(inventory)
                 /\ \E i \in 1..Len(inventory) + 1 : Edit(InsertAt(inventory, i, n))
RemoveNode(i) == Edit(RemoveAt(inventory, i))

\* Mutant: the references between nodes are not checked.
StartGenerateUnchecked ==
    /\ generate = Idle /\ inventory # generated
    /\ inventory # <<>> /\ Viable(inventory)
    /\ generate' = [inv |-> inventory, next |-> 1]
    /\ UNCHANGED <<inventory, generated, output, bird, running, edits, faults>>

\* `meshctl generate` loads and checks everything before it writes anything.
StartGenerate ==
    /\ generate = Idle /\ inventory # generated
    /\ Valid(inventory) /\ Viable(inventory)
    /\ generate' = [inv |-> inventory, next |-> 1]
    /\ UNCHANGED <<inventory, generated, output, bird, running, edits, faults>>

NextName == generate.inv[generate.next].name
Written  == [output EXCEPT ![NextName] = WGPeers(generate.inv, NextName)]

\* The directory of the next node; those of nodes that are gone stay.  Of a router's
\* files only full-setup.rsc, the last one, is imported.
WriteNode ==
    /\ generate # Idle /\ generate.next <= Len(generate.inv)
    /\ generate' = [generate EXCEPT !.next = @ + 1]
    /\ output' = Written
    /\ bird' = IF NextName \in Agents
               THEN [bird EXCEPT ![NextName] = DOMAIN Written[NextName]] ELSE bird
    /\ UNCHANGED <<inventory, generated, running, edits, faults>>

\* The run stops between wireguard.json and bird-meshctl.conf of an agent's node.
\* (A sync that comes between the two writes does what it does after such a run.)
WriteNodeStops ==
    /\ generate # Idle /\ generate.next <= Len(generate.inv) /\ NextName \in Agents
    /\ faults < MaxFaults /\ faults' = faults + 1
    /\ output' = Written
    /\ generate' = Idle /\ generated' = <<>>
    /\ UNCHANGED <<inventory, bird, running, edits>>

\* Mutant: the run ends before the last node.
EndGenerateEarly ==
    /\ generate # Idle /\ generate.next >= Len(generate.inv)
    /\ generated' = generate.inv
    /\ generate' = Idle
    /\ UNCHANGED <<inventory, output, bird, running, edits, faults>>

EndGenerate ==
    /\ generate # Idle /\ generate.next > Len(generate.inv)
    /\ generated' = generate.inv
    /\ generate' = Idle
    /\ UNCHANGED <<inventory, output, bird, running, edits, faults>>

\* A directory cannot be made or a file not written.
GenerateFails ==
    /\ generate # Idle /\ generate.next <= Len(generate.inv)
    /\ faults < MaxFaults /\ faults' = faults + 1
    /\ generate' = Idle /\ generated' = <<>>
    /\ UNCHANGED <<inventory, output, bird, running, edits>>

Interfaces(n) == IF running[n] = None THEN <<>> ELSE running[n]

\* An agent sets port and endpoint, prunes the interfaces of peers that are gone
\* and adds the address (`ip addr replace` leaves one with another peer alone).
\* BIRD runs OSPF on those its file names.
Applied(old, config, peers) ==
    [p \in DOMAIN config |->
        [listen   |-> config[p].listen,
         endpoint |-> config[p].endpoint,
         addrs    |-> {[self |-> config[p].self, peer |-> config[p].peer]}
                        \cup IF p \in DOMAIN old THEN old[p].addrs ELSE {},
         ospf     |-> p \in peers]]

Sync(n) ==
    /\ output[n] # None
    /\ running' = [running EXCEPT ![n] =
                      IF n \in Agents THEN Applied(Interfaces(n), output[n], bird[n])
                      ELSE Import(Interfaces(n), output[n])]
    /\ UNCHANGED <<inventory, generate, generated, output, bird, edits, faults>>

\* An import stops at a command that fails.
ImportStops(n) ==
    /\ n \notin Agents /\ output[n] # None
    /\ faults < MaxFaults /\ faults' = faults + 1
    /\ \E k \in 1..Length(output[n]) - 1 :
          running' = [running EXCEPT ![n] = ImportPart(Interfaces(n), output[n], k)]
    /\ UNCHANGED <<inventory, generate, generated, output, bird, edits>>

RolloutNext ==
    \/ \E n \in Pool : AddNode(n)
    \/ \E i \in DOMAIN inventory : RemoveNode(i)
    \/ StartGenerate \/ WriteNode \/ WriteNodeStops \/ EndGenerate \/ GenerateFails
    \/ \E n \in Names : Sync(n) \/ ImportStops(n)

RolloutSpec == RolloutInit /\ [][RolloutNext]_vars

\* The operator generates what he edited and a run goes on until it ends; config
\* syncs come round.  Fairness of all syncs together is that of each: one that
\* changes nothing is no step, and a node has something to take over only finitely
\* often after a run.
RolloutFairSpec ==
    /\ RolloutSpec
    /\ WF_vars(StartGenerate \/ WriteNode \/ EndGenerate)
    /\ WF_vars(\E n \in Names : Sync(n))

-----------------------------------------------------------------------------
(***************************************************************************)
(* Properties.                                                             *)
(***************************************************************************)
\* OSPF runs over the link at both ends.
Up(a, b) ==
    /\ running[a] # None /\ b \in DOMAIN running[a]
    /\ running[a][b].ospf /\ running[a][b].endpoint # NoPeer
Linked(a, b) == Up(a, b) /\ Up(b, a)

\* The packets a sends reach the interface b has for a, and each end has an
\* address that the other one knows.
Agree(a, b) ==
    /\ running[a][b].endpoint \in {0, running[b][a].listen}
    /\ \E x \in running[a][b].addrs, y \in running[b][a].addrs :
          x.self = y.peer /\ x.peer = y.self

Pinned == {n.name : n \in {x \in Pool : x.id # 0 /\ x.peerPort # 0}}

\* README "each needing a unique listen port": no agent runs two interfaces on one
\* port, whatever mix of fixed and assigned ports its inventory has.  (On a router
\* the interface of a peer that left keeps its port.)
PortsDistinct ==
    \A n \in Agents : running[n] # None =>
        \A p, q \in DOMAIN running[n] :
            running[n][p].listen = running[n][q].listen => p = q

\* No inventory gives a node the tunnel address of one of its peers, or two of its
\* peers the same.
AddressesDistinct ==
    \A n \in Names : output[n] # None =>
        \A p, q \in DOMAIN output[n] :
            /\ output[n][p].peer # output[n][p].self
            /\ output[n][p].peer = output[n][q].peer => p = q

\* README "To prevent port shifts when adding/removing nodes, set wg_peer_port"
\* and "Explicit IDs prevent address shifts": the ends of a link whose nodes set
\* both agree at any moment of a rollout, with nodes added and removed, runs that
\* stop half way, and the ends generations apart.
PinnedLinksAgree ==
    \A m, n \in Pinned : Linked(m, n) => Agree(m, n)

\* Whatever import stopped half way, OSPF runs only on interfaces that have a
\* WireGuard peer and an address.
RoutedLinksBuilt ==
    \A n \in Names : running[n] # None =>
        \A p \in DOMAIN running[n] : running[n][p].ospf =>
            running[n][p].endpoint # NoPeer /\ running[n][p].addrs # {}

\* README "If omitted, auto-assigned alphabetically": what is generated does not
\* depend on the order of the nodes in the file.
Alphabetical(inv) ==
    [r \in DOMAIN inv |-> NodeByName(inv, CHOOSE n \in NamesOf(inv) : Rank(n, NamesOf(inv)) = r)]

OrderIrrelevant ==
    generate.next > 1 =>
        LET n == generate.inv[generate.next - 1].name
        IN  output[n] = WGPeers(Alphabetical(generate.inv), n)

\* After the last edit every link of the last inventory that generate accepted
\* is up at both ends, no node runs OSPF with a node that is not its peer, and the
\* ends agree: between agents always, with a router if both nodes are pinned, for
\* an import does not change what the router has.
MeshAgrees ==
    <>[](LET links == Links(generated)
         IN  /\ \A l \in links :
                   /\ Linked(l[1], l[2])
                   /\ {l[1], l[2]} \subseteq Agents \/ {l[1], l[2]} \subseteq Pinned
                         => Agree(l[1], l[2]) /\ Agree(l[2], l[1])
             /\ \A n \in NamesOf(generated), p \in Names :
                   Up(n, p) => <<n, p>> \in links \/ <<p, n>> \in links)
=============================================================================
