------------------------------ MODULE WGApply ------------------------------
(***************************************************************************)
(* Applier.applyWireguard: the agent creates and configures the WireGuard  *)
(* interfaces of an inventory and deletes those it recorded earlier that   *)
(* the inventory no longer has.  A step is one ip or wg command, or one    *)
(* access to the state file; the operator and crashes come in between.     *)
(***************************************************************************)
EXTENDS Integers, Sequences, FiniteSets

CONSTANTS
    Names,        \* interface names
    Inventories,  \* sequences of [iface, key, unmanaged]: wgCfg.Peers
    None,         \* no inventory, no peer, no candidate
    Budget        \* bound: how often each event of WgEvent may happen

WgEvent == {"publish", "fault", "operator", "crash"}

Managed(inv)   == {inv[j].iface : j \in {x \in DOMAIN inv : ~inv[x].unmanaged}}
Unmanaged(inv) == {inv[j].iface : j \in {x \in DOMAIN inv : inv[x].unmanaged}}
KeysOf(inv)    == {inv[j].key : j \in DOMAIN inv}

ASSUME InventoriesAssumption ==
    \A inv \in Inventories :
        /\ inv \in Seq([iface : Names, key : KeysOf(inv), unmanaged : BOOLEAN])
        /\ \A j, k \in DOMAIN inv : inv[j].iface = inv[k].iface => j = k
ASSUME BudgetAssumption == Budget \in [WgEvent -> Nat]
ASSUME NoneAssumption == None \notin Names

VARIABLES
    kernel,     \* the interfaces that exist: name -> Interface
    recorded,   \* managed-ifaces.json; a missing or corrupt file counts as {}
    apply,      \* where applyWireguard is
    failCount,  \* the peers that failed in this round
    routed,     \* the inventory of the last round that went on to BIRD
    published,  \* the inventory the config sources serve
    served,     \* history: every inventory published so far
    left        \* what is left of Budget

vars == <<kernel, recorded, apply, failCount, routed, published, served, left>>

AllKeys == UNION {KeysOf(inv) : inv \in Inventories}

Interface == [wg : BOOLEAN, by : {"agent", "operator"}, key : BOOLEAN,
              peer : AllKeys \cup {None}, up : BOOLEAN]

Idle == [at |-> "idle", inv |-> <<>>, k |-> 1, stale |-> {}, victim |-> None]

WgTypeOK ==
    /\ DOMAIN kernel \subseteq Names
    /\ \A n \in DOMAIN kernel : kernel[n] \in Interface
    /\ recorded \subseteq Names
    /\ apply.at \in {"idle", "show", "add", "key", "peer", "up", "prune", "delete"}
    /\ apply.inv \in Inventories \cup {<<>>}
    /\ apply.k \in 1..Len(apply.inv) + 1
    /\ apply.stale \subseteq Names
    /\ apply.victim \in Names \cup {None}
    /\ apply.at = "delete" <=> apply.victim # None
    /\ apply.at \in {"show", "add", "key", "peer", "up"} => apply.k \in DOMAIN apply.inv
    /\ failCount \in 0..Len(apply.inv)
    /\ routed \in Inventories \cup {None}
    /\ published \in Inventories
    /\ served \subseteq Inventories
    /\ left \in [WgEvent -> Nat]

Spend(event) == left[event] > 0 /\ left' = [left EXCEPT ![event] = @ - 1]

-----------------------------------------------------------------------------
WgInit ==
    /\ kernel = <<>>
    /\ recorded = {}
    /\ apply = Idle /\ failCount = 0 /\ routed = None
    /\ published \in Inventories
    /\ served = {published}
    /\ left = Budget

Goto(pc) == apply' = [apply EXCEPT !.at = pc]

\* Mutants: nothing is ever stale; everything recorded earlier is rebuilt from scratch.
StaleNone(inv) == {}
StaleAll(inv) == recorded

\* The candidates for deletion once every peer has been visited.
Stale(inv) == recorded \ Managed(inv)

\* Mutant: an unmanaged peer is visited like the others.
VisitAll(inv, k) ==
    IF k > Len(inv)
      THEN [Idle EXCEPT !.at = "prune", !.inv = inv, !.k = Len(inv) + 1,
                        !.stale = Stale(inv)]
      ELSE [Idle EXCEPT !.at = "show", !.inv = inv, !.k = k]

\* The next peer from index k on that is not unmanaged, or the end of the loop.
Visit(inv, k) ==
    LET rest == {j \in k..Len(inv) : ~inv[j].unmanaged}
    IN  IF rest = {}
          THEN [Idle EXCEPT !.at = "prune", !.inv = inv, !.k = Len(inv) + 1,
                            !.stale = Stale(inv)]
          ELSE [Idle EXCEPT !.at = "show", !.inv = inv,
                            !.k = CHOOSE j \in rest : \A x \in rest : j <= x]

Iface == apply.inv[apply.k].iface
Exists(n) == n \in DOMAIN kernel

Start ==
    /\ apply.at = "idle"
    /\ apply' = Visit(published, 1)
    /\ UNCHANGED <<kernel, recorded, failCount, routed, published, served, left>>

\* The private key file cannot be read: the round ends before its first command.
StartFails ==
    /\ apply.at = "idle"
    /\ Spend("fault")
    /\ UNCHANGED <<kernel, recorded, apply, failCount, routed, published, served>>

NextPeer == apply' = Visit(apply.inv, apply.k + 1)

\* A command of ensureWGInterface failed: the peer counts as failed and the
\* loop goes on.
PeerFails ==
    /\ apply.at \in {"add", "key", "peer", "up"}
    /\ \/ Spend("fault")
       \/ /\ \/ apply.at = "add" /\ Exists(Iface)
             \/ apply.at # "add" /\ ~Exists(Iface)
             \/ apply.at \in {"key", "peer"} /\ Exists(Iface) /\ ~kernel[Iface].wg
          /\ UNCHANGED left
    /\ NextPeer /\ failCount' = failCount + 1
    /\ UNCHANGED <<kernel, recorded, routed, published, served>>

Created == [wg |-> TRUE, by |-> "agent", key |-> FALSE, peer |-> None, up |-> FALSE]

Put(n, i) == [x \in DOMAIN kernel \cup {n} |-> IF x = n THEN i ELSE kernel[x]]
Remove(n) == [x \in DOMAIN kernel \ {n} |-> kernel[x]]

\* Mutant: an interface that exists is taken to be configured.
SkipExisting ==
    /\ apply.at = "show" /\ Exists(Iface)
    /\ NextPeer
    /\ UNCHANGED <<kernel, recorded, failCount, routed, published, served, left>>

\* `ip link show`, and `ip link add` when it failed, for whatever reason.
ShowExisting ==
    /\ apply.at = "show" /\ Exists(Iface)
    /\ Goto("peer")
    /\ UNCHANGED <<kernel, recorded, failCount, routed, published, served, left>>

ShowFails ==
    /\ apply.at = "show"
    /\ \/ ~Exists(Iface) /\ UNCHANGED left
       \/ Spend("fault")
    /\ Goto("add")
    /\ UNCHANGED <<kernel, recorded, failCount, routed, published, served>>

\* Mutant: the private key is left to a later round.
LinkAddOnly ==
    /\ apply.at = "add" /\ ~Exists(Iface)
    /\ kernel' = Put(Iface, Created)
    /\ Goto("peer")
    /\ UNCHANGED <<recorded, failCount, routed, published, served, left>>

LinkAdd ==
    /\ apply.at = "add" /\ ~Exists(Iface)
    /\ kernel' = Put(Iface, Created)
    /\ Goto("key")
    /\ UNCHANGED <<recorded, failCount, routed, published, served, left>>

\* Only on the path that created the interface.
SetPrivateKey ==
    /\ apply.at = "key" /\ Exists(Iface) /\ kernel[Iface].wg
    /\ kernel' = [kernel EXCEPT ![Iface].key = TRUE]
    /\ Goto("peer")
    /\ UNCHANGED <<recorded, failCount, routed, published, served, left>>

\* `wg set peer`: the key set last carries the allowed IPs.
SetPeer ==
    /\ apply.at = "peer" /\ Exists(Iface) /\ kernel[Iface].wg
    /\ kernel' = [kernel EXCEPT ![Iface].peer = apply.inv[apply.k].key]
    /\ Goto("up")
    /\ UNCHANGED <<recorded, failCount, routed, published, served, left>>

\* Addresses (whose errors are only logged) and `ip link set up`.
LinkUp ==
    /\ apply.at = "up" /\ Exists(Iface)
    /\ kernel' = [kernel EXCEPT ![Iface].up = TRUE]
    /\ NextPeer
    /\ UNCHANGED <<recorded, failCount, routed, published, served, left>>

Candidate(n) == apply.at = "prune" /\ n \in apply.stale

\* `wg show` fails: gone, or no WireGuard interface any more.
KeepStale(n) ==
    /\ Candidate(n)
    /\ ~(Exists(n) /\ kernel[n].wg)
    /\ apply' = [apply EXCEPT !.stale = @ \ {n}]
    /\ UNCHANGED <<kernel, recorded, failCount, routed, published, served, left>>

CheckStale(n) ==
    /\ Candidate(n)
    /\ Exists(n) /\ kernel[n].wg
    /\ apply' = [apply EXCEPT !.at = "delete", !.victim = n]
    /\ UNCHANGED <<kernel, recorded, failCount, routed, published, served, left>>

Pruned == apply' = [apply EXCEPT !.at = "prune", !.stale = @ \ {apply.victim},
                                 !.victim = None]

LinkDel ==
    /\ apply.at = "delete"
    /\ kernel' = Remove(apply.victim)
    /\ Pruned
    /\ UNCHANGED <<recorded, failCount, routed, published, served, left>>

LinkDelFails ==
    /\ apply.at = "delete"
    /\ Spend("fault")
    /\ Pruned
    /\ UNCHANGED <<kernel, recorded, failCount, routed, published, served>>

\* Mutant: one peer that fails holds up the rest.
AnyFailed == failCount > 0

\* The peers that failed are as many as the inventory has, unmanaged ones included.
AllFailed == failCount > 0 /\ failCount = Len(apply.inv)

\* Apply goes on to BIRD unless all peers failed.
EndRound ==
    /\ routed' = IF AllFailed THEN routed ELSE apply.inv
    /\ apply' = Idle /\ failCount' = 0

\* writeManagedIfaces; a failing write leaves the old file.
Record ==
    /\ apply.at = "prune" /\ apply.stale = {}
    /\ recorded' = Managed(apply.inv)
    /\ EndRound
    /\ UNCHANGED <<kernel, published, served, left>>

RecordFails ==
    /\ apply.at = "prune" /\ apply.stale = {}
    /\ Spend("fault")
    /\ EndRound
    /\ UNCHANGED <<kernel, recorded, published, served>>

ApplyStep ==
    \/ Start \/ StartFails \/ PeerFails \/ ShowExisting \/ ShowFails \/ LinkAdd \/ SetPrivateKey \/ SetPeer
    \/ LinkUp \/ LinkDel \/ LinkDelFails \/ Record \/ RecordFails
    \/ \E n \in Names : KeepStale(n) \/ CheckStale(n)

-----------------------------------------------------------------------------
Publish(inv) ==
    /\ inv # published
    /\ Spend("publish")
    /\ published' = inv
    /\ served' = served \cup {inv}
    /\ UNCHANGED <<kernel, recorded, apply, failCount, routed>>

\* The agent dies between two commands and starts again.
Crash ==
    /\ apply.at # "idle"
    /\ Spend("crash")
    /\ apply' = Idle /\ failCount' = 0
    /\ UNCHANGED <<kernel, recorded, routed, published, served>>

\* managed-ifaces.json is lost or corrupted: it reads as empty.
StateLost ==
    /\ Spend("crash")
    /\ recorded' = {}
    /\ UNCHANGED <<kernel, apply, failCount, routed, published, served>>

\* The operator's own interface: WireGuard or of another kind.
OperatorAdds(n) ==
    /\ ~Exists(n)
    /\ Spend("operator")
    /\ \E wg \in BOOLEAN :
          kernel' = Put(n, [wg |-> wg, by |-> "operator", key |-> wg,
                            peer |-> None, up |-> TRUE])
    /\ UNCHANGED <<recorded, apply, failCount, routed, published, served>>

OperatorRemoves(n) ==
    /\ Exists(n)
    /\ Spend("operator")
    /\ kernel' = Remove(n)
    /\ UNCHANGED <<recorded, apply, failCount, routed, published, served>>

WgNext ==
    \/ ApplyStep
    \/ \E inv \in Inventories : Publish(inv)
    \/ Crash \/ StateLost
    \/ \E n \in Names : OperatorAdds(n) \/ OperatorRemoves(n)

WgSpec == WgInit /\ [][WgNext]_vars

\* configSyncLoop calls Apply on every tick, and every command it runs ends.
WgFairSpec == WgSpec /\ WF_vars(ApplyStep)

-----------------------------------------------------------------------------
(***************************************************************************)
(* Properties.  A step of the agent is one that moves apply.               *)
(***************************************************************************)
ServedManaged == UNION {Managed(inv) : inv \in served}

SameAt(n) ==
    /\ n \in DOMAIN kernel <=> n \in DOMAIN kernel'
    /\ n \in DOMAIN kernel => kernel'[n] = kernel[n]

\* An interface that no inventory ever gave the agent to manage, be it the
\* operator's own or a wg_unmanaged peer's, is neither configured nor deleted,
\* with failing commands, crashes and a lost state file (apply_prune_test "the
\* agent never deletes an interface it has not previously recorded as its own").
ForeignUntouched ==
    [][apply' # apply => \A n \in Names \ ServedManaged : SameAt(n)]_vars

\* An interface of the inventory being applied is not deleted by the round
\* that configures it, whatever an earlier round recorded.
WantedKept ==
    [][apply' # apply =>
         \A n \in Managed(apply.inv) : n \in DOMAIN kernel => n \in DOMAIN kernel']_vars

\* After failures, crashes and an operator's removals, the rounds that follow
\* bring every managed interface up with its peer's key, unless an interface
\* of another kind holds the name (ensureWGInterface repeats all but the
\* private key on an existing interface).
InterfacesHeal ==
    <>[](\A j \in DOMAIN published :
           LET n == published[j].iface
           IN  ~published[j].unmanaged =>
                 /\ n \in DOMAIN kernel
                 /\ kernel[n].wg => kernel[n].up /\ kernel[n].peer = published[j].key)

\* BIRD gets the published inventory although some peers fail in every round, as
\* long as there is a peer whose interface the agent can configure, or is not to.
BirdFollows ==
    <>[]((\E j \in DOMAIN published :
             LET n == published[j].iface
             IN  published[j].unmanaged \/ (n \in DOMAIN kernel /\ kernel[n].wg))
         => routed = published)

Undisturbed(events) == \A e \in events : left[e] = Budget[e]

\* When publishing stops the node has the managed interfaces of the inventory
\* and none of earlier ones ("Reconcile: remove WG interfaces this agent
\* previously managed that are no longer in the config"), apart from those the
\* inventory calls unmanaged, which are the operator's; if no command failed and
\* the agent never died: one failed deletion is never repeated.
PruneComplete ==
    []Undisturbed({"fault", "crash", "operator"}) =>
        <>[](DOMAIN kernel \ Unmanaged(published) = Managed(published))

\* "Apply the local private key on interface creation": an interface of the
\* agent that carries traffic has the node's private key, if no command failed
\* and the agent never died: a key that was not set then is never set.
KeyReady ==
    Undisturbed({"fault", "crash"}) =>
        \A n \in DOMAIN kernel :
            kernel[n].by = "agent" /\ kernel[n].up => kernel[n].key

\* applyWireguard on an unmanaged peer: "never touches the WG layer or prunes
\* it": no round deletes an interface its inventory calls unmanaged.
UnmanagedSpared ==
    [][apply' # apply =>
         \A n \in Unmanaged(apply.inv) :
             n \in DOMAIN kernel => n \in DOMAIN kernel']_vars
=============================================================================
