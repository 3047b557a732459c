--------------------------- MODULE RouterOSImport ---------------------------
(***************************************************************************)
(* What `/import full-setup.rsc` does to a router.  The script adds        *)
(* interfaces, WireGuard peers and addresses that a find does not show,    *)
(* and changes none that exists; only the OSPF interface-templates are     *)
(* removed and added again.  A script that fails stops where it is.        *)
(*                                                                         *)
(* The router is a function from the peers it has an interface for to      *)
(* [listen, endpoint, addrs, ospf]; a script is what the generator knows   *)
(* of each peer (MeshPlan!WGPeers).  Keys do not change, so the peer found *)
(* by its key is the interface's; ospf is the OSPFv2 template, which needs *)
(* the tunnel address (OSPFv3 runs on the link-local one); the commands    *)
(* for the OSPF instances and areas concern no peer.                       *)
(***************************************************************************)
EXTENDS Integers, FiniteSets

CONSTANT NoPeer   \* the interface has no WireGuard peer yet

ASSUME NoPeerAssumption == NoPeer \notin Int

Bare(listen) == [listen |-> listen, endpoint |-> NoPeer, addrs |-> {}, ospf |-> FALSE]

\* The find for an address is a pattern, which for addresses of one length is
\* equality.
Addressed(addrs, s) ==
    IF \E a \in addrs : a.self = s.self THEN addrs
    ELSE addrs \cup {[self |-> s.self, peer |-> s.peer]}

\* GenerateFull: the commands before the OSPF section, for n peers.
OSPFAfter(n) == 2 * n

\* Mutant: a link's template is added before its address.
TemplateFirst(n, place) ==
    [template |-> OSPFAfter(n) + 2 * place, address |-> OSPFAfter(n) + 2 * place + 1]

\* GenerateOSPF, the place-th link: behind the command that removes the templates.
LinkCommands(n, place) ==
    [address |-> OSPFAfter(n) + 2 * place, template |-> OSPFAfter(n) + 2 * place + 1]

\* GenerateWireguard adds all interfaces, then all peers; GenerateOSPF removes the
\* templates, then adds address and template of one link after the other, each in
\* the order of the peers.
Length(script) == 4 * Cardinality(DOMAIN script) + 1

\* The first k commands of the script.
ImportPart(router, script, k) ==
    LET n == Cardinality(DOMAIN script)
        Place(p)    == Cardinality({q \in DOMAIN script : q <= p})
        Done(p, at) == p \in DOMAIN script /\ k >= at
        Row(p) == IF p \in DOMAIN router THEN router[p] ELSE Bare(script[p].listen)
    IN  [p \in DOMAIN router \cup {q \in DOMAIN script : Done(q, Place(q))} |->
            [listen   |-> Row(p).listen,
             endpoint |-> IF Row(p).endpoint = NoPeer /\ Done(p, n + Place(p))
                          THEN script[p].endpoint ELSE Row(p).endpoint,
             addrs    |-> IF Done(p, LinkCommands(n, Place(p)).address)
                          THEN Addressed(Row(p).addrs, script[p]) ELSE Row(p).addrs,
             ospf     |-> IF k > OSPFAfter(n)
                          THEN Done(p, LinkCommands(n, Place(p)).template) ELSE Row(p).ospf]]

Import(router, script) == ImportPart(router, script, Length(script))
=============================================================================
