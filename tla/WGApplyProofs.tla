--------------------------- MODULE WGApplyProofs ---------------------------
(***************************************************************************)
(* Proofs about WGApply, for every set of names, inventories and budgets.  *)
(*                                                                         *)
(* The argument.  A command of the agent names either the peer at the loop *)
(* index or the candidate for deletion.  The first is a managed peer of    *)
(* the inventory being applied (VisitIsOwn), the second comes from the     *)
(* state file; so the invariant OwnInv says that the state file, what was  *)
(* read from it, and the inventory being applied only hold names some      *)
(* published inventory gave the agent to manage.                           *)
(***************************************************************************)
EXTENDS WGApply, WellFoundedInduction, TLAPS

Applying == {"show", "add", "key", "peer", "up"}
Pcs == Applying \cup {"idle", "prune", "delete"}

ApplyState == [at : Pcs, inv : Inventories \cup {<<>>}, k : Nat,
               stale : SUBSET Names, victim : Names \cup {None}]

\* Every name apply may still hand to a command is one of S.
OnlyNames(a, S) ==
    /\ a.at \in Applying => a.k \in DOMAIN a.inv /\ ~a.inv[a.k].unmanaged
    /\ Managed(a.inv) \subseteq S
    /\ a.stale \subseteq S
    /\ a.at = "delete" => a.victim \in S

OwnInv ==
    /\ published \in served /\ served \subseteq Inventories
    /\ apply \in ApplyState
    /\ recorded \subseteq ServedManaged
    /\ OnlyNames(apply, ServedManaged)

-----------------------------------------------------------------------------
(***************************************************************************)
(* Facts about the operators.                                              *)
(***************************************************************************)

\* A non-empty set of natural numbers has a least element: Visit's CHOOSE is
\* the loop's next managed peer.
LEMMA LeastExists ==
    ASSUME NEW S \in SUBSET Nat, S # {}
    PROVE  \E j \in S : \A x \in S : j <= x
<1>1. PICK j \in S : \A x \in S : ~(<<x, j>> \in OpToRel(<, Nat))
  BY WFMin, NatLessThanWellFounded
<1>2. \A x \in S : ~(x < j)
  BY <1>1 DEF OpToRel
<1> QED BY <1>2

\* The names an inventory manages are names of interfaces.
LEMMA ManagedNames ==
    ASSUME NEW inv \in Inventories \cup {<<>>}
    PROVE  Managed(inv) \subseteq Names
<1>1. CASE inv = <<>>
  BY <1>1 DEF Managed
<1>2. CASE inv \in Inventories
  <2>1. inv \in Seq([iface : Names, key : KeysOf(inv), unmanaged : BOOLEAN])
    BY <1>2, InventoriesAssumption
  <2> DEFINE R == [iface : Names, key : KeysOf(inv), unmanaged : BOOLEAN]
  <2>2. \A j \in DOMAIN inv : inv[j] \in R
    <3> HIDE DEF R
    <3>1. inv \in Seq(R)
      BY <2>1 DEF R
    <3> QED BY <3>1
  <2>3. \A j \in DOMAIN inv : inv[j].iface \in Names
    BY <2>2
  <2> QED BY <2>3 DEF Managed
<1> QED BY <1>1, <1>2

\* The peer at the loop index has a managed name.
LEMMA IfaceManaged ==
    ASSUME NEW inv, NEW k \in DOMAIN inv, ~inv[k].unmanaged
    PROVE  inv[k].iface \in Managed(inv)
BY DEF Managed

\* Wherever the loop goes next, it stays with the inventory's managed peers, and
\* the candidates for deletion are the recorded names.
LEMMA VisitIsOwn ==
    ASSUME NEW inv \in Inventories \cup {<<>>}, NEW k \in Nat \ {0},
           NEW S, Managed(inv) \subseteq S, recorded \subseteq S, recorded \subseteq Names
    PROVE  /\ Visit(inv, k) \in ApplyState
           /\ OnlyNames(Visit(inv, k), S)
           /\ Visit(inv, k).inv = inv
<1> DEFINE rest == {j \in k..Len(inv) : ~inv[j].unmanaged}
<1>1. Len(inv) \in Nat /\ DOMAIN inv = 1..Len(inv)
  <2>1. CASE inv = <<>>
    BY <2>1
  <2>2. CASE inv \in Inventories
    BY <2>2, InventoriesAssumption
  <2> QED BY <2>1, <2>2
<1>2. CASE rest = {}
  <2>1. Visit(inv, k) = [at |-> "prune", inv |-> inv, k |-> Len(inv) + 1,
                         stale |-> Stale(inv), victim |-> None]
    BY <1>2 DEF Visit, Idle
  <2>2. Stale(inv) \subseteq S /\ Stale(inv) \subseteq Names
    BY DEF Stale
  <2> QED BY <1>1, <2>1, <2>2 DEF ApplyState, Pcs, Applying, OnlyNames
<1>3. CASE rest # {}
  <2> DEFINE m == CHOOSE j \in rest : \A x \in rest : j <= x
  <2>1. rest \subseteq Nat
    BY <1>1
  <2>2. \E j \in rest : \A x \in rest : j <= x
    BY <1>3, <2>1, LeastExists
  <2>3. m \in rest
    BY <2>2
  <2>4. m \in DOMAIN inv /\ ~inv[m].unmanaged /\ m \in Nat
    BY <1>1, <2>3
  <2>5. Visit(inv, k) = [at |-> "show", inv |-> inv, k |-> m,
                         stale |-> {}, victim |-> None]
    BY <1>3 DEF Visit, Idle
  <2> HIDE DEF m
  <2> QED BY <2>4, <2>5 DEF ApplyState, Pcs, Applying, OnlyNames
<1> QED BY <1>2, <1>3

\* A larger set of names keeps what a smaller one has.
LEMMA OnlyNamesMonotone ==
    ASSUME NEW a, NEW S, NEW T, S \subseteq T, OnlyNames(a, S)
    PROVE  OnlyNames(a, T)
BY DEF OnlyNames

\* An idle apply hands no name to any command.
LEMMA IdleIsOwn == ASSUME NEW S PROVE Idle \in ApplyState /\ OnlyNames(Idle, S)
BY DEF Idle, ApplyState, Pcs, Applying, OnlyNames, Managed

\* The name a command of the loop is given is a name of S.
LEMMA CommandName ==
    ASSUME NEW S, OnlyNames(apply, S), apply.at \in Applying
    PROVE  Iface \in S
BY IfaceManaged DEF OnlyNames, Iface

\* Moving on to a pc of the same peer changes neither the peer nor the names.
LEMMA GotoIsOwn ==
    ASSUME NEW S, apply \in ApplyState, OnlyNames(apply, S), apply.at \in Applying,
           NEW pc \in Applying, Goto(pc)
    PROVE  apply' \in ApplyState /\ OnlyNames(apply', S)
BY DEF Goto, ApplyState, OnlyNames, Pcs, Applying

-----------------------------------------------------------------------------
(***************************************************************************)
(* OwnInv is inductive, and a step that moves apply disturbs only names of *)
(* ServedManaged.                                                          *)
(***************************************************************************)
LEMMA InitOwn == WgInit => OwnInv
<1> SUFFICES ASSUME WgInit PROVE OwnInv
  OBVIOUS
<1>1. published \in served /\ served \subseteq Inventories
  BY DEF WgInit
<1>2. apply \in ApplyState /\ OnlyNames(apply, ServedManaged)
  BY IdleIsOwn DEF WgInit
<1>3. recorded \subseteq ServedManaged
  BY DEF WgInit
<1> QED BY <1>1, <1>2, <1>3 DEF OwnInv

\* What was published stays published.
LEMMA ServedGrows ==
    ASSUME served \subseteq served'
    PROVE  ServedManaged \subseteq ServedManaged'
BY DEF ServedManaged

\* Names an inventory that was published manages.
LEMMA ServedNames ==
    ASSUME served \subseteq Inventories
    PROVE  /\ ServedManaged \subseteq Names
           /\ \A inv \in served : Managed(inv) \subseteq ServedManaged
BY ManagedNames DEF ServedManaged

\* A round of applyWireguard, command by command.
LEMMA StepOwn ==
    ASSUME OwnInv, ApplyStep
    PROVE  /\ OwnInv'
           /\ \A n \in Names \ ServedManaged : SameAt(n)
<1> DEFINE S == ServedManaged
<1>1. /\ published \in served /\ served \subseteq Inventories
      /\ apply \in ApplyState /\ recorded \subseteq S /\ OnlyNames(apply, S)
  BY DEF OwnInv
<1>2. S \subseteq Names /\ Managed(published) \subseteq S
  BY <1>1, ServedNames
<1>3. published' = published /\ served' = served
  BY DEF ApplyStep, Start, StartFails, PeerFails, ShowExisting, ShowFails, LinkAdd,
         SetPrivateKey, SetPeer, LinkUp,
         KeepStale, CheckStale, LinkDel, LinkDelFails, Record, RecordFails
<1>4. S' = S
  BY <1>3 DEF ServedManaged
<1> HIDE DEF S
<1>5. SUFFICES /\ apply' \in ApplyState /\ OnlyNames(apply', S)
               /\ recorded' \subseteq S
               /\ \A n \in Names \ S : SameAt(n)
  BY <1>1, <1>3, <1>4 DEF OwnInv, S
<1>6. \A n \in Names : kernel' = kernel => SameAt(n)
  BY DEF SameAt
<1>7. apply.inv \in Inventories \cup {<<>>} /\ apply.k \in Nat /\ Managed(apply.inv) \subseteq S
  BY <1>1 DEF ApplyState, OnlyNames
<1>8. ASSUME NextPeer PROVE apply' \in ApplyState /\ OnlyNames(apply', S)
  <2>1. apply.k + 1 \in Nat \ {0} /\ recorded \subseteq Names
    BY <1>1, <1>2, <1>7
  <2> QED BY <1>1, <1>7, <1>8, <2>1, VisitIsOwn DEF NextPeer
<1>9. CASE Start
  <2>1. recorded \subseteq Names /\ published \in Inventories \cup {<<>>} /\ 1 \in Nat \ {0}
    BY <1>1, <1>2
  <2>2. apply' \in ApplyState /\ OnlyNames(apply', S)
    BY <1>1, <1>2, <1>9, <2>1, VisitIsOwn DEF Start
  <2> QED BY <1>1, <1>6, <1>9, <2>2 DEF Start
<1>10. CASE PeerFails
  BY <1>1, <1>6, <1>8, <1>10 DEF PeerFails
<1>11. CASE ShowExisting \/ ShowFails
  <2>1. apply' \in ApplyState /\ OnlyNames(apply', S)
    BY <1>1, <1>11, GotoIsOwn DEF ShowExisting, ShowFails, Applying
  <2> QED BY <1>1, <1>6, <1>11, <2>1 DEF ShowExisting, ShowFails
<1>12. CASE LinkAdd
  <2>1. apply' \in ApplyState /\ OnlyNames(apply', S)
    BY <1>1, <1>12, GotoIsOwn DEF LinkAdd, Applying
  <2>2. Iface \in S
    BY <1>1, <1>12, CommandName DEF LinkAdd, Applying
  <2>3. \A n \in Names \ S : SameAt(n)
    BY <1>12, <2>2 DEF LinkAdd, Put, SameAt
  <2> QED BY <1>1, <1>12, <2>1, <2>3 DEF LinkAdd
<1>13. CASE SetPrivateKey
  <2>1. apply' \in ApplyState /\ OnlyNames(apply', S)
    BY <1>1, <1>13, GotoIsOwn DEF SetPrivateKey, Applying
  <2>2. Iface \in S
    BY <1>1, <1>13, CommandName DEF SetPrivateKey, Applying
  <2>3. \A n \in Names \ S : SameAt(n)
    BY <1>13, <2>2 DEF SetPrivateKey, SameAt
  <2> QED BY <1>1, <1>13, <2>1, <2>3 DEF SetPrivateKey
<1>14. CASE SetPeer
  <2>1. apply' \in ApplyState /\ OnlyNames(apply', S)
    BY <1>1, <1>14, GotoIsOwn DEF SetPeer, Applying
  <2>2. Iface \in S
    BY <1>1, <1>14, CommandName DEF SetPeer, Applying
  <2>3. \A n \in Names \ S : SameAt(n)
    BY <1>14, <2>2 DEF SetPeer, SameAt
  <2> QED BY <1>1, <1>14, <2>1, <2>3 DEF SetPeer
<1>15. CASE LinkUp
  <2>1. apply' \in ApplyState /\ OnlyNames(apply', S)
    BY <1>8, <1>15 DEF LinkUp
  <2>2. Iface \in S
    BY <1>1, <1>15, CommandName DEF LinkUp, Applying
  <2>3. \A n \in Names \ S : SameAt(n)
    BY <1>15, <2>2 DEF LinkUp, SameAt
  <2> QED BY <1>1, <1>15, <2>1, <2>3 DEF LinkUp
<1>16. ASSUME NEW n \in Names, KeepStale(n) \/ CheckStale(n)
       PROVE  apply' \in ApplyState /\ OnlyNames(apply', S)
              /\ recorded' = recorded /\ kernel' = kernel
  <2>1. CASE KeepStale(n)
    BY <1>1, <2>1 DEF KeepStale, Candidate, ApplyState, OnlyNames, Pcs, Applying
  <2>2. CASE CheckStale(n)
    BY <1>1, <2>2 DEF CheckStale, Candidate, ApplyState, OnlyNames, Pcs, Applying
  <2> QED BY <1>16, <2>1, <2>2
<1>17. CASE \E n \in Names : KeepStale(n) \/ CheckStale(n)
  BY <1>1, <1>6, <1>16, <1>17
<1>18. ASSUME Pruned PROVE apply' \in ApplyState /\ OnlyNames(apply', S)
  BY <1>1, <1>18 DEF Pruned, ApplyState, OnlyNames, Pcs, Applying
<1>19. CASE LinkDel
  <2>1. apply.victim \in S
    BY <1>1, <1>19 DEF LinkDel, OnlyNames
  <2>2. \A n \in Names \ S : SameAt(n)
    BY <1>19, <2>1 DEF LinkDel, Remove, SameAt
  <2> QED BY <1>1, <1>18, <1>19, <2>2 DEF LinkDel
<1>20. CASE LinkDelFails
  BY <1>1, <1>6, <1>18, <1>20 DEF LinkDelFails
<1>21. CASE Record
  BY <1>1, <1>6, <1>7, <1>21, IdleIsOwn DEF Record, EndRound
<1>22. CASE RecordFails
  BY <1>1, <1>6, <1>22, IdleIsOwn DEF RecordFails, EndRound
<1>23. CASE StartFails
  BY <1>1, <1>6, <1>23 DEF StartFails
<1> QED
  BY <1>9, <1>10, <1>11, <1>12, <1>13, <1>14, <1>15, <1>17, <1>19, <1>20, <1>21, <1>22,
     <1>23
     DEF ApplyStep

\* The steps of the environment leave apply where it is, or set it to Idle.
LEMMA EnvironmentOwn ==
    ASSUME OwnInv, WgNext, ~ApplyStep
    PROVE  /\ OwnInv'
           /\ apply' # apply => kernel' = kernel
<1>1. /\ published \in served /\ served \subseteq Inventories
      /\ apply \in ApplyState /\ recorded \subseteq ServedManaged
      /\ OnlyNames(apply, ServedManaged)
  BY DEF OwnInv
<1>2. CASE \E inv \in Inventories : Publish(inv)
  <2>1. PICK inv \in Inventories : Publish(inv)
    BY <1>2
  <2>2. served \subseteq served' /\ apply' = apply /\ recorded' = recorded
    BY <2>1 DEF Publish
  <2>3. ServedManaged \subseteq ServedManaged'
    BY <2>2, ServedGrows
  <2>4. OnlyNames(apply', ServedManaged')
    BY <1>1, <2>2, <2>3, OnlyNamesMonotone
  <2>5. published' \in served' /\ served' \subseteq Inventories
    BY <1>1, <2>1 DEF Publish
  <2> QED BY <1>1, <2>2, <2>3, <2>4, <2>5 DEF OwnInv
<1>3. CASE Crash
  <2>1. ServedManaged' = ServedManaged
    BY <1>3 DEF Crash, ServedManaged
  <2>2. apply' \in ApplyState /\ OnlyNames(apply', ServedManaged)
    BY <1>3, IdleIsOwn DEF Crash
  <2> QED BY <1>1, <1>3, <2>1, <2>2 DEF Crash, OwnInv
<1>4. CASE StateLost
  BY <1>1, <1>4 DEF StateLost, OwnInv, ServedManaged
<1>5. CASE \E n \in Names : OperatorAdds(n) \/ OperatorRemoves(n)
  BY <1>1, <1>5 DEF OperatorAdds, OperatorRemoves, OwnInv, ServedManaged
<1> QED BY <1>2, <1>3, <1>4, <1>5 DEF WgNext

LEMMA NextOwn == ASSUME OwnInv, [WgNext]_vars PROVE OwnInv'
<1>1. CASE UNCHANGED vars
  BY <1>1 DEF vars, OwnInv, ServedManaged
<1> QED BY <1>1, StepOwn, EnvironmentOwn

-----------------------------------------------------------------------------
\* managed-ifaces.json, and with it every candidate for deletion, only ever
\* holds names that some published inventory gave the agent to manage.
THEOREM RecordedNamesServed == WgSpec => [](recorded \subseteq ServedManaged)
<1>1. OwnInv => recorded \subseteq ServedManaged
  BY DEF OwnInv
<1> QED BY InitOwn, NextOwn, <1>1, PTL DEF WgSpec

\* applyWireguard and pruneStaleInterfaces never change an interface that no
\* inventory gave them, whatever fails, crashes, is lost or is published.
THEOREM ForeignNeverTouched == WgSpec => ForeignUntouched
<1>1. ASSUME OwnInv, [WgNext]_vars
      PROVE  [apply' # apply => \A n \in Names \ ServedManaged : SameAt(n)]_vars
  <2>1. CASE ApplyStep
    BY <1>1, <2>1, StepOwn
  <2>2. CASE WgNext /\ ~ApplyStep
    <3>1. apply' # apply => kernel' = kernel
      BY <1>1, <2>2, EnvironmentOwn
    <3> QED BY <3>1 DEF SameAt
  <2> QED BY <1>1, <2>1, <2>2
<1> QED BY InitOwn, NextOwn, <1>1, PTL DEF WgSpec, ForeignUntouched
-----------------------------------------------------------------------------
(***************************************************************************)
(* Types, and what a round knows about itself: the candidates for deletion *)
(* are none of the names it manages, and each failure it counted belongs   *)
(* to a peer before the loop index.                                        *)
(***************************************************************************)
Shape(a, fails) ==
    /\ a \in ApplyState /\ (a.at # "idle" => a.inv \in Inventories)
    /\ a.k \in 1..Len(a.inv) + 1
    /\ a.at = "delete" <=> a.victim # None
    /\ a.at \in Applying => a.k \in DOMAIN a.inv /\ fails < a.k
    /\ fails \in 0..Len(a.inv) /\ (a.at = "idle" => fails = 0)
    /\ a.stale \cap Managed(a.inv) = {}
    /\ a.at = "delete" => a.victim \notin Managed(a.inv)

KernelOK ==
    /\ DOMAIN kernel \subseteq Names
    /\ \A n \in DOMAIN kernel : kernel[n] \in Interface

BudgetOK ==
    /\ left \in [WgEvent -> Nat]
    /\ \A e \in WgEvent : left[e] <= Budget[e]

WgInv ==
    /\ OwnInv
    /\ Shape(apply, failCount)
    /\ KernelOK
    /\ routed \in Inventories \cup {None}
    /\ BudgetOK
\* What the inventories are made of.
LEMMA InventoryFacts ==
    ASSUME NEW inv \in Inventories \cup {<<>>}
    PROVE  /\ Len(inv) \in Nat /\ DOMAIN inv = 1..Len(inv)
           /\ \A j \in DOMAIN inv : inv[j].iface \in Names /\ inv[j].key \in KeysOf(inv)
<1>1. CASE inv = <<>>
  BY <1>1
<1>2. CASE inv \in Inventories
  <2> DEFINE R == [iface : Names, key : KeysOf(inv), unmanaged : BOOLEAN]
  <2>1. inv \in Seq(R)
    BY <1>2, InventoriesAssumption
  <2>2. Len(inv) \in Nat /\ DOMAIN inv = 1..Len(inv) /\ \A j \in DOMAIN inv : inv[j] \in R
    <3> HIDE DEF R
    <3> QED BY <2>1
  <2> QED BY <2>2
<1> QED BY <1>1, <1>2

\* Wherever the loop goes next, with fewer failures than the index it starts from.
LEMMA VisitShape ==
    ASSUME NEW inv \in Inventories, NEW k \in 1..Len(inv) + 1,
           NEW fails \in Nat, fails < k, recorded \subseteq Names
    PROVE  Shape(Visit(inv, k), fails)
<1> DEFINE rest == {j \in k..Len(inv) : ~inv[j].unmanaged}
<1>1. Len(inv) \in Nat /\ DOMAIN inv = 1..Len(inv) /\ k \in Nat \ {0}
  BY InventoryFacts
<1>2. fails \in 0..Len(inv)
  BY <1>1
<1>3. Visit(inv, k) \in ApplyState
  <2>1. Managed(inv) \subseteq Managed(inv) \cup recorded /\ recorded \subseteq Managed(inv) \cup recorded
    OBVIOUS
  <2> QED BY <1>1, <2>1, VisitIsOwn
<1>4. CASE rest = {}
  <2>1. Visit(inv, k) = [at |-> "prune", inv |-> inv, k |-> Len(inv) + 1,
                         stale |-> Stale(inv), victim |-> None]
    BY <1>4 DEF Visit, Idle
  <2>2. Stale(inv) \cap Managed(inv) = {}
    BY DEF Stale
  <2> QED BY <1>1, <1>2, <1>3, <2>1, <2>2 DEF Shape, Applying
<1>5. CASE rest # {}
  <2> DEFINE m == CHOOSE j \in rest : \A x \in rest : j <= x
  <2>1. rest \subseteq Nat
    BY <1>1
  <2>2. \E j \in rest : \A x \in rest : j <= x
    BY <1>5, <2>1, LeastExists
  <2>3. m \in rest
    BY <2>2
  <2>4. Visit(inv, k) = [at |-> "show", inv |-> inv, k |-> m, stale |-> {}, victim |-> None]
    BY <1>5 DEF Visit, Idle
  <2>5. m \in 1..Len(inv) /\ fails < m
    BY <1>1, <2>3
  <2> HIDE DEF m
  <2> QED BY <1>1, <1>2, <1>3, <2>4, <2>5 DEF Shape, Applying
<1> QED BY <1>4, <1>5

\* A round that is over knows nothing.
LEMMA IdleShape == Shape(Idle, 0)
<1>1. Idle \in ApplyState
  BY IdleIsOwn
<1> QED BY <1>1 DEF Shape, Idle, Applying

\* Every step of a round keeps its shape.
LEMMA StepShape ==
    ASSUME OwnInv, Shape(apply, failCount), ApplyStep
    PROVE  Shape(apply', failCount')
<1>1. /\ recorded \subseteq Names /\ published \in Inventories
      /\ apply \in ApplyState /\ apply.inv \in Inventories \cup {<<>>}
  BY ServedNames DEF OwnInv, ApplyState
<1>2. Len(apply.inv) \in Nat /\ DOMAIN apply.inv = 1..Len(apply.inv)
  BY <1>1, InventoryFacts
<1>3. ASSUME NextPeer, apply.at \in Applying, failCount' \in {failCount, failCount + 1}
      PROVE  Shape(apply', failCount')
  <2>1. apply.k \in 1..Len(apply.inv) /\ failCount \in Nat /\ failCount < apply.k
    BY <1>2, <1>3 DEF Shape
  <2>2. apply.k + 1 \in 1..Len(apply.inv) + 1
    BY <1>2, <2>1
  <2>3. failCount' \in Nat /\ failCount' < apply.k + 1
    BY <1>3, <2>1
  <2>4. apply' = Visit(apply.inv, apply.k + 1) /\ apply.inv \in Inventories
    BY <1>3 DEF NextPeer, Shape, Applying
  <2> QED BY <1>1, <2>2, <2>3, <2>4, VisitShape
<1>4. ASSUME NEW pc \in Applying, Goto(pc), apply.at \in Applying, failCount' = failCount
      PROVE  Shape(apply', failCount')
  <2>1. apply' = [apply EXCEPT !.at = pc] /\ pc # "delete" /\ pc # "idle" /\ pc \in Pcs
    BY <1>4 DEF Goto, Applying, Pcs
  <2>2. apply' \in ApplyState /\ apply'.at = pc /\ apply'.inv = apply.inv /\ apply'.k = apply.k
        /\ apply'.stale = apply.stale /\ apply'.victim = apply.victim
    BY <1>1, <2>1 DEF ApplyState
  <2>3. apply.victim = None /\ apply.inv \in Inventories
    BY <1>4 DEF Shape, Applying
  <2> QED BY <1>4, <2>1, <2>2, <2>3 DEF Shape
<1>5. CASE Start
  <2>1. failCount' = 0 /\ apply' = Visit(published, 1)
    BY <1>5 DEF Start, Shape
  <2>2. 1 \in 1..Len(published) + 1
    BY <1>1, InventoryFacts
  <2> QED BY <1>1, <2>1, <2>2, VisitShape
<1>6. CASE PeerFails
  BY <1>3, <1>6 DEF PeerFails, Applying
<1>7. CASE ShowExisting \/ ShowFails
  BY <1>4, <1>7 DEF ShowExisting, ShowFails, Applying
<1>8. CASE LinkAdd
  BY <1>4, <1>8 DEF LinkAdd, Applying
<1>9. CASE SetPrivateKey
  BY <1>4, <1>9 DEF SetPrivateKey, Applying
<1>10. CASE SetPeer
  BY <1>4, <1>10 DEF SetPeer, Applying
<1>11. CASE LinkUp
  BY <1>3, <1>11 DEF LinkUp, Applying
<1>12. CASE Pruned /\ apply.at = "delete" /\ failCount' = failCount
  <2>1. apply' \in ApplyState /\ apply'.at = "prune" /\ apply'.inv = apply.inv /\ apply'.k = apply.k
        /\ apply'.stale = apply.stale \ {apply.victim} /\ apply'.victim = None
    BY <1>1, <1>12 DEF Pruned, ApplyState, Pcs, Applying
  <2> QED BY <1>12, <2>1 DEF Shape, Applying
<1>13. CASE LinkDel \/ LinkDelFails
  BY <1>12, <1>13 DEF LinkDel, LinkDelFails
<1>14. CASE Record \/ RecordFails
  BY <1>14, IdleShape DEF Record, RecordFails, EndRound
<1>15. ASSUME NEW n \in Names, KeepStale(n) PROVE Shape(apply', failCount')
  <2>1. apply' \in ApplyState /\ apply'.at = apply.at /\ apply'.inv = apply.inv /\ apply'.k = apply.k
        /\ apply'.stale = apply.stale \ {n} /\ apply'.victim = apply.victim /\ failCount' = failCount
    BY <1>1, <1>15 DEF KeepStale, ApplyState
  <2> QED BY <2>1 DEF Shape
<1>16. ASSUME NEW n \in Names, CheckStale(n) PROVE Shape(apply', failCount')
  <2>1. apply' \in ApplyState /\ apply'.at = "delete" /\ apply'.inv = apply.inv /\ apply'.k = apply.k
        /\ apply'.stale = apply.stale /\ apply'.victim = n /\ failCount' = failCount
    BY <1>1, <1>16 DEF CheckStale, ApplyState, Pcs, Applying
  <2>2. n \in apply.stale /\ apply.inv \in Inventories
    BY <1>16 DEF CheckStale, Candidate, Shape
  <2> QED BY <1>16, <2>1, <2>2, NoneAssumption DEF Shape, Applying
<1>17. CASE StartFails
  BY <1>17 DEF StartFails
<1> QED
  BY <1>5, <1>6, <1>7, <1>8, <1>9, <1>10, <1>11, <1>13, <1>14, <1>15, <1>16, <1>17
     DEF ApplyStep
\* The kernel holds well-formed interfaces only, whatever command changes it.
LEMMA KernelKept ==
    ASSUME WgInv, [WgNext]_vars
    PROVE  KernelOK'
<1>1. DOMAIN kernel \subseteq Names /\ \A n \in DOMAIN kernel : kernel[n] \in Interface
  BY DEF WgInv, KernelOK
<1>2. ASSUME kernel' = kernel PROVE KernelOK'
  BY <1>1, <1>2 DEF KernelOK
<1>3. ASSUME NEW n \in Names, kernel' = Remove(n) PROVE KernelOK'
  BY <1>1, <1>3 DEF KernelOK, Remove
<1>4. ASSUME NEW n \in Names, NEW i \in Interface, kernel' = Put(n, i) PROVE KernelOK'
  BY <1>1, <1>4 DEF KernelOK, Put
<1>5. ASSUME apply.at \in Applying
      PROVE  Iface \in Names /\ apply.inv[apply.k].key \in AllKeys
  <2>1. apply.k \in DOMAIN apply.inv /\ apply.inv \in Inventories \cup {<<>>}
    BY <1>5 DEF WgInv, Shape, ApplyState
  <2>2. apply.inv \in Inventories
    BY <2>1
  <2> QED BY <2>1, <2>2, InventoryFacts DEF Iface, AllKeys
<1>6. ASSUME NEW n \in DOMAIN kernel, NEW i \in Interface, kernel' = [kernel EXCEPT ![n] = i]
      PROVE  KernelOK'
  BY <1>1, <1>6 DEF KernelOK
<1>7. CASE LinkAdd
  <2>1. Iface \in Names
    BY <1>5, <1>7 DEF LinkAdd, Applying
  <2>2. Created \in Interface
    BY DEF Created, Interface
  <2> QED BY <1>4, <1>7, <2>1, <2>2 DEF LinkAdd
<1>8. CASE SetPrivateKey
  <2>1. Iface \in DOMAIN kernel /\ kernel' = [kernel EXCEPT ![Iface] = [kernel[Iface] EXCEPT !.key = TRUE]]
    BY <1>8 DEF SetPrivateKey, Exists
  <2>2. [kernel[Iface] EXCEPT !.key = TRUE] \in Interface
    BY <1>1, <2>1 DEF Interface
  <2> QED BY <1>6, <2>1, <2>2
<1>9. CASE SetPeer
  <2> DEFINE i == [kernel[Iface] EXCEPT !.peer = apply.inv[apply.k].key]
  <2>1. Iface \in DOMAIN kernel /\ kernel' = [kernel EXCEPT ![Iface] = i]
    BY <1>9 DEF SetPeer, Exists
  <2>2. apply.inv[apply.k].key \in AllKeys
    BY <1>5, <1>9 DEF SetPeer, Applying
  <2>3. i \in Interface
    BY <1>1, <2>1, <2>2 DEF Interface
  <2> QED BY <1>6, <2>1, <2>3
<1>10. CASE LinkUp
  <2>1. Iface \in DOMAIN kernel /\ kernel' = [kernel EXCEPT ![Iface] = [kernel[Iface] EXCEPT !.up = TRUE]]
    BY <1>10 DEF LinkUp, Exists
  <2>2. [kernel[Iface] EXCEPT !.up = TRUE] \in Interface
    BY <1>1, <2>1 DEF Interface
  <2> QED BY <1>6, <2>1, <2>2
<1>11. CASE LinkDel
  <2>1. apply.victim \in Names
    BY <1>11 DEF LinkDel, WgInv, Shape, ApplyState
  <2> QED BY <1>3, <1>11, <2>1 DEF LinkDel
<1>12. CASE \E n \in Names : OperatorAdds(n)
  <2>1. PICK n \in Names, wg \in BOOLEAN :
          kernel' = Put(n, [wg |-> wg, by |-> "operator", key |-> wg, peer |-> None, up |-> TRUE])
    BY <1>12 DEF OperatorAdds
  <2>2. [wg |-> wg, by |-> "operator", key |-> wg, peer |-> None, up |-> TRUE] \in Interface
    BY DEF Interface
  <2> QED BY <1>4, <2>1, <2>2
<1>13. CASE \E n \in Names : OperatorRemoves(n)
  BY <1>3, <1>13 DEF OperatorRemoves
<1>14. CASE Start \/ StartFails \/ PeerFails \/ ShowExisting \/ ShowFails \/ LinkDelFails
            \/ Record \/ RecordFails
  BY <1>2, <1>14 DEF Start, StartFails, PeerFails, ShowExisting, ShowFails, LinkDelFails, Record,
                     RecordFails
<1>15. CASE \E n \in Names : KeepStale(n) \/ CheckStale(n)
  BY <1>2, <1>15 DEF KeepStale, CheckStale
<1>16. CASE (\E inv \in Inventories : Publish(inv)) \/ Crash \/ StateLost \/ UNCHANGED vars
  BY <1>2, <1>16 DEF Publish, Crash, StateLost, vars
<1> QED
  BY <1>7, <1>8, <1>9, <1>10, <1>11, <1>12, <1>13, <1>14, <1>15, <1>16 DEF WgNext, ApplyStep

\* Every step takes at most one event from the budget.
LEMMA BudgetKept ==
    ASSUME BudgetOK, [WgNext]_vars
    PROVE  BudgetOK' /\ \A e \in WgEvent : left'[e] <= left[e]
<1>1. ASSUME left' = left PROVE BudgetOK' /\ \A e \in WgEvent : left'[e] <= left[e]
  BY <1>1 DEF BudgetOK
<1>2. ASSUME NEW e \in WgEvent, Spend(e)
      PROVE  BudgetOK' /\ \A x \in WgEvent : left'[x] <= left[x]
  <2>1. left \in [WgEvent -> Nat] /\ left[e] > 0 /\ left' = [left EXCEPT ![e] = left[e] - 1]
    BY <1>2 DEF BudgetOK, Spend
  <2>2. left[e] - 1 \in Nat
    BY <2>1
  <2>3. left' \in [WgEvent -> Nat] /\ \A x \in WgEvent : left'[x] = IF x = e THEN left[e] - 1 ELSE left[x]
    BY <2>1, <2>2
  <2>4. \A x \in WgEvent : left'[x] <= left[x]
    BY <2>1, <2>3
  <2>5. \A x \in WgEvent : left[x] \in Nat /\ left'[x] \in Nat /\ Budget[x] \in Nat /\ left[x] <= Budget[x]
    BY <2>1, <2>3, BudgetAssumption DEF BudgetOK
  <2> QED BY <2>3, <2>4, <2>5 DEF BudgetOK
<1>3. CASE Start \/ ShowExisting \/ LinkAdd \/ SetPrivateKey \/ SetPeer \/ LinkUp \/ LinkDel \/ Record
  BY <1>1, <1>3 DEF Start, ShowExisting, LinkAdd, SetPrivateKey, SetPeer, LinkUp, LinkDel, Record
<1>4. CASE PeerFails \/ ShowFails
  BY <1>1, <1>2, <1>4 DEF PeerFails, ShowFails, WgEvent
<1>5. CASE StartFails \/ LinkDelFails \/ RecordFails
  BY <1>2, <1>5 DEF StartFails, LinkDelFails, RecordFails, WgEvent
<1>6. CASE \E n \in Names : KeepStale(n) \/ CheckStale(n)
  BY <1>1, <1>6 DEF KeepStale, CheckStale
<1>7. CASE \E inv \in Inventories : Publish(inv)
  BY <1>2, <1>7 DEF Publish, WgEvent
<1>8. CASE Crash \/ StateLost
  BY <1>2, <1>8 DEF Crash, StateLost, WgEvent
<1>9. CASE \E n \in Names : OperatorAdds(n) \/ OperatorRemoves(n)
  BY <1>2, <1>9 DEF OperatorAdds, OperatorRemoves, WgEvent
<1>10. CASE UNCHANGED vars
  BY <1>1, <1>10 DEF vars
<1> QED
  BY <1>3, <1>4, <1>5, <1>6, <1>7, <1>8, <1>9, <1>10 DEF WgNext, ApplyStep

LEMMA InitWg == WgInit => WgInv
<1> SUFFICES ASSUME WgInit PROVE WgInv
  OBVIOUS
<1>1. Shape(apply, failCount)
  BY IdleShape DEF WgInit
<1>2. KernelOK
  BY DEF WgInit, KernelOK
<1>3. BudgetOK
  BY BudgetAssumption DEF WgInit, BudgetOK
<1> QED BY InitOwn, <1>1, <1>2, <1>3 DEF WgInit, WgInv

LEMMA NextWg == ASSUME WgInv, [WgNext]_vars PROVE WgInv'
<1>1. OwnInv'
  BY NextOwn DEF WgInv
<1>2. Shape(apply', failCount')
  <2>1. CASE ApplyStep
    BY <2>1, StepShape DEF WgInv
  <2>2. CASE Crash
    BY <2>2, IdleShape DEF Crash
  <2>3. CASE (\E inv \in Inventories : Publish(inv)) \/ StateLost \/ UNCHANGED vars
             \/ (\E n \in Names : OperatorAdds(n) \/ OperatorRemoves(n))
    BY <2>3 DEF WgInv, Publish, StateLost, OperatorAdds, OperatorRemoves, vars
  <2> QED BY <2>1, <2>2, <2>3 DEF WgNext
<1>3. routed' \in Inventories \cup {None}
  <2>1. routed \in Inventories \cup {None}
    BY DEF WgInv
  <2>2. CASE Record \/ RecordFails
    <3>1. apply.inv \in Inventories /\ routed' \in {routed, apply.inv}
      BY <2>2 DEF Record, RecordFails, EndRound, WgInv, Shape
    <3> QED BY <2>1, <3>1
  <2>3. CASE Start \/ StartFails \/ PeerFails \/ ShowExisting \/ ShowFails \/ LinkAdd
             \/ SetPrivateKey \/ SetPeer \/ LinkUp \/ LinkDel \/ LinkDelFails
    BY <2>1, <2>3 DEF Start, StartFails, PeerFails, ShowExisting, ShowFails, LinkAdd,
                      SetPrivateKey, SetPeer, LinkUp, LinkDel, LinkDelFails
  <2>4. CASE \E n \in Names : KeepStale(n) \/ CheckStale(n)
    BY <2>1, <2>4 DEF KeepStale, CheckStale
  <2>5. CASE (\E inv \in Inventories : Publish(inv)) \/ Crash \/ StateLost \/ UNCHANGED vars
             \/ (\E n \in Names : OperatorAdds(n) \/ OperatorRemoves(n))
    BY <2>1, <2>5 DEF Publish, Crash, StateLost, OperatorAdds, OperatorRemoves, vars
  <2> QED BY <2>2, <2>3, <2>4, <2>5 DEF WgNext, ApplyStep
<1> QED BY <1>1, <1>2, <1>3, KernelKept, BudgetKept DEF WgInv

\* WgTypeOK: the loop index stays within the inventory, no more peers fail than
\* were visited, and the state file holds interface names.
THEOREM WgTypeCorrect == WgSpec => []WgTypeOK
<1>1. ASSUME WgInv PROVE WgTypeOK
  <2>1. recorded \subseteq Names /\ published \in Inventories /\ served \subseteq Inventories
    BY ServedNames, <1>1 DEF WgInv, OwnInv
  <2>2. /\ apply.at \in {"idle", "show", "add", "key", "peer", "up", "prune", "delete"}
        /\ apply.inv \in Inventories \cup {<<>>} /\ apply.stale \subseteq Names
        /\ apply.victim \in Names \cup {None}
    BY <1>1 DEF WgInv, Shape, ApplyState, Pcs, Applying
  <2>3. /\ apply.k \in 1..Len(apply.inv) + 1 /\ failCount \in 0..Len(apply.inv)
        /\ apply.at = "delete" <=> apply.victim # None
        /\ apply.at \in {"show", "add", "key", "peer", "up"} => apply.k \in DOMAIN apply.inv
    BY <1>1 DEF WgInv, Shape, Applying
  <2> QED BY <1>1, <2>1, <2>2, <2>3 DEF WgTypeOK, WgInv, KernelOK, BudgetOK
<1> QED BY InitWg, NextWg, <1>1, PTL DEF WgSpec

\* No round deletes an interface it manages: its candidates were recorded, and
\* are none of its inventory's.
THEOREM WantedNeverDeleted == WgSpec => WantedKept
<1>1. ASSUME WgInv, [WgNext]_vars
      PROVE  [apply' # apply => \A n \in Managed(apply.inv) :
                                   n \in DOMAIN kernel => n \in DOMAIN kernel']_vars
  <2>1. CASE LinkDel
    <3>1. apply.victim \notin Managed(apply.inv) /\ kernel' = Remove(apply.victim)
      BY <1>1, <2>1 DEF LinkDel, WgInv, Shape
    <3> QED BY <3>1 DEF Remove
  <2>2. CASE LinkAdd
    BY <2>2 DEF LinkAdd, Put
  <2>3. CASE SetPrivateKey \/ SetPeer \/ LinkUp
    BY <2>3 DEF SetPrivateKey, SetPeer, LinkUp
  <2>4. CASE Start \/ StartFails \/ PeerFails \/ ShowExisting \/ ShowFails \/ LinkDelFails
             \/ Record \/ RecordFails
    BY <2>4 DEF Start, StartFails, PeerFails, ShowExisting, ShowFails, LinkDelFails, Record,
                RecordFails
  <2>5. CASE \E n \in Names : KeepStale(n) \/ CheckStale(n)
    BY <2>5 DEF KeepStale, CheckStale
  <2>6. CASE WgNext /\ ~ApplyStep
    BY <1>1, <2>6, EnvironmentOwn DEF WgInv
  <2> QED BY <1>1, <2>1, <2>2, <2>3, <2>4, <2>5, <2>6 DEF ApplyStep
<1> QED BY InitWg, NextWg, <1>1, PTL DEF WgSpec, WantedKept

-----------------------------------------------------------------------------
(***************************************************************************)
(* The private key.  Only the command after `ip link add` sets it, so the  *)
(* one interface of the agent that may lack it is the one just created.    *)
(***************************************************************************)
Keyed(n) == kernel[n].by = "agent" => kernel[n].key

Unfinished(n) == kernel[n].wg /\ ~kernel[n].up /\ apply.at = "key" /\ n = Iface

KeyInv ==
    Undisturbed({"fault", "crash"}) =>
        \A n \in DOMAIN kernel : Keyed(n) \/ Unfinished(n)

\* A budget nothing was taken from was full before.
LEMMA UndisturbedBefore ==
    ASSUME WgInv, [WgNext]_vars, Undisturbed({"fault", "crash"})'
    PROVE  /\ Undisturbed({"fault", "crash"})
           /\ ~Spend("fault") /\ ~Spend("crash")
<1>1. \A e \in {"fault", "crash"} :
        left[e] \in Nat /\ Budget[e] \in Nat /\ left[e] <= Budget[e] /\ left'[e] <= left[e]
  BY BudgetKept, BudgetAssumption DEF WgInv, BudgetOK, WgEvent
<1>2. \A e \in {"fault", "crash"} : left'[e] = Budget[e]
  BY DEF Undisturbed
<1>3. \A e \in {"fault", "crash"} : left[e] = Budget[e]
  BY <1>1, <1>2
<1>4. ASSUME NEW e \in {"fault", "crash"}, Spend(e) PROVE FALSE
  <2>1. left \in [WgEvent -> Nat] /\ e \in WgEvent /\ left' = [left EXCEPT ![e] = left[e] - 1]
    BY <1>4 DEF Spend, WgInv, BudgetOK, WgEvent
  <2>2. left'[e] = left[e] - 1
    BY <2>1
  <2> QED BY <1>1, <1>2, <1>3, <2>2
<1> QED BY <1>3, <1>4 DEF Undisturbed

LEMMA NextKey ==
    ASSUME WgInv, KeyInv, [WgNext]_vars
    PROVE  KeyInv'
<1> SUFFICES ASSUME Undisturbed({"fault", "crash"})' PROVE KeyInv'
  BY DEF KeyInv
<1>1. /\ \A n \in DOMAIN kernel : Keyed(n) \/ Unfinished(n)
      /\ ~Spend("fault") /\ ~Spend("crash")
  BY UndisturbedBefore DEF KeyInv
<1>2. SUFFICES \A n \in DOMAIN kernel' : Keyed(n)' \/ Unfinished(n)'
  BY DEF KeyInv
<1>3. ASSUME apply.at # "key" PROVE \A n \in DOMAIN kernel : Keyed(n)
  BY <1>1, <1>3 DEF Unfinished
<1>4. ASSUME kernel' = kernel, \A n \in DOMAIN kernel : Keyed(n)
      PROVE  \A n \in DOMAIN kernel' : Keyed(n)'
  BY <1>4 DEF Keyed
<1>5. CASE LinkAdd
  <2>1. \A n \in DOMAIN kernel : Keyed(n)
    BY <1>3, <1>5 DEF LinkAdd
  <2>2. apply'.at = "key" /\ Iface' = Iface
    BY <1>5 DEF LinkAdd, Goto, WgInv, Shape, ApplyState, Iface
  <2>3. kernel' = Put(Iface, Created)
    BY <1>5 DEF LinkAdd
  <2> QED BY <2>1, <2>2, <2>3 DEF Put, Created, Keyed, Unfinished
<1>6. CASE SetPrivateKey
  <2>1. kernel' = [kernel EXCEPT ![Iface] = [kernel[Iface] EXCEPT !.key = TRUE]]
        /\ Iface \in DOMAIN kernel /\ kernel[Iface] \in Interface
    BY <1>6 DEF SetPrivateKey, Exists, WgInv, KernelOK
  <2>2. DOMAIN kernel' = DOMAIN kernel /\ kernel'[Iface].key = TRUE
        /\ \A n \in DOMAIN kernel : n # Iface => kernel'[n] = kernel[n]
    BY <2>1 DEF Interface
  <2> QED BY <1>1, <2>2 DEF Keyed, Unfinished
<1>7. ASSUME apply.at # "key", NEW field \in {"peer", "up"}, NEW v,
             Iface \in DOMAIN kernel,
             kernel' = [kernel EXCEPT ![Iface] = [kernel[Iface] EXCEPT ![field] = v]]
      PROVE  \A n \in DOMAIN kernel' : Keyed(n)'
  <2>1. kernel[Iface] \in Interface
    BY <1>7 DEF WgInv, KernelOK
  <2>2. \A n \in DOMAIN kernel : kernel'[n].by = kernel[n].by /\ kernel'[n].key = kernel[n].key
    BY <1>7, <2>1 DEF Interface
  <2> QED BY <1>3, <1>7, <2>2 DEF Keyed
<1>8. CASE SetPeer
  <2>1. kernel' = [kernel EXCEPT ![Iface] = [kernel[Iface] EXCEPT !["peer"] = apply.inv[apply.k].key]]
    BY <1>8 DEF SetPeer
  <2> QED BY <1>7, <1>8, <2>1 DEF SetPeer, Exists
<1>9. CASE LinkUp
  <2>1. kernel' = [kernel EXCEPT ![Iface] = [kernel[Iface] EXCEPT !["up"] = TRUE]]
    BY <1>9 DEF LinkUp
  <2> QED BY <1>7, <1>9, <2>1 DEF LinkUp, Exists
<1>10. CASE PeerFails
  <2>1. ~Exists(Iface) \/ ~kernel[Iface].wg \/ apply.at # "key"
    BY <1>1, <1>10 DEF PeerFails
  <2>2. \A n \in DOMAIN kernel : Keyed(n)
    BY <1>1, <2>1 DEF Exists, Unfinished
  <2> QED BY <1>4, <1>10, <2>2 DEF PeerFails
<1>11. CASE LinkDel
  BY <1>3, <1>11 DEF LinkDel, Remove, Keyed
<1>12. CASE StartFails \/ LinkDelFails \/ RecordFails \/ Crash \/ StateLost
  BY <1>1, <1>12 DEF StartFails, LinkDelFails, RecordFails, Crash, StateLost
<1>13. CASE Start \/ ShowExisting \/ ShowFails \/ Record
  BY <1>3, <1>4, <1>13 DEF Start, ShowExisting, ShowFails, Record
<1>14. CASE \E n \in Names : KeepStale(n) \/ CheckStale(n)
  BY <1>3, <1>4, <1>14 DEF KeepStale, CheckStale, Candidate
<1>15. CASE (\E inv \in Inventories : Publish(inv)) \/ UNCHANGED vars
  BY <1>1, <1>15 DEF Publish, vars, Keyed, Unfinished, Iface
<1>16. CASE \E n \in Names : OperatorAdds(n)
  <2>1. PICK n \in Names, wg \in BOOLEAN :
          kernel' = Put(n, [wg |-> wg, by |-> "operator", key |-> wg, peer |-> None, up |-> TRUE])
    BY <1>16 DEF OperatorAdds
  <2>2. apply' = apply
    BY <1>16 DEF OperatorAdds
  <2> QED BY <1>1, <2>1, <2>2 DEF Put, Keyed, Unfinished, Iface
<1>17. CASE \E n \in Names : OperatorRemoves(n)
  BY <1>1, <1>17 DEF OperatorRemoves, Remove, Keyed, Unfinished, Iface
<1> QED
  BY <1>5, <1>6, <1>8, <1>9, <1>10, <1>11, <1>12, <1>13, <1>14, <1>15, <1>16, <1>17
     DEF WgNext, ApplyStep

\* KeyReady: as long as no command failed and the agent never died, no interface
\* the agent created is up without the private key.
THEOREM KeyAlwaysReady == WgSpec => []KeyReady
<1>1. WgInit => KeyInv
  BY DEF WgInit, KeyInv
<1>2. ASSUME WgInv, KeyInv PROVE KeyReady
  BY <1>2 DEF KeyInv, KeyReady, Keyed, Unfinished
<1> QED BY InitWg, NextWg, NextKey, <1>1, <1>2, PTL DEF WgSpec
=============================================================================
