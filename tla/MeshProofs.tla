----------------------------- MODULE MeshProofs -----------------------------
(***************************************************************************)
(* MeshRollout: the numbers meshctl hands out, and what the two ends of a  *)
(* link run.                                                               *)
(*                                                                         *)
(* The argument.  RolloutInv: a directory is built from one valid          *)
(* inventory, and a node from its directories, one after the other.        *)
(* The rest is about inventories alone: NextFree skips the numbers taken,  *)
(* so Numbered grows (NumberedGrows) and gives distinct numbers, and the   *)
(* rank of a name is the same in every order (RankIs).                     *)
(***************************************************************************)
EXTENDS MeshRollout, FiniteSetTheorems, TLAPS

-----------------------------------------------------------------------------
(***************************************************************************)
(* Induction over the naturals, by the least element of a set.             *)
(***************************************************************************)

\* A set of naturals that is not empty has a least element.
LEMMA LeastNatural ==
    ASSUME NEW S \in SUBSET Nat, S # {}
    PROVE  \E x \in S : \A y \in S : x <= y
<1>1. PICK x \in S : \A y \in S : <<y, x>> \notin OpToRel(<, Nat)
  BY WFMin, NatLessThanWellFounded, Zenon
<1>2. ASSUME NEW y \in S PROVE ~(y < x)
  BY <1>1, Zenon DEF OpToRel
<1>. QED  BY <1>2

\* What holds of 0 and goes from each number to the next holds of all.
LEMMA SetInduction ==
    ASSUME NEW S, 0 \in S, \A n \in Nat : n \in S => n + 1 \in S
    PROVE  Nat \subseteq S
<1> DEFINE Out == Nat \ S
<1> SUFFICES ASSUME Out # {} PROVE FALSE
  OBVIOUS
<1>1. PICK x \in Out : \A y \in Out : x <= y
  BY LeastNatural
<1>2. x # 0 /\ x - 1 \in Nat
  OBVIOUS
<1>3. x - 1 \in S
  BY <1>1, <1>2
<1>. QED  BY <1>2, <1>3

\* So has one of integers that are bounded from below.
LEMMA LeastInteger ==
    ASSUME NEW S \in SUBSET Int, S # {}, NEW b \in Int, \A x \in S : b <= x
    PROVE  \E x \in S : \A y \in S : x <= y
<1> DEFINE T == {x - b : x \in S}
<1>1. T # {} /\ T \subseteq Nat
  <2>1. \A x \in S : x - b \in Nat
    OBVIOUS
  <2>2. \E x \in S : x - b \in T
    OBVIOUS
  <2>. QED  BY <2>1, <2>2, Zenon
<1>2. PICK t \in T : \A u \in T : t <= u
  BY <1>1, LeastNatural
<1>3. PICK x \in S : t = x - b
  OBVIOUS
<1>4. ASSUME NEW y \in S PROVE x <= y
  <2>1. y - b \in T
    OBVIOUS
  <2>. QED  BY <1>2, <1>3, <2>1
<1>. QED  BY <1>4

-----------------------------------------------------------------------------
(***************************************************************************)
(* The numbers handed out.                                                 *)
(***************************************************************************)

\* There is a free number after k, and it is the first.
LEMMA NextFreeIs ==
    ASSUME NEW taken, IsFiniteSet(taken), NEW k \in Int
    PROVE  /\ NextFree(taken, k) \in Int
           /\ NextFree(taken, k) > k
           /\ NextFree(taken, k) \notin taken
<1> DEFINE range == k + 1 .. k + 1 + Cardinality(taken)
           free == range \ taken
<1>1. Cardinality(taken) \in Nat
  BY FS_CardinalityType
<1>2. Cardinality(range) = Cardinality(taken) + 1
  <2> DEFINE a == k + 1
             b == k + 1 + Cardinality(taken)
  <2>1. a \in Int /\ b \in Int /\ ~(a > b) /\ b - a + 1 = Cardinality(taken) + 1
    BY <1>1
  <2>2. range = a..b
    OBVIOUS
  <2> HIDE DEF a, b, range
  <2>. QED  BY <2>1, <2>2, FS_Interval
<1>3. ASSUME free = {} PROVE FALSE
  <2>1. range \subseteq taken
    BY <1>3
  <2>. QED  BY <2>1, <1>1, <1>2, FS_Subset
<1>4. free \subseteq Int /\ \A x \in free : k + 1 <= x
  BY <1>1
<1>5. \E x \in free : \A y \in free : x <= y
  <2>1. k + 1 \in Int /\ free \in SUBSET Int /\ free # {}
    BY <1>3, <1>4
  <2> HIDE DEF free
  <2>. QED  BY <2>1, <1>4, LeastInteger
<1>6. NextFree(taken, k) \in free
  BY <1>5 DEF NextFree
<1>. QED  BY <1>4, <1>6

\* The recursion of Numbered: f holds the first numbers.
Counts(f, taken, first, k) ==
    f = [i \in 0..k |-> IF i = 0 THEN first - 1 ELSE NextFree(taken, f[i-1])]

LEMMA CountsExists ==
    ASSUME NEW taken, NEW first
    PROVE  \A k \in Nat : \E f : Counts(f, taken, first, k)
<1> DEFINE S == {k \in Nat : \E f : Counts(f, taken, first, k)}
<1>1. 0 \in S
  <2> DEFINE f == [i \in 0..0 |-> first - 1]
  <2>1. Counts(f, taken, first, 0)
    BY DEF Counts
  <2>. QED  BY <2>1
<1>2. ASSUME NEW k \in Nat, k \in S PROVE k + 1 \in S
  <2>1. PICK f : Counts(f, taken, first, k)
    BY <1>2
  <2> DEFINE g == [i \in 0..k + 1 |-> IF i = k + 1 THEN NextFree(taken, f[k]) ELSE f[i]]
             h == [i \in 0..k + 1 |-> IF i = 0 THEN first - 1 ELSE NextFree(taken, g[i-1])]
  <2>2. ASSUME NEW i \in 0..k + 1 PROVE g[i] = h[i]
    <3>1. CASE i = k + 1
      BY <3>1
    <3>2. CASE i = 0
      BY <3>2, <2>1 DEF Counts
    <3>3. CASE i # 0 /\ i # k + 1
      <4>1. i \in 0..k /\ i - 1 \in 0..k + 1 /\ i - 1 # k + 1
        BY <3>3
      <4>2. g[i] = f[i] /\ g[i-1] = f[i-1]
        BY <3>3, <4>1
      <4>3. f[i] = NextFree(taken, f[i-1])
        BY <2>1, <3>3, <4>1 DEF Counts
      <4>. QED  BY <3>3, <4>2, <4>3
    <3>. QED  BY <3>1, <3>2, <3>3
  <2>3. g = h
    BY <2>2
  <2>4. Counts(g, taken, first, k + 1)
    BY <2>3 DEF Counts
  <2> HIDE DEF g, h
  <2>. QED  BY <2>4
<1> HIDE DEF S
<1>3. Nat \subseteq S
  BY <1>1, <1>2, SetInduction
<1>. QED  BY <1>3 DEF S

\* However far it is carried, the numbers are the same.
LEMMA CountsAgree ==
    ASSUME NEW taken, NEW first, NEW j \in Nat, NEW k \in Nat, NEW f, NEW g,
           Counts(f, taken, first, j), Counts(g, taken, first, k)
    PROVE  \A i \in Nat : i <= j /\ i <= k => f[i] = g[i]
<1> DEFINE S == {i \in Nat : i <= j /\ i <= k => f[i] = g[i]}
<1>1. 0 \in S
  BY DEF Counts
<1>2. ASSUME NEW i \in Nat, i \in S PROVE i + 1 \in S
  <2> SUFFICES ASSUME i + 1 <= j, i + 1 <= k PROVE f[i + 1] = g[i + 1]
    OBVIOUS
  <2>1. f[i] = g[i]
    BY <1>2
  <2>2. i + 1 \in 0..j /\ i + 1 \in 0..k /\ i + 1 # 0 /\ (i + 1) - 1 = i
    OBVIOUS
  <2>3. f[i + 1] = NextFree(taken, f[i]) /\ g[i + 1] = NextFree(taken, g[i])
    BY <2>2 DEF Counts
  <2>. QED  BY <2>1, <2>3
<1> HIDE DEF S
<1>3. Nat \subseteq S
  BY <1>1, <1>2, SetInduction
<1>. QED  BY <1>3 DEF S

\* The equations Numbered satisfies.
LEMMA NumberedIs ==
    ASSUME NEW taken, NEW first
    PROVE  /\ Numbered(taken, first, 0) = first - 1
           /\ \A k \in Nat :
                 Numbered(taken, first, k + 1) = NextFree(taken, Numbered(taken, first, k))
<1> DEFINE f(k) == CHOOSE f : Counts(f, taken, first, k)
<1>1. ASSUME NEW k \in Nat PROVE Counts(f(k), taken, first, k)
  BY CountsExists
<1>2. ASSUME NEW k \in Nat PROVE Numbered(taken, first, k) = f(k)[k]
  BY DEF Numbered, Counts
<1>3. Numbered(taken, first, 0) = first - 1
  <2>1. Counts(f(0), taken, first, 0)
    BY <1>1
  <2> HIDE DEF f
  <2>2. f(0)[0] = first - 1
    BY <2>1 DEF Counts
  <2>. QED  BY <1>2, <2>2
<1>4. ASSUME NEW k \in Nat
      PROVE  Numbered(taken, first, k + 1) = NextFree(taken, Numbered(taken, first, k))
  <2>1. k + 1 \in Nat /\ k <= k + 1 /\ k \in Nat /\ k + 1 \in 0..k + 1 /\ k + 1 # 0
        /\ (k + 1) - 1 = k
    OBVIOUS
  <2>2. Counts(f(k), taken, first, k) /\ Counts(f(k + 1), taken, first, k + 1)
    BY <1>1, <2>1
  <2> HIDE DEF f
  <2>3. f(k)[k] = f(k + 1)[k]
    BY <2>1, <2>2, CountsAgree
  <2>4. f(k + 1)[k + 1] = NextFree(taken, f(k + 1)[k])
    BY <2>1, <2>2 DEF Counts
  <2>. QED  BY <1>2, <2>1, <2>3, <2>4
<1>. QED  BY <1>3, <1>4

\* They grow, and none is taken.
LEMMA NumberedGrows ==
    ASSUME NEW taken, IsFiniteSet(taken), NEW first \in Int
    PROVE  \A k \in Nat :
              /\ Numbered(taken, first, k) \in Int
              /\ k # 0 => Numbered(taken, first, k) \notin taken
              /\ k # 0 => Numbered(taken, first, k) >= first
              /\ \A j \in 0..k - 1 : Numbered(taken, first, j) < Numbered(taken, first, k)
<1> DEFINE number(k) == Numbered(taken, first, k)
           Good(k) == /\ number(k) \in Int
                      /\ number(k) >= first - 1
                      /\ k # 0 => number(k) \notin taken
                      /\ k # 0 => number(k) >= first
                      /\ \A j \in 0..k - 1 : number(j) < number(k)
           S == {k \in Nat : \A i \in 0..k : Good(i)}
<1>0. number(0) = first - 1 /\ \A k \in Nat : number(k + 1) = NextFree(taken, number(k))
  BY NumberedIs
<1> HIDE DEF number
<1>1. 0 \in S
  <2>1. \A i \in 0..0 : i = 0
    OBVIOUS
  <2>2. Good(0)
    BY <1>0
  <2>. QED  BY <2>1, <2>2
<1>2. ASSUME NEW k \in Nat, k \in S PROVE k + 1 \in S
  <2>1. Good(k) /\ \A i \in 0..k : Good(i)
    BY <1>2
  <2>2. number(k + 1) = NextFree(taken, number(k))
    BY <1>0
  <2>3. number(k + 1) \in Int /\ number(k + 1) > number(k) /\ number(k + 1) \notin taken
    BY <2>1, <2>2, NextFreeIs
  <2>4. ASSUME NEW j \in 0..(k + 1) - 1 PROVE number(j) < number(k + 1)
    <3>1. j = k \/ j \in 0..k - 1
      OBVIOUS
    <3>2. number(j) \in Int /\ (j = k \/ number(j) < number(k))
      BY <2>1, <3>1
    <3>. QED  BY <2>1, <2>3, <3>2
  <2>5. Good(k + 1)
    BY <2>1, <2>3, <2>4
  <2>6. \A i \in 0..k + 1 : i \in 0..k \/ i = k + 1
    OBVIOUS
  <2> HIDE DEF Good
  <2>. QED  BY <2>1, <2>5, <2>6
<1>3. Nat \subseteq S
  <2> HIDE DEF S
  <2>. QED  BY <1>1, <1>2, SetInduction
<1>4. ASSUME NEW k \in Nat PROVE Good(k)
  <2>1. k \in S /\ k \in 0..k
    BY <1>3
  <2> HIDE DEF Good
  <2>. QED  BY <2>1
<1>. QED  BY <1>4 DEF number

\* A list of n has n positions.
LEMMA PositionsFinite ==
    ASSUME NEW n \in Nat
    PROVE  IsFiniteSet(1..n) /\ Cardinality(1..n) = n
<1>1. /\ IsFiniteSet(1..n)
      /\ Cardinality(1..n) = IF 1 > n THEN 0 ELSE n - 1 + 1
  BY FS_Interval
<1>. QED  BY <1>1

-----------------------------------------------------------------------------
(***************************************************************************)
(* Nodes and their names.                                                  *)
(***************************************************************************)

\* The values of a function of a finite set are finitely many.
LEMMA ImageFinite ==
    ASSUME NEW S, IsFiniteSet(S), NEW f, DOMAIN f = S
    PROVE  IsFiniteSet({f[x] : x \in S})
<1> DEFINE T == {f[x] : x \in S}
           g == [x \in S |-> f[x]]
<1>1. g \in Surjection(S, T)
  BY DEF Surjection
<1> HIDE DEF g, T
<1>2. IsFiniteSet(T)
  BY <1>1, FS_Surjection
<1>. QED  BY <1>2 DEF T

\* The rank of a name in a set of names is its position in the order.
LEMMA RankIs ==
    ASSUME NEW names \in SUBSET Int, IsFiniteSet(names)
    PROVE  /\ Cardinality(names) \in Nat
           /\ \A n \in Int : Rank(n, names) \in Nat
           /\ \A n \in names : Rank(n, names) \in 1..Cardinality(names)
           /\ \A m, n \in names : Rank(m, names) = Rank(n, names) => m = n
<1> DEFINE upto(n) == {m \in names : m <= n}
<1>0. Cardinality(names) \in Nat
  BY FS_CardinalityType
<1>1. ASSUME NEW n \in Int
      PROVE  /\ IsFiniteSet(upto(n)) /\ Cardinality(upto(n)) \in Nat
             /\ Cardinality(upto(n)) <= Cardinality(names)
  <2>1. upto(n) \in SUBSET names
    OBVIOUS
  <2> HIDE DEF upto
  <2>. QED  BY <2>1, FS_Subset, FS_CardinalityType
<1>2. ASSUME NEW n \in names PROVE Cardinality(upto(n)) # 0
  <2>1. n \in upto(n) /\ n \in Int
    OBVIOUS
  <2> HIDE DEF upto
  <2>. QED  BY <1>1, <2>1, FS_EmptySet
<1>3. ASSUME NEW m \in names, NEW n \in names, m < n
      PROVE  Cardinality(upto(m)) # Cardinality(upto(n))
  <2>0. \A x \in names : x \in Int /\ (x <= m => x <= n)
    BY <1>3
  <2>1. upto(m) \in SUBSET upto(n)
    BY <2>0
  <2>2. n \in upto(n) /\ n \notin upto(m) /\ m \in Int /\ n \in Int
    BY <1>3
  <2> HIDE DEF upto
  <2>. QED  BY <1>1, <2>1, <2>2, FS_Subset
<1>4. ASSUME NEW m \in names, NEW n \in names, Cardinality(upto(m)) = Cardinality(upto(n))
      PROVE  m = n
  <2>1. m \in Int /\ n \in Int /\ (m < n \/ n < m \/ m = n)
    OBVIOUS
  <2>. QED  BY <1>3, <1>4, <2>1
<1>. QED  BY <1>0, <1>1, <1>2, <1>4 DEF Rank

\* The names of an inventory are the names of nodes of the pool, and finitely many.
LEMMA NamesKnown ==
    ASSUME NEW inv \in Seq(Pool)
    PROVE  /\ IsFiniteSet(NamesOf(inv)) /\ NamesOf(inv) \subseteq Names
           /\ NamesOf(inv) \subseteq Nat \ {0} /\ IsFiniteSet(ExplicitIDs(inv))
           /\ DOMAIN inv = 1..Len(inv) /\ Len(inv) \in Nat
           /\ \A i \in DOMAIN inv : inv[i] \in Pool
<1>1. DOMAIN inv = 1..Len(inv) /\ Len(inv) \in Nat /\ \A i \in DOMAIN inv : inv[i] \in Pool
  OBVIOUS
<1>2. IsFiniteSet(DOMAIN inv)
  <2>1. IsFiniteSet(1..Len(inv))
    BY <1>1, FS_Interval
  <2>. QED  BY <1>1, <2>1
<1>3. IsFiniteSet(NamesOf(inv))
  <2> DEFINE f == [i \in DOMAIN inv |-> inv[i].name]
  <2>1. DOMAIN f = DOMAIN inv /\ NamesOf(inv) = {f[i] : i \in DOMAIN inv}
    BY DEF NamesOf
  <2> HIDE DEF f
  <2>. QED  BY <1>2, <2>1, ImageFinite
<1>4. IsFiniteSet(ExplicitIDs(inv))
  <2> DEFINE f == [i \in DOMAIN inv |-> inv[i].id]
             T == {f[i] : i \in DOMAIN inv}
  <2>1. DOMAIN f = DOMAIN inv /\ ExplicitIDs(inv) \in SUBSET T
    BY DEF ExplicitIDs
  <2>2. IsFiniteSet(T)
    <3> HIDE DEF f
    <3>. QED  BY <1>2, <2>1, ImageFinite
  <2> HIDE DEF T
  <2>. QED  BY <2>1, <2>2, FS_Subset
<1>5. NamesOf(inv) \subseteq Names /\ NamesOf(inv) \subseteq Nat \ {0}
  BY <1>1, PoolAssumption DEF NamesOf, Names
<1>. QED  BY <1>1, <1>3, <1>4, <1>5

NamesDistinct(inv) == DistinctUnlessZero(inv, "name")

\* A name finds its node.
LEMMA NodeFound ==
    ASSUME NEW inv \in Seq(Pool), NamesDistinct(inv)
    PROVE  /\ \A i \in DOMAIN inv : NodeByName(inv, inv[i].name) = inv[i]
           /\ \A n \in NamesOf(inv) :
                 /\ \E i \in DOMAIN inv : NodeByName(inv, n) = inv[i]
                 /\ NodeByName(inv, n) \in Pool /\ NodeByName(inv, n).name = n
<1>1. ASSUME NEW i \in DOMAIN inv PROVE NodeByName(inv, inv[i].name) = inv[i]
  <2> DEFINE at == CHOOSE j \in DOMAIN inv : inv[j].name = inv[i].name
  <2>1. at \in DOMAIN inv /\ inv[at].name = inv[i].name
    OBVIOUS
  <2>2. inv[i].name # 0
    BY NamesKnown, PoolAssumption
  <2>3. at = i
    <3> HIDE DEF at
    <3>. QED  BY <2>1, <2>2 DEF NamesDistinct, DistinctUnlessZero
  <2>. QED  BY <2>3 DEF NodeByName
<1>2. ASSUME NEW n \in NamesOf(inv)
      PROVE  /\ \E i \in DOMAIN inv : NodeByName(inv, n) = inv[i]
             /\ NodeByName(inv, n) \in Pool /\ NodeByName(inv, n).name = n
  <2>1. PICK i \in DOMAIN inv : n = inv[i].name
    BY DEF NamesOf
  <2>. QED  BY <1>1, <2>1, NamesKnown
<1>. QED  BY <1>1, <1>2

\* A name that is not given an ID is among those that are numbered.
LEMMA NodeIDIs ==
    ASSUME NEW inv \in Seq(Pool), Valid(inv), NEW n \in NamesOf(inv)
    PROVE  /\ n \notin Unassigned(inv) => NodeID(inv, n) = NodeByName(inv, n).id
                                          /\ NodeID(inv, n) \in ExplicitIDs(inv)
           /\ n \in Unassigned(inv) => NodeID(inv, n) \notin ExplicitIDs(inv)
           /\ NodeID(inv, n) \in Int
<1>0. NamesDistinct(inv)
  BY DEF Valid, NamesDistinct
<1>1. CASE n \notin Unassigned(inv)
  <2>1. PICK i \in DOMAIN inv : NodeByName(inv, n) = inv[i]
    BY <1>0, NodeFound
  <2>2. inv[i].id # 0 /\ inv[i].id \in Nat
    BY <1>1, <2>1, NamesKnown, PoolAssumption DEF Unassigned
  <2>3. NodeID(inv, n) = inv[i].id
    BY <1>1, <2>1 DEF NodeID
  <2>. QED  BY <1>1, <2>1, <2>2, <2>3 DEF ExplicitIDs
<1>2. CASE n \in Unassigned(inv)
  <2>1. IsFiniteSet(Unassigned(inv)) /\ Unassigned(inv) \in SUBSET Int
    <3>1. Unassigned(inv) \in SUBSET NamesOf(inv) /\ NamesOf(inv) \in SUBSET Int
      BY NamesKnown DEF Unassigned
    <3>. QED  BY <3>1, NamesKnown, FS_Subset
  <2>2. Rank(n, Unassigned(inv)) \in Nat /\ Rank(n, Unassigned(inv)) # 0
    BY <1>2, <2>1, RankIs
  <2>3. IsFiniteSet(ExplicitIDs(inv)) /\ 1 \in Int
    BY NamesKnown
  <2>4. /\ Numbered(ExplicitIDs(inv), 1, Rank(n, Unassigned(inv))) \in Int
        /\ Numbered(ExplicitIDs(inv), 1, Rank(n, Unassigned(inv))) \notin ExplicitIDs(inv)
    BY <2>2, <2>3, NumberedGrows
  <2>. QED  BY <1>2, <2>4 DEF NodeID
<1>. QED  BY <1>1, <1>2

\* Different ranks get different numbers.
LEMMA NumberedDistinct ==
    ASSUME NEW taken, IsFiniteSet(taken), NEW first \in Int, NEW j \in Nat, NEW k \in Nat,
           Numbered(taken, first, j) = Numbered(taken, first, k)
    PROVE  j = k
<1> DEFINE number(i) == Numbered(taken, first, i)
<1>1. \A i \in Nat : number(i) \in Int /\ \A h \in 0..i - 1 : number(h) < number(i)
  BY NumberedGrows
<1>2. number(j) = number(k)
  OBVIOUS
<1> HIDE DEF number
<1>3. CASE j < k
  BY <1>1, <1>2, <1>3
<1>4. CASE k < j
  BY <1>1, <1>2, <1>4
<1>. QED  BY <1>3, <1>4

\* No two nodes of an inventory have the same ID.
LEMMA NodeIDDistinct ==
    ASSUME NEW inv \in Seq(Pool), Valid(inv), NEW m \in NamesOf(inv), NEW n \in NamesOf(inv),
           NodeID(inv, m) = NodeID(inv, n)
    PROVE  m = n
<1>0. NamesDistinct(inv) /\ DistinctUnlessZero(inv, "id")
  BY DEF Valid, NamesDistinct
<1>1. CASE m \in Unassigned(inv) /\ n \in Unassigned(inv)
  <2>1. IsFiniteSet(Unassigned(inv)) /\ Unassigned(inv) \in SUBSET Int
    <3>1. Unassigned(inv) \in SUBSET NamesOf(inv) /\ NamesOf(inv) \in SUBSET Int
      BY NamesKnown DEF Unassigned
    <3>. QED  BY <3>1, NamesKnown, FS_Subset
  <2>2. Rank(m, Unassigned(inv)) \in Nat /\ Rank(n, Unassigned(inv)) \in Nat
    BY <1>1, <2>1, RankIs
  <2>3. Numbered(ExplicitIDs(inv), 1, Rank(m, Unassigned(inv)))
          = Numbered(ExplicitIDs(inv), 1, Rank(n, Unassigned(inv)))
    BY <1>1 DEF NodeID
  <2>4. Rank(m, Unassigned(inv)) = Rank(n, Unassigned(inv))
    BY <2>2, <2>3, NamesKnown, NumberedDistinct
  <2>. QED  BY <1>1, <2>1, <2>4, RankIs
<1>2. CASE m \notin Unassigned(inv) /\ n \notin Unassigned(inv)
  <2>1. PICK i \in DOMAIN inv : NodeByName(inv, m) = inv[i]
    BY <1>0, NodeFound
  <2>2. PICK j \in DOMAIN inv : NodeByName(inv, n) = inv[j]
    BY <1>0, NodeFound
  <2>3. inv[i].id = inv[j].id /\ inv[i].id # 0
    BY <1>2, <2>1, <2>2, NodeIDIs DEF Unassigned
  <2>4. i = j
    BY <1>0, <2>3 DEF DistinctUnlessZero
  <2>. QED  BY <1>0, <2>1, <2>2, <2>4, NodeFound
<1>. QED  BY <1>1, <1>2, NodeIDIs

\* The peers of a node are other nodes of the inventory, and so on both sides.
LEMMA PeersKnown ==
    ASSUME NEW inv \in Seq(Pool), NEW n \in NamesOf(inv)
    PROVE  /\ PeersOf(inv, n) \subseteq NamesOf(inv) \ {n}
           /\ \A p \in PeersOf(inv, n) : n \in PeersOf(inv, p)
           /\ IsFiniteSet(AutoPeers(inv, n)) /\ AutoPeers(inv, n) \in SUBSET Int
           /\ IsFiniteSet(FixedPorts(inv, n))
<1>1. /\ PeersOf(inv, n) \subseteq NamesOf(inv) \ {n}
      /\ \A p \in PeersOf(inv, n) : n \in PeersOf(inv, p)
  BY DEF PeersOf, PeerAllowed
<1>2. IsFiniteSet(AutoPeers(inv, n)) /\ AutoPeers(inv, n) \in SUBSET Int
  <2>1. AutoPeers(inv, n) \in SUBSET NamesOf(inv) /\ NamesOf(inv) \in SUBSET Int
    BY <1>1, NamesKnown DEF AutoPeers
  <2>. QED  BY <2>1, NamesKnown, FS_Subset
<1>3. IsFiniteSet(FixedPorts(inv, n))
  <2> DEFINE peers == PeersOf(inv, n)
             f == [p \in peers |-> NodeByName(inv, p).peerPort]
             T == {f[p] : p \in peers}
  <2>1. IsFiniteSet(peers)
    <3>1. peers \in SUBSET NamesOf(inv)
      BY <1>1
    <3>. QED  BY <3>1, NamesKnown, FS_Subset
  <2>2. DOMAIN f = peers /\ FixedPorts(inv, n) \in SUBSET T
    BY DEF FixedPorts
  <2>3. IsFiniteSet(T)
    <3> HIDE DEF f, peers
    <3>. QED  BY <2>1, <2>2, ImageFinite
  <2> HIDE DEF T
  <2>. QED  BY <2>2, <2>3, FS_Subset
<1>. QED  BY <1>1, <1>2, <1>3

\* A port that is not set is none of those that are.
LEMMA PeerPortIs ==
    ASSUME NEW inv \in Seq(Pool), Valid(inv), NEW n \in NamesOf(inv), NEW p \in PeersOf(inv, n)
    PROVE  /\ p \notin AutoPeers(inv, n) =>
                 /\ PeerPort(inv, n, p) = NodeByName(inv, p).peerPort
                 /\ PeerPort(inv, n, p) \in FixedPorts(inv, n)
           /\ p \in AutoPeers(inv, n) =>
                 /\ Rank(p, AutoPeers(inv, n)) \in Nat
                 /\ PeerPort(inv, n, p) = Numbered(FixedPorts(inv, n), NodeByName(inv, n).port,
                                                   Rank(p, AutoPeers(inv, n)))
                 /\ PeerPort(inv, n, p) \notin FixedPorts(inv, n)
           /\ NodeByName(inv, n).port \in Int
           /\ PeerPort(inv, n, p) \in Int
<1>0. /\ NamesDistinct(inv) /\ p \in NamesOf(inv)
      /\ IsFiniteSet(AutoPeers(inv, n)) /\ AutoPeers(inv, n) \in SUBSET Int
      /\ IsFiniteSet(FixedPorts(inv, n))
  BY PeersKnown DEF Valid, NamesDistinct
<1>1. NodeByName(inv, p).peerPort \in Int /\ NodeByName(inv, n).port \in Int
  BY <1>0, NodeFound, PoolAssumption
<1>2. CASE p \notin AutoPeers(inv, n)
  <2>1. NodeByName(inv, p).peerPort # 0
    BY <1>2 DEF AutoPeers
  <2>2. PeerPort(inv, n, p) = NodeByName(inv, p).peerPort
    BY <2>1 DEF PeerPort
  <2>. QED  BY <1>1, <1>2, <2>1, <2>2 DEF FixedPorts
<1>3. CASE p \in AutoPeers(inv, n)
  <2> DEFINE r == Rank(p, AutoPeers(inv, n))
  <2>1. r \in Nat /\ r # 0
    BY <1>0, <1>3, RankIs
  <2>2. NodeByName(inv, p).peerPort = 0
    BY <1>3 DEF AutoPeers
  <2>3. PeerPort(inv, n, p) = Numbered(FixedPorts(inv, n), NodeByName(inv, n).port, r)
    BY <2>2 DEF PeerPort
  <2> HIDE DEF r
  <2>4. /\ Numbered(FixedPorts(inv, n), NodeByName(inv, n).port, r) \in Int
        /\ Numbered(FixedPorts(inv, n), NodeByName(inv, n).port, r) \notin FixedPorts(inv, n)
    BY <1>0, <1>1, <2>1, NumberedGrows
  <2>. QED  BY <1>1, <1>3, <2>1, <2>3, <2>4 DEF r
<1>. QED  BY <1>2, <1>3

\* A node listens for no two peers on the same port.
LEMMA PeerPortDistinct ==
    ASSUME NEW inv \in Seq(Pool), Valid(inv), NEW n \in NamesOf(inv),
           NEW p \in PeersOf(inv, n), NEW q \in PeersOf(inv, n),
           PeerPort(inv, n, p) = PeerPort(inv, n, q)
    PROVE  p = q
<1>0. /\ NamesDistinct(inv) /\ DistinctUnlessZero(inv, "peerPort")
      /\ p \in NamesOf(inv) /\ q \in NamesOf(inv)
      /\ IsFiniteSet(AutoPeers(inv, n)) /\ AutoPeers(inv, n) \in SUBSET Int
      /\ IsFiniteSet(FixedPorts(inv, n))
  BY PeersKnown DEF Valid, NamesDistinct
<1>1. CASE p \in AutoPeers(inv, n) /\ q \in AutoPeers(inv, n)
  <2>1. Rank(p, AutoPeers(inv, n)) = Rank(q, AutoPeers(inv, n))
    BY <1>0, <1>1, PeerPortIs, NumberedDistinct
  <2>. QED  BY <1>0, <1>1, <2>1, RankIs
<1>2. CASE p \notin AutoPeers(inv, n) /\ q \notin AutoPeers(inv, n)
  <2>1. PICK i \in DOMAIN inv : NodeByName(inv, p) = inv[i]
    BY <1>0, NodeFound
  <2>2. PICK j \in DOMAIN inv : NodeByName(inv, q) = inv[j]
    BY <1>0, NodeFound
  <2>3. inv[i].peerPort = inv[j].peerPort /\ inv[i].peerPort # 0
    BY <1>2, <2>1, <2>2, PeerPortIs DEF AutoPeers
  <2>4. i = j
    BY <1>0, <2>3 DEF DistinctUnlessZero
  <2>. QED  BY <1>0, <2>1, <2>2, <2>4, NodeFound
<1>. QED  BY <1>1, <1>2, PeerPortIs

\* What is generated for a node is a configuration for each of its peers.
LEMMA WGPeersIs ==
    ASSUME NEW inv \in Seq(Pool), Valid(inv), NEW n \in NamesOf(inv)
    PROVE  /\ WGPeers(inv, n) \in [PeersOf(inv, n) -> PeerConfig]
           /\ PeersOf(inv, n) \in SUBSET Names
           /\ WGPeers(inv, n) # None
<1>1. PeersOf(inv, n) \in SUBSET Names /\ PeersOf(inv, n) \subseteq NamesOf(inv)
  BY PeersKnown, NamesKnown
<1>2. ASSUME NEW p \in PeersOf(inv, n)
      PROVE  /\ PeerPort(inv, n, p) \in Int /\ PeerPort(inv, p, n) \in Int
             /\ NodeAddr(inv, n) \in Int /\ NodeAddr(inv, p) \in Int
  <2>1. p \in NamesOf(inv) /\ n \in PeersOf(inv, p)
    BY PeersKnown
  <2>2. PeerPort(inv, n, p) \in Int /\ PeerPort(inv, p, n) \in Int
    BY <2>1, PeerPortIs
  <2>3. NodeID(inv, n) \in Int /\ NodeID(inv, p) \in Int
    BY <2>1, NodeIDIs
  <2>. QED  BY <2>2, <2>3 DEF NodeAddr, RangeBase
<1>3. WGPeers(inv, n) \in [PeersOf(inv, n) -> PeerConfig]
  BY <1>2 DEF WGPeers, PeerConfig
<1>4. None \notin [PeersOf(inv, n) -> PeerConfig]
  BY <1>1, NoneAssumption DEF Names
<1>. QED  BY <1>1, <1>3, <1>4

-----------------------------------------------------------------------------
(***************************************************************************)
(* The invariant.                                                          *)
(***************************************************************************)

\* A run in progress has loaded an inventory that was accepted.
GenerateInv ==
    /\ generate = [inv |-> generate.inv, next |-> generate.next]
    /\ generate.inv \in Seq(Pool) /\ generate.next \in 1..Len(generate.inv) + 1
    /\ generate.inv # <<>> => Valid(generate.inv) /\ Viable(generate.inv)

\* What a directory says comes from one valid inventory, each from its own.
FromInventory(n, config) ==
    \E inv \in Seq(Pool) : Valid(inv) /\ n \in NamesOf(inv) /\ config = WGPeers(inv, n)
OutputInv == \A n \in Names : output[n] # None => FromInventory(n, output[n])

\* What every inventory with two pinned nodes says of their link, and what an end
\* of it can have come to.
PoolNode(n) == CHOOSE x \in Pool : x.name = n
Link(a, b)  == [self |-> RangeBase + PoolNode(a).id, peer |-> RangeBase + PoolNode(b).id]
ConfigPinned(a, b, c) ==
    /\ c.listen = PoolNode(b).peerPort
    /\ c.endpoint \in {0, PoolNode(a).peerPort}
    /\ [self |-> c.self, peer |-> c.peer] = Link(a, b)
RowPinned(a, b, row) ==
    /\ row.listen = PoolNode(b).peerPort
    /\ row.endpoint \in {NoPeer, 0, PoolNode(a).peerPort}
    /\ row.addrs \subseteq {Link(a, b)}
PinnedInv ==
    \A a, b \in Pinned : running[a] # None /\ b \in DOMAIN running[a] =>
        RowPinned(a, b, running[a][b])

RolloutInv ==
    /\ RolloutTypeOK /\ GenerateInv /\ OutputInv
    /\ RoutedLinksBuilt /\ PortsDistinct /\ PinnedInv /\ OrderIrrelevant

-----------------------------------------------------------------------------
(***************************************************************************)
(* What an agent and an import make of a configuration.                    *)
(***************************************************************************)

\* A configuration from an inventory has finitely many peers, and each is whole.
LEMMA ConfigIs ==
    ASSUME NEW n, NEW config, FromInventory(n, config)
    PROVE  /\ IsFiniteSet(DOMAIN config) /\ DOMAIN config \in SUBSET Int
           /\ \A p \in DOMAIN config : config[p] \in PeerConfig
           /\ Length(config) \in Nat
<1>1. PICK inv \in Seq(Pool) : Valid(inv) /\ n \in NamesOf(inv) /\ config = WGPeers(inv, n)
  BY DEF FromInventory
<1>2. DOMAIN config = PeersOf(inv, n) /\ \A p \in DOMAIN config : config[p] \in PeerConfig
  BY <1>1, WGPeersIs
<1>3. PeersOf(inv, n) \in SUBSET NamesOf(inv) /\ NamesOf(inv) \in SUBSET Int
  BY <1>1, PeersKnown, NamesKnown
<1>4. IsFiniteSet(DOMAIN config) /\ DOMAIN config \in SUBSET Int
  BY <1>1, <1>2, <1>3, NamesKnown, FS_Subset
<1>. QED  BY <1>2, <1>4, FS_CardinalityType DEF Length

Built(row) == row.endpoint # NoPeer /\ row.addrs # {}

\* An agent runs OSPF on an interface with a peer and an address.
LEMMA AppliedBuilt ==
    ASSUME NEW n, NEW config, FromInventory(n, config), NEW old, NEW peers,
           NEW p \in DOMAIN config
    PROVE  Built(Applied(old, config, peers)[p])
<1>1. config[p] \in PeerConfig
  BY ConfigIs
<1>2. config[p].endpoint # NoPeer
  BY <1>1, NoPeerAssumption DEF PeerConfig
<1>3. /\ Applied(old, config, peers)[p].endpoint = config[p].endpoint
      /\ [self |-> config[p].self, peer |-> config[p].peer] \in Applied(old, config, peers)[p].addrs
  BY DEF Applied
<1>. QED  BY <1>2, <1>3 DEF Built

\* An import that has come to a peer's template has been through its other sections;
\* one that has not come to the templates leaves the interface as built as it was.
LEMMA ImportBuilt ==
    ASSUME NEW n, NEW config, FromInventory(n, config), NEW old, NEW k \in Nat,
           \A p \in DOMAIN old : old[p].ospf => Built(old[p]),
           NEW p \in DOMAIN ImportPart(old, config, k),
           ImportPart(old, config, k)[p].ospf
    PROVE  Built(ImportPart(old, config, k)[p])
<1> DEFINE c == Cardinality(DOMAIN config)
           r == Cardinality({q \in DOMAIN config : q <= p})
           row == IF p \in DOMAIN old THEN old[p] ELSE Bare(config[p].listen)
           new == ImportPart(old, config, k)[p]
           peered == p \in DOMAIN config /\ k >= c + r
           addressed == p \in DOMAIN config /\ k >= 2 * c + 2 * r
           routed == p \in DOMAIN config /\ k >= 2 * c + 2 * r + 1
<1>1. /\ new.endpoint = IF row.endpoint = NoPeer /\ peered THEN config[p].endpoint
                        ELSE row.endpoint
      /\ new.addrs = IF addressed THEN Addressed(row.addrs, config[p]) ELSE row.addrs
      /\ new.ospf = IF k > 2 * c THEN routed ELSE row.ospf
  BY DEF ImportPart, OSPFAfter, LinkCommands
<1>2. c \in Nat /\ (p \in DOMAIN config => r \in Nat /\ r >= 1 /\ r <= c)
  <2>1. IsFiniteSet(DOMAIN config) /\ DOMAIN config \in SUBSET Int
    BY ConfigIs
  <2>. QED  BY <2>1, FS_CardinalityType, RankIs DEF Rank
<1>3. CASE k > 2 * c
  <2>0. routed
    <3>1. new.ospf = routed /\ new.ospf
      BY <1>1, <1>3
    <3> HIDE DEF new, routed
    <3>. QED  BY <3>1, Zenon
  <2>1. p \in DOMAIN config /\ peered /\ addressed
    BY <1>2, <2>0
  <2>2. config[p].endpoint # NoPeer
    BY <2>1, ConfigIs, NoPeerAssumption DEF PeerConfig
  <2>3. Addressed(row.addrs, config[p]) # {}
    BY DEF Addressed
  <2> HIDE DEF new, row, peered, addressed, routed
  <2>. QED  BY <1>1, <2>1, <2>2, <2>3 DEF Built, new
<1>4. CASE ~(k > 2 * c)
  <2>1. row.ospf
    BY <1>1, <1>4
  <2>2. Built(row)
    BY <2>1 DEF Bare
  <2>3. ~addressed
    BY <1>2, <1>4
  <2> HIDE DEF new, row, peered, addressed, routed
  <2>. QED  BY <1>1, <2>2, <2>3 DEF Built, new
<1>. QED  BY <1>3, <1>4

\* Whatever an inventory says of two pinned nodes, it says what they were given.
LEMMA PinnedConfig ==
    ASSUME NEW a \in Pinned, NEW b \in Pinned, NEW config, FromInventory(a, config),
           b \in DOMAIN config
    PROVE  ConfigPinned(a, b, config[b])
<1>1. PICK inv \in Seq(Pool) : Valid(inv) /\ a \in NamesOf(inv) /\ config = WGPeers(inv, a)
  BY DEF FromInventory
<1>2. b \in PeersOf(inv, a) /\ b \in NamesOf(inv)
  BY <1>1, PeersKnown, WGPeersIs
<1>3. ASSUME NEW n \in Pinned, n \in NamesOf(inv)
      PROVE  /\ NodeByName(inv, n) = PoolNode(n)
             /\ PoolNode(n).id # 0 /\ PoolNode(n).peerPort # 0
             /\ NodeID(inv, n) = PoolNode(n).id
  <2>1. PICK x \in Pool : x.name = n /\ x.id # 0 /\ x.peerPort # 0
    BY DEF Pinned
  <2>2. PoolNode(n) = x
    BY <2>1, PoolAssumption DEF PoolNode
  <2>3. NodeByName(inv, n) = x
    BY <1>1, <1>3, <2>1, NodeFound, PoolAssumption DEF Valid, NamesDistinct
  <2>. QED  BY <2>1, <2>2, <2>3 DEF NodeID, Unassigned
<1>4. /\ PeerPort(inv, a, b) = PoolNode(b).peerPort
      /\ PeerPort(inv, b, a) = PoolNode(a).peerPort
  BY <1>1, <1>2, <1>3 DEF PeerPort
<1>. QED  BY <1>1, <1>2, <1>3, <1>4 DEF WGPeers, ConfigPinned, NodeAddr, Link

\* The row of a pinned peer comes to no other value, in an agent's hands ...
LEMMA AppliedPinned ==
    ASSUME NEW a, NEW b, NEW old, NEW config, NEW peers, b \in DOMAIN config,
           ConfigPinned(a, b, config[b]), b \in DOMAIN old => RowPinned(a, b, old[b])
    PROVE  RowPinned(a, b, Applied(old, config, peers)[b])
BY DEF Applied, ConfigPinned, RowPinned

\* ... and in an import's.
LEMMA ImportPinned ==
    ASSUME NEW a, NEW b, NEW old, NEW config, NEW k,
           b \in DOMAIN ImportPart(old, config, k),
           b \in DOMAIN config => ConfigPinned(a, b, config[b]),
           b \in DOMAIN old => RowPinned(a, b, old[b])
    PROVE  RowPinned(a, b, ImportPart(old, config, k)[b])
<1> DEFINE row == IF b \in DOMAIN old THEN old[b] ELSE Bare(config[b].listen)
           new == ImportPart(old, config, k)[b]
<1>0. b \in DOMAIN config \/ b \in DOMAIN old
  BY DEF ImportPart
<1>1. /\ new.listen = row.listen
      /\ \/ new.endpoint = row.endpoint
         \/ (b \in DOMAIN config /\ new.endpoint = config[b].endpoint)
      /\ \/ new.addrs = row.addrs
         \/ (b \in DOMAIN config /\ new.addrs = Addressed(row.addrs, config[b]))
  <2> HIDE DEF row
  <2>. QED  BY DEF ImportPart, row
<1>2. RowPinned(a, b, row)
  BY <1>0 DEF Bare, RowPinned, ConfigPinned
<1>3. b \in DOMAIN config => Addressed(row.addrs, config[b]) \subseteq {Link(a, b)}
  BY <1>2 DEF RowPinned, ConfigPinned, Addressed
<1> HIDE DEF row, new
<1>. QED  BY <1>1, <1>2, <1>3 DEF RowPinned, ConfigPinned, new

-----------------------------------------------------------------------------
(***************************************************************************)
(* What a step does to the directories and to the nodes.                   *)
(***************************************************************************)

\* A directory stays, or comes from the inventory the run loaded.
LEMMA OutputSteps ==
    ASSUME RolloutTypeOK, GenerateInv, [RolloutNext]_vars, NEW n \in Names
    PROVE  \/ output'[n] = output[n]
           \/ /\ Valid(generate.inv) /\ generate.inv \in Seq(Pool)
              /\ n \in NamesOf(generate.inv)
              /\ output'[n] = WGPeers(generate.inv, n)
<1>1. CASE WriteNode \/ WriteNodeStops
  <2> DEFINE inv == generate.inv
             m == inv[generate.next].name
  <2>1. generate.next \in 1..Len(inv) /\ inv \in Seq(Pool)
    BY <1>1 DEF WriteNode, WriteNodeStops, GenerateInv
  <2>2. inv # <<>> /\ generate.next \in DOMAIN inv
    BY <2>1
  <2>3. Valid(inv) /\ m \in NamesOf(inv)
    BY <2>2 DEF GenerateInv, NamesOf
  <2>4. output' = [output EXCEPT ![m] = WGPeers(inv, m)]
    BY <1>1 DEF WriteNode, WriteNodeStops, Written, NextName
  <2> HIDE DEF inv, m
  <2>5. CASE n = m
    BY <2>1, <2>3, <2>4, <2>5 DEF RolloutTypeOK, inv
  <2>6. CASE n # m
    BY <2>4, <2>6 DEF RolloutTypeOK
  <2>. QED  BY <2>5, <2>6
<1>2. CASE UNCHANGED output
  BY <1>2
<1>3. [RolloutNext]_vars => WriteNode \/ WriteNodeStops \/ UNCHANGED output
  BY DEF RolloutNext, vars, AddNode, RemoveNode, Edit, StartGenerate, EndGenerate,
         GenerateFails, Sync, ImportStops
<1>. QED  BY <1>1, <1>2, <1>3

\* What a node runs stays, or is what its agent or an import made of it.
RunningStep(n) ==
    \/ running'[n] = running[n]
    \/ /\ output[n] # None
       /\ \/ n \in Agents /\ running'[n] = Applied(Interfaces(n), output[n], bird[n])
          \/ n \notin Agents /\ \E k \in Nat :
                running'[n] = ImportPart(Interfaces(n), output[n], k)

LEMMA RunningSteps ==
    ASSUME RolloutTypeOK, OutputInv, [RolloutNext]_vars, NEW n \in Names
    PROVE  RunningStep(n)
<1>1. ASSUME NEW m \in Names, Sync(m) PROVE RunningStep(n)
  <2>1. n # m => running'[n] = running[n]
    BY <1>1 DEF Sync, RolloutTypeOK
  <2>2. CASE n = m /\ n \in Agents
    BY <1>1, <2>2 DEF Sync, RolloutTypeOK, RunningStep
  <2>3. CASE n = m /\ n \notin Agents
    <3>1. output[n] # None /\ running'[n] = Import(Interfaces(n), output[n])
      BY <1>1, <2>3 DEF Sync, RolloutTypeOK
    <3>2. Length(output[n]) \in Nat
      BY <3>1, ConfigIs DEF OutputInv
    <3>. QED  BY <2>3, <3>1, <3>2 DEF Import, RunningStep
  <2>. QED  BY <2>1, <2>2, <2>3 DEF RunningStep
<1>2. ASSUME NEW m \in Names, ImportStops(m) PROVE RunningStep(n)
  <2>1. n # m => running'[n] = running[n]
    BY <1>2 DEF ImportStops, RolloutTypeOK
  <2>2. CASE n = m
    <3>1. output[n] # None /\ n \notin Agents
      BY <1>2, <2>2 DEF ImportStops
    <3>2. Length(output[n]) \in Nat
      BY <3>1, ConfigIs DEF OutputInv
    <3>3. PICK k \in 1..Length(output[n]) - 1 :
             running'[n] = ImportPart(Interfaces(n), output[n], k)
      BY <1>2, <2>2 DEF ImportStops, RolloutTypeOK
    <3>4. k \in Nat
      BY <3>2
    <3>. QED  BY <3>1, <3>3, <3>4 DEF RunningStep
  <2>. QED  BY <2>1, <2>2 DEF RunningStep
<1>3. [RolloutNext]_vars =>
        UNCHANGED running \/ \E m \in Names : Sync(m) \/ ImportStops(m)
  BY DEF RolloutNext, vars, AddNode, RemoveNode, Edit, StartGenerate, EndGenerate,
         GenerateFails, WriteNode, WriteNodeStops
<1>. QED  BY <1>1, <1>2, <1>3 DEF RunningStep

-----------------------------------------------------------------------------
(***************************************************************************)
(* The invariant holds.                                                    *)
(***************************************************************************)

LEMMA InitInv == RolloutInit => RolloutInv
<1> SUFFICES ASSUME RolloutInit PROVE RolloutInv
  OBVIOUS
<1>1. RolloutTypeOK /\ GenerateInv
  BY PoolAssumption DEF RolloutInit, RolloutTypeOK, GenerateInv, Idle
<1>2. OutputInv /\ RoutedLinksBuilt /\ PortsDistinct
  BY DEF RolloutInit, OutputInv, RoutedLinksBuilt, PortsDistinct, Agents, Names
<1>3. PinnedInv /\ OrderIrrelevant
  BY DEF RolloutInit, PinnedInv, Pinned, Names, OrderIrrelevant, Idle
<1>. QED  BY <1>1, <1>2, <1>3 DEF RolloutInv

\* An edit of the file leaves a list of nodes of the pool.
LEMMA EditTyped ==
    ASSUME NEW s \in Seq(Pool)
    PROVE  /\ \A n \in Pool, i \in 1..Len(s) + 1 : InsertAt(s, i, n) \in Seq(Pool)
           /\ \A i \in DOMAIN s : RemoveAt(s, i) \in Seq(Pool)
<1>1. ASSUME NEW n \in Pool, NEW i \in 1..Len(s) + 1 PROVE InsertAt(s, i, n) \in Seq(Pool)
  <2>1. SubSeq(s, 1, i - 1) \in Seq(Pool) /\ SubSeq(s, i, Len(s)) \in Seq(Pool)
    OBVIOUS
  <2>. QED  BY <2>1 DEF InsertAt
<1>2. ASSUME NEW i \in DOMAIN s PROVE RemoveAt(s, i) \in Seq(Pool)
  <2>1. SubSeq(s, 1, i - 1) \in Seq(Pool) /\ SubSeq(s, i + 1, Len(s)) \in Seq(Pool)
    OBVIOUS
  <2>. QED  BY <2>1 DEF RemoveAt
<1>. QED  BY <1>1, <1>2

LEMMA TypePreserved ==
    ASSUME RolloutInv, [RolloutNext]_vars
    PROVE  RolloutTypeOK' /\ GenerateInv'
<1> USE DEF RolloutInv
<1>1. inventory' \in Seq(Pool)
  <2>1. ASSUME NEW n \in Pool, AddNode(n) PROVE inventory' \in Seq(Pool)
    BY <2>1, EditTyped DEF AddNode, Edit, RolloutTypeOK
  <2>2. ASSUME NEW i \in DOMAIN inventory, RemoveNode(i) PROVE inventory' \in Seq(Pool)
    BY <2>2, EditTyped DEF RemoveNode, Edit, RolloutTypeOK
  <2>3. [RolloutNext]_vars => \/ UNCHANGED inventory
                              \/ \E n \in Pool : AddNode(n)
                              \/ \E i \in DOMAIN inventory : RemoveNode(i)
    BY DEF RolloutNext, vars, StartGenerate, EndGenerate, GenerateFails, WriteNode,
           WriteNodeStops, Sync, ImportStops
  <2>. QED  BY <2>1, <2>2, <2>3 DEF RolloutTypeOK
<1>2. GenerateInv'
  <2>1. CASE StartGenerate
    <3>1. /\ inventory \in Seq(Pool) /\ Valid(inventory) /\ Viable(inventory)
          /\ generate' = [inv |-> inventory, next |-> 1]
      BY <2>1 DEF StartGenerate, RolloutTypeOK
    <3>2. Len(inventory) \in Nat
      BY <3>1
    <3>. QED  BY <3>1, <3>2 DEF GenerateInv
  <2>2. CASE WriteNode
    <3>1. /\ generate' = [inv |-> generate.inv, next |-> generate.next + 1]
          /\ generate.next <= Len(generate.inv)
      BY <2>2 DEF WriteNode, GenerateInv
    <3>2. Len(generate.inv) \in Nat /\ generate.next + 1 \in 1..Len(generate.inv) + 1
      BY <3>1 DEF GenerateInv
    <3>. QED  BY <3>1, <3>2 DEF GenerateInv
  <2>3. CASE EndGenerate \/ GenerateFails \/ WriteNodeStops
    <3>1. generate' = [inv |-> <<>>, next |-> 1]
      BY <2>3 DEF EndGenerate, GenerateFails, WriteNodeStops, Idle
    <3>2. <<>> \in Seq(Pool) /\ 1 \in 1..Len(<<>>) + 1
      OBVIOUS
    <3>. QED  BY <3>1, <3>2 DEF GenerateInv
  <2>4. CASE UNCHANGED generate
    BY <2>4 DEF GenerateInv
  <2>5. [RolloutNext]_vars =>
          \/ StartGenerate \/ WriteNode \/ WriteNodeStops \/ EndGenerate \/ GenerateFails
          \/ UNCHANGED generate
    BY DEF RolloutNext, vars, AddNode, RemoveNode, Edit, Sync, ImportStops
  <2>. QED  BY <2>1, <2>2, <2>3, <2>4, <2>5
<1>3. DOMAIN output' = Names /\ DOMAIN running' = Names
  BY DEF RolloutTypeOK, RolloutNext, vars, AddNode, RemoveNode, Edit, StartGenerate,
         EndGenerate, GenerateFails, WriteNode, WriteNodeStops, Written, Sync, ImportStops
<1>6. bird' \in [Names -> SUBSET Names]
  <2>1. bird \in [Names -> SUBSET Names]
    BY DEF RolloutTypeOK
  <2>2. CASE WriteNode
    <3>1. /\ generate.next \in 1..Len(generate.inv) /\ generate.inv \in Seq(Pool)
      BY <2>2 DEF WriteNode, GenerateInv
    <3>2. generate.inv # <<>> /\ generate.next \in DOMAIN generate.inv
      BY <3>1
    <3>3. Valid(generate.inv) /\ NextName \in NamesOf(generate.inv)
      BY <3>2 DEF GenerateInv, NamesOf, NextName
    <3>4. NextName \in Names /\ PeersOf(generate.inv, NextName) \subseteq Names
      BY <3>1, <3>3, NamesKnown, PeersKnown
    <3>5. Written[NextName] = WGPeers(generate.inv, NextName)
      BY <3>4 DEF Written, RolloutTypeOK
    <3>6. DOMAIN Written[NextName] \subseteq Names
      BY <3>4, <3>5 DEF WGPeers
    <3>. QED  BY <2>1, <2>2, <3>4, <3>6 DEF WriteNode
  <2>3. [RolloutNext]_vars => WriteNode \/ UNCHANGED bird
    BY DEF RolloutNext, vars, AddNode, RemoveNode, Edit, StartGenerate, EndGenerate,
           GenerateFails, WriteNodeStops, Sync, ImportStops
  <2>. QED  BY <2>1, <2>2, <2>3
<1>4. ASSUME NEW n \in Names, running'[n] # None PROVE output'[n] # None
  <2>1. output[n] # None
    BY <1>4, RunningSteps DEF RunningStep, RolloutTypeOK
  <2>. QED  BY <2>1, OutputSteps, WGPeersIs
<1>5. edits' \in 0..MaxEdits /\ faults' \in 0..MaxFaults
  BY PoolAssumption DEF RolloutTypeOK, RolloutNext, vars, AddNode, RemoveNode, Edit,
         StartGenerate, EndGenerate, GenerateFails, WriteNode, WriteNodeStops, Sync,
         ImportStops
<1>. QED  BY <1>1, <1>2, <1>3, <1>4, <1>5, <1>6 DEF RolloutTypeOK, GenerateInv

LEMMA OutputPreserved ==
    ASSUME RolloutInv, [RolloutNext]_vars
    PROVE  OutputInv'
<1> SUFFICES ASSUME NEW n \in Names, output'[n] # None PROVE FromInventory(n, output'[n])
  BY DEF OutputInv
<1>1. CASE output'[n] = output[n]
  BY <1>1 DEF RolloutInv, OutputInv
<1>2. CASE /\ Valid(generate.inv) /\ generate.inv \in Seq(Pool)
           /\ n \in NamesOf(generate.inv)
           /\ output'[n] = WGPeers(generate.inv, n)
  BY <1>2 DEF FromInventory
<1>. QED  BY <1>1, <1>2, OutputSteps DEF RolloutInv

\* What the rows of a node had before a step, it has as Interfaces says.
LEMMA InterfacesAre ==
    ASSUME NEW n, NEW p \in DOMAIN Interfaces(n)
    PROVE  running[n] # None /\ p \in DOMAIN running[n] /\ Interfaces(n)[p] = running[n][p]
<1>1. running[n] # None
  <2>1. DOMAIN <<>> = {}
    OBVIOUS
  <2>. QED  BY <2>1 DEF Interfaces
<1>. QED  BY <1>1 DEF Interfaces

LEMMA BuiltPreserved ==
    ASSUME RolloutInv, [RolloutNext]_vars
    PROVE  RoutedLinksBuilt'
<1> USE DEF RolloutInv
<1> SUFFICES ASSUME NEW n \in Names, running'[n] # None,
                    NEW p \in DOMAIN running'[n], running'[n][p].ospf
             PROVE  Built(running'[n][p])
  BY DEF RoutedLinksBuilt, Built
<1>0. \A q \in DOMAIN Interfaces(n) : Interfaces(n)[q].ospf => Built(Interfaces(n)[q])
  BY InterfacesAre DEF RoutedLinksBuilt, Built
<1>1. CASE running'[n] = running[n]
  BY <1>1 DEF RoutedLinksBuilt, Built
<1>2. CASE output[n] # None /\ running'[n] = Applied(Interfaces(n), output[n], bird[n])
  <2>1. p \in DOMAIN output[n]
    BY <1>2 DEF Applied
  <2>. QED  BY <1>2, <2>1, AppliedBuilt DEF OutputInv
<1>3. ASSUME output[n] # None, NEW k \in Nat,
             running'[n] = ImportPart(Interfaces(n), output[n], k)
      PROVE  Built(running'[n][p])
  <2>1. FromInventory(n, output[n])
    BY <1>3 DEF OutputInv
  <2>. QED  BY <1>0, <1>3, <2>1, ImportBuilt
<1>. QED  BY <1>1, <1>2, <1>3, RunningSteps DEF RunningStep

LEMMA PinnedPreserved ==
    ASSUME RolloutInv, [RolloutNext]_vars
    PROVE  PinnedInv'
<1> USE DEF RolloutInv
<1> SUFFICES ASSUME NEW a \in Pinned, NEW b \in Pinned, running'[a] # None,
                    b \in DOMAIN running'[a]
             PROVE  RowPinned(a, b, running'[a][b])
  BY DEF PinnedInv
<1>0. a \in Names /\ (b \in DOMAIN Interfaces(a) => RowPinned(a, b, Interfaces(a)[b]))
  BY InterfacesAre DEF PinnedInv, Pinned, Names
<1>1. CASE running'[a] = running[a]
  BY <1>1 DEF PinnedInv
<1>2. ASSUME output[a] # None, b \in DOMAIN output[a] PROVE ConfigPinned(a, b, output[a][b])
  BY <1>0, <1>2, PinnedConfig DEF OutputInv
<1>3. CASE output[a] # None /\ running'[a] = Applied(Interfaces(a), output[a], bird[a])
  <2>1. b \in DOMAIN output[a]
    BY <1>3 DEF Applied
  <2>. QED  BY <1>0, <1>2, <1>3, <2>1, AppliedPinned
<1>4. ASSUME output[a] # None, NEW k \in Nat,
             running'[a] = ImportPart(Interfaces(a), output[a], k)
      PROVE  RowPinned(a, b, running'[a][b])
  <2>1. b \in DOMAIN ImportPart(Interfaces(a), output[a], k)
    BY <1>4
  <2>2. b \in DOMAIN output[a] => ConfigPinned(a, b, output[a][b])
    BY <1>2, <1>4
  <2>. QED  BY <1>0, <1>4, <2>1, <2>2, ImportPinned
<1>. QED  BY <1>0, <1>1, <1>3, <1>4, RunningSteps DEF RunningStep

\* The ports of one configuration are distinct.
LEMMA ConfigPortsDistinct ==
    ASSUME NEW n, NEW config, FromInventory(n, config),
           NEW p \in DOMAIN config, NEW q \in DOMAIN config,
           config[p].listen = config[q].listen
    PROVE  p = q
<1>1. PICK inv \in Seq(Pool) : Valid(inv) /\ n \in NamesOf(inv) /\ config = WGPeers(inv, n)
  BY DEF FromInventory
<1>2. p \in PeersOf(inv, n) /\ q \in PeersOf(inv, n)
  BY <1>1 DEF WGPeers
<1>3. PeerPort(inv, n, p) = PeerPort(inv, n, q)
  BY <1>1, <1>2 DEF WGPeers
<1>. QED  BY <1>1, <1>2, <1>3, PeerPortDistinct

LEMMA PortsPreserved ==
    ASSUME RolloutInv, [RolloutNext]_vars
    PROVE  PortsDistinct'
<1> USE DEF RolloutInv
<1> SUFFICES ASSUME NEW n \in Agents, running'[n] # None,
                    NEW p \in DOMAIN running'[n], NEW q \in DOMAIN running'[n],
                    running'[n][p].listen = running'[n][q].listen
             PROVE  p = q
  BY DEF PortsDistinct
<1>1. CASE running'[n] = running[n]
  BY <1>1 DEF PortsDistinct
<1>2. CASE output[n] # None /\ running'[n] = Applied(Interfaces(n), output[n], bird[n])
  <2>1. /\ p \in DOMAIN output[n] /\ q \in DOMAIN output[n]
        /\ output[n][p].listen = output[n][q].listen
    BY <1>2 DEF Applied
  <2>2. n \in Names
    BY DEF Agents, Names
  <2>. QED  BY <1>2, <2>1, <2>2, ConfigPortsDistinct DEF OutputInv
<1>3. n \in Names
  BY DEF Agents, Names
<1>. QED  BY <1>1, <1>2, <1>3, RunningSteps DEF RunningStep

-----------------------------------------------------------------------------
(***************************************************************************)
(* The order of the file makes no difference.                              *)
(***************************************************************************)

\* Every position in the order has a name.
LEMMA RankOnto ==
    ASSUME NEW inv \in Seq(Pool), NamesDistinct(inv), NEW r \in DOMAIN inv
    PROVE  \E n \in NamesOf(inv) : Rank(n, NamesOf(inv)) = r
<1> DEFINE names == NamesOf(inv)
           f == [i \in 1..Len(inv) |-> inv[i].name]
           g == [n \in names |-> Rank(n, names)]
<1>0. /\ IsFiniteSet(names) /\ names \in SUBSET Int
      /\ DOMAIN inv = 1..Len(inv) /\ Len(inv) \in Nat
  BY NamesKnown
<1>1. IsFiniteSet(1..Len(inv)) /\ Cardinality(1..Len(inv)) = Len(inv)
  BY <1>0, PositionsFinite
<1>2. f \in Surjection(1..Len(inv), names)
  BY <1>0 DEF Surjection, NamesOf
<1>3. f \in Injection(1..Len(inv), names)
  <2>1. ASSUME NEW i \in 1..Len(inv), NEW j \in 1..Len(inv), inv[i].name = inv[j].name
        PROVE  i = j
    <3>1. inv[i].name # 0
      BY <1>0, NamesKnown, PoolAssumption
    <3>. QED  BY <1>0, <2>1, <3>1 DEF NamesDistinct, DistinctUnlessZero
  <2>. QED  BY <1>2, <2>1 DEF Injection, IsInjective, Surjection
<1>4. Cardinality(names) = Len(inv)
  <2> HIDE DEF f, names
  <2>. QED  BY <1>1, <1>2, <1>3, FS_Surjection
<1>5. g \in Injection(names, 1..Len(inv))
  <2>1. \A n \in names : Rank(n, names) \in 1..Len(inv)
    BY <1>0, <1>4, RankIs
  <2>2. \A m, n \in names : Rank(m, names) = Rank(n, names) => m = n
    BY <1>0, RankIs
  <2>. QED  BY <2>1, <2>2 DEF Injection, IsInjective
<1>6. g \in Surjection(names, 1..Len(inv))
  <2> HIDE DEF g, names
  <2>. QED  BY <1>1, <1>4, <1>5, FS_Injection
<1>7. PICK n \in names : g[n] = r
  BY <1>0, <1>6 DEF Surjection
<1>. QED  BY <1>7

\* The alphabetical inventory holds the same nodes.
LEMMA AlphabeticalIs ==
    ASSUME NEW inv \in Seq(Pool), Valid(inv)
    PROVE  /\ Alphabetical(inv) \in Seq(Pool) /\ NamesDistinct(Alphabetical(inv))
           /\ NamesOf(Alphabetical(inv)) = NamesOf(inv)
           /\ \A n \in NamesOf(inv) :
                 NodeByName(Alphabetical(inv), n) = NodeByName(inv, n)
<1> DEFINE alph == Alphabetical(inv)
           names == NamesOf(inv)
           at(r) == CHOOSE n \in names : Rank(n, names) = r
<1>0. /\ NamesDistinct(inv) /\ IsFiniteSet(names) /\ names \in SUBSET Int
      /\ DOMAIN inv = 1..Len(inv) /\ Len(inv) \in Nat
  BY NamesKnown DEF Valid, NamesDistinct
<1>1. ASSUME NEW r \in DOMAIN inv PROVE at(r) \in names /\ Rank(at(r), names) = r
  BY <1>0, RankOnto
<1>2. DOMAIN alph = DOMAIN inv /\ \A r \in DOMAIN inv : alph[r] = NodeByName(inv, at(r))
  BY DEF Alphabetical
<1>3. ASSUME NEW r \in DOMAIN inv PROVE alph[r] \in Pool /\ alph[r].name = at(r)
  BY <1>0, <1>1, <1>2, NodeFound
<1>4. ASSUME NEW n \in names
      PROVE  \E r \in DOMAIN inv : at(r) = n
  <2>1. Rank(n, names) \in 1..Cardinality(names)
    BY <1>0, RankIs
  <2>2. Cardinality(names) <= Len(inv) /\ Cardinality(names) \in Nat
    <3> DEFINE f == [i \in 1..Len(inv) |-> inv[i].name]
    <3>1. f \in Surjection(1..Len(inv), names)
      BY <1>0 DEF Surjection, NamesOf
    <3>2. IsFiniteSet(1..Len(inv)) /\ Cardinality(1..Len(inv)) = Len(inv)
      BY <1>0, PositionsFinite
    <3> HIDE DEF f, names
    <3>. QED  BY <1>0, <3>1, <3>2, FS_Surjection, FS_CardinalityType
  <2>3. Rank(n, names) \in DOMAIN inv
    BY <1>0, <2>1, <2>2
  <2>4. at(Rank(n, names)) \in names /\ Rank(at(Rank(n, names)), names) = Rank(n, names)
    BY <1>1, <2>3
  <2>5. at(Rank(n, names)) = n
    <3> HIDE DEF at, names
    <3>. QED  BY <1>0, <2>4, RankIs
  <2>. QED  BY <2>3, <2>5
<1> HIDE DEF at
<1>5. alph \in Seq(Pool)
  <2> HIDE DEF alph
  <2>1. DOMAIN alph = 1..Len(inv) /\ alph = [r \in 1..Len(inv) |-> alph[r]]
    BY <1>0, <1>2 DEF alph, Alphabetical
  <2>. QED  BY <1>0, <1>3, <2>1
<1>6. NamesOf(alph) = names
  <2>1. \A r \in DOMAIN alph : alph[r].name \in names
    BY <1>1, <1>2, <1>3
  <2>2. \A n \in names : \E r \in DOMAIN alph : n = alph[r].name
    BY <1>2, <1>3, <1>4
  <2> HIDE DEF alph, names
  <2>. QED  BY <2>1, <2>2 DEF NamesOf
<1>7. NamesDistinct(alph)
  <2>1. ASSUME NEW i \in DOMAIN alph, NEW j \in DOMAIN alph, alph[i].name = alph[j].name
        PROVE  i = j
    BY <1>1, <1>2, <1>3, <2>1
  <2>. QED  BY <2>1 DEF NamesDistinct, DistinctUnlessZero
<1>8. ASSUME NEW n \in names PROVE NodeByName(alph, n) = NodeByName(inv, n)
  <2>1. PICK r \in DOMAIN inv : at(r) = n
    BY <1>4
  <2>2. alph[r] = NodeByName(inv, n) /\ alph[r].name = n
    BY <1>2, <1>3, <2>1
  <2> HIDE DEF alph
  <2>. QED  BY <1>2, <1>5, <1>7, <2>2, NodeFound
<1>. QED  BY <1>5, <1>6, <1>7, <1>8

\* The explicit IDs are those of the nodes, in whatever order.
LEMMA ExplicitIDsOf ==
    ASSUME NEW inv \in Seq(Pool), NamesDistinct(inv)
    PROVE  ExplicitIDs(inv) = {NodeByName(inv, n).id : n \in NamesOf(inv)} \ {0}
<1>1. \A i \in DOMAIN inv : inv[i].name \in NamesOf(inv)
                            /\ NodeByName(inv, inv[i].name).id = inv[i].id
  BY NodeFound DEF NamesOf
<1>2. \A n \in NamesOf(inv) : \E i \in DOMAIN inv : NodeByName(inv, n).id = inv[i].id
  BY NodeFound
<1>. QED  BY <1>1, <1>2 DEF ExplicitIDs

\* Two lists of the same nodes give every node the same.
LEMMA SameNodesSameConfig ==
    ASSUME NEW s \in Seq(Pool), NEW t \in Seq(Pool), NamesDistinct(s), NamesDistinct(t),
           NamesOf(s) = NamesOf(t),
           \A n \in NamesOf(t) : NodeByName(s, n) = NodeByName(t, n),
           NEW n \in NamesOf(t)
    PROVE  WGPeers(s, n) = WGPeers(t, n)
<1> DEFINE names == NamesOf(t)
<1>1. ExplicitIDs(s) = ExplicitIDs(t)
  BY ExplicitIDsOf
<1>2. Unassigned(s) = Unassigned(t)
  BY DEF Unassigned
<1>3. \A m \in names : NodeID(s, m) = NodeID(t, m) /\ NodeAddr(s, m) = NodeAddr(t, m)
  BY <1>1, <1>2 DEF NodeID, NodeAddr
<1>4. ASSUME NEW m \in names PROVE PeersOf(s, m) = PeersOf(t, m)
  BY DEF PeersOf, PeerAllowed, Lists
<1>5. ASSUME NEW m \in names
      PROVE  AutoPeers(s, m) = AutoPeers(t, m) /\ FixedPorts(s, m) = FixedPorts(t, m)
  <2>1. PeersOf(t, m) \subseteq names
    BY PeersKnown
  <2>2. \A p \in PeersOf(t, m) : NodeByName(s, p).peerPort = NodeByName(t, p).peerPort
    BY <2>1
  <2>3. AutoPeers(s, m) = AutoPeers(t, m)
    BY <1>4, <2>2 DEF AutoPeers
  <2>4. FixedPorts(s, m) = FixedPorts(t, m)
    BY <1>4, <2>2 DEF FixedPorts
  <2>. QED  BY <2>3, <2>4
<1>6. \A m, p \in names : PeerPort(s, m, p) = PeerPort(t, m, p)
  BY <1>5 DEF PeerPort
<1>7. PeersOf(t, n) \subseteq names
  BY PeersKnown
<1>. QED  BY <1>3, <1>4, <1>6, <1>7 DEF WGPeers

LEMMA OrderPreserved ==
    ASSUME RolloutInv, [RolloutNext]_vars
    PROVE  OrderIrrelevant'
<1> USE DEF RolloutInv
<1>1. CASE WriteNode
  <2> DEFINE inv == generate.inv
             m == inv[generate.next].name
  <2>1. /\ generate.next \in 1..Len(inv) /\ inv \in Seq(Pool)
        /\ generate' = [inv |-> inv, next |-> generate.next + 1]
        /\ output' = [output EXCEPT ![m] = WGPeers(inv, m)]
    BY <1>1 DEF WriteNode, Written, NextName, GenerateInv
  <2>2. inv # <<>> /\ generate.next \in DOMAIN inv
    BY <2>1
  <2>3. Valid(inv) /\ m \in NamesOf(inv) /\ NamesDistinct(inv)
    BY <2>2 DEF GenerateInv, NamesOf, Valid, NamesDistinct
  <2>4. m \in DOMAIN output
    BY <2>1, <2>3, NamesKnown DEF RolloutTypeOK
  <2>5. WGPeers(Alphabetical(inv), m) = WGPeers(inv, m)
    <3> HIDE DEF inv, m
    <3>. QED  BY <2>1, <2>3, AlphabeticalIs, SameNodesSameConfig
  <2>6. generate'.inv = inv /\ (generate.next + 1) - 1 = generate.next
        /\ generate'.next = generate.next + 1
    BY <2>1
  <2>7. output'[m] = WGPeers(Alphabetical(inv), m)
    BY <2>1, <2>4, <2>5
  <2>. QED  BY <2>6, <2>7 DEF OrderIrrelevant
<1>2. CASE StartGenerate \/ EndGenerate \/ GenerateFails \/ WriteNodeStops
  BY <1>2 DEF StartGenerate, EndGenerate, GenerateFails, WriteNodeStops, Idle,
     OrderIrrelevant
<1>3. CASE UNCHANGED <<generate, output>>
  BY <1>3 DEF OrderIrrelevant, Alphabetical
<1>4. [RolloutNext]_vars => \/ WriteNode \/ WriteNodeStops \/ StartGenerate
                            \/ EndGenerate \/ GenerateFails
                            \/ UNCHANGED <<generate, output>>
  BY DEF RolloutNext, vars, AddNode, RemoveNode, Edit, Sync, ImportStops
<1>. QED  BY <1>1, <1>2, <1>3, <1>4

-----------------------------------------------------------------------------
(***************************************************************************)
(* The theorems.                                                           *)
(***************************************************************************)

\* The invariant holds in every state.
THEOREM RolloutInvariant == RolloutSpec => []RolloutInv
<1>1. RolloutInv /\ [RolloutNext]_vars => RolloutInv'
  BY TypePreserved, OutputPreserved, BuiltPreserved, PinnedPreserved, PortsPreserved,
     OrderPreserved DEF RolloutInv
<1>. QED  BY InitInv, <1>1, PTL DEF RolloutSpec

\* A run in progress has accepted its inventory, and no node runs what no run wrote.
THEOREM RolloutTyped == RolloutSpec => []RolloutTypeOK
BY RolloutInvariant, PTL DEF RolloutInv

\* "each needing a unique listen port": no agent runs two interfaces on one port,
\* for every mix of fixed and assigned ports.
THEOREM PortsAreDistinct == RolloutSpec => []PortsDistinct
BY RolloutInvariant, PTL DEF RolloutInv

\* No inventory gives a node the tunnel address of a peer, or two peers the same:
\* assigned IDs skip the explicit ones and grow.
THEOREM AddressesAreDistinct == RolloutSpec => []AddressesDistinct
<1>1. RolloutInv => AddressesDistinct
  <2> SUFFICES ASSUME RolloutInv, NEW n \in Names, output[n] # None,
                      NEW p \in DOMAIN output[n], NEW q \in DOMAIN output[n]
               PROVE  /\ output[n][p].peer # output[n][p].self
                      /\ output[n][p].peer = output[n][q].peer => p = q
    BY DEF AddressesDistinct
  <2>1. PICK inv \in Seq(Pool) :
           Valid(inv) /\ n \in NamesOf(inv) /\ output[n] = WGPeers(inv, n)
    BY DEF RolloutInv, OutputInv, FromInventory
  <2>2. p \in PeersOf(inv, n) /\ q \in PeersOf(inv, n)
    BY <2>1 DEF WGPeers
  <2>3. /\ output[n][p].self = NodeAddr(inv, n)
        /\ output[n][p].peer = NodeAddr(inv, p) /\ output[n][q].peer = NodeAddr(inv, q)
    BY <2>1, <2>2 DEF WGPeers
  <2>4. p \in NamesOf(inv) /\ q \in NamesOf(inv) /\ p # n
    BY <2>1, <2>2, PeersKnown
  <2>5. NodeID(inv, p) # NodeID(inv, n) /\ (NodeID(inv, p) = NodeID(inv, q) => p = q)
    BY <2>1, <2>4, NodeIDDistinct
  <2>6. NodeID(inv, p) \in Int /\ NodeID(inv, q) \in Int /\ NodeID(inv, n) \in Int
    BY <2>1, <2>4, NodeIDIs
  <2>. QED  BY <2>3, <2>5, <2>6 DEF NodeAddr, RangeBase
<1>. QED  BY RolloutInvariant, <1>1, PTL

\* "To prevent port shifts when adding/removing nodes, set wg_peer_port": the ends
\* of a link between nodes with an explicit ID and port agree in every state, however
\* many generations apart they are and whatever stopped half way.
THEOREM PinnedLinksAlwaysAgree == RolloutSpec => []PinnedLinksAgree
<1>1. RolloutInv => PinnedLinksAgree
  <2> SUFFICES ASSUME RolloutInv, NEW m \in Pinned, NEW n \in Pinned, Linked(m, n)
               PROVE  Agree(m, n)
    BY DEF PinnedLinksAgree
  <2>1. /\ running[m] # None /\ n \in DOMAIN running[m] /\ running[m][n].ospf
        /\ running[n] # None /\ m \in DOMAIN running[n] /\ running[n][m].ospf
        /\ running[m][n].endpoint # NoPeer
    BY DEF Linked, Up
  <2>2. RowPinned(m, n, running[m][n]) /\ RowPinned(n, m, running[n][m])
    BY <2>1 DEF RolloutInv, PinnedInv
  <2>3. running[m][n].addrs # {} /\ running[n][m].addrs # {}
    BY <2>1 DEF RolloutInv, RoutedLinksBuilt, Pinned, Names
  <2>4. Link(m, n) \in running[m][n].addrs /\ Link(n, m) \in running[n][m].addrs
    BY <2>2, <2>3 DEF RowPinned
  <2>5. Link(m, n).self = Link(n, m).peer /\ Link(n, m).self = Link(m, n).peer
    BY DEF Link
  <2>. QED  BY <2>1, <2>2, <2>4, <2>5 DEF Agree, RowPinned
<1>. QED  BY RolloutInvariant, <1>1, PTL

\* Wherever an import stops, OSPF runs only on interfaces with a peer and an address.
THEOREM RoutedLinksAreBuilt == RolloutSpec => []RoutedLinksBuilt
BY RolloutInvariant, PTL DEF RolloutInv

\* "auto-assigned alphabetically": what is generated is the same for every order of
\* the nodes in the file.
THEOREM OrderIsIrrelevant == RolloutSpec => []OrderIrrelevant
BY RolloutInvariant, PTL DEF RolloutInv
=============================================================================
