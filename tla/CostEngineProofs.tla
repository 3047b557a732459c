-------------------------- MODULE CostEngineProofs --------------------------
(***************************************************************************)
(* Proofs about CostBands and CostEngine, for all values of the constants. *)
(*                                                                         *)
(* The argument.  Climb and Drop count the iterations of evaluateBand's    *)
(* two scans.  A run without gaps is an interval, and the length of an     *)
(* interval is its cardinality (PrefixInterval, SuffixInterval), so the    *)
(* band reached is inside the list (TargetInRange) and the scan stopped at *)
(* it for a reason.  The second fact and down <= up give TargetSettles:    *)
(* the band reached asks for itself.  BandsInRange is not inductive alone, *)
(* because the band list must stay non-empty: EngineInv adds that.         *)
(* The reports: only RecordFailure raises a failure count, so an outage is *)
(* seen by it (OutageStep); only a change of band changes what a reachable *)
(* peer costs, because distinct bands cost differently (MovesWithBand).    *)
(* CostHistory: while the engine counts towards a band, the row of results *)
(* that asked for it is at least as long (CountInv): a band is earned.     *)
(***************************************************************************)
EXTENDS CostHistory, FiniteSetTheorems, WellFoundedInduction, TLAPS

-----------------------------------------------------------------------------
(***************************************************************************)
(* Intervals.                                                              *)
(***************************************************************************)

\* The number of members of an interval that may be empty.
LEMMA IntervalLength ==
    ASSUME NEW a \in Int, NEW b \in Int, a <= b + 1
    PROVE  IsFiniteSet(a..b) /\ Cardinality(a..b) = b - a + 1
<1>1. IsFiniteSet(a..b) /\ Cardinality(a..b) = IF a > b THEN 0 ELSE b-a+1
  BY FS_Interval
<1>2. CASE a > b
  <2>1. Cardinality(a..b) = 0
    BY <1>1, <1>2
  <2>2. b - a + 1 = 0
    BY <1>2
  <2> QED BY <1>1, <2>1, <2>2
<1>3. CASE ~(a > b)
  BY <1>1, <1>3
<1> QED BY <1>2, <1>3

\* A subset of a..b that holds everything below each of its members is the
\* interval of its length at a (the shape of the upward scan of evaluateBand).
LEMMA PrefixInterval ==
    ASSUME NEW a \in Int, NEW b \in Int, a <= b + 1, NEW S \in SUBSET (a..b),
           \A i \in S : \A j \in a..i : j \in S
    PROVE  /\ Cardinality(S) \in Nat
           /\ Cardinality(S) <= b - a + 1
           /\ S = a .. a + Cardinality(S) - 1
<1> DEFINE k == Cardinality(S)
<1>1. IsFiniteSet(a..b) /\ Cardinality(a..b) = b - a + 1
  BY IntervalLength
<1>2. IsFiniteSet(S) /\ k <= b - a + 1
  <2>1. IsFiniteSet(S) /\ Cardinality(S) <= Cardinality(a..b)
    BY <1>1, FS_Subset, Zenon
  <2> QED BY <1>1, <2>1
<1>3. k \in Nat
  BY <1>2, FS_CardinalityType
<1>4. a + k \notin S
  <2>1. SUFFICES ASSUME a + k \in S PROVE FALSE
    OBVIOUS
  <2>2. a..a+k \in SUBSET S
    BY <2>1
  <2>3. Cardinality(a..a+k) <= k
    BY <2>2, <1>2, FS_Subset
  <2>4. Cardinality(a..a+k) = k + 1
    <3>1. a + k \in Int /\ ~(a > a + k)
      BY <1>3
    <3>2. Cardinality(a..a+k) = (a + k) - a + 1
      BY <3>1, FS_Interval
    <3> QED BY <3>2, <1>3
  <2> QED BY <2>3, <2>4, <1>3
<1>5. S \subseteq a..a+k-1
  BY <1>3, <1>4
<1>6. Cardinality(a..a+k-1) = k /\ IsFiniteSet(a..a+k-1)
  <2>1. a + k - 1 \in Int
    BY <1>3
  <2>2. /\ IsFiniteSet(a..a+k-1)
        /\ Cardinality(a..a+k-1) = IF a > a+k-1 THEN 0 ELSE (a+k-1)-a+1
    BY <2>1, FS_Interval
  <2> QED BY <2>2, <1>3
<1>7. S = a..a+k-1
  BY <1>5, <1>6, FS_Subset
<1> QED BY <1>2, <1>3, <1>7

\* The mirror image: a subset of a..b that holds everything above each of its
\* members is the interval of its length that ends at b (the downward scan).
LEMMA SuffixInterval ==
    ASSUME NEW a \in Int, NEW b \in Int, a <= b + 1, NEW S \in SUBSET (a..b),
           \A i \in S : \A j \in i..b : j \in S
    PROVE  /\ Cardinality(S) \in Nat
           /\ Cardinality(S) <= b - a + 1
           /\ S = b - Cardinality(S) + 1 .. b
<1> DEFINE k == Cardinality(S)
<1>1. IsFiniteSet(a..b) /\ Cardinality(a..b) = b - a + 1
  BY IntervalLength
<1>2. IsFiniteSet(S) /\ k <= b - a + 1
  <2>1. IsFiniteSet(S) /\ Cardinality(S) <= Cardinality(a..b)
    BY <1>1, FS_Subset, Zenon
  <2> QED BY <1>1, <2>1
<1>3. k \in Nat
  BY <1>2, FS_CardinalityType
<1>4. b - k \notin S
  <2>1. SUFFICES ASSUME b - k \in S PROVE FALSE
    OBVIOUS
  <2>2. b-k..b \in SUBSET S
    BY <2>1
  <2>3. Cardinality(b-k..b) <= k
    BY <2>2, <1>2, FS_Subset
  <2>4. Cardinality(b-k..b) = k + 1
    <3>1. b - k \in Int /\ ~(b - k > b)
      BY <1>3
    <3>2. Cardinality(b-k..b) = b - (b - k) + 1
      BY <3>1, FS_Interval
    <3> QED BY <3>2, <1>3
  <2> QED BY <2>3, <2>4, <1>3
<1>5. S \subseteq b-k+1..b
  BY <1>3, <1>4
<1>6. Cardinality(b-k+1..b) = k /\ IsFiniteSet(b-k+1..b)
  <2>1. b - k + 1 \in Int
    BY <1>3
  <2>2. /\ IsFiniteSet(b-k+1..b)
        /\ Cardinality(b-k+1..b) = IF b-k+1 > b THEN 0 ELSE b-(b-k+1)+1
    BY <2>1, FS_Interval
  <2> QED BY <2>2, <1>3
<1>7. S = b-k+1..b
  BY <1>5, <1>6, FS_Subset
<1> QED BY <1>2, <1>3, <1>7

-----------------------------------------------------------------------------
(***************************************************************************)
(* The scans of evaluateBand.                                              *)
(***************************************************************************)

\* The upward scan stays in the list, passes only thresholds the delay has
\* reached, and stops at the end of the list or below a threshold.
LEMMA ClimbStops ==
    ASSUME NEW bands \in Seq(Band), NEW cur \in 1..Len(bands), NEW d \in Int
    PROVE  /\ Climb(bands, cur, d) \in 0..Len(bands) - cur
           /\ \A j \in cur+1..cur+Climb(bands, cur, d) : d >= bands[j].up
           /\ cur + Climb(bands, cur, d) < Len(bands)
                => d < bands[cur + Climb(bands, cur, d) + 1].up
<1> DEFINE a == cur + 1
           b == Len(bands)
           S == {i \in a..b : \A j \in a..i : d >= bands[j].up}
           k == Cardinality(S)
<1>1. /\ a \in Int /\ b \in Int /\ a <= b + 1 /\ cur \in Nat
      /\ \A i \in a..b : bands[i].up \in Int
  <2>1. Len(bands) \in Nat /\ \A i \in 1..Len(bands) : bands[i] \in Band
    OBVIOUS
  <2>2. \A i \in a..b : i \in 1..Len(bands) /\ bands[i] \in Band
    BY <2>1
  <2>3. \A i \in a..b : bands[i].up \in Int
    BY <2>2 DEF Band
  <2> QED BY <2>1, <2>3
<1>2. S \in SUBSET (a..b) /\ \A i \in S : \A j \in a..i : j \in S
  BY <1>1
<1>3. \A i \in a..b : i \in S <=> \A j \in a..i : d >= bands[j].up
  OBVIOUS
<1>4. Climb(bands, cur, d) = k
  BY DEF Climb
<1> HIDE DEF S
<1>5. k \in Nat /\ k <= b - a + 1 /\ S = a..a+k-1
  <2> HIDE DEF a, b
  <2> QED BY <1>1, <1>2, PrefixInterval
<1> HIDE DEF k, a, b
<1>6. \A j \in a..a+k-1 : d >= bands[j].up
  <2>1. SUFFICES ASSUME NEW j \in a..a+k-1 PROVE d >= bands[j].up
    OBVIOUS
  <2>2. j \in S /\ j \in a..b /\ j \in a..j
    BY <1>1, <1>2, <1>5
  <2> QED BY <1>3, <2>2
<1>7. ASSUME a + k <= b PROVE d < bands[a+k].up
  <2>1. a+k \in a..b /\ a+k \notin S
    BY <1>1, <1>5, <1>7
  <2>2. PICK j \in a..a+k : ~ d >= bands[j].up
    BY <1>3, <2>1
  <2>3. j = a+k
    BY <1>1, <1>5, <1>6, <2>2
  <2> QED BY <1>1, <2>1, <2>2, <2>3
<1>8. a = cur + 1 /\ b = Len(bands)
  BY DEF a, b
<1> QED BY <1>1, <1>4, <1>5, <1>6, <1>7, <1>8

\* The downward scan stays in the list, leaves only bands whose down threshold
\* the delay is under, and stops at the first band or at such a threshold.
LEMMA DropStops ==
    ASSUME NEW bands \in Seq(Band), NEW cur \in 1..Len(bands), NEW d \in Int
    PROVE  /\ Drop(bands, cur, d) \in 0..cur - 1
           /\ \A j \in cur-Drop(bands, cur, d)..cur-1 : d < bands[j+1].down
           /\ cur - Drop(bands, cur, d) > 1
                => d >= bands[cur - Drop(bands, cur, d)].down
<1> DEFINE b == cur - 1
           S == {i \in 1..b : \A j \in i..b : d < bands[j+1].down}
           k == Cardinality(S)
<1>1. /\ 1 \in Int /\ b \in Int /\ 1 <= b + 1
      /\ \A i \in 1..b : bands[i+1].down \in Int
  <2>1. Len(bands) \in Nat /\ \A i \in 1..Len(bands) : bands[i] \in Band
    OBVIOUS
  <2>2. \A i \in 1..b : i+1 \in 1..Len(bands) /\ bands[i+1] \in Band
    BY <2>1
  <2>3. \A i \in 1..b : bands[i+1].down \in Int
    BY <2>2 DEF Band
  <2>4. b \in Int /\ 1 <= b + 1
    BY <2>1
  <2> QED BY <2>3, <2>4
<1>2. S \in SUBSET (1..b) /\ \A i \in S : \A j \in i..b : j \in S
  BY <1>1
<1>3. \A i \in 1..b : i \in S <=> \A j \in i..b : d < bands[j+1].down
  OBVIOUS
<1>4. Drop(bands, cur, d) = k
  BY DEF Drop
<1> HIDE DEF S
<1>5. k \in Nat /\ k <= b - 1 + 1 /\ S = b-k+1..b
  <2> HIDE DEF b
  <2> QED BY <1>1, <1>2, SuffixInterval
<1> HIDE DEF k, b
<1>6. \A j \in b-k+1..b : d < bands[j+1].down
  <2>1. SUFFICES ASSUME NEW j \in b-k+1..b PROVE d < bands[j+1].down
    OBVIOUS
  <2>2. j \in S /\ j \in 1..b /\ j \in j..b
    BY <1>1, <1>2, <1>5
  <2> QED BY <1>3, <2>2
<1>7. ASSUME b - k >= 1 PROVE d >= bands[b-k+1].down
  <2>1. b-k \in 1..b /\ b-k \notin S
    BY <1>1, <1>5, <1>7
  <2>2. PICK j \in b-k..b : ~ d < bands[j+1].down
    BY <1>3, <2>1
  <2>3. j = b-k
    BY <1>1, <1>5, <1>6, <2>2
  <2> QED BY <1>1, <2>1, <2>2, <2>3
<1>8. b = cur - 1 /\ cur \in Nat
  BY DEF b
<1> QED BY <1>1, <1>4, <1>5, <1>6, <1>7, <1>8

\* evaluateBand never asks for a band outside the list.
LEMMA TargetInRange ==
    ASSUME NEW bands \in Seq(Band), NEW cur \in 1..Len(bands), NEW d \in Int
    PROVE  Target(bands, cur, d) \in 1..Len(bands)
<1>1. Len(bands) \in Nat /\ cur \in Nat
  OBVIOUS
<1>2. Climb(bands, cur, d) \in 0..Len(bands) - cur
  BY ClimbStops
<1>3. Drop(bands, cur, d) \in 0..cur - 1
  BY DropStops
<1> QED BY <1>1, <1>2, <1>3 DEF Target

\* The band a delay asks for asks for itself at that delay: the scans are a
\* hysteresis, because no band is left at a delay that would enter it.
LEMMA TargetSettles ==
    ASSUME NEW bands \in Seq(Band), NEW cur \in 1..Len(bands), NEW d \in Int,
           \A i \in 2..Len(bands) : bands[i].down <= bands[i].up
    PROVE  Target(bands, Target(bands, cur, d), d) = Target(bands, cur, d)
<1> DEFINE t == Target(bands, cur, d)
<1>1. Len(bands) \in Nat /\ cur \in Nat
  OBVIOUS
<1>2. \A i \in 1..Len(bands) : bands[i].up \in Int /\ bands[i].down \in Int
  <2>1. \A i \in 1..Len(bands) : bands[i] \in Band
    BY <1>1
  <2> QED BY <2>1 DEF Band
<1>3. \A i \in 2..Len(bands) : bands[i].down <= bands[i].up
  OBVIOUS
<1>4. t \in 1..Len(bands)
  BY TargetInRange
<1>a. /\ Climb(bands, cur, d) \in Nat
      /\ cur + Climb(bands, cur, d) < Len(bands)
           => d < bands[cur + Climb(bands, cur, d) + 1].up
  <2>1. /\ Climb(bands, cur, d) \in 0..Len(bands) - cur
        /\ cur + Climb(bands, cur, d) < Len(bands)
             => d < bands[cur + Climb(bands, cur, d) + 1].up
    BY ClimbStops, Zenon
  <2> QED BY <1>1, <2>1
<1>b. Drop(bands, cur, d) \in Nat
  <2>1. Drop(bands, cur, d) \in 0..cur - 1
    BY DropStops, Zenon
  <2> QED BY <1>1, <2>1
<1>5. t < Len(bands) => d < bands[t+1].up
  <2>1. CASE Climb(bands, cur, d) > 0
    <3>1. t = cur + Climb(bands, cur, d)
      BY <2>1 DEF Target
    <3> HIDE DEF t
    <3> QED BY <1>a, <3>1
  <2>2. CASE ~ Climb(bands, cur, d) > 0
    <3>1. Climb(bands, cur, d) = 0 /\ t = cur - Drop(bands, cur, d)
      <4>1. t = cur - Drop(bands, cur, d)
        BY <2>2 DEF Target
      <4>2. Climb(bands, cur, d) = 0
        <5> HIDE DEF t
        <5> QED BY <1>a, <2>2
      <4> QED BY <4>1, <4>2
    <3>2. CASE Drop(bands, cur, d) = 0
      <4>1. t = cur /\ cur + Climb(bands, cur, d) = cur
        BY <1>1, <3>1, <3>2
      <4> QED BY <1>a, <4>1
    <3>3. CASE Drop(bands, cur, d) # 0
      <4>1. t \in cur-Drop(bands, cur, d)..cur-1 /\ t+1 \in 2..Len(bands)
        <5> HIDE DEF t
        <5> QED BY <1>1, <1>4, <1>b, <3>1, <3>3
      <4>2. d < bands[t+1].down
        BY <1>1, <4>1, DropStops
      <4> QED BY <1>2, <1>3, <4>1, <4>2
    <3> QED BY <3>2, <3>3
  <2> QED BY <2>1, <2>2
<1>6. t > 1 => d >= bands[t].down
  <2>1. CASE Climb(bands, cur, d) > 0
    <3>1. t = cur + Climb(bands, cur, d)
      BY <2>1 DEF Target
    <3>2. t \in cur+1..cur+Climb(bands, cur, d) /\ t \in 2..Len(bands)
      <4> HIDE DEF t
      <4> QED BY <1>1, <1>4, <1>a, <2>1, <3>1
    <3>3. d >= bands[t].up
      BY <1>1, <3>2, ClimbStops
    <3> QED BY <1>2, <1>3, <3>2, <3>3
  <2>2. CASE ~ Climb(bands, cur, d) > 0
    BY <1>1, <2>2, DropStops DEF Target
  <2> QED BY <2>1, <2>2
<1>7. Climb(bands, t, d) = 0
  <2>1. Climb(bands, t, d) \in 0..Len(bands)-t
    BY <1>1, <1>4, ClimbStops
  <2>2. ASSUME Climb(bands, t, d) > 0 PROVE FALSE
    <3>1. t+1 \in t+1..t+Climb(bands, t, d) /\ t+1 \in 1..Len(bands)
      BY <1>1, <1>4, <2>1, <2>2
    <3>2. d >= bands[t+1].up
      BY <1>1, <1>4, <3>1, ClimbStops
    <3> QED BY <1>2, <1>4, <1>5, <3>1, <3>2
  <2> QED BY <2>1, <2>2
<1>8. Drop(bands, t, d) = 0
  <2>1. Drop(bands, t, d) \in 0..t-1
    BY <1>1, <1>4, DropStops
  <2>2. ASSUME Drop(bands, t, d) > 0 PROVE FALSE
    <3>1. t-1 \in t-Drop(bands, t, d)..t-1 /\ (t-1)+1 = t /\ t > 1
      BY <1>4, <2>1, <2>2
    <3>2. d < bands[t].down
      BY <1>1, <1>4, <3>1, DropStops
    <3> QED BY <1>2, <1>4, <1>6, <3>1, <3>2
  <2> QED BY <2>1, <2>2
<1>9. Target(bands, t, d) = t
  BY <1>4, <1>7, <1>8 DEF Target
<1> QED BY <1>9

-----------------------------------------------------------------------------
(***************************************************************************)
(* The transition functions keep a LinkState and its band numbers.         *)
(***************************************************************************)
InRange(n, s) == s.current \in 1..n /\ s.pending \in 1..n

\* Smoothing yields a delay.
LEMMA SmoothedType ==
    ASSUME NEW s \in LinkState, NEW sample \in Int, NEW alpha \in 0..100
    PROVE  Smoothed(s, sample, alpha) \in Int
<1>1. s.delay \in Int /\ alpha \in Int
  BY DEF LinkState
<1>2. alpha * sample \in Int /\ (100 - alpha) * s.delay \in Int
  BY <1>1
<1>3. alpha * sample + (100 - alpha) * s.delay \in Int
  BY <1>2
<1>4. Ewma(s.delay, sample, alpha) \in Int
  BY <1>3 DEF Ewma
<1> QED BY <1>1, <1>4 DEF Smoothed

\* Rewriting the three band fields of a LinkState gives a LinkState.
LEMMA RebandedType ==
    ASSUME NEW s \in LinkState, NEW cur \in Nat, NEW pend \in Nat, NEW n \in Nat
    PROVE  Rebanded(s, cur, pend, n) \in LinkState
<1> DEFINE t1 == [s EXCEPT !.current = cur]
           t2 == [t1 EXCEPT !.pending = pend]
           t3 == [t2 EXCEPT !.hold = n]
<1>1. t1 \in LinkState
  BY DEF LinkState
<1> HIDE DEF t1
<1>2. t2 \in LinkState
  BY <1>1 DEF LinkState
<1> HIDE DEF t2
<1>3. t3 \in LinkState
  BY <1>2 DEF LinkState
<1>4. t3 = Rebanded(s, cur, pend, n)
  BY DEF t1, t2, LinkState, Rebanded
<1> QED BY <1>3, <1>4

\* ... and leaves every other field alone.
LEMMA RebandedFields ==
    ASSUME NEW s \in LinkState, NEW cur, NEW pend, NEW n
    PROVE  /\ Rebanded(s, cur, pend, n).current = cur
           /\ Rebanded(s, cur, pend, n).pending = pend
           /\ Rebanded(s, cur, pend, n).delay = s.delay
           /\ Rebanded(s, cur, pend, n).static = s.static
BY DEF Rebanded, LinkState

\* evaluateBand writes only band numbers of the list and a counter.
LEMMA EvaluateBandType ==
    ASSUME NEW bands \in Seq(Band), NEW s \in LinkState, InRange(Len(bands), s)
    PROVE  /\ EvaluateBand(bands, s) \in LinkState
           /\ InRange(Len(bands), EvaluateBand(bands, s))
           /\ EvaluateBand(bands, s).delay = s.delay
           /\ EvaluateBand(bands, s).static = s.static
           /\ EvaluateBand(bands, s).current
                 \in {s.current, Target(bands, s.current, s.delay)}
<1> DEFINE target == Target(bands, s.current, s.delay)
<1>1. /\ s.current \in 1..Len(bands) /\ s.pending \in 1..Len(bands)
      /\ s.delay \in Int /\ s.hold \in Nat /\ Len(bands) \in Nat
  BY DEF InRange, LinkState
<1>2. target \in 1..Len(bands)
  BY <1>1, TargetInRange
<1>3. Votes(s, target) \in Nat
  BY <1>1 DEF Votes
<1>4. target \in Nat /\ s.current \in Nat
  BY <1>1, <1>2
<1>5. PICK b \in {s.current, target}, q \in {s.current, target}, h \in Nat :
        EvaluateBand(bands, s) = Rebanded(s, b, q, h)
  <2>1. \/ EvaluateBand(bands, s) = Rebanded(s, s.current, s.current, 0)
        \/ EvaluateBand(bands, s) = Rebanded(s, target, target, 0)
        \/ EvaluateBand(bands, s) = Rebanded(s, s.current, target, Votes(s, target))
    BY DEF EvaluateBand
  <2> HIDE DEF target
  <2> QED BY <1>3, <2>1
<1> HIDE DEF target
<1>6. h \in Nat /\ b \in Nat /\ q \in Nat /\ b \in 1..Len(bands) /\ q \in 1..Len(bands)
  BY <1>1, <1>2, <1>4, <1>5
<1>7. Rebanded(s, b, q, h) \in LinkState
  BY <1>6, RebandedType
<1>8. /\ Rebanded(s, b, q, h).current = b
      /\ Rebanded(s, b, q, h).pending = q
      /\ Rebanded(s, b, q, h).delay = s.delay
      /\ Rebanded(s, b, q, h).static = s.static
  BY RebandedFields
<1>9. b \in {s.current, Target(bands, s.current, s.delay)}
  BY <1>5 DEF target
<1> QED BY <1>5, <1>6, <1>7, <1>8, <1>9 DEF InRange

\* RecordSuccess writes a LinkState whose bands are in the list.
LEMMA SuccessType ==
    ASSUME NEW c, WellFormed(c), NEW s \in LinkState, InRange(Len(c.bands), s),
           NEW forward \in Int, NEW rtt \in Nat
    PROVE  /\ Success(c, s, forward, rtt) \in LinkState
           /\ InRange(Len(c.bands), Success(c, s, forward, rtt))
           /\ Success(c, s, forward, rtt).current
                \in {s.current,
                     Target(c.bands, s.current, Success(c, s, forward, rtt).delay)}
           /\ Success(c, s, forward, rtt).delay \in Int
           /\ Success(c, s, forward, rtt).static = s.static
<1> DEFINE d == Smoothed(s, Sample(forward, rtt), c.alpha)
           m == [s EXCEPT !.failures = 0, !.delay = d]
<1>1. c.bands \in Seq(Band) /\ c.alpha \in 0..100
  BY DEF WellFormed, EngineConfig
<1>2. Sample(forward, rtt) \in Int
  BY DEF Sample
<1>3. d \in Int
  BY <1>1, <1>2, SmoothedType
<1>4. /\ m \in LinkState /\ InRange(Len(c.bands), m)
      /\ m.current = s.current /\ m.static = s.static
  <2> HIDE DEF d
  <2> QED BY <1>3 DEF LinkState, InRange
<1>5. Success(c, s, forward, rtt) = EvaluateBand(c.bands, m)
  BY DEF Success
<1> HIDE DEF m
<1>6. /\ EvaluateBand(c.bands, m) \in LinkState
      /\ InRange(Len(c.bands), EvaluateBand(c.bands, m))
      /\ EvaluateBand(c.bands, m).delay = m.delay
      /\ EvaluateBand(c.bands, m).static = m.static
      /\ EvaluateBand(c.bands, m).current
            \in {m.current, Target(c.bands, m.current, m.delay)}
  BY <1>1, <1>4, EvaluateBandType
<1>7. m.delay \in Int
  BY <1>4 DEF LinkState
<1> QED BY <1>4, <1>5, <1>6, <1>7

\* UpdateConfig leaves no peer above the end of a non-empty list.
LEMMA ClampType ==
    ASSUME NEW n \in Nat \ {0}, NEW s \in LinkState,
           s.current >= 1, s.pending >= 1
    PROVE  Clamp(n, s) \in LinkState /\ InRange(n, Clamp(n, s)) /\ Clamp(n, s).static = s.static
<1> DEFINE top == IF s.current > n THEN n ELSE s.current
<1>1. /\ top \in 1..n /\ top \in Nat
      /\ s.pending \in Nat /\ s.hold \in Nat
  BY DEF LinkState
<1> HIDE DEF top
<1>2. CASE s.pending > n
  <2>1. Clamp(n, s) = Rebanded(s, top, top, 0)
    BY <1>2 DEF Clamp, top
  <2>2. Rebanded(s, top, top, 0) \in LinkState
    BY <1>1, RebandedType
  <2>3. /\ Rebanded(s, top, top, 0).current = top
        /\ Rebanded(s, top, top, 0).pending = top
        /\ Rebanded(s, top, top, 0).static = s.static
    BY RebandedFields
  <2> QED BY <1>1, <2>1, <2>2, <2>3 DEF InRange
<1>3. CASE ~ s.pending > n
  <2>1. Clamp(n, s) = Rebanded(s, top, s.pending, s.hold)
    BY <1>3 DEF Clamp, top
  <2>2. Rebanded(s, top, s.pending, s.hold) \in LinkState
    BY <1>1, RebandedType
  <2>3. /\ Rebanded(s, top, s.pending, s.hold).current = top
        /\ Rebanded(s, top, s.pending, s.hold).pending = s.pending
        /\ Rebanded(s, top, s.pending, s.hold).static = s.static
    BY RebandedFields
  <2> QED BY <1>1, <1>3, <2>1, <2>2, <2>3 DEF InRange
<1> QED BY <1>2, <1>3

-----------------------------------------------------------------------------
(***************************************************************************)
(* The inductive invariant.  BandsInRange alone is not inductive: a reload *)
(* clamps only peers the engine has met, so a peer it has not met must     *)
(* still be the zero value; and clamping to the end of the list needs a    *)
(* list that is not empty.                                                 *)
(***************************************************************************)
UnmetIsZero == \A p \in Peers \ known : link[p] = ZeroState

EngineInv == EngineTypeOK /\ WellFormed(config) /\ UnmetIsZero /\ BandsInRange

\* NewEngine establishes the invariant.
LEMMA EngineInvInit == EngineInit => EngineInv
<1> SUFFICES ASSUME EngineInit PROVE EngineInv
  OBVIOUS
<1>1. WellFormed(config) /\ config \in EngineConfig
  BY ConfigAssumption DEF EngineInit, WellFormed
<1>2. ZeroState \in LinkState
  BY DEF ZeroState, LinkState, OptCost
<1>3. EngineTypeOK
  BY <1>1, <1>2 DEF EngineInit, EngineTypeOK
<1>4. Len(config.bands) \in Nat /\ Len(config.bands) > 0
  <2>1. config.bands \in Seq(Band)
    BY <1>1 DEF EngineConfig
  <2> QED BY <1>1, <2>1 DEF WellFormed
<1>5. BandsInRange
  BY <1>4 DEF EngineInit, BandsInRange, ZeroState
<1>6. UnmetIsZero
  BY DEF EngineInit, UnmetIsZero
<1> QED BY <1>1, <1>3, <1>5, <1>6 DEF EngineInv

\* Storing a LinkState with its bands in range keeps the invariant.
LEMMA StoreInv ==
    ASSUME EngineInv, NEW p \in Peers, NEW s \in LinkState,
           InRange(Len(config.bands), s), Store(p, s)
    PROVE  EngineInv'
<1>1. EngineTypeOK'
  BY DEF EngineInv, EngineTypeOK, Store
<1>2. WellFormed(config)'
  BY DEF EngineInv, Store
<1>3. BandsInRange'
  BY DEF EngineInv, EngineTypeOK, BandsInRange, Store, InRange
<1>4. UnmetIsZero'
  BY DEF EngineInv, EngineTypeOK, UnmetIsZero, Store
<1> QED BY <1>1, <1>2, <1>3, <1>4 DEF EngineInv

\* A measurement keeps the invariant.
LEMMA SuccessInv ==
    ASSUME EngineInv, NEW p \in Peers, NEW d \in Int, NEW rtt \in Nat, RecordSuccess(p, d, rtt)
    PROVE  EngineInv'
<1>1. WellFormed(config) /\ link[p] \in LinkState /\ InRange(Len(config.bands), link[p])
  BY DEF EngineInv, EngineTypeOK, BandsInRange, InRange
<1>2. /\ Success(config, link[p], d, rtt) \in LinkState
      /\ InRange(Len(config.bands), Success(config, link[p], d, rtt))
  BY <1>1, SuccessType
<1> QED BY <1>2, StoreInv DEF RecordSuccess

\* So does a failure, a reload of the configuration too.
LEMMA FailureType ==
    ASSUME NEW s \in LinkState
    PROVE  /\ Failure(s) \in LinkState
           /\ Failure(s).current = s.current /\ Failure(s).pending = s.pending
           /\ Failure(s).static = s.static
<1>1. s.failures + 1 \in Nat
  BY DEF LinkState
<1> QED BY <1>1 DEF Failure, LinkState

LEMMA FailureInv ==
    ASSUME EngineInv, NEW p \in Peers, RecordFailure(p)
    PROVE  EngineInv'
<1>1. link[p] \in LinkState /\ InRange(Len(config.bands), link[p])
  BY DEF EngineInv, EngineTypeOK, BandsInRange, InRange
<1>2. Failure(link[p]) \in LinkState /\ InRange(Len(config.bands), Failure(link[p]))
  BY <1>1, FailureType DEF InRange
<1> QED BY <1>2, StoreInv DEF RecordFailure

LEMMA UpdateInv ==
    ASSUME EngineInv, NEW c, WellFormed(c), UpdateConfig(c)
    PROVE  EngineInv'
<1>1. /\ link \in [Peers -> LinkState]
      /\ \A p \in Peers : InRange(Len(config.bands), link[p])
      /\ config' = c /\ known' = known
  BY DEF EngineInv, EngineTypeOK, BandsInRange, InRange, UpdateConfig
<1>2. c \in EngineConfig /\ Len(c.bands) \in Nat \ {0}
  <2>1. c.bands \in Seq(Band)
    BY DEF WellFormed, EngineConfig
  <2> QED BY <2>1 DEF WellFormed
<1>3. ASSUME NEW p \in Peers
      PROVE  link'[p] \in LinkState /\ InRange(Len(c.bands), link'[p])
  <2>1. CASE p \in known
    <3>1. link'[p] = Clamp(Len(c.bands), link[p])
      BY <2>1 DEF UpdateConfig
    <3>2. link[p].current >= 1 /\ link[p].pending >= 1
      BY <1>1 DEF InRange
    <3> QED BY <1>1, <1>2, <3>1, <3>2, ClampType
  <2>2. CASE p \notin known
    <3>1. link'[p] = ZeroState /\ link'[p] = link[p]
      BY <2>2 DEF UpdateConfig, EngineInv, UnmetIsZero
    <3> QED BY <1>1, <1>2, <3>1 DEF ZeroState, InRange
  <2> QED BY <2>1, <2>2
<1>4. link' \in [Peers -> LinkState]
  BY <1>3 DEF UpdateConfig
<1>5. EngineTypeOK'
  BY <1>1, <1>2, <1>4 DEF EngineInv, EngineTypeOK
<1>6. BandsInRange'
  BY <1>1, <1>3 DEF BandsInRange, InRange
<1>7. UnmetIsZero'
  BY DEF UpdateConfig, EngineInv, UnmetIsZero
<1> QED BY <1>1, <1>5, <1>6, <1>7 DEF EngineInv

\* Every call keeps the invariant.
LEMMA EngineInvStep == EngineInv /\ [EngineNext]_engineVars => EngineInv'
<1> SUFFICES ASSUME EngineInv, [EngineNext]_engineVars PROVE EngineInv'
  OBVIOUS
<1>1. \A p \in Peers : link[p] \in LinkState /\ InRange(Len(config.bands), link[p])
  BY DEF EngineInv, EngineTypeOK, BandsInRange, InRange
<1>2. ASSUME NEW p \in Peers, NEW cost \in Costs, SetStaticCost(p, cost)
      PROVE  EngineInv'
  <2>1. [link[p] EXCEPT !.static = cost] \in LinkState
    BY <1>1, InputAssumption DEF LinkState, OptCost
  <2>2. InRange(Len(config.bands), [link[p] EXCEPT !.static = cost])
    BY <1>1 DEF InRange, LinkState
  <2> QED BY <1>2, <2>1, <2>2, StoreInv DEF SetStaticCost
<1>3. ASSUME NEW p \in Peers, NEW cost \in Costs, SetFallbackCost(p, cost)
      PROVE  EngineInv'
  <2>1. [link[p] EXCEPT !.fallback = cost] \in LinkState
    BY <1>1, InputAssumption DEF LinkState, OptCost
  <2>2. InRange(Len(config.bands), [link[p] EXCEPT !.fallback = cost])
    BY <1>1 DEF InRange, LinkState
  <2> QED BY <1>3, <2>1, <2>2, StoreInv DEF SetFallbackCost
<1>4. ASSUME NEW p \in Peers, NEW n \in Surcharges, SetBandwidthPenalty(p, n)
      PROVE  EngineInv'
  <2>1. [link[p] EXCEPT !.bw = n] \in LinkState
    BY <1>1, InputAssumption DEF LinkState
  <2>2. InRange(Len(config.bands), [link[p] EXCEPT !.bw = n])
    BY <1>1 DEF InRange, LinkState
  <2> QED BY <1>4, <2>1, <2>2, StoreInv DEF SetBandwidthPenalty
<1>5. ASSUME NEW p \in Peers, NEW d \in Delays, NEW rtt \in Rtts, RecordSuccess(p, d, rtt)
      PROVE  EngineInv'
  <2>1. d \in Int /\ rtt \in Nat
    BY InputAssumption
  <2> QED BY <1>5, <2>1, SuccessInv
<1>6. ASSUME NEW p \in Peers, RecordFailure(p)
      PROVE  EngineInv'
  BY <1>6, FailureInv
<1>7. ASSUME NEW c \in Configs, UpdateConfig(c)
      PROVE  EngineInv'
  BY <1>7, ConfigAssumption, UpdateInv
<1>8. CASE UNCHANGED engineVars
  BY <1>8 DEF engineVars, EngineInv, EngineTypeOK, UnmetIsZero, BandsInRange
<1> QED BY <1>2, <1>3, <1>4, <1>5, <1>6, <1>7, <1>8 DEF EngineNext

\* The state of the engine is always what its Go types say: a configuration,
\* a set of peers met, and one LinkState per peer (cost.Engine, cost.LinkState).
THEOREM EngineTypeCorrect == EngineSpec => []EngineTypeOK
<1>1. EngineInv => EngineTypeOK
  BY DEF EngineInv
<1> QED BY EngineInvInit, EngineInvStep, <1>1, PTL DEF EngineSpec

\* No sequence of probe results and hot reloads leaves a peer on, or waiting
\* for, a band outside the list: e.bands[s.CurrentBand] and e.bands[target]
\* never index past the end while calls do not overlap.
THEOREM BandsStayInRange == EngineSpec => []BandsInRange
<1>1. EngineInv => BandsInRange
  BY DEF EngineInv
<1> QED BY EngineInvInit, EngineInvStep, <1>1, PTL DEF EngineSpec

-----------------------------------------------------------------------------
\* A step of the engine that changes a peer's band under an unchanged
\* configuration is a RecordSuccess, and the new band asks for itself.
LEMMA SwitchStep ==
    ASSUME EngineInv, [EngineNext]_engineVars, NEW p \in Peers,
           config' = config, link'[p].current # link[p].current
    PROVE  Target(config'.bands, link'[p].current, link'[p].delay)
             = link'[p].current
<1>1. /\ link \in [Peers -> LinkState]
      /\ WellFormed(config)
      /\ \A q \in Peers : InRange(Len(config.bands), link[q])
      /\ link[p] \in LinkState
  BY DEF EngineInv, EngineTypeOK, BandsInRange, InRange
<1>2. ASSUME NEW q \in Peers, NEW s, Store(q, s), s.current = link[q].current
      PROVE  FALSE
  BY <1>1, <1>2 DEF Store
<1>3. ASSUME NEW q \in Peers, NEW cost \in Costs, SetStaticCost(q, cost)
      PROVE  FALSE
  BY <1>1, <1>2, <1>3 DEF SetStaticCost, LinkState
<1>4. ASSUME NEW q \in Peers, NEW cost \in Costs, SetFallbackCost(q, cost)
      PROVE  FALSE
  BY <1>1, <1>2, <1>4 DEF SetFallbackCost, LinkState
<1>5. ASSUME NEW q \in Peers, NEW n \in Surcharges, SetBandwidthPenalty(q, n)
      PROVE  FALSE
  BY <1>1, <1>2, <1>5 DEF SetBandwidthPenalty, LinkState
<1>6. ASSUME NEW q \in Peers, RecordFailure(q)
      PROVE  FALSE
  BY <1>1, <1>2, <1>6 DEF RecordFailure, Failure, LinkState
<1>7. ASSUME NEW c \in Configs, UpdateConfig(c)
      PROVE  FALSE
  <2>1. c = config /\ link'[p] \in {link[p], Clamp(Len(config.bands), link[p])}
    BY <1>7 DEF UpdateConfig
  <2>2. Clamp(Len(config.bands), link[p])
          = Rebanded(link[p], link[p].current, link[p].pending, link[p].hold)
    <3>1. config.bands \in Seq(Band)
      BY <1>1 DEF WellFormed, EngineConfig
    <3>2. ~ link[p].current > Len(config.bands) /\ ~ link[p].pending > Len(config.bands)
      BY <1>1, <3>1 DEF InRange
    <3> QED BY <3>2 DEF Clamp
  <2>3. Clamp(Len(config.bands), link[p]).current = link[p].current
    BY <1>1, <2>2, RebandedFields
  <2> QED BY <2>1, <2>3
<1>8. ASSUME NEW q \in Peers, NEW d \in Delays, NEW rtt \in Rtts,
             RecordSuccess(q, d, rtt)
      PROVE  Target(config'.bands, link'[p].current, link'[p].delay)
               = link'[p].current
  <2>1. q = p /\ link'[p] = Success(config, link[p], d, rtt)
    BY <1>1, <1>8 DEF RecordSuccess, Store
  <2>2. d \in Int /\ rtt \in Nat
    BY InputAssumption
  <2>3. /\ link'[p].current \in {link[p].current,
                                Target(config.bands, link[p].current, link'[p].delay)}
        /\ link'[p].delay \in Int
    BY <1>1, <2>1, <2>2, SuccessType
  <2>4. link'[p].current = Target(config.bands, link[p].current, link'[p].delay)
    BY <2>3
  <2>5. /\ config.bands \in Seq(Band)
        /\ \A i \in 2..Len(config.bands) : config.bands[i].down <= config.bands[i].up
        /\ link[p].current \in 1..Len(config.bands)
    BY <1>1 DEF WellFormed, EngineConfig, InRange
  <2> QED BY <2>3, <2>4, <2>5, TargetSettles
<1>9. ~ UNCHANGED engineVars
  BY DEF engineVars
<1> QED BY <1>3, <1>4, <1>5, <1>6, <1>7, <1>8, <1>9 DEF EngineNext

\* Hysteresis, for every band list the loader accepts: the measurement that
\* changes a peer's band would not change it again (evaluateBand).
THEOREM SwitchesSettle == EngineSpec => SwitchSettles
<1>1. EngineInv /\ [EngineNext]_engineVars
        => [\A p \in Peers :
              config' = config /\ link'[p].current # link[p].current
                => Target(config'.bands, link'[p].current, link'[p].delay)
                     = link'[p].current]_engineVars
  BY SwitchStep
<1> QED BY EngineInvInit, EngineInvStep, <1>1, PTL DEF EngineSpec, SwitchSettles

-----------------------------------------------------------------------------
\* The failure count of evaluateBand's result, of a success and of a clamp.
LEMMA RebandedFailures ==
    ASSUME NEW s \in LinkState, NEW cur, NEW pend, NEW n
    PROVE  Rebanded(s, cur, pend, n).failures = s.failures
BY DEF Rebanded, LinkState

\* RecordSuccess ends a row of failures.
LEMMA SuccessFailures ==
    ASSUME NEW c, NEW s \in LinkState, NEW forward, NEW rtt,
           Smoothed(s, Sample(forward, rtt), c.alpha) \in Int
    PROVE  Success(c, s, forward, rtt).failures = 0
<1> DEFINE d == Smoothed(s, Sample(forward, rtt), c.alpha)
           m == [s EXCEPT !.failures = 0, !.delay = d]
<1>1. m \in LinkState /\ m.failures = 0
  <2>1. d \in Int
    OBVIOUS
  <2> HIDE DEF d
  <2> QED BY <2>1 DEF LinkState
<1>2. Success(c, s, forward, rtt) = EvaluateBand(c.bands, m)
  BY DEF Success
<1> HIDE DEF m
<1>3. PICK b, q, h : EvaluateBand(c.bands, m) = Rebanded(m, b, q, h)
  BY DEF EvaluateBand
<1> QED BY <1>1, <1>2, <1>3, RebandedFailures

\* A reload of the configuration does not touch the count.
LEMMA ClampFailures ==
    ASSUME NEW n, NEW s \in LinkState
    PROVE  Clamp(n, s).failures = s.failures
<1>1. PICK b, q, h : Clamp(n, s) = Rebanded(s, b, q, h)
  BY DEF Clamp
<1> QED BY <1>1, RebandedFailures

\* One more failure moves the cost of a link only at the limit.
LEMMA FailureMovesAtLimit ==
    ASSUME NEW c, c.limit \in Int, NEW s \in LinkState,
           CostOf(c, Failure(s)) # CostOf(c, s)
    PROVE  FailureReported(c, Failure(s))
<1> DEFINE t == Failure(s)
<1>1. /\ s.failures \in Nat
      /\ t.failures = s.failures + 1 /\ t.static = s.static /\ t.fallback = s.fallback
      /\ t.current = s.current /\ t.bw = s.bw
  BY DEF Failure, LinkState
<1> HIDE DEF t
<1>2. CostOf(c, t) # CostOf(c, s)
  BY DEF t
<1>3. Unreachable(c, t) # Unreachable(c, s)
  BY <1>1, <1>2 DEF CostOf
<1>4. t.failures = c.limit
  BY <1>1, <1>3 DEF Unreachable
<1> QED BY <1>4 DEF FailureReported, t

\* A call that raises a peer's failure count is its RecordFailure, which knew
\* the peer by the cost it had.
LEMMA OutageStep ==
    ASSUME EngineInv, [EngineNext]_engineVars, NEW p \in known,
           link'[p].failures > link[p].failures,
           CurrentCost(p)' # CurrentCost(p)
    PROVE  FailureReported(config, link'[p])
<1>1. /\ link \in [Peers -> LinkState]
      /\ WellFormed(config)
      /\ \A q \in Peers : link[q] \in LinkState /\ InRange(Len(config.bands), link[q])
      /\ p \in Peers /\ link[p] \in LinkState /\ link[p].failures \in Nat
      /\ config.limit \in Int
  BY DEF EngineInv, EngineTypeOK, BandsInRange, InRange, LinkState, EngineConfig
<1>2. ASSUME NEW q \in Peers, NEW s, Store(q, s), s.failures \in Nat,
             s.failures <= link[q].failures
      PROVE  FALSE
  <2>1. CASE p = q
    BY <1>1, <1>2, <2>1 DEF Store
  <2>2. CASE p # q
    BY <1>1, <1>2, <2>2 DEF Store
  <2> QED BY <2>1, <2>2
<1>3. ASSUME NEW q \in Peers, NEW cost \in Costs, SetStaticCost(q, cost)
      PROVE  FALSE
  <2>1. [link[q] EXCEPT !.static = cost].failures = link[q].failures /\ link[q].failures \in Nat
    BY <1>1 DEF LinkState
  <2>2. Store(q, [link[q] EXCEPT !.static = cost])
    BY <1>3 DEF SetStaticCost
  <2>3. [link[q] EXCEPT !.static = cost].failures <= link[q].failures
    BY <2>1
  <2> QED BY <1>2, <2>1, <2>2, <2>3
<1>4. ASSUME NEW q \in Peers, NEW cost \in Costs, SetFallbackCost(q, cost)
      PROVE  FALSE
  <2>1. [link[q] EXCEPT !.fallback = cost].failures = link[q].failures /\ link[q].failures \in Nat
    BY <1>1 DEF LinkState
  <2>2. Store(q, [link[q] EXCEPT !.fallback = cost])
    BY <1>4 DEF SetFallbackCost
  <2>3. [link[q] EXCEPT !.fallback = cost].failures <= link[q].failures
    BY <2>1
  <2> QED BY <1>2, <2>1, <2>2, <2>3
<1>5. ASSUME NEW q \in Peers, NEW n \in Surcharges, SetBandwidthPenalty(q, n)
      PROVE  FALSE
  <2>1. [link[q] EXCEPT !.bw = n].failures = link[q].failures /\ link[q].failures \in Nat
    BY <1>1 DEF LinkState
  <2>2. Store(q, [link[q] EXCEPT !.bw = n])
    BY <1>5 DEF SetBandwidthPenalty
  <2>3. [link[q] EXCEPT !.bw = n].failures <= link[q].failures
    BY <2>1
  <2> QED BY <1>2, <2>1, <2>2, <2>3
<1>6. ASSUME NEW q \in Peers, NEW d \in Delays, NEW rtt \in Rtts,
             RecordSuccess(q, d, rtt)
      PROVE  FALSE
  <2>1. d \in Int /\ rtt \in Nat /\ config.alpha \in 0..100
    BY <1>1, InputAssumption DEF WellFormed, EngineConfig
  <2>2. Sample(d, rtt) \in Int
    BY <2>1 DEF Sample
  <2>3. Success(config, link[q], d, rtt).failures = 0
    BY <1>1, <2>1, <2>2, SmoothedType, SuccessFailures
  <2>4. link[q].failures \in Nat
    BY <1>1 DEF LinkState
  <2> QED BY <1>2, <1>6, <2>3, <2>4 DEF RecordSuccess
<1>7. ASSUME NEW c \in Configs, UpdateConfig(c)
      PROVE  FALSE
  <2>1. link'[p] \in {link[p], Clamp(Len(c.bands), link[p])}
    BY <1>1, <1>7 DEF UpdateConfig
  <2>2. link'[p].failures = link[p].failures
    BY <1>1, <2>1, ClampFailures
  <2> QED BY <1>1, <2>2
<1>8. ASSUME NEW q \in Peers, RecordFailure(q)
      PROVE  FailureReported(config, link'[p])
  <2>1. /\ link' = [link EXCEPT ![q] = Failure(link[q])]
        /\ config' = config /\ p \in known'
    BY <1>8 DEF RecordFailure, Store
  <2>2. p = q /\ link'[p] = Failure(link[p])
    BY <1>1, <2>1
  <2>3. CostOf(config, Failure(link[p])) # CostOf(config, link[p])
    BY <2>1, <2>2 DEF CurrentCost
  <2> QED BY <1>1, <2>2, <2>3, FailureMovesAtLimit
<1>9. ~ UNCHANGED engineVars
  BY <1>1 DEF engineVars
<1> QED BY <1>3, <1>4, <1>5, <1>6, <1>7, <1>8, <1>9 DEF EngineNext

\* A failed probe that changes what a peer costs is reported as a change
\* (engine.go, RecordFailure), for any sequence of hot reloads that raise or
\* lower the failure limit in between: otherwise the agent would not rewrite
\* BIRD's file and the outage would stay unknown to OSPF.
THEOREM OutagesReported == EngineSpec => OutageReported
<1>1. EngineInv /\ [EngineNext]_engineVars
        => [\A p \in known :
              /\ link'[p].failures > link[p].failures
              /\ CurrentCost(p)' # CurrentCost(p)
              => FailureReported(config, link'[p])]_engineVars
  BY OutageStep
<1> QED BY EngineInvInit, EngineInvStep, <1>1, PTL DEF EngineSpec, OutageReported

-----------------------------------------------------------------------------
(***************************************************************************)
(* A band and its cost.  Distinct bands have distinct costs in every list  *)
(* that is accepted, and a surcharge keeps them apart, dividing included,  *)
(* unless the multiplication leaves the 32 bits of its type.               *)
(***************************************************************************)

\* validateCostBands compares neighbours; this is what follows for any two bands.
CostsIncrease ==
    \A c \in Configs \cup {InitConfig} :
       \A i, j \in 1..Len(c.bands) : i < j => c.bands[i].cost < c.bands[j].cost

\* Induction over the distance of two bands: from a least distance at which it fails.
LEMMA BandCostsIncrease == CostsIncrease
<1> SUFFICES ASSUME NEW c \in Configs \cup {InitConfig},
                    NEW i \in 1..Len(c.bands), NEW j \in 1..Len(c.bands), i < j
             PROVE  c.bands[i].cost < c.bands[j].cost
  BY DEF CostsIncrease
<1> DEFINE n == Len(c.bands)
           cost(k) == c.bands[k].cost
           Failing == {k \in 1..n : i < k /\ ~(cost(i) < cost(k))}
<1>1. n \in Nat /\ \A k \in 1..n : cost(k) \in Nat
  <2>1. c.bands \in Seq(Band)
    BY ConfigAssumption DEF WellFormed, EngineConfig
  <2>2. Len(c.bands) \in Nat /\ \A k \in 1..Len(c.bands) : c.bands[k] \in Band
    BY <2>1
  <2>3. \A b \in Band : b.cost \in Nat
    BY DEF Band
  <2>. QED  BY <2>2, <2>3
<1>2. \A k \in 2..n : cost(k-1) < cost(k)
  BY ConfigAssumption DEF WellFormed
<1> HIDE DEF cost, n
<1>3. ASSUME Failing # {} PROVE FALSE
  <2>1. Failing \in SUBSET Nat
    BY <1>1
  <2>2. PICK k \in Failing : \A y \in Failing : <<y, k>> \notin OpToRel(<, Nat)
    <3> HIDE DEF Failing
    <3>. QED  BY <1>3, <2>1, WFMin, NatLessThanWellFounded, Zenon
  <2>3. ASSUME NEW y \in Failing PROVE ~(y < k)
    BY <2>1, <2>2, <2>3, Zenon DEF OpToRel
  <2>4. k \in 1..n /\ i \in 1..n /\ i < k /\ ~(cost(i) < cost(k))
    BY DEF n
  <2>5. k \in 2..n /\ k - 1 \in 1..n /\ i <= k - 1
    BY <1>1, <2>4
  <2>6. cost(k-1) < cost(k) /\ cost(i) \in Nat /\ cost(k-1) \in Nat /\ cost(k) \in Nat
    BY <1>1, <1>2, <2>4, <2>5
  <2>7. CASE i = k - 1
    BY <2>4, <2>6, <2>7
  <2>8. CASE i < k - 1
    <3>1. k - 1 \in Failing
      BY <2>4, <2>5, <2>6, <2>8
    <3>2. k - 1 < k
      BY <2>5, <1>1
    <3>. QED  BY <2>3, <3>1, <3>2
  <2>. QED  BY <1>1, <2>4, <2>5, <2>7, <2>8
<1>4. j \in 1..n /\ i < j
  BY DEF n
<1>5. cost(i) < cost(j)
  BY <1>3, <1>4
<1>. QED  BY <1>5 DEF cost

\* The settings in use are settings that were given.
GivenInv ==
    /\ config \in Configs \cup {InitConfig}
    /\ \A p \in Peers : link[p].bw \in Surcharges \cup {0}

\* A higher cost has a higher surcharged cost.
LEMMA SurchargedApart ==
    ASSUME NEW a \in Nat, NEW b \in Nat, a < b, NEW n \in Nat,
           n > 0 => b * (1000 + n * 10) < Word
    PROVE  Surcharged(a, n) # Surcharged(b, n)
<1>0. CASE ~(n > 0)
  BY <1>0 DEF Surcharged
<1> SUFFICES ASSUME n > 0 PROVE Surcharged(a, n) # Surcharged(b, n)
  BY <1>0
<1> DEFINE f == 1000 + n * 10
           x == a * f
           y == b * f
<1>1. f \in Nat /\ f >= 1000
  OBVIOUS
<1> HIDE DEF f
<1>2. /\ x \in Nat /\ y \in Nat /\ Word \in Nat
      /\ y = x + (b - a) * f
  BY <1>1, WordAssumption
<1>3. (b - a) * f >= f
  <2>1. (b - a) * f = f + (b - a - 1) * f
    BY <1>1
  <2>2. (b - a - 1) * f >= 0
    BY <1>1
  <2> QED BY <1>1, <2>1, <2>2
<1>4. (b - a) * f \in Int /\ y >= x + 1000
  BY <1>1, <1>2, <1>3
<1>5. y < Word
  BY DEF f
<1> HIDE DEF x, y
<1>6. x % Word = x /\ y % Word = y
  BY <1>2, <1>4, <1>5
<1>7. x \div 1000 < y \div 1000
  BY <1>2, <1>4
<1> QED BY <1>6, <1>7 DEF Surcharged, f, x, y

\* The surcharge of every call's result.
LEMMA RebandedSurcharge ==
    ASSUME NEW s \in LinkState, NEW cur, NEW pend, NEW n
    PROVE  Rebanded(s, cur, pend, n).bw = s.bw
BY DEF Rebanded, LinkState

LEMMA SuccessSurcharge ==
    ASSUME NEW c, NEW s \in LinkState, NEW forward, NEW rtt,
           Smoothed(s, Sample(forward, rtt), c.alpha) \in Int
    PROVE  Success(c, s, forward, rtt).bw = s.bw
<1> DEFINE d == Smoothed(s, Sample(forward, rtt), c.alpha)
           m == [s EXCEPT !.failures = 0, !.delay = d]
<1>1. m \in LinkState /\ m.bw = s.bw
  <2>1. d \in Int
    OBVIOUS
  <2> HIDE DEF d
  <2> QED BY <2>1 DEF LinkState
<1>2. Success(c, s, forward, rtt) = EvaluateBand(c.bands, m)
  BY DEF Success
<1> HIDE DEF m
<1>3. PICK b, q, h : EvaluateBand(c.bands, m) = Rebanded(m, b, q, h)
  BY DEF EvaluateBand
<1> QED BY <1>1, <1>2, <1>3, RebandedSurcharge

\* Only SetBandwidthPenalty changes a surcharge, only UpdateConfig the settings.
LEMMA GivenStep == ASSUME EngineInv, GivenInv, [EngineNext]_engineVars PROVE GivenInv'
<1>1. /\ link \in [Peers -> LinkState] /\ WellFormed(config)
      /\ \A q \in Peers : link[q] \in LinkState
  BY DEF EngineInv, EngineTypeOK
<1>2. ASSUME NEW q \in Peers, NEW s, Store(q, s), s.bw \in Surcharges \cup {0}
      PROVE  GivenInv'
  BY <1>1, <1>2 DEF Store, GivenInv
<1>3. ASSUME NEW q \in Peers, NEW cost \in Costs, SetStaticCost(q, cost)
      PROVE  GivenInv'
  <2>1. [link[q] EXCEPT !.static = cost].bw = link[q].bw
    BY <1>1 DEF LinkState
  <2> QED BY <1>2, <1>3, <2>1 DEF SetStaticCost, GivenInv
<1>4. ASSUME NEW q \in Peers, NEW cost \in Costs, SetFallbackCost(q, cost)
      PROVE  GivenInv'
  <2>1. [link[q] EXCEPT !.fallback = cost].bw = link[q].bw
    BY <1>1 DEF LinkState
  <2> QED BY <1>2, <1>4, <2>1 DEF SetFallbackCost, GivenInv
<1>5. ASSUME NEW q \in Peers, NEW n \in Surcharges, SetBandwidthPenalty(q, n)
      PROVE  GivenInv'
  <2>1. [link[q] EXCEPT !.bw = n].bw = n
    BY <1>1 DEF LinkState
  <2> QED BY <1>2, <1>5, <2>1 DEF SetBandwidthPenalty
<1>6. ASSUME NEW q \in Peers, NEW d \in Delays, NEW rtt \in Rtts, RecordSuccess(q, d, rtt)
      PROVE  GivenInv'
  <2>1. d \in Int /\ rtt \in Nat /\ config.alpha \in 0..100
    BY <1>1, InputAssumption DEF WellFormed, EngineConfig
  <2>2. Sample(d, rtt) \in Int
    BY <2>1 DEF Sample
  <2>3. Smoothed(link[q], Sample(d, rtt), config.alpha) \in Int
    BY <1>1, <2>1, <2>2, SmoothedType
  <2>4. Success(config, link[q], d, rtt).bw = link[q].bw
    BY <1>1, <2>3, SuccessSurcharge
  <2> QED BY <1>2, <1>6, <2>4 DEF RecordSuccess, GivenInv
<1>7. ASSUME NEW q \in Peers, RecordFailure(q)
      PROVE  GivenInv'
  <2>1. Failure(link[q]).bw = link[q].bw
    BY <1>1 DEF Failure, LinkState
  <2> QED BY <1>2, <1>7, <2>1 DEF RecordFailure, GivenInv
<1>8. ASSUME NEW c \in Configs, UpdateConfig(c)
      PROVE  GivenInv'
  <2>1. ASSUME NEW q \in Peers
        PROVE  link'[q].bw = link[q].bw
    <3>1. link'[q] = link[q] \/ link'[q] = Clamp(Len(c.bands), link[q])
      BY <1>8 DEF UpdateConfig
    <3>2. Clamp(Len(c.bands), link[q]).bw = link[q].bw
      <4>1. PICK b, t, h : Clamp(Len(c.bands), link[q]) = Rebanded(link[q], b, t, h)
        BY DEF Clamp
      <4> QED BY <1>1, <4>1, RebandedSurcharge
    <3> QED BY <3>1, <3>2
  <2> QED BY <1>8, <2>1 DEF UpdateConfig, GivenInv
<1>9. CASE UNCHANGED engineVars
  BY <1>9 DEF engineVars, GivenInv
<1> QED BY <1>3, <1>4, <1>5, <1>6, <1>7, <1>8, <1>9 DEF EngineNext

\* The cost of a reachable peer without a static cost is that of its band, and
\* no two bands have the same.
LEMMA MovesWithBand ==
    ASSUME NoOverflow, EngineInv, EngineInv', GivenInv, [EngineNext]_engineVars,
           NEW p \in known, config' = config,
           ~Unreachable(config, link[p]), ~Unreachable(config, link'[p]),
           link'[p].static = None, link'[p].bw = link[p].bw, link'[p].static = link[p].static
    PROVE  CurrentCost(p)' # CurrentCost(p) <=> SuccessReported(link[p], link'[p])
<1> DEFINE n == link[p].bw
           cost(i) == config.bands[i].cost
<1>1. /\ p \in Peers /\ config \in Configs \cup {InitConfig}
      /\ n \in Surcharges \cup {0} /\ n \in Nat
      /\ link[p].current \in 1..Len(config.bands)
      /\ link'[p].current \in 1..Len(config.bands)
      /\ Len(config.bands) \in Nat
  <2>1. p \in Peers /\ config.bands \in Seq(Band)
    BY DEF EngineInv, EngineTypeOK, EngineConfig
  <2>2. link[p].current \in 1..Len(config.bands) /\ link'[p].current \in 1..Len(config.bands)
    BY <2>1 DEF EngineInv, BandsInRange
  <2>3. n \in Surcharges \cup {0}
    BY <2>1 DEF GivenInv
  <2>4. Surcharges \cup {0} \subseteq Nat
    BY InputAssumption
  <2>5. Len(config.bands) \in Nat
    BY <2>1
  <2> QED BY <2>1, <2>2, <2>3, <2>4, <2>5, Zenon DEF GivenInv
<1>2. \A i \in 1..Len(config.bands) : cost(i) \in Nat
  <2>1. config.bands \in Seq(Band)
    BY DEF EngineInv, EngineTypeOK, EngineConfig
  <2>2. \A i \in 1..Len(config.bands) : config.bands[i] \in Band
    BY <2>1
  <2> QED BY <2>2 DEF Band
<1>3. p \in known'
  BY DEF EngineNext, SetStaticCost, SetFallbackCost, SetBandwidthPenalty, RecordSuccess,
     RecordFailure, Store, UpdateConfig, engineVars
<1>4. CurrentCost(p) = Surcharged(cost(link[p].current), n)
  BY <1>1 DEF CurrentCost, CostOf
<1>5. CurrentCost(p)' = Surcharged(cost(link'[p].current), n)
  BY <1>1, <1>3 DEF CurrentCost, CostOf
<1>6. ASSUME NEW i \in 1..Len(config.bands), NEW j \in 1..Len(config.bands), i < j
      PROVE  Surcharged(cost(i), n) # Surcharged(cost(j), n)
  <2>1. cost(i) < cost(j)
    BY <1>1, <1>6, BandCostsIncrease DEF CostsIncrease
  <2>2. n > 0 => cost(j) * (1000 + n * 10) < Word
    <3>1. n > 0 => n \in Surcharges
      BY <1>1
    <3>. QED  BY <1>1, <3>1 DEF NoOverflow
  <2> HIDE DEF cost, n
  <2> QED BY <1>1, <1>2, <2>1, <2>2, SurchargedApart
<1> HIDE DEF cost, n
<1>7. CASE link'[p].current = link[p].current
  BY <1>4, <1>5, <1>7 DEF SuccessReported
<1>8. CASE link'[p].current < link[p].current \/ link[p].current < link'[p].current
  <2>1. Surcharged(cost(link'[p].current), n) # Surcharged(cost(link[p].current), n)
    BY <1>1, <1>6, <1>8
  <2>2. link'[p].current # link[p].current
    BY <1>1, <1>8
  <2> QED BY <1>4, <1>5, <2>1, <2>2 DEF SuccessReported
<1> QED BY <1>1, <1>7, <1>8

\* What RecordSuccess returns is exactly whether the advertised cost moved
\* (engine.go, RecordSuccess and CurrentCost), for every band list the loader
\* accepts and every surcharge, as long as no product exceeds 32 bits.
THEOREM MovesReported ==
    ASSUME NoOverflow
    PROVE  EngineSpec => ReportedIffCostMoves
<1>1. EngineInit => GivenInv
  BY DEF EngineInit, GivenInv, ZeroState
<1>2. EngineInv /\ GivenInv /\ [EngineNext]_engineVars => GivenInv'
  BY GivenStep
<1>3. EngineInv /\ EngineInv' /\ GivenInv /\ [EngineNext]_engineVars
        => [\A p \in known :
              /\ config' = config
              /\ ~Unreachable(config, link[p]) /\ ~Unreachable(config, link'[p])
              /\ link'[p].static = None
              /\ link'[p].bw = link[p].bw /\ link'[p].static = link[p].static
              => (CurrentCost(p)' # CurrentCost(p)
                    <=> SuccessReported(link[p], link'[p]))]_engineVars
  BY MovesWithBand
<1> QED BY EngineInvInit, EngineInvStep, <1>1, <1>2, <1>3, PTL
        DEF EngineSpec, ReportedIffCostMoves

-----------------------------------------------------------------------------
(***************************************************************************)
(* A change of band is earned (CostHistory).                               *)
(***************************************************************************)

\* While the engine counts towards a band, the last results asked for it, at least as
\* many as it counted.
Lower(m, n) == IF m < n THEN m ELSE n
CountInv ==
    /\ config \in Configs \cup {InitConfig}
    /\ run \in [Peers -> [band : Nat, length : Nat]]
    /\ \A p \in Peers : link[p].hold > 0 =>
          /\ run[p].band = link[p].pending
          /\ run[p].length >= Lower(link[p].hold, MaxRun)

HistoryInv == EngineInv /\ CountInv

\* What evaluateBand makes of the counter: the band asked for is the band it is in, is
\* reached, or is counted towards.
LEMMA SuccessCounts ==
    ASSUME NEW c, WellFormed(c), NEW s \in LinkState, InRange(Len(c.bands), s),
           NEW forward \in Int, NEW rtt \in Nat, NEW t, t = Success(c, s, forward, rtt),
           NEW target, target = Target(c.bands, s.current, t.delay)
    PROVE  /\ target \in 1..Len(c.bands) /\ target \in Nat
           /\ \/ /\ t.current = s.current /\ t.hold = 0
              \/ /\ target # s.current /\ t.current = target /\ t.hold = 0
                 /\ Votes(s, target) >= c.bands[target].hold
              \/ /\ t.current = s.current /\ t.pending = target
                 /\ t.hold = Votes(s, target)
<1> DEFINE d == Smoothed(s, Sample(forward, rtt), c.alpha)
           m == [s EXCEPT !.failures = 0, !.delay = d]
<1>1. c.bands \in Seq(Band) /\ c.alpha \in 0..100
  BY DEF WellFormed, EngineConfig
<1>2. d \in Int
  <2>1. Sample(forward, rtt) \in Int
    BY DEF Sample
  <2>. QED  BY <1>1, <2>1, SmoothedType
<1>3. /\ m \in LinkState /\ InRange(Len(c.bands), m) /\ m.delay = d
      /\ m.current = s.current /\ m.pending = s.pending /\ m.hold = s.hold
  <2> HIDE DEF d
  <2>. QED  BY <1>2 DEF LinkState, InRange
<1>4. t = EvaluateBand(c.bands, m)
  BY DEF Success
<1> HIDE DEF d, m
<1>5. t.delay = d
  BY <1>1, <1>3, <1>4, EvaluateBandType
<1>6. target = Target(c.bands, m.current, m.delay)
  BY <1>3, <1>5
<1>7. target \in 1..Len(c.bands) /\ target \in Nat
  <2>1. m.current \in 1..Len(c.bands) /\ m.delay \in Int
    BY <1>3 DEF InRange, LinkState
  <2>2. target \in 1..Len(c.bands)
    BY <1>1, <1>6, <2>1, TargetInRange
  <2>. QED  BY <1>1, <2>2
<1>8. Votes(m, target) = Votes(s, target)
  BY <1>3 DEF Votes
<1>9. ASSUME NEW cur, NEW pend, NEW n, t = Rebanded(m, cur, pend, n)
      PROVE  t.current = cur /\ t.pending = pend /\ t.hold = n
  BY <1>3, <1>9 DEF Rebanded, LinkState
<1>10. \/ t = Rebanded(m, m.current, m.current, 0)
       \/ /\ target # m.current /\ t = Rebanded(m, target, target, 0)
          /\ Votes(m, target) >= c.bands[target].hold
       \/ t = Rebanded(m, m.current, target, Votes(m, target))
  BY <1>4, <1>6 DEF EvaluateBand
<1>. QED  BY <1>3, <1>7, <1>8, <1>9, <1>10

\* The other calls keep a peer's counter or reset it, and only a reload may move its band.
LEMMA OtherCallsKeep ==
    ASSUME EngineInv, OtherCall, NEW p \in Peers
    PROVE  /\ \/ link'[p].hold = link[p].hold /\ link'[p].pending = link[p].pending
              \/ link'[p].hold = 0
           /\ config' = config => link'[p].current = link[p].current
<1>1. /\ link \in [Peers -> LinkState] /\ link[p] \in LinkState
      /\ InRange(Len(config.bands), link[p]) /\ WellFormed(config)
  BY DEF EngineInv, EngineTypeOK, BandsInRange, InRange
<1>2. ASSUME NEW q \in Peers, NEW s, Store(q, s),
             /\ s.current = link[q].current /\ s.pending = link[q].pending
             /\ s.hold = link[q].hold
      PROVE  /\ link'[p].hold = link[p].hold /\ link'[p].pending = link[p].pending
             /\ link'[p].current = link[p].current
  BY <1>1, <1>2 DEF Store
<1>3. ASSUME NEW c \in Configs, UpdateConfig(c)
      PROVE  /\ \/ link'[p].hold = link[p].hold /\ link'[p].pending = link[p].pending
                \/ link'[p].hold = 0
             /\ config' = config => link'[p].current = link[p].current
  <2>1. CASE link'[p] = link[p]
    BY <2>1
  <2>2. CASE link'[p] = Clamp(Len(c.bands), link[p])
    <3> DEFINE n == Len(c.bands)
               cur == IF link[p].current > n THEN n ELSE link[p].current
    <3>1. ASSUME NEW pend, NEW h, link'[p] = Rebanded(link[p], cur, pend, h)
          PROVE  link'[p].current = cur /\ link'[p].pending = pend /\ link'[p].hold = h
      <4> HIDE DEF cur
      <4>. QED  BY <1>1, <3>1 DEF Rebanded, LinkState
    <3>2. \/ link'[p] = Rebanded(link[p], cur, cur, 0)
          \/ link'[p] = Rebanded(link[p], cur, link[p].pending, link[p].hold)
      BY <2>2 DEF Clamp
    <3>3. config' = config => cur = link[p].current
      <4>1. config' = c
        BY <1>3 DEF UpdateConfig
      <4>2. config.bands \in Seq(Band)
        BY <1>1 DEF WellFormed, EngineConfig
      <4>. QED  BY <1>1, <4>1, <4>2 DEF InRange
    <3> HIDE DEF cur, n
    <3>. QED  BY <3>1, <3>2, <3>3
  <2>. QED  BY <1>3, <2>1, <2>2 DEF UpdateConfig
<1>4. ASSUME NEW q \in Peers, NEW cost \in Costs, SetStaticCost(q, cost)
      PROVE  /\ link'[p].hold = link[p].hold /\ link'[p].pending = link[p].pending
             /\ link'[p].current = link[p].current
  BY <1>1, <1>2, <1>4 DEF SetStaticCost, LinkState
<1>5. ASSUME NEW q \in Peers, NEW cost \in Costs, SetFallbackCost(q, cost)
      PROVE  /\ link'[p].hold = link[p].hold /\ link'[p].pending = link[p].pending
             /\ link'[p].current = link[p].current
  BY <1>1, <1>2, <1>5 DEF SetFallbackCost, LinkState
<1>6. ASSUME NEW q \in Peers, NEW n \in Surcharges, SetBandwidthPenalty(q, n)
      PROVE  /\ link'[p].hold = link[p].hold /\ link'[p].pending = link[p].pending
             /\ link'[p].current = link[p].current
  BY <1>1, <1>2, <1>6 DEF SetBandwidthPenalty, LinkState
<1>7. ASSUME NEW q \in Peers, RecordFailure(q)
      PROVE  /\ link'[p].hold = link[p].hold /\ link'[p].pending = link[p].pending
             /\ link'[p].current = link[p].current
  BY <1>1, <1>2, <1>7 DEF RecordFailure, Failure, LinkState
<1>. QED  BY <1>3, <1>4, <1>5, <1>6, <1>7 DEF OtherCall

\* A measurement: the row that is counted, and the band that is reached.
LEMMA MeasureCounts ==
    ASSUME HistoryInv, HoldsCounted, NEW q \in Peers, NEW d \in Delays, NEW rtt \in Rtts,
           Measure(q, d, rtt), NEW p \in Peers
    PROVE  /\ run'[p] \in [band : Nat, length : Nat]
           /\ link'[p].hold > 0 =>
                 run'[p].band = link'[p].pending /\ run'[p].length >= Lower(link'[p].hold, MaxRun)
           /\ link'[p].current # link[p].current =>
                 /\ run'[p].band = link'[p].current
                 /\ run'[p].length >= config.bands[link'[p].current].hold
<1>1. /\ link \in [Peers -> LinkState] /\ link[p] \in LinkState
      /\ InRange(Len(config.bands), link[p]) /\ WellFormed(config)
      /\ run \in [Peers -> [band : Nat, length : Nat]]
  BY DEF HistoryInv, CountInv, EngineInv, EngineTypeOK, BandsInRange, InRange
<1>2. CASE p # q
  <2>1. link'[p] = link[p] /\ run'[p] = run[p]
    BY <1>1, <1>2 DEF Measure, RecordSuccess, Store
  <2>. QED  BY <1>1, <2>1 DEF HistoryInv, CountInv
<1>3. CASE p = q
  <2> DEFINE s == link[p]
             t == link'[p]
             r == run[p]
             target == Target(config.bands, s.current, t.delay)
  <2>1. t = Success(config, s, d, rtt) /\ run'[p] = Extend(r, target)
    BY <1>1, <1>3 DEF Measure, RecordSuccess, Store, Asked
  <2>2. /\ target \in 1..Len(config.bands) /\ target \in Nat
        /\ \/ /\ t.current = s.current /\ t.hold = 0
           \/ /\ target # s.current /\ t.current = target /\ t.hold = 0
              /\ Votes(s, target) >= config.bands[target].hold
           \/ /\ t.current = s.current /\ t.pending = target
              /\ t.hold = Votes(s, target)
    <3>1. d \in Int /\ rtt \in Nat
      BY InputAssumption
    <3>2. \A x : x = target => x = Target(config.bands, s.current, t.delay)
      OBVIOUS
    <3> HIDE DEF target, s, t
    <3>. QED  BY <1>1, <2>1, <3>1, <3>2, SuccessCounts DEF s
  <2>3. r \in [band : Nat, length : Nat] /\ s.hold \in Nat /\ MaxRun \in Nat
    BY <1>1 DEF LinkState, HoldsCounted
  <2>4. s.hold > 0 => r.band = s.pending /\ r.length >= Lower(s.hold, MaxRun)
    BY DEF HistoryInv, CountInv
  <2>5. s.hold = 0 \/ s.hold > 0
    BY <2>3
  <2>6. config.bands[target].hold \in Nat /\ config.bands[target].hold <= MaxRun
    <3>1. config.bands \in Seq(Band) /\ DOMAIN config.bands = 1..Len(config.bands)
      BY <1>1 DEF WellFormed, EngineConfig
    <3>2. config.bands[target] \in Band
      BY <2>2, <3>1
    <3>. QED  BY <2>2, <3>1, <3>2 DEF HistoryInv, CountInv, HoldsCounted, Band
  <2> HIDE DEF target, s, t, r
  <2>7. /\ Extend(r, target).band = target
        /\ Extend(r, target) \in [band : Nat, length : Nat]
        /\ Extend(r, target).length =
             IF r.band = target THEN IF r.length < MaxRun THEN r.length + 1 ELSE r.length
             ELSE 1
    BY <2>2, <2>3 DEF Extend
  <2>8. Votes(s, target) \in Nat /\ Extend(r, target).length >= Lower(Votes(s, target), MaxRun)
    <3>1. r.length \in Nat /\ Extend(r, target).length \in Nat
      BY <2>3, <2>7
    <3>2. CASE target = s.pending /\ s.hold > 0
      BY <2>3, <2>4, <2>7, <3>1, <3>2 DEF Votes, Lower
    <3>3. CASE ~(target = s.pending /\ s.hold > 0)
      <4>1. Votes(s, target) = 1
        BY <2>3, <2>5, <3>3 DEF Votes
      <4>2. Lower(1, MaxRun) <= 1 /\ Lower(1, MaxRun) <= MaxRun
        BY <2>3 DEF Lower
      <4>3. \/ Extend(r, target).length >= 1
            \/ (r.length >= MaxRun /\ Extend(r, target).length = r.length)
        <5>1. CASE r.band = target /\ r.length < MaxRun
          BY <2>3, <2>7, <3>1, <5>1
        <5>2. CASE r.band = target /\ ~(r.length < MaxRun)
          BY <2>3, <2>7, <3>1, <5>2
        <5>3. CASE r.band # target
          BY <2>7, <3>1, <5>3
        <5>. QED  BY <5>1, <5>2, <5>3
      <4>. QED  BY <2>3, <3>1, <4>1, <4>2, <4>3 DEF Lower
    <3>. QED  BY <3>2, <3>3
  <2>9. Votes(s, target) >= config.bands[target].hold
          => Extend(r, target).length >= config.bands[target].hold
    <3>1. Extend(r, target).length \in Nat
      BY <2>7
    <3>. QED  BY <2>3, <2>6, <2>8, <3>1 DEF Lower
  <2>10. t.hold > 0 => t.pending = target /\ t.hold = Votes(s, target)
    BY <2>2
  <2>11. t.current # s.current =>
            t.current = target /\ Votes(s, target) >= config.bands[target].hold
    BY <2>2
  <2>. QED  BY <2>1, <2>7, <2>8, <2>9, <2>10, <2>11 DEF s, t
<1>. QED  BY <1>2, <1>3

LEMMA HistoryStep ==
    ASSUME HistoryInv, HoldsCounted, [HistoryNext]_historyVars
    PROVE  HistoryInv'
<1>1. EngineInv'
  <2>1. [HistoryNext]_historyVars => [EngineNext]_engineVars
    BY DEF HistoryNext, historyVars, engineVars, EngineNext, Measure, OtherCall
  <2>. QED  BY <2>1, EngineInvStep DEF HistoryInv
<1>2. config' \in Configs \cup {InitConfig}
  BY DEF HistoryInv, CountInv, HistoryNext, historyVars, Measure, OtherCall, RecordSuccess,
         RecordFailure, SetStaticCost, SetFallbackCost, SetBandwidthPenalty, UpdateConfig, Store
<1>3. CASE OtherCall
  <2>1. run' = run
    BY <1>3 DEF OtherCall
  <2>. QED  BY <1>1, <1>2, <1>3, <2>1, OtherCallsKeep DEF HistoryInv, CountInv
<1>4. ASSUME NEW q \in Peers, NEW d \in Delays, NEW rtt \in Rtts, Measure(q, d, rtt)
      PROVE  HistoryInv'
  <2>1. run' = [p \in Peers |-> run'[p]]
    BY <1>4 DEF Measure, HistoryInv, CountInv
  <2>2. run' \in [Peers -> [band : Nat, length : Nat]]
    <3>1. \A p \in Peers : run'[p] \in [band : Nat, length : Nat]
      BY <1>4, MeasureCounts
    <3>. QED  BY <2>1, <3>1
  <2>3. \A p \in Peers : link'[p].hold > 0 =>
          run'[p].band = link'[p].pending /\ run'[p].length >= Lower(link'[p].hold, MaxRun)
    BY <1>4, MeasureCounts
  <2>. QED  BY <1>1, <1>2, <2>2, <2>3 DEF HistoryInv, CountInv
<1>5. CASE UNCHANGED historyVars
  BY <1>1, <1>5 DEF HistoryInv, CountInv, historyVars
<1>. QED  BY <1>3, <1>4, <1>5 DEF HistoryNext

\* README "Band transitions require 5 consecutive probes in the new band": for every
\* band list with holds that the count reaches, and any failures, settings and reloads
\* in between, a band is entered only when the last hold measurements asked for it.
THEOREM BandChangesEarned == HoldsCounted => (HistorySpec => BandChangeEarned)
<1> SUFFICES ASSUME HoldsCounted PROVE HistorySpec => BandChangeEarned
  OBVIOUS
<1>1. HistoryInit => HistoryInv
  <2>1. HistoryInit => EngineInv
    BY EngineInvInit DEF HistoryInit
  <2>2. HistoryInit => CountInv
    BY DEF HistoryInit, EngineInit, CountInv, ZeroState, NoRun
  <2>. QED  BY <2>1, <2>2 DEF HistoryInv
<1>2. HistoryInv /\ [HistoryNext]_historyVars => HistoryInv'
  BY HistoryStep
<1>3. HistoryInv /\ [HistoryNext]_historyVars =>
        [\A p \in Peers :
            config' = config /\ link'[p].current # link[p].current
              => /\ run'[p].band = link'[p].current
                 /\ run'[p].length >= config.bands[link'[p].current].hold]_historyVars
  <2> SUFFICES ASSUME HistoryInv, HistoryNext, NEW p \in Peers,
                      config' = config, link'[p].current # link[p].current
               PROVE  /\ run'[p].band = link'[p].current
                      /\ run'[p].length >= config.bands[link'[p].current].hold
    OBVIOUS
  <2>1. PICK q \in Peers, d \in Delays, rtt \in Rtts : Measure(q, d, rtt)
    BY OtherCallsKeep DEF HistoryNext, HistoryInv
  <2>. QED  BY <2>1, MeasureCounts
<1>. QED  BY <1>1, <1>2, <1>3, PTL DEF HistorySpec, BandChangeEarned
=============================================================================
