----------------------------- MODULE CostBands -----------------------------
(***************************************************************************)
(* The arithmetic of internal/cost/engine.go: how one peer's smoothed      *)
(* delay selects a cost band, how a band change is held back, and which    *)
(* OSPF cost a peer is worth.  Nothing here has state: CostEngine and the  *)
(* modules that compose it apply these operators to the records they keep. *)
(*                                                                         *)
(* A band list is a sequence, so band i of the Go slice is band i + 1      *)
(* here.  Delays are integers (the unit is irrelevant), the EWMA factor is *)
(* a percentage, and a nil *uint32 is None.                                *)
(***************************************************************************)
EXTENDS Integers, FiniteSets, Sequences

CONSTANTS
    None,   \* a nil *uint32: no static or no fallback cost configured
    Word    \* uint32 arithmetic is modulo Word (2^32 in the build)

ASSUME WordAssumption == Word \in Nat \ {0}
ASSUME NoneAssumption == None \notin Int

(***************************************************************************)
(* Types.  A configuration is what Engine.UpdateConfig receives.           *)
(***************************************************************************)
Band == [up : Int, down : Int, cost : Nat, hold : Nat]

EngineConfig == [bands : Seq(Band), penalty : Nat, alpha : 0..100, limit : Int]

\* A config accepted by validateCostBands, as the agent receives it.  Rounding
\* thresholds to whole milliseconds keeps up >= down but may merge two ups, so
\* the strict increase of the thresholds is not assumed.
WellFormed(c) ==
    /\ c \in EngineConfig
    /\ Len(c.bands) > 0
    /\ \A i \in 1..Len(c.bands) : c.bands[i].hold > 0
    /\ \A i \in 2..Len(c.bands) :
          /\ c.bands[i].down <= c.bands[i].up
          /\ c.bands[i-1].cost < c.bands[i].cost

OptCost == Nat \cup {None}

LinkState == [delay : Int, current : Nat, pending : Nat, hold : Nat,
              failures : Nat, static : OptCost, fallback : OptCost, bw : Nat]

\* &LinkState{}, the zero value getState stores for a peer it meets first.
ZeroState == [delay |-> 0, current |-> 1, pending |-> 1, hold |-> 0,
              failures |-> 0, static |-> None, fallback |-> None, bw |-> 0]

-----------------------------------------------------------------------------
(***************************************************************************)
(* Which band a delay asks for.                                            *)
(***************************************************************************)

\* Mutant: the upward scan looks one band ahead only.
ClimbOne(bands, cur, d) ==
    IF cur < Len(bands) /\ d >= bands[cur+1].up THEN 1 ELSE 0

\* How many bands above cur the delay has reached without a gap: the number
\* of iterations of the upward scan before its break.
Climb(bands, cur, d) ==
    Cardinality({i \in cur+1..Len(bands) :
                    \A j \in cur+1..i : d >= bands[j].up})

\* How many bands below cur the delay has left without a gap.  A band is left
\* downwards through the down threshold of the band above the one entered.
Drop(bands, cur, d) ==
    Cardinality({i \in 1..cur-1 :
                    \A j \in i..cur-1 : d < bands[j+1].down})

Target(bands, cur, d) ==
    IF Climb(bands, cur, d) > 0
      THEN cur + Climb(bands, cur, d)
      ELSE cur - Drop(bands, cur, d)

(***************************************************************************)
(* evaluateBand: the band asked for is adopted once it has been asked for  *)
(* bands[target].hold times in a row.                                      *)
(***************************************************************************)
Rebanded(s, current, pending, hold) ==
    [s EXCEPT !.current = current, !.pending = pending, !.hold = hold]

\* Mutants: a change of pending band keeps the count; a repeat is not counted.
VotesAny(s, target) == s.hold + 1
VotesOnce(s, target) == IF target = s.pending THEN s.hold ELSE 1

Votes(s, target) == IF target = s.pending THEN s.hold + 1 ELSE 1

EvaluateBand(bands, s) ==
    LET target == Target(bands, s.current, s.delay)
    IN  IF target = s.current
          THEN Rebanded(s, s.current, s.current, 0)
        ELSE IF Votes(s, target) >= bands[target].hold
          THEN Rebanded(s, target, target, 0)
          ELSE Rebanded(s, s.current, target, Votes(s, target))

-----------------------------------------------------------------------------
(***************************************************************************)
(* Measurements.                                                           *)
(***************************************************************************)
Ewma(old, sample, alpha) == (alpha * sample + (100 - alpha) * old) \div 100

\* The delay a probe contributes: rtt/2 stands in for a missing forward delay.
Sample(forward, rtt) == IF forward <= 0 THEN rtt \div 2 ELSE forward

Smoothed(s, sample, alpha) ==
    IF s.delay = 0 THEN sample ELSE Ewma(s.delay, sample, alpha)

Success(c, s, forward, rtt) ==
    EvaluateBand(c.bands,
        [s EXCEPT !.failures = 0,
                  !.delay = Smoothed(s, Sample(forward, rtt), c.alpha)])

Failure(s) == [s EXCEPT !.failures = s.failures + 1]

\* Mutant: the report comes one failure after the penalty.
ReportedLate(c, t) == t.failures = c.limit + 1

\* What RecordSuccess and RecordFailure return for the step from s to t.
SuccessReported(s, t) == t.current # s.current
FailureReported(c, t) == t.failures = c.limit

\* Mutant: the pending band is not clamped.
ClampCurrent(n, s) == IF s.current > n THEN [s EXCEPT !.current = n] ELSE s

\* UpdateConfig's clamp of one peer to a band list of n bands.
Clamp(n, s) ==
    LET cur == IF s.current > n THEN n ELSE s.current
    IN  IF s.pending > n
          THEN Rebanded(s, cur, cur, 0)
          ELSE Rebanded(s, cur, s.pending, s.hold)

-----------------------------------------------------------------------------
(***************************************************************************)
(* Costs.                                                                  *)
(***************************************************************************)
Unreachable(c, s) == s.failures >= c.limit

\* Mutant: dividing first, to stay clear of overflow, loses the cost.
SurchargedEarly(cost, bw) ==
    IF bw > 0 THEN (cost \div 1000) * (1000 + bw * 10) ELSE cost

Surcharged(cost, bw) ==
    IF bw > 0 THEN ((cost * (1000 + bw * 10)) % Word) \div 1000 ELSE cost

CostOf(c, s) ==
    IF s.static # None THEN s.static
    ELSE IF Unreachable(c, s)
      THEN IF s.fallback # None THEN s.fallback ELSE c.penalty
    ELSE IF s.current \notin 1..Len(c.bands) THEN c.penalty
    ELSE Surcharged(c.bands[s.current].cost, s.bw)

\* The Cisco-style penalty of a link, at config load time.
BandwidthPenalty(link, threshold, reference) ==
    LET lbw  == IF link <= 0 THEN 1 ELSE link
        diff == reference \div lbw - reference \div threshold
    IN  IF link >= threshold \/ diff < 0 THEN 0 ELSE diff
=============================================================================
