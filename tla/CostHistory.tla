---------------------------- MODULE CostHistory ----------------------------
(***************************************************************************)
(* CostEngine with a memory of its own: run[p] says for how many results   *)
(* in a row peer p has asked for the same band, whatever the engine's own  *)
(* counter says.                                                           *)
(***************************************************************************)
EXTENDS CostEngine

CONSTANT MaxRun   \* bound: run lengths are counted up to here

VARIABLE run

historyVars == <<config, known, link, run>>

\* What a count up to MaxRun can tell.
HoldsCounted ==
    /\ MaxRun \in Nat
    /\ \A c \in Configs \cup {InitConfig} : \A i \in DOMAIN c.bands : c.bands[i].hold <= MaxRun

NoRun == [band |-> 1, length |-> 0]

\* The band a result of p asked for is Target before the step, at the new delay.
Asked(p) == Target(config.bands, link[p].current, link'[p].delay)

Extend(r, band) ==
    IF r.band = band
      THEN [r EXCEPT !.length = IF @ < MaxRun THEN @ + 1 ELSE @]
      ELSE [band |-> band, length |-> 1]

HistoryInit == EngineInit /\ run = [p \in Peers |-> NoRun]

Measure(p, d, rtt) ==
    /\ RecordSuccess(p, d, rtt)
    /\ run' = [run EXCEPT ![p] = Extend(@, Asked(p))]

OtherCall ==
    /\ \/ \E p \in Peers : RecordFailure(p)
       \/ \E p \in Peers, cost \in Costs : SetStaticCost(p, cost)
       \/ \E p \in Peers, cost \in Costs : SetFallbackCost(p, cost)
       \/ \E p \in Peers, n \in Surcharges : SetBandwidthPenalty(p, n)
       \/ \E c \in Configs : UpdateConfig(c)
    /\ UNCHANGED run

HistoryNext ==
    \/ \E p \in Peers, d \in Delays, rtt \in Rtts : Measure(p, d, rtt)
    \/ OtherCall

HistorySpec == HistoryInit /\ [][HistoryNext]_historyVars

-----------------------------------------------------------------------------
\* README "Band transitions require 5 consecutive probes in the new band":
\* whenever a probe result changes the band, the last hold measurements asked
\* for that band, with failures, reloads and mode changes in between.  (Failed
\* probes do not break the row in the code: only measurements count.)
BandChangeEarned ==
    [][\A p \in Peers :
          config' = config /\ link'[p].current # link[p].current
            => /\ run'[p].band = link'[p].current
               /\ run'[p].length >= config.bands[link'[p].current].hold]_historyVars
=============================================================================
