---------------------------- MODULE MCCostEngine ----------------------------
(***************************************************************************)
(* CostHistory for TLC, with one more variable: steady is the delay every  *)
(* peer has from the moment the network calms down, or None.  After any    *)
(* history of calls one delay is then measured for ever.                   *)
(***************************************************************************)
EXTENDS CostHistory

ASSUME BoundsAssumption == HoldsCounted /\ NoOverflow

VARIABLE steady

vars == <<historyVars, steady>>

MkBand(up, down, cost, hold) ==
    [up |-> up, down |-> down, cost |-> cost, hold |-> hold]

\* Three bands; one hold of 1 so that a jump of two bands also occurs.
Wide == [bands |-> <<MkBand(0, 0, 20, 2), MkBand(4, 2, 80, 2), MkBand(8, 6, 160, 1)>>,
         penalty |-> 65535, alpha |-> 50, limit |-> 2]

\* A reload that drops the top band, moves a threshold and the limit.
Narrow == [bands |-> <<MkBand(0, 0, 30, 2), MkBand(6, 3, 90, 3)>>,
           penalty |-> 65535, alpha |-> 100, limit |-> 1]

MCConfigs == {Wide, Narrow}
MCDelays == {0, 1, 3, 5, 9}

\* The penalties of links of 50 and 100 Mbit/s under the default threshold and
\* reference; the agent passes on the positive ones only.
MCSurcharges == {n \in {BandwidthPenalty(mbps, 300, 3000) : mbps \in {50, 100, 300}} : n > 0}

HInit == HistoryInit /\ steady = None

CalmDown(d) == steady = None /\ steady' = d /\ UNCHANGED historyVars

MeasureSteady(p) ==
    steady # None /\ (\E rtt \in Rtts : Measure(p, steady, rtt)) /\ UNCHANGED steady

HNext ==
    \/ steady = None /\ HistoryNext /\ UNCHANGED steady
    \/ \E d \in Delays : CalmDown(d)
    \/ \E p \in Peers : MeasureSteady(p)

\* doProbeRound is run by a ticker and records one result per probed peer.
HSpec ==
    HInit /\ [][HNext]_vars /\ \A p \in Peers : WF_vars(MeasureSteady(p))

\* Once the network is calm every peer comes to rest in the band its smoothed
\* delay asks for, with no change pending: the EWMA, the thresholds and the
\* hold counter of evaluateBand cannot chase each other for ever.
SteadyDelaySettles ==
    steady # None ~>
      [](\A p \in Peers : /\ Target(config.bands, link[p].current, link[p].delay)
                              = link[p].current
                          /\ link[p].hold = 0)
=============================================================================
