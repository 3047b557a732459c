CONSTANTS
    None = None
    Word = 1048576
    Peers = {p1}
    Configs <- MCConfigs
    InitConfig <- Wide
    Delays <- MCDelays
    Rtts = {2}
    Costs = {150}
    Surcharges <- MCSurcharges
    MaxFailures = 4
    MaxRun = 3
SPECIFICATION HSpec
INVARIANTS BandsInRange
PROPERTIES SwitchSettles ReportedIffCostMoves OutageReported BandChangeEarned SteadyDelaySettles
