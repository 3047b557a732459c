CONSTANTS
    None = None
    NoFile = NoFile
    Unlimited = Unlimited
    p1 = p1
    p2 = p2
    i1 = i1
    i2 = i2
    i3 = i3
    Word = 1048576
    Peers = {p1, p2}
    Ifaces = {i1, i2, i3}
    Scenarios <- Deployments
    InitConfig <- BuiltIn
    Configs = {}
    Delays = {1, 9}
    Rtts = {2}
    Costs = {}
    Surcharges = {}
    MaxFailures = 3
    DefaultPenalty = 65535
    DefaultAlpha = 30
    DefaultLimit = 2
    InitialCost = 100
SPECIFICATION DynFairSpec
INVARIANTS DynTypeOK OneTopology StaticCostKept ReloadPending
PROPERTIES TopologyConverges PenaltyLifted OutageReachesBird
