CONSTANTS
    None = None
    Ports = {1}
    SeqMod = 3
    Timeout = 2
    Skew <- Ahead
    MaxTime = 4
    MaxNet = 3
SPECIFICATION ProbeFairSpec
PROPERTIES MeasuresThisProbe ProbeEnds
CHECK_DEADLOCK FALSE
