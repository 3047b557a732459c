CONSTANTS
    None = None
    MaxRecords = 3
    MaxFaults = 1
SPECIFICATION HealthFairSpec
INVARIANTS ShutdownStatusLast
PROPERTIES OwnRecordWritten ShutdownEnds
CHECK_DEADLOCK FALSE
