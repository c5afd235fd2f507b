CONSTANTS
    p1 = p1  p2 = p2  p3 = p3  a = a  b = b  c = c  d = d  h1 = h1  h2 = h2
    NoPath = NoPath  NoDate = NoDate
    Partitions <- MCPartitions
    Paths <- MCPaths
    Hours <- MCHours
    HourOf <- MCHourOf
    HitPaths <- MCHitPaths
    Log <- MCLog
    MaxRecords = 2
    MaxRuns = 2
    ConsumerTimeout = FALSE
    ConsumeErrors = FALSE
    WriteErrors = TRUE
    DeleteErrors = FALSE
    CommitErrors = FALSE
    Kills = FALSE
    LiveProducers = TRUE
    MaxLogStart = 0
    MaxCeiling = 1
SPECIFICATION Spec
INVARIANT NoDuplicateRows
