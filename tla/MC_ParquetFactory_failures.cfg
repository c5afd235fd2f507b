\* Every failure the code meets, timeouts and open errors included, over
\* three partitions with a record cap of one; no partition stops by itself,
\* so only the cap, errors and the timeout end the workers.
CONSTANTS
    p1 = p1  p2 = p2  p3 = p3  a = a  b = b  c = c  d = d  h1 = h1  h2 = h2
    NoPath = NoPath  NoDate = NoDate
    Partitions <- MCPartitions3
    Paths <- MCPaths
    Hours <- MCHours
    HourOf <- MCHourOf
    HitPaths <- MCHitPaths
    Log <- MCLogQuiet3
    MaxRecords = 1
    MaxRuns = 2
    ConsumerTimeout = TRUE
    ConsumeErrors = TRUE
    WriteErrors = TRUE
    DeleteErrors = TRUE
    CommitErrors = TRUE
    Kills = TRUE
    LiveProducers = FALSE
    MaxLogStart = 0
    MaxCeiling = 1
SPECIFICATION Spec
PROPERTY RunEnds
PROPERTY CommitCoversRead
