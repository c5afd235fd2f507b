\* At-least-once with every failure the code recovers from by re-running:
\* write, delete and commit failures and kills, no timeout, no open errors;
\* three partitions and a record cap of one, so the cap races too.
CONSTANTS
    p1 = p1  p2 = p2  p3 = p3  a = a  b = b  c = c  d = d  h1 = h1  h2 = h2
    NoPath = NoPath  NoDate = NoDate
    Partitions <- MCPartitions3
    Paths <- MCPaths
    Hours <- MCHours
    HourOf <- MCHourOf
    HitPaths <- MCHitPaths
    Log <- MCLog3
    MaxRecords = 1
    MaxRuns = 3
    ConsumerTimeout = FALSE
    ConsumeErrors = FALSE
    WriteErrors = TRUE
    DeleteErrors = TRUE
    CommitErrors = TRUE
    Kills = TRUE
    LiveProducers = TRUE
    MaxLogStart = 0
    MaxCeiling = 1
SPECIFICATION Spec
INVARIANT TypeOK
INVARIANT AtLeastOnce
INVARIANT RecordCapBound
PROPERTY RunEnds
