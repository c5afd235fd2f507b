\* Retention and the hour ceiling: the broker deletes up to two offsets of
\* p1 before, between or during runs, and a later run may have a later
\* ceiling; the record cap fits the backlog and nothing else fails, so
\* only the ceiling holds reports back, and no report may be written twice.
CONSTANTS
    p1 = p1  p2 = p2  p3 = p3  a = a  b = b  c = c  d = d  h1 = h1  h2 = h2
    NoPath = NoPath  NoDate = NoDate
    Partitions <- MCPartitions
    Paths <- MCPaths
    Hours <- MCHours
    HourOf <- MCHourOf
    HitPaths <- MCHitPaths
    Log <- MCLogRetention
    MaxRecords = 3
    MaxRuns = 3
    ConsumerTimeout = FALSE
    ConsumeErrors = FALSE
    WriteErrors = FALSE
    DeleteErrors = FALSE
    CommitErrors = FALSE
    Kills = FALSE
    LiveProducers = TRUE
    MaxLogStart = 2
    MaxCeiling = 2
SPECIFICATION Spec
INVARIANT AtLeastOnce
PROPERTY RetainedReportsStored
PROPERTY RunEnds
INVARIANT NoDuplicateRows
