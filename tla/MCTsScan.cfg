SPECIFICATION MCSpec
CONSTANTS
    MaxArrivals = 5
    Restarts = {9}
    Bursts = {14}
    StrideConfirmCount = 2
    MaxDiscontinuityOffsetsPerPid = 1
    MaxPesTimestampRecordsTotal = 3
    TicksPerSecond = 7
    Pids = {0, 16, 17, 18, 19, 8191}
    MaxPackets = 4
    MaxTables = 5
INVARIANTS
    EveryPacketIsRead
    ProgramsFollowTheirTables
    TimestampsAreCarried
    IntervalsAreTrue
PROPERTY
    EachPidIsAChannel
CHECK_DEADLOCK FALSE
