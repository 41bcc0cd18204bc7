SPECIFICATION FairSpec

CONSTANTS
    MaxEntries = 4
    Scenarios <- MCScenarios

INVARIANTS
    TypeOK
    CommittedIsLogged
    NoOvertaking
    NoLostWakeup
    SizeIsAccounted
    SyncMeansWritten
    CheckpointHasNoRollback
    CheckpointSizeIsExact
    WatcherIsUpToDate
PROPERTIES
    KeepsPromise
    WritesEnd

CHECK_DEADLOCK FALSE
