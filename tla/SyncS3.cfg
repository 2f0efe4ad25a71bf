SPECIFICATION FairSpec
CONSTANTS
    Devices = {1, 2}
    MaxCounter = 9
    MaxDrift = 2
    Entities = {e1}
    Target = "s3"
    BatchSize = 2
    PendingLimit = 3
    SnapshotAfter = 9
    MaxOps = 3
    MaxTime = 1
    FaultKinds = {"request", "crash"}
    MaxFaults = 1
INVARIANTS RowsFollowLog AppliedIsMerged SyncedIsStored
PROPERTIES KeepsPromise BatchesImmutable EventuallySent EventuallyAgree
