SPECIFICATION Spec
CONSTANTS
    Devices = {1, 2}
    MaxCounter = 9
    MaxDrift = 0
    Entities = {e1}
    Target = "s3"
    BatchSize = 2
    PendingLimit = 3
    SnapshotAfter = 1
    MaxOps = 2
    MaxTime = 1
    FaultKinds = {"crash", "prune"}
    MaxFaults = 1
INVARIANT SnapshotKept
