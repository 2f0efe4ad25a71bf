SPECIFICATION Spec
CONSTANTS
    Devices = {1, 2}
    MaxCounter = 9
    MaxDrift = 2
    Entities = {e1, e2}
    Target = "s3"
    BatchSize = 2
    PendingLimit = 3
    SnapshotAfter = 1
    MaxOps = 2
    MaxTime = 1
    FaultKinds = {"abort", "request", "prune", "crash", "clock"}
    MaxFaults = 0
PROPERTY PruneKeepsWrites
