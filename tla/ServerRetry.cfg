SPECIFICATION FairSpec
CONSTANTS
    Devices = {1, 2}
    MaxCounter = 9
    MaxDrift = 2
    Entities = {e1}
    Target = "server"
    BatchSize = 2
    PendingLimit = 3
    SnapshotAfter = 9
    MaxOps = 1
    MaxTime = 1
    FaultKinds = {"abort", "request", "prune", "crash", "clock"}
    MaxFaults = 1
PROPERTY EventuallySent
