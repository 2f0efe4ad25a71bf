SPECIFICATION Spec
CONSTANTS
    Devices = {1, 2}
    MaxCounter = 4
    MaxDrift = 0
    Entities = {e1}
    Target = "server"
    BatchSize = 2
    PendingLimit = 3
    SnapshotAfter = 2
    MaxOps = 2
    MaxTime = 2
    FaultKinds = {"abort", "request", "prune", "crash", "clock"}
    MaxFaults = 1
INVARIANTS TypeOK StampsUnique SettledAgree
PROPERTY WritesAfterKnown
