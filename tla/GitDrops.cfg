SPECIFICATION Spec
CONSTANTS
    Devices = {d1, d2}
    MaxWrites = 2
    MaxSnapshots = 1
    MaxFaults = 0
INVARIANT SyncedIsHeld
