SPECIFICATION FairSpec
CONSTANTS
    Devices = {d1, d2}
    MaxWrites = 2
    MaxSnapshots = 1
    MaxFaults = 1
INVARIANTS UndisturbedIsHeld SentMeansAllSent
PROPERTIES PushesOnlyAdd DivergedIsReported
