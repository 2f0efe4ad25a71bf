SPECIFICATION FairSpec
CONSTANTS
    Passphrases = {p1, p2}
    Choices <- MCChoices
    MaxVaults = 2
    MaxCrashes = 2
    None = None
INVARIANTS KeysMatch KnownPassphraseOpens
PROPERTIES UnlockedOpens LockedFallsSilent OpenKeepsSyncing
