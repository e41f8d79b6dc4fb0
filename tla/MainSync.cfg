SPECIFICATION FairSpec
CONSTANTS
    NoEpoch = NoEpoch
    NoWriter = NoWriter
    NoState = NoState
    Records = {c1, c2}
    Original = {c1}
    MaxEdits = 2
    MaxRemote = 2
    MaxRestarts = 1
    ConflictAttempts = 2
CHECK_DEADLOCK FALSE
INVARIANTS UnackedEditKept ViewIsDurable AckIsEarned NoSilentOverwrite
PROPERTIES Converges StoreSpec
