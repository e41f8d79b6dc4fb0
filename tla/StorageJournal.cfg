SPECIFICATION FairSpec
CONSTANTS
    NoEpoch = NoEpoch
    NoWriter = NoWriter
    NoState = NoState
    MaxEdits = 3
    MaxLoads = 2
    MaxRecoveries = 1
    MaxEpochs = 2
    MaxAborts = 1
    MaxEmergency = 6
CHECK_DEADLOCK FALSE
INVARIANTS DurableEditsRecoverable IdleWriterInStep
PROPERTIES StoreSpec QueueDrains OpenEnds
