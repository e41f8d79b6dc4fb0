SPECIFICATION FairSpec
CONSTANTS
    NoEpoch = NoEpoch
    NoWriter = NoWriter
    NoState = NoState
    Devices = {d1}
    Checks = {c1}
    Original = {}
    MaxEdits = 2
    MaxRestarts = 1
PROPERTIES RecordedFlightSettles
