SPECIFICATION FairSpec
CONSTANTS
    NoEpoch = NoEpoch
    NoWriter = NoWriter
    NoState = NoState
    Devices = {d1, d2}
    Checks = {c1, c2}
    Original = {c1}
    MaxEdits = 2
    MaxRestarts = 0
INVARIANTS FlightDeletesDeclared
PROPERTIES Converges
