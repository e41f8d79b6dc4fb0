SPECIFICATION Spec
CONSTANTS
    NoEpoch = NoEpoch
    NoWriter = NoWriter
    NoState = NoState
    Devices = {d1, d2}
    Checks = {c1}
    Original = {c1}
    MaxEdits = 3
    MaxRestarts = 0
SYMMETRY SyncSymmetry
INVARIANTS NoLostUpdateEver
