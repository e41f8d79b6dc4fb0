SPECIFICATION Spec
CONSTANTS
    NoEpoch = NoEpoch
    NoWriter = NoWriter
    NoState = NoState
    Epochs = {e1, e2}
    Writers = {w1, w2}
    States = {s1}
    OpIds = {o1, o2}
    FlightIds = {f1, f2}
    ConflictKinds = {"concurrent-ack", "concurrent-rebase"}
    MaxSeq = 3
    MaxRevision = 2
SYMMETRY StoreSymmetry
INVARIANTS TypeOK HeadReadable PendingRetained
PROPERTIES UnackedNeverDropped CursorMonotonic FlightSettledOnce
