\* One import, one group of the server, one other device.
SPECIFICATION FairSpec
CONSTANTS
    Imports = {i1}
    Groups = {g}
    Edits = {e1, e2}
    Remotes = {r}
    NoId = NoId
    MaxFaults = 2
CHECK_DEADLOCK FALSE
INVARIANTS PairedWhenEditable IntentApplicable
PROPERTIES BoundaryEnds AtomicSpec
