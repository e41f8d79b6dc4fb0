SPECIFICATION FairSpec
CONSTANTS
    Tabs = {t1, t2}
    Edits = {e1}
    Others = {r}
    NoTab = NoTab
    MaxFaults = 2
CHECK_DEADLOCK FALSE
INVARIANTS SourceFrozen NothingLeftBehind WriterKnowsOwner
PROPERTIES TransferEnds
