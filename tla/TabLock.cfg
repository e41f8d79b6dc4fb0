\* Two loads of the page in a browser with Web Locks whose requests may throw;
\* one of them is suspended once.
SPECIFICATION FairSpec
CONSTANTS
    Tabs = {t1, t2}
    NoTab = NoTab
    NativeLocks = TRUE
    SettleTime = 1
    HeartbeatTime = 2
    LeaseTime = 4
    MaxFreezes = 1
CHECK_DEADLOCK FALSE
INVARIANTS OneWriter
PROPERTIES TwoWritersEnd LoneTabWrites
