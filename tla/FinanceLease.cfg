\* A refresh and a manual edit compete for one lease.
SPECIFICATION FairSpec
CONSTANTS
    Jobs = {a, m}
    Manual = {m}
    NoJob = NoJob
    MaxExpiries = 1
    MaxLosses = 1
    MaxLeaves = 1
    MaxRenewals = 1
    MaxClaims = 2
CHECK_DEADLOCK FALSE
INVARIANTS RefreshesDoNotInterleave NoLeaseLeftBehind
PROPERTIES NothingAfterRelease JobsEnd
