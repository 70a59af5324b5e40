SPECIFICATION Spec
CONSTANTS
    MaxGeneration = 3
    Lease = 2
    ArmTimeout = 1
    Duration = 1
    Hold = 1
    RowCapacity = 4
INVARIANTS TornNeedsFailedRelease AbortReleases AdmissionRespected GainsNeedLease SavedRecordIsWhole
