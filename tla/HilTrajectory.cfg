SPECIFICATION Spec
CONSTANTS
    MaxStarts = 2
    MaxStops = 1
    Lease = 1
    ArmTimeout = 1
    RecordTail = 1
INVARIANTS LimpUnlessPending StopEndsEarlierRuns GainsNeedLease PendingIsReported
PROPERTIES RecordIsStable
