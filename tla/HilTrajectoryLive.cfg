SPECIFICATION FairSpec
CONSTANTS
    MaxStarts = 1
    MaxStops = 1
    Lease = 1
    ArmTimeout = 1
    RecordTail = 1
PROPERTIES
    StopReleases
    EndedRunFreesController
