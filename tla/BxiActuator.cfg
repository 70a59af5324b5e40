SPECIFICATION FairSpec
CONSTANTS
    Limits = {1, 2, 4}
    MaxControls = 4
    Losses = {TRUE, FALSE}
INVARIANTS AcknowledgedUnlessLost
PROPERTIES MotorEndsDisabled ImplementsContract
