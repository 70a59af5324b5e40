SPECIFICATION Spec
CONSTANTS
    Limits = {3}
    MaxControls = 2
    Losses = {TRUE}
INVARIANT AcknowledgedMeansDisabled
