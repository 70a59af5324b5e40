SPECIFICATION Spec
CONSTANTS
    GroupCount = 2
    MaxGeneration = 3
    DeviationCycles = 2
    RowCapacity = 2
INVARIANTS AdmittedWhole PreparedBeforeCommit NeverRefused
