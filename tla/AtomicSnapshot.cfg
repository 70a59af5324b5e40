SPECIFICATION FairSpec
CONSTANTS
    NWords = 2
    Readers = {r1, r2}
    MaxPublications = 2
PROPERTIES ReadReturns ImplementsRegister
CHECK_DEADLOCK FALSE
