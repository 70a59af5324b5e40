SPECIFICATION FairSpec
CONSTANT MaxGeneration = 1
PROPERTIES
    StopReturns
    RequestEndsStream
