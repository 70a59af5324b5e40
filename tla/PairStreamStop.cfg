SPECIFICATION Spec
CONSTANT MaxGeneration = 1
INVARIANT RequestBeforeStopIsHandled
