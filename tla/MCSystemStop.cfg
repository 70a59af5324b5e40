SPECIFICATION FairSpec
CONSTANTS
    Sequential = {"can0"}
    Streamed = {"can1", "can2"}
    Broadcast = {"can2"}
    Axes = {1, 2}
    Wirings <- MCWirings
INVARIANTS OneLateFrame DriversHaveOneUser ReleasedMeansDisabled StaleFaultNeedsStall
PROPERTIES StopFansOut ReleaseReturns ImplementsContract ActiveMeansRunning
