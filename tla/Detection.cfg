CONSTANTS
    empty = empty
    intruder = intruder
    Scene = {empty, intruder}
    MaxFrames = 1
SPECIFICATION Spec
INVARIANTS
    TypeOK
    IntrusionRecorded
    FramesAccounted
    StopLeavesNothing
PROPERTIES
    StopReturns
    IntrusionEnds
