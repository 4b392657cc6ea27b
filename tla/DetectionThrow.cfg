CONSTANTS
    empty = empty
    intruder = intruder
    Scene = {empty, intruder}
    MaxFrames = 1
SPECIFICATION Spec
INVARIANT StopIsClean
