CONSTANTS
    v0 = v0
    v1 = v1
    Setting = {"tilt"}
    Value = {v0, v1}
    Default = v0
    KinectMayFail = TRUE
    Flaky = {"det", "kinect"}
    MaxNum = 2
SPECIFICATION Spec
INVARIANTS
    TypeOK
    CommandsTakeEffect
    
    LedTellsTruth
    NumberIsFresh
    RestartIsSafe
    StatusIsCurrent
PROPERTY CommandReturns
