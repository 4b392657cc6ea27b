CONSTANTS
    v0 = v0
    v1 = v1
    Setting = {"tilt", "threshold"}
    Value = {v0, v1}
    Default = v0
    KinectMayFail = FALSE
    Flaky = {}
    MaxNum = 2
SPECIFICATION Spec
INVARIANT StatusIsApplied
