CONSTANTS
    w1 = w1
    w2 = w2
    j1 = j1
    j2 = j2
    j3 = j3
    j4 = j4
    p1 = p1
    p2 = p2
    NoTask = NoTask
    Worker = {w1, w2}
    Task = {j1, j2, j3, j4, p1, p2}
    Deps <- MCDeps
    Spurious = {p2}
SPECIFICATION Spec
INVARIANTS
    TypeOK
    OnePlace
    DepsTaken
    JoinWillBeNotified
    PackageComplete
    NoSleepOverWork
PROPERTIES
    ImplementsExecutor
    ShutdownEnds
