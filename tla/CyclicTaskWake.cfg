CONSTANTS
    t1 = t1
    t2 = t2
    t3 = t3
    c1 = c1
    c2 = c2
    Task = {t1, t3}
    Caller = {c1, c2}
    Flaky = {t3}
    Owner <- MCOwner
SPECIFICATION Spec
INVARIANT StopWakesThread
