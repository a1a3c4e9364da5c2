\* One package, two runners of the jobs, a window of warnings as narrow as the free days allow.
CONSTANTS
    p1 = p1  p2 = p2  r1 = r1  r2 = r2
    None = None
    Packages = {p1}
    Runners = {r1, r2}
    FreeDays = 3
    Warn5 = 2
    Warn1 = 1
    FinalAfter = 3
    LastDay = 4
    MaxSlips = 1
SPECIFICATION Spec
INVARIANTS OneNoticePerFee WarnedOncePerSlip WarnedBeforeCharged
