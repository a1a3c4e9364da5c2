\* Two calls at a time; two attempts a window, two wrong codes a challenge.
CONSTANTS
    h1 = h1  h2 = h2  h3 = h3
    None = None
    MaxAttempts = 2
    Window = 1
    Retention = 2
    VolumeCap = 2
    Handlers = {h1, h2}
    MaxFails = 2
    MaxCodes = 2
    MaxKeys = 2
    MaxSlips = 1
SPECIFICATION Spec
INVARIANTS WindowHolds GuessesBounded KeysEnd
SYMMETRY Symmetric
