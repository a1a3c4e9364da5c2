\* Expected to fail: a refused charge must leave the row flagged.
SPECIFICATION Spec
CONSTANTS
    r1 = r1
    r2 = r2
    h1 = h1
    h2 = h2
    i1 = i1
    i2 = i2
    None = None
    Weights = {}
    Bays = {}
    Manifests = {}
    MinCents = 50
    MaxCents = 5000000
    Intents = {i1, i2}
    Requests = {r1}
    Handlers = {h1, h2}
    Totals <- MCTotals
    MaxClock = 1
    StripeOutages = FALSE
    AdminTargets = {}
INVARIANT RefusedChargeIsFlagged
