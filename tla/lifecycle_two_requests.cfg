\* Two requests, two packages, two manifests, two PaymentIntents; no clerks.
SPECIFICATION LifecycleSpec
CONSTANTS
    h1 = h1
    h2 = h2
    i1 = i1
    i2 = i2
    r1 = r1
    r2 = r2
    p1 = p1
    p2 = p2
    c1 = c1
    c2 = c2
    w1 = w1
    w2 = w2
    b1 = b1
    m1 = m1
    m2 = m2
    None = None
    MinCents = 50
    MaxCents = 5000000
    StripeOutages = FALSE
    MaxClock = 1
    Requests = {r1, r2}
    Totals = {1000}
    Intents = {i1, i2}
    Handlers = {h1}
    AdminTargets = {"cancelled"}
    Packages = {p1, p2}
    Clerks = {}
    Weights = {}
    Bays = {}
    Manifests = {m1, m2}
SYMMETRY RequestSymmetry
INVARIANTS
    ShippedWithRequest
    IntentBelongsToRow
