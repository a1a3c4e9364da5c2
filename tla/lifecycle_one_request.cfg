\* Two clerks and two handlers on one request.
SPECIFICATION LifecycleSpec
CONSTANTS
    h1 = h1
    h2 = h2
    i1 = i1
    i2 = i2
    r1 = r1
    r2 = r2
    p1 = p1
    p2 = p2
    c1 = c1
    c2 = c2
    w1 = w1
    w2 = w2
    b1 = b1
    m1 = m1
    m2 = m2
    None = None
    MinCents = 50
    MaxCents = 5000000
    StripeOutages = FALSE
    MaxClock = 0
    Requests = {r1}
    Totals = {1000}
    Intents = {i1}
    Handlers = {h1, h2}
    AdminTargets = {"cancelled"}
    Packages = {p1}
    Clerks = {c1, c2}
    Weights = {w1, w2}
    Bays = {b1}
    Manifests = {m1, m2}
SYMMETRY ClerkSymmetry
INVARIANTS
    FulfilledOnlyIfPaid
    ShippedOnManifest
PROPERTY WeightWriteOnce
