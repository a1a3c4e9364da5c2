CONSTANTS
    k1 = k1  k2 = k2  b1 = b1  b2 = b2  p1 = p1  p2 = p2
    bayA = bayA  bayB = bayB  light = light  heavy = heavy
    h1 = h1  h2 = h2
    None = None
    NoKey = NoKey
    Calls <- MCCalls
    MaxKeys = 2
    Bookings = {b1, b2}
    Packages = {p1, p2}
    Bays = {bayA, bayB}
    Handlers = {h1, h2}
    Declarations = {light, heavy}
    AdminStatuses = {"confirmed"}
    AdminPayments = {"paid"}
    MaxRequests = 5
    MaxLosses = 1
SPECIFICATION Spec
INVARIANTS TypeOK StaffDecides PricedAsDeclared RepeatedOnlyAfterLapse ReplayOfSuccess
SYMMETRY Symmetric
CHECK_DEADLOCK FALSE
