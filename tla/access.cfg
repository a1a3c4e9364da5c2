\* An admin and a newcomer, two calls at a time. It stops when MaxRequests calls have been made.
SPECIFICATION Spec
CONSTANTS
    a1 = a1
    a2 = a2
    u1 = u1
    l1 = l1
    l2 = l2
    s1 = s1
    s2 = s2
    h1 = h1
    h2 = h2
    Users = {a1, u1}
    FirstAdmins = {a1}
    Links = {l1, l2}
    Sessions = {s1, s2}
    Handlers = {h1, h2}
    MaxRequests = 6
SYMMETRY AccessSymmetry
CHECK_DEADLOCK FALSE
INVARIANTS
    SpentByEffect
    ProvenFirst
PROPERTIES
    OwnSessionsOnly
