\* Two calls at a time, an erasure possibly among them, on a customer with one row a table.
SPECIFICATION Spec
CONSTANTS
    c1 = c1
    c2 = c2
    First = First
    None = None
    Calls = {c1, c2}
SYMMETRY CallSymmetry
INVARIANTS
    ErasedForGood
    OneDefault
    SignatureFrozen
CHECK_DEADLOCK FALSE
