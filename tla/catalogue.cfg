\* Three calls at a time on one listing, beside other keys that push it out.
CONSTANTS
    listing = listing  other1 = other1  other2 = other2
    rate1 = rate1  rate2 = rate2  fallback = fallback
    h1 = h1  h2 = h2  h3 = h3
    None = None
    Keys <- MCKeys
    Values <- MCValues
    Cap = 2
    ListKey = listing
    Rates = {rate1}
    Fallback = fallback
    Handlers = {h1, h2, h3}
    TTL = 2
    CopyTTL = 1
SPECIFICATION DestinationSpec
INVARIANTS StaleBounded
PROPERTY EvictsTheOldest
SYMMETRY Symmetric
