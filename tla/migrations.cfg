\* Five files, one of each kind, two altered tables, two runners.
CONSTANTS
    r1 = r1  r2 = r2  users = users  requests = requests
    NFiles = 5
    Kind <- Kinds
    Table <- Altered
    Shared = {2}
    Probed = {1, 2}
    Tables = {users, requests}
    Users = users
    Runners = {r1, r2}
    MaxDowns = 2
    MaxOverlaps = 1
    MaxSlips = 1
SPECIFICATION Spec
INVARIANTS LedgerIsTrue RowsKept
PROPERTY Converges
