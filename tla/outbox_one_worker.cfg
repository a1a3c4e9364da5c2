\* One worker, a batch smaller than the queue, two faults.
SPECIFICATION FairSpec
CONSTANTS
    e1 = e1
    e2 = e2
    e3 = e3
    a = a
    b = b
    Emails = {e1, e2, e3}
    Workers = {a}
    MaxAttempts = 2
    BatchSize = 2
    Retired = {e3}
    MaxFaults = 2
INVARIANTS
    TypeOK
    FailedIsExhausted
PROPERTIES
    KeepsPromise
    EmailsSettle
