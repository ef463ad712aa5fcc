\* Three notices, one of a user who left, a batch of two, two runs at a time,
\* one failure.
CONSTANTS
    MaxNotices = 3
    Runs = {r1, r2}
    Batch = 2
    Inactive <- MCInactive
    MaxFailures = 1
SPECIFICATION Spec
INVARIANTS OneMessagePerNotice
PROPERTY OutboxDrains
