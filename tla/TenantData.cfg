SPECIFICATION FairSpec
CONSTANTS
    q1 = q1
    k1 = k1
    k2 = k2
    Question = {q1}
    Command = {k1, k2}
    MaxEpoch = 2
    MaxFaults = 1
    MaxKills = 1
INVARIANTS TypeOK JobErased CancelledLeavesNothing LeftEpochsEmpty
CHECK_DEADLOCK FALSE
PROPERTIES PendingResolves DeletedAtOnce
