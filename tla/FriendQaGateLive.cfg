CONSTANTS
    a1 = a1
    a2 = a2
    b1 = b1
    c1 = c1
    o1 = o1
    f1 = f1
    f2 = f2
    f3 = f3
    Attempt = {a1, b1, o1}
    Friend = {f1, f2}
    Owner = Owner
    TenantOf <- MCTenantOf
    Cap = 1
    QueueMax = 2
    PerBucket = 1
    Nil = Nil
    MaxLost = 1
    MaxFails = 1
    MaxKills = 1
    MaxEvicts = 1
    MaxBuckets = 0
SPECIFICATION FairSpec
PROPERTIES Decided
CHECK_DEADLOCK FALSE
