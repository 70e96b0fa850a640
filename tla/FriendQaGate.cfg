CONSTANTS
    a1 = a1
    a2 = a2
    b1 = b1
    c1 = c1
    o1 = o1
    f1 = f1
    f2 = f2
    f3 = f3
    Attempt = {a1, a2, b1, c1}
    Friend = {f1, f2, f3}
    Owner = Owner
    TenantOf <- MCTenantOf
    Cap = 2
    QueueMax = 2
    PerBucket = 1
    Nil = Nil
    MaxLost = 1
    MaxFails = 0
    MaxKills = 0
    MaxEvicts = 1
    MaxBuckets = 1
SPECIFICATION Spec
INVARIANTS TypeOK FriendsInFlight RateKept NoLostWakeup HandedBack OnePlaceEach
PROPERTIES ArrivalOrder
CHECK_DEADLOCK FALSE
