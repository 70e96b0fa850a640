CONSTANTS
    nvda = nvda
    mu = mu
    n1 = n1
    n2 = n2
    nx = nx
    m1 = m1
    Issuer = {nvda, mu}
    Doc = {n1, n2, m1}
    Results = {n1, n2, m1}
    NoDoc = NoDoc
    NoPage = NoPage
    Owner <- MCOwner
    Day <- MCDay
    Proves <- MCProves
    Symbols <- MCSymbols
    Page <- MCPage
    Size <- MCSize
    Reading <- MCReading
    Curated <- MCCurated
    Reviewed <- MCReviewed
    LateReport = {}
    Reachable <- MCReachable
    LastVersion = 1
    Refused = 0
    Keep = 1
    MaxDetections = 2
    SegmentSize = 2
    IndexTail = 2
    MaxSettled = 2
    Quota = 8
    RunBytes = 4
    Poison = {nvda}
    Slow = {}
SPECIFICATION FairSpec
PROPERTIES ServedInTurn
CHECK_DEADLOCK FALSE
