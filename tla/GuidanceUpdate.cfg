CONSTANTS
    nvda = nvda
    mu = mu
    n1 = n1
    n2 = n2
    nx = nx
    m1 = m1
    Issuer = {nvda}
    Doc = {n1, n2, nx}
    Results = {n1, n2}
    NoDoc = NoDoc
    NoPage = NoPage
    Owner <- MCOwner
    Day <- MCDay
    Proves <- MCProves
    Symbols <- MCSymbols
    Page <- MCPage
    Size <- MCSize
    Reading <- MCReading
    Curated <- MCCuratedAnew
    Reviewed <- MCReviewedOnce
    LateReport = {n1}
    Reachable <- MCReachable
    LastVersion = 2
    Refused = 0
    Keep = 1
    MaxDetections = 2
    SegmentSize = 2
    IndexTail = 2
    MaxSettled = 2
    Quota = 7
    RunBytes = 4
    Poison = {nvda}
    Slow = {nvda}
SPECIFICATION Spec
INVARIANTS TypeOK  NothingForgotten CommittedFirst HistoryAudits BytesCounted FilesCounted QuotaKept
PROPERTIES HistoryKept
CHECK_DEADLOCK FALSE
