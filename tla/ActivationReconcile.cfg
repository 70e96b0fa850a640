CONSTANTS
    t1 = t1
    t2 = t2
    x = x
    Tx = {t1, t2}
    Run = {x}
    RunOf <- MCRunOf
    Question = {}
    Refresh = {r1}
    Hourly = {h1}
    NBody = 1
    LateHandlers = FALSE
    MaxFaults = 1
    Nil = Nil
    NoUndo = NoUndo
SPECIFICATION FairSpec
CHECK_DEADLOCK FALSE
PROPERTY ReconciliationDecides
