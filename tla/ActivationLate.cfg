CONSTANTS
    t1 = t1
    t2 = t2
    x = x
    Tx = {t1, t2}
    Run = {x}
    RunOf <- MCRunOf
    Question = {q}
    Refresh = {r1, r2}
    Hourly = {h1}
    NBody = 1
    LateHandlers = TRUE
    MaxFaults = 1
    Nil = Nil
    NoUndo = NoUndo
SPECIFICATION Spec
CHECK_DEADLOCK FALSE
INVARIANT SealedView
