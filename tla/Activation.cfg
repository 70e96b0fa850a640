CONSTANTS
    t1 = t1
    t2 = t2
    x = x
    Tx = {t1, t2}
    Run = {x}
    RunOf <- MCRunOf
    Question = {}
    Refresh = {r1, r2}
    Hourly = {h1, h2}
    NBody = 1
    LateHandlers = FALSE
    MaxFaults = 2
    Nil = Nil
    NoUndo = NoUndo
SPECIFICATION FairSpec
CHECK_DEADLOCK FALSE
INVARIANTS TypeOK PromotedSnapshotComplete Recoverable RollbackTarget UndoneNotServed
PROPERTIES FinalizedNeverUndone SwitchesAtOnce RefreshEnds
