SPECIFICATION Spec
CONSTANTS
    q1 = q1
    k1 = k1
    k2 = k2
    Question = {q1}
    Command = {k1, k2}
    MaxEpoch = 1
    MaxFaults = 0
    MaxKills = 0
INVARIANT ConversationErased
CHECK_DEADLOCK FALSE
