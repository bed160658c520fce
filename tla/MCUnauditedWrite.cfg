SPECIFICATION Spec
CONSTANTS
    Theses = {t1}
    Sessions = {s1}
    Conditions = {c1}
    Workers = {w1, w2}
    MaxRounds = 2
    WriteWindow = 4
    MaxCalls = 1
    MaxTurns = 2
    MaxVersion = 1
INVARIANT EveryWriteIsAudited
CHECK_DEADLOCK FALSE
