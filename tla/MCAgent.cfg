SPECIFICATION FairSpec
CONSTANTS
    Theses = {t1}
    Sessions = {s1, s2}
    Conditions = {c1}
    Workers = {w1, w2}
    MaxRounds = 1
    WriteWindow = 3
    MaxCalls = 1
    MaxTurns = 2
    MaxVersion = 2
INVARIANTS
    TypeOK
    OneOpenSession
    OneAuthorPerThesis
    NoLostUpdate
    WritesAreExplained
    ShortSessionsAreAudited
PROPERTIES
    ClosedSessionsAreFinal
    RequestsEnd
CHECK_DEADLOCK FALSE
