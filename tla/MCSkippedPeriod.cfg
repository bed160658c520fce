SPECIFICATION Spec
CONSTANTS
    Theses = {t1}
    Conditions = {1}
    Metrics <- MCMetrics
    InputKind <- MCInputKind
    RequiredObservations <- MCRequiredObservations
    Sources = {"s1"}
    Workers = {w1}
    Definitions <- StreakDefinitions
    PatchStatuses = {}
    Feed <- GapFeed
    Absent = Absent
    Missing = Missing
    Revisable = FALSE
    MaxDay = 3
    MaxThesisVersion = 1
    MaxConditionVersion = 1
INVARIANT MatchesMeanConsecutivePeriods
CHECK_DEADLOCK FALSE
