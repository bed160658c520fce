SPECIFICATION Spec
CONSTANTS
    Theses = {t1}
    Conditions = {1}
    Metrics <- MCMetrics
    InputKind <- MCInputKind
    RequiredObservations <- MCRequiredObservations
    Sources = {"s1", "s2"}
    Workers = {w1, w2}
    Definitions <- RecordDefinitions
    PatchStatuses = {}
    Feed <- RecordFeed
    Absent = Absent
    Missing = Missing
    Revisable = FALSE
    MaxDay = 3
    MaxThesisVersion = 1
    MaxConditionVersion = 2
INVARIANTS
    VersionsAreComplete
    EvaluationsCanBeReplayed
    CountsAreBacked
    MatchedMeansOneEvent
CHECK_DEADLOCK FALSE
SYMMETRY MCSymmetry
