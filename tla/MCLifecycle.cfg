SPECIFICATION FairSpec
CONSTANTS
    Theses = {t1}
    Conditions = {1, 2}
    Metrics <- MCMetrics
    InputKind <- MCInputKind
    RequiredObservations <- MCRequiredObservations
    Sources = {"s1"}
    Workers = {w1, w2}
    Definitions <- LifecycleDefinitions
    PatchStatuses = {"challenged", "archived"}
    Feed <- LifecycleFeed
    Absent = Absent
    Missing = Missing
    Revisable = FALSE
    MaxDay = 1
    MaxThesisVersion = 3
    MaxConditionVersion = 1
INVARIANTS
    TypeOK
    InvalidationIsFinal
    HistoryExplainsStatus
    TriggersAreRecorded
PROPERTIES
    LedgerSpec
    RequestsEnd
CHECK_DEADLOCK FALSE
