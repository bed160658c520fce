SPECIFICATION Spec
CONSTANTS
    Conditions = {c1}
    Bars = {b1, b2}
    TypesUsed = {"duplicate", "confirmed"}
    MaxVersion = 2
    MaxFeedback = 2
    MaxCommands = 4
SYMMETRY MCSymmetry
INVARIANTS
    TypeOK
    SchemaMatchesRevision
    DataFitsOrIsRefused
    CurrentVersionsRecorded
    CitationsResolve
PROPERTIES
    AllOrNothing
    FeedbackSurvives
CHECK_DEADLOCK FALSE
