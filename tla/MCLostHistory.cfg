SPECIFICATION Spec
CONSTANTS
    Conditions = {c1}
    Bars = {b1}
    TypesUsed = {"duplicate"}
    MaxVersion = 2
    MaxFeedback = 1
    MaxCommands = 2
PROPERTIES
    HistoryIsKept
CHECK_DEADLOCK FALSE
