SPECIFICATION Spec
CONSTANTS
    Tabs = {t1}
    MaxPresses = 1
    MaxVersion = 1
INVARIANTS
    AcknowledgedIsWritten
CHECK_DEADLOCK FALSE
