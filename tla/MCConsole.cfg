SPECIFICATION Spec
CONSTANTS
    Tabs = {t1, t2}
    MaxPresses = 2
    MaxVersion = 2
SYMMETRY Symmetry
INVARIANTS
    TypeOK
    EditsApplyOnce
    DuplicatesHaveCauses
    AcknowledgedOrder
PROPERTIES
    OwnWritesAreShown
CHECK_DEADLOCK FALSE
