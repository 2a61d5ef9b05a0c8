CONSTANTS
    v1 = v1
    v2 = v2
    Tombstone = Tombstone
    Absent = Absent
    Torn = Torn
    Partial = Partial
    Key <- MCOneKey
    Value <- MCValue
    KeyLen <- MCKeyLen
    ValueLen <- MCValueLen
    ScanBound <- NoScanBound
    FlushThreshold = 9
    CompactionTrigger = 9
    Getter = {}
    Scanner = {}
    Faults = {"append"}
    MaxWrites = 2
    MaxRestarts = 1
SYMMETRY MCSymmetry
SPECIFICATION Spec
INVARIANTS
    AckedWritesSurvive
CHECK_DEADLOCK FALSE
