CONSTANTS
    v1 = v1
    v2 = v2
    Tombstone = Tombstone
    Absent = Absent
    Torn = Torn
    Partial = Partial
    Key <- MCOneKey
    Value <- MCValue
    KeyLen <- MCKeyLen
    ValueLen <- MCValueLen
    ScanBound <- NoScanBound
    FlushThreshold = 1
    CompactionTrigger = 2
    Getter = {}
    Scanner = {}
    Faults = {"unlink"}
    MaxWrites = 3
    MaxRestarts = 1
SYMMETRY MCSymmetry
SPECIFICATION CalmSpec
INVARIANTS
    AckedWritesSurvive
CHECK_DEADLOCK FALSE
