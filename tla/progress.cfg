CONSTANTS
    v1 = v1
    v2 = v2
    Tombstone = Tombstone
    Absent = Absent
    Torn = Torn
    Partial = Partial
    Key <- MCOneKey
    Value <- MCValue
    KeyLen <- MCKeyLen
    ValueLen <- MCValueLen
    ScanBound <- NoScanBound
    FlushThreshold = 2
    CompactionTrigger = 2
    Getter = {}
    Scanner = {}
    Faults = {}
    MaxWrites = 4
    MaxRestarts = 1
SPECIFICATION FairSpec
PROPERTIES
    FlushLeadsToCompaction
    CloseReturns
CHECK_DEADLOCK FALSE
