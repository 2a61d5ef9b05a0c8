CONSTANTS
    v1 = v1
    v2 = v2
    Tombstone = Tombstone
    Absent = Absent
    Torn = Torn
    Partial = Partial
    Key <- MCKey
    Value <- MCOneValue
    KeyLen <- MCKeyLen
    ValueLen <- MCValueLen
    ScanBound <- NoScanBound
    FlushThreshold = 2
    CompactionTrigger = 2
    Getter = {}
    Scanner = {}
    Faults = {"flush"}
    MaxWrites = 4
    MaxRestarts = 2
SPECIFICATION CalmSpec
PROPERTIES
    ImplementsKVStore
CHECK_DEADLOCK FALSE
