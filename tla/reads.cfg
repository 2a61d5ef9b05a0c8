CONSTANTS
    v1 = v1
    v2 = v2
    Tombstone = Tombstone
    Absent = Absent
    Torn = Torn
    Partial = Partial
    Key <- MCKey
    Value <- MCOneValue
    KeyLen <- MCKeyLen
    ValueLen <- MCValueLen
    ScanBound <- MCScanBound
    FlushThreshold = 2
    CompactionTrigger = 2
    Getter = {g1}
    Scanner = {s1}
    Faults = {"append", "flush", "unlink"}
    MaxWrites = 3
    MaxRestarts = 1
SPECIFICATION Spec
INVARIANTS
    TypeOK
    MemoryIsCurrent
    GetReturnsCurrent
    ScanReturnsCurrent
    IteratorsStayValid
