CONSTANTS
    v1 = v1
    Tombstone = Tombstone
    Absent = Absent
    Torn = Torn
    Key <- MCKey
    Value <- MCValue
    KeyLen <- MCKeyLen
    ValueLen <- MCValueLen
    Probe <- MCProbe
    kSparseIndexInterval = 2
    MaxDamage = 1
SPECIFICATION Spec
INVARIANTS
    TypeOK
    FindIsExact
    FindReadsOneBlock
    ScanIsExact
    ThrowsOnlyOnDamage
CHECK_DEADLOCK FALSE
