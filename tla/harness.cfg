CONSTANTS
    count = 6
    Parent = Parent
    Tombstone = Tombstone
    Absent = Absent
    Torn = Torn
    Partial = Partial
    Key <- MCKey
    Value <- MCValue
    ValueOf <- MCValueOf
    KeyLen <- MCKeyLen
    ValueLen <- MCValueLen
    ScanBound <- NoBound
    Getter <- MCGetter
    Scanner = {}
    FlushThreshold = 3
    CompactionTrigger = 2
    Faults = {"append", "flush"}
    MaxWrites = 6
    MaxRestarts = 2
SPECIFICATION HarnessSpec
INVARIANTS
    HarnessTypeOK
    TrialPasses
PROPERTIES
    TrialEnds
CHECK_DEADLOCK FALSE
