CONSTANTS
    short = short
    long = long
    Tombstone = Tombstone
    Absent = Absent
    Torn = Torn
    Key <- MCKey
    Value <- MCValue
    KeyBytes <- MCKeyBytes
    ValueBytes <- MCValueBytes
    KeyLen <- MCKeyLen
    ValueLen <- MCValueLen
    RottenCell <- MCRottenCell
    LengthBits = 1
    SizeBits = 4
    Garbage = 6
    MaxAppends = 2
    MaxResets = 1
    MaxStops = 2
    MaxRots = 1
SPECIFICATION Spec
INVARIANTS
    TypeOK
    SizeIsExact
    AckedSurvivePowerLoss
PROPERTIES
    ImplementsRecordLog
CHECK_DEADLOCK FALSE
