CONSTANTS
    Putter = {c1, c2}
    Waiter = {c1, c2, c3}
    Compactor = Compactor
    Nobody = Nobody
    QuietWaits = TRUE
    MaxCalls = 5
SPECIFICATION FairSpec
INVARIANTS
    TypeOK
    RequestWakesCompactor
    ShutdownWakesCompactor
    SleepersAreOwedANotify
PROPERTIES
    RequestIsServed
    CallsReturn
    DestructorReturns
