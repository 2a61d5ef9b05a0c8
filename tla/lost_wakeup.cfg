CONSTANTS
    Putter = {c1}
    Waiter = {c2}
    Compactor = Compactor
    Nobody = Nobody
    QuietWaits = FALSE
    MaxCalls = 2
SPECIFICATION FairSpec
PROPERTIES
    WaitReturns
