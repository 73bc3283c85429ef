\* Three calls and one repeated answer; the third call makes the id wrap.
CONSTANTS
    k1 = k1
    k2 = k2
    k3 = k3
    Nobody = Nobody
    Calls = {k1, k2, k3}
    MaxID = 3
    MaxRepeats = 1
SPECIFICATION FairSpec
INVARIANTS TypeOK OwnAnswer HandledOnce
PROPERTIES ImplementsRemoteCalls HandledInTheEnd CallReturns
CHECK_DEADLOCK FALSE
