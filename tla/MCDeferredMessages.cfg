SPECIFICATION FairSpec
CONSTANTS
    c1 = c1  c2 = c2  c3 = c3  c4 = c4  c5 = c5
    k1 = k1  k2 = k2  k3 = k3  k4 = k4
    Call = {c1, c2, c4, c5}
    Key = {k1, k2, k3, k4}
    None = None
    KeyOf <- MCKeyOf
    ActionOf <- MCActionOf
    MaxFaults = 1
    MaxRestarts = 1
    MayStop = TRUE
    MayShutdown = TRUE
    MayRefuse = TRUE
    MayContinue = TRUE
INVARIANTS TypeOK OneContinuation
PROPERTIES DecidedAsValidated FencedIsNeverSent HeldStaysHeld WaitingIsDecided
CHECK_DEADLOCK FALSE
