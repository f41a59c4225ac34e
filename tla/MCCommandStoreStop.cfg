SPECIFICATION Spec
CONSTANTS
    c1 = c1
    c2 = c2
    c3 = c3
    c4 = c4
    t1 = t1
    t2 = t2
    k1 = k1
    k2 = k2
    k3 = k3
    k4 = k4
    None = None
    Call = {c1, c2, c3, c4}
    Key = {k1, k2, k3}
    Thread = {t1, t2}
    KeyOf <- RequestsKeyOf
    ThreadOf <- RequestsThreadOf
    ClassOf <- RequestsClassOf
    ParentOf <- RequestsParentOf
    Cap = 2
    ClassCap <- OnePerClass
    MaxChildren = 2
    MaxRestarts = 0
    MaxFaults = 1
    MayCrash = FALSE
    MayStop = TRUE
    MayCancel = FALSE
PROPERTY StoreRecoveryIsNotRefused
CHECK_DEADLOCK FALSE
