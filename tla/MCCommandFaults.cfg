SPECIFICATION FairSpec
CONSTANTS
    c1 = c1
    c2 = c2
    c3 = c3
    c4 = c4
    t1 = t1
    t2 = t2
    k1 = k1
    k2 = k2
    k3 = k3
    k4 = k4
    None = None
    Call = {c1, c2, c4}
    Key = {k1, k2, k3, k4}
    Thread = {t1, t2}
    KeyOf <- FamilyKeyOf
    ThreadOf <- FamilyThreadOf
    ClassOf <- FamilyClassOf
    ParentOf <- FamilyParentOf
    Cap = 1
    ClassCap <- OnePerClass
    MaxChildren = 2
    MaxRestarts = 1
    MaxFaults = 1
    MayCrash = TRUE
    MayStop = TRUE
    MayCancel = TRUE
INVARIANTS DurableVerdictWins
PROPERTY StartsOnce
PROPERTY AcceptedSettles
CHECK_DEADLOCK FALSE
