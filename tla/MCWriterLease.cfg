SPECIFICATION FairSpec
CONSTANTS
    d1 = d1
    d2 = d2
    d3 = d3
    Claimant = {d1, d2, d3}
    Legacy = {d2}
    Absent = Absent
    Ownerless = Ownerless
    MaxCrashes = 2
    BlindReads = TRUE
INVARIANTS MutualExclusion QuarantineOnlyDead
PROPERTIES OrphanIsNeverTaken StaleIsTakenOver
CHECK_DEADLOCK FALSE
