SPECIFICATION FairSpec
CONSTANTS
    Upload = {u1}
    Import = {u1}
    Holder = {draft, command}
    draft = draft
    command = command
    From <- MCFrom
    Body = {b1}
    Blob = Blob
    MaxMishaps = 1
    MaxBehind = 1
    MaxLosses = 1
INVARIANTS TypeOK PublicationSurvives OwnersKeepBytesInOneLife
PROPERTIES UnlinkedIsUnneeded UnownedIsCollected
CHECK_DEADLOCK FALSE
