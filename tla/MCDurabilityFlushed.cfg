SPECIFICATION FairSpec
CONSTANTS
    o1 = o1  o2 = o2  d1 = d1  d2 = d2
    a = a
    Client = {a}
    Ob = {o2}
    Purge = {o2}
    Dir = {d1, d2}
    DirsOf <- MCDirsOf
    None = None
    MaxPosted = 1
    MaxMishaps = 2
PROPERTIES ImplementsFlushedWrites FlushIsAnswered MaterializedIsCleared
CHECK_DEADLOCK FALSE
