SPECIFICATION FairSpec
CONSTANTS
    None = None
    MaxEvents = 3
    MaxAudits = 3
    MaxMishaps = 4
INVARIANTS TypeOK WellFormedLog
PROPERTIES LogOnlyGrows LateAbortLoses TerminalReachesLog
CHECK_DEADLOCK FALSE
