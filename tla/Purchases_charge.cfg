SPECIFICATION OneAtATimeSpec
CONSTANTS
    NoSession = NoSession
    Checkouts = {c1, c2}
    Handlers = {h1}
    AsyncMethods = FALSE
    Refunds = FALSE
    MaxFaults = 0
SYMMETRY Calls
CHECK_DEADLOCK FALSE
INVARIANT ChargedOnce
