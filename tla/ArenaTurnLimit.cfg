SPECIFICATION FairSpec
CONSTANTS
    r1 = r1
    r2 = r2
    bad = bad
    other = other
    foreign = foreign
    e1 = e1
    e2 = e2
    k1 = k1
    k2 = k2
    p1 = p1
    p2 = p2
    NoRequest = NoRequest
    Requests = {r1, r2, bad, other, foreign}
    Envs = {e1, e2}
    EnvOf <- Submitted
    Keys = {k1, k2}
    KeyOf <- Hashed
    Processes = {p1, p2}
    ProcessOf <- Served
    Connections = 2
    Brisk = {r2, bad, other, foreign}
    Foreign = {foreign}
    Invalid = {bad}
    MaxTurns = 1
    Hour = 2
    MaxWait = 1
    MaxTime = 3
CHECK_DEADLOCK FALSE
INVARIANT WindowHolds
INVARIANT RejectedIsFree
PROPERTY BriskAreAnswered
