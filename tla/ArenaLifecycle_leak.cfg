SPECIFICATION Spec
CONSTANTS
    NumEnvs = 1
    NumTurns = 2
    EnvOf <- BothInOne
    Corrupted = {}
    Runners = {r1}
    Reapers = {p1}
    MaxLive = 1
    BatchSize = 1
    MaxCrashes = 0
INVARIANT DestroyedIsClean
