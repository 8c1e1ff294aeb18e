SPECIFICATION DrainedSpec
CONSTANTS
    NumEnvs = 3
    NumTurns = 3
    EnvOf <- TwoAndOne
    Corrupted = {}
    Runners = {r1, r2}
    Reapers = {p1, p2}
    MaxLive = 2
    BatchSize = 2
    MaxCrashes = 1
SYMMETRY Executions
INVARIANT DestroyedIsClean
PROPERTY LifecycleImplementsCap
