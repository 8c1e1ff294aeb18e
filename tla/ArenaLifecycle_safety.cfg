SPECIFICATION FairSpec
CONSTANTS
    NumEnvs = 2
    NumTurns = 3
    EnvOf <- TwoAndOne
    Corrupted = {3}
    Runners = {r1, r2}
    Reapers = {p1}
    MaxLive = 2
    BatchSize = 1
    MaxCrashes = 1
INVARIANT TypeOK
INVARIANT ApplyingIffHeld
INVARIANT NothingBuiltWithoutAValidTurn
INVARIANT StatusHasCause
PROPERTY TurnsMoveForward
PROPERTY EveryTurnEnds
PROPERTY ExpiredIsDestroyed
PROPERTY TurnsAreHandedOut
