SPECIFICATION FairSpec
CONSTANTS
    api = api
    worker = worker
    l1 = l1
    l2 = l2
    NoJob = NoJob
    Jobs = {j1, j2}
    Instances = {api, worker}
    WorkerOnly = {worker}
    InProcess = TRUE
    Loops = {l1, l2}
    HomeOf <- OneEach
    MaxSignals = 1
    MaxFaults = 2
INVARIANT RequestsOutliveSignals
PROPERTY QueueDrains
PROPERTY StoppedGoes
PROPERTY JobsAreHandedOut
