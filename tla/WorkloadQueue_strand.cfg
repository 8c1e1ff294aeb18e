SPECIFICATION Spec
CONSTANTS
    api = api
    worker = worker
    l1 = l1
    l2 = l2
    NoJob = NoJob
    Jobs = {j1}
    Instances = {api, worker}
    WorkerOnly = {worker}
    InProcess = TRUE
    Loops = {l1, l2}
    HomeOf <- OneEach
    MaxSignals = 1
    MaxFaults = 0
INVARIANT RunningIsRun
