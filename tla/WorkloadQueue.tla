---------------------------- MODULE WorkloadQueue ----------------------------
(***************************************************************************)
(* The arena workload image: POST /api/jobs puts jobs into a Postgres      *)
(* table, the polling loops of every instance that runs a worker claim,    *)
(* burn and complete them, and SIGTERM takes an instance away.  A query is *)
(* one step for its dispatch and further ones for what the database does   *)
(* with it, so that a signal can fall in between.  A job is named by the   *)
(* request that enqueues it; its id is its place in the order of inserts.  *)
(***************************************************************************)
EXTENDS Naturals, FiniteSets

CONSTANTS
    Jobs,         \* requests of POST /api/jobs
    Instances,    \* containers of the API and of the worker service
    WorkerOnly,   \* instances of the split-out worker service: WORKER_ONLY
    InProcess,    \* WORKERS_IN_PROCESS on the instances of the API
    Loops,        \* polling loops: WORKER_CONCURRENCY on every instance
    HomeOf,       \* the instance each loop runs on
    MaxSignals,   \* bound: SIGTERMs
    MaxFaults,    \* bound: failed queries and killed instances
    NoJob

ASSUME InstancesAssumption ==
    WorkerOnly \subseteq Instances /\ HomeOf \in [Loops -> Instances]
ASSUME BoundsAssumption ==
    /\ InProcess \in BOOLEAN /\ IsFiniteSet(Jobs)
    /\ MaxSignals \in Nat /\ MaxFaults \in Nat
ASSUME NoJobIsNone == NoJob \notin Jobs

VARIABLES
    status,     \* workload_jobs.status, "none" before the INSERT
    id,         \* workload_jobs.id, 0 before the INSERT
    request,    \* how far each request is
    server,     \* the instance each request is served by
    up,         \* each instance: up, stopped (SIGTERM), ending (sql.end), gone
    lpc, job,   \* each loop: where it is and the job it has locked or claimed
    signals, faults

queueVars == <<status, id>>
requestVars == <<request, server>>
loopVars == <<lpc, job>>
vars == <<queueVars, requestVars, up, loopVars, signals, faults>>

LoopPcs == {"top", "claim", "locked", "burn", "complete", "sleep", "over"}

TypeOK ==
    /\ status \in [Jobs -> {"none", "queued", "running", "done"}]
    /\ id \in [Jobs -> Nat]
    /\ request \in [Jobs -> {"none", "accepted", "inserted", "answered", "lost"}]
    /\ server \in [Jobs -> Instances]
    /\ up \in [Instances -> {"up", "stopped", "ending", "gone"}]
    /\ lpc \in [Loops -> LoopPcs]
    /\ job \in [Loops -> Jobs \cup {NoJob}]
    /\ signals \in Nat
    /\ faults \in Nat

\* loadConfig: runWorker.
RunsWorker(i) == i \in WorkerOnly \/ InProcess

LoopStart(l) == IF RunsWorker(HomeOf[l]) THEN "top" ELSE "over"

Init ==
    /\ status = [j \in Jobs |-> "none"]
    /\ id = [j \in Jobs |-> 0]
    /\ request = [j \in Jobs |-> "none"]
    /\ server \in [Jobs -> Instances \ WorkerOnly]
    /\ up = [i \in Instances |-> "up"]
    /\ lpc = [l \in Loops |-> LoopStart(l)]
    /\ job = [l \in Loops |-> NoJob]
    /\ signals = 0
    /\ faults = 0

Fault == faults < MaxFaults /\ faults' = faults + 1

(***************************************************************************)
(* POST /api/jobs.  The worker service answers 404.                        *)
(***************************************************************************)
Accept(j) ==
    /\ request[j] = "none"
    /\ up[server[j]] = "up"
    /\ request' = [request EXCEPT ![j] = "accepted"]
    /\ UNCHANGED <<queueVars, server, up, loopVars, signals, faults>>

Enqueue(j) ==
    /\ request[j] = "accepted"
    /\ status' = [status EXCEPT ![j] = "queued"]
    /\ id' = [id EXCEPT ![j] = Cardinality({k \in Jobs : status[k] # "none"}) + 1]
    /\ request' = [request EXCEPT ![j] = "inserted"]
    /\ UNCHANGED <<server, up, loopVars, signals, faults>>

\* The INSERT fails: a 500, and no job.
EnqueueFails(j) ==
    /\ request[j] = "accepted"
    /\ Fault
    /\ request' = [request EXCEPT ![j] = "lost"]
    /\ UNCHANGED <<queueVars, server, up, loopVars, signals>>

\* The INSERT is done and its answer is lost: a 500 all the same, and a job whose
\* id nobody was told.
EnqueueUnanswered(j) ==
    /\ request[j] = "accepted"
    /\ Fault
    /\ status' = [status EXCEPT ![j] = "queued"]
    /\ id' = [id EXCEPT ![j] = Cardinality({k \in Jobs : status[k] # "none"}) + 1]
    /\ request' = [request EXCEPT ![j] = "lost"]
    /\ UNCHANGED <<server, up, loopVars, signals>>

\* 202 with the job's id.
Answer(j) ==
    /\ request[j] = "inserted"
    /\ request' = [request EXCEPT ![j] = "answered"]
    /\ UNCHANGED <<queueVars, server, up, loopVars, signals, faults>>

(***************************************************************************)
(* A polling loop: startWorker.  A query may still be sent while sql.end   *)
(* has not been called.                                                    *)
(***************************************************************************)
Alive(l) == up[HomeOf[l]] # "gone"
Connected(l) == up[HomeOf[l]] \in {"up", "stopped"}

At(l, where) == lpc' = [lpc EXCEPT ![l] = where]

\* while (running), and the dispatch of the claim.
PollForEver(l) ==
    /\ lpc[l] = "top"
    /\ Alive(l)
    /\ At(l, "claim")
    /\ UNCHANGED <<queueVars, requestVars, up, job, signals, faults>>

Poll(l) ==
    /\ lpc[l] = "top"
    /\ Alive(l)
    /\ At(l, IF up[HomeOf[l]] = "up" THEN "claim" ELSE "over")
    /\ UNCHANGED <<queueVars, requestVars, up, job, signals, faults>>

LockedByAny(j) == \E l \in Loops : lpc[l] = "locked" /\ job[l] = j

QueuedAnyway == {j \in Jobs : status[j] = "queued"}
Claimable == {j \in Jobs : status[j] = "queued" /\ ~LockedByAny(j)}

\* The subselect of the claim: for update skip locked, order by id, limit 1.
ClaimLock(l) ==
    /\ lpc[l] = "claim"
    /\ \E j \in Claimable :
        /\ \A k \in Claimable : id[j] <= id[k]
        /\ job' = [job EXCEPT ![l] = j]
    /\ At(l, "locked")
    /\ UNCHANGED <<queueVars, requestVars, up, signals, faults>>

ClaimNothing(l) ==
    /\ lpc[l] = "claim"
    /\ Claimable = {}
    /\ At(l, "sleep")
    /\ UNCHANGED <<queueVars, requestVars, up, job, signals, faults>>

\* The UPDATE around it, and the response.
ClaimCommit(l) ==
    /\ lpc[l] = "locked"
    /\ status' = [status EXCEPT ![job[l]] = "running"]
    /\ At(l, "burn")
    /\ UNCHANGED <<id, requestVars, up, job, signals, faults>>

\* burn ends, and the UPDATE to done is dispatched, or refused at once once
\* sql.end was called.
BurnEnds(l) ==
    /\ lpc[l] = "burn"
    /\ Alive(l)
    /\ At(l, IF Connected(l) THEN "complete" ELSE "sleep")
    /\ job' = [job EXCEPT ![l] = IF Connected(l) THEN @ ELSE NoJob]
    /\ UNCHANGED <<queueVars, requestVars, up, signals, faults>>

CompletedStatus(s) == IF s = "running" THEN "done" ELSE s

Complete(l) ==
    /\ lpc[l] = "complete"
    /\ status' = [status EXCEPT ![job[l]] = CompletedStatus(@)]
    /\ job' = [job EXCEPT ![l] = NoJob]
    /\ At(l, "top")
    /\ UNCHANGED <<id, requestVars, up, signals, faults>>

Wake(l) ==
    /\ lpc[l] = "sleep"
    /\ Alive(l)
    /\ At(l, "top")
    /\ UNCHANGED <<queueVars, requestVars, up, job, signals, faults>>

AfterErrorExit == "over"
AfterError == "sleep"

\* What the query in flight for a job does to it: claim or complete.
Carried(s) == IF s = "queued" THEN "running" ELSE CompletedStatus(s)

\* A query fails; the database has done all of it or nothing.  The loop logs,
\* sleeps and polls on: the job it had is nobody's.
QueryFails(l) ==
    /\ lpc[l] \in {"claim", "locked", "complete"}
    /\ Fault
    /\ \/ UNCHANGED status
       \/ /\ lpc[l] # "claim"
          /\ status' = [status EXCEPT ![job[l]] = Carried(@)]
    /\ At(l, AfterError)
    /\ job' = [job EXCEPT ![l] = NoJob]
    /\ UNCHANGED <<id, requestVars, up, signals>>

(***************************************************************************)
(* An instance: main.ts                                                    *)
(***************************************************************************)
LoopsOf(i) == {l \in Loops : HomeOf[l] = i}
InFlight(i) == {j \in Jobs : server[j] = i /\ request[j] \in {"accepted", "inserted"}}

\* SIGTERM: stopWorker, and the server takes no more connections.
Signal(i) ==
    /\ up[i] = "up"
    /\ signals < MaxSignals
    /\ signals' = signals + 1
    /\ up' = [up EXCEPT ![i] = "stopped"]
    /\ UNCHANGED <<queueVars, requestVars, loopVars, faults>>

ServerClosesAtOnce(i) ==
    /\ up[i] = "stopped"
    /\ up' = [up EXCEPT ![i] = "ending"]
    /\ UNCHANGED <<queueVars, requestVars, loopVars, signals, faults>>

\* server.close calls back when the last request is answered; then sql.end.
ServerCloses(i) ==
    /\ up[i] = "stopped"
    /\ InFlight(i) = {}
    /\ up' = [up EXCEPT ![i] = "ending"]
    /\ UNCHANGED <<queueVars, requestVars, loopVars, signals, faults>>

\* What is left of the loops and requests of an instance that has gone.
Vanish(i) ==
    /\ up' = [up EXCEPT ![i] = "gone"]
    /\ lpc' = [l \in Loops |-> IF l \in LoopsOf(i) THEN "over" ELSE lpc[l]]
    /\ job' = [l \in Loops |-> IF l \in LoopsOf(i) THEN NoJob ELSE job[l]]
    /\ request' = [j \in Jobs |-> IF j \in InFlight(i) THEN "lost" ELSE request[j]]

\* sql.end resolves when no query is in flight; a loop in burn is not asked.
Exit(i) ==
    /\ up[i] = "ending"
    /\ \A l \in LoopsOf(i) : lpc[l] \notin {"claim", "locked", "complete"}
    /\ Vanish(i)
    /\ UNCHANGED <<queueVars, server, signals, faults>>

\* Killed (SIGKILL, out of memory, or sql.end's 5s are over): a query in flight
\* is carried out or not.
Kill(i) ==
    /\ up[i] # "gone"
    /\ Fault
    /\ \E S \in SUBSET {l \in LoopsOf(i) : lpc[l] \in {"locked", "complete"}} :
          status' = [j \in Jobs |->
                        IF \E l \in S : job[l] = j THEN Carried(status[j]) ELSE status[j]]
    /\ Vanish(i)
    /\ UNCHANGED <<id, server, signals>>

\* Cloud Run starts another container in its place.
Start(i) ==
    /\ up[i] = "gone"
    /\ up' = [up EXCEPT ![i] = "up"]
    /\ lpc' = [l \in Loops |-> IF l \in LoopsOf(i) THEN LoopStart(l) ELSE lpc[l]]
    /\ UNCHANGED <<queueVars, requestVars, job, signals, faults>>

(***************************************************************************)
(* The specification                                                       *)
(***************************************************************************)
Request(j) == Enqueue(j) \/ Answer(j)

Loop(l) ==
    \/ Poll(l) \/ ClaimLock(l) \/ ClaimNothing(l) \/ ClaimCommit(l)
    \/ BurnEnds(l) \/ Complete(l) \/ Wake(l)

Instance(i) == ServerCloses(i) \/ Exit(i) \/ Start(i)

Next ==
    \/ \E j \in Jobs : Accept(j) \/ Request(j) \/ EnqueueFails(j) \/ EnqueueUnanswered(j)
    \/ \E l \in Loops : Loop(l) \/ QueryFails(l)
    \/ \E i \in Instances : Instance(i) \/ Signal(i) \/ Kill(i)

Spec == Init /\ [][Next]_vars

\* The event loop and the database run on, and a container that has gone is
\* replaced.
FairSpec ==
    /\ Spec
    /\ \A j \in Jobs : WF_vars(Request(j))
    /\ \A l \in Loops : WF_vars(Loop(l))
    /\ \A i \in Instances : WF_vars(Instance(i))

(***************************************************************************)
(* Properties                                                              *)
(***************************************************************************)
\* No job is in the hands of two loops, whatever polls, dies or restarts.
JobHeldOnce ==
    \A l, m \in Loops : job[l] # NoJob /\ job[l] = job[m] => l = m

\* The loops, the database and the instances keep what a queue promises: a job is
\* given out once, to one loop, and done means that this loop has burnt it.
InHand(l) == IF lpc[l] \in {"burn", "complete"} THEN job[l] ELSE NoJob

Queue == INSTANCE HandOut WITH
            Items <- Jobs,
            Workers <- Loops,
            Nothing <- NoJob,
            offered <- {j \in Jobs : status[j] # "none"},
            taken <- {j \in Jobs : status[j] \in {"running", "done"}},
            finished <- {j \in Jobs : status[j] = "done"},
            hand <- [l \in Loops |-> InHand(l)]

JobsAreHandedOut == Queue!Spec

\* A loop that burns or completes a job has a running one: the status in the
\* WHERE of complete always matches, and done means that a burn ended.
HeldIsRunning ==
    \A l \in Loops : lpc[l] \in {"burn", "complete"} => status[job[l]] = "running"

\* A job runs at most once: it is never put back, and done is final.
JobsMoveForward ==
    [][\A j \in Jobs : status'[j] # status[j] =>
          <<status[j], status'[j]>> \in
              {<<"none", "queued">>, <<"queued", "running">>, <<"running", "done">>}]_vars

\* A running job has its loop, unless a query failed, an instance was killed or an
\* instance was told to stop: sleeping and polling lose nothing.
OnlyLossStrands ==
    faults = 0 /\ signals = 0 =>
        \A j \in Jobs : status[j] = "running" => \E l \in Loops : job[l] = j

\* A request that is being served when SIGTERM arrives is still answered: only
\* a failed query or a killed instance loses one.
RequestsOutliveSignals == \A j \in Jobs : request[j] = "lost" => faults > 0

\* Queued jobs do not wait for ever: failed queries and instances that are taken
\* away do not stop the loops from polling.
QueueDrains == \A j \in Jobs : status[j] = "queued" ~> status[j] # "queued"

\* An instance that was told to stop goes away.
StoppedGoes == \A i \in Instances : up[i] = "stopped" ~> up[i] = "gone"

(***************************************************************************)
(* What a comment says, and the code does not ensure                       *)
(***************************************************************************)
\* main.ts:26-28, "Stopping the poll loop first means a job is never claimed by
\* an instance that is about to disappear - that job would sit 'running' with
\* nothing running it": SIGTERM alone strands no job.
RunningIsRun ==
    faults = 0 =>
        \A j \in Jobs : status[j] = "running" => \E l \in Loops : job[l] = j
=============================================================================
