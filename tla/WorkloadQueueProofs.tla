------------------------- MODULE WorkloadQueueProofs -------------------------
(***************************************************************************)
(* What holds of the job queue for every number of jobs, instances and     *)
(* loops, and every bound on signals and failures.                         *)
(***************************************************************************)
EXTENDS WorkloadQueue, FiniteSetTheorems, TLAPS

USE InstancesAssumption, BoundsAssumption, NoJobIsNone

(***************************************************************************)
(* The inductive invariant: what a loop knows of the job in its hands, and *)
(* what a request and its instance know of each other.                     *)
(***************************************************************************)
Hands ==
    \A l \in Loops :
        /\ job[l] # NoJob <=> lpc[l] \in {"locked", "burn", "complete"}
        /\ lpc[l] = "locked" => status[job[l]] = "queued"
        /\ lpc[l] \in {"burn", "complete"} => status[job[l]] = "running"
        /\ up[HomeOf[l]] = "gone" => lpc[l] = "over"

Requests ==
    \A j \in Jobs :
        /\ request[j] \in {"none", "accepted"} => status[j] = "none"
        /\ request[j] \in {"accepted", "inserted"} => up[server[j]] \in {"up", "stopped"}

IInv ==
    /\ TypeOK
    /\ Hands
    /\ JobHeldOnce
    /\ Requests
    /\ RequestsOutliveSignals

LEMMA CountIsNatural ==
  ASSUME NEW S \in SUBSET Jobs PROVE Cardinality(S) + 1 \in Nat
BY FS_Subset, FS_CardinalityType

LEMMA InvInit == Init => IInv
<1> SUFFICES ASSUME Init PROVE IInv
  OBVIOUS
<1>1. TypeOK
  BY DEF Init, TypeOK, LoopPcs, LoopStart
<1>2. Hands /\ JobHeldOnce
  BY DEF Init, Hands, JobHeldOnce, LoopStart
<1>3. Requests /\ RequestsOutliveSignals
  BY DEF Init, Requests, RequestsOutliveSignals
<1> QED BY <1>1, <1>2, <1>3 DEF IInv

LEMMA RequestStep ==
  ASSUME IInv, NEW j \in Jobs, Accept(j) \/ Request(j) \/ EnqueueFails(j) \/ EnqueueUnanswered(j)
  PROVE  IInv'
<1> USE DEF IInv, TypeOK, Hands, JobHeldOnce, Requests, RequestsOutliveSignals,
        queueVars, requestVars, loopVars, Fault
<1>1. CASE Accept(j)
  BY <1>1 DEF Accept
<1>2. CASE Enqueue(j)
  <2>1. Cardinality({k \in Jobs : status[k] # "none"}) + 1 \in Nat
    BY CountIsNatural
  <2> QED BY <1>2, <2>1 DEF Enqueue
<1>3. CASE EnqueueFails(j)
  BY <1>3 DEF EnqueueFails
<1>4. CASE Answer(j)
  BY <1>4 DEF Answer
<1>5. CASE EnqueueUnanswered(j)
  <2>1. Cardinality({k \in Jobs : status[k] # "none"}) + 1 \in Nat
    BY CountIsNatural
  <2> QED BY <1>5, <2>1 DEF EnqueueUnanswered
<1> QED BY <1>1, <1>2, <1>3, <1>4, <1>5 DEF Request

LEMMA LoopStep ==
  ASSUME IInv, NEW l \in Loops, Loop(l) \/ QueryFails(l)
  PROVE  IInv'
<1> USE DEF IInv, TypeOK, LoopPcs, Hands, JobHeldOnce, Requests, RequestsOutliveSignals,
        queueVars, requestVars, loopVars, Fault, At
<1>1. CASE Poll(l) \/ Wake(l) \/ ClaimNothing(l)
  BY <1>1 DEF Poll, Wake, ClaimNothing
<1>2. CASE ClaimLock(l)
  BY <1>2 DEF ClaimLock, Claimable, LockedByAny
<1>3. CASE ClaimCommit(l)
  BY <1>3 DEF ClaimCommit
<1>4. CASE BurnEnds(l)
  BY <1>4 DEF BurnEnds
<1>h. \A m \in Loops : m # l /\ job[l] # NoJob => job[m] # job[l]
  OBVIOUS
<1>5. CASE Complete(l)
  <2>1. job[l] \in Jobs /\ status[job[l]] = "running"
    BY <1>5 DEF Complete
  <2>2. status' = [status EXCEPT ![job[l]] = "done"]
    BY <1>5, <2>1 DEF Complete, CompletedStatus
  <2>3. TypeOK'
    BY <1>5, <2>2 DEF Complete
  <2>4. Hands' /\ JobHeldOnce'
    BY <1>5, <1>h, <2>1, <2>2 DEF Complete
  <2>5. Requests' /\ RequestsOutliveSignals'
    BY <1>5, <2>1, <2>2 DEF Complete
  <2> QED BY <2>3, <2>4, <2>5
<1>6. CASE QueryFails(l)
  <2>1. \/ UNCHANGED status
        \/ /\ job[l] \in Jobs
           /\ \/ status[job[l]] = "queued" /\ status' = [status EXCEPT ![job[l]] = "running"]
              \/ status[job[l]] = "running" /\ status' = [status EXCEPT ![job[l]] = "done"]
    BY <1>6 DEF QueryFails, Carried, CompletedStatus
  <2>2. TypeOK'
    BY <1>6, <2>1 DEF QueryFails, AfterError
  <2>3. Hands' /\ JobHeldOnce'
    BY <1>6, <1>h, <2>1 DEF QueryFails, AfterError
  <2>4. Requests' /\ RequestsOutliveSignals'
    BY <1>6, <2>1 DEF QueryFails
  <2> QED BY <2>2, <2>3, <2>4
<1> QED BY <1>1, <1>2, <1>3, <1>4, <1>5, <1>6 DEF Loop

LEMMA InstanceStep ==
  ASSUME IInv, NEW i \in Instances, Instance(i) \/ Signal(i) \/ Kill(i)
  PROVE  IInv'
<1> USE DEF IInv, TypeOK, LoopPcs, Hands, JobHeldOnce, Requests, RequestsOutliveSignals,
        queueVars, requestVars, loopVars, Fault, Vanish, LoopsOf, InFlight
<1>1. CASE ServerCloses(i) \/ Signal(i)
  BY <1>1 DEF ServerCloses, Signal
<1>2. CASE Exit(i)
  <2>1. InFlight(i) = {}
    BY <1>2 DEF Exit
  <2>2. request' = request
    BY <1>2, <2>1 DEF Exit
  <2>3. TypeOK'
    BY <1>2, <2>2 DEF Exit
  <2>4. Hands' /\ JobHeldOnce'
    BY <1>2 DEF Exit
  <2>5. Requests' /\ RequestsOutliveSignals'
    BY <1>2, <2>1, <2>2 DEF Exit
  <2> QED BY <2>3, <2>4, <2>5
<1>3. CASE Start(i)
  <2>1. TypeOK'
    BY <1>3 DEF Start, LoopStart
  <2>2. Hands' /\ JobHeldOnce'
    BY <1>3 DEF Start, LoopStart
  <2>3. Requests' /\ RequestsOutliveSignals'
    BY <1>3 DEF Start
  <2> QED BY <2>1, <2>2, <2>3
<1>4. CASE Kill(i)
  <2>1. PICK S \in SUBSET {l \in LoopsOf(i) : lpc[l] \in {"locked", "complete"}} :
           status' = [j \in Jobs |->
                         IF \E l \in S : job[l] = j THEN Carried(status[j]) ELSE status[j]]
    BY <1>4 DEF Kill
  <2>2. \A j \in Jobs :
           \/ status'[j] = status[j]
           \/ /\ status[j] \in {"queued", "running"}
              /\ status'[j] \in {"running", "done"}
              /\ \E l \in S : job[l] = j
    BY <2>1 DEF Carried, CompletedStatus
  <2>3. TypeOK'
    <3>1. status' \in [Jobs -> {"none", "queued", "running", "done"}]
      BY <2>1 DEF Carried, CompletedStatus
    <3> QED BY <1>4, <3>1 DEF Kill
  <2>4. \A l \in Loops \ LoopsOf(i) : job[l] # NoJob => status'[job[l]] = status[job[l]]
    BY <2>2
  <2>5. JobHeldOnce'
    BY <1>4 DEF Kill
  <2>6. Hands'
    BY <1>4, <2>4 DEF Kill
  <2>7. Requests' /\ RequestsOutliveSignals'
    BY <1>4, <2>2 DEF Kill
  <2> QED BY <2>3, <2>5, <2>6, <2>7
<1> QED BY <1>1, <1>2, <1>3, <1>4 DEF Instance

LEMMA InvStep == IInv /\ [Next]_vars => IInv'
<1> SUFFICES ASSUME IInv, [Next]_vars PROVE IInv'
  OBVIOUS
<1>1. CASE Next
  BY <1>1, RequestStep, LoopStep, InstanceStep DEF Next
<1>2. CASE UNCHANGED vars
  BY <1>2 DEF vars, queueVars, requestVars, loopVars, IInv, TypeOK, Hands, JobHeldOnce,
     Requests, RequestsOutliveSignals
<1> QED BY <1>1, <1>2

LEMMA InvAlways == Spec => []IInv
BY InvInit, InvStep, PTL DEF Spec

\* Every variable keeps its type.
THEOREM TypeCorrect == Spec => []TypeOK
<1>1. IInv => TypeOK
  BY DEF IInv
<1> QED BY <1>1, InvAlways, PTL

\* SKIP LOCKED and the status give a job to one loop, whatever fails.
THEOREM JobNeverShared == Spec => []JobHeldOnce
<1>1. IInv => JobHeldOnce
  BY DEF IInv
<1> QED BY <1>1, InvAlways, PTL

\* The guard of complete always matches.
THEOREM CompleteNeverMisses == Spec => []HeldIsRunning
<1>1. IInv => HeldIsRunning
  BY DEF IInv, Hands, HeldIsRunning
<1> QED BY <1>1, InvAlways, PTL

\* No signal loses a request that was accepted before it.
THEOREM SignalsLoseNoRequest == Spec => []RequestsOutliveSignals
<1>1. IInv => RequestsOutliveSignals
  BY DEF IInv
<1> QED BY <1>1, InvAlways, PTL

(***************************************************************************)
(* The way of a job.                                                       *)
(***************************************************************************)
Forward ==
    \A j \in Jobs : status'[j] # status[j] =>
        <<status[j], status'[j]>> \in
            {<<"none", "queued">>, <<"queued", "running">>, <<"running", "done">>}

LEMMA ForwardStep == IInv /\ [Next]_vars => Forward
<1> SUFFICES ASSUME IInv, [Next]_vars PROVE Forward
  OBVIOUS
<1> USE DEF IInv, TypeOK, Hands, Forward, queueVars, requestVars, loopVars
<1>1. ASSUME NEW j \in Jobs, Accept(j) \/ Request(j) \/ EnqueueFails(j) \/ EnqueueUnanswered(j)
      PROVE  Forward
  BY <1>1 DEF Accept, Request, Enqueue, Answer, EnqueueFails, EnqueueUnanswered, Requests
<1>2. ASSUME NEW l \in Loops, Loop(l) PROVE Forward
  BY <1>2 DEF Loop, Poll, Wake, ClaimNothing, ClaimLock, ClaimCommit, BurnEnds, Complete,
     CompletedStatus
<1>3. ASSUME NEW l \in Loops, QueryFails(l) PROVE Forward
  BY <1>3 DEF QueryFails, Carried, CompletedStatus
<1>4. ASSUME NEW i \in Instances, Instance(i) \/ Signal(i) PROVE Forward
  BY <1>4 DEF Instance, ServerCloses, Exit, Start, Signal
<1>5. ASSUME NEW i \in Instances, Kill(i) PROVE Forward
  BY <1>5 DEF Kill, Carried, CompletedStatus, LoopsOf
<1>6. CASE UNCHANGED vars
  BY <1>6 DEF vars
<1> QED BY <1>1, <1>2, <1>3, <1>4, <1>5, <1>6 DEF Next

\* A job runs at most once and done is final, whatever is killed.
THEOREM JobsOnlyMoveForward == Spec => JobsMoveForward
<1>1. IInv /\ [Next]_vars => [Forward]_vars
  BY ForwardStep
<1> QED BY <1>1, InvAlways, PTL DEF Spec, JobsMoveForward, Forward

(***************************************************************************)
(* What leaves a running job without a loop.  An instance shuts down only  *)
(* when it was told to, and goes only then or when it is killed.           *)
(***************************************************************************)
ShutsDownWhenTold ==
    faults = 0 /\ signals = 0 => \A i \in Instances : up[i] = "up"

LEMMA LossInit == Init => ShutsDownWhenTold /\ OnlyLossStrands
BY DEF Init, ShutsDownWhenTold, OnlyLossStrands

LEMMA LossStep ==
  IInv /\ ShutsDownWhenTold /\ OnlyLossStrands /\ [Next]_vars
      => ShutsDownWhenTold' /\ OnlyLossStrands'
<1> SUFFICES ASSUME IInv, ShutsDownWhenTold, OnlyLossStrands, [Next]_vars
             PROVE  ShutsDownWhenTold' /\ OnlyLossStrands'
  OBVIOUS
<1> USE DEF IInv, TypeOK, Hands, ShutsDownWhenTold, OnlyLossStrands, At,
        queueVars, requestVars, loopVars
<1>1. ASSUME NEW j \in Jobs, Accept(j) \/ Request(j)
      PROVE  ShutsDownWhenTold' /\ OnlyLossStrands'
  BY <1>1 DEF Accept, Request, Enqueue, Answer
<1>2. ASSUME NEW l \in Loops, Loop(l)
      PROVE  ShutsDownWhenTold' /\ OnlyLossStrands'
  <2>1. CASE Poll(l) \/ Wake(l) \/ ClaimNothing(l)
    BY <2>1 DEF Poll, Wake, ClaimNothing
  <2>2. CASE ClaimLock(l)
    BY <2>2 DEF ClaimLock
  <2>3. CASE ClaimCommit(l)
    BY <2>3 DEF ClaimCommit
  <2>4. CASE BurnEnds(l)
    BY <2>4 DEF BurnEnds, Connected
  <2>5. CASE Complete(l)
    BY <2>5 DEF Complete, CompletedStatus
  <2> QED BY <1>2, <2>1, <2>2, <2>3, <2>4, <2>5 DEF Loop
<1>3. ASSUME Fault PROVE ShutsDownWhenTold' /\ OnlyLossStrands'
  <2>1. faults' # 0
    BY <1>3 DEF Fault
  <2> QED BY <2>1
<1>4. ASSUME NEW i \in Instances, Instance(i)
      PROVE  ShutsDownWhenTold' /\ OnlyLossStrands'
  BY <1>4 DEF Instance, ServerCloses, Exit, Start
<1>5. ASSUME NEW i \in Instances, Signal(i)
      PROVE  ShutsDownWhenTold' /\ OnlyLossStrands'
  <2>1. signals' # 0
    BY <1>5 DEF Signal
  <2> QED BY <2>1
<1>6. CASE UNCHANGED vars
  BY <1>6 DEF vars
<1> QED BY <1>1, <1>2, <1>3, <1>4, <1>5, <1>6 DEF Next, EnqueueFails, EnqueueUnanswered,
                                                     QueryFails, Kill

\* While nothing fails and no instance is told to stop, a running job is in the
\* hands of a loop: what RunningIsRun claims of SIGTERM too.
THEOREM JobsAreLostByLossOnly == Spec => []OnlyLossStrands
BY LossInit, LossStep, InvAlways, PTL DEF Spec

(***************************************************************************)
(* The refinement of HandOut.                                              *)
(***************************************************************************)
Offered == {j \in Jobs : status[j] # "none"}
Taken == {j \in Jobs : status[j] \in {"running", "done"}}
Finished == {j \in Jobs : status[j] = "done"}
InHands == [l \in Loops |-> InHand(l)]

handOut == <<Offered, Taken, Finished, InHands>>

LEMMA HandsOff ==
  ASSUME UNCHANGED <<status, lpc, job>> PROVE UNCHANGED handOut
BY DEF handOut, Offered, Taken, Finished, InHands, InHand

LEMMA EnqueueOffers ==
  ASSUME IInv, NEW j \in Jobs, Enqueue(j) \/ EnqueueUnanswered(j) PROVE Queue!Offer(j)
<1>1. j \notin Offered /\ Offered' = Offered \cup {j}
  BY DEF Enqueue, EnqueueUnanswered, IInv, TypeOK, Requests, Offered
<1>2. Taken' = Taken /\ Finished' = Finished /\ InHands' = InHands
  BY DEF Enqueue, EnqueueUnanswered, IInv, TypeOK, Requests, Taken, Finished, InHands, InHand,
         loopVars
<1> QED BY <1>1, <1>2 DEF Queue!Offer, Offered, Taken, Finished, InHands

LEMMA ClaimTakes ==
  ASSUME IInv, NEW l \in Loops, ClaimCommit(l), NEW j \in Jobs, j = job[l]
  PROVE  Queue!Take(l, j)
<1>0. /\ lpc[l] = "locked" /\ status[j] = "queued"
      /\ status \in [Jobs -> {"none", "queued", "running", "done"}]
      /\ lpc \in [Loops -> LoopPcs] /\ job' = job
  BY DEF IInv, TypeOK, Hands, ClaimCommit
<1>1. /\ status' = [status EXCEPT ![j] = "running"]
      /\ lpc' = [lpc EXCEPT ![l] = "burn"]
  BY DEF ClaimCommit, At
<1>2. Offered' = Offered /\ Finished' = Finished
  BY <1>0, <1>1 DEF Offered, Finished
<1>3. Taken' = Taken \cup {j} /\ j \in Offered \ Taken
  BY <1>0, <1>1 DEF Taken, Offered
<1>4. InHands[l] = NoJob /\ InHands' = [InHands EXCEPT ![l] = j]
  BY <1>0, <1>1 DEF InHands, InHand
<1> QED BY <1>2, <1>3, <1>4 DEF Queue!Take, Offered, Taken, Finished, InHands

LEMMA PutsDown ==
  ASSUME NEW W \in SUBSET Loops, NEW ended \in SUBSET Jobs, NEW wasted \in SUBSET Jobs,
         ended \subseteq {InHands[l] : l \in W} \ {NoJob},
         wasted \subseteq Offered \ Taken,
         Finished' = Finished \cup ended,
         Taken' = Taken \cup wasted,
         Offered' = Offered,
         InHands' = [l \in Loops |-> IF l \in W THEN NoJob ELSE InHands[l]]
  PROVE  Queue!Next
<1>1. Queue!PutDown(W, ended, wasted)
  BY DEF Queue!PutDown, Offered, Taken, Finished, InHands
<1> QED BY <1>1 DEF Queue!Next

\* A job whose status went on, and what it was before.
LEMMA StatusGoesOn ==
  ASSUME IInv, NEW ended \in SUBSET Jobs, NEW wasted \in SUBSET Jobs,
         \A j \in ended : status[j] = "running" /\ status'[j] = "done",
         \A j \in wasted : status[j] = "queued" /\ status'[j] = "running",
         \A j \in Jobs \ (ended \cup wasted) : status'[j] = status[j]
  PROVE  /\ wasted \subseteq Offered \ Taken
         /\ Finished' = Finished \cup ended
         /\ Taken' = Taken \cup wasted
         /\ Offered' = Offered
BY DEF Offered, Taken, Finished

LEMMA DropsAll ==
  ASSUME NEW W \in SUBSET Loops, UNCHANGED status,
         InHands' = [l \in Loops |-> IF l \in W THEN NoJob ELSE InHands[l]]
  PROVE  Queue!Next
<1> DEFINE none == {}
<1>1. /\ none \in SUBSET Jobs /\ none \subseteq Offered \ Taken
      /\ none \subseteq {InHands[l] : l \in W} \ {NoJob}
      /\ Finished' = Finished \cup none /\ Taken' = Taken \cup none /\ Offered' = Offered
  BY DEF Offered, Taken, Finished
<1> HIDE DEF none
<1> QED BY <1>1, PutsDown

\* A loop puts down its job, which it has ended or which was never to be its own.
LEMMA DropsOne ==
  ASSUME IInv, NEW l \in Loops, NEW j \in Jobs,
         \/ /\ InHands[l] = j /\ status[j] = "running"
            /\ status' = [status EXCEPT ![j] = "done"]
         \/ status[j] = "queued" /\ status' = [status EXCEPT ![j] = "running"],
         InHands' = [InHands EXCEPT ![l] = NoJob]
  PROVE  Queue!Next
<1> DEFINE W == {l}
           ended == IF status[j] = "running" THEN {j} ELSE {}
           wasted == IF status[j] = "running" THEN {} ELSE {j}
<1>1. W \in SUBSET Loops /\ ended \in SUBSET Jobs /\ wasted \in SUBSET Jobs
  OBVIOUS
<1>2. ended \subseteq {InHands[m] : m \in W} \ {NoJob}
  BY NoJobIsNone
<1>3. InHands' = [m \in Loops |-> IF m \in W THEN NoJob ELSE InHands[m]]
  BY DEF InHands
<1>4. /\ \A k \in ended : status[k] = "running" /\ status'[k] = "done"
      /\ \A k \in wasted : status[k] = "queued" /\ status'[k] = "running"
      /\ \A k \in Jobs \ (ended \cup wasted) : status'[k] = status[k]
  BY DEF IInv, TypeOK
<1> HIDE DEF W, ended, wasted
<1>5. /\ wasted \subseteq Offered \ Taken /\ Finished' = Finished \cup ended
      /\ Taken' = Taken \cup wasted /\ Offered' = Offered
  BY <1>1, <1>4, StatusGoesOn
<1> QED BY <1>1, <1>2, <1>3, <1>5, PutsDown

LEMMA LoopHandsOut ==
  ASSUME IInv, NEW l \in Loops, Loop(l) PROVE [Queue!Next]_handOut
<1> USE DEF IInv, TypeOK, Hands, At, queueVars, requestVars, loopVars
<1>1. CASE Poll(l) \/ Wake(l) \/ ClaimNothing(l) \/ ClaimLock(l)
  <2>1. status' = status /\ InHands' = InHands
    BY <1>1 DEF Poll, Wake, ClaimNothing, ClaimLock, InHands, InHand
  <2> QED BY <2>1 DEF handOut, Offered, Taken, Finished
<1>2. CASE ClaimCommit(l)
  <2>1. PICK j \in Jobs : j = job[l]
    BY <1>2 DEF ClaimCommit
  <2>2. Queue!Take(l, j)
    BY <1>2, <2>1, ClaimTakes
  <2> QED BY <2>2 DEF Queue!Next
<1>3. CASE BurnEnds(l)
  <2>1. CASE Connected(l)
    <3>1. status' = status /\ InHands' = InHands
      BY <1>3, <2>1 DEF BurnEnds, InHands, InHand
    <3> QED BY <3>1 DEF handOut, Offered, Taken, Finished
  <2>2. CASE ~Connected(l)
    <3> DEFINE W == {l}
    <3>1. InHands' = [m \in Loops |-> IF m \in W THEN NoJob ELSE InHands[m]]
      BY <1>3, <2>2 DEF BurnEnds, InHands, InHand
    <3>2. status' = status /\ W \in SUBSET Loops
      BY <1>3 DEF BurnEnds
    <3> HIDE DEF W
    <3> QED BY <3>1, <3>2, DropsAll
  <2> QED BY <2>1, <2>2
<1>4. CASE Complete(l)
  <2>1. PICK j \in Jobs : j = job[l]
    BY <1>4 DEF Complete
  <2>2. status[j] = "running" /\ status' = [status EXCEPT ![j] = "done"]
    BY <1>4, <2>1 DEF Complete, CompletedStatus
  <2>3. InHands[l] = j /\ InHands' = [InHands EXCEPT ![l] = NoJob]
    BY <1>4, <2>1 DEF Complete, InHands, InHand
  <2> QED BY <2>2, <2>3, DropsOne
<1> QED BY <1>1, <1>2, <1>3, <1>4 DEF Loop

LEMMA FailureHandsOut ==
  ASSUME IInv, NEW l \in Loops, QueryFails(l) PROVE Queue!Next
<1> USE DEF IInv, TypeOK, Hands
<1>1. InHands' = [InHands EXCEPT ![l] = NoJob]
  BY DEF QueryFails, At, AfterError, InHands, InHand
<1>2. CASE status' = status
  <2> DEFINE W == {l}
  <2>1. /\ W \in SUBSET Loops
        /\ InHands' = [m \in Loops |-> IF m \in W THEN NoJob ELSE InHands[m]]
    BY <1>1 DEF InHands
  <2> HIDE DEF W
  <2> QED BY <1>2, <2>1, DropsAll
<1>3. CASE lpc[l] \in {"locked", "complete"} /\ status' = [status EXCEPT ![job[l]] = Carried(@)]
  <2>1. PICK j \in Jobs : j = job[l]
    BY <1>3
  <2>2. \/ status[j] = "queued" /\ status' = [status EXCEPT ![j] = "running"]
        \/ /\ InHands[l] = j /\ status[j] = "running"
           /\ status' = [status EXCEPT ![j] = "done"]
    BY <1>3, <2>1 DEF Carried, CompletedStatus, InHands, InHand
  <2> QED BY <1>1, <2>2, DropsOne
<1> QED BY <1>2, <1>3 DEF QueryFails

\* What becomes of the hands of an instance that has gone.
LEMMA VanishDrops ==
  ASSUME NEW i \in Instances, Vanish(i)
  PROVE  InHands' = [l \in Loops |-> IF l \in LoopsOf(i) THEN NoJob ELSE InHands[l]]
BY DEF Vanish, InHands, InHand

LEMMA KillHandsOut ==
  ASSUME IInv, NEW i \in Instances, Kill(i) PROVE Queue!Next
<1>1. PICK S \in SUBSET {l \in LoopsOf(i) : lpc[l] \in {"locked", "complete"}} :
         status' = [j \in Jobs |->
                       IF \E l \in S : job[l] = j THEN Carried(status[j]) ELSE status[j]]
  BY DEF Kill
<1> DEFINE ended == {j \in Jobs : \E l \in S : lpc[l] = "complete" /\ job[l] = j}
           wasted == {j \in Jobs : \E l \in S : lpc[l] = "locked" /\ job[l] = j}
<1>2. S \subseteq Loops /\ LoopsOf(i) \in SUBSET Loops
  BY DEF LoopsOf
<1>3. \A l \in S : job[l] \in Jobs /\ lpc[l] \in {"locked", "complete"}
  BY <1>2, NoJobIsNone DEF IInv, TypeOK, Hands
<1>4. \A j \in ended : status[j] = "running" /\ status'[j] = "done"
  BY <1>1, <1>2 DEF IInv, Hands, Carried, CompletedStatus
<1>5. \A j \in wasted : status[j] = "queued" /\ status'[j] = "running"
  BY <1>1, <1>2 DEF IInv, Hands, Carried
<1>6. \A j \in Jobs \ (ended \cup wasted) : status'[j] = status[j]
  BY <1>1, <1>3
<1>7. ended \in SUBSET Jobs /\ wasted \in SUBSET Jobs
  OBVIOUS
<1>8. ended \subseteq {InHands[l] : l \in LoopsOf(i)} \ {NoJob}
  <2> SUFFICES ASSUME NEW j \in ended PROVE j \in {InHands[l] : l \in LoopsOf(i)} \ {NoJob}
    OBVIOUS
  <2>1. PICK l \in S : lpc[l] = "complete" /\ job[l] = j
    OBVIOUS
  <2>2. l \in LoopsOf(i) /\ InHands[l] = j /\ j # NoJob
    BY <1>2, <2>1, NoJobIsNone DEF InHands, InHand
  <2> QED BY <2>2
<1> HIDE DEF ended, wasted
<1>9. /\ wasted \subseteq Offered \ Taken /\ Finished' = Finished \cup ended
      /\ Taken' = Taken \cup wasted /\ Offered' = Offered
  BY <1>4, <1>5, <1>6, <1>7, StatusGoesOn
<1>10. InHands' = [l \in Loops |-> IF l \in LoopsOf(i) THEN NoJob ELSE InHands[l]]
  BY VanishDrops DEF Kill
<1> QED BY <1>2, <1>7, <1>8, <1>9, <1>10, PutsDown

LEMMA InstanceHandsOut ==
  ASSUME IInv, NEW i \in Instances, Instance(i) \/ Signal(i) PROVE [Queue!Next]_handOut
<1> USE DEF queueVars, requestVars, loopVars
<1>1. CASE ServerCloses(i) \/ Signal(i)
  BY <1>1, HandsOff DEF ServerCloses, Signal
<1>2. CASE Start(i)
  <2>1. status' = status /\ InHands' = InHands
    BY <1>2 DEF Start, LoopsOf, LoopStart, IInv, TypeOK, Hands, InHands, InHand
  <2> QED BY <2>1 DEF handOut, Offered, Taken, Finished
<1>3. CASE Exit(i)
  <2>1. status' = status /\ LoopsOf(i) \in SUBSET Loops
    BY <1>3 DEF Exit, LoopsOf
  <2>2. InHands' = [l \in Loops |-> IF l \in LoopsOf(i) THEN NoJob ELSE InHands[l]]
    BY <1>3, VanishDrops DEF Exit
  <2> QED BY <2>1, <2>2, DropsAll
<1> QED BY <1>1, <1>2, <1>3 DEF Instance

LEMMA StepHandsOut == IInv /\ [Next]_vars => [Queue!Next]_handOut
<1> SUFFICES ASSUME IInv, [Next]_vars PROVE [Queue!Next]_handOut
  OBVIOUS
<1> USE DEF queueVars, requestVars, loopVars
<1>1. ASSUME NEW j \in Jobs, Enqueue(j) \/ EnqueueUnanswered(j)
      PROVE  [Queue!Next]_handOut
  BY <1>1, EnqueueOffers DEF Queue!Next
<1>2. ASSUME NEW j \in Jobs, Accept(j) \/ Answer(j) \/ EnqueueFails(j)
      PROVE  UNCHANGED handOut
  BY <1>2, HandsOff DEF Accept, Answer, EnqueueFails
<1>3. CASE UNCHANGED vars
  BY <1>3, HandsOff DEF vars
<1> QED BY <1>1, <1>2, <1>3, LoopHandsOut, FailureHandsOut, InstanceHandsOut, KillHandsOut
        DEF Next, Request

\* The loops and the table are a queue that gives a job out once, to one loop, and
\* lets only that loop's burn finish it, whatever fails and is killed.
THEOREM JobsRefineHandOut == Spec => JobsAreHandedOut
<1>1. Init => Queue!Init
  BY DEF Init, Queue!Init, InHand, LoopStart
<1>2. IInv /\ [Next]_vars => [Queue!Next]_handOut
  BY StepHandsOut
<1> QED BY <1>1, <1>2, InvAlways, PTL
       DEF Spec, JobsAreHandedOut, Queue!Spec, Queue!vars, handOut,
           Offered, Taken, Finished, InHands
=============================================================================
