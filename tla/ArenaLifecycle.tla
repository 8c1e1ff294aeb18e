--------------------------- MODULE ArenaLifecycle ---------------------------
(***************************************************************************)
(* The life of an arena environment and of the turns submitted to it.      *)
(*                                                                         *)
(* The API inserts environments (create) and turns (submit).  Apply jobs   *)
(* (Runners) claim one turn, run Terraform and record the outcome; reap    *)
(* jobs (Reapers) read a batch of expired environments, destroy them one   *)
(* by one and mark the rows.  The jobs are separate Cloud Run executions   *)
(* that share the two tables and one Terraform state per environment.      *)
(*                                                                         *)
(* A transaction of the code is one step when its statements cannot be     *)
(* told apart from outside; claimTurn is two, since its row lock is held   *)
(* while it runs.  Every await outside a transaction separates two steps.  *)
(***************************************************************************)
EXTENDS Naturals, FiniteSets

CONSTANTS
    NumEnvs,      \* rows of arena_environments, in the order of their TTL
    NumTurns,     \* rows of arena_turns, in the order of their created_at
    EnvOf,        \* the environment each turn belongs to
    Corrupted,    \* turns whose stored tfvars something else has changed
    Runners,      \* executions of the job with --mode=apply
    Reapers,      \* executions of the job with --mode=reap
    MaxLive,      \* MAX_CONCURRENT_ENVIRONMENTS
    BatchSize,    \* REAP_BATCH_SIZE
    MaxCrashes    \* bound: executions killed or failed in the database

Envs  == 1 .. NumEnvs
Turns == 1 .. NumTurns
NoTurn == 0

ASSUME SizesAssumption ==
    /\ NumEnvs \in Nat /\ NumTurns \in Nat
    /\ MaxLive \in Nat /\ BatchSize \in Nat /\ MaxCrashes \in Nat
ASSUME TurnsAssumption == EnvOf \in [Turns -> Envs] /\ Corrupted \subseteq Turns

VARIABLES
    envStatus,    \* arena_environments.status, "none" before the INSERT
    ttlPassed,    \* how many of the TTLs have passed
    turnStatus,   \* arena_turns.status, "none" before the INSERT
    resources,    \* what exists in the cloud for each environment
    stateLock,    \* Terraform's lock on the environment's state
    rpc, rturn,   \* each apply execution: where it is and the turn it took
    ppc, batch,   \* each reap execution: where it is and what is left to do
    crashes       \* executions lost so far

apiVars    == <<envStatus, ttlPassed, turnStatus>>
cloudVars  == <<resources, stateLock>>
runnerVars == <<rpc, rturn>>
reaperVars == <<ppc, batch>>
vars == <<apiVars, cloudVars, runnerVars, reaperVars, crashes>>

EnvStatuses  == {"pending", "provisioning", "ready", "degraded", "destroyed"}
TurnStatuses == {"submitted", "rejected", "applying", "apply_failed", "applied"}
RunnerPcs == {"idle", "claiming", "claimed", "valid", "applying", "ok", "failed"}
ReaperPcs == {"idle", "next", "destroying", "destroyed"}

TypeOK ==
    /\ envStatus \in [Envs -> EnvStatuses \cup {"none"}]
    /\ ttlPassed \in Nat
    /\ turnStatus \in [Turns -> TurnStatuses \cup {"none"}]
    /\ resources \in [Envs -> {"absent", "partial", "up"}]
    /\ stateLock \in [Envs -> {"free", "held", "stale"}]
    /\ rpc \in [Runners -> RunnerPcs]
    /\ rturn \in [Runners -> Turns \cup {NoTurn}]
    /\ ppc \in [Reapers -> ReaperPcs]
    /\ batch \in [Reapers -> SUBSET Envs]
    /\ crashes \in Nat

Init ==
    /\ envStatus = [e \in Envs |-> "none"]
    /\ ttlPassed = 0
    /\ turnStatus = [t \in Turns |-> "none"]
    /\ resources = [e \in Envs |-> "absent"]
    /\ stateLock = [e \in Envs |-> "free"]
    /\ rpc = [r \in Runners |-> "idle"]
    /\ rturn = [r \in Runners |-> NoTurn]
    /\ ppc = [p \in Reapers |-> "idle"]
    /\ batch = [p \in Reapers |-> {}]
    /\ crashes = 0

(***************************************************************************)
(* Shared vocabulary                                                       *)
(***************************************************************************)
LiveButDegraded == {"pending", "provisioning", "ready"}
LiveStatuses == {"pending", "provisioning", "ready", "degraded"}

\* Every TTL is the creation time plus the same 72 hours, so TTLs pass in the
\* order of creation.
Expired(e) == e <= ttlPassed

TurnsOf(e) == {t \in Turns : EnvOf[t] = e}

IsFirst(x, S) == x \in S /\ \A y \in S : x <= y

(***************************************************************************)
(* The API                                                                 *)
(***************************************************************************)

\* EnvironmentsService.create: refused at the cap; environments are numbered
\* in the order in which the creation lock lets them in.
Create(e) ==
    /\ envStatus[e] = "none"
    /\ \A f \in Envs : f < e => envStatus[f] # "none"
    /\ Cardinality({f \in Envs : envStatus[f] \in LiveStatuses}) < MaxLive
    /\ envStatus' = [envStatus EXCEPT ![e] = "pending"]
    /\ UNCHANGED <<ttlPassed, turnStatus, cloudVars, runnerVars, reaperVars, crashes>>

\* TurnsService.submit looks the environment up by id and owner only: neither
\* its status nor its TTL is a condition.  A design that does not parse is
\* stored as rejected, one that does as submitted.
Submit(t, status) ==
    /\ turnStatus[t] = "none"
    /\ envStatus[EnvOf[t]] # "none"
    /\ turnStatus' = [turnStatus EXCEPT ![t] = status]
    /\ UNCHANGED <<envStatus, ttlPassed, cloudVars, runnerVars, reaperVars, crashes>>

SubmitAccepted(t) == Submit(t, "submitted")
SubmitRejected(t) == Submit(t, "rejected")

\* The TTL of the oldest environment that has not expired passes.
PassTtl ==
    /\ ttlPassed + 1 \in Envs
    /\ envStatus[ttlPassed + 1] # "none"
    /\ ttlPassed' = ttlPassed + 1
    /\ UNCHANGED <<envStatus, turnStatus, cloudVars, runnerVars, reaperVars, crashes>>

(***************************************************************************)
(* An apply execution: RunnerService.applyOnce                             *)
(***************************************************************************)
RowLocked(t) == \E r \in Runners : rpc[r] = "claiming" /\ rturn[r] = t

ClaimableIgnoringLocks == {t \in Turns : turnStatus[t] = "submitted"}
Claimable == {t \in Turns : turnStatus[t] = "submitted" /\ ~RowLocked(t)}

\* The SELECT ... FOR UPDATE SKIP LOCKED at the head of claimTurn: the oldest
\* submitted row no other transaction holds.  With none the execution is idle.
ClaimSelect(r) ==
    /\ rpc[r] = "idle"
    /\ \E t \in Turns :
        /\ IsFirst(t, Claimable)
        /\ rturn' = [rturn EXCEPT ![r] = t]
    /\ rpc' = [rpc EXCEPT ![r] = "claiming"]
    /\ UNCHANGED <<apiVars, cloudVars, reaperVars, crashes>>

StatusAsRead(s) == s
StatusOnClaim(s) == IF s = "pending" THEN "provisioning" ELSE s

\* The rest of claimTurn, to its commit.  The turn's UPDATE repeats the status
\* in its WHERE and its row count is not looked at; the environment is not
\* refused whatever its status.
ClaimCommit(r) ==
    /\ rpc[r] = "claiming"
    /\ LET t == rturn[r] IN
        /\ turnStatus' = [turnStatus EXCEPT
                              ![t] = IF @ = "submitted" THEN "applying" ELSE @]
        /\ envStatus' = [envStatus EXCEPT ![EnvOf[t]] = StatusOnClaim(@)]
    /\ rpc' = [rpc EXCEPT ![r] = "claimed"]
    /\ UNCHANGED <<ttlPassed, cloudVars, rturn, reaperVars, crashes>>

AcceptAnyStored(t) == TRUE
StoredIsValid(t) == t \notin Corrupted

\* parseTfvars on the stored row, and the comparison of its slug.
CheckStoredSilently(r) ==
    /\ rpc[r] = "claimed"
    /\ rpc' = [rpc EXCEPT ![r] = IF StoredIsValid(rturn[r]) THEN "valid" ELSE "idle"]
    /\ rturn' = [rturn EXCEPT ![r] = IF StoredIsValid(@) THEN @ ELSE NoTurn]
    /\ UNCHANGED <<apiVars, cloudVars, reaperVars, crashes>>

CheckStored(r) ==
    /\ rpc[r] = "claimed"
    /\ rpc' = [rpc EXCEPT ![r] = IF StoredIsValid(rturn[r]) THEN "valid" ELSE "failed"]
    /\ UNCHANGED <<apiVars, cloudVars, rturn, reaperVars, crashes>>

\* terraform init succeeds and terraform apply takes the state lock.
ApplyStart(r) ==
    LET e == EnvOf[rturn[r]] IN
    /\ rpc[r] = "valid"
    /\ stateLock[e] = "free"
    /\ stateLock' = [stateLock EXCEPT ![e] = "held"]
    /\ rpc' = [rpc EXCEPT ![r] = "applying"]
    /\ UNCHANGED <<apiVars, resources, rturn, reaperVars, crashes>>

\* terraform fails before it changes anything: init, or -lock-timeout=120s.
ApplyRefused(r) ==
    /\ rpc[r] = "valid"
    /\ rpc' = [rpc EXCEPT ![r] = "failed"]
    /\ UNCHANGED <<apiVars, cloudVars, rturn, reaperVars, crashes>>

\* A failed apply leaves some, none or all of what it was to create.
AfterFailedApply(was) == {was, "partial", "up"}
AfterFailedDestroy(was) == IF was = "absent" THEN {was} ELSE {was, "partial", "absent"}

ApplyEnds(r, pc, outcomes) ==
    LET e == EnvOf[rturn[r]] IN
    /\ rpc[r] = "applying"
    /\ \E o \in outcomes : resources' = [resources EXCEPT ![e] = o]
    /\ stateLock' = [stateLock EXCEPT ![e] = "free"]
    /\ rpc' = [rpc EXCEPT ![r] = pc]
    /\ UNCHANGED <<apiVars, rturn, reaperVars, crashes>>

ApplyOk(r)   == ApplyEnds(r, "ok", {"up"})
ApplyFail(r) == ApplyEnds(r, "failed", AfterFailedApply(resources[EnvOf[rturn[r]]]))

\* recordSuccess and recordFailure: in one transaction the turn, guarded by
\* its status, and the environment, guarded by nothing.
Record(r, from, tstatus, estatus) ==
    /\ rpc[r] = from
    /\ turnStatus' = [turnStatus EXCEPT
                          ![rturn[r]] = IF @ = "applying" THEN tstatus ELSE @]
    /\ envStatus' = [envStatus EXCEPT ![EnvOf[rturn[r]]] = estatus]
    /\ rpc' = [rpc EXCEPT ![r] = "idle"]
    /\ rturn' = [rturn EXCEPT ![r] = NoTurn]
    /\ UNCHANGED <<ttlPassed, cloudVars, reaperVars, crashes>>

RecordSuccess(r) == Record(r, "ok", "applied", "ready")

RecordFailureAsUnknown(r) == Record(r, "failed", "failed", "degraded")
RecordFailureAsRetry(r) == Record(r, "failed", "submitted", "degraded")
RecordFailure(r) == Record(r, "failed", "apply_failed", "degraded")

\* The execution is killed (900s task timeout, no retry) or its database call
\* throws.  An open transaction rolls back; a terraform process that dies holding
\* the state lock leaves it behind.  Nothing puts the turn back.
RunnerCrash(r) ==
    /\ rpc[r] # "idle"
    /\ crashes < MaxCrashes
    /\ crashes' = crashes + 1
    /\ IF rpc[r] = "applying"
       THEN LET e == EnvOf[rturn[r]] IN
            /\ stateLock' = [stateLock EXCEPT ![e] = "stale"]
            /\ \E o \in AfterFailedApply(resources[e]) :
                  resources' = [resources EXCEPT ![e] = o]
       ELSE UNCHANGED cloudVars
    /\ rpc' = [rpc EXCEPT ![r] = "idle"]
    /\ rturn' = [rturn EXCEPT ![r] = NoTurn]
    /\ UNCHANGED <<apiVars, reaperVars>>

(***************************************************************************)
(* A reap execution: RunnerService.reapExpired                             *)
(***************************************************************************)
DueReadyOnly == {e \in Envs : envStatus[e] = "ready" /\ Expired(e)}
Due == {e \in Envs :
          /\ envStatus[e] \notin {"none", "destroyed"}
          /\ Expired(e)
          /\ \A t \in TurnsOf(e) : turnStatus[t] # "applying"}

\* The one SELECT of the tick: the BatchSize due environments of oldest TTL.
ReapSelect(p) ==
    /\ ppc[p] = "idle"
    /\ batch' = [batch EXCEPT ![p] =
                    {e \in Due : Cardinality({f \in Due : f < e}) < BatchSize}]
    /\ ppc' = [ppc EXCEPT ![p] = "next"]
    /\ UNCHANGED <<apiVars, cloudVars, runnerVars, crashes>>

\* terraform destroy takes the state lock of the next environment of the batch.
DestroyStart(p) ==
    /\ ppc[p] = "next"
    /\ \E e \in batch[p] :
        /\ IsFirst(e, batch[p])
        /\ stateLock[e] = "free"
        /\ stateLock' = [stateLock EXCEPT ![e] = "held"]
    /\ ppc' = [ppc EXCEPT ![p] = "destroying"]
    /\ UNCHANGED <<apiVars, resources, runnerVars, batch, crashes>>

\* init or the lock fails: the loop goes on with the next environment.
DestroyRefused(p) ==
    /\ ppc[p] = "next"
    /\ \E e \in batch[p] :
        /\ IsFirst(e, batch[p])
        /\ batch' = [batch EXCEPT ![p] = @ \ {e}]
    /\ UNCHANGED <<apiVars, cloudVars, runnerVars, ppc, crashes>>

DestroyOk(p) ==
    /\ ppc[p] = "destroying"
    /\ \E e \in batch[p] :
        /\ IsFirst(e, batch[p])
        /\ resources' = [resources EXCEPT ![e] = "absent"]
        /\ stateLock' = [stateLock EXCEPT ![e] = "free"]
    /\ ppc' = [ppc EXCEPT ![p] = "destroyed"]
    /\ UNCHANGED <<apiVars, runnerVars, batch, crashes>>

\* A failed destroy leaves the row as it was, for a later tick.
AfterFailureMark(p, e) == ppc' = [ppc EXCEPT ![p] = "destroyed"] /\ UNCHANGED batch
AfterFailureSkip(p, e) ==
    /\ batch' = [batch EXCEPT ![p] = @ \ {e}]
    /\ ppc' = [ppc EXCEPT ![p] = "next"]

DestroyFail(p) ==
    /\ ppc[p] = "destroying"
    /\ \E e \in batch[p] :
        /\ IsFirst(e, batch[p])
        /\ \E o \in AfterFailedDestroy(resources[e]) :
              resources' = [resources EXCEPT ![e] = o]
        /\ stateLock' = [stateLock EXCEPT ![e] = "free"]
        /\ AfterFailureSkip(p, e)
    /\ UNCHANGED <<apiVars, runnerVars, crashes>>

\* The UPDATE after a destroy that succeeded, guarded by the id alone.
MarkDestroyed(p) ==
    /\ ppc[p] = "destroyed"
    /\ \E e \in batch[p] :
        /\ IsFirst(e, batch[p])
        /\ envStatus' = [envStatus EXCEPT ![e] = "destroyed"]
        /\ batch' = [batch EXCEPT ![p] = @ \ {e}]
    /\ ppc' = [ppc EXCEPT ![p] = "next"]
    /\ UNCHANGED <<ttlPassed, turnStatus, cloudVars, runnerVars, crashes>>

ReapDone(p) ==
    /\ ppc[p] = "next"
    /\ batch[p] = {}
    /\ ppc' = [ppc EXCEPT ![p] = "idle"]
    /\ UNCHANGED <<apiVars, cloudVars, runnerVars, batch, crashes>>

ReaperCrash(p) ==
    /\ ppc[p] # "idle"
    /\ crashes < MaxCrashes
    /\ crashes' = crashes + 1
    /\ IF ppc[p] = "destroying"
       THEN \E e \in batch[p] :
            /\ IsFirst(e, batch[p])
            /\ stateLock' = [stateLock EXCEPT ![e] = "stale"]
            /\ \E o \in AfterFailedDestroy(resources[e]) :
                  resources' = [resources EXCEPT ![e] = o]
       ELSE UNCHANGED cloudVars
    /\ ppc' = [ppc EXCEPT ![p] = "idle"]
    /\ batch' = [batch EXCEPT ![p] = {}]
    /\ UNCHANGED <<apiVars, runnerVars>>

(***************************************************************************)
(* The specification                                                       *)
(***************************************************************************)
Api ==
    \/ \E e \in Envs : Create(e)
    \/ \E t \in Turns : SubmitAccepted(t) \/ SubmitRejected(t)
    \/ PassTtl

ApplyTick(r) ==
    \/ ClaimSelect(r) \/ ClaimCommit(r) \/ CheckStored(r)
    \/ ApplyStart(r) \/ ApplyRefused(r) \/ ApplyOk(r) \/ ApplyFail(r)
    \/ RecordSuccess(r) \/ RecordFailure(r)

ReapTick(p) ==
    \/ ReapSelect(p) \/ ReapDone(p)
    \/ DestroyStart(p) \/ DestroyRefused(p) \/ DestroyOk(p) \/ DestroyFail(p)
    \/ MarkDestroyed(p)

Crash == (\E r \in Runners : RunnerCrash(r)) \/ (\E p \in Reapers : ReaperCrash(p))

Next ==
    \/ Api
    \/ \E r \in Runners : ApplyTick(r)
    \/ \E p \in Reapers : ReapTick(p)
    \/ Crash

Spec == Init /\ [][Next]_vars

\* The scheduler starts an apply job every minute and a reap job every quarter
\* of an hour, and each command they run ends (a timeout ends it if nothing
\* else).  A destroy that is attempted again and again succeeds at last.
Fairness ==
    /\ \A r \in Runners : WF_vars(ApplyTick(r))
    /\ \A p \in Reapers :
        /\ WF_vars(ReapTick(p))
        /\ SF_vars(DestroyStart(p))
        /\ SF_vars(DestroyOk(p))

FairSpec == Spec /\ Fairness

(***************************************************************************)
(* The executions in which every environment has drained when its TTL      *)
(* passes and receives nothing afterwards.  The code does not ensure this. *)
(***************************************************************************)
Holds(r, e) == rturn[r] # NoTurn /\ EnvOf[rturn[r]] = e

Drained ==
    \A e \in Envs : Expired(e) =>
        /\ \A t \in TurnsOf(e) : turnStatus[t] # "submitted"
        /\ \A r \in Runners : ~Holds(r, e)

DrainedNext == Next /\ Drained'

DrainedSpec == Init /\ [][DrainedNext]_vars

(***************************************************************************)
(* Safety                                                                  *)
(***************************************************************************)
Claimed == {"applying", "apply_failed", "applied"}

\* No turn is in the hands of two executions: however many apply jobs overlap,
\* SKIP LOCKED and the flip to applying give a turn to one of them.
TurnHeldOnce ==
    \A r, s \in Runners : rturn[r] # NoTurn /\ rturn[r] = rturn[s] => r = s

\* The executions and the table of turns keep what a queue promises: a turn is
\* given out once, to one execution, and only that execution ends it.
InHand(r) == IF rpc[r] \in {"idle", "claiming"} THEN NoTurn ELSE rturn[r]

Queue == INSTANCE HandOut WITH
            Items <- Turns,
            Workers <- Runners,
            Nothing <- NoTurn,
            offered <- {t \in Turns : turnStatus[t] \in Claimed \cup {"submitted"}},
            taken <- {t \in Turns : turnStatus[t] \in Claimed},
            finished <- {t \in Turns : turnStatus[t] \in Claimed \ {"applying"}},
            hand <- [r \in Runners |-> InHand(r)]

TurnsAreHandedOut == Queue!Spec

\* While an execution works on a turn the turn is applying, so the UPDATEs of
\* recordSuccess and recordFailure, whose row counts nobody reads, always match.
\* An applying turn has its execution, but for one turn per execution lost.
Unheld == {t \in Turns : turnStatus[t] = "applying" /\ \A r \in Runners : rturn[r] # t}

ApplyingIffHeld ==
    /\ \A r \in Runners :
          rpc[r] \notin {"idle", "claiming"} => turnStatus[rturn[r]] = "applying"
    /\ Cardinality(Unheld) <= crashes

\* A state lock that is held has one Terraform at work behind it, an apply or a
\* destroy but never two, so it is given back; only a lost execution leaves a
\* lock behind, and one at most.
Applies(r, e) == rpc[r] = "applying" /\ EnvOf[rturn[r]] = e
Destroys(p, e) == ppc[p] = "destroying" /\ IsFirst(e, batch[p])
StaleLocks == {e \in Envs : stateLock[e] = "stale"}

TerraformRunsAlone ==
    /\ \A e \in Envs :
          stateLock[e] = "held" <=>
              (\E r \in Runners : Applies(r, e)) \/ (\E p \in Reapers : Destroys(p, e))
    /\ \A e \in Envs : \A r, s \in Runners : Applies(r, e) /\ Applies(s, e) => r = s
    /\ \A e \in Envs : \A p, q \in Reapers : Destroys(p, e) /\ Destroys(q, e) => p = q
    /\ \A e \in Envs, r \in Runners, p \in Reapers : ~(Applies(r, e) /\ Destroys(p, e))
    /\ Cardinality(StaleLocks) <= crashes

\* Nothing exists in the cloud for an environment unless a turn of it, with
\* stored tfvars that are as the API wrote them, was claimed for an apply.
NothingBuiltWithoutAValidTurn ==
    \A e \in Envs : resources[e] # "absent" =>
        \E t \in TurnsOf(e) \ Corrupted : turnStatus[t] \in Claimed

\* The environment's status agrees with its turns: no turn of a pending one was
\* ever claimed, a provisioning one has an apply in flight, a ready one a turn
\* that was applied, a degraded one a turn that failed.
StatusHasCause ==
    \A e \in Envs :
        LET Has(s) == \E t \in TurnsOf(e) : turnStatus[t] = s IN
        /\ envStatus[e] = "pending" => \A s \in Claimed : ~Has(s)
        /\ envStatus[e] = "provisioning" => Has("applying")
        /\ envStatus[e] = "ready" => Has("applied")
        /\ envStatus[e] = "degraded" => Has("apply_failed")

\* A turn moves one way: it is applied at most once and its outcome is final.
TurnsMoveForward ==
    [][\A t \in Turns : turnStatus'[t] # turnStatus[t] =>
          <<turnStatus[t], turnStatus'[t]>> \in
              {<<"none", "submitted">>, <<"none", "rejected">>,
               <<"submitted", "applying">>,
               <<"applying", "applied">>, <<"applying", "apply_failed">>}]_vars

\* Of the executions that drain: an environment marked destroyed has nothing
\* left in the cloud (a destroy that fails never marks its row).
DestroyedIsClean ==
    \A e \in Envs : envStatus[e] = "destroyed" => resources[e] = "absent"

\* Of the executions that drain: the cap that create checks holds of the table
\* at all times, since a destroyed row never comes back to life.
NotDestroyed == {e \in Envs : envStatus[e] \notin {"none", "destroyed"}}
LiveWithinCap == Cardinality(NotDestroyed) <= MaxLive

\* Of the executions that drain: the whole lifecycle is one in which places are
\* admitted under the cap, are left once and are never taken up again.
Cap == INSTANCE ArenaCap WITH
          Places <- Envs,
          live <- NotDestroyed,
          admitted <- {e \in Envs : envStatus[e] # "none"}

LifecycleImplementsCap == Cap!Spec

(***************************************************************************)
(* Liveness                                                                *)
(***************************************************************************)

\* A turn whose execution was lost stays applying: nothing puts it back.  A lost
\* execution excuses one such turn, not two, and none is excused without.
Stranded(t) == t \in Unheld /\ Cardinality(Unheld) <= crashes

\* Every submitted turn is applied or fails, unless its own execution is lost: the
\* loss of another's, with the state lock it may leave behind, is no reason.
EveryTurnEnds ==
    \A t \in Turns :
        turnStatus[t] = "submitted" ~>
            turnStatus[t] \in {"applied", "apply_failed"} \/ Stranded(t)

\* An environment past its TTL is destroyed at last, unless a lost execution has
\* left it a turn in applying or a state lock that nobody holds, or has left as many
\* such locks as make a whole batch, which are the first in the order every time.
ExpiredIsDestroyed ==
    \A e \in Envs :
        Expired(e) ~>
            \/ envStatus[e] = "destroyed"
            \/ \E t \in TurnsOf(e) : Stranded(t)
            \/ stateLock[e] = "stale"
            \/ Cardinality(StaleLocks) >= BatchSize
=============================================================================
