------------------------ MODULE ArenaLifecycleProofs ------------------------
(***************************************************************************)
(* What holds of ArenaLifecycle for every number of environments, turns and*)
(* overlapping job executions, and for every bound on lost executions.     *)
(***************************************************************************)
EXTENDS ArenaLifecycle, FiniteSetTheorems, TLAPS

(***************************************************************************)
(* The inductive invariant.  Handover says what an execution knows of the  *)
(* turn in its hands at each point of applyOnce: this is what the          *)
(* unguarded UPDATEs of recordSuccess and recordFailure rely on.           *)
(***************************************************************************)
Handover ==
    \A r \in Runners :
        /\ rpc[r] = "idle" <=> rturn[r] = NoTurn
        /\ rpc[r] = "claiming" => turnStatus[rturn[r]] = "submitted"
        /\ rpc[r] \notin {"idle", "claiming"} => turnStatus[rturn[r]] = "applying"
        /\ rpc[r] \in {"valid", "applying", "ok"} => rturn[r] \notin Corrupted

\* Turns are submitted to environments that exist.
TurnsHaveRows ==
    \A t \in Turns : envStatus[EnvOf[t]] = "none" => turnStatus[t] = "none"

Hands == Handover /\ TurnHeldOnce

Rows == TurnsHaveRows /\ NothingBuiltWithoutAValidTurn /\ StatusHasCause

IInv == TypeOK /\ Hands /\ Rows

\* The same, for the executions that drain: only expired environments are in a
\* batch, and the one a reaper has just destroyed has nothing left.
ReapedIsClean ==
    /\ Drained
    /\ \A p \in Reapers : \A e \in batch[p] : Expired(e)
    /\ \A p \in Reapers : ppc[p] = "destroyed" =>
          \A e \in batch[p] : IsFirst(e, batch[p]) => resources[e] = "absent"
    /\ \A e \in Envs : envStatus[e] = "destroyed" => Expired(e)

DInv == ReapedIsClean /\ DestroyedIsClean

(***************************************************************************)
(* Type correctness.  Every action has a leaf of its own; the crashes are  *)
(* split on whether the execution was inside Terraform.                    *)
(***************************************************************************)
USE SizesAssumption, TurnsAssumption

LEMMA NoTurnIsNoTurn == NoTurn \notin Turns
BY DEF NoTurn, Turns

LEMMA EnvsAreNaturals == Envs \subseteq Nat
BY DEF Envs

LEMMA TypeInit == Init => TypeOK
BY DEF Init, TypeOK, EnvStatuses, TurnStatuses, RunnerPcs, ReaperPcs

LEMMA TypeApi == TypeOK /\ Api => TypeOK'
<1> SUFFICES ASSUME TypeOK, Api PROVE TypeOK'
  OBVIOUS
<1> USE DEF TypeOK, EnvStatuses, TurnStatuses, RunnerPcs, ReaperPcs,
            apiVars, cloudVars, runnerVars, reaperVars
<1>1. ASSUME NEW e \in Envs, Create(e) PROVE TypeOK'
  BY <1>1 DEF Create
<1>2. ASSUME NEW t \in Turns, SubmitAccepted(t) \/ SubmitRejected(t) PROVE TypeOK'
  BY <1>2 DEF SubmitAccepted, SubmitRejected, Submit
<1>3. CASE PassTtl
  BY <1>3 DEF PassTtl
<1> QED BY <1>1, <1>2, <1>3 DEF Api

LEMMA TypeApply ==
  ASSUME TypeOK, Handover, NEW r \in Runners, ApplyTick(r) PROVE TypeOK'
<1> USE DEF TypeOK, EnvStatuses, TurnStatuses, RunnerPcs, ReaperPcs,
            apiVars, cloudVars, runnerVars, reaperVars
<1>0. rpc[r] # "idle" => rturn[r] \in Turns /\ EnvOf[rturn[r]] \in Envs
  BY NoTurnIsNoTurn DEF Handover
<1>1. CASE ClaimSelect(r)
  BY <1>1 DEF ClaimSelect
<1>2. CASE ClaimCommit(r)
  BY <1>2, <1>0 DEF ClaimCommit, StatusOnClaim
<1>3. CASE CheckStored(r)
  BY <1>3 DEF CheckStored
<1>4. CASE ApplyStart(r)
  BY <1>4, <1>0 DEF ApplyStart
<1>5. CASE ApplyRefused(r)
  BY <1>5 DEF ApplyRefused
<1>6. CASE ApplyOk(r)
  BY <1>6, <1>0 DEF ApplyOk, ApplyEnds
<1>7. CASE ApplyFail(r)
  <2>1. PICK o \in {resources[EnvOf[rturn[r]]], "partial", "up"} :
            resources' = [resources EXCEPT ![EnvOf[rturn[r]]] = o]
    BY <1>7 DEF ApplyFail, ApplyEnds, AfterFailedApply
  <2>2. resources' \in [Envs -> {"absent", "partial", "up"}]
    BY <2>1, <1>0, <1>7 DEF ApplyFail, ApplyEnds
  <2> QED BY <1>7, <1>0, <2>2 DEF ApplyFail, ApplyEnds
<1>8. CASE RecordSuccess(r)
  BY <1>8, <1>0 DEF RecordSuccess, Record
<1>9. CASE RecordFailure(r)
  BY <1>9, <1>0 DEF RecordFailure, Record
<1> QED BY <1>1, <1>2, <1>3, <1>4, <1>5, <1>6, <1>7, <1>8, <1>9 DEF ApplyTick

LEMMA TypeReap ==
  ASSUME TypeOK, NEW p \in Reapers, ReapTick(p) PROVE TypeOK'
<1> USE DEF TypeOK, EnvStatuses, TurnStatuses, RunnerPcs, ReaperPcs,
            apiVars, cloudVars, runnerVars, reaperVars
<1>1. CASE ReapSelect(p)
  <2>1. {e \in Due : Cardinality({f \in Due : f < e}) < BatchSize} \in SUBSET Envs
    BY DEF Due
  <2> QED BY <1>1, <2>1 DEF ReapSelect
<1>2. CASE ReapDone(p)
  BY <1>2 DEF ReapDone
<1>3. CASE DestroyStart(p)
  BY <1>3 DEF DestroyStart
<1>4. CASE DestroyRefused(p)
  BY <1>4 DEF DestroyRefused
<1>5. CASE DestroyOk(p)
  BY <1>5 DEF DestroyOk
<1>6. CASE DestroyFail(p)
  BY <1>6 DEF DestroyFail, AfterFailureSkip, AfterFailedDestroy
<1>7. CASE MarkDestroyed(p)
  BY <1>7 DEF MarkDestroyed
<1> QED BY <1>1, <1>2, <1>3, <1>4, <1>5, <1>6, <1>7 DEF ReapTick

LEMMA TypeCrash == TypeOK /\ Handover /\ Crash => TypeOK'
<1> SUFFICES ASSUME TypeOK, Handover, Crash PROVE TypeOK'
  OBVIOUS
<1> USE DEF TypeOK, EnvStatuses, TurnStatuses, RunnerPcs, ReaperPcs,
            apiVars, cloudVars, runnerVars, reaperVars
<1>1. ASSUME NEW r \in Runners, RunnerCrash(r) PROVE TypeOK'
  <2>1. CASE rpc[r] = "applying"
    BY <1>1, <2>1 DEF RunnerCrash, AfterFailedApply, Handover
  <2>2. CASE rpc[r] # "applying"
    BY <1>1, <2>2 DEF RunnerCrash
  <2> QED BY <2>1, <2>2
<1>2. ASSUME NEW p \in Reapers, ReaperCrash(p) PROVE TypeOK'
  <2>1. CASE ppc[p] = "destroying"
    BY <1>2, <2>1 DEF ReaperCrash, AfterFailedDestroy
  <2>2. CASE ppc[p] # "destroying"
    BY <1>2, <2>2 DEF ReaperCrash
  <2> QED BY <2>1, <2>2
<1> QED BY <1>1, <1>2 DEF Crash

(***************************************************************************)
(* Who holds which turn.  Only the steps of runners touch this.            *)
(***************************************************************************)
LEMMA HandsInit == Init => Hands
BY NoTurnIsNoTurn DEF Init, Hands, Handover, TurnHeldOnce

LEMMA HandsApi == TypeOK /\ Hands /\ Api => Hands'
<1> SUFFICES ASSUME TypeOK, Hands, Api PROVE Hands'
  OBVIOUS
<1> USE NoTurnIsNoTurn DEF TypeOK, Hands, Handover, TurnHeldOnce,
            apiVars, cloudVars, runnerVars, reaperVars
<1>1. ASSUME NEW e \in Envs, Create(e) PROVE Hands'
  BY <1>1 DEF Create
<1>2. ASSUME NEW t \in Turns, SubmitAccepted(t) \/ SubmitRejected(t) PROVE Hands'
  BY <1>2 DEF SubmitAccepted, SubmitRejected, Submit
<1>3. CASE PassTtl
  BY <1>3 DEF PassTtl
<1> QED BY <1>1, <1>2, <1>3 DEF Api

LEMMA HandsApply ==
  ASSUME TypeOK, Hands, NEW r \in Runners, ApplyTick(r) PROVE Hands'
<1> USE NoTurnIsNoTurn DEF TypeOK, Hands, Handover, TurnHeldOnce,
            RunnerPcs, apiVars, cloudVars, runnerVars, reaperVars
<1>1. CASE ClaimSelect(r)
  BY <1>1 DEF ClaimSelect, Claimable, RowLocked, IsFirst
<1>2. CASE ClaimCommit(r)
  BY <1>2 DEF ClaimCommit
<1>3. CASE CheckStored(r)
  BY <1>3 DEF CheckStored, StoredIsValid
<1>4. CASE ApplyStart(r)
  BY <1>4 DEF ApplyStart
<1>5. CASE ApplyRefused(r)
  BY <1>5 DEF ApplyRefused
<1>6. CASE ApplyOk(r) \/ ApplyFail(r)
  BY <1>6 DEF ApplyOk, ApplyFail, ApplyEnds
<1>7. CASE RecordSuccess(r) \/ RecordFailure(r)
  BY <1>7 DEF RecordSuccess, RecordFailure, Record
<1> QED BY <1>1, <1>2, <1>3, <1>4, <1>5, <1>6, <1>7 DEF ApplyTick

LEMMA HandsReap ==
  ASSUME Hands, NEW p \in Reapers, ReapTick(p) PROVE Hands'
BY DEF ReapTick, ReapSelect, ReapDone, DestroyStart, DestroyRefused, DestroyOk,
       DestroyFail, MarkDestroyed, Hands, Handover, TurnHeldOnce,
       apiVars, cloudVars, runnerVars, reaperVars

LEMMA HandsCrash == TypeOK /\ Hands /\ Crash => Hands'
<1> SUFFICES ASSUME TypeOK, Hands, Crash PROVE Hands'
  OBVIOUS
<1> USE NoTurnIsNoTurn DEF TypeOK, Hands, Handover, TurnHeldOnce,
            apiVars, cloudVars, runnerVars, reaperVars
<1>1. ASSUME NEW r \in Runners, RunnerCrash(r) PROVE Hands'
  BY <1>1 DEF RunnerCrash
<1>2. ASSUME NEW p \in Reapers, ReaperCrash(p) PROVE Hands'
  BY <1>2 DEF ReaperCrash
<1> QED BY <1>1, <1>2 DEF Crash

(***************************************************************************)
(* What the rows and the cloud say of each other.                          *)
(***************************************************************************)
LEMMA RowsInit == Init => Rows
BY DEF Init, Rows, TurnsHaveRows, NothingBuiltWithoutAValidTurn, StatusHasCause

LEMMA RowsApi == TypeOK /\ Rows /\ Api => Rows'
<1> SUFFICES ASSUME TypeOK, Rows, Api PROVE Rows'
  OBVIOUS
<1> USE DEF TypeOK, Rows, TurnsHaveRows, NothingBuiltWithoutAValidTurn, StatusHasCause,
            TurnsOf, Claimed, apiVars, cloudVars, runnerVars, reaperVars
<1>1. ASSUME NEW e \in Envs, Create(e) PROVE Rows'
  BY <1>1 DEF Create
<1>2. ASSUME NEW t \in Turns, SubmitAccepted(t) \/ SubmitRejected(t) PROVE Rows'
  BY <1>2 DEF SubmitAccepted, SubmitRejected, Submit
<1>3. CASE PassTtl
  BY <1>3 DEF PassTtl
<1> QED BY <1>1, <1>2, <1>3 DEF Api

LEMMA RowsApply ==
  ASSUME TypeOK, Hands, Rows, NEW r \in Runners, ApplyTick(r) PROVE Rows'
<1> USE DEF TypeOK, Rows, TurnsHaveRows, NothingBuiltWithoutAValidTurn, StatusHasCause,
            TurnsOf, Claimed, RunnerPcs, apiVars, cloudVars, runnerVars, reaperVars
<1> DEFINE t == rturn[r]
<1>0. /\ rpc[r] # "idle" => t \in Turns /\ EnvOf[t] \in Envs
      /\ rpc[r] = "claiming" => turnStatus[t] = "submitted"
      /\ rpc[r] \notin {"idle", "claiming"} => turnStatus[t] = "applying"
      /\ rpc[r] \in {"valid", "applying", "ok"} => t \notin Corrupted
  BY NoTurnIsNoTurn DEF Hands, Handover
<1>1. CASE ClaimSelect(r)
  BY <1>1 DEF ClaimSelect
<1>2. CASE ClaimCommit(r)
  BY <1>2, <1>0 DEF ClaimCommit, StatusOnClaim
<1>3. CASE CheckStored(r)
  BY <1>3 DEF CheckStored
<1>4. CASE ApplyStart(r)
  BY <1>4 DEF ApplyStart
<1>5. CASE ApplyRefused(r)
  BY <1>5 DEF ApplyRefused
<1>6. CASE ApplyOk(r)
  BY <1>6, <1>0 DEF ApplyOk, ApplyEnds
<1>7. CASE ApplyFail(r)
  BY <1>7, <1>0 DEF ApplyFail, ApplyEnds, AfterFailedApply
<1>8. CASE RecordSuccess(r)
  BY <1>8, <1>0 DEF RecordSuccess, Record
<1>9. CASE RecordFailure(r)
  BY <1>9, <1>0 DEF RecordFailure, Record
<1> QED BY <1>1, <1>2, <1>3, <1>4, <1>5, <1>6, <1>7, <1>8, <1>9 DEF ApplyTick

LEMMA RowsReap ==
  ASSUME TypeOK, Rows, NEW p \in Reapers, ReapTick(p) PROVE Rows'
<1> USE DEF TypeOK, Rows, TurnsHaveRows, NothingBuiltWithoutAValidTurn, StatusHasCause,
            TurnsOf, Claimed, apiVars, cloudVars, runnerVars, reaperVars
<1>1. CASE ReapSelect(p) \/ ReapDone(p) \/ DestroyRefused(p) \/ DestroyStart(p)
  BY <1>1 DEF ReapSelect, ReapDone, DestroyRefused, DestroyStart
<1>2. CASE DestroyOk(p)
  BY <1>2 DEF DestroyOk
<1>3. CASE DestroyFail(p)
  BY <1>3 DEF DestroyFail, AfterFailedDestroy, AfterFailureSkip
<1>4. CASE MarkDestroyed(p)
  BY <1>4 DEF MarkDestroyed
<1> QED BY <1>1, <1>2, <1>3, <1>4 DEF ReapTick

LEMMA RowsCrash == TypeOK /\ Hands /\ Rows /\ Crash => Rows'
<1> SUFFICES ASSUME TypeOK, Hands, Rows, Crash PROVE Rows'
  OBVIOUS
<1> USE DEF TypeOK, Rows, TurnsHaveRows, NothingBuiltWithoutAValidTurn, StatusHasCause,
            TurnsOf, Claimed, apiVars, cloudVars, runnerVars, reaperVars
<1>1. ASSUME NEW r \in Runners, RunnerCrash(r) PROVE Rows'
  BY <1>1, NoTurnIsNoTurn DEF RunnerCrash, AfterFailedApply, Hands, Handover
<1>2. ASSUME NEW p \in Reapers, ReaperCrash(p) PROVE Rows'
  BY <1>2 DEF ReaperCrash, AfterFailedDestroy
<1> QED BY <1>1, <1>2 DEF Crash

(***************************************************************************)
(* The invariant of every execution.                                       *)
(***************************************************************************)
LEMMA InvInit == Init => IInv
BY TypeInit, HandsInit, RowsInit DEF IInv

LEMMA InvStep == IInv /\ [Next]_vars => IInv'
<1> SUFFICES ASSUME IInv, [Next]_vars PROVE IInv'
  OBVIOUS
<1>0. TypeOK /\ Handover /\ Hands /\ Rows
  BY DEF IInv, Hands
<1>1. CASE Api
  BY <1>0, <1>1, TypeApi, HandsApi, RowsApi DEF IInv
<1>2. ASSUME NEW r \in Runners, ApplyTick(r) PROVE IInv'
  BY <1>0, <1>2, TypeApply, HandsApply, RowsApply DEF IInv
<1>3. ASSUME NEW p \in Reapers, ReapTick(p) PROVE IInv'
  BY <1>0, <1>3, TypeReap, HandsReap, RowsReap DEF IInv
<1>4. CASE Crash
  BY <1>0, <1>4, TypeCrash, HandsCrash, RowsCrash DEF IInv
<1>5. CASE UNCHANGED vars
  BY <1>5 DEF vars, apiVars, cloudVars, runnerVars, reaperVars, IInv, TypeOK, Hands,
     Handover, TurnHeldOnce, Rows, TurnsHaveRows,
     NothingBuiltWithoutAValidTurn, StatusHasCause
<1> QED BY <1>1, <1>2, <1>3, <1>4, <1>5 DEF Next

LEMMA InvAlways == Spec => []IInv
BY InvInit, InvStep, PTL DEF Spec

\* Every variable keeps its type, whatever the number of jobs and of crashes.
THEOREM TypeCorrect == Spec => []TypeOK
<1>1. IInv => TypeOK
  BY DEF IInv
<1> QED BY <1>1, InvAlways, PTL

\* No two executions ever hold the same turn, however many overlap.
THEOREM TurnNeverShared == Spec => []TurnHeldOnce
<1>1. IInv => TurnHeldOnce
  BY DEF IInv, Hands
<1> QED BY <1>1, InvAlways, PTL

(***************************************************************************)
(* What a lost execution leaves behind.  No other step makes an applying   *)
(* turn nobody's, and a loss does so to one turn at most.                  *)
(***************************************************************************)
LossesCounted == Cardinality(Unheld) <= crashes

LEMMA OneMore ==
  ASSUME NEW S, NEW T, NEW x, IsFiniteSet(S), T \subseteq S \cup {x}
  PROVE  /\ IsFiniteSet(T) /\ Cardinality(T) \in Nat /\ Cardinality(S) \in Nat
         /\ Cardinality(T) <= Cardinality(S) + 1
<1> DEFINE More == S \cup {x}
<1>1. /\ IsFiniteSet(More)
      /\ Cardinality(More) = IF x \in S THEN Cardinality(S) ELSE Cardinality(S) + 1
  BY FS_AddElement
<1>2. Cardinality(More) \in Nat /\ Cardinality(S) \in Nat
  BY <1>1, FS_CardinalityType
<1>3. T \subseteq More
  OBVIOUS
<1> HIDE DEF More
<1>4. IsFiniteSet(T) /\ Cardinality(T) <= Cardinality(More)
  BY <1>1, <1>3, FS_Subset
<1>5. Cardinality(T) \in Nat
  BY <1>4, FS_CardinalityType
<1> QED BY <1>1, <1>2, <1>4, <1>5

LEMMA UnheldIsFinite == IsFiniteSet(Unheld)
<1>1. IsFiniteSet(Turns)
  BY FS_Interval DEF Turns
<1>2. Unheld \subseteq Turns
  BY DEF Unheld
<1> QED BY <1>1, <1>2, FS_Subset

LEMMA UnheldByApply ==
  ASSUME IInv, NEW r \in Runners, ApplyTick(r) PROVE Unheld' \subseteq Unheld
<1> USE NoTurnIsNoTurn DEF IInv, TypeOK, Hands, Handover, Unheld, apiVars, runnerVars
<1>1. CASE ClaimSelect(r)
  BY <1>1 DEF ClaimSelect
<1>2. CASE ClaimCommit(r)
  BY <1>2 DEF ClaimCommit
<1>3. CASE CheckStored(r) \/ ApplyStart(r) \/ ApplyRefused(r)
  BY <1>3 DEF CheckStored, ApplyStart, ApplyRefused
<1>4. CASE ApplyOk(r) \/ ApplyFail(r)
  BY <1>4 DEF ApplyOk, ApplyFail, ApplyEnds
<1>5. CASE RecordSuccess(r) \/ RecordFailure(r)
  BY <1>5 DEF RecordSuccess, RecordFailure, Record
<1> QED BY <1>1, <1>2, <1>3, <1>4, <1>5 DEF ApplyTick

LEMMA UnheldByCrash ==
  ASSUME IInv, NEW r \in Runners, RunnerCrash(r)
  PROVE  Unheld' \subseteq Unheld \cup {rturn[r]}
BY DEF IInv, TypeOK, Unheld, RunnerCrash, apiVars

LEMMA LossStep == IInv /\ LossesCounted /\ [Next]_vars => LossesCounted'
<1> SUFFICES ASSUME IInv, Cardinality(Unheld) <= crashes, [Next]_vars
             PROVE  Cardinality(Unheld') <= crashes'
  BY DEF LossesCounted
<1>0. /\ IsFiniteSet(Unheld) /\ Cardinality(Unheld) \in Nat /\ crashes \in Nat
      /\ IsFiniteSet(Unheld')
  <2>1. IsFiniteSet(Turns)
    BY FS_Interval DEF Turns
  <2>2. Unheld' \subseteq Turns
    BY DEF Unheld
  <2> QED BY <2>1, <2>2, UnheldIsFinite, FS_Subset, FS_CardinalityType DEF IInv, TypeOK
<1>1. ASSUME Unheld' \subseteq Unheld, crashes' >= crashes, crashes' \in Nat
      PROVE  Cardinality(Unheld') <= crashes'
  <2>1. Cardinality(Unheld') <= Cardinality(Unheld) /\ Cardinality(Unheld') \in Nat
    BY <1>0, <1>1, FS_Subset, FS_CardinalityType
  <2> QED BY <1>0, <1>1, <2>1
<1>2. ASSUME NEW r \in Runners, ApplyTick(r) PROVE Cardinality(Unheld') <= crashes'
  <2>1. crashes' = crashes
    BY <1>2 DEF ApplyTick, ClaimSelect, ClaimCommit, CheckStored, ApplyStart, ApplyRefused,
                ApplyOk, ApplyFail, ApplyEnds, RecordSuccess, RecordFailure, Record
  <2> QED BY <1>0, <1>1, <1>2, <2>1, UnheldByApply
<1>3. ASSUME NEW p \in Reapers, ReapTick(p) \/ ReaperCrash(p)
      PROVE  Cardinality(Unheld') <= crashes'
  <2>1. /\ UNCHANGED <<turnStatus, rturn>>
        /\ crashes' = crashes \/ crashes' = crashes + 1
    BY <1>3 DEF ReapTick, ReapSelect, ReapDone, DestroyStart, DestroyRefused, DestroyOk,
                DestroyFail, MarkDestroyed, ReaperCrash, apiVars, runnerVars
  <2> QED BY <1>0, <1>1, <2>1 DEF Unheld
<1>4. ASSUME NEW r \in Runners, RunnerCrash(r) PROVE Cardinality(Unheld') <= crashes'
  <2>1. Unheld' \subseteq Unheld \cup {rturn[r]}
    BY <1>4, UnheldByCrash
  <2>2. crashes' = crashes + 1
    BY <1>4 DEF RunnerCrash
  <2>3. Cardinality(Unheld') <= Cardinality(Unheld) + 1
    BY <1>0, <2>1, OneMore
  <2> QED BY <1>0, <2>2, <2>3, FS_CardinalityType
<1>5. CASE Api
  <2>1. Unheld' \subseteq Unheld /\ crashes' = crashes
    BY <1>5 DEF Api, Create, SubmitAccepted, SubmitRejected, Submit, PassTtl, Unheld,
                runnerVars, IInv, TypeOK
  <2> QED BY <1>0, <1>1, <2>1
<1>6. CASE UNCHANGED vars
  <2>1. Unheld' = Unheld /\ crashes' = crashes
    BY <1>6 DEF vars, apiVars, runnerVars, Unheld
  <2> QED BY <1>0, <1>1, <2>1
<1> QED BY <1>2, <1>3, <1>4, <1>5, <1>6 DEF Next, Crash

\* An execution's turn is applying until the execution records its outcome, so
\* the guarded UPDATEs of recordSuccess and recordFailure never miss; and there
\* are no more applying turns without an execution than executions lost.
THEOREM RecordsNeverMiss == Spec => []ApplyingIffHeld
<1>1. Init => LossesCounted
  <2>1. Init => Unheld = {}
    BY DEF Init, Unheld
  <2> QED BY <2>1, FS_EmptySet DEF Init, LossesCounted
<1>2. IInv /\ LossesCounted => ApplyingIffHeld
  BY DEF IInv, Hands, Handover, ApplyingIffHeld, LossesCounted
<1> QED BY <1>1, <1>2, LossStep, InvAlways, PTL DEF Spec

\* Cloud resources exist only where a turn with valid stored tfvars was claimed.
THEOREM OnlyValidTurnsBuild == Spec => []NothingBuiltWithoutAValidTurn
<1>1. IInv => NothingBuiltWithoutAValidTurn
  BY DEF IInv, Rows
<1> QED BY <1>1, InvAlways, PTL

\* The status of an environment always has a turn that explains it.
THEOREM StatusIsExplained == Spec => []StatusHasCause
<1>1. IInv => StatusHasCause
  BY DEF IInv, Rows
<1> QED BY <1>1, InvAlways, PTL

(***************************************************************************)
(* The way of a turn.                                                      *)
(***************************************************************************)
Forward == \A t \in Turns : turnStatus'[t] # turnStatus[t] =>
              <<turnStatus[t], turnStatus'[t]>> \in
                  {<<"none", "submitted">>, <<"none", "rejected">>,
                   <<"submitted", "applying">>,
                   <<"applying", "applied">>, <<"applying", "apply_failed">>}

LEMMA ForwardStep == IInv /\ [Next]_vars => Forward
<1> SUFFICES ASSUME IInv, [Next]_vars PROVE Forward
  OBVIOUS
<1>0. TypeOK
  BY DEF IInv
<1> USE DEF apiVars, cloudVars, runnerVars, reaperVars
<1>1. ASSUME NEW t \in Turns, SubmitAccepted(t) \/ SubmitRejected(t) PROVE Forward
  BY <1>0, <1>1 DEF TypeOK, SubmitAccepted, SubmitRejected, Submit, Forward
<1>2. ASSUME NEW r \in Runners, ClaimCommit(r) PROVE Forward
  BY <1>0, <1>2 DEF TypeOK, ClaimCommit, Forward
<1>3. ASSUME NEW r \in Runners, RecordSuccess(r) \/ RecordFailure(r) PROVE Forward
  BY <1>0, <1>3 DEF TypeOK, RecordSuccess, RecordFailure, Record, Forward
<1>4. CASE turnStatus' = turnStatus
  BY <1>4 DEF Forward
<1>5. ASSUME NEW r \in Runners, ApplyTick(r) PROVE Forward
  <2>1. \/ ClaimCommit(r) \/ RecordSuccess(r) \/ RecordFailure(r)
        \/ turnStatus' = turnStatus
    BY <1>5 DEF ApplyTick, ClaimSelect, CheckStored, ApplyStart, ApplyRefused,
                ApplyOk, ApplyFail, ApplyEnds
  <2> QED BY <2>1, <1>2, <1>3, <1>4
<1>6. ASSUME NEW p \in Reapers, ReapTick(p) PROVE Forward
  <2>1. turnStatus' = turnStatus
    BY <1>6 DEF ReapTick, ReapSelect, ReapDone, DestroyStart, DestroyRefused,
                DestroyOk, DestroyFail, MarkDestroyed
  <2> QED BY <2>1, <1>4
<1>7. CASE Api
  BY <1>7, <1>1, <1>4 DEF Api, Create, PassTtl
<1>8. CASE Crash
  BY <1>8, <1>4 DEF Crash, RunnerCrash, ReaperCrash
<1> QED BY <1>4, <1>5, <1>6, <1>7, <1>8 DEF Next, vars

\* A turn is applied at most once and its outcome never changes.
THEOREM TurnsOnlyMoveForward == Spec => TurnsMoveForward
<1>1. IInv /\ [Next]_vars => [Forward]_vars
  BY ForwardStep
<1> QED BY <1>1, InvAlways, PTL DEF Spec, TurnsMoveForward, Forward

(***************************************************************************)
(* The executions that drain.  Runners touch only environments that are not*)
(* expired, reapers only those that are, so neither undoes the other.      *)
(***************************************************************************)
LEMMA DrainedIsIInv == DrainedSpec => []IInv
<1>1. IInv /\ [DrainedNext]_vars => IInv'
  BY InvStep DEF DrainedNext
<1> QED BY <1>1, InvInit, PTL DEF DrainedSpec

LEMMA DrainedInit == Init => DInv
BY DEF Init, DInv, ReapedIsClean, DestroyedIsClean, Drained, Expired, Envs

LEMMA HeldIsNotExpired ==
  ASSUME IInv, Drained, NEW r \in Runners, rpc[r] # "idle"
  PROVE  /\ EnvOf[rturn[r]] \in Envs
         /\ ~Expired(EnvOf[rturn[r]])
BY NoTurnIsNoTurn DEF IInv, TypeOK, Hands, Handover, Drained, Holds

LEMMA DrainedApi == IInv /\ DInv /\ Api /\ Drained' => DInv'
<1> SUFFICES ASSUME IInv, DInv, Api, Drained' PROVE DInv'
  OBVIOUS
<1> USE DEF apiVars, cloudVars, runnerVars, reaperVars
<1>1. \A f \in Envs : envStatus'[f] = "destroyed" => envStatus[f] = "destroyed"
  BY DEF Api, Create, SubmitAccepted, SubmitRejected, Submit, PassTtl, IInv, TypeOK
<1>2. \A f \in Envs : Expired(f) => Expired(f)'
  <2>1. ttlPassed' = ttlPassed \/ ttlPassed' = ttlPassed + 1
    BY DEF Api, Create, SubmitAccepted, SubmitRejected, Submit, PassTtl
  <2>2. ttlPassed \in Nat
    BY DEF IInv, TypeOK
  <2> QED BY <2>1, <2>2, EnvsAreNaturals DEF Expired
<1>3. UNCHANGED <<resources, ppc, batch>>
  BY DEF Api, Create, SubmitAccepted, SubmitRejected, Submit, PassTtl
<1> QED BY <1>1, <1>2, <1>3 DEF DInv, ReapedIsClean, DestroyedIsClean, IsFirst, IInv, TypeOK

LEMMA DrainedApply ==
  ASSUME IInv, DInv, NEW r \in Runners, ApplyTick(r), Drained' PROVE DInv'
<1> USE DEF IInv, TypeOK, DInv, ReapedIsClean, DestroyedIsClean, IsFirst,
        RunnerPcs, apiVars, cloudVars, runnerVars, reaperVars
<1>0. rpc[r] # "idle" => EnvOf[rturn[r]] \in Envs /\ ~Expired(EnvOf[rturn[r]])
  BY HeldIsNotExpired
<1>e. ttlPassed' = ttlPassed => \A e \in Envs : Expired(e)' = Expired(e)
  BY DEF Expired
<1>1. CASE ClaimSelect(r)
  BY <1>1, <1>e DEF ClaimSelect
<1>2. CASE ClaimCommit(r)
  BY <1>2, <1>e DEF ClaimCommit, StatusOnClaim
<1>3. CASE CheckStored(r) \/ ApplyStart(r) \/ ApplyRefused(r)
  BY <1>3, <1>e DEF CheckStored, ApplyStart, ApplyRefused
<1>4. CASE ApplyOk(r) \/ ApplyFail(r)
  <2>1. \A e \in Envs : Expired(e) => resources'[e] = resources[e]
    BY <1>4, <1>0 DEF ApplyOk, ApplyFail, ApplyEnds
  <2> QED BY <1>4, <1>e, <2>1 DEF ApplyOk, ApplyFail, ApplyEnds
<1>5. CASE RecordSuccess(r) \/ RecordFailure(r)
  <2>1. \A e \in Envs : envStatus'[e] = "destroyed" => envStatus[e] = "destroyed"
    BY <1>5, <1>0 DEF RecordSuccess, RecordFailure, Record
  <2> QED BY <1>5, <1>e, <2>1 DEF RecordSuccess, RecordFailure, Record
<1> QED BY <1>1, <1>2, <1>3, <1>4, <1>5 DEF ApplyTick

LEMMA DrainedReap ==
  ASSUME IInv, DInv, NEW p \in Reapers, ReapTick(p), Drained' PROVE DInv'
<1> USE EnvsAreNaturals DEF IInv, TypeOK, DInv, ReapedIsClean, DestroyedIsClean,
        ReaperPcs, apiVars, cloudVars, runnerVars, reaperVars
<1>e. \A e \in Envs : Expired(e)' = Expired(e)
  BY DEF Expired, ReapTick, ReapSelect, ReapDone, DestroyStart, DestroyRefused,
         DestroyOk, DestroyFail, MarkDestroyed
<1>f. \A q \in Reapers : batch'[q] = batch[q] =>
          \A e \in batch[q] : IsFirst(e, batch[q])' = IsFirst(e, batch[q])
  BY DEF IsFirst
<1>1. CASE ReapSelect(p)
  BY <1>1, <1>e, <1>f DEF ReapSelect, Due
<1>2. CASE ReapDone(p) \/ DestroyStart(p)
  BY <1>2, <1>e, <1>f DEF ReapDone, DestroyStart
<1>3. CASE DestroyRefused(p)
  BY <1>3, <1>e, <1>f DEF DestroyRefused
<1>4. CASE DestroyOk(p)
  <2>1. PICK e \in batch[p] : /\ IsFirst(e, batch[p])
                              /\ resources' = [resources EXCEPT ![e] = "absent"]
    BY <1>4 DEF DestroyOk
  <2>2. \A f \in batch[p] : IsFirst(f, batch[p]) => f = e
    BY <2>1 DEF IsFirst
  <2> QED BY <1>4, <1>e, <1>f, <2>1, <2>2 DEF DestroyOk
<1>5. CASE DestroyFail(p)
  <2>1. PICK e \in batch[p] : /\ IsFirst(e, batch[p])
                              /\ AfterFailureSkip(p, e)
                              /\ \E o \in AfterFailedDestroy(resources[e]) :
                                    resources' = [resources EXCEPT ![e] = o]
    BY <1>5 DEF DestroyFail
  <2>2. \A f \in Envs : resources[f] = "absent" => resources'[f] = "absent"
    BY <2>1 DEF AfterFailedDestroy
  <2> QED BY <1>5, <1>e, <1>f, <2>1, <2>2 DEF DestroyFail, AfterFailureSkip
<1>6. CASE MarkDestroyed(p)
  BY <1>6, <1>e, <1>f DEF MarkDestroyed
<1> QED BY <1>1, <1>2, <1>3, <1>4, <1>5, <1>6 DEF ReapTick

LEMMA DrainedCrash == IInv /\ DInv /\ Crash /\ Drained' => DInv'
<1> SUFFICES ASSUME IInv, DInv, Crash, Drained' PROVE DInv'
  OBVIOUS
<1> USE DEF IInv, TypeOK, DInv, ReapedIsClean, DestroyedIsClean,
        apiVars, cloudVars, runnerVars, reaperVars
<1>e. \A e \in Envs : Expired(e)' = Expired(e)
  BY DEF Crash, RunnerCrash, ReaperCrash, Expired
<1>1. ASSUME NEW r \in Runners, RunnerCrash(r) PROVE DInv'
  <2>1. \A e \in Envs : Expired(e) => resources'[e] = resources[e]
    BY <1>1, HeldIsNotExpired DEF RunnerCrash
  <2> QED BY <1>1, <1>e, <2>1 DEF RunnerCrash, IsFirst
<1>2. ASSUME NEW p \in Reapers, ReaperCrash(p) PROVE DInv'
  <2>1. \A e \in Envs : resources[e] = "absent" => resources'[e] = "absent"
    BY <1>2 DEF ReaperCrash, AfterFailedDestroy
  <2> QED BY <1>2, <1>e, <2>1 DEF ReaperCrash, IsFirst
<1> QED BY <1>1, <1>2 DEF Crash

LEMMA DrainedStep == IInv /\ DInv /\ [DrainedNext]_vars => DInv'
<1> SUFFICES ASSUME IInv, DInv, [DrainedNext]_vars PROVE DInv'
  OBVIOUS
<1>1. CASE Next /\ Drained'
  BY <1>1, DrainedApi, DrainedApply, DrainedReap, DrainedCrash DEF Next
<1>2. CASE UNCHANGED vars
  BY <1>2 DEF vars, apiVars, cloudVars, runnerVars, reaperVars, DInv, ReapedIsClean,
     DestroyedIsClean, Drained, Expired, IsFirst, Holds
<1> QED BY <1>1, <1>2 DEF DrainedNext

LEMMA DrainedAlways == DrainedSpec => [](IInv /\ DInv)
<1>1. IInv /\ DInv /\ [DrainedNext]_vars => DInv'
  BY DrainedStep
<1> QED BY <1>1, DrainedInit, DrainedIsIInv, PTL DEF DrainedSpec

\* If environments drain before their TTL, a row marked destroyed never stands
\* for resources that still exist.
THEOREM ReapedEnvironmentsAreClean == DrainedSpec => []DestroyedIsClean
<1>1. DInv => DestroyedIsClean
  BY DEF DInv
<1> QED BY <1>1, DrainedAlways, PTL

(***************************************************************************)
(* The cap.                                                                *)
(***************************************************************************)
LEMMA NotDestroyedIsFinite == TypeOK => IsFiniteSet(NotDestroyed)
<1>1. IsFiniteSet(Envs)
  BY FS_Interval DEF Envs
<1>2. NotDestroyed \in SUBSET Envs
  BY DEF NotDestroyed
<1> QED BY <1>1, <1>2, FS_Subset

Admitted == {e \in Envs : envStatus[e] # "none"}

SamePlaces == NotDestroyed' = NotDestroyed /\ Admitted' = Admitted

LEMMA OnlyCreateAndMark ==
  ASSUME IInv, DInv, Next
  PROVE  \/ SamePlaces
         \/ \E e \in Envs : Create(e)
         \/ \E p \in Reapers : MarkDestroyed(p)
<1> USE DEF SamePlaces, NotDestroyed, Admitted, apiVars, cloudVars, runnerVars, reaperVars
<1>1. ASSUME NEW r \in Runners, ApplyTick(r) PROVE SamePlaces
  <2>1. CASE ClaimCommit(r)
    BY <2>1 DEF ClaimCommit, StatusOnClaim, IInv, TypeOK
  <2>2. CASE RecordSuccess(r) \/ RecordFailure(r)
    <3> DEFINE e == EnvOf[rturn[r]]
    <3>1. e \in Envs /\ ~Expired(e) /\ rturn[r] \in Turns
      BY <2>2, HeldIsNotExpired, NoTurnIsNoTurn
         DEF RecordSuccess, RecordFailure, Record, DInv, ReapedIsClean, IInv, TypeOK,
             Hands, Handover
    <3>2. turnStatus[rturn[r]] = "applying"
      BY <2>2 DEF RecordSuccess, RecordFailure, Record, IInv, Hands, Handover
    <3>3. envStatus[e] \notin {"none", "destroyed"}
      BY <3>1, <3>2 DEF DInv, ReapedIsClean, IInv, Rows, TurnsHaveRows
    <3>4. \A f \in Envs : f # e => envStatus'[f] = envStatus[f]
      BY <2>2 DEF RecordSuccess, RecordFailure, Record, IInv, TypeOK
    <3>5. envStatus'[e] \notin {"none", "destroyed"}
      BY <2>2, <3>1 DEF RecordSuccess, RecordFailure, Record, IInv, TypeOK
    <3> QED BY <3>3, <3>4, <3>5
  <2>3. CASE envStatus' = envStatus
    BY <2>3
  <2> QED BY <1>1, <2>1, <2>2, <2>3
          DEF ApplyTick, ClaimSelect, CheckStored, ApplyStart, ApplyRefused,
              ApplyOk, ApplyFail, ApplyEnds
<1>2. ASSUME NEW p \in Reapers, ReapTick(p), ~MarkDestroyed(p) PROVE SamePlaces
  BY <1>2 DEF ReapTick, ReapSelect, ReapDone, DestroyStart, DestroyRefused,
              DestroyOk, DestroyFail
<1>3. CASE Crash
  BY <1>3 DEF Crash, RunnerCrash, ReaperCrash
<1>4. CASE Api
  BY <1>4 DEF Api, SubmitAccepted, SubmitRejected, Submit, PassTtl
<1> QED BY <1>1, <1>2, <1>3, <1>4 DEF Next

LEMMA CapStep == IInv /\ DInv /\ LiveWithinCap /\ [DrainedNext]_vars => LiveWithinCap'
<1> SUFFICES ASSUME IInv, DInv, LiveWithinCap, [DrainedNext]_vars PROVE LiveWithinCap'
  OBVIOUS
<1>1. IsFiniteSet(NotDestroyed)
  BY NotDestroyedIsFinite DEF IInv
<1>2. CASE NotDestroyed' \subseteq NotDestroyed
  <2>1. /\ IsFiniteSet(NotDestroyed')
        /\ Cardinality(NotDestroyed') <= Cardinality(NotDestroyed)
    BY <1>1, <1>2, FS_Subset
  <2> QED BY <2>1, <1>1, FS_CardinalityType DEF LiveWithinCap
<1>3. ASSUME NEW e \in Envs, Create(e) PROVE LiveWithinCap'
  <2>1. NotDestroyed' = NotDestroyed \cup {e} /\ e \notin NotDestroyed
    BY <1>3 DEF NotDestroyed, Create, IInv, TypeOK
  <2>2. NotDestroyed = {f \in Envs : envStatus[f] \in LiveStatuses}
    BY DEF NotDestroyed, LiveStatuses, IInv, TypeOK, EnvStatuses
  <2>3. Cardinality(NotDestroyed) < MaxLive
    BY <1>3, <2>2 DEF Create
  <2>4. Cardinality(NotDestroyed \cup {e}) = Cardinality(NotDestroyed) + 1
    BY <1>1, <2>1, FS_AddElement
  <2> QED BY <1>1, <2>1, <2>3, <2>4, FS_CardinalityType DEF LiveWithinCap
<1>4. ASSUME NEW p \in Reapers, MarkDestroyed(p) PROVE NotDestroyed' \subseteq NotDestroyed
  BY <1>4 DEF MarkDestroyed, NotDestroyed, IInv, TypeOK
<1>5. CASE UNCHANGED vars
  BY <1>5, <1>2 DEF vars, apiVars, NotDestroyed
<1> QED BY <1>2, <1>3, <1>4, <1>5, OnlyCreateAndMark DEF DrainedNext, SamePlaces

\* If environments drain before their TTL, the count of environments not yet
\* destroyed never passes the cap.
THEOREM CapHolds == DrainedSpec => []LiveWithinCap
<1>1. Init => LiveWithinCap
  <2>1. Init => NotDestroyed = {}
    BY DEF Init, NotDestroyed
  <2> QED BY <2>1, FS_EmptySet DEF LiveWithinCap
<1>2. IInv /\ DInv /\ LiveWithinCap /\ [DrainedNext]_vars => LiveWithinCap'
  BY CapStep
<1> QED BY <1>1, <1>2, DrainedAlways, PTL DEF DrainedSpec

(***************************************************************************)
(* The refinement of ArenaCap.  A reaper's batch names only rows that were *)
(* created, so that its UPDATE leaves a place and never makes one.         *)
(***************************************************************************)
BatchHasRows ==
    \A p \in Reapers : \A e \in batch[p] : e \in Envs /\ envStatus[e] # "none"

LEMMA BatchInit == Init => BatchHasRows
BY DEF Init, BatchHasRows

LEMMA BatchStep == IInv /\ DInv /\ BatchHasRows /\ [DrainedNext]_vars => BatchHasRows'
<1> SUFFICES ASSUME IInv, DInv, BatchHasRows, [DrainedNext]_vars PROVE BatchHasRows'
  OBVIOUS
<1> USE DEF BatchHasRows, apiVars, cloudVars, runnerVars, reaperVars
<1>1. \A e \in Envs : envStatus[e] # "none" => envStatus'[e] # "none"
  <2>1. CASE NotDestroyed' = NotDestroyed /\ Admitted' = Admitted
    BY <2>1 DEF Admitted
  <2>2. ASSUME NEW f \in Envs, Create(f)
        PROVE  \A e \in Envs : envStatus[e] # "none" => envStatus'[e] # "none"
    BY <2>2 DEF Create, IInv, TypeOK
  <2>3. ASSUME NEW p \in Reapers, MarkDestroyed(p)
        PROVE  \A e \in Envs : envStatus[e] # "none" => envStatus'[e] # "none"
    BY <2>3 DEF MarkDestroyed, IInv, TypeOK
  <2>4. CASE UNCHANGED vars
    BY <2>4 DEF vars
  <2> QED BY <2>1, <2>2, <2>3, <2>4, OnlyCreateAndMark DEF DrainedNext, SamePlaces
<1>2. \A p \in Reapers : batch'[p] \subseteq batch[p] \cup Due
  <2>1. ASSUME NEW p \in Reapers, ReapTick(p) \/ ReaperCrash(p)
        PROVE  \A q \in Reapers : batch'[q] \subseteq batch[q] \cup Due
    <3> USE DEF IInv, TypeOK
    <3>1. CASE ReapSelect(p)
      BY <3>1 DEF ReapSelect
    <3>2. CASE DestroyRefused(p) \/ DestroyFail(p) \/ MarkDestroyed(p)
      BY <3>2 DEF DestroyRefused, DestroyFail, AfterFailureSkip, MarkDestroyed
    <3>3. CASE ReaperCrash(p)
      BY <3>3 DEF ReaperCrash
    <3> QED BY <2>1, <3>1, <3>2, <3>3
            DEF ReapTick, ReapDone, DestroyStart, DestroyOk
  <2>2. ASSUME NEW r \in Runners, ApplyTick(r) \/ RunnerCrash(r) PROVE UNCHANGED batch
    BY <2>2 DEF ApplyTick, ClaimSelect, ClaimCommit, CheckStored, ApplyStart,
         ApplyRefused, ApplyOk, ApplyFail, ApplyEnds, RecordSuccess, RecordFailure,
         Record, RunnerCrash
  <2>3. CASE Api \/ UNCHANGED vars
    BY <2>3 DEF vars, Api, Create, SubmitAccepted, SubmitRejected, Submit, PassTtl
  <2> QED BY <2>1, <2>2, <2>3 DEF DrainedNext, Next, Crash
<1> QED BY <1>1, <1>2 DEF Due

LEMMA SameCardinality == \A S : Cap!Cardinality(S) = Cardinality(S)
BY DEF Cardinality, Cap!Cardinality

LEMMA StepRefines ==
  ASSUME IInv, DInv, BatchHasRows, [DrainedNext]_vars
  PROVE  [Cap!Next]_<<NotDestroyed, Admitted>>
<1>1. ASSUME NEW e \in Envs, Create(e) PROVE Cap!Admit(e)
  <2>1. /\ NotDestroyed' = NotDestroyed \cup {e}
        /\ Admitted' = Admitted \cup {e} /\ e \notin Admitted
    BY <1>1 DEF NotDestroyed, Admitted, Create, IInv, TypeOK
  <2>2. NotDestroyed = {f \in Envs : envStatus[f] \in LiveStatuses}
    BY DEF NotDestroyed, LiveStatuses, IInv, TypeOK, EnvStatuses
  <2>3. Cardinality(NotDestroyed) < MaxLive
    BY <1>1, <2>2 DEF Create
  <2> QED BY <2>1, <2>3, SameCardinality DEF Cap!Admit, Admitted
<1>2. ASSUME NEW p \in Reapers, MarkDestroyed(p)
      PROVE  SamePlaces \/ \E e \in Envs : Cap!Leave(e)
  <2>1. PICK e \in batch[p] : envStatus' = [envStatus EXCEPT ![e] = "destroyed"]
    BY <1>2 DEF MarkDestroyed
  <2>2. e \in Envs /\ e \in Admitted /\ Admitted' = Admitted
    BY <2>1 DEF BatchHasRows, Admitted, IInv, TypeOK
  <2>3. NotDestroyed' = NotDestroyed \ {e}
    BY <2>1, <2>2 DEF NotDestroyed, IInv, TypeOK
  <2> QED BY <2>2, <2>3 DEF Cap!Leave, Admitted, SamePlaces
<1>3. CASE UNCHANGED vars
  BY <1>3 DEF vars, apiVars, NotDestroyed, Admitted
<1> QED BY <1>1, <1>2, <1>3, OnlyCreateAndMark DEF DrainedNext, Cap!Next, SamePlaces

\* If environments drain before their TTL, the life of the table is one in which
\* places are admitted under the cap, are left once and never come back.
THEOREM LifecycleRefinesCap == DrainedSpec => LifecycleImplementsCap
<1>1. Init => Cap!Init
  BY DEF Init, Cap!Init, NotDestroyed
<1>2. IInv /\ DInv /\ BatchHasRows /\ [DrainedNext]_vars
         => [Cap!Next]_<<NotDestroyed, Admitted>>
  BY StepRefines
<1> QED BY <1>1, <1>2, DrainedAlways, BatchInit, BatchStep, PTL
       DEF DrainedSpec, LifecycleImplementsCap, Cap!Spec, Admitted

(***************************************************************************)
(* Terraform's state locks.  Every step that starts or ends a command moves*)
(* one lock; whoever is at work is known by the lock being held.           *)
(***************************************************************************)
Exclusive ==
    /\ \A e \in Envs :
          stateLock[e] = "held" <=>
              (\E r \in Runners : Applies(r, e)) \/ (\E p \in Reapers : Destroys(p, e))
    /\ \A e \in Envs : \A r, s \in Runners : Applies(r, e) /\ Applies(s, e) => r = s
    /\ \A e \in Envs : \A p, q \in Reapers : Destroys(p, e) /\ Destroys(q, e) => p = q
    /\ \A e \in Envs, r \in Runners, p \in Reapers : ~(Applies(r, e) /\ Destroys(p, e))

\* Who is at work, as one relation between executions and environments.
AtWorkAsBefore ==
    /\ \A r \in Runners, e \in Envs : Applies(r, e)' <=> Applies(r, e)
    /\ \A p \in Reapers, e \in Envs : Destroys(p, e)' <=> Destroys(p, e)

LEMMA ExclusiveKept ==
  ASSUME Exclusive, AtWorkAsBefore, UNCHANGED stateLock PROVE Exclusive'
BY DEF Exclusive, AtWorkAsBefore

LEMMA ExclusiveByApply ==
  ASSUME IInv, Exclusive, NEW r \in Runners, ApplyTick(r) PROVE Exclusive'
<1> USE NoTurnIsNoTurn DEF IInv, TypeOK, Hands, Handover, Applies, Destroys, IsFirst,
        apiVars, cloudVars, runnerVars, reaperVars
<1> DEFINE e == EnvOf[rturn[r]]
<1>0. rpc[r] # "idle" => rturn[r] \in Turns /\ e \in Envs
  OBVIOUS
<1>1. CASE ClaimSelect(r)
  BY <1>1, ExclusiveKept DEF ClaimSelect, AtWorkAsBefore
<1>2. CASE ClaimCommit(r) \/ CheckStored(r) \/ ApplyRefused(r)
  BY <1>2, ExclusiveKept DEF ClaimCommit, CheckStored, ApplyRefused, AtWorkAsBefore
<1>3. CASE ApplyStart(r)
  <2>1. stateLock[e] = "free" /\ stateLock' = [stateLock EXCEPT ![e] = "held"]
    BY <1>3 DEF ApplyStart
  <2>2. \A s \in Runners, f \in Envs :
            Applies(s, f)' <=> Applies(s, f) \/ (s = r /\ f = e)
    BY <1>3, <1>0 DEF ApplyStart
  <2>3. \A p \in Reapers, f \in Envs : Destroys(p, f)' <=> Destroys(p, f)
    BY <1>3 DEF ApplyStart
  <2> HIDE DEF Applies, Destroys
  <2> QED BY <1>0, <1>3, <2>1, <2>2, <2>3 DEF Exclusive, ApplyStart
<1>4. CASE ApplyOk(r) \/ ApplyFail(r)
  <2>1. stateLock' = [stateLock EXCEPT ![e] = "free"] /\ Applies(r, e)
    BY <1>4 DEF ApplyOk, ApplyFail, ApplyEnds
  <2>2. \A s \in Runners, f \in Envs :
            Applies(s, f)' <=> Applies(s, f) /\ s # r
    BY <1>4, <1>0 DEF ApplyOk, ApplyFail, ApplyEnds
  <2>3. \A p \in Reapers, f \in Envs : Destroys(p, f)' <=> Destroys(p, f)
    BY <1>4 DEF ApplyOk, ApplyFail, ApplyEnds
  <2>4. \A f \in Envs : Applies(r, f) => f = e
    OBVIOUS
  <2>5. e \in Envs
    BY <1>0, <2>1
  <2> HIDE DEF Applies, Destroys, e
  <2> QED BY <2>1, <2>2, <2>3, <2>4, <2>5 DEF Exclusive
<1>5. CASE RecordSuccess(r) \/ RecordFailure(r)
  BY <1>5, ExclusiveKept DEF RecordSuccess, RecordFailure, Record, AtWorkAsBefore
<1> QED BY <1>1, <1>2, <1>3, <1>4, <1>5 DEF ApplyTick

LEMMA FirstIsOne ==
  ASSUME NEW S \in SUBSET Envs, NEW e, NEW f, IsFirst(e, S), IsFirst(f, S) PROVE e = f
BY EnvsAreNaturals DEF IsFirst

LEMMA ExclusiveByReap ==
  ASSUME IInv, Exclusive, NEW p \in Reapers, ReapTick(p) PROVE Exclusive'
<1> USE DEF IInv, TypeOK, Applies, Destroys, apiVars, cloudVars, runnerVars, reaperVars
<1>1. CASE ReapSelect(p) \/ ReapDone(p) \/ MarkDestroyed(p)
  BY <1>1, ExclusiveKept DEF ReapSelect, ReapDone, MarkDestroyed, AtWorkAsBefore, IsFirst
<1>2. CASE DestroyRefused(p)
  BY <1>2, ExclusiveKept DEF DestroyRefused, AtWorkAsBefore, IsFirst
<1>3. CASE DestroyStart(p)
  <2>1. PICK e \in batch[p] : /\ IsFirst(e, batch[p]) /\ stateLock[e] = "free"
                             /\ stateLock' = [stateLock EXCEPT ![e] = "held"]
    BY <1>3 DEF DestroyStart
  <2>2. \A f : IsFirst(f, batch[p]) => f = e
    BY <2>1, FirstIsOne
  <2>3. \A r \in Runners, f \in Envs : Applies(r, f)' <=> Applies(r, f)
    BY <1>3 DEF DestroyStart
  <2>4. \A q \in Reapers, f \in Envs :
            Destroys(q, f)' <=> Destroys(q, f) \/ (q = p /\ f = e)
    BY <1>3, <2>1, <2>2 DEF DestroyStart, IsFirst
  <2>5. e \in Envs
    BY <2>1
  <2> HIDE DEF Applies, Destroys
  <2> QED BY <2>1, <2>3, <2>4, <2>5 DEF Exclusive
<1>4. CASE DestroyOk(p) \/ DestroyFail(p)
  <2>1. PICK e \in batch[p] : /\ IsFirst(e, batch[p])
                             /\ stateLock' = [stateLock EXCEPT ![e] = "free"]
    BY <1>4 DEF DestroyOk, DestroyFail
  <2>2. \A f : IsFirst(f, batch[p]) => f = e
    BY <2>1, FirstIsOne
  <2>3. \A r \in Runners, f \in Envs : Applies(r, f)' <=> Applies(r, f)
    BY <1>4 DEF DestroyOk, DestroyFail
  <2>4. \A q \in Reapers, f \in Envs : Destroys(q, f)' <=> Destroys(q, f) /\ q # p
    BY <1>4 DEF DestroyOk, DestroyFail, AfterFailureSkip, IsFirst
  <2>5. e \in Envs /\ Destroys(p, e) /\ \A f \in Envs : Destroys(p, f) => f = e
    BY <1>4, <2>1, <2>2 DEF DestroyOk, DestroyFail
  <2> HIDE DEF Applies, Destroys
  <2> QED BY <2>1, <2>3, <2>4, <2>5 DEF Exclusive
<1> QED BY <1>1, <1>2, <1>3, <1>4 DEF ReapTick

LEMMA ExclusiveByCrash == IInv /\ Exclusive /\ Crash => Exclusive'
<1> SUFFICES ASSUME IInv, Exclusive, Crash PROVE Exclusive'
  OBVIOUS
<1> USE NoTurnIsNoTurn DEF IInv, TypeOK, Hands, Handover, Applies, Destroys,
        apiVars, cloudVars, runnerVars, reaperVars
<1>1. ASSUME NEW r \in Runners, RunnerCrash(r), rpc[r] = "applying" PROVE Exclusive'
  <2> DEFINE e == EnvOf[rturn[r]]
  <2>1. /\ stateLock' = [stateLock EXCEPT ![e] = "stale"] /\ Applies(r, e)
        /\ e \in Envs /\ \A f \in Envs : Applies(r, f) => f = e
    BY <1>1 DEF RunnerCrash
  <2>2. \A s \in Runners, f \in Envs : Applies(s, f)' <=> Applies(s, f) /\ s # r
    BY <1>1 DEF RunnerCrash
  <2>3. \A p \in Reapers, f \in Envs : Destroys(p, f)' <=> Destroys(p, f)
    BY <1>1 DEF RunnerCrash, IsFirst
  <2> HIDE DEF Applies, Destroys, e
  <2> QED BY <2>1, <2>2, <2>3 DEF Exclusive
<1>2. ASSUME NEW r \in Runners, RunnerCrash(r), rpc[r] # "applying" PROVE Exclusive'
  BY <1>2, ExclusiveKept DEF RunnerCrash, AtWorkAsBefore, IsFirst
<1>3. ASSUME NEW p \in Reapers, ReaperCrash(p), ppc[p] = "destroying" PROVE Exclusive'
  <2>1. PICK e \in batch[p] : /\ IsFirst(e, batch[p])
                             /\ stateLock' = [stateLock EXCEPT ![e] = "stale"]
    BY <1>3 DEF ReaperCrash
  <2>2. \A f : IsFirst(f, batch[p]) => f = e
    BY <2>1, FirstIsOne
  <2>3. \A r \in Runners, f \in Envs : Applies(r, f)' <=> Applies(r, f)
    BY <1>3 DEF ReaperCrash
  <2>4. \A q \in Reapers, f \in Envs : Destroys(q, f)' <=> Destroys(q, f) /\ q # p
    BY <1>3 DEF ReaperCrash, IsFirst
  <2>5. e \in Envs /\ Destroys(p, e) /\ \A f \in Envs : Destroys(p, f) => f = e
    BY <1>3, <2>1, <2>2
  <2> HIDE DEF Applies, Destroys
  <2> QED BY <2>1, <2>3, <2>4, <2>5 DEF Exclusive
<1>4. ASSUME NEW p \in Reapers, ReaperCrash(p), ppc[p] # "destroying" PROVE Exclusive'
  BY <1>4, ExclusiveKept DEF ReaperCrash, AtWorkAsBefore, IsFirst
<1> QED BY <1>1, <1>2, <1>3, <1>4 DEF Crash

LEMMA ExclusiveStep == IInv /\ Exclusive /\ [Next]_vars => Exclusive'
<1> SUFFICES ASSUME IInv, Exclusive, [Next]_vars PROVE Exclusive'
  OBVIOUS
<1>1. CASE Api \/ UNCHANGED vars
  <2>1. UNCHANGED <<stateLock, rpc, rturn, ppc, batch>>
    BY <1>1 DEF Api, Create, SubmitAccepted, SubmitRejected, Submit, PassTtl,
                vars, apiVars, cloudVars, runnerVars, reaperVars
  <2> QED BY <2>1, ExclusiveKept DEF AtWorkAsBefore, Applies, Destroys, IsFirst
<1> QED BY <1>1, ExclusiveByApply, ExclusiveByReap, ExclusiveByCrash DEF Next

(***************************************************************************)
(* Locks left behind: one at most with every execution lost, and none      *)
(* otherwise.                                                              *)
(***************************************************************************)
StaleCounted == Cardinality(StaleLocks) <= crashes

LEMMA StaleByCrash ==
  ASSUME IInv, Crash
  PROVE  \E e : StaleLocks' \subseteq StaleLocks \cup {e}
<1> USE DEF StaleLocks, IInv, TypeOK, cloudVars
<1>1. ASSUME NEW r \in Runners, RunnerCrash(r) PROVE \E e : StaleLocks' \subseteq StaleLocks \cup {e}
  <2>1. StaleLocks' \subseteq StaleLocks \cup {EnvOf[rturn[r]]}
    BY <1>1 DEF RunnerCrash
  <2> QED BY <2>1
<1>2. ASSUME NEW p \in Reapers, ReaperCrash(p) PROVE \E e : StaleLocks' \subseteq StaleLocks \cup {e}
  <2>1. CASE ppc[p] = "destroying"
    <3>1. PICK e \in batch[p] : stateLock' = [stateLock EXCEPT ![e] = "stale"]
      BY <1>2, <2>1 DEF ReaperCrash
    <3>2. StaleLocks' \subseteq StaleLocks \cup {e}
      BY <3>1
    <3> QED BY <3>2
  <2>2. CASE ppc[p] # "destroying"
    <3>1. StaleLocks' \subseteq StaleLocks \cup {NoTurn}
      BY <1>2, <2>2 DEF ReaperCrash
    <3> QED BY <3>1
  <2> QED BY <2>1, <2>2
<1> QED BY <1>1, <1>2 DEF Crash

LEMMA StaleKept ==
  ASSUME IInv, [Next]_vars, ~Crash
  PROVE  StaleLocks' \subseteq StaleLocks /\ crashes' = crashes
<1> USE DEF StaleLocks, IInv, TypeOK, cloudVars
<1>1. CASE Api \/ UNCHANGED vars
  BY <1>1 DEF Api, Create, SubmitAccepted, SubmitRejected, Submit, PassTtl, vars
<1>2. ASSUME NEW r \in Runners, ApplyTick(r)
      PROVE  StaleLocks' \subseteq StaleLocks /\ crashes' = crashes
  BY <1>2 DEF ApplyTick, ClaimSelect, ClaimCommit, CheckStored, ApplyStart, ApplyRefused,
              ApplyOk, ApplyFail, ApplyEnds, RecordSuccess, RecordFailure, Record
<1>3. ASSUME NEW p \in Reapers, ReapTick(p)
      PROVE  StaleLocks' \subseteq StaleLocks /\ crashes' = crashes
  BY <1>3 DEF ReapTick, ReapSelect, ReapDone, DestroyStart, DestroyRefused, DestroyOk,
              DestroyFail, MarkDestroyed
<1> QED BY <1>1, <1>2, <1>3 DEF Next

LEMMA StaleStep == IInv /\ StaleCounted /\ [Next]_vars => StaleCounted'
<1> SUFFICES ASSUME IInv, StaleCounted, [Next]_vars PROVE StaleCounted'
  OBVIOUS
<1>1. IsFiniteSet(Envs) /\ StaleLocks \subseteq Envs /\ StaleLocks' \subseteq Envs
  BY FS_Interval DEF Envs, StaleLocks
<1>2. /\ IsFiniteSet(StaleLocks) /\ Cardinality(StaleLocks) \in Nat
      /\ IsFiniteSet(StaleLocks') /\ Cardinality(StaleLocks') \in Nat
      /\ crashes \in Nat /\ Cardinality(StaleLocks) <= crashes
  BY <1>1, FS_Subset, FS_CardinalityType DEF IInv, TypeOK, StaleCounted
<1>3. CASE Crash
  <2>1. PICK e : StaleLocks' \subseteq StaleLocks \cup {e}
    BY <1>3, StaleByCrash
  <2>2. crashes' = crashes + 1
    BY <1>3 DEF Crash, RunnerCrash, ReaperCrash
  <2>3. Cardinality(StaleLocks') <= Cardinality(StaleLocks) + 1
    BY <1>2, <2>1, OneMore
  <2> QED BY <1>2, <2>2, <2>3 DEF StaleCounted
<1>4. CASE ~Crash
  <2>1. StaleLocks' \subseteq StaleLocks /\ crashes' = crashes
    BY <1>4, StaleKept
  <2>2. Cardinality(StaleLocks') <= Cardinality(StaleLocks)
    BY <1>2, <2>1, FS_Subset
  <2> QED BY <1>2, <2>1, <2>2 DEF StaleCounted
<1> QED BY <1>3, <1>4

\* A state lock that is held has exactly one Terraform at work behind it, however
\* many jobs overlap, and no more locks are left behind than executions are lost.
THEOREM OneTerraformPerState == Spec => []TerraformRunsAlone
<1>1. Init => Exclusive /\ StaleCounted
  <2>1. Init => StaleLocks = {}
    BY DEF Init, StaleLocks
  <2>2. Init => Exclusive
    BY DEF Init, Exclusive, Applies, Destroys
  <2>3. Init => crashes = 0
    BY DEF Init
  <2> QED BY <2>1, <2>2, <2>3, FS_EmptySet DEF StaleCounted
<1>2. Exclusive /\ StaleCounted => TerraformRunsAlone
  BY DEF Exclusive, StaleCounted, TerraformRunsAlone
<1> QED BY <1>1, <1>2, ExclusiveStep, StaleStep, InvAlways, PTL DEF Spec

(***************************************************************************)
(* The refinement of HandOut.  A commit takes a turn, a record ends it, a  *)
(* lost execution drops it, and no other step touches what HandOut says.   *)
(***************************************************************************)
Offered == {t \in Turns : turnStatus[t] \in Claimed \cup {"submitted"}}
Taken == {t \in Turns : turnStatus[t] \in Claimed}
Finished == {t \in Turns : turnStatus[t] \in Claimed \ {"applying"}}
InHands == [r \in Runners |-> InHand(r)]

handOut == <<Offered, Taken, Finished, InHands>>

LEMMA ClaimTakes ==
  ASSUME IInv, NEW r \in Runners, ClaimCommit(r), NEW t \in Turns, t = rturn[r]
  PROVE  Queue!Take(r, t)
<1>0. /\ rturn[r] \in Turns /\ turnStatus[rturn[r]] = "submitted"
      /\ turnStatus \in [Turns -> TurnStatuses \cup {"none"}]
      /\ rpc \in [Runners -> RunnerPcs] /\ rpc[r] = "claiming"
  BY NoTurnIsNoTurn DEF IInv, TypeOK, Hands, Handover, ClaimCommit
<1>1. /\ turnStatus' = [turnStatus EXCEPT ![rturn[r]] = "applying"]
      /\ rpc' = [rpc EXCEPT ![r] = "claimed"] /\ rturn' = rturn
  BY <1>0 DEF ClaimCommit
<1>2. Offered' = Offered /\ Finished' = Finished
  BY <1>0, <1>1 DEF Offered, Finished, Claimed
<1>3. Taken' = Taken \cup {rturn[r]} /\ rturn[r] \in Offered \ Taken
  BY <1>0, <1>1 DEF Taken, Offered, Claimed
<1>4. InHands[r] = NoTurn /\ InHands' = [InHands EXCEPT ![r] = rturn[r]]
  BY <1>0, <1>1 DEF InHands, InHand
<1> QED BY <1>2, <1>3, <1>4 DEF Queue!Take, Offered, Taken, Finished, InHands

LEMMA RecordPutsDown ==
  ASSUME IInv, NEW r \in Runners, RecordSuccess(r) \/ RecordFailure(r)
  PROVE  Queue!PutDown({r}, {rturn[r]}, {})
<1> USE NoTurnIsNoTurn DEF IInv, TypeOK, Hands, Handover, RecordSuccess, RecordFailure, Record
<1>1. /\ rturn[r] \in Turns /\ turnStatus[rturn[r]] = "applying"
      /\ \E s \in {"applied", "apply_failed"} :
            turnStatus' = [turnStatus EXCEPT ![rturn[r]] = s]
  OBVIOUS
<1>2. Offered' = Offered /\ Taken' = Taken \cup {}
  BY <1>1 DEF Offered, Taken, Claimed
<1>3. Finished' = Finished \cup {rturn[r]}
  BY <1>1 DEF Finished, Claimed
<1>4. /\ {rturn[r]} \subseteq {InHands[w] : w \in {r}} \ {NoTurn}
      /\ InHands' = [w \in Runners |-> IF w \in {r} THEN NoTurn ELSE InHands[w]]
  BY <1>1 DEF InHands, InHand
<1> QED BY <1>2, <1>3, <1>4 DEF Queue!PutDown, Offered, Taken, Finished, InHands

LEMMA LossPutsDown ==
  ASSUME IInv, NEW r \in Runners, RunnerCrash(r) PROVE Queue!PutDown({r}, {}, {})
<1>1. Offered' = Offered /\ Taken' = Taken \cup {} /\ Finished' = Finished \cup {}
  BY DEF RunnerCrash, apiVars, Offered, Taken, Finished
<1>2. InHands' = [w \in Runners |-> IF w \in {r} THEN NoTurn ELSE InHands[w]]
  BY DEF RunnerCrash, IInv, TypeOK, InHands, InHand
<1> QED BY <1>1, <1>2 DEF Queue!PutDown, Offered, Taken, Finished, InHands

LEMMA SubmitOffers ==
  ASSUME IInv, NEW t \in Turns, SubmitAccepted(t) PROVE Queue!Offer(t)
<1>1. t \notin Offered /\ Offered' = Offered \cup {t}
  BY DEF SubmitAccepted, Submit, IInv, TypeOK, Offered, Claimed
<1>2. Taken' = Taken /\ Finished' = Finished /\ InHands' = InHands
  BY DEF SubmitAccepted, Submit, IInv, TypeOK, Taken, Finished, InHands, InHand,
         Claimed, runnerVars
<1> QED BY <1>1, <1>2 DEF Queue!Offer, Offered, Taken, Finished, InHands

LEMMA HandsOff ==
  ASSUME UNCHANGED <<turnStatus, rpc, rturn>> PROVE UNCHANGED handOut
BY DEF handOut, Offered, Taken, Finished, InHands, InHand

LEMMA StepHandsOut == IInv /\ [Next]_vars => [Queue!Next]_handOut
<1> SUFFICES ASSUME IInv, [Next]_vars PROVE [Queue!Next]_handOut
  OBVIOUS
<1> USE NoTurnIsNoTurn DEF apiVars, cloudVars, runnerVars, reaperVars
<1>1. ASSUME NEW r \in Runners, ApplyTick(r) PROVE [Queue!Next]_handOut
  <2>1. CASE ClaimCommit(r)
    <3>1. rturn[r] \in Turns
      BY <2>1 DEF ClaimCommit, IInv, TypeOK, Hands, Handover
    <3>2. PICK t \in Turns : t = rturn[r]
      BY <3>1
    <3>3. Queue!Take(r, t)
      BY <2>1, <3>2, ClaimTakes
    <3> QED BY <3>3 DEF Queue!Next
  <2>2. CASE RecordSuccess(r) \/ RecordFailure(r)
    <3>1. rturn[r] \in Turns
      BY <2>2 DEF RecordSuccess, RecordFailure, Record, IInv, TypeOK, Hands, Handover
    <3>2. {r} \in SUBSET Runners /\ {rturn[r]} \in SUBSET Turns /\ {} \in SUBSET Turns
      BY <3>1
    <3> QED BY <2>2, <3>2, RecordPutsDown DEF Queue!Next
  <2>3. CASE \/ ClaimSelect(r) \/ CheckStored(r)
             \/ ApplyStart(r) \/ ApplyRefused(r) \/ ApplyOk(r) \/ ApplyFail(r)
    <3>1. Offered' = Offered /\ Taken' = Taken /\ Finished' = Finished
      BY <2>3 DEF ClaimSelect, CheckStored, ApplyStart, ApplyRefused, ApplyOk, ApplyFail,
                  ApplyEnds, Offered, Taken, Finished
    <3>2. InHands' = InHands
      BY <2>3 DEF ClaimSelect, CheckStored, ApplyStart, ApplyRefused, ApplyOk, ApplyFail,
                  ApplyEnds, InHands, InHand, IInv, TypeOK
    <3> QED BY <3>1, <3>2 DEF handOut
  <2> QED BY <1>1, <2>1, <2>2, <2>3 DEF ApplyTick
<1>2. ASSUME NEW p \in Reapers, ReapTick(p) \/ ReaperCrash(p) PROVE UNCHANGED handOut
  BY <1>2, HandsOff DEF ReapTick, ReapSelect, ReapDone, DestroyStart, DestroyRefused,
              DestroyOk, DestroyFail, MarkDestroyed, ReaperCrash
<1>3. ASSUME NEW r \in Runners, RunnerCrash(r) PROVE [Queue!Next]_handOut
  <2>1. {r} \in SUBSET Runners /\ {} \in SUBSET Turns
    OBVIOUS
  <2> QED BY <1>3, <2>1, LossPutsDown DEF Queue!Next
<1>4. CASE Api
  <2>1. ASSUME NEW t \in Turns, SubmitAccepted(t) PROVE [Queue!Next]_handOut
    BY <2>1, SubmitOffers DEF Queue!Next
  <2>2. ASSUME NEW t \in Turns, SubmitRejected(t) PROVE UNCHANGED handOut
    BY <2>2 DEF SubmitRejected, Submit, IInv, TypeOK, handOut, Offered, Taken, Finished,
                InHands, InHand, Claimed
  <2>3. ASSUME NEW e \in Envs, Create(e) PROVE UNCHANGED handOut
    BY <2>3, HandsOff DEF Create
  <2>4. CASE PassTtl
    BY <2>4, HandsOff DEF PassTtl
  <2> QED BY <1>4, <2>1, <2>2, <2>3, <2>4 DEF Api
<1>5. CASE UNCHANGED vars
  BY <1>5, HandsOff DEF vars
<1> QED BY <1>1, <1>2, <1>3, <1>4, <1>5 DEF Next, Crash

\* The apply jobs and the table of turns are a queue that gives a turn out once, to
\* one execution, and lets only that execution end it.
THEOREM TurnsRefineHandOut == Spec => TurnsAreHandedOut
<1>1. Init => Queue!Init
  BY DEF Init, Queue!Init, InHand, Claimed
<1>2. IInv /\ [Next]_vars => [Queue!Next]_handOut
  BY StepHandsOut
<1> QED BY <1>1, <1>2, InvAlways, PTL
       DEF Spec, TurnsAreHandedOut, Queue!Spec, Queue!vars, handOut,
           Offered, Taken, Finished, InHands
=============================================================================
