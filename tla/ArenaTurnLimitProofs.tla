------------------------ MODULE ArenaTurnLimitProofs ------------------------
(***************************************************************************)
(* The limit of turns in a period of time, for every number of concurrent  *)
(* submits, every limit and every bound on how long a transaction lasts.   *)
(***************************************************************************)
EXTENDS ArenaTurnLimit, FiniteSetTheorems, TLAPS

USE RequestsAreFinite, LocksAreNumbered, NumbersAssumption, NoRequestIsNone
USE DEF Waiting, Unwritten, Written, InTransaction

(***************************************************************************)
(* The inductive invariant.  Of the turns in a period the last one inserted*)
(* has counted all the others: it began at most MaxWait before it counted, *)
(* so what is younger than an hour when it counts is at least what is      *)
(* younger than Hour - MaxWait when it began.                              *)
(***************************************************************************)
LockDiscipline ==
    \A r \in Requests : pc[r] \in {"locked", "counted"} <=> lock[Key(r)] = r

Timely ==
    \A r \in Requests : pc[r] \in InTransaction => now <= createdAt[r] + MaxWait

RowsAreWritten == \A r \in Requests : turn[r] # "none" => pc[r] \notin Unwritten

KnownWhileLocked ==
    \A r \in Requests : pc[r] = "counted" =>
        Cardinality(Since(EnvOf[r], createdAt[r] + MaxWait)) < MaxTurns

EveryWindow ==
    \A e \in Envs, from \in Nat, len \in Nat :
        len + MaxWait <= Hour => Cardinality(Within(e, from, len)) <= MaxTurns

IInv ==
    /\ TypeOK
    /\ LockDiscipline
    /\ Timely
    /\ RowsAreWritten
    /\ KnownWhileLocked
    /\ EveryWindow
    /\ RejectedIsFree

LEMMA SubsetsAreFinite ==
  ASSUME NEW S \in SUBSET Requests
  PROVE  IsFiniteSet(S) /\ Cardinality(S) \in Nat
BY FS_Subset, FS_CardinalityType

LEMMA Smaller ==
  ASSUME NEW S \in SUBSET Requests, NEW T \in SUBSET S
  PROVE  Cardinality(T) <= Cardinality(S)
BY SubsetsAreFinite, FS_Subset

LEMMA InvInit == Init => IInv
<1> SUFFICES ASSUME Init PROVE IInv
  OBVIOUS
<1>1. EveryWindow
  <2>1. \A e, from, len : Within(e, from, len) = {}
    BY DEF Init, Within, Accepted
  <2> QED BY <2>1, FS_EmptySet DEF EveryWindow
<1> QED BY <1>1 DEF Init, IInv, TypeOK, Answers, LockDiscipline, Key, Timely,
     RowsAreWritten, KnownWhileLocked, RejectedIsFree

\* Of the steps of a submit only the INSERT touches the rows that count.
SameTurns ==
    /\ \A e, from, len : Within(e, from, len)' = Within(e, from, len)
    /\ \A e, when : Since(e, when)' = Since(e, when)
    /\ \A e : Accepted(e)' = Accepted(e)

Quiet ==
    \/ Tick
    \/ \E r \in Requests :
          \/ Lookup(r) \/ Reject(r) \/ Begin(r) \/ TakeLock(r)
          \/ CountPass(r) \/ CountRefuse(r) \/ Answer(r) \/ Abort(r) \/ LoseAnswer(r)

LEMMA OthersKeepTurns ==
  ASSUME IInv, Quiet
  PROVE  SameTurns
<1>1. \A q \in Requests :
         /\ (turn[q] = "submitted") = (turn'[q] = "submitted")
         /\ turn[q] = "submitted" => createdAt'[q] = createdAt[q]
         /\ turn'[q] \in {"none", "submitted", "rejected"}
  BY DEF IInv, TypeOK, RowsAreWritten, Quiet, Lookup, Reject, Begin, TakeLock,
         CountPass, CountRefuse, Answer, Abort, LoseAnswer, RollBack, Tick
<1>2. \A q \in Requests : turn[q] \in {"none", "submitted", "rejected"}
  BY DEF IInv, TypeOK
<1> QED BY <1>1, <1>2 DEF SameTurns, Within, Since, Accepted

LEMMA QuietStep ==
  ASSUME IInv, Quiet
  PROVE  IInv'
<1>0. SameTurns
  BY OthersKeepTurns
<1>1. EveryWindow'
  BY <1>0 DEF EveryWindow, SameTurns, IInv
<1>2. TypeOK'
  BY DEF IInv, TypeOK, Answers, Quiet, Lookup, Reject, Begin, TakeLock, CountPass,
         CountRefuse, Answer, Abort, LoseAnswer, RollBack, Release, Goto, Tick
<1>3. LockDiscipline'
  BY DEF IInv, TypeOK, LockDiscipline, Key, Quiet, Lookup, Reject, Begin, TakeLock, LockIsFree,
         CountPass, CountRefuse, Answer, Abort, LoseAnswer, RollBack, Release, Goto, Tick
<1>4. Timely'
  BY DEF IInv, TypeOK, Timely, Quiet, Lookup, Reject, Begin, TakeLock,
         CountPass, CountRefuse, Answer, Abort, LoseAnswer, RollBack, Release, Goto, Tick
<1>5. RowsAreWritten'
  BY DEF IInv, TypeOK, RowsAreWritten, Quiet, Lookup, Reject, Begin, TakeLock,
         CountPass, CountRefuse, Answer, Abort, LoseAnswer, RollBack, Release, Goto, Tick
<1>6. KnownWhileLocked'
  <2> SUFFICES ASSUME NEW q \in Requests, pc'[q] = "counted"
               PROVE  Cardinality(Since(EnvOf[q], createdAt'[q] + MaxWait)) < MaxTurns
    BY <1>0 DEF KnownWhileLocked, SameTurns
  <2>1. CASE CountPass(q)
    <3>1. /\ Cardinality(Since(EnvOf[q], now)) < MaxTurns
          /\ createdAt' = createdAt
      <4>1. Since(EnvOf[q], now) \in SUBSET Requests
        BY DEF Since
      <4> QED BY <2>1, <4>1, SubsetsAreFinite DEF CountPass, OverLimit
    <3>2. Since(EnvOf[q], createdAt[q] + MaxWait) \subseteq Since(EnvOf[q], now)
      BY <2>1 DEF Since, CountPass, IInv, TypeOK, Timely, InTransaction
    <3>3. Since(EnvOf[q], now) \in SUBSET Requests
      BY DEF Since
    <3> QED BY <2>1, <3>1, <3>2, <3>3, Smaller, SubsetsAreFinite
  <2>2. CASE ~CountPass(q)
    <3>1. pc[q] = "counted" /\ createdAt'[q] = createdAt[q]
      BY <2>2 DEF IInv, TypeOK, Quiet, Lookup, Reject, Begin, TakeLock, CountPass, CountRefuse,
                  Answer, Abort, LoseAnswer, RollBack, Release, Goto, Tick
    <3> QED BY <3>1 DEF IInv, KnownWhileLocked
  <2> QED BY <2>1, <2>2
<1>7. RejectedIsFree'
  <2> SUFFICES ASSUME NEW q \in Requests, pc'[q] = "limited"
               PROVE  Cardinality(Accepted(EnvOf[q])) >= MaxTurns
    BY <1>0 DEF RejectedIsFree, SameTurns
  <2>1. CASE CountRefuse(q)
    <3>1. Accepted(EnvOf[q]) \in SUBSET Requests
      BY DEF Accepted
    <3>2. Since(EnvOf[q], now) \in SUBSET Accepted(EnvOf[q])
      BY DEF Since, Accepted, IInv, TypeOK
    <3>3. Cardinality(Since(EnvOf[q], now)) <= Cardinality(Accepted(EnvOf[q]))
      BY <3>1, <3>2, Smaller
    <3> QED BY <2>1, <3>1, <3>2, <3>3, SubsetsAreFinite DEF CountRefuse, OverLimit
  <2>2. CASE ~CountRefuse(q)
    <3>1. pc[q] = "limited"
      BY <2>2 DEF IInv, TypeOK, Quiet, Lookup, Reject, Begin, TakeLock, CountPass, CountRefuse,
                  Answer, Abort, LoseAnswer, RollBack, Release, Goto, Tick
    <3> QED BY <3>1 DEF IInv, RejectedIsFree
  <2> QED BY <2>1, <2>2
<1> QED BY <1>1, <1>2, <1>3, <1>4, <1>5, <1>6, <1>7 DEF IInv

LEMMA InsertStep ==
  ASSUME IInv, NEW r \in Requests, Insert(r) PROVE IInv'
<1>1. /\ pc[r] = "counted" /\ pc' = [pc EXCEPT ![r] = "committed"]
      /\ turn[r] = "none" /\ turn' = [turn EXCEPT ![r] = "submitted"]
      /\ createdAt' = createdAt /\ now' = now
      /\ lock[Key(r)] = r /\ lock' = [lock EXCEPT ![Key(r)] = NoRequest]
  BY DEF Insert, Release, Key, Goto, IInv, TypeOK, LockDiscipline, RowsAreWritten
<1>2. TypeOK' /\ Timely' /\ RowsAreWritten'
  BY <1>1 DEF IInv, TypeOK, Answers, Timely, RowsAreWritten
<1>3. LockDiscipline'
  BY <1>1 DEF IInv, TypeOK, LockDiscipline, Key
<1>4. KnownWhileLocked'
  <2> SUFFICES ASSUME NEW q \in Requests, pc'[q] = "counted"
               PROVE  Cardinality(Since(EnvOf[q], createdAt[q] + MaxWait)') < MaxTurns
    BY <1>1 DEF KnownWhileLocked
  <2>1. q # r /\ pc[q] = "counted"
    BY <1>1 DEF IInv, TypeOK
  <2>2. EnvOf[q] # EnvOf[r]
    BY <1>1, <2>1 DEF IInv, LockDiscipline, Key
  <2>3. Since(EnvOf[q], createdAt[q] + MaxWait)' = Since(EnvOf[q], createdAt[q] + MaxWait)
    BY <1>1, <2>2 DEF Since, IInv, TypeOK
  <2> QED BY <2>1, <2>3 DEF IInv, KnownWhileLocked
<1>5. EveryWindow'
  <2> SUFFICES ASSUME NEW e \in Envs, NEW from \in Nat, NEW len \in Nat,
                      len + MaxWait <= Hour
               PROVE  Cardinality(Within(e, from, len)') <= MaxTurns
    BY DEF EveryWindow
  <2> DEFINE W == Within(e, from, len)
             Joins == EnvOf[r] = e /\ from <= createdAt[r] /\ createdAt[r] <= from + len
  <2>0. W \in SUBSET Requests /\ r \notin W /\ Cardinality(W) <= MaxTurns
    BY <1>1 DEF Within, Accepted, IInv, EveryWindow
  <2>1. CASE ~Joins
    <3>1. W' = W
      BY <1>1, <2>1 DEF Within, Accepted, IInv, TypeOK
    <3> QED BY <2>0, <3>1
  <2>2. CASE Joins
    <3>1. W' = W \cup {r}
      BY <1>1, <2>2 DEF Within, Accepted, IInv, TypeOK
    <3>2. W \subseteq Since(e, createdAt[r] + MaxWait)
      BY <2>2 DEF Within, Accepted, Since, IInv, TypeOK
    <3>3. Since(e, createdAt[r] + MaxWait) \in SUBSET Requests
      BY DEF Since
    <3>4. Cardinality(W) <= Cardinality(Since(e, createdAt[r] + MaxWait))
      BY <3>2, <3>3, Smaller
    <3>5. Cardinality(Since(e, createdAt[r] + MaxWait)) < MaxTurns
      BY <1>1, <2>2 DEF IInv, KnownWhileLocked
    <3>6. Cardinality(W \cup {r}) = Cardinality(W) + 1
      BY <2>0, SubsetsAreFinite, FS_AddElement
    <3> HIDE DEF W
    <3>7. Cardinality(W \cup {r}) <= MaxTurns
      BY <2>0, <3>3, <3>4, <3>5, <3>6, SubsetsAreFinite
    <3> QED BY <3>1, <3>7 DEF W
  <2> QED BY <2>1, <2>2
<1>6. RejectedIsFree'
  <2> SUFFICES ASSUME NEW q \in Requests, pc'[q] = "limited"
               PROVE  Cardinality(Accepted(EnvOf[q])') >= MaxTurns
    BY DEF RejectedIsFree
  <2>1. pc[q] = "limited"
    BY <1>1 DEF IInv, TypeOK
  <2>2. /\ Accepted(EnvOf[q])' \in SUBSET Requests
        /\ Accepted(EnvOf[q]) \in SUBSET Accepted(EnvOf[q])'
    BY <1>1 DEF Accepted, IInv, TypeOK
  <2>3. Cardinality(Accepted(EnvOf[q])) <= Cardinality(Accepted(EnvOf[q])')
    BY <2>2, Smaller
  <2>4. Cardinality(Accepted(EnvOf[q])) >= MaxTurns
    BY <2>1 DEF IInv, RejectedIsFree
  <2>5. Accepted(EnvOf[q]) \in SUBSET Requests
    BY DEF Accepted
  <2> QED BY <2>2, <2>3, <2>4, <2>5, SubsetsAreFinite
<1> QED BY <1>2, <1>3, <1>4, <1>5, <1>6 DEF IInv

LEMMA InvStep == IInv /\ [Next]_vars => IInv'
<1> SUFFICES ASSUME IInv, [Next]_vars PROVE IInv'
  OBVIOUS
<1>1. CASE UNCHANGED vars
  <2>1. /\ \A e, from, len : Within(e, from, len)' = Within(e, from, len)
        /\ \A e, when : Since(e, when)' = Since(e, when)
        /\ \A e : Accepted(e)' = Accepted(e)
    BY <1>1 DEF vars, Since, Within, Accepted
  <2>2. EveryWindow' /\ KnownWhileLocked' /\ RejectedIsFree'
    BY <1>1, <2>1 DEF vars, IInv, EveryWindow, KnownWhileLocked, RejectedIsFree
  <2> QED BY <1>1, <2>2 DEF vars, IInv, TypeOK, LockDiscipline, Key, Timely, InTransaction,
          RowsAreWritten
<1>2. ASSUME NEW r \in Requests, SubmitStep(r) \/ Abort(r) \/ LoseAnswer(r) PROVE IInv'
  BY <1>2, QuietStep, InsertStep DEF SubmitStep, Quiet
<1>3. CASE Tick
  BY <1>3, QuietStep DEF Quiet
<1> QED BY <1>1, <1>2, <1>3 DEF Next

LEMMA InvAlways == Spec => []IInv
BY InvInit, InvStep, PTL DEF Spec

\* Every variable keeps its type.
THEOREM TypeCorrect == Spec => []TypeOK
<1>1. IInv => TypeOK
  BY DEF IInv
<1> QED BY <1>1, InvAlways, PTL

\* No period of Hour - MaxWait holds more than MaxTurns accepted turns of one
\* environment, however its submits interleave.
THEOREM TurnsAreLimited == Spec => []WindowHolds
<1>1. IInv => WindowHolds
  BY DEF IInv, EveryWindow, WindowHolds, TypeOK, Accepted
<1> QED BY <1>1, InvAlways, PTL

\* Rejected designs never use up the limit.
THEOREM RejectionsAreFree == Spec => []RejectedIsFree
<1>1. IInv => RejectedIsFree
  BY DEF IInv
<1> QED BY <1>1, InvAlways, PTL

(***************************************************************************)
(* Answers and locks.  Who is past the look-up owns the environment, who is*)
(* in a transaction has a design that parses, and who waits for the answer *)
(* to a commit has its row.                                                *)
(***************************************************************************)
Admissible ==
    \A r \in Requests :
        /\ pc[r] \in {"found"} \cup InTransaction => r \notin Foreign
        /\ pc[r] \in InTransaction => r \notin Invalid
        /\ pc[r] = "committed" => turn[r] = "submitted"
        /\ pc[r] = "stored" => turn[r] = "rejected"

AnswerInv == Admissible /\ AnswersAreTrue /\ LocksHaveTheirHolders

LEMMA AnswerInit == Init => AnswerInv
BY DEF Init, AnswerInv, Admissible, AnswersAreTrue, LocksHaveTheirHolders

LEMMA AnswerStep == IInv /\ AnswerInv /\ [Next]_vars => AnswerInv'
<1> SUFFICES ASSUME IInv, AnswerInv, [Next]_vars PROVE AnswerInv'
  OBVIOUS
<1> USE DEF IInv, TypeOK, LockDiscipline, RowsAreWritten, AnswerInv, Admissible,
        AnswersAreTrue, LocksHaveTheirHolders, Goto, Key, Release, RollBack
<1>1. ASSUME NEW r \in Requests, Lookup(r) \/ Begin(r) \/ CountPass(r) PROVE AnswerInv'
  BY <1>1 DEF Lookup, Begin, CountPass
<1>2. ASSUME NEW r \in Requests, Reject(r) PROVE AnswerInv'
  BY <1>2 DEF Reject
<1>3. ASSUME NEW r \in Requests, TakeLock(r) PROVE AnswerInv'
  BY <1>3 DEF TakeLock, LockIsFree
<1>4. ASSUME NEW r \in Requests, CountRefuse(r) \/ Abort(r) PROVE AnswerInv'
  BY <1>4 DEF CountRefuse, Abort
<1>5. ASSUME NEW r \in Requests, Insert(r) PROVE AnswerInv'
  BY <1>5 DEF Insert
<1>6. ASSUME NEW r \in Requests, Answer(r) \/ LoseAnswer(r) PROVE AnswerInv'
  BY <1>6 DEF Answer, LoseAnswer
<1>7. CASE Tick \/ UNCHANGED vars
  BY <1>7 DEF Tick, vars
<1> QED BY <1>1, <1>2, <1>3, <1>4, <1>5, <1>6, <1>7 DEF Next, SubmitStep

LEMMA AnswerAlways == Spec => []AnswerInv
BY AnswerInit, AnswerStep, InvAlways, PTL DEF Spec

\* No answer contradicts the table, a row whose submit was told of no turn had an
\* error for its answer, and no stranger's design is in the table.
THEOREM AnswersStayTrue == Spec => []AnswersAreTrue
<1>1. AnswerInv => AnswersAreTrue
  BY DEF AnswerInv
<1> QED BY <1>1, AnswerAlways, PTL

\* No lock is held by a submit to an environment of another number, or by one that has ended.
THEOREM LocksAreNeverLeft == Spec => []LocksHaveTheirHolders
<1>1. AnswerInv => LocksHaveTheirHolders
  BY DEF AnswerInv
<1> QED BY <1>1, AnswerAlways, PTL
=============================================================================
