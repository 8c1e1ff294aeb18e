------------------------ MODULE ArenaAdmissionProofs ------------------------
(***************************************************************************)
(* What holds of concurrent creates for every finite set of requests and   *)
(* every cap, and that they implement the atomic admission of ArenaCap.    *)
(***************************************************************************)
EXTENDS ArenaAdmission, FiniteSetTheorems, TLAPS

USE RequestsAreFinite, MaxLiveIsNat, NoRequestIsNone
USE DEF Waiting, Unwritten, InTransaction

(***************************************************************************)
(* The inductive invariant: what a request knows while it holds the lock.  *)
(* Others may only take rows away from under it, so what it has counted    *)
(* and looked up stays true until its commit.                              *)
(***************************************************************************)
LockDiscipline == \A r \in Requests : pc[r] \in InTransaction <=> lock = r

KnownWhileLocked ==
    \A r \in Requests :
        /\ pc[r] \in {"counted", "clear"} => Cardinality(LiveRows) < MaxLive
        /\ pc[r] = "clear" => ~RowFor(BuyOf[r])

RowsWereCreated ==
    \A r \in Requests :
        /\ row[r] # "none" => pc[r] \in {"committed", "created", "error"}
        /\ pc[r] \in {"committed", "created"} => row[r] # "none"

IInv ==
    /\ TypeOK
    /\ LockDiscipline
    /\ KnownWhileLocked
    /\ RowsWereCreated
    /\ CapHolds
    /\ BackstopNeverFires
    /\ StrangersNeverLock

LEMMA LiveRowsFinite == IsFiniteSet(LiveRows) /\ Cardinality(LiveRows) \in Nat
<1>1. LiveRows \in SUBSET Requests
  BY DEF LiveRows
<1> QED BY <1>1, FS_Subset, FS_CardinalityType

LEMMA DestroyShrinks ==
  ASSUME TypeOK, NEW r \in Requests, Destroy(r)
  PROVE  /\ LiveRows' = LiveRows \ {r} /\ r \in LiveRows
         /\ Cardinality(LiveRows') < Cardinality(LiveRows)
         /\ Cardinality(LiveRows') \in Nat
<1>1. LiveRows' = LiveRows \ {r} /\ r \in LiveRows
  BY DEF Destroy, LiveRows, TypeOK
<1>2. Cardinality(LiveRows \ {r}) = Cardinality(LiveRows) - 1
  BY <1>1, LiveRowsFinite, FS_RemoveElement
<1>3. Cardinality(LiveRows \ {r}) \in Nat
  BY LiveRowsFinite, FS_RemoveElement, FS_CardinalityType
<1> QED BY <1>1, <1>2, <1>3, LiveRowsFinite

\* Under the lock nobody else's row can have come in between.
LEMMA InsertCreates ==
  ASSUME IInv, NEW r \in Requests, Insert(r)
  PROVE  row' = [row EXCEPT ![r] = "live"] /\ EndTransaction(r, "committed")
BY DEF IInv, KnownWhileLocked, Insert

LEMMA InsertGrows ==
  ASSUME IInv, NEW r \in Requests, Insert(r)
  PROVE  /\ LiveRows' = LiveRows \cup {r} /\ row[r] = "none"
         /\ Cardinality(LiveRows) < MaxLive
         /\ Cardinality(LiveRows') = Cardinality(LiveRows) + 1
<1>1. row[r] = "none" /\ Cardinality(LiveRows) < MaxLive
  BY DEF IInv, RowsWereCreated, KnownWhileLocked, Insert
<1>2. LiveRows' = LiveRows \cup {r} /\ r \notin LiveRows
  BY <1>1, InsertCreates DEF LiveRows, IInv, TypeOK
<1>3. Cardinality(LiveRows \cup {r}) = Cardinality(LiveRows) + 1
  BY <1>2, LiveRowsFinite, FS_AddElement
<1> QED BY <1>1, <1>2, <1>3

LEMMA InvInit == Init => IInv
<1> SUFFICES ASSUME Init PROVE IInv
  OBVIOUS
<1>1. LiveRows = {}
  BY DEF Init, LiveRows
<1>2. CapHolds
  BY <1>1, FS_EmptySet DEF CapHolds
<1> QED BY <1>2 DEF Init, IInv, TypeOK, Answers, LockDiscipline,
     KnownWhileLocked, RowsWereCreated, BackstopNeverFires, StrangersNeverLock

\* The steps that leave the table alone.
LEMMA QuietStep ==
  ASSUME IInv, NEW r \in Requests, UNCHANGED row,
         \/ CheckEntitlement(r) \/ TakeLock(r) \/ CountRefuse(r) \/ CountPass(r)
         \/ FindExisting(r) \/ FindNone(r) \/ Confirm(r) \/ Abort(r) \/ LoseAnswer(r)
  PROVE  IInv'
<1>0. /\ LiveRows' = LiveRows
      /\ \A buy : RowFor(buy)' = RowFor(buy)
  BY DEF LiveRows, RowFor
<1>1. pc[r] = "counted" \/ pc[r] = "clear" => Cardinality(LiveRows) < MaxLive
  BY DEF IInv, KnownWhileLocked
<1> USE DEF IInv, TypeOK, Answers, LockDiscipline,
        KnownWhileLocked, RowsWereCreated, CapHolds, BackstopNeverFires,
        StrangersNeverLock
<1>2. CASE CheckEntitlement(r)
  BY <1>0, <1>2 DEF CheckEntitlement
<1>3. CASE TakeLock(r)
  BY <1>0, <1>3 DEF TakeLock, LockIsFree
<1>4. CASE CountRefuse(r) \/ FindExisting(r) \/ Abort(r)
  BY <1>0, <1>4 DEF CountRefuse, FindExisting, Abort, EndTransaction
<1>5. CASE CountPass(r)
  <2>1. Cardinality(LiveRows) < MaxLive
    BY <1>5, LiveRowsFinite DEF CountPass, AtCapacity
  <2> QED BY <1>0, <1>5, <2>1 DEF CountPass
<1>6. CASE FindNone(r)
  BY <1>0, <1>1, <1>6 DEF FindNone
<1>7. CASE Confirm(r) \/ LoseAnswer(r)
  BY <1>0, <1>7 DEF Confirm, LoseAnswer
<1> QED BY <1>2, <1>3, <1>4, <1>5, <1>6, <1>7

LEMMA InvStep == IInv /\ [Next]_vars => IInv'
<1> SUFFICES ASSUME IInv, [Next]_vars PROVE IInv'
  OBVIOUS
<1>1. ASSUME NEW r \in Requests, Insert(r) PROVE IInv'
  <2>1. /\ pc[r] = "clear" /\ pc' = [pc EXCEPT ![r] = "committed"]
        /\ lock = r /\ lock' = NoRequest
        /\ row' = [row EXCEPT ![r] = "live"]
    BY <1>1, InsertCreates DEF Insert, EndTransaction, IInv, LockDiscipline
  <2>2. CapHolds'
    <3>1. Cardinality(LiveRows') = Cardinality(LiveRows) + 1
      BY <1>1, InsertGrows
    <3>2. Cardinality(LiveRows) < MaxLive
      BY <1>1, InsertGrows
    <3>3. Cardinality(LiveRows') <= MaxLive
      BY <3>1, <3>2, LiveRowsFinite
    <3> QED BY <3>3 DEF CapHolds, LiveRows
  <2>3. \A q \in Requests : pc'[q] \notin InTransaction
    BY <2>1 DEF IInv, TypeOK, LockDiscipline
  <2> QED BY <2>1, <2>2, <2>3
          DEF IInv, TypeOK, Answers, LockDiscipline,
              KnownWhileLocked, RowsWereCreated, BackstopNeverFires, StrangersNeverLock
<1>2. ASSUME NEW r \in Requests, Destroy(r) PROVE IInv'
  <2>1. /\ Cardinality(LiveRows') < Cardinality(LiveRows)
        /\ Cardinality(LiveRows') \in Nat
    BY <1>2, DestroyShrinks DEF IInv
  <2>2. CapHolds' /\ (Cardinality(LiveRows) < MaxLive => Cardinality(LiveRows') < MaxLive)
    BY <2>1, LiveRowsFinite DEF IInv, CapHolds, LiveRows
  <2>3. \A buy : RowFor(buy)' = RowFor(buy)
    BY <1>2 DEF Destroy, RowFor, IInv, TypeOK
  <2> QED BY <1>2, <2>2, <2>3
          DEF Destroy, IInv, TypeOK, LockDiscipline, KnownWhileLocked, RowsWereCreated,
              BackstopNeverFires, StrangersNeverLock
<1>3. CASE UNCHANGED vars
  BY <1>3 DEF vars, IInv, TypeOK, LockDiscipline, KnownWhileLocked, RowsWereCreated,
     CapHolds, BackstopNeverFires, StrangersNeverLock, LiveRows, RowFor
<1>4. ASSUME NEW r \in Requests, Create(r) \/ Abort(r) \/ LoseAnswer(r), ~Insert(r)
      PROVE  IInv'
  <2>1. UNCHANGED row
    BY <1>4 DEF Create, CheckEntitlement, TakeLock, CountRefuse, CountPass, FindExisting,
                FindNone, Confirm, Abort, LoseAnswer
  <2> QED BY <1>4, <2>1, QuietStep DEF Create
<1> QED BY <1>1, <1>2, <1>3, <1>4 DEF Next, Create

LEMMA InvAlways == Spec => []IInv
BY InvInit, InvStep, PTL DEF Spec

\* Every variable keeps its type.
THEOREM TypeCorrect == Spec => []TypeOK
<1>1. IInv => TypeOK
  BY DEF IInv
<1> QED BY <1>1, InvAlways, PTL

\* The cap is never passed, whatever the interleaving and the lost requests.
THEOREM CapIsNeverPassed == Spec => []CapHolds
<1>1. IInv => CapHolds
  BY DEF IInv
<1> QED BY <1>1, InvAlways, PTL

\* The unique constraint is never what stops a duplicate.
THEOREM LockClosesDuplicates == Spec => []BackstopNeverFires
<1>1. IInv => BackstopNeverFires
  BY DEF IInv
<1> QED BY <1>1, InvAlways, PTL

\* A caller without an entitling purchase never holds the creation lock.
THEOREM StrangersStayOut == Spec => []StrangersNeverLock
<1>1. IInv => StrangersNeverLock
  BY DEF IInv
<1> QED BY <1>1, InvAlways, PTL

(***************************************************************************)
(* The refinement: the INSERT is the admission, the reaper's UPDATE the    *)
(* leave, and every other statement a stutter.                             *)
(***************************************************************************)
Admitted == {r \in Requests : row[r] # "none"}

LEMMA SameCardinality == \A S : Cap!Cardinality(S) = Cardinality(S)
BY DEF Cardinality, Cap!Cardinality

LEMMA StepRefines ==
  ASSUME IInv, [Next]_vars PROVE [Cap!Next]_<<LiveRows, Admitted>>
<1>1. ASSUME NEW r \in Requests, Insert(r) PROVE Cap!Admit(r)
  <2>1. Admitted' = Admitted \cup {r} /\ r \notin Admitted
    BY <1>1, InsertGrows, InsertCreates DEF Admitted, IInv, TypeOK
  <2>2. LiveRows' = LiveRows \cup {r} /\ Cardinality(LiveRows) < MaxLive
    BY <1>1, InsertGrows
  <2> QED BY <2>1, <2>2, SameCardinality DEF Cap!Admit, Admitted
<1>2. ASSUME NEW r \in Requests, Destroy(r) PROVE Cap!Leave(r)
  <2>1. Admitted' = Admitted
    BY <1>2 DEF Destroy, Admitted, IInv, TypeOK
  <2> QED BY <1>2, <2>1, DestroyShrinks DEF Cap!Leave, Admitted, IInv
<1>3. CASE UNCHANGED row
  BY <1>3 DEF LiveRows, Admitted
<1>4. \/ \E r \in Requests : Insert(r) \/ Destroy(r)
      \/ UNCHANGED row
  BY DEF Next, vars, Create, CheckEntitlement, TakeLock, CountRefuse, CountPass,
         FindExisting, FindNone, Confirm, Abort, LoseAnswer
<1> QED BY <1>1, <1>2, <1>3, <1>4 DEF Cap!Next

\* create under its lock implements the atomic admission.
THEOREM AdmissionImplementsCap == Spec => ImplementsCap
<1>1. Init => Cap!Init
  BY DEF Init, Cap!Init, LiveRows
<1>2. IInv /\ [Next]_vars => [Cap!Next]_<<LiveRows, Admitted>>
  BY StepRefines
<1> QED BY <1>1, <1>2, InvAlways, PTL DEF Spec, ImplementsCap, Cap!Spec, Admitted

(***************************************************************************)
(* Answers and the lock.  The look-up finds a row of another request, and  *)
(* rows are destroyed and never deleted.                                   *)
(***************************************************************************)
LEMMA AnswersInit == Init => AnswersAreTrue
BY DEF Init, AnswersAreTrue

LEMMA AnswersStep == IInv /\ AnswersAreTrue /\ [Next]_vars => AnswersAreTrue'
<1> SUFFICES ASSUME IInv, AnswersAreTrue, [Next]_vars PROVE AnswersAreTrue'
  OBVIOUS
<1> USE DEF IInv, TypeOK, AnswersAreTrue
<1>1. ASSUME NEW r \in Requests, Insert(r) PROVE AnswersAreTrue'
  <2>1. /\ pc[r] = "clear" /\ pc' = [pc EXCEPT ![r] = "committed"]
        /\ row' = [row EXCEPT ![r] = "live"]
    BY <1>1, InsertCreates DEF Insert, EndTransaction
  <2>2. BuyOf[r] \in Owned
    BY <2>1 DEF StrangersNeverLock
  <2> QED BY <2>1, <2>2
<1>2. ASSUME NEW r \in Requests, FindExisting(r) PROVE AnswersAreTrue'
  <2>1. /\ pc[r] = "counted" /\ pc' = [pc EXCEPT ![r] = "exists"] /\ row' = row
    BY <1>2 DEF FindExisting, EndTransaction
  <2>2. PICK q \in Requests : row[q] # "none" /\ BuyOf[q] = BuyOf[r]
    BY <1>2 DEF FindExisting, RowFor
  <2>3. q # r
    BY <2>1, <2>2
  <2> QED BY <2>1, <2>2, <2>3
<1>3. ASSUME NEW r \in Requests,
             CheckEntitlement(r) \/ TakeLock(r) \/ CountRefuse(r) \/ CountPass(r) \/ FindNone(r)
      PROVE  AnswersAreTrue'
  BY <1>3 DEF CheckEntitlement, TakeLock, CountRefuse, CountPass, FindNone, EndTransaction
<1>4. ASSUME NEW r \in Requests, Abort(r) PROVE AnswersAreTrue'
  BY <1>4 DEF Abort, EndTransaction
<1>5. ASSUME NEW r \in Requests, Destroy(r) PROVE AnswersAreTrue'
  BY <1>5 DEF Destroy
<1>6. ASSUME NEW r \in Requests, Confirm(r) \/ LoseAnswer(r) PROVE AnswersAreTrue'
  BY <1>6 DEF Confirm, LoseAnswer, RowsWereCreated
<1>7. CASE UNCHANGED vars
  BY <1>7 DEF vars
<1> QED BY <1>1, <1>2, <1>3, <1>4, <1>5, <1>6, <1>7 DEF Next, Create

\* Whatever interleaves and is lost, no answer contradicts the table: a row without
\* a created answer has one on its way or lost.
THEOREM AnswersStayTrue == Spec => []AnswersAreTrue
BY AnswersInit, AnswersStep, InvAlways, PTL DEF Spec

\* The creation lock is never held by a request that has been answered.
THEOREM LockIsNeverLeft == Spec => []LockHasItsHolder
<1>1. IInv => LockHasItsHolder
  BY DEF IInv, TypeOK, LockDiscipline, LockHasItsHolder
<1> QED BY <1>1, InvAlways, PTL
=============================================================================
