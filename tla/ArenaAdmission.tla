--------------------------- MODULE ArenaAdmission ---------------------------
(***************************************************************************)
(* EnvironmentsService.create, statement by statement, for any number of   *)
(* requests at once.  The transaction counts, looks for the buyer's row    *)
(* and inserts under one advisory lock; nothing in the schema backs the    *)
(* cap up, so the lock is all there is.  A row is named by the request     *)
(* that inserts it.  READ COMMITTED: each statement reads what is committed*)
(* when it runs, and the insert is seen at the commit that frees the lock. *)
(***************************************************************************)
EXTENDS Naturals, FiniteSets

CONSTANTS
    Requests,       \* calls of POST /arena/environments
    BuyOf,          \* the (user, listing) pair each call is for
    Owned,          \* the pairs with an entitling purchase
    MaxLive,        \* MAX_CONCURRENT_ENVIRONMENTS
    NoRequest

ASSUME RequestsAreFinite == IsFiniteSet(Requests)
ASSUME MaxLiveIsNat == MaxLive \in Nat
ASSUME NoRequestIsNone == NoRequest \notin Requests

VARIABLES
    row,    \* arena_environments: "live" stands for the four live statuses
    lock,   \* who holds pg_advisory_xact_lock(ARENA_CREATE_LOCK_KEY)
    pc      \* how far each request is, or how it was answered

vars == <<row, lock, pc>>

Buys == {BuyOf[r] : r \in Requests}
InTransaction == {"locked", "counted", "clear"}
Unwritten == {"start", "queued"} \cup InTransaction
Waiting == Unwritten \cup {"committed"}
Answers == {"created", "full", "exists", "duplicate", "forbidden", "error"}

TypeOK ==
    /\ row \in [Requests -> {"none", "live", "destroyed"}]
    /\ lock \in Requests \cup {NoRequest}
    /\ pc \in [Requests -> Waiting \cup Answers]

Init ==
    /\ row = [r \in Requests |-> "none"]
    /\ lock = NoRequest
    /\ pc = [r \in Requests |-> "start"]

LiveRows == {r \in Requests : row[r] = "live"}

\* One row per (user, listing), whatever its status: arena_env_user_listing_unique.
RowFor(buy) == \E r \in Requests : row[r] # "none" /\ BuyOf[r] = buy

\* A refusal that leaves its transaction open.
LeaveTransactionOpen(r, with) ==
    /\ pc' = [pc EXCEPT ![r] = with]
    /\ UNCHANGED lock

\* The transaction ends, and with it the lock.
EndTransaction(r, with) ==
    /\ pc' = [pc EXCEPT ![r] = with]
    /\ lock' = IF lock = r THEN NoRequest ELSE lock

\* assertOwnsListing, before anything about the arena is read or locked.
CheckEntitlement(r) ==
    /\ pc[r] = "start"
    /\ pc' = [pc EXCEPT ![r] = IF BuyOf[r] \in Owned THEN "queued" ELSE "forbidden"]
    /\ UNCHANGED <<row, lock>>

AnyoneMayEnter == TRUE
LockIsFree == lock = NoRequest

TakeLock(r) ==
    /\ pc[r] = "queued"
    /\ LockIsFree
    /\ lock' = r
    /\ pc' = [pc EXCEPT ![r] = "locked"]
    /\ UNCHANGED row

AtCapacity == Cardinality(LiveRows) >= MaxLive

CountRefuse(r) ==
    /\ pc[r] = "locked"
    /\ AtCapacity
    /\ EndTransaction(r, "full")
    /\ UNCHANGED row

CountPass(r) ==
    /\ pc[r] = "locked"
    /\ ~AtCapacity
    /\ pc' = [pc EXCEPT ![r] = "counted"]
    /\ UNCHANGED <<row, lock>>

FindExisting(r) ==
    /\ pc[r] = "counted"
    /\ RowFor(BuyOf[r])
    /\ EndTransaction(r, "exists")
    /\ UNCHANGED row

FindNone(r) ==
    /\ pc[r] = "counted"
    /\ ~RowFor(BuyOf[r])
    /\ pc' = [pc EXCEPT ![r] = "clear"]
    /\ UNCHANGED <<row, lock>>

\* The INSERT and the commit in the database, or the unique violation 23505 that
\* is turned into the same conflict as an existing row.
Insert(r) ==
    /\ pc[r] = "clear"
    /\ row' = IF RowFor(BuyOf[r]) THEN row ELSE [row EXCEPT ![r] = "live"]
    /\ EndTransaction(r, IF RowFor(BuyOf[r]) THEN "duplicate" ELSE "committed")

\* The commit's answer arrives, and with it the request's.
Confirm(r) ==
    /\ pc[r] = "committed"
    /\ pc' = [pc EXCEPT ![r] = "created"]
    /\ UNCHANGED <<row, lock>>

\* The connection or the process is lost: a transaction rolls back,
Abort(r) ==
    /\ pc[r] \in Unwritten
    /\ EndTransaction(r, "error")
    /\ UNCHANGED row

\* and what was committed, with its answer still on the way, stays.
LoseAnswer(r) ==
    /\ pc[r] = "committed"
    /\ pc' = [pc EXCEPT ![r] = "error"]
    /\ UNCHANGED <<row, lock>>

\* The reaper marks a row destroyed.
Destroy(r) ==
    /\ row[r] = "live"
    /\ row' = [row EXCEPT ![r] = "destroyed"]
    /\ UNCHANGED <<lock, pc>>

Create(r) ==
    \/ CheckEntitlement(r) \/ TakeLock(r)
    \/ CountRefuse(r) \/ CountPass(r)
    \/ FindExisting(r) \/ FindNone(r)
    \/ Insert(r) \/ Confirm(r)

Next == \E r \in Requests : Create(r) \/ Abort(r) \/ LoseAnswer(r) \/ Destroy(r)

Spec == Init /\ [][Next]_vars

\* Every request runs on: the lock is queued for by a finite number of
\* transactions, each of which takes it once.
FairSpec == Spec /\ \A r \in Requests : WF_vars(Create(r))

(***************************************************************************)
(* Properties                                                              *)
(***************************************************************************)

\* However the requests interleave, the table never holds more live rows than
\* the cap: the count is still true when the row it allowed is committed.
CapHolds == Cardinality(LiveRows) <= MaxLive

\* The lock already closes the duplicate race: of two requests of one buyer for
\* one scenario the second is told at the look-up, never by the constraint.
BackstopNeverFires == \A r \in Requests : pc[r] # "duplicate"

\* A caller who does not own the scenario never holds the lock that every other
\* buyer waits for, and learns nothing about the arena's capacity.
StrangersNeverLock ==
    \A r \in Requests : BuyOf[r] \notin Owned =>
        /\ lock # r
        /\ pc[r] \in {"start", "forbidden", "error"}

\* What a request was answered agrees with the table.  Created means a row of its
\* own, and a refusal that there is none; exists means a row of another request of
\* the buyer for the scenario.  That other one need not have been answered created:
\* a row may stand behind an error, when the answer to its commit was lost, and then
\* the buyer who tries again is told of an environment nobody was given.
AnswersAreTrue ==
    \A r \in Requests :
        /\ pc[r] = "created" => row[r] # "none"
        /\ row[r] # "none" => BuyOf[r] \in Owned /\ pc[r] \in {"committed", "created", "error"}
        /\ pc[r] = "exists" => \E q \in Requests \ {r} : BuyOf[q] = BuyOf[r] /\ row[q] # "none"
        /\ pc[r] = "forbidden" => BuyOf[r] \notin Owned

\* The lock is never left behind: who holds it is inside the transaction, and has a
\* commit or a refusal before it that frees it.
LockHasItsHolder == lock # NoRequest => pc[lock] \in InTransaction

\* Every request is answered: no path out of create leaves the lock behind.
EveryRequestIsAnswered == \A r \in Requests : <>(pc[r] \in Answers)

\* The statements in their interleavings implement one atomic admission.
Cap == INSTANCE ArenaCap WITH
          Places <- Requests,
          live <- LiveRows,
          admitted <- {r \in Requests : row[r] # "none"}

ImplementsCap == Cap!Spec
=============================================================================
