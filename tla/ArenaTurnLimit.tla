--------------------------- MODULE ArenaTurnLimit ---------------------------
(***************************************************************************)
(* TurnsService.submit, statement by statement, on a clock.  The limit of  *)
(* turns per hour is a count and an INSERT under one advisory lock for     *)
(* each environment.  created_at defaults to now(), which Postgres takes at*)
(* the start of the transaction, before the wait for the lock; the hour is *)
(* measured back from the clock after it.  A turn is named by the request  *)
(* that inserts it.  One clock stands for the API's and the database's.    *)
(*                                                                         *)
(* Each process of the API has one pool of connections to the database.  A *)
(* transaction keeps one to itself from BEGIN until its end is answered;   *)
(* a statement of its own, and a BEGIN, can be sent on any of the others.  *)
(***************************************************************************)
EXTENDS Naturals, FiniteSets

CONSTANTS
    Requests,     \* calls of POST /arena/environments/:id/turns
    Envs,         \* environments
    EnvOf,        \* the environment each call names
    Foreign,      \* calls whose caller does not own the environment
    Invalid,      \* calls whose design does not parse
    Brisk,        \* calls assumed never to stop where they are
    Keys,         \* numbers of advisory locks
    KeyOf,        \* hashtext(environment.id): two environments may share one
    Processes,    \* processes of the API
    ProcessOf,    \* where each call is served
    Connections,  \* the size of a process's pool: 10, postgres.js's default
    MaxTurns,     \* MAX_TURNS_PER_HOUR
    Hour,         \* ONE_HOUR_MS, in ticks of the clock
    MaxWait,      \* bound: the longest a transaction takes
    MaxTime,      \* bound: where the clock stops
    NoRequest

ASSUME RequestsAreFinite == IsFiniteSet(Requests) /\ EnvOf \in [Requests -> Envs]
ASSUME LocksAreNumbered == KeyOf \in [Envs -> Keys]
ASSUME ProcessesHavePools ==
    ProcessOf \in [Requests -> Processes] /\ Connections \in Nat \ {0}
ASSUME NumbersAssumption ==
    MaxTurns \in Nat /\ Hour \in Nat /\ MaxWait \in Nat /\ MaxTime \in Nat
ASSUME NoRequestIsNone == NoRequest \notin Requests

VARIABLES
    now,
    turn,        \* arena_turns.status as the limit reads it, "none" if no row
    createdAt,   \* arena_turns.created_at: when the transaction began
    lock,        \* who holds each advisory lock
    pc           \* how far each request is, or how it was answered

vars == <<now, turn, createdAt, lock, pc>>

InTransaction == {"queued", "locked", "counted"}
Unwritten == {"start", "found"} \cup InTransaction
Written == {"committed", "stored"}
Waiting == Unwritten \cup Written
Answers == {"submitted", "rejected", "limited", "notfound", "error"}

TypeOK ==
    /\ now \in Nat
    /\ turn \in [Requests -> {"none", "submitted", "rejected"}]
    /\ createdAt \in [Requests -> Nat]
    /\ lock \in [Keys -> Requests \cup {NoRequest}]
    /\ pc \in [Requests -> Waiting \cup Answers]

Init ==
    /\ now = 0
    /\ turn = [r \in Requests |-> "none"]
    /\ createdAt = [r \in Requests |-> 0]
    /\ lock = [k \in Keys |-> NoRequest]
    /\ pc = [r \in Requests |-> "start"]

Goto(r, where) == pc' = [pc EXCEPT ![r] = where]

Key(r) == KeyOf[EnvOf[r]]

\* The calls of a process whose transactions keep a connection.
Reserved(p) ==
    {r \in Requests : ProcessOf[r] = p /\ pc[r] \in InTransaction \cup {"committed"}}

HasConnection(r) == Cardinality(Reserved(ProcessOf[r])) < Connections

\* The transaction ends, and with it the lock.
Release(r) == lock' = [lock EXCEPT ![Key(r)] = IF @ = r THEN NoRequest ELSE @]

\* It rolls back, and its timestamp is nobody's.
RollBack(r) == Release(r) /\ createdAt' = [createdAt EXCEPT ![r] = 0]

\* The environment is looked up by id and owner together.
Lookup(r) ==
    /\ pc[r] = "start"
    /\ HasConnection(r)
    /\ Goto(r, IF r \in Foreign THEN "notfound" ELSE "found")
    /\ UNCHANGED <<now, turn, createdAt, lock>>

\* A design that does not parse is stored as rejected, outside the limit and
\* any transaction: the row is there as soon as the INSERT has run.
Reject(r) ==
    /\ pc[r] = "found" /\ r \in Invalid
    /\ HasConnection(r)
    /\ turn' = [turn EXCEPT ![r] = "rejected"]
    /\ createdAt' = [createdAt EXCEPT ![r] = now]
    /\ Goto(r, "stored")
    /\ UNCHANGED <<now, lock>>

\* BEGIN: the transaction's timestamp is taken here.
Begin(r) ==
    /\ pc[r] = "found" /\ r \notin Invalid
    /\ HasConnection(r)
    /\ createdAt' = [createdAt EXCEPT ![r] = now]
    /\ Goto(r, "queued")
    /\ UNCHANGED <<now, turn, lock>>

LockIsFree(r) == lock[Key(r)] = NoRequest

TakeLock(r) ==
    /\ pc[r] = "queued"
    /\ LockIsFree(r)
    /\ lock' = [lock EXCEPT ![Key(r)] = r]
    /\ Goto(r, "locked")
    /\ UNCHANGED <<now, turn, createdAt>>

SinceRejectedToo(e, when) ==
    {q \in Requests : EnvOf[q] = e /\ turn[q] # "none" /\ createdAt[q] + Hour >= when}

\* The rows the count sees: ne(status, 'rejected'), gte(createdAt, oneHourAgo).
Since(e, when) ==
    {q \in Requests : /\ EnvOf[q] = e
                      /\ turn[q] \notin {"none", "rejected"}
                      /\ createdAt[q] + Hour >= when}

OneTooMany(r) == Cardinality(Since(EnvOf[r], now)) > MaxTurns
OverLimit(r) == Cardinality(Since(EnvOf[r], now)) >= MaxTurns

CountPassFromPool(r) ==
    /\ pc[r] = "locked"
    /\ HasConnection(r)
    /\ ~OverLimit(r)
    /\ Goto(r, "counted")
    /\ UNCHANGED <<now, turn, createdAt, lock>>

\* oneHourAgo and the count that uses it: nothing that it counts is inserted
\* between the two, since the lock is held.  It runs on the transaction's own
\* connection.
CountPass(r) ==
    /\ pc[r] = "locked"
    /\ ~OverLimit(r)
    /\ Goto(r, "counted")
    /\ UNCHANGED <<now, turn, createdAt, lock>>

CountRefuse(r) ==
    /\ pc[r] = "locked"
    /\ OverLimit(r)
    /\ RollBack(r)
    /\ Goto(r, "limited")
    /\ UNCHANGED <<now, turn>>

\* The INSERT and the commit in the database.
Insert(r) ==
    /\ pc[r] = "counted"
    /\ turn' = [turn EXCEPT ![r] = "submitted"]
    /\ Release(r)
    /\ Goto(r, "committed")
    /\ UNCHANGED <<now, createdAt>>

\* The database's answer arrives, and with it the call's.
Answer(r) ==
    /\ \/ pc[r] = "committed" /\ Goto(r, "submitted")
       \/ pc[r] = "stored" /\ Goto(r, "rejected")
    /\ UNCHANGED <<now, turn, createdAt, lock>>

\* The connection or the process is lost: a transaction rolls back,
Abort(r) ==
    /\ pc[r] \in Unwritten
    /\ RollBack(r)
    /\ Goto(r, "error")
    /\ UNCHANGED <<now, turn>>

\* and what was committed, with its answer still on the way, stays.
LoseAnswer(r) ==
    /\ pc[r] \in Written
    /\ Goto(r, "error")
    /\ UNCHANGED <<now, turn, createdAt, lock>>

\* Time passes, but no transaction lasts longer than MaxWait.
Tick ==
    /\ now < MaxTime
    /\ \A r \in Requests : pc[r] \in InTransaction => now < createdAt[r] + MaxWait
    /\ now' = now + 1
    /\ UNCHANGED <<turn, createdAt, lock, pc>>

SubmitStep(r) ==
    \/ Lookup(r) \/ Reject(r)
    \/ Begin(r) \/ TakeLock(r) \/ CountPass(r) \/ CountRefuse(r) \/ Insert(r)
    \/ Answer(r)

Next == Tick \/ \E r \in Requests : SubmitStep(r) \/ Abort(r) \/ LoseAnswer(r)

Spec == Init /\ [][Next]_vars

\* Every other request may stop where it is, with a lock and a connection in its
\* hands.
FairSpec == Spec /\ \A r \in Brisk : WF_vars(SubmitStep(r))

(***************************************************************************)
(* Properties                                                              *)
(***************************************************************************)

\* In no period of Hour - MaxWait does an environment take more than MaxTurns
\* turns, by the times its rows carry, whatever the order in which concurrent
\* submits begin, queue and insert.
Accepted(e) == {q \in Requests : EnvOf[q] = e /\ turn[q] = "submitted"}

Within(e, from, len) ==
    {q \in Accepted(e) : from <= createdAt[q] /\ createdAt[q] <= from + len}

WindowHolds ==
    \A e \in Envs : \A r \in Accepted(e) :
        \A len \in 0 .. Hour :
            len + MaxWait <= Hour =>
                Cardinality(Within(e, createdAt[r], len)) <= MaxTurns

\* Rejected designs cost a buyer nothing: a submit is refused by the limit only
\* if MaxTurns designs of its environment were accepted.
RejectedIsFree ==
    \A r \in Requests :
        pc[r] = "limited" => Cardinality(Accepted(EnvOf[r])) >= MaxTurns

\* What a submit was answered agrees with its row, and with who may submit.  An
\* accepted or rejected turn is in the table, a limited or unfound one is not, and
\* no stranger's design is, whether it parses or not.  Only an error says nothing:
\* the row may be there with its answer lost, so that a submit sent again counts
\* twice.
AnswersAreTrue ==
    \A r \in Requests :
        /\ pc[r] \in {"submitted", "rejected"} => turn[r] = pc[r]
        /\ pc[r] \in {"limited", "notfound"} => turn[r] = "none"
        /\ turn[r] # "none" =>
              /\ r \notin Foreign
              /\ turn[r] = "rejected" <=> r \in Invalid
              /\ pc[r] \in Written \cup {turn[r], "error"}

\* A lock is never left behind: it is held by a submit to an environment of that
\* number which is still inside its transaction.
LocksHaveTheirHolders ==
    \A k \in Keys : lock[k] # NoRequest =>
        Key(lock[k]) = k /\ pc[lock[k]] \in {"locked", "counted"}

\* A submit in its transaction that waits for one that may have stopped.
HeldUp(r) == pc[r] = "queued" /\ lock[Key(r)] \in Requests \ Brisk

\* Its process has no connection left, each being kept by a submit that may have
\* stopped, or by one that waits for such a one.
Starved(r) ==
    /\ pc[r] \in {"start", "found"}
    /\ ~HasConnection(r)
    /\ \A q \in Reserved(ProcessOf[r]) : q \notin Brisk \/ HeldUp(q)

\* Whoever stops in the middle of a submit holds up nobody but those who need the
\* lock of that number, and, when there are as many of them as a process has
\* connections, the other calls of that process.  Everybody else is answered:
\* submits that wait for each other never stop all by themselves.
BriskAreAnswered ==
    \A r \in Brisk : <>(pc[r] \in Answers) \/ <>[](HeldUp(r) \/ Starved(r))
=============================================================================
