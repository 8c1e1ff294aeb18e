----------------------------- MODULE TutorThread -----------------------------
(***************************************************************************)
(* The tutor of one user: TutorService.postMessage await by await, and the *)
(* turn of the Python agent inside it.  Nothing here runs in a transaction *)
(* or under a lock, and the agent takes as long as its model does.  A post *)
(* stands for its two messages, the user's and the assistant's, which one  *)
(* INSERT stores with one created_at.                                      *)
(***************************************************************************)
EXTENDS Naturals, FiniteSets

CONSTANTS
    Posts,        \* calls of POST /tutor/:listingId/messages
    Listings,
    ListingOf,    \* the listing each post is about
    Unowned,      \* listings the user has no entitling purchase of
    Briefless,    \* listings without a tutor_brief
    LastPhase,    \* where "done" is in PHASES
    Limit,        \* TUTOR_DAILY_MESSAGE_LIMIT
    Day,          \* 24 hours, in ticks of the clock
    AtOnce,       \* bound: posts between the guard and their answer at once
    MaxTime,      \* bound: where the clock stops
    MaxFaults     \* bound: posts whose process is lost

ASSUME PostsAssumption == IsFiniteSet(Posts) /\ ListingOf \in [Posts -> Listings]
ASSUME NumbersAssumption ==
    /\ LastPhase \in Nat
    /\ Limit \in Nat /\ Day \in Nat /\ AtOnce \in Nat \ {0}
    /\ MaxTime \in Nat /\ MaxFaults \in Nat

\* A phase is its position in PHASES.
Phases == 0 .. LastPhase
First == 0

VARIABLES
    now,
    pc,          \* how far each post is, or how it was answered
    place,       \* its place in the order of inserts into tutor_messages, or 0
    createdAt,   \* tutor_messages.created_at
    phase,       \* tutor_threads.phase, First while there is no row
    given,       \* the phase each post has read
    history,     \* the posts in the history it has read
    result,      \* the phase the agent has answered it with
    faults

readVars == <<given, history>>
vars == <<now, pc, place, createdAt, phase, readVars, result, faults>>

Admitted == {"passed", "phased", "read", "answered"}
Ended == {"done", "limited", "refused", "failed", "lost"}

TypeOK ==
    /\ now \in Nat
    /\ pc \in [Posts -> {"idle", "saved"} \cup Admitted \cup Ended]
    /\ place \in [Posts -> Nat]
    /\ createdAt \in [Posts -> Nat]
    /\ phase \in [Listings -> Phases]
    /\ given \in [Posts -> Phases]
    /\ history \in [Posts -> SUBSET Posts]
    /\ result \in [Posts -> Phases]
    /\ faults \in Nat

Init ==
    /\ now = 0
    /\ pc = [p \in Posts |-> "idle"]
    /\ place = [p \in Posts |-> 0]
    /\ createdAt = [p \in Posts |-> 0]
    /\ phase = [l \in Listings |-> First]
    /\ given = [p \in Posts |-> First]
    /\ history = [p \in Posts |-> {}]
    /\ result = [p \in Posts |-> First]
    /\ faults = 0

Goto(p, where) == pc' = [pc EXCEPT ![p] = where]

Stored == {p \in Posts : place[p] > 0}
ThreadOf(l) == {p \in Stored : ListingOf[p] = l}
Running == {p \in Posts : pc[p] \in Admitted \cup {"saved"}}

(***************************************************************************)
(* assertOwnership and enforceCostGuard, which counts the user's messages  *)
(* of all listings.                                                        *)
(***************************************************************************)
RefuseUnowned(p) ==
    /\ pc[p] = "idle"
    /\ ListingOf[p] \in Unowned
    /\ Goto(p, "refused")
    /\ UNCHANGED <<now, place, createdAt, phase, readVars, result, faults>>

Recent(when) == {p \in Stored : createdAt[p] + Day > when}

OneTooMany == Cardinality(Recent(now)) > Limit
OverLimit == Cardinality(Recent(now)) >= Limit

GuardPass(p) ==
    /\ pc[p] = "idle"
    /\ ListingOf[p] \notin Unowned
    /\ Cardinality(Running) < AtOnce
    /\ ~OverLimit
    /\ Goto(p, "passed")
    /\ UNCHANGED <<now, place, createdAt, phase, readVars, result, faults>>

GuardRefuse(p) ==
    /\ pc[p] = "idle"
    /\ ListingOf[p] \notin Unowned
    /\ OverLimit
    /\ Goto(p, "limited")
    /\ UNCHANGED <<now, place, createdAt, phase, readVars, result, faults>>

(***************************************************************************)
(* The listing, then getThread: the phase, then the messages.              *)
(***************************************************************************)
RefuseBriefless(p) ==
    /\ pc[p] = "passed"
    /\ ListingOf[p] \in Briefless
    /\ Goto(p, "refused")
    /\ UNCHANGED <<now, place, createdAt, phase, readVars, result, faults>>

ReadPhase(p) ==
    /\ pc[p] = "passed"
    /\ ListingOf[p] \notin Briefless
    /\ given' = [given EXCEPT ![p] = phase[ListingOf[p]]]
    /\ Goto(p, "phased")
    /\ UNCHANGED <<now, place, createdAt, phase, history, result, faults>>

ReadMessages(p) ==
    /\ pc[p] = "phased"
    /\ history' = [history EXCEPT ![p] = ThreadOf(ListingOf[p])]
    /\ Goto(p, "read")
    /\ UNCHANGED <<now, place, createdAt, phase, given, result, faults>>

(***************************************************************************)
(* The agent's turn: the phase stays, or is any that the model names in a  *)
(* control line and that is valid.                                         *)
(***************************************************************************)
NextPhases(ph) == {ph} \cup Phases

AgentTurnUpserts(p) ==
    /\ pc[p] = "read"
    /\ \E ph \in NextPhases(given[p]) :
        /\ result' = [result EXCEPT ![p] = ph]
        /\ phase' = [phase EXCEPT ![ListingOf[p]] = ph]
    /\ Goto(p, "answered")
    /\ UNCHANGED <<now, place, createdAt, readVars, faults>>

AgentTurn(p) ==
    /\ pc[p] = "read"
    /\ \E ph \in NextPhases(given[p]) : result' = [result EXCEPT ![p] = ph]
    /\ Goto(p, "answered")
    /\ UNCHANGED <<now, place, createdAt, phase, readVars, faults>>

\* Unreachable, or its answer is not ok: a 502, and nothing is stored.
AgentFails(p) ==
    /\ pc[p] = "read"
    /\ Goto(p, "failed")
    /\ UNCHANGED <<now, place, createdAt, phase, readVars, result, faults>>

(***************************************************************************)
(* What postMessage writes.                                                *)
(***************************************************************************)
InsertMessages(p) ==
    /\ pc[p] = "answered"
    /\ place' = [place EXCEPT ![p] = Cardinality(Stored) + 1]
    /\ createdAt' = [createdAt EXCEPT ![p] = now]
    /\ Goto(p, "saved")
    /\ UNCHANGED <<now, phase, readVars, result, faults>>

UpsertPhase(p) ==
    /\ pc[p] = "saved"
    /\ phase' = [phase EXCEPT ![ListingOf[p]] = result[p]]
    /\ Goto(p, "done")
    /\ UNCHANGED <<now, place, createdAt, readVars, result, faults>>

\* The process is lost, or a query fails: a 500 or no answer.
Lost(p) ==
    /\ p \in Running
    /\ faults < MaxFaults
    /\ faults' = faults + 1
    /\ Goto(p, "lost")
    /\ UNCHANGED <<now, place, createdAt, phase, readVars, result>>

Tick ==
    /\ now < MaxTime
    /\ now' = now + 1
    /\ UNCHANGED <<pc, place, createdAt, phase, readVars, result, faults>>

PostMessage(p) ==
    \/ RefuseUnowned(p) \/ GuardPass(p) \/ GuardRefuse(p)
    \/ RefuseBriefless(p) \/ ReadPhase(p) \/ ReadMessages(p)
    \/ AgentTurn(p) \/ AgentFails(p)
    \/ InsertMessages(p) \/ UpsertPhase(p)

Next == Tick \/ \E p \in Posts : PostMessage(p) \/ Lost(p)

Spec == Init /\ [][Next]_vars

(***************************************************************************)
(* Properties                                                              *)
(***************************************************************************)
\* The posts stored in the day that begins with p's.
DayFrom(p) ==
    {q \in Stored : createdAt[p] <= createdAt[q] /\ createdAt[q] < createdAt[p] + Day}

\* The guard counts before the agent's turn and the messages are stored after
\* it, with no lock in between: yet no day holds more than Limit messages and
\* one for each other post that ran at the same time.
OvershootIsBounded ==
    \A p \in Stored : Cardinality(DayFrom(p)) < Limit + AtOnce

\* The agent is never told of a phase without the messages that led to it:
\* messages are written before the phase and read after it, whatever posts
\* overlap and wherever one is lost.
PhaseHasItsHistory ==
    \A p \in Posts :
        pc[p] \in {"read", "answered", "saved", "done"} =>
            \/ given[p] = First
            \/ \E q \in history[p] : result[q] = given[p]

\* With posts one after another (AtOnce = 1) no phase is lost: the phase that a post
\* replaces is the one it has read.  Posts that overlap can overwrite each other's.
PhaseIsAsRead ==
    \A p \in Posts :
        pc[p] \in {"phased", "read", "answered", "saved"} => phase[ListingOf[p]] = given[p]

\* With posts one after another (AtOnce = 1) no day holds more than Limit:
\* 2026-07-17-ai-tutor-design.md:116, "rolling-24h count of the user's" messages.
DailyLimitHolds == \A p \in Stored : Cardinality(DayFrom(p)) <= Limit
=============================================================================
