-------------------------- MODULE TutorThreadProofs --------------------------
(***************************************************************************)
(* What holds of the tutor for every number of posts, every limit and every*)
(* number of posts at once.                                                *)
(***************************************************************************)
EXTENDS TutorThread, FiniteSetTheorems, TLAPS

USE PostsAssumption, NumbersAssumption

(***************************************************************************)
(* The inductive invariant.  A post that has passed the guard is charged to*)
(* the day from then on, stored or not: Charged never holds more than the  *)
(* guard has let through.                                                  *)
(***************************************************************************)
Charged == Recent(now) \cup {p \in Posts : pc[p] \in Admitted}

Places ==
    \A p \in Posts :
        /\ pc[p] \in {"idle"} \cup Admitted => place[p] = 0
        /\ pc[p] \in {"saved", "done"} => place[p] > 0
        /\ createdAt[p] <= now

Budget == Cardinality(Charged) < Limit + AtOnce

ComesFrom(ph, S) == ph = First \/ \E q \in S : result[q] = ph

PhaseFromThread == \A l \in Listings : ComesFrom(phase[l], ThreadOf(l))

Informed == {"read", "answered", "saved", "done"}

GivenOf(p) ==
    /\ history[p] \subseteq Stored
    /\ pc[p] = "phased" => ComesFrom(given[p], ThreadOf(ListingOf[p]))
    /\ pc[p] \in Informed => ComesFrom(given[p], history[p])

GivenFromThread == \A p \in Posts : GivenOf(p)

IInv ==
    /\ TypeOK
    /\ Places
    /\ Budget
    /\ OvershootIsBounded
    /\ PhaseFromThread
    /\ GivenFromThread

LEMMA SubsetsAreFinite ==
  ASSUME NEW S \in SUBSET Posts
  PROVE  IsFiniteSet(S) /\ Cardinality(S) \in Nat
BY FS_Subset, FS_CardinalityType

LEMMA Smaller ==
  ASSUME NEW S \in SUBSET Posts, NEW T \in SUBSET S
  PROVE  Cardinality(T) <= Cardinality(S)
BY SubsetsAreFinite, FS_Subset

LEMMA FewerStay ==
  ASSUME NEW S \in SUBSET Posts, NEW T \in SUBSET S, Cardinality(S) < Limit + AtOnce
  PROVE  Cardinality(T) < Limit + AtOnce
<1>1. Cardinality(T) <= Cardinality(S)
  BY Smaller
<1>2. T \in SUBSET Posts
  OBVIOUS
<1> QED BY <1>1, <1>2, SubsetsAreFinite

LEMMA InvInit == Init => IInv
<1> SUFFICES ASSUME Init PROVE IInv
  OBVIOUS
<1>1. Stored = {} /\ Charged = {}
  BY DEF Init, Stored, Charged, Recent, Admitted
<1>2. Budget /\ OvershootIsBounded
  BY <1>1, FS_EmptySet DEF Budget, OvershootIsBounded
<1>3. TypeOK /\ Places
  BY DEF Init, TypeOK, Places, Phases, First, Admitted
<1>4. PhaseFromThread /\ GivenFromThread
  BY DEF Init, PhaseFromThread, GivenFromThread, GivenOf, Informed, ComesFrom
<1> QED BY <1>1, <1>2, <1>3, <1>4 DEF IInv

(***************************************************************************)
(* The steps that store nothing.                                           *)
(***************************************************************************)
Quiet ==
    \/ Tick
    \/ \E p \in Posts :
          \/ RefuseUnowned(p) \/ GuardPass(p) \/ GuardRefuse(p) \/ RefuseBriefless(p)
          \/ ReadPhase(p) \/ ReadMessages(p) \/ AgentTurn(p) \/ AgentFails(p)
          \/ UpsertPhase(p) \/ Lost(p)

LEMMA QuietTypes ==
  ASSUME IInv, Quiet
  PROVE  TypeOK' /\ Places'
<1> USE DEF IInv, TypeOK, Places, Goto, readVars
<1>1. CASE Tick
  BY <1>1 DEF Tick
<1>2. ASSUME NEW p \in Posts, RefuseUnowned(p) \/ GuardPass(p) \/ GuardRefuse(p)
                                \/ RefuseBriefless(p) \/ AgentFails(p)
      PROVE  TypeOK' /\ Places'
  BY <1>2 DEF RefuseUnowned, GuardPass, GuardRefuse, RefuseBriefless, AgentFails, Admitted, Ended
<1>3. ASSUME NEW p \in Posts, ReadPhase(p) \/ ReadMessages(p) \/ AgentTurn(p)
      PROVE  TypeOK' /\ Places'
  BY <1>3 DEF ReadPhase, ReadMessages, AgentTurn, NextPhases, Admitted, Ended, ThreadOf, Stored
<1>4. ASSUME NEW p \in Posts, UpsertPhase(p) \/ Lost(p)
      PROVE  TypeOK' /\ Places'
  BY <1>4 DEF UpsertPhase, Lost, Running, Admitted, Ended
<1> QED BY <1>1, <1>2, <1>3, <1>4 DEF Quiet

LEMMA QuietStores ==
  ASSUME IInv, Quiet
  PROVE  /\ Stored' = Stored
         /\ \A l : ThreadOf(l)' = ThreadOf(l)
         /\ \A p : DayFrom(p)' = DayFrom(p)
         /\ Recent(now)' \subseteq Recent(now)
         /\ \A q \in Stored : result'[q] = result[q]
<1> USE DEF Quiet, RefuseUnowned, GuardPass, GuardRefuse, RefuseBriefless, ReadPhase,
        ReadMessages, AgentTurn, AgentFails, UpsertPhase, Lost, Tick, readVars
<1>1. place' = place /\ createdAt' = createdAt /\ now' \in {now, now + 1}
  OBVIOUS
<1>2. \A q \in Posts : place[q] > 0 => result'[q] = result[q]
  BY DEF IInv, TypeOK, Places, Admitted
<1>3. now \in Nat /\ createdAt \in [Posts -> Nat]
  BY DEF IInv, TypeOK
<1> HIDE DEF Quiet
<1> QED BY <1>1, <1>2, <1>3 DEF Stored, ThreadOf, DayFrom, Recent

LEMMA QuietBudget ==
  ASSUME IInv, Quiet
  PROVE  Budget'
<1>s. Charged \in SUBSET Posts /\ Running \in SUBSET Posts /\ Recent(now) \in SUBSET Posts
  BY DEF Charged, Recent, Running, Stored
<1>b. Cardinality(Charged) < Limit + AtOnce
  BY DEF IInv, Budget
<1>1. ASSUME NEW p \in Posts, GuardPass(p) PROVE Budget'
  <2>1. Charged' \in SUBSET (Recent(now) \cup Running \cup {p})
    BY <1>1, QuietStores DEF IInv, TypeOK, Charged, GuardPass, Goto, Running
  <2>2. Cardinality(Recent(now)) < Limit /\ Cardinality(Running) < AtOnce
    BY <1>s, <1>1, SubsetsAreFinite DEF GuardPass, OverLimit
  <2>3. Cardinality(Recent(now) \cup Running) <= Cardinality(Recent(now)) + Cardinality(Running)
    <3>1. IsFiniteSet(Recent(now)) /\ IsFiniteSet(Running)
      BY <1>s, SubsetsAreFinite
    <3>2. /\ Cardinality(Recent(now) \cup Running) =
                 Cardinality(Recent(now)) + Cardinality(Running)
                     - Cardinality(Recent(now) \cap Running)
          /\ Recent(now) \cap Running \in SUBSET Posts
      BY <1>s, <3>1, FS_Union
    <3>3. Cardinality(Recent(now) \cap Running) \in Nat
      BY <3>2, SubsetsAreFinite
    <3> QED BY <1>s, <3>2, <3>3, SubsetsAreFinite
  <2>4. Cardinality(Recent(now) \cup Running \cup {p}) <= Cardinality(Recent(now) \cup Running) + 1
    <3>1. Recent(now) \cup Running \in SUBSET Posts
      BY <1>s
    <3>2. /\ IsFiniteSet(Recent(now) \cup Running)
          /\ Cardinality(Recent(now) \cup Running) \in Nat
      BY <3>1, SubsetsAreFinite
    <3> DEFINE S == Recent(now) \cup Running
    <3>3. Cardinality(S \cup {p}) = IF p \in S THEN Cardinality(S) ELSE Cardinality(S) + 1
      BY <3>2, FS_AddElement
    <3>4. Cardinality(S) \in Nat
      BY <3>2
    <3> HIDE DEF S
    <3>5. Cardinality(S \cup {p}) <= Cardinality(S) + 1
      BY <3>3, <3>4
    <3> QED BY <3>5 DEF S
  <2>5. Recent(now) \cup Running \cup {p} \in SUBSET Posts
    BY <1>s
  <2>6. Cardinality(Recent(now) \cup Running \cup {p}) < Limit + AtOnce
    <3>1. Recent(now) \cup Running \in SUBSET Posts
      BY <1>s
    <3> QED BY <1>s, <2>2, <2>3, <2>4, <2>5, <3>1, SubsetsAreFinite
  <2>7. Cardinality(Charged') < Limit + AtOnce
    BY <2>1, <2>5, <2>6, FewerStay
  <2> QED BY <2>7 DEF Budget
<1>2. CASE ~\E p \in Posts : GuardPass(p)
  <2>1. \A q \in Posts : pc'[q] \in Admitted => pc[q] \in Admitted
    BY <1>2 DEF IInv, TypeOK, Quiet, RefuseUnowned, GuardRefuse, RefuseBriefless, ReadPhase,
       ReadMessages, AgentTurn, AgentFails, UpsertPhase, Lost, Tick, Goto, Admitted
  <2>2. Charged' \in SUBSET Charged
    BY <2>1, QuietStores DEF Charged
  <2>3. Cardinality(Charged') < Limit + AtOnce
    BY <1>s, <1>b, <2>2, FewerStay
  <2> QED BY <2>3 DEF Budget
<1> QED BY <1>1, <1>2

LEMMA QuietPhases ==
  ASSUME IInv, Quiet
  PROVE  PhaseFromThread' /\ GivenFromThread'
<1>t. TypeOK /\ Places /\ PhaseFromThread /\ GivenFromThread
  BY DEF IInv
<1>1. \A ph, S : S \subseteq Stored /\ ComesFrom(ph, S)
                    => ph = First \/ \E q \in S : result'[q] = ph
  BY QuietStores DEF ComesFrom
<1>2. \A l : ThreadOf(l) \subseteq Stored /\ ThreadOf(l)' = ThreadOf(l)
  BY QuietStores DEF ThreadOf
<1>3. PhaseFromThread'
  <2>1. CASE phase' = phase
    BY <2>1, <1>t, <1>1, <1>2 DEF PhaseFromThread, ComesFrom
  <2>2. ASSUME NEW p \in Posts, UpsertPhase(p) PROVE PhaseFromThread'
    <3>1. p \in ThreadOf(ListingOf[p]) /\ result' = result
      BY <2>2, <1>t DEF UpsertPhase, Places, ThreadOf, Stored
    <3>2. \A l \in Listings : phase'[l] = IF l = ListingOf[p] THEN result[p] ELSE phase[l]
      BY <2>2, <1>t DEF UpsertPhase, TypeOK
    <3> QED BY <3>1, <3>2, <1>t, <1>1, <1>2 DEF PhaseFromThread, ComesFrom
  <2> QED BY <2>1, <2>2 DEF Quiet, Tick, RefuseUnowned, GuardPass, GuardRefuse, RefuseBriefless,
          ReadPhase, ReadMessages, AgentTurn, AgentFails, Lost, readVars
<1>4. ASSUME NEW q \in Posts,
             given'[q] = given[q], history'[q] = history[q],
             pc'[q] = "phased" => pc[q] = "phased",
             pc'[q] \in Informed => pc[q] \in Informed
      PROVE  GivenOf(q)'
  <2>1. GivenOf(q) /\ Stored' = Stored
    BY <1>t, QuietStores DEF GivenFromThread
  <2>2. history[q] \subseteq Stored
    BY <2>1 DEF GivenOf
  <2>3. CASE pc[q] = "phased"
    <3>1. ComesFrom(given[q], ThreadOf(ListingOf[q]))
      BY <2>1, <2>3 DEF GivenOf
    <3>2. given[q] = First \/ \E r \in ThreadOf(ListingOf[q]) : result'[r] = given[q]
      BY <3>1, <1>1, <1>2
    <3>3. pc'[q] \notin Informed
      BY <2>3, <1>4 DEF Informed
    <3> QED BY <1>4, <2>1, <2>2, <3>2, <3>3, <1>2 DEF GivenOf, ComesFrom
  <2>4. CASE pc[q] \in Informed
    <3>1. ComesFrom(given[q], history[q])
      BY <2>1, <2>4 DEF GivenOf
    <3>2. given[q] = First \/ \E r \in history[q] : result'[r] = given[q]
      BY <3>1, <1>1, <2>2
    <3>3. pc'[q] # "phased"
      BY <2>4, <1>4 DEF Informed
    <3> QED BY <1>4, <2>1, <2>2, <3>2, <3>3 DEF GivenOf, ComesFrom
  <2>5. CASE pc[q] # "phased" /\ pc[q] \notin Informed
    BY <1>4, <2>1, <2>2, <2>5 DEF GivenOf
  <2> QED BY <2>3, <2>4, <2>5
<1>5. ASSUME NEW p \in Posts, ReadPhase(p) PROVE GivenFromThread'
  <2>1. \A q \in Posts : q # p => given'[q] = given[q] /\ history'[q] = history[q] /\ pc'[q] = pc[q]
    BY <1>5, <1>t DEF ReadPhase, Goto, TypeOK
  <2>2. given'[p] = phase[ListingOf[p]] /\ history'[p] = history[p] /\ pc'[p] = "phased"
    BY <1>5, <1>t DEF ReadPhase, Goto, TypeOK
  <2>3. GivenOf(p)'
    <3>1. ComesFrom(phase[ListingOf[p]], ThreadOf(ListingOf[p])) /\ history[p] \subseteq Stored
      BY <1>t DEF PhaseFromThread, GivenFromThread, GivenOf
    <3> QED BY <2>2, <3>1, <1>1, <1>2, QuietStores DEF GivenOf, ComesFrom, Informed
  <2> QED BY <2>1, <2>3, <1>4 DEF GivenFromThread
<1>6. ASSUME NEW p \in Posts, ReadMessages(p) PROVE GivenFromThread'
  <2>1. \A q \in Posts : q # p => given'[q] = given[q] /\ history'[q] = history[q] /\ pc'[q] = pc[q]
    BY <1>6, <1>t DEF ReadMessages, Goto, TypeOK
  <2>2. /\ given'[p] = given[p] /\ history'[p] = ThreadOf(ListingOf[p])
        /\ pc[p] = "phased" /\ pc'[p] = "read"
    BY <1>6, <1>t DEF ReadMessages, Goto, TypeOK
  <2>3. GivenOf(p)'
    <3>1. ComesFrom(given[p], ThreadOf(ListingOf[p]))
      BY <2>2, <1>t DEF GivenFromThread, GivenOf
    <3> QED BY <2>2, <3>1, <1>1, <1>2, QuietStores DEF GivenOf, ComesFrom
  <2> QED BY <2>1, <2>3, <1>4 DEF GivenFromThread
<1>7. ASSUME ~\E p \in Posts : ReadPhase(p) \/ ReadMessages(p)
      PROVE  GivenFromThread'
  <2>1. given' = given /\ history' = history
    BY <1>7 DEF Quiet, Tick, RefuseUnowned, GuardPass, GuardRefuse, RefuseBriefless, AgentTurn,
       AgentFails, UpsertPhase, Lost, readVars
  <2>2. \A q \in Posts : /\ pc'[q] = "phased" => pc[q] = "phased"
                         /\ pc'[q] \in Informed => pc[q] \in Informed
    BY <1>7, <1>t DEF Quiet, Tick, RefuseUnowned, GuardPass, GuardRefuse, RefuseBriefless,
       AgentTurn, AgentFails, UpsertPhase, Lost, Goto, TypeOK, Informed
  <2> QED BY <2>1, <2>2, <1>4 DEF GivenFromThread
<1>8. GivenFromThread'
  <2>1. (\E p \in Posts : ReadPhase(p)) => GivenFromThread'
    BY <1>5
  <2>2. (\E p \in Posts : ReadMessages(p)) => GivenFromThread'
    BY <1>6
  <2> QED BY <2>1, <2>2, <1>7
<1> QED BY <1>3, <1>8

LEMMA QuietStep ==
  ASSUME IInv, Quiet
  PROVE  IInv'
<1>1. OvershootIsBounded'
  BY QuietStores DEF IInv, OvershootIsBounded
<1> QED BY <1>1, QuietTypes, QuietBudget, QuietPhases DEF IInv

(***************************************************************************)
(* The step that stores a post.  It was charged before, so nothing new is; *)
(* and a day that holds it holds no post that is not charged.              *)
(***************************************************************************)
LEMMA InsertStep ==
  ASSUME IInv, NEW p \in Posts, InsertMessages(p)
  PROVE  IInv'
<1>t. TypeOK /\ Places /\ PhaseFromThread /\ GivenFromThread
  BY DEF IInv
<1>n. Cardinality(Stored) \in Nat
  BY SubsetsAreFinite DEF Stored
<1>1. /\ now' = now /\ phase' = phase /\ given' = given /\ history' = history
      /\ result' = result /\ faults' = faults
      /\ pc[p] = "answered" /\ place[p] = 0
      /\ pc' = [pc EXCEPT ![p] = "saved"]
      /\ place' = [place EXCEPT ![p] = Cardinality(Stored) + 1]
      /\ createdAt' = [createdAt EXCEPT ![p] = now]
  BY <1>t DEF InsertMessages, Goto, readVars, Places, Admitted
<1>2. TypeOK'
  BY <1>1, <1>t, <1>n DEF TypeOK
<1>3. Places'
  BY <1>1, <1>t, <1>n DEF TypeOK, Places, Admitted
<1>4. Stored' = Stored \cup {p} /\ p \notin Stored
  <2>1. \A q \in Posts : place'[q] = IF q = p THEN Cardinality(Stored) + 1 ELSE place[q]
    BY <1>1, <1>t DEF TypeOK
  <2>2. place'[p] > 0 /\ ~(place[p] > 0)
    BY <2>1, <1>1, <1>n
  <2>3. Stored' = {q \in Posts : place'[q] > 0}
    BY DEF Stored
  <2> QED BY <2>1, <2>2, <2>3 DEF Stored
<1>5. \A l : ThreadOf(l) \subseteq ThreadOf(l)'
  BY <1>4 DEF ThreadOf
<1>6. \A q \in Posts : q # p => createdAt'[q] = createdAt[q] /\ pc'[q] = pc[q]
  BY <1>1, <1>t DEF TypeOK
<1>7. createdAt'[p] = now /\ pc'[p] = "saved"
  BY <1>1, <1>t DEF TypeOK
<1>8. Charged' \in SUBSET Charged
  <2>1. p \in Charged
    BY <1>1 DEF Charged, Admitted
  <2>2. \A q \in Charged' : q # p => q \in Charged
    BY <1>1, <1>4, <1>6 DEF Charged, Recent
  <2> QED BY <2>1, <2>2
<1>9. Charged \in SUBSET Posts /\ Cardinality(Charged) < Limit + AtOnce
  BY DEF IInv, Budget, Charged, Recent, Stored
<1>10. Budget'
  <2>1. Cardinality(Charged') < Limit + AtOnce
    BY <1>8, <1>9, FewerStay
  <2> QED BY <2>1 DEF Budget
<1>11. OvershootIsBounded'
  <2> SUFFICES ASSUME NEW q \in Stored'
               PROVE  Cardinality(DayFrom(q)') < Limit + AtOnce
    BY DEF OvershootIsBounded
  <2>1. createdAt \in [Posts -> Nat] /\ createdAt' \in [Posts -> Nat] /\ now \in Nat
    BY <1>t, <1>2 DEF TypeOK
  <2>2. Stored \subseteq Posts
    BY DEF Stored
  <2>3. CASE p \in DayFrom(q)'
    <3>1. now < createdAt'[q] + Day
      BY <2>3, <1>7 DEF DayFrom
    <3>2. ASSUME NEW r \in DayFrom(q)', r # p PROVE r \in Recent(now)
      <4>1. r \in Stored /\ createdAt'[r] = createdAt[r] /\ createdAt'[q] <= createdAt'[r]
        BY <3>2, <1>4, <1>6, <2>2 DEF DayFrom
      <4>2. createdAt[r] \in Nat /\ createdAt'[q] \in Nat
        BY <4>1, <2>1, <2>2, <1>4
      <4>3. createdAt[r] + Day > now
        BY <3>1, <4>1, <4>2, <2>1
      <4> QED BY <4>1, <4>3 DEF Recent
    <3>3. DayFrom(q)' \in SUBSET Charged
      BY <3>2, <1>1 DEF Charged, Admitted
    <3> QED BY <3>3, <1>9, FewerStay
  <2>4. CASE p \notin DayFrom(q)'
    <3>1. q # p => q \in Stored /\ DayFrom(q)' = DayFrom(q)
      BY <2>4, <1>4, <1>6, <2>2 DEF DayFrom
    <3>2. CASE q # p
      BY <3>1, <3>2 DEF IInv, OvershootIsBounded
    <3>3. CASE q = p
      \* a day of no length
      <4>1. Day = 0
        BY <2>4, <3>3, <2>1, <1>4, <1>7 DEF DayFrom
      <4>2. DayFrom(q)' = {}
        BY <4>1, <2>1, <2>2, <1>4 DEF DayFrom
      <4> QED BY <4>2, FS_EmptySet
    <3> QED BY <3>2, <3>3
  <2> QED BY <2>3, <2>4
<1>12. PhaseFromThread'
  BY <1>1, <1>5, <1>t DEF PhaseFromThread, ComesFrom
<1>13. GivenFromThread'
  <2>1. \A q \in Posts : /\ pc'[q] = "phased" => pc[q] = "phased"
                         /\ pc'[q] \in Informed => pc[q] \in Informed
    BY <1>1, <1>6, <1>7 DEF Informed
  <2> QED BY <2>1, <1>1, <1>4, <1>5, <1>t DEF GivenFromThread, GivenOf, ComesFrom
<1> QED BY <1>2, <1>3, <1>10, <1>11, <1>12, <1>13 DEF IInv

LEMMA InvStep == IInv /\ [Next]_vars => IInv'
<1> SUFFICES ASSUME IInv, [Next]_vars PROVE IInv'
  OBVIOUS
<1>1. CASE UNCHANGED vars
  BY <1>1 DEF IInv, vars, readVars, TypeOK, Places, Budget, Charged, Recent, OvershootIsBounded,
     DayFrom, PhaseFromThread, GivenFromThread, GivenOf, ComesFrom, ThreadOf, Stored
<1>2. CASE Next
  <2>1. Quiet \/ \E p \in Posts : InsertMessages(p)
    BY <1>2 DEF Next, PostMessage, Quiet
  <2> QED BY <2>1, QuietStep, InsertStep
<1> QED BY <1>1, <1>2

LEMMA InvAlways == Spec => []IInv
BY InvInit, InvStep, PTL DEF Spec

(***************************************************************************)
(* The theorems                                                            *)
(***************************************************************************)
\* Every variable keeps its type: a thread's phase, above all, is always one
\* of PHASES, whatever the model writes in its control line.
THEOREM TypeCorrect == Spec => []TypeOK
<1>1. IInv => TypeOK
  BY DEF IInv
<1> QED BY <1>1, InvAlways, PTL

\* The daily limit of the cost guard is overshot by less than the number of
\* posts that run at once.
THEOREM OvershootAlwaysBounded == Spec => []OvershootIsBounded
<1>1. IInv => OvershootIsBounded
  BY DEF IInv
<1> QED BY <1>1, InvAlways, PTL

\* Posts that do not overlap are held to the limit exactly.
THEOREM SerialPostsAreLimited == AtOnce = 1 /\ Spec => []DailyLimitHolds
<1>1. AtOnce = 1 /\ IInv => DailyLimitHolds
  <2> SUFFICES ASSUME AtOnce = 1, IInv, NEW p \in Stored
               PROVE  Cardinality(DayFrom(p)) <= Limit
    BY DEF DailyLimitHolds
  <2>1. Cardinality(DayFrom(p)) < Limit + 1
    BY DEF IInv, OvershootIsBounded
  <2>2. DayFrom(p) \in SUBSET Posts
    BY DEF DayFrom, Stored
  <2> QED BY <2>1, <2>2, SubsetsAreFinite
<1>2. CASE AtOnce = 1
  <2>1. IInv => DailyLimitHolds
    BY <1>1, <1>2
  <2> QED BY <2>1, InvAlways, PTL
<1>3. CASE AtOnce # 1
  BY <1>3
<1> QED BY <1>2, <1>3

\* The agent is never given a phase without the messages that led to it.
THEOREM PhaseAlwaysHasItsHistory == Spec => []PhaseHasItsHistory
<1>1. IInv => PhaseHasItsHistory
  BY DEF IInv, GivenFromThread, GivenOf, ComesFrom, Informed, PhaseHasItsHistory
<1> QED BY <1>1, InvAlways, PTL

(***************************************************************************)
(* Posts one after another, and the phase that each of them replaces.      *)
(***************************************************************************)
OnlyOneRuns == \A p, q \in Running : p = q

SerialInv == OnlyOneRuns /\ PhaseIsAsRead

LEMMA SerialInit == Init => SerialInv
BY DEF Init, SerialInv, OnlyOneRuns, Running, Admitted, PhaseIsAsRead

LEMMA NobodyRuns ==
  ASSUME AtOnce = 1, NEW p \in Posts, GuardPass(p) PROVE Running = {}
<1>1. Running \in SUBSET Posts
  BY DEF Running
<1>2. Cardinality(Running) = 0
  BY <1>1, SubsetsAreFinite DEF GuardPass
<1> QED BY <1>1, <1>2, SubsetsAreFinite, FS_EmptySet

LEMMA SerialStep == AtOnce = 1 /\ IInv /\ SerialInv /\ [Next]_vars => SerialInv'
<1> SUFFICES ASSUME AtOnce = 1, IInv, SerialInv, [Next]_vars PROVE SerialInv'
  OBVIOUS
<1> USE DEF IInv, TypeOK, SerialInv, OnlyOneRuns, PhaseIsAsRead, Admitted, Goto, readVars
<1>1. ASSUME NEW p \in Posts, GuardPass(p) PROVE SerialInv'
  <2>1. Running' = {p}
    BY <1>1, NobodyRuns DEF GuardPass, Running
  <2> QED BY <1>1, <2>1 DEF GuardPass
<1>2. ASSUME NEW p \in Posts, Running' \subseteq Running, UNCHANGED <<phase, given>>,
             \/ UNCHANGED pc
             \/ \E where \in {"answered", "saved"} :
                   pc[p] \in {"read", "answered"} /\ Goto(p, where)
             \/ \E where \in {"limited", "refused", "failed", "lost"} : Goto(p, where)
             \/ pc[p] = "phased" /\ Goto(p, "read")
      PROVE  SerialInv'
  BY <1>2
<1>3. ASSUME NEW p \in Posts, RefuseUnowned(p) \/ GuardRefuse(p) \/ RefuseBriefless(p)
             \/ AgentFails(p) \/ Lost(p) \/ ReadMessages(p) \/ AgentTurn(p)
             \/ InsertMessages(p)
      PROVE  SerialInv'
  <2>1. Running' \subseteq Running
    BY <1>3 DEF Running, RefuseUnowned, GuardRefuse, RefuseBriefless, AgentFails, Lost,
                ReadMessages, AgentTurn, InsertMessages
  <2> QED BY <1>2, <1>3, <2>1 DEF RefuseUnowned, GuardRefuse, RefuseBriefless, AgentFails,
                Lost, ReadMessages, AgentTurn, InsertMessages
<1>4. ASSUME NEW p \in Posts, ReadPhase(p) PROVE SerialInv'
  BY <1>4 DEF ReadPhase, Running
<1>5. ASSUME NEW p \in Posts, UpsertPhase(p) PROVE SerialInv'
  BY <1>5 DEF UpsertPhase, Running
<1>6. CASE Tick \/ UNCHANGED vars
  BY <1>6 DEF Tick, vars, Running
<1> QED BY <1>1, <1>3, <1>4, <1>5, <1>6 DEF Next, PostMessage

\* Posts that do not overlap never overwrite a phase that they have not read: the
\* phase is only at risk where posts overlap.
THEOREM SerialPhasesAreKept == AtOnce = 1 /\ Spec => []PhaseIsAsRead
<1>1. SerialInv => PhaseIsAsRead
  BY DEF SerialInv
<1>2. CASE AtOnce = 1
  <2>1. IInv /\ SerialInv /\ [Next]_vars => SerialInv'
    BY <1>2, SerialStep
  <2> QED BY <1>1, <2>1, SerialInit, InvAlways, PTL DEF Spec
<1>3. CASE AtOnce # 1
  BY <1>3
<1> QED BY <1>2, <1>3
=============================================================================
