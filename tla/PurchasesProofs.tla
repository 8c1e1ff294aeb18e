--------------------------- MODULE PurchasesProofs ---------------------------
(***************************************************************************)
(* What holds of a purchase for every number of checkouts, deliveries and  *)
(* retries, and every bound on what may fail.                              *)
(***************************************************************************)
EXTENDS Purchases, TLAPS

USE SwitchesAssumption, FaultsAssumption, NoSessionIsNone

(***************************************************************************)
(* The inductive invariant.  Whoever is in invite got there through a row  *)
(* that had left pending, and the row left pending for a paid session;     *)
(* since nothing takes it back to pending, one delivery at most was let in.*)
(***************************************************************************)
SomePaid == \E c \in Checkouts : session[c] = "paid"

PaidFirst ==
    /\ row \in Granted \cup {"refunded"} => SomePaid
    /\ invited # "never" => SomePaid
    /\ \A h \in Handlers : hpc[h] # "idle" => row \notin {"none", "pending"}

SessionsAreNew ==
    \A c \in Checkouts :
        cpc[c] \in {"start", "expire", "insert", "create"} => session[c] = "none"

EventsAreHandled == \A h \in Handlers : event[h] # NoSession => hpc[h] # "idle"

SentIsTrue ==
    /\ SentWasInvited
    /\ \A h \in Handlers : hpc[h] = "added" => invited # "never"

IInv ==
    /\ TypeOK
    /\ PaidFirst
    /\ SessionsAreNew
    /\ EventsAreHandled
    /\ OneDeliveryInvites
    /\ SentIsTrue

LEMMA InvInit == Init => IInv
<1> SUFFICES ASSUME Init PROVE IInv
  OBVIOUS
<1>1. TypeOK
  BY DEF Init, TypeOK, Statuses, Granted, CheckoutPcs, HandlerPcs
<1>2. PaidFirst /\ SessionsAreNew
  BY DEF Init, PaidFirst, SessionsAreNew, Granted
<1>3. EventsAreHandled /\ OneDeliveryInvites /\ SentIsTrue
  BY DEF Init, EventsAreHandled, OneDeliveryInvites, SentIsTrue, SentWasInvited
<1> QED BY <1>1, <1>2, <1>3 DEF IInv

LEMMA CheckoutStep ==
  ASSUME IInv, NEW c \in Checkouts, Checkout(c) PROVE IInv'
<1> USE DEF IInv, TypeOK, Statuses, Granted, CheckoutPcs, Goto, Fault,
        PaidFirst, SomePaid, SessionsAreNew, EventsAreHandled, OneDeliveryInvites, SentIsTrue,
        SentWasInvited, handlerVars
<1>1. CASE Refuse(c)
  BY <1>1 DEF Refuse
<1>2. CASE Lookup(c)
  <2>1. row = "none" \/ row = "pending" \/ row \notin {"none", "pending"}
    OBVIOUS
  <2>2. cpc' \in [Checkouts -> CheckoutPcs]
    BY <1>2, <2>1 DEF Lookup
  <2>3. stale' \in [Checkouts -> Checkouts \cup {NoSession}]
    BY <1>2 DEF Lookup
  <2> QED BY <1>2, <2>2, <2>3 DEF Lookup
<1>3. CASE InsertRow(c)
  BY <1>3 DEF InsertRow
<1>4. CASE ExpireStale(c)
  BY <1>4 DEF ExpireStale
<1>5. CASE ExpireFails(c) \/ CheckoutLost(c)
  BY <1>5 DEF ExpireFails, CheckoutLost
<1>6. CASE CreateSession(c)
  BY <1>6 DEF CreateSession
<1>7. CASE RecordSession(c)
  BY <1>7 DEF RecordSession
<1>8. CASE CheckoutUnanswered(c)
  BY <1>8 DEF CheckoutUnanswered
<1> QED BY <1>1, <1>2, <1>3, <1>4, <1>5, <1>6, <1>7, <1>8 DEF Checkout

LEMMA OutsideStep ==
  ASSUME IInv, Refund \/ \E c \in Checkouts : Stripe(c) PROVE IInv'
<1> USE DEF IInv, TypeOK, Statuses, Granted, CheckoutPcs,
        PaidFirst, SomePaid, SessionsAreNew, EventsAreHandled, OneDeliveryInvites,
        SentIsTrue, SentWasInvited, handlerVars, checkoutVars
<1>1. CASE Refund
  BY <1>1 DEF Refund
<1>2. ASSUME NEW c \in Checkouts, Pay(c) \/ PayLater(c) \/ Settle(c) PROVE IInv'
  BY <1>2 DEF Pay, PayLater, Complete, Settle
<1> QED BY <1>1, <1>2 DEF Stripe

LEMMA DeliveryStep ==
  ASSUME IInv, NEW h \in Handlers, NEW c \in Checkouts, Deliver(h, c) \/ DeliverFails(h, c)
  PROVE  IInv'
<1> USE DEF IInv, TypeOK, Statuses, Granted, HandlerPcs, Fault, SaysPaid,
        PaidFirst, SomePaid, SessionsAreNew, EventsAreHandled, OneDeliveryInvites,
        SentIsTrue, SentWasInvited, handlerVars, checkoutVars
<1>1. CASE DeliverWins(h, c)
  <2>1. \A g \in Handlers : event[g] = NoSession
    BY <1>1 DEF DeliverWins, WinsTransition
  <2> QED BY <1>1, <2>1 DEF DeliverWins, WinsTransition
<1>2. CASE DeliverIgnored(h, c) \/ DeliverFails(h, c)
  BY <1>2 DEF DeliverIgnored, DeliverFails
<1> QED BY <1>1, <1>2 DEF Deliver

LEMMA HandlerStep ==
  ASSUME IInv, NEW h \in Handlers, RetryInvite(h) \/ Invite(h) \/ InviteFault(h)
  PROVE  IInv'
<1> USE DEF IInv, TypeOK, Statuses, Granted, HandlerPcs, Fault, Respond,
        PaidFirst, SomePaid, SessionsAreNew, EventsAreHandled, OneDeliveryInvites,
        SentIsTrue, SentWasInvited, checkoutVars
<1>1. CASE RetryInvite(h)
  BY <1>1 DEF RetryInvite
<1>2. CASE AddCollaborator(h) \/ AddCollaboratorFails(h)
  BY <1>2 DEF AddCollaborator, AddCollaboratorFails
<1>3. CASE RecordSent(h)
  BY <1>3 DEF RecordSent
<1>4. CASE RecordFailed(h)
  BY <1>4 DEF RecordFailed, FailedUnlessSent
<1>5. CASE InviteFault(h)
  BY <1>5 DEF InviteFault, RecordSentFails, RecordFailedFails, HandlerLost
<1> QED BY <1>1, <1>2, <1>3, <1>4, <1>5 DEF Invite

LEMMA InvStep == IInv /\ [Next]_vars => IInv'
<1> SUFFICES ASSUME IInv, [Next]_vars PROVE IInv'
  OBVIOUS
<1>1. CASE Next
  BY <1>1, CheckoutStep, OutsideStep, DeliveryStep, HandlerStep DEF Next
<1>2. CASE UNCHANGED vars
  BY <1>2 DEF vars, handlerVars, checkoutVars, IInv, TypeOK, PaidFirst, SomePaid,
     SessionsAreNew, EventsAreHandled, OneDeliveryInvites, SentIsTrue, SentWasInvited
<1> QED BY <1>1, <1>2

LEMMA InvAlways == Spec => []IInv
BY InvInit, InvStep, PTL DEF Spec

\* Every variable keeps its type.
THEOREM TypeCorrect == Spec => []TypeOK
<1>1. IInv => TypeOK
  BY DEF IInv
<1> QED BY <1>1, InvAlways, PTL

\* Nobody is let in, by status or by invitation, without a paid session.
THEOREM NoAccessUnpaid == Spec => []AccessWasPaid
<1>1. IInv => AccessWasPaid
  BY DEF IInv, PaidFirst, SomePaid, AccessWasPaid
<1> QED BY <1>1, InvAlways, PTL

\* However often events are delivered, one delivery at most is in invite.
THEOREM ReplaysAreNoOps == Spec => []OneDeliveryInvites
<1>1. IInv => OneDeliveryInvites
  BY DEF IInv
<1> QED BY <1>1, InvAlways, PTL

\* A row says invite_sent only of an invitation made.
THEOREM SentMeansInvited == Spec => []SentWasInvited
<1>1. IInv => SentWasInvited
  BY DEF IInv, SentIsTrue
<1> QED BY <1>1, InvAlways, PTL

(***************************************************************************)
(* invite_sent is final but for a refund.                                  *)
(***************************************************************************)
Stays == row = "invite_sent" => row' \in {"invite_sent", "refunded"}

LEMMA StaysStep == IInv /\ [Next]_vars => Stays
<1> SUFFICES ASSUME IInv, [Next]_vars, row = "invite_sent"
             PROVE  row' \in {"invite_sent", "refunded"}
  BY DEF Stays
<1>1. ASSUME NEW c \in Checkouts, Checkout(c) \/ Stripe(c) PROVE row' = row
  BY <1>1 DEF Checkout, Refuse, Lookup, InsertRow, ExpireStale, ExpireFails,
     CreateSession, RecordSession, CheckoutLost, CheckoutUnanswered, Stripe, Pay, PayLater,
     Complete, Settle
<1>2. ASSUME NEW h \in Handlers, NEW c \in Checkouts, Deliver(h, c) \/ DeliverFails(h, c)
      PROVE  row' = row
  BY <1>2 DEF Deliver, DeliverWins, WinsTransition, DeliverIgnored, DeliverFails
<1>3. ASSUME NEW h \in Handlers, RetryInvite(h) \/ Invite(h) \/ InviteFault(h)
      PROVE  row' = "invite_sent"
  BY <1>3 DEF RetryInvite, Invite, AddCollaborator, AddCollaboratorFails, RecordSent,
     RecordFailed, FailedUnlessSent, InviteFault, RecordSentFails, RecordFailedFails,
     HandlerLost
<1> QED BY <1>1, <1>2, <1>3 DEF Next, Refund, vars

\* No late failure takes invite_sent back.
THEOREM SentIsFinal == Spec => SentStays
<1>1. IInv /\ [Next]_vars => [Stays]_vars
  BY StaysStep
<1> QED BY <1>1, InvAlways, PTL DEF Spec, SentStays, Stays

(***************************************************************************)
(* A refund is final once no invite is under way.                          *)
(***************************************************************************)
Quiet == \A h \in Handlers : hpc[h] = "idle"
StaysRefunded == row = "refunded" /\ Quiet => row' = "refunded" /\ Quiet'

LEMMA RefundedStep == [Next]_vars => StaysRefunded
<1> SUFFICES ASSUME [Next]_vars, row = "refunded", Quiet
             PROVE  row' = "refunded" /\ Quiet'
  BY DEF StaysRefunded
<1> USE DEF Quiet
<1>1. ASSUME NEW c \in Checkouts, Checkout(c) \/ Stripe(c)
      PROVE  row' = row /\ hpc' = hpc
  BY <1>1 DEF Checkout, Refuse, Lookup, InsertRow, ExpireStale, ExpireFails, CreateSession,
     RecordSession, CheckoutLost, CheckoutUnanswered, Stripe, Pay, PayLater, Complete, Settle,
     handlerVars
<1>2. ASSUME NEW h \in Handlers, NEW c \in Checkouts, Deliver(h, c) \/ DeliverFails(h, c)
      PROVE  row' = row /\ hpc' = hpc
  BY <1>2 DEF Deliver, DeliverWins, WinsTransition, DeliverIgnored, DeliverFails, handlerVars
<1>3. ASSUME NEW h \in Handlers, RetryInvite(h) \/ Invite(h) \/ InviteFault(h) PROVE FALSE
  BY <1>3 DEF RetryInvite, Granted, Invite, AddCollaborator, AddCollaboratorFails,
     RecordSent, RecordFailed, InviteFault, RecordSentFails, RecordFailedFails, HandlerLost
<1> QED BY <1>1, <1>2, <1>3 DEF Next, Refund, Granted, vars, handlerVars

\* Only an invite that was under way when the refund was made can overtake it.
THEOREM RefundStays == Spec => RefundIsFinal
<1>1. [Next]_vars =>
        [row = "refunded" /\ (\A h \in Handlers : hpc[h] = "idle")
           => row' = "refunded" /\ \A h \in Handlers : hpc'[h] = "idle"]_vars
  BY RefundedStep DEF StaysRefunded, Quiet
<1> QED BY <1>1, PTL DEF Spec, RefundIsFinal

(***************************************************************************)
(* A checkout can only find a session of a checkout that has ended, with a *)
(* URL or an error, and that one is never opened again.                    *)
(***************************************************************************)
FoundInv ==
    /\ recorded # NoSession => cpc[recorded] \in {"url", "error"}
    /\ \A c \in Checkouts :
          /\ cpc[c] \in {"start", "insert"} => stale[c] = NoSession
          /\ cpc[c] = "expire" => stale[c] # NoSession
          /\ stale[c] # NoSession => cpc[stale[c]] \in {"url", "error"}
    /\ FoundIsExpired

LEMMA FoundStep == IInv /\ FoundInv /\ [Next]_vars => FoundInv'
<1> SUFFICES ASSUME IInv, FoundInv, [Next]_vars PROVE FoundInv'
  OBVIOUS
<1> USE DEF FoundInv, FoundIsExpired
<1>t. TypeOK
  BY DEF IInv
<1>1. ASSUME NEW c \in Checkouts, Checkout(c) PROVE FoundInv'
  <2> USE <1>t DEF TypeOK, Goto, Fault
  <2>1. CASE Refuse(c)
    BY <2>1 DEF Refuse
  <2>2. CASE Lookup(c)
    <3>1. \E where \in {"insert", "create", "expire", "refused"} :
             /\ cpc' = [cpc EXCEPT ![c] = where]
             /\ where = "expire" => stale'[c] # NoSession
             /\ where \in {"create", "insert"} => stale'[c] = NoSession
      BY <2>2 DEF Lookup
    <3>2. /\ stale' = [stale EXCEPT ![c] = stale'[c]]
          /\ stale'[c] \in {recorded, NoSession}
          /\ cpc[c] = "start"
          /\ UNCHANGED <<recorded, session, faults>>
      BY <2>2 DEF Lookup
    <3> QED BY <3>1, <3>2
  <2>3. CASE InsertRow(c)
    BY <2>3 DEF InsertRow
  <2>4. CASE ExpireStale(c)
    BY <2>4 DEF ExpireStale
  <2>5. CASE ExpireFails(c) \/ CheckoutLost(c)
    BY <2>5 DEF ExpireFails, CheckoutLost
  <2>6. CASE CreateSession(c)
    BY <2>6 DEF CreateSession
  <2>7. CASE RecordSession(c)
    BY <2>7 DEF RecordSession
  <2>8. CASE CheckoutUnanswered(c)
    BY <2>8 DEF CheckoutUnanswered
  <2> QED BY <1>1, <2>1, <2>2, <2>3, <2>4, <2>5, <2>6, <2>7, <2>8 DEF Checkout
<1>2. ASSUME NEW c \in Checkouts, Stripe(c) PROVE FoundInv'
  BY <1>2, <1>t DEF TypeOK, Stripe, Pay, PayLater, Complete, Settle, checkoutVars
<1>3. CASE UNCHANGED <<checkoutVars, session>> /\ (faults' = 0 => faults = 0)
  BY <1>3 DEF checkoutVars
<1>4. ASSUME NEW h \in Handlers, NEW c \in Checkouts, Deliver(h, c) \/ DeliverFails(h, c)
      PROVE  FoundInv'
  BY <1>3, <1>4, <1>t DEF Deliver, DeliverWins, DeliverIgnored, DeliverFails, Fault, TypeOK
<1>5. ASSUME NEW h \in Handlers, RetryInvite(h) \/ Invite(h) PROVE FoundInv'
  BY <1>3, <1>5 DEF RetryInvite, Invite, AddCollaborator, AddCollaboratorFails,
     RecordSent, RecordFailed
<1>6. ASSUME NEW h \in Handlers, InviteFault(h) PROVE FoundInv'
  BY <1>3, <1>6, <1>t DEF InviteFault, RecordSentFails, RecordFailedFails, HandlerLost,
     Fault, TypeOK
<1>7. CASE Refund \/ UNCHANGED vars
  BY <1>3, <1>7 DEF Refund, vars
<1> QED BY <1>1, <1>2, <1>4, <1>5, <1>6, <1>7 DEF Next

\* However checkouts overlap, one that creates a session leaves none payable
\* that it found.
THEOREM FoundSessionsEnd == Spec => []FoundIsExpired
<1>1. Init => FoundInv
  BY DEF Init, FoundInv, FoundIsExpired
<1>2. FoundInv => FoundIsExpired
  BY DEF FoundInv
<1> QED BY <1>1, <1>2, FoundStep, InvAlways, PTL DEF Spec

(***************************************************************************)
(* One payable session, when checkouts do not overlap.  Only the recorded  *)
(* session can still be paid, and none can between its expiry and the      *)
(* response that hands out the next one.                                   *)
(***************************************************************************)
RecordedIsPayable ==
    faults = 0 =>
        /\ \A c \in Checkouts : Payable(c) => recorded = c
        /\ \A d \in Checkouts :
              /\ cpc[d] \in {"create", "record"} => \A c \in Checkouts : ~Payable(c)
              /\ cpc[d] \in {"expire", "create", "record"} => row # "none"
              /\ cpc[d] = "expire" => stale[d] = recorded /\ recorded \in Checkouts
        /\ row = "none" => recorded = NoSession

OInv == OneAtATime /\ RecordedIsPayable

LEMMA OneInit == Init => OInv
BY DEF Init, OInv, OneAtATime, RecordedIsPayable, Payable

LEMMA OneStep == IInv /\ OInv /\ [Next /\ OneAtATime']_vars => OInv'
<1> SUFFICES ASSUME IInv, OInv, [Next /\ OneAtATime']_vars PROVE OInv'
  OBVIOUS
<1> USE DEF OInv, RecordedIsPayable, Payable
<1>t. TypeOK /\ SessionsAreNew
  BY DEF IInv
<1>1. ASSUME NEW c \in Checkouts, Checkout(c), OneAtATime' PROVE OInv'
  <2> USE <1>t DEF TypeOK, Goto, Fault
  <2>1. CASE Refuse(c)
    BY <1>1, <2>1 DEF Refuse
  <2>2. CASE Lookup(c)
    <3>1. cpc' = [cpc EXCEPT ![c] = CASE row = "none" -> "insert"
                 [] row = "pending" -> IF recorded = NoSession THEN "create" ELSE "expire"
                 [] OTHER -> "refused"]
      BY <2>2 DEF Lookup
    <3>2. CASE row = "none"
      BY <1>1, <2>2, <3>1, <3>2 DEF Lookup
    <3>3. CASE row = "pending" /\ recorded = NoSession
      BY <1>1, <2>2, <3>1, <3>3 DEF Lookup
    <3>4. CASE row = "pending" /\ recorded # NoSession
      BY <1>1, <2>2, <3>1, <3>4 DEF Lookup
    <3>5. CASE row \notin {"none", "pending"}
      BY <1>1, <2>2, <3>1, <3>5 DEF Lookup
    <3> QED BY <3>2, <3>3, <3>4, <3>5
  <2>3. CASE InsertRow(c)
    BY <1>1, <2>3 DEF InsertRow
  <2>4. CASE ExpireStale(c)
    BY <1>1, <2>4 DEF ExpireStale
  <2>5. CASE ExpireFails(c) \/ CheckoutLost(c)
    BY <1>1, <2>5 DEF ExpireFails, CheckoutLost
  <2>6. CASE CreateSession(c)
    BY <1>1, <2>6 DEF CreateSession
  <2>7. CASE RecordSession(c)
    BY <1>1, <2>7 DEF RecordSession, OneAtATime
  <2>8. CASE CheckoutUnanswered(c)
    BY <1>1, <2>8 DEF CheckoutUnanswered
  <2> QED BY <1>1, <2>1, <2>2, <2>3, <2>4, <2>5, <2>6, <2>7, <2>8 DEF Checkout
<1>2. ASSUME NEW c \in Checkouts, Stripe(c), OneAtATime' PROVE OInv'
  BY <1>2, <1>t DEF TypeOK, Stripe, Pay, PayLater, Complete, Settle, checkoutVars
<1>3. CASE /\ UNCHANGED <<checkoutVars, session>>
           /\ faults' = 0 => faults = 0
           /\ row' = "none" => row = "none"
  BY <1>3 DEF checkoutVars, OneAtATime
<1>4. ASSUME NEW h \in Handlers, NEW c \in Checkouts, Deliver(h, c) \/ DeliverFails(h, c)
      PROVE  OInv'
  BY <1>3, <1>4, <1>t DEF Deliver, DeliverWins, DeliverIgnored, DeliverFails, Fault, TypeOK
<1>5. ASSUME NEW h \in Handlers, RetryInvite(h) \/ Invite(h) PROVE OInv'
  BY <1>3, <1>5 DEF RetryInvite, Invite, AddCollaborator, AddCollaboratorFails,
     RecordSent, RecordFailed, FailedUnlessSent
<1>6. ASSUME NEW h \in Handlers, InviteFault(h) PROVE OInv'
  BY <1>3, <1>6, <1>t DEF InviteFault, RecordSentFails, RecordFailedFails, HandlerLost,
     Fault, TypeOK
<1>7. CASE Refund \/ UNCHANGED vars
  BY <1>3, <1>7 DEF Refund, vars
<1> QED BY <1>1, <1>2, <1>4, <1>5, <1>6, <1>7 DEF Next

\* Without overlapping checkouts and failed calls, one session at most can
\* still be paid.
THEOREM NeverTwoPayable == OneAtATimeSpec => []OnePayableSession
<1>1. OInv => OnePayableSession
  BY DEF OInv, RecordedIsPayable, OnePayableSession
<1>2. IInv /\ [Next /\ OneAtATime']_vars => IInv'
  BY InvStep
<1>3. IInv /\ OInv /\ [Next /\ OneAtATime']_vars => OInv'
  BY OneStep
<1> QED BY <1>1, <1>2, <1>3, InvInit, OneInit, PTL DEF OneAtATimeSpec

(***************************************************************************)
(* Events and their answers.  An event belongs to a completed session; the *)
(* session has a row, since checkout inserts before it creates; and the    *)
(* delivery that wins is at work until the row has its outcome.            *)
(***************************************************************************)
SessionsHaveRows ==
    \A c \in Checkouts :
        session[c] # "none" \/ cpc[c] \in {"expire", "create", "record", "url"} => row # "none"

EventsWerePaid == \A h \in Handlers : event[h] # NoSession => session[event[h]] = "paid"

AckedWereCompleted == \A c \in acked : session[c] \in Completed

AnswerInv ==
    /\ SessionsHaveRows
    /\ EventsWerePaid
    /\ AckedWereCompleted
    /\ AckedIsRecognised
    /\ PaidIsCarried

LEMMA AnswerInit == Init => AnswerInv
BY DEF Init, AnswerInv, SessionsHaveRows, EventsWerePaid, AckedWereCompleted,
       AckedIsRecognised, PaidIsCarried

LEMMA AnswerByCheckout ==
  ASSUME IInv, AnswerInv, NEW c \in Checkouts, Checkout(c) PROVE AnswerInv'
<1> USE DEF IInv, TypeOK, SessionsAreNew, AnswerInv, SessionsHaveRows, EventsWerePaid,
        AckedWereCompleted, AckedIsRecognised, PaidIsCarried, Completed,
        Goto, Fault, handlerVars
<1>1. CASE Refuse(c)
  BY <1>1 DEF Refuse
<1>2. CASE Lookup(c)
  <2>1. /\ UNCHANGED <<row, session, acked, event, faults>>
        /\ row = "none" =>
              cpc' = [cpc EXCEPT ![c] = "insert"]
        /\ \E where \in CheckoutPcs : cpc' = [cpc EXCEPT ![c] = where]
    BY <1>2 DEF Lookup, CheckoutPcs
  <2> QED BY <2>1
<1>3. CASE InsertRow(c)
  BY <1>3 DEF InsertRow
<1>4. CASE ExpireStale(c)
  BY <1>4 DEF ExpireStale
<1>5. CASE ExpireFails(c) \/ CheckoutLost(c)
  BY <1>5 DEF ExpireFails, CheckoutLost
<1>6. CASE CreateSession(c)
  BY <1>6 DEF CreateSession
<1>7. CASE RecordSession(c)
  BY <1>7 DEF RecordSession
<1>8. CASE CheckoutUnanswered(c)
  BY <1>8 DEF CheckoutUnanswered
<1> QED BY <1>1, <1>2, <1>3, <1>4, <1>5, <1>6, <1>7, <1>8 DEF Checkout

LEMMA AnswerOutside ==
  ASSUME IInv, AnswerInv, Refund \/ \E c \in Checkouts : Stripe(c) PROVE AnswerInv'
<1> USE DEF IInv, TypeOK, AnswerInv, SessionsHaveRows, EventsWerePaid,
        AckedWereCompleted, AckedIsRecognised, PaidIsCarried, Completed,
        handlerVars, checkoutVars
<1>1. CASE Refund
  BY <1>1 DEF Refund, Granted
<1>2. ASSUME NEW c \in Checkouts, Pay(c) \/ PayLater(c) \/ Settle(c) PROVE AnswerInv'
  BY <1>2 DEF Pay, PayLater, Complete, Settle
<1> QED BY <1>1, <1>2 DEF Stripe

LEMMA AnswerByDelivery ==
  ASSUME IInv, AnswerInv, NEW h \in Handlers, NEW c \in Checkouts,
         Deliver(h, c) \/ DeliverFails(h, c)
  PROVE  AnswerInv'
<1> USE DEF IInv, TypeOK, AnswerInv, SessionsHaveRows, EventsWerePaid, SaysPaid,
        AckedWereCompleted, AckedIsRecognised, PaidIsCarried, Completed, WinsTransition,
        handlerVars, checkoutVars, Fault
<1>1. CASE DeliverWins(h, c)
  BY <1>1 DEF DeliverWins
<1>2. CASE DeliverIgnored(h, c)
  BY <1>2 DEF DeliverIgnored
<1>3. CASE DeliverFails(h, c)
  BY <1>3 DEF DeliverFails
<1> QED BY <1>1, <1>2, <1>3 DEF Deliver

LEMMA AnswerByHandler ==
  ASSUME IInv, AnswerInv, NEW h \in Handlers, RetryInvite(h) \/ Invite(h) \/ InviteFault(h)
  PROVE  AnswerInv'
<1> USE DEF IInv, TypeOK, AnswerInv, SessionsHaveRows, EventsWerePaid, PaidFirst,
        AckedWereCompleted, AckedIsRecognised, PaidIsCarried, Completed,
        checkoutVars, Fault, Respond
<1>1. CASE RetryInvite(h) \/ AddCollaborator(h) \/ AddCollaboratorFails(h)
  BY <1>1 DEF RetryInvite, AddCollaborator, AddCollaboratorFails
<1>2. CASE RecordSent(h) \/ RecordFailed(h)
  <2>1. row' \in {"invite_sent", "invite_failed"}
    BY <1>2 DEF RecordSent, RecordFailed, FailedUnlessSent
  <2> QED BY <1>2, <2>1 DEF RecordSent, RecordFailed
<1>3. CASE RecordSentFails(h) \/ HandlerLost(h)
  BY <1>3 DEF RecordSentFails, HandlerLost
<1>4. CASE RecordFailedFails(h)
  BY <1>4 DEF RecordFailedFails
<1> QED BY <1>1, <1>2, <1>3, <1>4 DEF Invite, InviteFault

LEMMA AnswerStep == IInv /\ AnswerInv /\ [Next]_vars => AnswerInv'
<1> SUFFICES ASSUME IInv, AnswerInv, [Next]_vars PROVE AnswerInv'
  OBVIOUS
<1>1. CASE UNCHANGED vars
  BY <1>1 DEF vars, handlerVars, checkoutVars, AnswerInv, SessionsHaveRows,
     EventsWerePaid, AckedWereCompleted, AckedIsRecognised, PaidIsCarried
<1> QED BY <1>1, AnswerByCheckout, AnswerOutside, AnswerByDelivery, AnswerByHandler DEF Next

LEMMA AnswerAlways == Spec => []AnswerInv
BY AnswerInit, AnswerStep, InvAlways, PTL DEF Spec

\* No event of a paid session is answered with 2xx, so that Stripe forgets it, while
\* its purchase is pending: the safety half of PaymentIsRecognised.
THEOREM NoPaymentForgotten == Spec => []AckedIsRecognised
<1>1. AnswerInv => AckedIsRecognised
  BY DEF AnswerInv
<1> QED BY <1>1, AnswerAlways, PTL

\* A purchase that is only paid has its delivery at work on it, unless a request was
\* lost: the safety half of PaidIsResolved.
THEOREM PaidHasItsDelivery == Spec => []PaidIsCarried
<1>1. AnswerInv => PaidIsCarried
  BY DEF AnswerInv
<1> QED BY <1>1, AnswerAlways, PTL

(***************************************************************************)
(* The refinement of PurchaseAccess.                                       *)
(***************************************************************************)
AccessOf ==
    IF row \in Granted THEN "granted" ELSE IF row = "refunded" THEN "revoked" ELSE "none"
Underway == {h \in Handlers : hpc[h] # "idle"}

accessVars == <<SomePaid, AccessOf, invited, Underway>>

LEMMA CheckoutGivesNoAccess ==
  ASSUME IInv, NEW c \in Checkouts, Checkout(c) PROVE UNCHANGED accessVars
<1> USE DEF IInv, TypeOK, SessionsAreNew, accessVars, AccessOf, Underway, handlerVars, Granted
<1>1. CASE InsertRow(c)
  BY <1>1 DEF InsertRow, SomePaid
<1>2. CASE ExpireStale(c) \/ CreateSession(c)
  <2>1. \A d \in Checkouts : session'[d] = "paid" <=> session[d] = "paid"
    BY <1>2 DEF ExpireStale, CreateSession
  <2>2. SomePaid' <=> SomePaid
    BY <2>1 DEF SomePaid
  <2> QED BY <1>2, <2>2 DEF ExpireStale, CreateSession
<1>3. CASE CheckoutUnanswered(c)
  <2>1. \A d \in Checkouts : session'[d] = "paid" <=> session[d] = "paid"
    BY <1>3 DEF CheckoutUnanswered
  <2>2. SomePaid' <=> SomePaid
    BY <2>1 DEF SomePaid
  <2>3. AccessOf' = AccessOf
    BY <1>3 DEF CheckoutUnanswered
  <2> QED BY <1>3, <2>2, <2>3 DEF CheckoutUnanswered
<1> QED BY <1>1, <1>2, <1>3 DEF Checkout, Refuse, Lookup, ExpireFails, RecordSession, CheckoutLost,
                          SomePaid

LEMMA StripePays ==
  ASSUME IInv, NEW c \in Checkouts, Stripe(c)
  PROVE  [Access!Pay]_accessVars
<1> USE DEF IInv, TypeOK, accessVars, AccessOf, Underway, handlerVars, checkoutVars
<1>1. CASE Pay(c)
  <2>1. SomePaid' = TRUE
    BY <1>1 DEF Pay, Complete, SomePaid
  <2>2. UNCHANGED <<AccessOf, invited, Underway>>
    BY <1>1 DEF Pay, Complete
  <2> QED BY <2>1, <2>2 DEF Access!Pay, SomePaid
<1>2. CASE PayLater(c) \/ Settle(c)
  <2>1. \A d \in Checkouts : session'[d] = "paid" <=> session[d] = "paid"
    BY <1>2 DEF PayLater, Complete, Settle
  <2>2. SomePaid' <=> SomePaid
    BY <2>1 DEF SomePaid
  <2> QED BY <1>2, <2>2 DEF PayLater, Complete, Settle
<1> QED BY <1>1, <1>2 DEF Stripe

LEMMA RefundRevokes == IInv /\ Refund => Access!Revoke
<1> SUFFICES ASSUME IInv, Refund PROVE Access!Revoke
  OBVIOUS
<1>1. SomePaid' = SomePaid /\ Underway' = Underway
  BY DEF Refund, handlerVars, SomePaid, Underway
<1>2. AccessOf = "granted" /\ AccessOf' = "revoked"
  BY DEF Refund, AccessOf, Granted
<1>3. invited' = IF invited = "never" THEN "never" ELSE "removed"
  BY DEF Refund
<1> QED BY <1>1, <1>2, <1>3 DEF Access!Revoke, SomePaid, Underway, AccessOf

LEMMA WinGrants ==
  ASSUME IInv, NEW h \in Handlers, NEW c \in Checkouts, DeliverWins(h, c)
  PROVE  Access!Grant(h)
<1> USE DEF IInv, TypeOK, DeliverWins
<1>1. SomePaid /\ SomePaid' = SomePaid
  BY DEF SaysPaid, SomePaid
<1>2. AccessOf = "none" /\ AccessOf' = "granted"
  BY DEF WinsTransition, AccessOf, Granted
<1>3. h \notin Underway /\ Underway' = Underway \cup {h} /\ invited' = invited
  BY DEF Underway
<1> QED BY <1>1, <1>2, <1>3 DEF Access!Grant, SomePaid, Underway, AccessOf

LEMMA OtherDeliveries ==
  ASSUME NEW h \in Handlers, NEW c \in Checkouts, DeliverIgnored(h, c) \/ DeliverFails(h, c)
  PROVE  UNCHANGED accessVars
BY DEF DeliverIgnored, DeliverFails, accessVars, SomePaid, AccessOf, Underway, handlerVars

LEMMA RetryRetries ==
  ASSUME IInv, NEW h \in Handlers, RetryInvite(h) PROVE Access!Retry(h)
<1>1. SomePaid' = SomePaid /\ AccessOf' = AccessOf /\ invited' = invited
  BY DEF RetryInvite, SomePaid, AccessOf
<1>2. AccessOf = "granted" /\ h \notin Underway /\ Underway' = Underway \cup {h}
  BY DEF RetryInvite, IInv, TypeOK, AccessOf, Underway
<1> QED BY <1>1, <1>2 DEF Access!Retry, SomePaid, Underway, AccessOf

LEMMA AddInvites ==
  ASSUME IInv, NEW h \in Handlers, AddCollaborator(h) \/ AddCollaboratorFails(h)
  PROVE  Access!Invite(h)
<1>1. SomePaid' = SomePaid /\ AccessOf' = AccessOf /\ invited' \in {invited, "member"}
  BY DEF AddCollaborator, AddCollaboratorFails, SomePaid, AccessOf
<1>2. h \in Underway /\ Underway' = Underway
  BY DEF AddCollaborator, AddCollaboratorFails, IInv, TypeOK, Underway
<1> QED BY <1>1, <1>2 DEF Access!Invite, SomePaid, Underway, AccessOf

LEMMA RecordEnds ==
  ASSUME IInv, NEW h \in Handlers,
         RecordSent(h) \/ RecordFailed(h) \/ RecordFailedFails(h) \/ HandlerLost(h)
  PROVE  Access!End(h)
<1> USE DEF RecordSent, RecordFailed, RecordFailedFails, HandlerLost, Respond, IInv, TypeOK
<1>1. SomePaid' = SomePaid /\ invited' = invited
  BY DEF SomePaid
<1>2. AccessOf' \in {AccessOf, "granted"}
  <2>1. row' \in {row, "invite_sent", "invite_failed"}
    BY DEF FailedUnlessSent
  <2> QED BY <2>1 DEF AccessOf, Granted
<1>3. h \in Underway /\ Underway' = Underway \ {h}
  BY DEF Underway
<1> QED BY <1>1, <1>2, <1>3 DEF Access!End, SomePaid, Underway, AccessOf

LEMMA AccessStep == IInv /\ [Next]_vars => [Access!Next]_accessVars
<1> SUFFICES ASSUME IInv, [Next]_vars PROVE [Access!Next]_accessVars
  OBVIOUS
<1>1. ASSUME NEW c \in Checkouts, Checkout(c) \/ Stripe(c) PROVE [Access!Next]_accessVars
  BY <1>1, CheckoutGivesNoAccess, StripePays DEF Access!Next
<1>2. CASE Refund
  BY <1>2, RefundRevokes DEF Access!Next
<1>3. ASSUME NEW h \in Handlers, NEW c \in Checkouts, Deliver(h, c) \/ DeliverFails(h, c)
      PROVE  [Access!Next]_accessVars
  BY <1>3, WinGrants, OtherDeliveries DEF Deliver, Access!Next
<1>4. ASSUME NEW h \in Handlers, RetryInvite(h) \/ Invite(h) \/ InviteFault(h)
      PROVE  [Access!Next]_accessVars
  <2>1. CASE RetryInvite(h)
    BY <2>1, RetryRetries DEF Access!Next
  <2>2. CASE AddCollaborator(h) \/ AddCollaboratorFails(h)
    BY <2>2, AddInvites DEF Access!Next
  <2>3. CASE RecordSent(h) \/ RecordFailed(h) \/ RecordFailedFails(h) \/ HandlerLost(h)
    BY <2>3, RecordEnds DEF Access!Next
  <2>4. CASE RecordSentFails(h)
    <3>1. UNCHANGED <<row, session, invited>> /\ Underway' = Underway
      BY <2>4 DEF RecordSentFails, Underway, IInv, TypeOK
    <3> QED BY <3>1 DEF accessVars, SomePaid, AccessOf
  <2> QED BY <1>4, <2>1, <2>2, <2>3, <2>4 DEF Invite, InviteFault
<1>5. CASE UNCHANGED vars
  BY <1>5 DEF vars, handlerVars, accessVars, SomePaid, AccessOf, Underway
<1> QED BY <1>1, <1>2, <1>3, <1>4, <1>5 DEF Next

\* However checkouts, deliveries, retries, failures and refunds overlap, access is
\* granted once, for a payment, and ends and comes back as PurchaseAccess says.
THEOREM PurchaseRefinesAccess == Spec => ImplementsAccess
<1>1. Init => Access!Init
  <2>1. Init => ~SomePaid
    BY DEF Init, SomePaid
  <2>2. Init => /\ AccessOf = "none" /\ invited = "never" /\ Underway = {}
    BY DEF Init, AccessOf, Granted, Underway
  <2> QED BY <2>1, <2>2 DEF Access!Init, SomePaid, AccessOf, Underway
<1>2. IInv /\ [Next]_vars => [Access!Next]_accessVars
  BY AccessStep
<1> QED BY <1>1, <1>2, InvAlways, PTL
       DEF Spec, ImplementsAccess, Access!Spec, Access!vars, accessVars,
           SomePaid, AccessOf, Underway
=============================================================================
