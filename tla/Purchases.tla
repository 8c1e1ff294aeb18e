------------------------------ MODULE Purchases ------------------------------
(***************************************************************************)
(* The purchase of one listing by one user: PurchasesService.checkout, the *)
(* Stripe webhook, the GitHub invite and its retry, all over the one row   *)
(* that unique(user_id, listing_id) allows.  Every await separates two     *)
(* steps; nothing here runs in a transaction.  A checkout creates at most  *)
(* one Stripe session and the session carries the checkout's name.         *)
(***************************************************************************)
EXTENDS Naturals, FiniteSets

CONSTANTS
    Checkouts,      \* calls of POST /purchases/checkout by this user
    Handlers,       \* requests that may invite: webhook deliveries, retries
    AsyncMethods,   \* whether Stripe offers methods that settle later
    Refunds,        \* whether the operator refunds by hand
    MaxFaults,      \* bound: requests lost, calls to Stripe or writes failed
    NoSession

ASSUME SwitchesAssumption == AsyncMethods \in BOOLEAN /\ Refunds \in BOOLEAN
ASSUME FaultsAssumption == MaxFaults \in Nat
ASSUME NoSessionIsNone == NoSession \notin Checkouts

VARIABLES
    row,          \* purchases.status, "none" before the INSERT
    recorded,     \* purchases.stripe_session_id
    cpc, stale,   \* each checkout: where it is, the session it has to expire
    session,      \* Stripe: the session of each checkout
    acked,        \* Stripe: sessions whose completed event was answered with 2xx
    hpc, event,   \* each handler: where it is, the event it answers (or none)
    invited,      \* GitHub: the user was never added, is a member, was removed
    faults

checkoutVars == <<recorded, cpc, stale>>
handlerVars == <<hpc, event>>
vars == <<row, checkoutVars, session, acked, handlerVars, invited, faults>>

Granted == {"paid", "invite_sent", "invite_failed"}
Statuses == {"pending", "refunded"} \cup Granted
CheckoutPcs == {"start", "expire", "insert", "create", "record",
                "url", "refused", "error"}
HandlerPcs == {"idle", "invite", "added", "failed"}

TypeOK ==
    /\ row \in Statuses \cup {"none"}
    /\ recorded \in Checkouts \cup {NoSession}
    /\ cpc \in [Checkouts -> CheckoutPcs]
    /\ stale \in [Checkouts -> Checkouts \cup {NoSession}]
    /\ session \in [Checkouts -> {"none", "open", "expired", "paid", "unpaid", "settled"}]
    /\ acked \in SUBSET Checkouts
    /\ hpc \in [Handlers -> HandlerPcs]
    /\ event \in [Handlers -> Checkouts \cup {NoSession}]
    /\ invited \in {"never", "member", "removed"}
    /\ faults \in Nat

Init ==
    /\ row = "none"
    /\ recorded = NoSession
    /\ cpc = [c \in Checkouts |-> "start"]
    /\ stale = [c \in Checkouts |-> NoSession]
    /\ session = [c \in Checkouts |-> "none"]
    /\ acked = {}
    /\ hpc = [h \in Handlers |-> "idle"]
    /\ event = [h \in Handlers |-> NoSession]
    /\ invited = "never"
    /\ faults = 0

Fault == faults < MaxFaults /\ faults' = faults + 1

(***************************************************************************)
(* checkout                                                                *)
(***************************************************************************)
Goto(c, where) == cpc' = [cpc EXCEPT ![c] = where]

\* The listing is not published, or the user has given no GitHub name.
Refuse(c) ==
    /\ cpc[c] = "start"
    /\ Goto(c, "refused")
    /\ UNCHANGED <<row, recorded, stale, session, acked, handlerVars, invited, faults>>

\* The look-up of the row: a conflict unless it is missing or pending.
Lookup(c) ==
    /\ cpc[c] = "start"
    /\ Goto(c, CASE row = "none" -> "insert"
                 [] row = "pending" -> IF recorded = NoSession THEN "create" ELSE "expire"
                 [] OTHER -> "refused")
    /\ stale' = [stale EXCEPT ![c] = IF row = "pending" THEN recorded ELSE NoSession]
    /\ UNCHANGED <<row, recorded, session, acked, handlerVars, invited, faults>>

\* The INSERT, or the violation of the unique constraint, a 500.
InsertRow(c) ==
    /\ cpc[c] = "insert"
    /\ row' = IF row = "none" THEN "pending" ELSE row
    /\ Goto(c, IF row = "none" THEN "create" ELSE "error")
    /\ UNCHANGED <<recorded, stale, session, acked, handlerVars, invited, faults>>

\* Only an open session can be expired; what Stripe answers is only logged.
ExpireStaleInVain(c) ==
    /\ cpc[c] = "expire"
    /\ Goto(c, "create")
    /\ UNCHANGED <<row, recorded, stale, session, acked, handlerVars, invited, faults>>

ExpireStale(c) ==
    /\ cpc[c] = "expire"
    /\ session' = [session EXCEPT ![stale[c]] = IF @ = "open" THEN "expired" ELSE @]
    /\ Goto(c, "create")
    /\ UNCHANGED <<row, recorded, stale, acked, handlerVars, invited, faults>>

\* The call to Stripe fails, and checkout goes on.
ExpireFails(c) ==
    /\ cpc[c] = "expire"
    /\ Fault
    /\ Goto(c, "create")
    /\ UNCHANGED <<row, recorded, stale, session, acked, handlerVars, invited>>

CreateSession(c) ==
    /\ cpc[c] = "create"
    /\ session' = [session EXCEPT ![c] = "open"]
    /\ Goto(c, "record")
    /\ UNCHANGED <<row, recorded, stale, acked, handlerVars, invited, faults>>

\* The UPDATE by id alone, then the response with the session's URL.
RecordSession(c) ==
    /\ cpc[c] = "record"
    /\ recorded' = c
    /\ Goto(c, "url")
    /\ UNCHANGED <<row, stale, session, acked, handlerVars, invited, faults>>

\* The process or a call is lost; the buyer gets no URL.
CheckoutLost(c) ==
    /\ cpc[c] \in {"expire", "insert", "create", "record"}
    /\ Fault
    /\ Goto(c, "error")
    /\ UNCHANGED <<row, recorded, stale, session, acked, handlerVars, invited>>

\* Nor does he get one when the call did its work and only its answer was lost.
CheckoutUnanswered(c) ==
    /\ Fault
    /\ Goto(c, "error")
    /\ \/ /\ cpc[c] = "expire"
          /\ session' = [session EXCEPT ![stale[c]] = IF @ = "open" THEN "expired" ELSE @]
          /\ UNCHANGED <<row, recorded>>
       \/ /\ cpc[c] = "insert"
          /\ row = "none" /\ row' = "pending"
          /\ UNCHANGED <<recorded, session>>
       \/ /\ cpc[c] = "create"
          /\ session' = [session EXCEPT ![c] = "open"]
          /\ UNCHANGED <<row, recorded>>
       \/ /\ cpc[c] = "record"
          /\ recorded' = c
          /\ UNCHANGED <<row, session>>
    /\ UNCHANGED <<stale, acked, handlerVars, invited>>

(***************************************************************************)
(* Stripe and the operator                                                 *)
(***************************************************************************)
Completed == {"paid", "unpaid", "settled"}

\* The buyer completes a session whose URL was handed out.
Complete(c, how) ==
    /\ session[c] = "open"
    /\ cpc[c] = "url"
    /\ session' = [session EXCEPT ![c] = how]
    /\ UNCHANGED <<row, checkoutVars, acked, handlerVars, invited, faults>>

Pay(c) == Complete(c, "paid")
PayLater(c) == AsyncMethods /\ Complete(c, "unpaid")

\* The money of an asynchronous method arrives.  Stripe's event for it is not of
\* the one type handleWebhook looks at, which leaves no step to model.
Settle(c) ==
    /\ session[c] = "unpaid"
    /\ session' = [session EXCEPT ![c] = "settled"]
    /\ UNCHANGED <<row, checkoutVars, acked, handlerVars, invited, faults>>

\* By hand: refund in Stripe, set the status, remove the collaborator.
Refund ==
    /\ Refunds
    /\ row \in Granted
    /\ row' = "refunded"
    /\ invited' = IF invited = "never" THEN "never" ELSE "removed"
    /\ UNCHANGED <<checkoutVars, session, acked, handlerVars, faults>>

(***************************************************************************)
(* handleWebhook and fulfil.  Stripe delivers the completed event of a     *)
(* session any number of times, and again until an answer is 2xx.          *)
(***************************************************************************)
SaysCompleted(c) == session[c] \in Completed
SaysPaid(c) == session[c] = "paid"

WinsAlways == TRUE
WinsUnlessGranted == row \notin Granted
WinsTransition == row = "pending"

\* The guarded UPDATE to paid matches: this delivery goes on to invite.
DeliverWins(h, c) ==
    /\ hpc[h] = "idle"
    /\ session[c] \in Completed /\ SaysPaid(c)
    /\ WinsTransition
    /\ row' = "paid"
    /\ hpc' = [hpc EXCEPT ![h] = "invite"]
    /\ event' = [event EXCEPT ![h] = c]
    /\ UNCHANGED <<checkoutVars, session, acked, invited, faults>>

\* A replay, or a session completed but not paid: 200 and nothing else.
DeliverIgnored(h, c) ==
    /\ hpc[h] = "idle"
    /\ session[c] \in Completed
    /\ SaysPaid(c) => ~WinsTransition
    /\ acked' = acked \cup {c}
    /\ UNCHANGED <<row, checkoutVars, session, handlerVars, invited, faults>>

\* The database is down: 500, and Stripe tries again.
DeliverFailsQuietly(h, c) ==
    /\ hpc[h] = "idle"
    /\ session[c] = "paid"
    /\ Fault
    /\ acked' = acked \cup {c}
    /\ UNCHANGED <<row, checkoutVars, session, handlerVars, invited>>

DeliverFails(h, c) ==
    /\ hpc[h] = "idle"
    /\ session[c] = "paid"
    /\ Fault
    /\ UNCHANGED <<row, checkoutVars, session, acked, handlerVars, invited>>

(***************************************************************************)
(* invite, reached from fulfil and from retryInvite                        *)
(***************************************************************************)
RetryInvite(h) ==
    /\ hpc[h] = "idle"
    /\ row \in Granted
    /\ hpc' = [hpc EXCEPT ![h] = "invite"]
    /\ UNCHANGED <<row, checkoutVars, session, acked, event, invited, faults>>

\* The response: 2xx, which for a delivery answers its event.
Respond(h) ==
    /\ hpc' = [hpc EXCEPT ![h] = "idle"]
    /\ event' = [event EXCEPT ![h] = NoSession]
    /\ acked' = acked \cup ({event[h]} \ {NoSession})

AddCollaborator(h) ==
    /\ hpc[h] = "invite"
    /\ invited' = "member"
    /\ hpc' = [hpc EXCEPT ![h] = "added"]
    /\ UNCHANGED <<row, checkoutVars, session, acked, event, faults>>

\* GitHub answers with an error, or its answer is lost.
AddCollaboratorSwallowed(h) ==
    /\ hpc[h] = "invite"
    /\ invited' \in {invited, "member"}
    /\ hpc' = [hpc EXCEPT ![h] = "added"]
    /\ UNCHANGED <<row, checkoutVars, session, acked, event, faults>>

AddCollaboratorThrows(h) ==
    /\ hpc[h] = "invite"
    /\ hpc' = [hpc EXCEPT ![h] = "idle"]
    /\ event' = [event EXCEPT ![h] = NoSession]
    /\ UNCHANGED <<row, checkoutVars, session, acked, invited, faults>>

AddCollaboratorFails(h) ==
    /\ hpc[h] = "invite"
    /\ invited' \in {invited, "member"}
    /\ hpc' = [hpc EXCEPT ![h] = "failed"]
    /\ UNCHANGED <<row, checkoutVars, session, acked, event, faults>>

\* The UPDATE to invite_sent, guarded by the id alone.
RecordSent(h) ==
    /\ hpc[h] = "added"
    /\ row' = "invite_sent"
    /\ Respond(h)
    /\ UNCHANGED <<checkoutVars, session, invited, faults>>

RecordSentFails(h) ==
    /\ hpc[h] = "added"
    /\ Fault
    /\ hpc' = [hpc EXCEPT ![h] = "failed"]
    /\ UNCHANGED <<row, checkoutVars, session, acked, event, invited>>

FailedWhatever(s) == "invite_failed"
FailedUnlessSent(s) == IF s = "invite_sent" THEN s ELSE "invite_failed"

RecordFailed(h) ==
    /\ hpc[h] = "failed"
    /\ row' = FailedUnlessSent(row)
    /\ Respond(h)
    /\ UNCHANGED <<checkoutVars, session, invited, faults>>

\* The write fails too: logged, and still answered with 2xx.
RecordFailedFails(h) ==
    /\ hpc[h] = "failed"
    /\ Fault
    /\ Respond(h)
    /\ UNCHANGED <<row, checkoutVars, session, invited>>

HandlerLost(h) ==
    /\ hpc[h] # "idle"
    /\ Fault
    /\ hpc' = [hpc EXCEPT ![h] = "idle"]
    /\ event' = [event EXCEPT ![h] = NoSession]
    /\ UNCHANGED <<row, checkoutVars, session, acked, invited>>

(***************************************************************************)
(* The specification                                                       *)
(***************************************************************************)
Checkout(c) ==
    \/ Refuse(c) \/ Lookup(c) \/ InsertRow(c) \/ ExpireStale(c) \/ ExpireFails(c)
    \/ CreateSession(c) \/ RecordSession(c) \/ CheckoutLost(c) \/ CheckoutUnanswered(c)

Stripe(c) == Pay(c) \/ PayLater(c) \/ Settle(c)

Deliver(h, c) == DeliverWins(h, c) \/ DeliverIgnored(h, c)

Invite(h) ==
    \/ AddCollaborator(h) \/ AddCollaboratorFails(h)
    \/ RecordSent(h) \/ RecordFailed(h)

InviteFault(h) == RecordSentFails(h) \/ RecordFailedFails(h) \/ HandlerLost(h)

Next ==
    \/ \E c \in Checkouts : Checkout(c) \/ Stripe(c)
    \/ Refund
    \/ \E h \in Handlers : RetryInvite(h) \/ Invite(h) \/ InviteFault(h)
    \/ \E h \in Handlers, c \in Checkouts : Deliver(h, c) \/ DeliverFails(h, c)

Spec == Init /\ [][Next]_vars

\* A request that is running runs on, and Stripe delivers an event that was not
\* answered again and again.
Redeliver(c) == c \notin acked /\ \E h \in Handlers : Deliver(h, c)

FairSpec ==
    /\ Spec
    /\ \A h \in Handlers : WF_vars(Invite(h))
    /\ \A c \in Checkouts : SF_vars(Redeliver(c))

\* The executions in which the buyer's checkouts do not overlap.
OneAtATime ==
    \A c, d \in Checkouts :
        /\ cpc[c] \in {"expire", "insert", "create", "record"}
        /\ cpc[d] \in {"expire", "insert", "create", "record"}
        => c = d

OneAtATimeSpec == Init /\ [][Next /\ OneAtATime']_vars

(***************************************************************************)
(* Properties                                                              *)
(***************************************************************************)
\* Access (a status EntitlementService lets in, or the repo itself) is only
\* ever granted after Stripe has reported a session of this purchase as paid.
AccessWasPaid ==
    row \in Granted \/ invited # "never" => \E c \in Checkouts : session[c] = "paid"

\* The whole purchase is one in which access is granted once, by one delivery and
\* for a payment, is ended by a refund, and is brought back by nothing but an invite
\* that was under way when it was refunded.
Access == INSTANCE PurchaseAccess WITH
             paid <- \E c \in Checkouts : session[c] = "paid",
             access <- IF row \in Granted THEN "granted"
                       ELSE IF row = "refunded" THEN "revoked" ELSE "none",
             repo <- invited,
             underway <- {h \in Handlers : hpc[h] # "idle"}

ImplementsAccess == Access!Spec

\* Stripe stops delivering what was answered, so an event of a paid session may be
\* answered with 2xx only when its purchase has left pending.
AckedIsRecognised ==
    \A c \in acked : session[c] = "paid" => row \notin {"none", "pending"}

\* A purchase that is only paid, not yet invited or failed, has the delivery that
\* won the transition still at work on it, unless a request was lost.
PaidIsCarried ==
    row = "paid" => (\E h \in Handlers : event[h] # NoSession) \/ faults > 0

\* Webhook replays are no-ops: of all deliveries, of one session or of several,
\* at most one is ever on its way through invite.
OneDeliveryInvites ==
    \A g, h \in Handlers :
        event[g] # NoSession /\ event[h] # NoSession => g = h

\* A failed attempt that ends late never takes invite_sent back from a retry
\* that succeeded.
SentStays == [][row = "invite_sent" => row' \in {"invite_sent", "refunded"}]_vars

\* A row that says the invite was sent is true: GitHub had added the user, whom only
\* a refund has removed since.
SentWasInvited == row = "invite_sent" => invited # "never"

\* A refund can be overtaken by the invites that were under way when it was made,
\* and by nothing else: once they have ended, no replay, retry or late event brings
\* the purchase back or starts another invite.
RefundIsFinal ==
    [][row = "refunded" /\ (\A h \in Handlers : hpc[h] = "idle")
         => row' = "refunded" /\ \A h \in Handlers : hpc'[h] = "idle"]_vars

\* When checkouts do not overlap, and as long as no call has failed, the buyer
\* never has two sessions that can both still be paid.
Payable(c) == session[c] = "open" /\ cpc[c] = "url"
OnePayableSession ==
    faults = 0 => \A c, d \in Checkouts : Payable(c) /\ Payable(d) => c = d

\* Nor does a checkout, overlapping others or not, leave payable the session it
\* found: once it goes on to create its own, nobody can open that one any more.
FoundIsExpired ==
    faults = 0 =>
        \A c \in Checkouts :
            cpc[c] \in {"create", "record", "url"} /\ stale[c] # NoSession
                => session[stale[c]] # "open"

\* A session paid at once always gets its purchase out of pending.
PaymentIsRecognised ==
    \A c \in Checkouts : session[c] = "paid" ~> row \notin {"none", "pending"}

\* As long as no request is lost, no purchase stays paid without the outcome of
\* an invite: the handler that won the transition always writes one.
PaidIsResolved ==
    row = "paid" ~> row \in {"invite_sent", "invite_failed", "refunded"} \/ faults > 0

(***************************************************************************)
(* What a comment says, and the code does not ensure                       *)
(***************************************************************************)
\* purchases.service.ts:75-76, "expire it so the buyer can never complete two
\* sessions for one purchase (double charge)".
ChargedOnce ==
    \A c, d \in Checkouts : session[c] \in Completed /\ session[d] \in Completed => c = d
=============================================================================
