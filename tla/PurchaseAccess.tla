---------------------------- MODULE PurchaseAccess ----------------------------
(***************************************************************************)
(* What a purchase promises: access is granted once, for a payment; what   *)
(* ends it is a refund; and only an invite that was under way when it was  *)
(* refunded can bring it back.  Purchases implements it.                   *)
(***************************************************************************)
CONSTANT Handlers    \* the requests that may invite

VARIABLES
    paid,       \* whether the purchase has been paid for
    access,     \* none, granted or revoked
    repo,       \* the repo: the buyer was never added, is a member, was removed
    underway    \* the invites under way

vars == <<paid, access, repo, underway>>

Init ==
    /\ paid = FALSE
    /\ access = "none"
    /\ repo = "never"
    /\ underway = {}

Pay ==
    /\ paid' = TRUE
    /\ UNCHANGED <<access, repo, underway>>

Grant(h) ==
    /\ paid
    /\ access = "none"
    /\ h \notin underway
    /\ access' = "granted"
    /\ underway' = underway \cup {h}
    /\ UNCHANGED <<paid, repo>>

Retry(h) ==
    /\ access = "granted"
    /\ h \notin underway
    /\ underway' = underway \cup {h}
    /\ UNCHANGED <<paid, access, repo>>

Invite(h) ==
    /\ h \in underway
    /\ repo' \in {repo, "member"}
    /\ UNCHANGED <<paid, access, underway>>

\* The invite is over; if it records its outcome, the purchase is a granted one.
End(h) ==
    /\ h \in underway
    /\ underway' = underway \ {h}
    /\ access' \in {access, "granted"}
    /\ UNCHANGED <<paid, repo>>

Revoke ==
    /\ access = "granted"
    /\ access' = "revoked"
    /\ repo' = IF repo = "never" THEN "never" ELSE "removed"
    /\ UNCHANGED <<paid, underway>>

Next ==
    \/ Pay \/ Revoke
    \/ \E h \in Handlers : Grant(h) \/ Retry(h) \/ Invite(h) \/ End(h)

Spec == Init /\ [][Next]_vars
=============================================================================
