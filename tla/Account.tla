------------------------------- MODULE Account -------------------------------
(***************************************************************************)
(* The users table: rows that signups insert under unique(email), logins   *)
(* read, checkouts give a GitHub name to and invites read it from.  One    *)
(* user may buy several listings; there is one name for all of them.  What *)
(* Purchases models (sessions, faults, the outcome of an invite) is left   *)
(* out here: a purchase is pending or granted.                             *)
(*                                                                         *)
(* An address is typed as <<mailbox, letter case>>; a user's id is the     *)
(* signup that inserted the row.  A password stands for all those whose    *)
(* first 72 bytes, which bcrypt reads, are the same.                       *)
(***************************************************************************)
CONSTANTS
    Signups, Logins,        \* calls of POST /auth/signup and /auth/login
    Mailboxes, Passwords,   \* what they may send
    Checkouts, Handlers,    \* calls of POST /purchases/checkout; invites
    Listings, Names,        \* what may be bought; GitHub names
    None

VARIABLES
    users,          \* each id: email, passwordHash, githubUsername, or None
    apc, sent,      \* each signup or login: where it is, what it sent
    token,          \* the id in the token it was answered with
    cpc, cart,      \* each checkout: where it is; who, what, which name
    purchases,      \* the status for each id and listing
    hpc, order,     \* each handler: where it is, for whom and what
    addressee,      \* the name it has read
    access,         \* GitHub: who was invited for which purchase
    namesSince      \* history: the names a user had since a purchase was paid

authVars == <<apc, sent, token>>
checkoutVars == <<cpc, cart>>
inviteVars == <<hpc, order, addressee, access>>
vars == <<users, authVars, checkoutVars, purchases, inviteVars, namesSince>>

Calls == Signups \cup Logins
Typed == Mailboxes \X {"lower", "UPPER"}
Wares == Signups \X Listings
Row == [email : Typed, passwordHash : Passwords, githubUsername : Names \cup {None}]
Credentials == [email : Typed, password : Passwords]
Cart == [ware : Wares, name : Names \cup {None}]

ASSUME CallsAssumption == Signups \cap Logins = {}

ASSUME NoneAssumption ==
    /\ None \notin Signups \cup Names \cup Wares
    /\ None \notin Row \cup Credentials \cup Cart

TypeOK ==
    /\ users \in [Signups -> Row \cup {None}]
    /\ apc \in [Calls -> {"idle", "looked", "answered", "conflict", "unauthorized", "error", "lost"}]
    /\ sent \in [Calls -> Credentials \cup {None}]
    /\ token \in [Calls -> Signups \cup {None}]
    /\ cpc \in [Checkouts -> {"idle", "named", "buying", "done", "refused"}]
    /\ cart \in [Checkouts -> Cart \cup {None}]
    /\ purchases \in [Wares -> {"none", "pending", "granted"}]
    /\ hpc \in [Handlers -> {"idle", "invite", "add"}]
    /\ order \in [Handlers -> Wares \cup {None}]
    /\ addressee \in [Handlers -> Names \cup {None}]
    /\ access \in SUBSET [ware : Wares, name : Names]
    /\ namesSince \in [Wares -> SUBSET (Names \cup {None})]

Init ==
    /\ users = [i \in Signups |-> None]
    /\ apc = [q \in Calls |-> "idle"]
    /\ sent = [q \in Calls |-> None]
    /\ token = [q \in Calls |-> None]
    /\ cpc = [c \in Checkouts |-> "idle"]
    /\ cart = [c \in Checkouts |-> None]
    /\ purchases = [w \in Wares |-> "none"]
    /\ hpc = [h \in Handlers |-> "idle"]
    /\ order = [h \in Handlers |-> None]
    /\ addressee = [h \in Handlers |-> None]
    /\ access = {}
    /\ namesSince = [w \in Wares |-> {}]

(***************************************************************************)
(* signup and login                                                        *)
(***************************************************************************)
Normalized(email) == <<email[1], "lower">>

Exists(i) == users[i] # None
HasRow(email) == \E i \in Signups : Exists(i) /\ users[i].email = email

Send(q, email, password) ==
    /\ apc[q] = "idle"
    /\ sent' = [sent EXCEPT ![q] = [email |-> Normalized(email), password |-> password]]

\* The look-up: a generic conflict if there is a row.
SignupLooks(q, email, password) ==
    /\ Send(q, email, password)
    /\ apc' = [apc EXCEPT ![q] = IF HasRow(Normalized(email)) THEN "conflict" ELSE "looked"]
    /\ UNCHANGED <<users, token, checkoutVars, purchases, inviteVars, namesSince>>

\* After the hash: the INSERT, which unique(email) may refuse, a 500.
NeverTaken(email) == FALSE
Taken(email) == HasRow(email)

Insert(q) ==
    /\ apc[q] = "looked"
    /\ ~Taken(sent[q].email)
    /\ users' = [users EXCEPT ![q] = [email |-> sent[q].email,
                                      passwordHash |-> sent[q].password,
                                      githubUsername |-> None]]

SignupInserts(q) ==
    /\ Insert(q)
    /\ apc' = [apc EXCEPT ![q] = "answered"]
    /\ token' = [token EXCEPT ![q] = q]
    /\ UNCHANGED <<sent, checkoutVars, purchases, inviteVars, namesSince>>

\* The row is there and the answer never arrives.
SignupAnswerLost(q) ==
    /\ Insert(q)
    /\ apc' = [apc EXCEPT ![q] = "lost"]
    /\ UNCHANGED <<sent, token, checkoutVars, purchases, inviteVars, namesSince>>

SignupRefusedByTable(q) ==
    /\ apc[q] = "looked"
    /\ Taken(sent[q].email)
    /\ apc' = [apc EXCEPT ![q] = "error"]
    /\ UNCHANGED <<users, sent, token, checkoutVars, purchases, inviteVars, namesSince>>

\* One SELECT; what the comparison of hashes awaits does not change any more.
LoginOk(q, i, email, password) ==
    /\ Send(q, email, password)
    /\ Exists(i)
    /\ users[i].email = Normalized(email)
    /\ users[i].passwordHash = password
    /\ apc' = [apc EXCEPT ![q] = "answered"]
    /\ token' = [token EXCEPT ![q] = i]
    /\ UNCHANGED <<users, checkoutVars, purchases, inviteVars, namesSince>>

LoginRefused(q, email, password) ==
    /\ Send(q, email, password)
    /\ ~\E i \in Signups : /\ Exists(i)
                           /\ users[i].email = Normalized(email)
                           /\ users[i].passwordHash = password
    /\ apc' = [apc EXCEPT ![q] = "unauthorized"]
    /\ UNCHANGED <<users, token, checkoutVars, purchases, inviteVars, namesSince>>

\* JwtAuthGuard lets in whoever carries a token, as the id it names.
Authenticated(i) == \E q \in Calls : token[q] = i

(***************************************************************************)
(* checkout: the name, the look at it, the row                             *)
(***************************************************************************)
NameGivenOrNot(i, name) == name
NameAfter(i, name) == IF name = None THEN users[i].githubUsername ELSE name

CheckoutNames(c, w, name) ==
    /\ cpc[c] = "idle"
    /\ Authenticated(w[1])
    /\ cart' = [cart EXCEPT ![c] = [ware |-> w, name |-> name]]
    /\ users' = [users EXCEPT ![w[1]].githubUsername = NameAfter(w[1], name)]
    /\ namesSince' = [v \in Wares |->
                        IF v[1] = w[1] /\ purchases[v] = "granted"
                        THEN namesSince[v] \cup {NameAfter(w[1], name)} ELSE namesSince[v]]
    /\ cpc' = [cpc EXCEPT ![c] = "named"]
    /\ UNCHANGED <<authVars, purchases, inviteVars>>

\* GITHUB_USERNAME_REQUIRED, unless the user has a name.
CheckoutReadsUser(c) ==
    /\ cpc[c] = "named"
    /\ cpc' = [cpc EXCEPT ![c] =
                 IF users[cart[c].ware[1]].githubUsername = None THEN "refused" ELSE "buying"]
    /\ UNCHANGED <<users, authVars, cart, purchases, inviteVars, namesSince>>

CheckoutBuys(c) ==
    /\ cpc[c] = "buying"
    /\ purchases[cart[c].ware] # "granted"
    /\ purchases' = [purchases EXCEPT ![cart[c].ware] = "pending"]
    /\ cpc' = [cpc EXCEPT ![c] = "done"]
    /\ UNCHANGED <<users, authVars, cart, inviteVars, namesSince>>

CheckoutConflict(c) ==
    /\ cpc[c] = "buying"
    /\ purchases[cart[c].ware] = "granted"
    /\ cpc' = [cpc EXCEPT ![c] = "refused"]
    /\ UNCHANGED <<users, authVars, cart, purchases, inviteVars, namesSince>>

(***************************************************************************)
(* fulfil, retryInvite, invite                                             *)
(***************************************************************************)
Deliver(h, w) ==
    /\ hpc[h] = "idle"
    /\ purchases[w] = "pending"
    /\ purchases' = [purchases EXCEPT ![w] = "granted"]
    /\ namesSince' = [namesSince EXCEPT ![w] = {users[w[1]].githubUsername}]
    /\ hpc' = [hpc EXCEPT ![h] = "invite"]
    /\ order' = [order EXCEPT ![h] = w]
    /\ UNCHANGED <<users, authVars, checkoutVars, addressee, access>>

RetryInvite(h, w) ==
    /\ hpc[h] = "idle"
    /\ Authenticated(w[1])
    /\ purchases[w] = "granted"
    /\ hpc' = [hpc EXCEPT ![h] = "invite"]
    /\ order' = [order EXCEPT ![h] = w]
    /\ UNCHANGED <<users, authVars, checkoutVars, purchases, addressee, access, namesSince>>

\* The first SELECT of invite.
NameAtCheckout(w) ==
    LET c == CHOOSE d \in Checkouts : cpc[d] = "done" /\ cart[d].ware = w
    IN  IF cart[c].name = None THEN users[w[1]].githubUsername ELSE cart[c].name
NameFor(w) == users[w[1]].githubUsername

InviteReadsName(h) ==
    /\ hpc[h] = "invite"
    /\ NameFor(order[h]) # None
    /\ addressee' = [addressee EXCEPT ![h] = NameFor(order[h])]
    /\ hpc' = [hpc EXCEPT ![h] = "add"]
    /\ UNCHANGED <<users, authVars, checkoutVars, purchases, order, access, namesSince>>

AddRepoCollaborator(h) ==
    /\ hpc[h] = "add"
    /\ access' = access \cup {[ware |-> order[h], name |-> addressee[h]]}
    /\ hpc' = [hpc EXCEPT ![h] = "idle"]
    /\ UNCHANGED <<users, authVars, checkoutVars, purchases, order, addressee, namesSince>>

\* GitHub refuses, the name is missing, the process is lost.
InviteEnds(h) ==
    /\ hpc[h] # "idle"
    /\ hpc' = [hpc EXCEPT ![h] = "idle"]
    /\ UNCHANGED <<users, authVars, checkoutVars, purchases, order, addressee, access, namesSince>>

Next ==
    \/ \E q \in Signups, e \in Typed, p \in Passwords : SignupLooks(q, e, p)
    \/ \E q \in Signups : SignupInserts(q) \/ SignupAnswerLost(q) \/ SignupRefusedByTable(q)
    \/ \E q \in Logins, e \in Typed, p \in Passwords :
          LoginRefused(q, e, p) \/ \E i \in Signups : LoginOk(q, i, e, p)
    \/ \E c \in Checkouts, w \in Wares, n \in Names \cup {None} : CheckoutNames(c, w, n)
    \/ \E c \in Checkouts : CheckoutReadsUser(c) \/ CheckoutBuys(c) \/ CheckoutConflict(c)
    \/ \E h \in Handlers, w \in Wares : Deliver(h, w) \/ RetryInvite(h, w)
    \/ \E h \in Handlers : InviteReadsName(h) \/ AddRepoCollaborator(h) \/ InviteEnds(h)

Spec == Init /\ [][Next]_vars

(***************************************************************************)
(* Properties                                                              *)
(***************************************************************************)
\* Whatever case an address is typed in and however signups for it overlap, a
\* mailbox has one account; a token opens the account of the mailbox that was
\* sent, to who sent its password; and who is told that the address is taken is
\* told the truth.
TokensAreTheOwners ==
    /\ \A i, j \in Signups :
          Exists(i) /\ Exists(j) /\ users[i].email[1] = users[j].email[1] => i = j
    /\ \A q \in Calls : token[q] # None =>
          /\ Exists(token[q])
          /\ users[token[q]].email[1] = sent[q].email[1]
          /\ users[token[q]].passwordHash = sent[q].password
    /\ \A q \in Signups : apc[q] \in {"conflict", "error"} => HasRow(sent[q].email)

\* invite's look at a missing name is never needed: no checkout, of this listing or
\* of another, takes the name away from a user who has something to be invited to.
PaidHasAName ==
    \A w \in Wares : purchases[w] # "none" => Exists(w[1]) /\ users[w[1]].githubUsername # None

\* The name may change under a purchase at any time, by the checkout of another
\* listing too.  An invite never goes to one that was given up before the purchase
\* was paid.
InvitedSincePaid == \A a \in access : a.name \in namesSince[a.ware]
=============================================================================
