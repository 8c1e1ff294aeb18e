---------------------------- MODULE AccountProofs ----------------------------
(***************************************************************************)
(* Accounts and the names that invites use, for every number of calls,     *)
(* mailboxes, checkouts and invites.  The invariant says, besides what the *)
(* properties say, that a row is exactly a signup's own, that addresses    *)
(* are kept normalized, and what each checkout and each invite has in hand.*)
(***************************************************************************)
EXTENDS Account, TLAPS

(***************************************************************************)
(* The inductive invariant                                                 *)
(***************************************************************************)
RowsAreTheSignups ==
    \A i \in Signups :
        /\ Exists(i) <=> apc[i] \in {"answered", "lost"}
        /\ Exists(i) => /\ users[i].email = sent[i].email
                        /\ users[i].passwordHash = sent[i].password

SentIsNormalized ==
    \A q \in Calls :
        /\ apc[q] # "idle" <=> sent[q] # None
        /\ sent[q] # None => sent[q].email[2] = "lower"

EmailsAreUnique ==
    \A i, j \in Signups :
        Exists(i) /\ Exists(j) /\ users[i].email = users[j].email => i = j

TokensMatch ==
    \A q \in Calls : token[q] # None =>
        /\ sent[q] # None
        /\ Exists(token[q])
        /\ users[token[q]].email = sent[q].email
        /\ users[token[q]].passwordHash = sent[q].password

RefusalsAreTrue ==
    \A q \in Signups : apc[q] \in {"conflict", "error"} => HasRow(sent[q].email)

CartsHaveBuyers ==
    \A c \in Checkouts : cpc[c] # "idle" =>
        /\ cart[c] # None
        /\ Exists(cart[c].ware[1])
        /\ cpc[c] = "buying" => users[cart[c].ware[1]].githubUsername # None

OrdersAreGranted ==
    \A h \in Handlers : hpc[h] # "idle" =>
        /\ order[h] # None
        /\ purchases[order[h]] = "granted"
        /\ hpc[h] = "add" => addressee[h] # None /\ addressee[h] \in namesSince[order[h]]

AccessIsGranted == \A a \in access : purchases[a.ware] = "granted"

NamesAreKept ==
    \A w \in Wares : purchases[w] = "granted" => users[w[1]].githubUsername \in namesSince[w]

AuthInv ==
    /\ RowsAreTheSignups /\ SentIsNormalized /\ EmailsAreUnique
    /\ TokensMatch /\ RefusalsAreTrue

BuyInv == CartsHaveBuyers /\ PaidHasAName

InviteInv == OrdersAreGranted /\ AccessIsGranted /\ NamesAreKept /\ InvitedSincePaid

IInv == TypeOK /\ AuthInv /\ BuyInv /\ InviteInv

LEMMA InitIInv == Init => IInv
<1>1. Init => TypeOK
  BY DEF Init, TypeOK
<1>2. Init => AuthInv
  BY DEF Init, AuthInv, RowsAreTheSignups, SentIsNormalized, EmailsAreUnique,
         TokensMatch, RefusalsAreTrue, Exists, Calls
<1>3. Init => BuyInv
  BY DEF Init, BuyInv, CartsHaveBuyers, PaidHasAName
<1>4. Init => InviteInv
  BY DEF Init, InviteInv, OrdersAreGranted, AccessIsGranted, NamesAreKept, InvitedSincePaid
<1>5. QED
  BY <1>1, <1>2, <1>3, <1>4 DEF IInv

(***************************************************************************)
(* What a step does to the rows: signups add their own, checkouts change   *)
(* names, and nothing else touches the table.                              *)
(***************************************************************************)
\* A row once there keeps its address and its password, and a name, once given, is
\* never taken away.
RowsStay ==
    \A i \in Signups : Exists(i) =>
        /\ Exists(i)'
        /\ users'[i].email = users[i].email
        /\ users'[i].passwordHash = users[i].passwordHash
        /\ users[i].githubUsername # None => users'[i].githubUsername # None

LEMMA NamesStep ==
    ASSUME IInv, NEW c \in Checkouts, NEW w \in Wares, NEW n \in Names \cup {None},
           CheckoutNames(c, w, n)
    PROVE  /\ w[1] \in Signups /\ Exists(w[1])
           /\ NameAfter(w[1], n) \in Names \cup {None}
           /\ users[w[1]].githubUsername # None => NameAfter(w[1], n) # None
           /\ users' \in [Signups -> Row \cup {None}]
           /\ \A i \in Signups \ {w[1]} : users'[i] = users[i]
           /\ users'[w[1]].email = users[w[1]].email
           /\ users'[w[1]].passwordHash = users[w[1]].passwordHash
           /\ users'[w[1]].githubUsername = NameAfter(w[1], n)
           /\ users'[w[1]] # None
<1>1. w[1] \in Signups
  BY DEF Wares
<1>2. Exists(w[1])
  BY <1>1, NoneAssumption DEF CheckoutNames, Authenticated, IInv, AuthInv, TokensMatch
<1>3. users[w[1]] \in Row
  BY <1>1, <1>2 DEF IInv, TypeOK, Exists
<1>4. /\ NameAfter(w[1], n) \in Names \cup {None}
      /\ users[w[1]].githubUsername # None => NameAfter(w[1], n) # None
  BY <1>3 DEF NameAfter, Row
<1>5. [users[w[1]] EXCEPT !.githubUsername = NameAfter(w[1], n)] \in Row
  BY <1>3, <1>4 DEF Row
<1>6. users' = [users EXCEPT ![w[1]] = [users[w[1]] EXCEPT !.githubUsername = NameAfter(w[1], n)]]
  BY DEF CheckoutNames
<1>7. users \in [Signups -> Row \cup {None}]
  BY DEF IInv, TypeOK
<1>8. users'[w[1]] = [users[w[1]] EXCEPT !.githubUsername = NameAfter(w[1], n)]
  BY <1>1, <1>6, <1>7
<1>9. /\ users'[w[1]].email = users[w[1]].email
      /\ users'[w[1]].passwordHash = users[w[1]].passwordHash
      /\ users'[w[1]].githubUsername = NameAfter(w[1], n)
  BY <1>3, <1>8 DEF Row
<1>10. users'[w[1]] # None
  BY <1>5, <1>8, NoneAssumption
<1>11. QED
  BY <1>1, <1>2, <1>4, <1>5, <1>6, <1>7, <1>9, <1>10

LEMMA InsertStep ==
    ASSUME IInv, NEW q \in Signups, Insert(q)
    PROVE  /\ sent[q] \in Credentials
           /\ ~Exists(q)
           /\ users' = [users EXCEPT ![q] = [email |-> sent[q].email,
                                             passwordHash |-> sent[q].password,
                                             githubUsername |-> None]]
           /\ users' \in [Signups -> Row \cup {None}]
           /\ users'[q] # None
<1>1. apc[q] = "looked" /\ q \in Calls
  BY DEF Insert, Calls
<1>2. sent[q] \in Credentials
  BY <1>1 DEF IInv, TypeOK, AuthInv, SentIsNormalized
<1>3. ~Exists(q)
  BY <1>1 DEF IInv, AuthInv, RowsAreTheSignups
<1>4. [email |-> sent[q].email, passwordHash |-> sent[q].password, githubUsername |-> None] \in Row
  BY <1>2 DEF Credentials, Row
<1>5. QED
  BY <1>2, <1>3, <1>4, NoneAssumption DEF Insert, IInv, TypeOK

LEMMA RowsStep == IInv /\ [Next]_vars => RowsStay
<1> SUFFICES ASSUME IInv, [Next]_vars PROVE RowsStay
  OBVIOUS
<1>1. CASE \E q \in Signups : SignupInserts(q) \/ SignupAnswerLost(q)
  <2>1. PICK q \in Signups : Insert(q)
    BY <1>1 DEF SignupInserts, SignupAnswerLost
  <2>2. QED
    BY <2>1, InsertStep DEF RowsStay, Exists, IInv, TypeOK
<1>2. CASE \E c \in Checkouts, w \in Wares, n \in Names \cup {None} : CheckoutNames(c, w, n)
  BY <1>2, NamesStep DEF RowsStay, Exists
<1>3. CASE UNCHANGED users
  BY <1>3 DEF RowsStay, Exists
<1>4. QED
  BY <1>1, <1>2, <1>3
  DEF Next, vars, SignupLooks, SignupRefusedByTable, LoginOk, LoginRefused, CheckoutReadsUser,
      CheckoutBuys, CheckoutConflict, Deliver, RetryInvite, InviteReadsName, AddRepoCollaborator,
      InviteEnds

(***************************************************************************)
(* The disjuncts of Next, by what they touch                               *)
(***************************************************************************)
SignupStep(q) ==
    \/ \E e \in Typed, p \in Passwords : SignupLooks(q, e, p)
    \/ SignupInserts(q) \/ SignupAnswerLost(q) \/ SignupRefusedByTable(q)

LoginStep(q) ==
    \E e \in Typed, p \in Passwords :
        LoginRefused(q, e, p) \/ \E i \in Signups : LoginOk(q, i, e, p)

CheckoutStep(c) ==
    \/ \E w \in Wares, n \in Names \cup {None} : CheckoutNames(c, w, n)
    \/ CheckoutReadsUser(c) \/ CheckoutBuys(c) \/ CheckoutConflict(c)

InviteStep(h) ==
    \/ \E w \in Wares : Deliver(h, w) \/ RetryInvite(h, w)
    \/ InviteReadsName(h) \/ AddRepoCollaborator(h) \/ InviteEnds(h)

LEMMA NextCases ==
    ASSUME Next
    PROVE  \/ \E q \in Signups : SignupStep(q)
           \/ \E q \in Logins : LoginStep(q)
           \/ \E c \in Checkouts : CheckoutStep(c)
           \/ \E h \in Handlers : InviteStep(h)
  BY DEF Next, SignupStep, LoginStep, CheckoutStep, InviteStep

(***************************************************************************)
(* Types                                                                   *)
(***************************************************************************)
LEMMA SendStep ==
    ASSUME TypeOK, NEW q \in Calls, NEW e \in Typed, NEW p \in Passwords, Send(q, e, p)
    PROVE  /\ Normalized(e) \in Typed
           /\ sent' \in [Calls -> Credentials \cup {None}]
           /\ sent'[q] = [email |-> Normalized(e), password |-> p]
           /\ sent'[q] # None
           /\ sent'[q].email = Normalized(e)
           /\ sent'[q].password = p
           /\ \A r \in Calls \ {q} : sent'[r] = sent[r]
<1>1. Normalized(e) \in Typed
  BY DEF Typed, Normalized
<1>2. [email |-> Normalized(e), password |-> p] \in Credentials
  BY <1>1 DEF Credentials
<1>3. QED
  BY <1>1, <1>2, NoneAssumption DEF Send, TypeOK

LEMMA TypeStep == IInv /\ [Next]_vars => TypeOK'
<1> SUFFICES ASSUME IInv, [Next]_vars PROVE TypeOK'
  OBVIOUS
<1> USE DEF TypeOK, IInv
<1>1. CASE \E q \in Signups : SignupStep(q)
  <2>1. PICK q \in Signups : SignupStep(q)
    BY <1>1
  <2>2. q \in Calls
    BY DEF Calls
  <2>3. CASE \E e \in Typed, p \in Passwords : SignupLooks(q, e, p)
    BY <2>2, <2>3, SendStep DEF SignupLooks, checkoutVars, inviteVars
  <2>4. CASE SignupInserts(q)
    BY <2>2, <2>4, InsertStep DEF SignupInserts, checkoutVars, inviteVars
  <2>5. CASE SignupAnswerLost(q)
    BY <2>2, <2>5, InsertStep DEF SignupAnswerLost, checkoutVars, inviteVars
  <2>6. CASE SignupRefusedByTable(q)
    BY <2>2, <2>6 DEF SignupRefusedByTable, checkoutVars, inviteVars
  <2>7. QED
    BY <2>1, <2>3, <2>4, <2>5, <2>6 DEF SignupStep
<1>2. CASE \E q \in Logins : LoginStep(q)
  <2>1. PICK q \in Logins, e \in Typed, p \in Passwords :
            LoginRefused(q, e, p) \/ \E i \in Signups : LoginOk(q, i, e, p)
    BY <1>2 DEF LoginStep
  <2>2. q \in Calls
    BY DEF Calls
  <2>3. CASE LoginRefused(q, e, p)
    BY <2>2, <2>3, SendStep DEF LoginRefused, checkoutVars, inviteVars
  <2>4. CASE \E i \in Signups : LoginOk(q, i, e, p)
    <3>1. PICK i \in Signups : LoginOk(q, i, e, p)
      BY <2>4
    <3>2. Send(q, e, p) /\ token' \in [Calls -> Signups \cup {None}]
      BY <2>2, <3>1 DEF LoginOk
    <3>3. sent' \in [Calls -> Credentials \cup {None}]
      BY <2>2, <3>2, SendStep
    <3>4. QED
      BY <2>2, <3>1, <3>2, <3>3 DEF LoginOk, checkoutVars, inviteVars
  <2>5. QED
    BY <2>1, <2>3, <2>4
<1>3. CASE \E c \in Checkouts : CheckoutStep(c)
  <2>1. PICK c \in Checkouts : CheckoutStep(c)
    BY <1>3
  <2>2. ASSUME NEW w \in Wares, NEW n \in Names \cup {None}, CheckoutNames(c, w, n)
        PROVE  TypeOK'
    <3>1. users' \in [Signups -> Row \cup {None}]
      BY <2>2, NamesStep
    <3>2. cart' \in [Checkouts -> Cart \cup {None}]
      BY <2>2 DEF CheckoutNames, Cart
    <3>3. namesSince' \in [Wares -> SUBSET (Names \cup {None})]
      <4>1. NameAfter(w[1], n) \in Names \cup {None}
        BY <2>2, NamesStep
      <4>2. QED
        BY <2>2, <4>1 DEF CheckoutNames
    <3>4. QED
      BY <2>2, <3>1, <3>2, <3>3 DEF CheckoutNames, authVars, inviteVars
  <2>3. CASE CheckoutReadsUser(c) \/ CheckoutConflict(c)
    BY <2>3 DEF CheckoutReadsUser, CheckoutConflict, authVars, inviteVars
  <2>4. CASE CheckoutBuys(c)
    BY <2>4 DEF CheckoutBuys, authVars, inviteVars
  <2>5. QED
    BY <2>1, <2>2, <2>3, <2>4 DEF CheckoutStep
<1>4. CASE \E h \in Handlers : InviteStep(h)
  <2>1. PICK h \in Handlers : InviteStep(h)
    BY <1>4
  <2>2. ASSUME NEW w \in Wares, Deliver(h, w)
        PROVE  TypeOK'
    <3>1. w[1] \in Signups /\ users[w[1]] \in Row
      BY <2>2, NoneAssumption DEF Deliver, Wares, BuyInv, PaidHasAName, Exists
    <3>2. users[w[1]].githubUsername \in Names \cup {None}
      BY <3>1 DEF Row
    <3>3. QED
      BY <2>2, <3>2 DEF Deliver, authVars, checkoutVars
  <2>3. ASSUME NEW w \in Wares, RetryInvite(h, w)
        PROVE  TypeOK'
    BY <2>3 DEF RetryInvite, authVars, checkoutVars
  <2>4. CASE InviteReadsName(h)
    <3>1. order[h] \in Wares
      BY <2>4 DEF InviteReadsName, InviteInv, OrdersAreGranted
    <3>2. order[h][1] \in Signups /\ users[order[h][1]] \in Row
      BY <2>4, <3>1, NoneAssumption
      DEF InviteReadsName, InviteInv, OrdersAreGranted, BuyInv, PaidHasAName, Exists, Wares
    <3>3. NameFor(order[h]) \in Names \cup {None}
      BY <3>2 DEF NameFor, Row
    <3>4. QED
      BY <2>4, <3>3 DEF InviteReadsName, authVars, checkoutVars
  <2>5. CASE AddRepoCollaborator(h)
    <3>1. order[h] \in Wares /\ addressee[h] \in Names
      BY <2>5 DEF AddRepoCollaborator, InviteInv, OrdersAreGranted
    <3>2. QED
      BY <2>5, <3>1 DEF AddRepoCollaborator, authVars, checkoutVars
  <2>6. CASE InviteEnds(h)
    BY <2>6 DEF InviteEnds, authVars, checkoutVars
  <2>7. QED
    BY <2>1, <2>2, <2>3, <2>4, <2>5, <2>6 DEF InviteStep
<1>5. CASE UNCHANGED vars
  BY <1>5 DEF vars, authVars, checkoutVars, inviteVars
<1>6. QED
  BY <1>1, <1>2, <1>3, <1>4, <1>5, NextCases

(***************************************************************************)
(* Signups and logins                                                      *)
(***************************************************************************)
LEMMA AuthUnchanged ==
    ASSUME IInv, UNCHANGED authVars, RowsStay,
           \A i \in Signups : Exists(i)' => Exists(i)
    PROVE  AuthInv'
<1> USE DEF IInv, AuthInv, RowsStay, authVars
<1>1. RowsAreTheSignups'
  BY DEF RowsAreTheSignups, Exists
<1>2. SentIsNormalized'
  BY DEF SentIsNormalized
<1>3. EmailsAreUnique'
  BY DEF EmailsAreUnique, Exists
<1>4. TokensMatch'
  BY DEF TokensMatch, TypeOK, Exists
<1>5. RefusalsAreTrue'
  BY DEF RefusalsAreTrue, HasRow, Exists
<1>6. QED
  BY <1>1, <1>2, <1>3, <1>4, <1>5

LEMMA SignupAuth ==
    ASSUME IInv, RowsStay, NEW q \in Signups, SignupStep(q)
    PROVE  AuthInv'
<1> USE DEF IInv, AuthInv
<1>1. q \in Calls /\ Signups \subseteq Calls
  BY DEF Calls
<1>2. ASSUME NEW e \in Typed, NEW p \in Passwords, SignupLooks(q, e, p)
      PROVE  AuthInv'
  <2>1. /\ Send(q, e, p) /\ apc[q] = "idle" /\ sent[q] = None /\ ~Exists(q)
        /\ UNCHANGED <<users, token>>
        /\ apc'[q] = IF HasRow(Normalized(e)) THEN "conflict" ELSE "looked"
        /\ \A r \in Calls \ {q} : apc'[r] = apc[r]
    BY <1>1, <1>2 DEF SignupLooks, Send, SentIsNormalized, RowsAreTheSignups, TypeOK
  <2>2. /\ sent'[q] # None /\ sent'[q].email = Normalized(e)
        /\ \A r \in Calls \ {q} : sent'[r] = sent[r]
    BY <1>1, <2>1, SendStep
  <2>3. RowsAreTheSignups'
    BY <1>1, <2>1, <2>2 DEF RowsAreTheSignups, Exists
  <2>4. SentIsNormalized'
    BY <1>1, <2>1, <2>2 DEF SentIsNormalized, Normalized
  <2>5. EmailsAreUnique'
    BY <2>1 DEF EmailsAreUnique, Exists
  <2>6. TokensMatch'
    BY <2>1, <2>2 DEF TokensMatch, Exists
  <2>7. RefusalsAreTrue'
    BY <1>1, <2>1, <2>2 DEF RefusalsAreTrue, HasRow, Exists
  <2>8. QED
    BY <2>3, <2>4, <2>5, <2>6, <2>7
<1>3. CASE SignupInserts(q) \/ SignupAnswerLost(q)
  <2>1. /\ Insert(q) /\ apc[q] = "looked" /\ UNCHANGED sent
        /\ apc'[q] \in {"answered", "lost"}
        /\ \A r \in Calls \ {q} : apc'[r] = apc[r] /\ token'[r] = token[r]
        /\ token'[q] \in {token[q], q}
    BY <1>1, <1>3 DEF SignupInserts, SignupAnswerLost, Insert, TypeOK
  <2>2. /\ sent[q] \in Credentials
        /\ ~Exists(q) /\ Exists(q)'
        /\ users'[q].email = sent[q].email /\ users'[q].passwordHash = sent[q].password
        /\ \A i \in Signups \ {q} : users'[i] = users[i]
    BY <2>1, InsertStep DEF TypeOK, Exists
  <2>3. sent[q] # None
    BY <2>2, NoneAssumption
  <2>4. RowsAreTheSignups'
    BY <1>1, <2>1, <2>2 DEF RowsAreTheSignups, Exists
  <2>5. SentIsNormalized'
    BY <1>1, <2>1, <2>3 DEF SentIsNormalized
  <2>6. EmailsAreUnique'
    BY <2>1, <2>2 DEF EmailsAreUnique, Exists, Insert, Taken, HasRow
  <2>7. TokensMatch'
    BY <1>1, <2>1, <2>2, <2>3 DEF TokensMatch, Exists, TypeOK
  <2>8. RefusalsAreTrue'
    BY <1>1, <2>1, <2>2 DEF RefusalsAreTrue, HasRow, Exists
  <2>9. QED
    BY <2>4, <2>5, <2>6, <2>7, <2>8
<1>4. CASE SignupRefusedByTable(q)
  <2>1. /\ apc[q] = "looked" /\ apc'[q] = "error" /\ HasRow(sent[q].email)
        /\ \A r \in Calls \ {q} : apc'[r] = apc[r]
        /\ UNCHANGED <<users, sent, token>>
    BY <1>1, <1>4 DEF SignupRefusedByTable, TypeOK, Taken
  <2>2. RowsAreTheSignups'
    BY <1>1, <2>1 DEF RowsAreTheSignups, Exists
  <2>3. SentIsNormalized'
    BY <1>1, <2>1 DEF SentIsNormalized
  <2>4. EmailsAreUnique' /\ TokensMatch'
    BY <2>1 DEF EmailsAreUnique, TokensMatch, Exists
  <2>5. RefusalsAreTrue'
    BY <1>1, <2>1 DEF RefusalsAreTrue, HasRow, Exists
  <2>6. QED
    BY <2>2, <2>3, <2>4, <2>5
<1>5. QED
  BY <1>2, <1>3, <1>4 DEF SignupStep

LEMMA LoginAuth ==
    ASSUME IInv, NEW q \in Logins, LoginStep(q)
    PROVE  AuthInv'
<1> USE DEF IInv, AuthInv
<1>1. q \in Calls /\ q \notin Signups /\ Signups \subseteq Calls
  BY CallsAssumption DEF Calls
<1>2. PICK e \in Typed, p \in Passwords :
          LoginRefused(q, e, p) \/ \E i \in Signups : LoginOk(q, i, e, p)
  BY DEF LoginStep
<1>3. /\ Send(q, e, p) /\ sent[q] = None /\ UNCHANGED users
      /\ apc'[q] \in {"answered", "unauthorized"}
      /\ \A r \in Calls \ {q} : apc'[r] = apc[r] /\ token'[r] = token[r]
      /\ \/ token'[q] = token[q]
         \/ /\ token'[q] \in Signups /\ Exists(token'[q])
            /\ users[token'[q]].email = Normalized(e)
            /\ users[token'[q]].passwordHash = p
  BY <1>1, <1>2 DEF LoginRefused, LoginOk, Send, SentIsNormalized, TypeOK
<1>4. /\ sent'[q] # None /\ sent'[q].email = Normalized(e) /\ sent'[q].password = p
      /\ \A r \in Calls \ {q} : sent'[r] = sent[r]
  BY <1>1, <1>3, SendStep
<1>5. RowsAreTheSignups'
  BY <1>1, <1>3, <1>4 DEF RowsAreTheSignups, Exists
<1>6. SentIsNormalized'
  BY <1>1, <1>3, <1>4 DEF SentIsNormalized, Normalized
<1>7. EmailsAreUnique'
  BY <1>3 DEF EmailsAreUnique, Exists
<1>8. TokensMatch'
  BY <1>1, <1>3, <1>4 DEF TokensMatch, Exists
<1>9. RefusalsAreTrue'
  BY <1>1, <1>3, <1>4 DEF RefusalsAreTrue, HasRow, Exists
<1>10. QED
  BY <1>5, <1>6, <1>7, <1>8, <1>9

LEMMA AuthStep == IInv /\ [Next]_vars => AuthInv'
<1> SUFFICES ASSUME IInv, [Next]_vars PROVE AuthInv'
  OBVIOUS
<1>1. RowsStay
  BY RowsStep
<1>2. CASE \E q \in Signups : SignupStep(q)
  BY <1>1, <1>2, SignupAuth
<1>3. CASE \E q \in Logins : LoginStep(q)
  BY <1>3, LoginAuth
<1>4. CASE \E c \in Checkouts : CheckoutStep(c)
  <2>1. PICK c \in Checkouts : CheckoutStep(c)
    BY <1>4
  <2>2. ASSUME NEW w \in Wares, NEW n \in Names \cup {None}, CheckoutNames(c, w, n)
        PROVE  AuthInv'
    <3>1. \A i \in Signups : Exists(i)' => Exists(i)
      BY <2>2, NamesStep DEF Exists
    <3>2. QED
      BY <1>1, <2>2, <3>1, AuthUnchanged DEF CheckoutNames
  <2>3. CASE CheckoutReadsUser(c) \/ CheckoutBuys(c) \/ CheckoutConflict(c)
    BY <1>1, <2>3, AuthUnchanged DEF CheckoutReadsUser, CheckoutBuys, CheckoutConflict, Exists
  <2>4. QED
    BY <2>1, <2>2, <2>3 DEF CheckoutStep
<1>5. CASE \E h \in Handlers : InviteStep(h)
  BY <1>1, <1>5, AuthUnchanged
  DEF InviteStep, Deliver, RetryInvite, InviteReadsName, AddRepoCollaborator, InviteEnds, Exists
<1>6. CASE UNCHANGED vars
  BY <1>1, <1>6, AuthUnchanged DEF vars, Exists
<1>7. QED
  BY <1>2, <1>3, <1>4, <1>5, <1>6, NextCases

(***************************************************************************)
(* Checkouts                                                               *)
(***************************************************************************)
LEMMA BuyUnchanged ==
    ASSUME IInv, UNCHANGED <<cpc, cart, purchases>>, RowsStay
    PROVE  BuyInv'
<1> USE DEF IInv, BuyInv, RowsStay
<1>1. CartsHaveBuyers'
  <2> SUFFICES ASSUME NEW c \in Checkouts, cpc[c] # "idle"
               PROVE  /\ cart[c] # None
                      /\ Exists(cart[c].ware[1])'
                      /\ cpc[c] = "buying" => users'[cart[c].ware[1]].githubUsername # None
    BY DEF CartsHaveBuyers, Exists
  <2>1. cart[c] # None /\ cart[c].ware[1] \in Signups
    BY DEF CartsHaveBuyers, TypeOK, Cart, Wares
  <2>2. QED
    BY <2>1 DEF CartsHaveBuyers, Exists
<1>2. PaidHasAName'
  BY DEF PaidHasAName, Wares, Exists
<1>3. QED
  BY <1>1, <1>2

LEMMA BuyStep == IInv /\ [Next]_vars => BuyInv'
<1> SUFFICES ASSUME IInv, [Next]_vars PROVE BuyInv'
  OBVIOUS
<1> USE DEF IInv, BuyInv
<1>1. RowsStay
  BY RowsStep
<1>2. CASE \/ \E q \in Signups : SignupStep(q)
           \/ \E q \in Logins : LoginStep(q)
           \/ UNCHANGED vars
  <2>1. UNCHANGED <<cpc, cart, purchases>>
    BY <1>2 DEF SignupStep, LoginStep, SignupLooks, SignupInserts, SignupAnswerLost,
                SignupRefusedByTable, LoginOk, LoginRefused, checkoutVars, vars
  <2>2. QED
    BY <1>1, <2>1, BuyUnchanged
<1>3. CASE \E c \in Checkouts : CheckoutStep(c)
  <2>1. PICK c \in Checkouts : CheckoutStep(c)
    BY <1>3
  <2>2. ASSUME NEW w \in Wares, NEW n \in Names \cup {None}, CheckoutNames(c, w, n)
        PROVE  BuyInv'
    <3>1. /\ cart'[c] = [ware |-> w, name |-> n] /\ cart'[c] \in Cart /\ cpc'[c] = "named"
          /\ \A d \in Checkouts \ {c} : cart'[d] = cart[d] /\ cpc'[d] = cpc[d]
          /\ UNCHANGED purchases
      BY <2>2 DEF CheckoutNames, TypeOK, Cart
    <3>2. cart'[c] # None /\ cart'[c].ware = w
      BY <3>1, NoneAssumption
    <3>3. Exists(w[1])'
      BY <2>2, NamesStep DEF Exists
    <3>4. CartsHaveBuyers'
      <4> SUFFICES ASSUME NEW d \in Checkouts, cpc'[d] # "idle"
                   PROVE  /\ cart'[d] # None
                          /\ users'[cart'[d].ware[1]] # None
                          /\ cpc'[d] = "buying" => users'[cart'[d].ware[1]].githubUsername # None
        BY DEF CartsHaveBuyers, Exists
      <4>1. CASE d = c
        BY <3>1, <3>2, <3>3, <4>1 DEF Exists
      <4>2. CASE d # c
        <5>1. cart[d] # None /\ cart[d].ware[1] \in Signups
          BY <3>1, <4>2 DEF CartsHaveBuyers, TypeOK, Cart, Wares
        <5>2. QED
          BY <1>1, <3>1, <4>2, <5>1 DEF CartsHaveBuyers, RowsStay, Exists
      <4>3. QED
        BY <4>1, <4>2
    <3>5. PaidHasAName'
      BY <1>1, <3>1 DEF PaidHasAName, RowsStay, Wares, Exists
    <3>6. QED
      BY <3>4, <3>5
  <2>3. CASE CheckoutReadsUser(c)
    <3>1. PaidHasAName'
      BY <2>3 DEF CheckoutReadsUser, PaidHasAName, Exists
    <3>2. CartsHaveBuyers'
      BY <2>3 DEF CheckoutReadsUser, CartsHaveBuyers, Exists, TypeOK
    <3>3. QED
      BY <3>1, <3>2
  <2>4. CASE CheckoutBuys(c)
    <3>1. CartsHaveBuyers'
      BY <2>4 DEF CheckoutBuys, CartsHaveBuyers, Exists, TypeOK
    <3>2. cart[c].ware \in Wares /\ Exists(cart[c].ware[1])
          /\ users[cart[c].ware[1]].githubUsername # None
      BY <2>4 DEF CheckoutBuys, CartsHaveBuyers, TypeOK, Cart
    <3>3. PaidHasAName'
      BY <2>4, <3>2 DEF CheckoutBuys, PaidHasAName, Exists, TypeOK
    <3>4. QED
      BY <3>1, <3>3
  <2>5. CASE CheckoutConflict(c)
    <3>1. PaidHasAName'
      BY <2>5 DEF CheckoutConflict, PaidHasAName, Exists
    <3>2. CartsHaveBuyers'
      BY <2>5 DEF CheckoutConflict, CartsHaveBuyers, Exists, TypeOK
    <3>3. QED
      BY <3>1, <3>2
  <2>6. QED
    BY <2>1, <2>2, <2>3, <2>4, <2>5 DEF CheckoutStep
<1>4. CASE \E h \in Handlers : InviteStep(h)
  <2>1. PICK h \in Handlers : InviteStep(h)
    BY <1>4
  <2>2. ASSUME NEW w \in Wares, Deliver(h, w)
        PROVE  BuyInv'
    <3>1. CartsHaveBuyers'
      BY <2>2 DEF Deliver, CartsHaveBuyers, Exists, checkoutVars
    <3>2. PaidHasAName'
      BY <2>2 DEF Deliver, PaidHasAName, Exists, TypeOK
    <3>3. QED
      BY <3>1, <3>2
  <2>3. CASE UNCHANGED <<cpc, cart, purchases>>
    BY <1>1, <2>3, BuyUnchanged
  <2>4. QED
    BY <2>1, <2>2, <2>3
    DEF InviteStep, RetryInvite, InviteReadsName, AddRepoCollaborator, InviteEnds, checkoutVars
<1>5. QED
  BY <1>2, <1>3, <1>4, NextCases

(***************************************************************************)
(* Invites                                                                 *)
(***************************************************************************)
LEMMA InviteUnchanged ==
    ASSUME IInv, UNCHANGED <<purchases, inviteVars, namesSince>>,
           \A w \in Wares : purchases[w] = "granted" =>
               users'[w[1]].githubUsername = users[w[1]].githubUsername
    PROVE  InviteInv'
<1> USE DEF IInv, InviteInv, inviteVars
<1>1. OrdersAreGranted'
  BY DEF OrdersAreGranted
<1>2. AccessIsGranted' /\ InvitedSincePaid'
  BY DEF AccessIsGranted, InvitedSincePaid
<1>3. NamesAreKept'
  BY DEF NamesAreKept
<1>4. QED
  BY <1>1, <1>2, <1>3

LEMMA NamesInvite ==
    ASSUME IInv, NEW c \in Checkouts, NEW w \in Wares, NEW n \in Names \cup {None},
           CheckoutNames(c, w, n)
    PROVE  InviteInv'
<1> USE DEF IInv, InviteInv
<1>1. UNCHANGED <<purchases, hpc, order, addressee, access>>
  BY DEF CheckoutNames, inviteVars
<1>2. \A v \in Wares : namesSince[v] \subseteq namesSince'[v]
  BY DEF CheckoutNames, TypeOK
<1>3. \A h \in Handlers : hpc[h] # "idle" => order[h] \in Wares
  BY DEF OrdersAreGranted, TypeOK
<1>4. OrdersAreGranted'
  BY <1>1, <1>2, <1>3 DEF OrdersAreGranted
<1>5. AccessIsGranted' /\ InvitedSincePaid'
  BY <1>1, <1>2 DEF AccessIsGranted, InvitedSincePaid, TypeOK
<1>6. ASSUME NEW v \in Wares, purchases[v] = "granted"
      PROVE  users'[v[1]].githubUsername \in namesSince'[v]
  <2>1. CASE v[1] = w[1]
    <3>1. namesSince'[v] = namesSince[v] \cup {NameAfter(w[1], n)}
      BY <1>6, <2>1 DEF CheckoutNames
    <3>2. QED
      BY <2>1, <3>1, NamesStep
  <2>2. CASE v[1] # w[1]
    <3>1. users'[v[1]] = users[v[1]]
      BY <2>2, NamesStep DEF Wares
    <3>2. QED
      BY <1>2, <1>6, <3>1 DEF NamesAreKept
  <2>3. QED
    BY <2>1, <2>2
<1>7. NamesAreKept'
  BY <1>1, <1>6 DEF NamesAreKept
<1>8. QED
  BY <1>4, <1>5, <1>7

LEMMA HandlerInvite ==
    ASSUME IInv, NEW h \in Handlers, InviteStep(h)
    PROVE  InviteInv'
<1> USE DEF IInv, InviteInv
<1>1. ASSUME NEW w \in Wares, Deliver(h, w)
      PROVE  InviteInv'
  <2>1. /\ UNCHANGED <<users, addressee, access>>
        /\ hpc'[h] = "invite" /\ order'[h] = w /\ w # None
        /\ \A g \in Handlers \ {h} : hpc'[g] = hpc[g] /\ order'[g] = order[g]
        /\ purchases[w] = "pending" /\ purchases'[w] = "granted"
        /\ \A v \in Wares \ {w} : purchases'[v] = purchases[v] /\ namesSince'[v] = namesSince[v]
        /\ namesSince'[w] = {users[w[1]].githubUsername}
    BY <1>1, NoneAssumption DEF Deliver, TypeOK
  <2>2. ASSUME NEW g \in Handlers, hpc[g] # "idle"
        PROVE  order[g] \in Wares /\ order[g] # w
    BY <2>1, <2>2 DEF OrdersAreGranted, TypeOK
  <2>3. OrdersAreGranted'
    BY <2>1, <2>2 DEF OrdersAreGranted
  <2>4. \A a \in access : a.ware \in Wares /\ a.ware # w
    BY <2>1 DEF AccessIsGranted, TypeOK
  <2>5. AccessIsGranted' /\ InvitedSincePaid'
    BY <2>1, <2>4 DEF AccessIsGranted, InvitedSincePaid
  <2>6. NamesAreKept'
    BY <2>1 DEF NamesAreKept
  <2>7. QED
    BY <2>3, <2>5, <2>6
<1>2. ASSUME NEW w \in Wares, RetryInvite(h, w)
      PROVE  InviteInv'
  <2>1. OrdersAreGranted'
    BY <1>2, NoneAssumption DEF RetryInvite, OrdersAreGranted, TypeOK
  <2>2. AccessIsGranted' /\ InvitedSincePaid' /\ NamesAreKept'
    BY <1>2 DEF RetryInvite, AccessIsGranted, InvitedSincePaid, NamesAreKept
  <2>3. QED
    BY <2>1, <2>2
<1>3. CASE InviteReadsName(h)
  <2>1. order[h] \in Wares /\ purchases[order[h]] = "granted"
    BY <1>3 DEF InviteReadsName, OrdersAreGranted, TypeOK
  <2>2. NameFor(order[h]) # None /\ NameFor(order[h]) \in namesSince[order[h]]
    BY <1>3, <2>1 DEF InviteReadsName, NameFor, NamesAreKept
  <2>3. OrdersAreGranted'
    BY <1>3, <2>1, <2>2 DEF InviteReadsName, OrdersAreGranted, TypeOK
  <2>4. AccessIsGranted' /\ InvitedSincePaid' /\ NamesAreKept'
    BY <1>3 DEF InviteReadsName, AccessIsGranted, InvitedSincePaid, NamesAreKept
  <2>5. QED
    BY <2>3, <2>4
<1>4. CASE AddRepoCollaborator(h)
  <2>1. purchases[order[h]] = "granted" /\ addressee[h] \in namesSince[order[h]]
    BY <1>4 DEF AddRepoCollaborator, OrdersAreGranted
  <2>2. AccessIsGranted' /\ InvitedSincePaid'
    BY <1>4, <2>1 DEF AddRepoCollaborator, AccessIsGranted, InvitedSincePaid
  <2>3. OrdersAreGranted' /\ NamesAreKept'
    BY <1>4 DEF AddRepoCollaborator, OrdersAreGranted, NamesAreKept, TypeOK
  <2>4. QED
    BY <2>2, <2>3
<1>5. CASE InviteEnds(h)
  <2>1. OrdersAreGranted'
    BY <1>5 DEF InviteEnds, OrdersAreGranted, TypeOK
  <2>2. AccessIsGranted' /\ InvitedSincePaid' /\ NamesAreKept'
    BY <1>5 DEF InviteEnds, AccessIsGranted, InvitedSincePaid, NamesAreKept
  <2>3. QED
    BY <2>1, <2>2
<1>6. QED
  BY <1>1, <1>2, <1>3, <1>4, <1>5 DEF InviteStep

LEMMA InviteInvStep == IInv /\ [Next]_vars => InviteInv'
<1> SUFFICES ASSUME IInv, [Next]_vars PROVE InviteInv'
  OBVIOUS
<1>1. CASE \E q \in Signups : SignupInserts(q) \/ SignupAnswerLost(q)
  <2>1. PICK q \in Signups : SignupInserts(q) \/ SignupAnswerLost(q)
    BY <1>1
  <2>2. Insert(q) /\ UNCHANGED <<purchases, inviteVars, namesSince>>
    BY <2>1 DEF SignupInserts, SignupAnswerLost
  <2>3. ASSUME NEW w \in Wares, purchases[w] = "granted"
        PROVE  users'[w[1]] = users[w[1]]
    <3>1. w[1] \in Signups /\ w[1] # q
      BY <2>2, <2>3, InsertStep DEF IInv, BuyInv, PaidHasAName, Wares
    <3>2. QED
      BY <2>2, <3>1, InsertStep DEF IInv, TypeOK
  <2>4. QED
    BY <2>2, <2>3, InviteUnchanged
<1>2. CASE \E c \in Checkouts, w \in Wares, n \in Names \cup {None} : CheckoutNames(c, w, n)
  BY <1>2, NamesInvite
<1>3. CASE \E c \in Checkouts : CheckoutBuys(c)
  <2>1. PICK c \in Checkouts : CheckoutBuys(c)
    BY <1>3
  <2>2. /\ UNCHANGED <<users, hpc, order, addressee, access, namesSince>>
        /\ \A w \in Wares : purchases[w] = "granted" => purchases'[w] = "granted"
        /\ \A w \in Wares : purchases'[w] = "granted" => purchases[w] = "granted"
    BY <2>1 DEF CheckoutBuys, inviteVars, IInv, TypeOK
  <2>3. OrdersAreGranted'
    BY <2>2 DEF IInv, InviteInv, OrdersAreGranted, TypeOK
  <2>4. AccessIsGranted' /\ InvitedSincePaid' /\ NamesAreKept'
    BY <2>2 DEF IInv, InviteInv, AccessIsGranted, InvitedSincePaid, NamesAreKept, TypeOK
  <2>5. QED
    BY <2>3, <2>4 DEF InviteInv
<1>4. CASE \E h \in Handlers : InviteStep(h)
  BY <1>4, HandlerInvite
<1>5. CASE UNCHANGED <<users, purchases, inviteVars, namesSince>>
  BY <1>5, InviteUnchanged
<1>6. QED
  BY <1>1, <1>2, <1>3, <1>4, <1>5
  DEF Next, InviteStep, SignupLooks, SignupRefusedByTable, LoginOk, LoginRefused,
      CheckoutReadsUser, CheckoutConflict, vars

(***************************************************************************)
(* The theorems                                                            *)
(***************************************************************************)
\* The invariant holds of every behaviour of signups, checkouts and invites.
THEOREM Invariant == Spec => []IInv
<1>1. IInv /\ [Next]_vars => IInv'
  BY TypeStep, AuthStep, BuyStep, InviteInvStep DEF IInv
<1>2. QED
  BY InitIInv, <1>1, PTL DEF Spec

\* Every variable of the users table and its calls keeps its type.
THEOREM TypeCorrect == Spec => []TypeOK
<1>1. IInv => TypeOK
  BY DEF IInv
<1>2. QED
  BY Invariant, <1>1, PTL

\* However many signups for a mailbox overlap, it has one account, and a token
\* opens the account of who sent its address and its password.
THEOREM TokensOpenTheirOwn == Spec => []TokensAreTheOwners
<1>1. IInv => TokensAreTheOwners
  <2> SUFFICES ASSUME IInv PROVE TokensAreTheOwners
    OBVIOUS
  <2> USE DEF IInv, AuthInv
  <2>1. ASSUME NEW i \in Signups, Exists(i)
        PROVE  users[i].email = <<users[i].email[1], "lower">>
    <3>1. i \in Calls /\ sent[i] # None /\ users[i] \in Row
      BY <2>1 DEF RowsAreTheSignups, SentIsNormalized, Calls, TypeOK, Exists
    <3>2. users[i].email \in Typed /\ users[i].email[2] = "lower"
      BY <2>1, <3>1 DEF RowsAreTheSignups, SentIsNormalized, Row
    <3>3. QED
      BY <3>2 DEF Typed
  <2>2. ASSUME NEW i \in Signups, NEW j \in Signups, Exists(i), Exists(j),
               users[i].email[1] = users[j].email[1]
        PROVE  i = j
    <3>1. users[i].email = users[j].email
      BY <2>1, <2>2
    <3>2. QED
      BY <2>2, <3>1 DEF EmailsAreUnique
  <2>3. QED
    BY <2>2 DEF TokensAreTheOwners, TokensMatch, RefusalsAreTrue
<1>2. QED
  BY Invariant, <1>1, PTL

\* Nobody with a purchase is without a name to invite.
THEOREM BuyersKeepAName == Spec => []PaidHasAName
<1>1. IInv => PaidHasAName
  BY DEF IInv, BuyInv
<1>2. QED
  BY Invariant, <1>1, PTL

\* No invite goes to a name given up before the purchase was paid.
THEOREM InvitesAreCurrent == Spec => []InvitedSincePaid
<1>1. IInv => InvitedSincePaid
  BY DEF IInv, InviteInv
<1>2. QED
  BY Invariant, <1>1, PTL
=============================================================================
