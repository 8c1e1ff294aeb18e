------------------------------ MODULE MCAccount ------------------------------
(***************************************************************************)
(* Two signups that may race for one mailbox and a login; two listings and *)
(* two names, so that the second checkout changes the name under the first.*)
(***************************************************************************)
EXTENDS Account, TLC

Interchangeable ==
    Permutations(Signups) \cup Permutations(Checkouts) \cup Permutations(Handlers)
    \cup Permutations(Mailboxes) \cup Permutations(Passwords)
    \cup Permutations(Listings) \cup Permutations(Names)
=============================================================================
