-------------------------- MODULE MCArenaTurnLimit --------------------------
(***************************************************************************)
(* Calls to two environments: good designs r1 and r2, a bad one and one of *)
(* a caller who does not own it to the first, one good design to the       *)
(* second.  An hour is two ticks and a transaction lasts at most one, so   *)
(* that rows leave the hour while others wait for the lock.  A process     *)
(* with two connections serves all but the caller who is turned away.      *)
(***************************************************************************)
EXTENDS ArenaTurnLimit, TLC

CONSTANTS r1, r2, bad, other, foreign, e1, e2, k1, k2, p1, p2

Submitted == [r \in Requests |-> IF r = other THEN e2 ELSE e1]
Hashed == [e \in Envs |-> IF e = e1 THEN k1 ELSE k2]
Served == [r \in Requests |-> IF r = foreign THEN p2 ELSE p1]
=============================================================================
