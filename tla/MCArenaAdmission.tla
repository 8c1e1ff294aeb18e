-------------------------- MODULE MCArenaAdmission --------------------------
(***************************************************************************)
(* Five requests: two of one buyer for one scenario (a double click), two  *)
(* of other buyers and one of a stranger, for a cap of two.                *)
(***************************************************************************)
EXTENDS ArenaAdmission, TLC

CONSTANTS r1, r2, r3, r4, r5

FiveRequests == {r1, r2, r3, r4, r5}
DoubleClick == r1 :> "b1" @@ r2 :> "b1" @@ r3 :> "b2" @@ r4 :> "b3" @@ r5 :> "b4"
AllButOne == {"b1", "b2", "b3"}
=============================================================================
