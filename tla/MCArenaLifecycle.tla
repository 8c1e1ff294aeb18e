-------------------------- MODULE MCArenaLifecycle --------------------------
(***************************************************************************)
(* Small instances of ArenaLifecycle for TLC.  Two turns of one environment*)
(* and one of another are enough for two applies to overlap in one         *)
(* environment, for an apply to meet a destroy of the same environment, and*)
(* for a batch to hold two environments.                                   *)
(***************************************************************************)
EXTENDS ArenaLifecycle, TLC

\* Turns 1 and 2 belong to environment 1, turn 3 to environment 2.
TwoAndOne == <<1, 1, 2>>

\* Both turns belong to environment 1.
BothInOne == <<1, 1>>

\* Job executions are interchangeable; used where no property is temporal.
Executions == Permutations(Runners) \cup Permutations(Reapers)
=============================================================================
