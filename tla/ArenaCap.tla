------------------------------ MODULE ArenaCap ------------------------------
(***************************************************************************)
(* What the arena promises of its size: at no time are more than MaxLive   *)
(* environments alive, an environment is admitted once, and one that has   *)
(* left does not come back.  ArenaAdmission implements it under concurrent *)
(* requests; ArenaLifecycle does when its environments drain in time.      *)
(***************************************************************************)
EXTENDS Naturals, FiniteSets

CONSTANTS Places, MaxLive

VARIABLES live, admitted

Init == live = {} /\ admitted = {}

Admit(p) ==
    /\ p \notin admitted
    /\ Cardinality(live) < MaxLive
    /\ live' = live \cup {p}
    /\ admitted' = admitted \cup {p}

Leave(p) ==
    /\ p \in live
    /\ live' = live \ {p}
    /\ UNCHANGED admitted

Next == \E p \in Places : Admit(p) \/ Leave(p)

Spec == Init /\ [][Next]_<<live, admitted>>
=============================================================================
