------------------------------ MODULE HandOut ------------------------------
(***************************************************************************)
(* What a table of work promises to those who poll it: an item is given    *)
(* out once, to one worker, and only that worker's hands finish it.  Work  *)
(* may be lost with a worker, and then it is nobody's: it is never offered *)
(* again.  ArenaLifecycle implements it for the turns that apply jobs      *)
(* claim, WorkloadQueue for the jobs that polling loops claim.             *)
(***************************************************************************)
CONSTANTS Items, Workers, Nothing

VARIABLES offered, taken, finished, hand

vars == <<offered, taken, finished, hand>>

Init ==
    /\ offered = {} /\ taken = {} /\ finished = {}
    /\ hand = [w \in Workers |-> Nothing]

Offer(i) ==
    /\ i \notin offered
    /\ offered' = offered \cup {i}
    /\ UNCHANGED <<taken, finished, hand>>

Take(w, i) ==
    /\ hand[w] = Nothing
    /\ i \in offered \ taken
    /\ taken' = taken \cup {i}
    /\ hand' = [hand EXCEPT ![w] = i]
    /\ UNCHANGED <<offered, finished>>

\* Workers put down what they have, finished or not.  What was on its way to
\* their hands may be wasted: taken, and never held.
PutDown(W, ended, wasted) ==
    /\ ended \subseteq {hand[w] : w \in W} \ {Nothing}
    /\ wasted \subseteq offered \ taken
    /\ finished' = finished \cup ended
    /\ taken' = taken \cup wasted
    /\ hand' = [w \in Workers |-> IF w \in W THEN Nothing ELSE hand[w]]
    /\ UNCHANGED offered

Next ==
    \/ \E i \in Items : Offer(i)
    \/ \E w \in Workers, i \in Items : Take(w, i)
    \/ \E W \in SUBSET Workers, ended, wasted \in SUBSET Items : PutDown(W, ended, wasted)

Spec == Init /\ [][Next]_vars
=============================================================================
