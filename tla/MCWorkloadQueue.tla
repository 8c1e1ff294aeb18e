--------------------------- MODULE MCWorkloadQueue ---------------------------
(***************************************************************************)
(* An instance of the API that runs a worker loop, and an instance of the  *)
(* worker service with another.                                            *)
(***************************************************************************)
EXTENDS WorkloadQueue, TLC

CONSTANTS api, worker, l1, l2

OneEach == [l \in Loops |-> IF l = l1 THEN api ELSE worker]
=============================================================================
