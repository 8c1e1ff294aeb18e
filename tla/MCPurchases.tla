----------------------------- MODULE MCPurchases -----------------------------
(***************************************************************************)
(* Two checkouts of one buyer and two requests at once that may invite: a  *)
(* delivery and a retry, or two deliveries.                                *)
(***************************************************************************)
EXTENDS Purchases, TLC

\* Calls are interchangeable; used where no property is a liveness property.
Calls == Permutations(Checkouts) \cup Permutations(Handlers)
=============================================================================
