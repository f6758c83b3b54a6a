--------------------------- MODULE MCStripeGateway ---------------------------
(* StripeGateway on small sets; two requests lead to different parameters. *)
EXTENDS StripeGateway, TLC

CONSTANTS q1, q2

MCParamsOf == [q \in Request |-> IF q = q1 THEN "a" ELSE "b"]
Symmetry   == Permutations(Worker) \cup Permutations(Reconciler) \cup Permutations(Permit)
=============================================================================
