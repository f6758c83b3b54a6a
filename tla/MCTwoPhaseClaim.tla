-------------------------- MODULE MCTwoPhaseClaim --------------------------
(* TwoPhaseClaim on small sets of processes and requests. *)
EXTENDS TwoPhaseClaim, TLC

Symmetry == Permutations(Proc) \cup Permutations(Req)
=============================================================================
