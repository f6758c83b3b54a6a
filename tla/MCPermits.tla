------------------------------ MODULE MCPermits ------------------------------
(* Permits on small sets of workers, permits and requests. *)
EXTENDS Permits, TLC

Symmetry == Permutations(Worker) \cup Permutations(Permit) \cup Permutations(Request)
=============================================================================
