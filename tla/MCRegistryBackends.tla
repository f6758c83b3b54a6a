-------------------------- MODULE MCRegistryBackends --------------------------
(* RegistryBackends with two processes, one of them with two threads. *)
EXTENDS RegistryBackends, TLC

CONSTANTS p1, p2, t1, t2, t3

MCHome   == [t \in Thread |-> IF t = t3 THEN p2 ELSE p1]
Symmetry == Permutations(Req) \cup Permutations({t1, t2})
=============================================================================
