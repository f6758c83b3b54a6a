------------------------ MODULE MCSharedConnection ------------------------
(* SharedConnection on small sets of threads and requests. *)
EXTENDS SharedConnection, TLC

Symmetry == Permutations(Thread) \cup Permutations(Req)
=============================================================================
