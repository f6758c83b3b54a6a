----------------------------- MODULE MCKuhnSolver -----------------------------
(* KuhnSolver over every graph of a few claims and orders. *)
EXTENDS KuhnSolver
=============================================================================
