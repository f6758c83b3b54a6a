------------------------------ MODULE MCExitGuard ------------------------------
(* ExitGuard for two exits of one symbol. *)
EXTENDS ExitGuard, TLC

CONSTANT spy

MCSymbolOf == [e \in Exit |-> spy]

Symmetry == Permutations(Caller) \cup Permutations(Exit)
=============================================================================
