--------------------------- MODULE MCSettlementCase ---------------------------
(* SettlementCase with one case of two sources, or two cases of one source. *)
EXTENDS SettlementCase, TLC

CONSTANTS a1, a2, c1, c2, yes, no

MCHearings ==
    {[c \in CaseId |-> {1}]} \cup {[c \in CaseId |-> IF c = d THEN Source ELSE {}] : d \in CaseId}

Symmetry == Permutations(Actor) \cup Permutations(CaseId) \cup Permutations(ReqId)
               \cup Permutations(Outcome)
=============================================================================
