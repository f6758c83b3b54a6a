----------------------------- MODULE TierMatching -----------------------------
(***************************************************************************)
(* What one evidence tier of the reconciliation decides.  A graph is a set *)
(* of pairs of a claim and an order that the tier finds compatible; only   *)
(* what all, or some, of its maximum matchings have in common counts, as   *)
(* in the brute-force solver kept as the reference.                        *)
(***************************************************************************)
EXTENDS Naturals, FiniteSets

IsMatching(M) == \A e, f \in M : (e[1] = f[1] \/ e[2] = f[2]) => e = f

Matchings(G) == {M \in SUBSET G : IsMatching(M)}

MaxMatchings(G) ==
    {M \in Matchings(G) : \A N \in Matchings(G) : Cardinality(N) <= Cardinality(M)}

ClaimsOf(G) == {e[1] : e \in G}
OrdersOf(G) == {e[2] : e \in G}

\* The pairs some maximum matching makes.
Viable(G) == UNION MaxMatchings(G)

Partners(G, c) == {o \in OrdersOf(G) : <<c, o>> \in Viable(G)}
Holders(G, o)  == {c \in ClaimsOf(G) : <<c, o>> \in Viable(G)}

\* The claims every maximum matching matches.
AlwaysMatched(G) == {c \in ClaimsOf(G) : \A M \in MaxMatchings(G) : c \in ClaimsOf(M)}

\* The claims the tier assigns, and those it leaves with several readings.
Forced(G)    == {c \in AlwaysMatched(G) : Cardinality(Partners(G, c)) = 1}
Ambiguous(G) == {c \in ClaimsOf(G) \ Forced(G) : Partners(G, c) # {}}
=============================================================================
