------------------------------ MODULE KuhnSolver ------------------------------
(***************************************************************************)
(* The polynomial solver of the reconciliation engine.  Kuhn's algorithm   *)
(* builds one maximum matching, by a depth-first search for an augmenting  *)
(* path from every claim; what TierMatching says of all maximum matchings  *)
(* is then derived from that one: for every other pair by matching what is *)
(* left when the pair is forced, for every matched claim by one search, on *)
(* the transposed graph, from the order that is freed without it.          *)
(***************************************************************************)
EXTENDS TierMatching, SequencesExt

CONSTANTS
    NClaims, NOrders   \* claims and orders are numbered, as their lists are

ASSUME SizeAssumption == NClaims \in Nat /\ NOrders \in Nat

VARIABLES
    graph,       \* the compatible pairs
    phase,       \* "matching", "pairs", "claims" or "done"
    reference,   \* order -> the claim the reference matching gives it, or 0
    asked,       \* the pair or the claim whose test is under way, or NoTest
    pairsLeft,   \* the pairs not tested yet
    claimsLeft,  \* the claims not tested yet
    viable,      \* the pairs known to be in some maximum matching
    always,      \* the claims known to be in every maximum matching
    (* the matching under way, from its nodes to the others *)
    edges,       \* the pairs it may use
    starts,      \* the nodes still to search from
    holder,      \* the node each of the others is matched to, or 0
    (* the search under way *)
    at,          \* the node of the innermost call, 0 if no search runs
    calls,       \* the calls around it: the node and the candidate it tries
    seen         \* the candidates visited

answers  == <<graph, phase, reference, asked, pairsLeft, claimsLeft, viable, always>>
matching == <<edges, starts, holder>>
search   == <<at, calls, seen>>
kuhnVars == <<answers, matching, search>>

ClaimIds == 1..NClaims
OrderIds == 1..NOrders
NoTest   == <<>>

NoHolder == [o \in OrderIds |-> 0]

Made(h) == {<<h[o], o>> : o \in {p \in DOMAIN h : h[p] # 0}}

-----------------------------------------------------------------------------
(* try_augment: a call looks for the first candidate not visited yet.      *)

Least(o, S) == o \in S /\ \A p \in S : o <= p

Candidates(n) == {e[2] : e \in {f \in edges : f[1] = n}} \ seen

Search(n) ==
    /\ at = 0 /\ Least(n, starts)
    /\ at' = n /\ starts' = starts \ {n}
    /\ calls' = <<>> /\ seen' = {}
    /\ UNCHANGED <<answers, edges, holder>>

\* The candidate is held: look for another one for its holder.
Displace(o) ==
    /\ at # 0 /\ Least(o, Candidates(at)) /\ holder[o] # 0
    /\ at' = holder[o] /\ calls' = Append(calls, <<at, o>>)
    /\ seen' = seen \cup {o}
    /\ UNCHANGED <<answers, edges, starts, holder>>

\* It is free: every call takes the candidate it is trying.
Augmented(o) ==
    LET path == ToSet(Append(calls, <<at, o>>))
    IN [p \in DOMAIN holder |->
            IF \E e \in path : e[2] = p THEN (CHOOSE e \in path : e[2] = p)[1] ELSE holder[p]]

Augment(o) ==
    /\ at # 0 /\ Least(o, Candidates(at)) /\ holder[o] = 0
    /\ holder' = Augmented(o)
    /\ at' = 0 /\ calls' = <<>> /\ seen' = seen \cup {o}
    /\ UNCHANGED <<answers, edges, starts>>

\* No candidate is left: the call around goes on with its next one.
Return ==
    /\ at # 0 /\ Candidates(at) = {}
    /\ IF calls = <<>> THEN at' = 0 /\ calls' = calls
       ELSE at' = Last(calls)[1] /\ calls' = Front(calls)
    /\ UNCHANGED <<answers, edges, starts, holder, seen>>

-----------------------------------------------------------------------------
(* _max_matchings_for_tier                                                 *)

Idle == at = 0 /\ starts = {}

Matched ==
    /\ phase = "matching" /\ Idle
    /\ phase' = IF Made(holder) = {} THEN "done" ELSE "pairs"
    /\ reference' = holder
    /\ viable' = Made(holder) /\ pairsLeft' = graph \ Made(holder)
    /\ UNCHANGED <<graph, asked, claimsLeft, always, matching, search>>

\* Mutant: the pair is forced but its ends stay in the graph.
ResidualUnforced(e) == graph \ {e}

Residual(e) == {f \in graph : f[1] # e[1] /\ f[2] # e[2]}

\* _edge_is_viable: force the pair and match what is left.
TestPair(e) ==
    /\ phase = "pairs" /\ asked = NoTest
    /\ e \in pairsLeft /\ \A f \in pairsLeft : e[1] < f[1] \/ (e[1] = f[1] /\ e[2] <= f[2])
    /\ asked' = e /\ pairsLeft' = pairsLeft \ {e}
    /\ edges' = Residual(e) /\ holder' = NoHolder
    /\ starts' = IF Residual(e) = {} THEN {} ELSE ClaimIds \ {e[1]}
    /\ UNCHANGED <<graph, phase, reference, claimsLeft, viable, always, search>>

PairTested ==
    /\ phase = "pairs" /\ asked # NoTest /\ Idle
    /\ viable' = IF 1 + Cardinality(Made(holder)) = Cardinality(Made(reference))
                 THEN viable \cup {asked} ELSE viable
    /\ asked' = NoTest
    /\ UNCHANGED <<graph, phase, reference, pairsLeft, claimsLeft, always, matching, search>>

PairsDone ==
    /\ phase = "pairs" /\ asked = NoTest /\ pairsLeft = {}
    /\ phase' = "claims" /\ claimsLeft' = ClaimIds
    /\ UNCHANGED <<graph, reference, asked, pairsLeft, viable, always, matching, search>>

\* _claim_can_be_unmatched: its order is freed and looks for another claim.
TestClaim(c) ==
    /\ phase = "claims" /\ asked = NoTest /\ Least(c, claimsLeft)
    /\ claimsLeft' = claimsLeft \ {c}
    /\ \/ /\ \A o \in OrderIds : reference[o] # c
          /\ UNCHANGED <<asked, edges, starts, holder>>
       \/ \E o \in OrderIds :
            /\ reference[o] = c
            /\ asked' = <<c>>
            /\ edges' = {<<e[2], e[1]>> : e \in {f \in graph : f[1] # c}}
            /\ starts' = {o}
            /\ holder' = [d \in ClaimIds |->
                             IF \E p \in OrderIds \ {o} : reference[p] = d
                             THEN CHOOSE p \in OrderIds \ {o} : reference[p] = d ELSE 0]
    /\ UNCHANGED <<graph, phase, reference, pairsLeft, viable, always, search>>

\* The search succeeded if the claim's order has found another.
ClaimTested ==
    /\ phase = "claims" /\ asked # NoTest /\ Idle
    /\ LET c == asked[1]
           found == \E d \in ClaimIds, o \in OrderIds : reference[o] = c /\ holder[d] = o
       IN always' = IF found THEN always ELSE always \cup {c}
    /\ asked' = NoTest
    /\ UNCHANGED <<graph, phase, reference, pairsLeft, claimsLeft, viable, matching, search>>

ClaimsDone ==
    /\ phase = "claims" /\ asked = NoTest /\ claimsLeft = {}
    /\ phase' = "done"
    /\ UNCHANGED <<graph, reference, asked, pairsLeft, claimsLeft, viable, always, matching, search>>

-----------------------------------------------------------------------------
KuhnInit ==
    /\ graph \in SUBSET (ClaimIds \X OrderIds)
    /\ phase = "matching" /\ reference = NoHolder /\ asked = NoTest
    /\ pairsLeft = {} /\ claimsLeft = {} /\ viable = {} /\ always = {}
    /\ edges = graph /\ starts = ClaimIds /\ holder = NoHolder
    /\ at = 0 /\ calls = <<>> /\ seen = {}

KuhnNext ==
    \/ \E n \in starts : Search(n)
    \/ \E o \in DOMAIN holder : Displace(o) \/ Augment(o)
    \/ Return
    \/ Matched
    \/ \E e \in pairsLeft : TestPair(e)
    \/ PairTested
    \/ PairsDone
    \/ \E c \in claimsLeft : TestClaim(c)
    \/ ClaimTested
    \/ ClaimsDone

KuhnSpec == KuhnInit /\ [][KuhnNext]_kuhnVars

-----------------------------------------------------------------------------
(* Properties.                                                             *)

\* The polynomial solver derives what enumerating every maximum matching
\* does: the pairs some of them make and the claims all of them match ("the
\* exact semantic replacements").
SolverIsExact ==
    phase = "done" => viable = Viable(graph) /\ always = AlwaysMatched(graph)
=============================================================================
