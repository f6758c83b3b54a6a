----------------------------- MODULE ControlProofs -----------------------------
(***************************************************************************)
(* The Control plane.  The reconciliation engine, for any claims and       *)
(* orders: what its tiers decide does not depend on the order of the       *)
(* lists, and every record is reported; the first part is about matchings  *)
(* of any finite graph.  Then the run around it: what the normalization    *)
(* makes of any file's records, and what a run on the broker's orders      *)
(* reports of any bot.                                                     *)
(***************************************************************************)
EXTENDS Reconciliation, ControlRun, KuhnSolver, FiniteSetTheorems, SequenceTheorems, TLAPS

-----------------------------------------------------------------------------
(* Matchings.                                                              *)

FiniteGraph(G) == IsFiniteSet(G) /\ \A e \in G : e = <<e[1], e[2]>>

LEMMA MatchingsAreFinite ==
    ASSUME NEW G, IsFiniteSet(G)
    PROVE  /\ {} \in Matchings(G)
           /\ \A M \in Matchings(G) : /\ M \subseteq G /\ IsMatching(M) /\ IsFiniteSet(M)
                                      /\ Cardinality(M) \in Nat
                                      /\ Cardinality(M) <= Cardinality(G)
<1>1. {} \in Matchings(G)
  BY DEF Matchings, IsMatching
<1>2. ASSUME NEW M \in Matchings(G)
      PROVE  M \subseteq G /\ IsMatching(M)
  BY DEF Matchings
<1> QED
  BY <1>1, <1>2, FS_Subset, FS_CardinalityType

\* A finite graph has a maximum matching.
LEMMA MaxMatchingExists ==
    ASSUME NEW G, IsFiniteSet(G)
    PROVE  MaxMatchings(G) # {}
<1> DEFINE n == Cardinality(G)
           short == {n - Cardinality(M) : M \in Matchings(G)}
<1>1. n \in Nat
  BY FS_CardinalityType
<1>2. short \subseteq Nat /\ short # {}
  BY <1>1, MatchingsAreFinite
<1>3. PICK k \in short : \A m \in short : ~(<<m, k>> \in OpToRel(<, Nat))
  BY <1>2, NatLessThanWellFounded, WFMin
<1>4. \A m \in short : ~(m < k)
  BY <1>2, <1>3 DEF OpToRel
<1>5. PICK M \in Matchings(G) : k = n - Cardinality(M)
  OBVIOUS
<1>6. ASSUME NEW N \in Matchings(G) PROVE Cardinality(N) <= Cardinality(M)
  <2>1. n - Cardinality(N) \in short
    OBVIOUS
  <2> QED
    BY <2>1, <1>1, <1>4, <1>5, MatchingsAreFinite
<1> QED
  BY <1>5, <1>6 DEF MaxMatchings

LEMMA MaxMatchingsAreMatchings ==
    ASSUME NEW G, IsFiniteSet(G), NEW M \in MaxMatchings(G)
    PROVE  M \in Matchings(G) /\ M \subseteq G /\ IsMatching(M) /\ IsFiniteSet(M) /\ Cardinality(M) \in Nat
BY MatchingsAreFinite DEF MaxMatchings

LEMMA OrdersAreFinite ==
    ASSUME NEW G, IsFiniteSet(G)
    PROVE  IsFiniteSet(OrdersOf(G))
<1> DEFINE T == OrdersOf(G)
           second == [e \in G |-> e[2]]
<1>1. second \in Surjection(G, T)
  <2>1. second \in [G -> T]
    BY DEF OrdersOf
  <2>2. ASSUME NEW o \in T PROVE \E e \in G : second[e] = o
    BY DEF OrdersOf
  <2> HIDE DEF T, second
  <2> QED
    BY <2>1, <2>2 DEF Surjection
<1> HIDE DEF T, second
<1>2. IsFiniteSet(T)
  BY <1>1, FS_Surjection
<1> QED
  BY <1>2 DEF T

\* A claim that a tier assigns has one partner, and every maximum matching
\* makes that pair.
LEMMA ForcedPair ==
    ASSUME NEW G, FiniteGraph(G), NEW c \in Forced(G)
    PROVE  \E o \in OrdersOf(G) : /\ Partners(G, c) = {o}
                                  /\ \A M \in MaxMatchings(G) : <<c, o>> \in M
<1>0. IsFiniteSet(G)
  BY DEF FiniteGraph
<1>1. c \in ClaimsOf(G) /\ \A M \in MaxMatchings(G) : c \in ClaimsOf(M)
  BY DEF Forced, AlwaysMatched
<1>2. Cardinality(Partners(G, c)) = 1
  BY DEF Forced
<1>3. PICK M \in MaxMatchings(G) : TRUE
  BY <1>0, MaxMatchingExists
<1>4. ASSUME NEW N \in MaxMatchings(G)
      PROVE  \E o \in OrdersOf(G) : <<c, o>> \in N /\ o \in Partners(G, c)
  <2>1. PICK e \in N : e[1] = c
    BY <1>1 DEF ClaimsOf
  <2>2. e \in G /\ e = <<c, e[2]>>
    BY <1>0, <2>1, MaxMatchingsAreMatchings DEF FiniteGraph
  <2>3. <<c, e[2]>> \in Viable(G)
    BY <2>1, <2>2 DEF Viable
  <2> QED
    BY <2>1, <2>2, <2>3 DEF OrdersOf, Partners
<1>5. IsFiniteSet(OrdersOf(G))
  BY <1>0, OrdersAreFinite
<1>6. IsFiniteSet(Partners(G, c))
  BY <1>5, FS_Subset DEF Partners
<1>7. PICK o : Partners(G, c) = {o}
  BY <1>2, <1>6, FS_Singleton
<1> QED
  BY <1>4, <1>7 DEF Partners

\* Its partner is nobody else's.
LEMMA ForcedOrderIsHeld ==
    ASSUME NEW G, FiniteGraph(G),
           NEW c \in Forced(G), NEW o \in Partners(G, c), NEW d, o \in Partners(G, d)
    PROVE  d = c
<1>1. \A M \in MaxMatchings(G) : <<c, o>> \in M
  BY ForcedPair
<1>2. PICK M \in MaxMatchings(G) : <<d, o>> \in M
  BY DEF Partners, Viable
<1>3. IsMatching(M)
  BY <1>2, MaxMatchingsAreMatchings DEF FiniteGraph
<1> QED
  BY <1>1, <1>2, <1>3 DEF IsMatching

LEMMA PartnersAreEdges ==
    ASSUME NEW G, FiniteGraph(G), NEW c, NEW o \in Partners(G, c)
    PROVE  <<c, o>> \in G /\ c \in ClaimsOf(G) /\ o \in OrdersOf(G)
<1>1. <<c, o>> \in G
  BY DEF Partners, Viable, MaxMatchings, Matchings
<1> QED
  BY <1>1 DEF ClaimsOf, OrdersOf

\* A claim of the tier is assigned, ambiguous, or without a partner.
LEMMA TierDecides ==
    ASSUME NEW G, FiniteGraph(G), NEW c \in ClaimsOf(G)
    PROVE  /\ c \in Forced(G) => Partners(G, c) # {} /\ c \notin Ambiguous(G)
           /\ c \in Ambiguous(G) <=> c \notin Forced(G) /\ Partners(G, c) # {}
<1>1. c \in Forced(G) => Partners(G, c) # {}
  BY ForcedPair
<1> QED
  BY <1>1 DEF Ambiguous

-----------------------------------------------------------------------------
(* What the polynomial solver derives from one maximum matching.           *)

\* All maximum matchings have one size.
LEMMA MaxMatchingsHaveOneSize ==
    ASSUME NEW G, IsFiniteSet(G), NEW M \in MaxMatchings(G), NEW N \in Matchings(G)
    PROVE  N \in MaxMatchings(G) <=> Cardinality(N) = Cardinality(M)
<1>1. Cardinality(N) \in Nat /\ Cardinality(M) \in Nat /\ M \in Matchings(G)
  BY MatchingsAreFinite, MaxMatchingsAreMatchings
<1> QED
  BY <1>1, MatchingsAreFinite DEF MaxMatchings

\* An edge is viable exactly if forcing it costs nothing: one more than a
\* maximum matching of what does not touch it (_edge_is_viable).
THEOREM ForcingAnEdge ==
    ASSUME NEW G, IsFiniteSet(G), NEW e \in G, NEW M \in MaxMatchings(G),
           NEW R, R = {f \in G : f[1] # e[1] /\ f[2] # e[2]}, NEW N \in MaxMatchings(R)
    PROVE  e \in Viable(G) <=> 1 + Cardinality(N) = Cardinality(M)
<1>1. IsFiniteSet(R)
  BY FS_Subset
<1>2. /\ M \in Matchings(G) /\ Cardinality(M) \in Nat
      /\ N \in Matchings(R) /\ Cardinality(N) \in Nat /\ IsFiniteSet(N) /\ N \subseteq R /\ IsMatching(N)
  BY <1>1, MaxMatchingsAreMatchings
<1>3. N \cup {e} \in Matchings(G) /\ Cardinality(N \cup {e}) = Cardinality(N) + 1
  <2>1. e \notin N
    BY <1>2
  <2> QED
    BY <1>2, <2>1, FS_AddElement DEF Matchings, IsMatching
<1>4. Cardinality(N) + 1 <= Cardinality(M)
  BY <1>3 DEF MaxMatchings
<1>5. ASSUME e \in Viable(G) PROVE 1 + Cardinality(N) = Cardinality(M)
  <2>1. PICK K \in MaxMatchings(G) : e \in K
    BY <1>5 DEF Viable
  <2>2. K \subseteq G /\ IsMatching(K) /\ IsFiniteSet(K) /\ Cardinality(K) \in Nat /\ K \in Matchings(G)
    BY <2>1, MaxMatchingsAreMatchings
  <2>3. K \ {e} \in Matchings(R) /\ Cardinality(K \ {e}) = Cardinality(K) - 1
    BY <2>1, <2>2, FS_RemoveElement DEF Matchings, IsMatching
  <2>4. Cardinality(K) - 1 <= Cardinality(N)
    BY <2>3 DEF MaxMatchings
  <2>5. Cardinality(K) = Cardinality(M)
    BY <2>2, MaxMatchingsHaveOneSize
  <2> QED
    BY <1>2, <1>4, <2>4, <2>5
<1>6. ASSUME 1 + Cardinality(N) = Cardinality(M) PROVE e \in Viable(G)
  <2>1. N \cup {e} \in MaxMatchings(G)
    BY <1>2, <1>3, <1>6, MaxMatchingsHaveOneSize
  <2> QED
    BY <2>1 DEF Viable
<1> QED
  BY <1>5, <1>6

\* A claim is matched by every maximum matching exactly if there is none of
\* that size without it (_claim_can_be_unmatched).
THEOREM RemovingAClaim ==
    ASSUME NEW G, IsFiniteSet(G), NEW c \in ClaimsOf(G), NEW M \in MaxMatchings(G),
           NEW R, R = {f \in G : f[1] # c}, NEW N \in MaxMatchings(R)
    PROVE  c \in AlwaysMatched(G) <=> Cardinality(N) < Cardinality(M)
<1>1. IsFiniteSet(R)
  BY FS_Subset
<1>2. /\ M \in Matchings(G) /\ Cardinality(M) \in Nat
      /\ N \in Matchings(R) /\ Cardinality(N) \in Nat /\ N \subseteq R /\ IsMatching(N)
  BY <1>1, MaxMatchingsAreMatchings
<1>3. N \in Matchings(G) /\ c \notin ClaimsOf(N)
  BY <1>2 DEF Matchings, ClaimsOf
<1>4. Cardinality(N) <= Cardinality(M)
  BY <1>3 DEF MaxMatchings
<1>5. ASSUME c \in AlwaysMatched(G), Cardinality(N) = Cardinality(M) PROVE FALSE
  BY <1>3, <1>5, MaxMatchingsHaveOneSize DEF AlwaysMatched
<1>6. ASSUME Cardinality(N) < Cardinality(M), NEW K \in MaxMatchings(G), c \notin ClaimsOf(K) PROVE FALSE
  <2>1. K \in Matchings(G) /\ K \subseteq G /\ IsMatching(K) /\ Cardinality(K) = Cardinality(M)
    BY MaxMatchingsAreMatchings, MaxMatchingsHaveOneSize
  <2>2. K \in Matchings(R)
    BY <1>6, <2>1 DEF Matchings, ClaimsOf
  <2> QED
    BY <1>2, <1>6, <2>1, <2>2 DEF MaxMatchings
<1> QED
  BY <1>2, <1>4, <1>5, <1>6 DEF AlwaysMatched

-----------------------------------------------------------------------------
(* The polynomial solver.  A matching is maximum if every search from an   *)
(* unmatched node has failed: what a failed search has visited is held and *)
(* its holders have no candidate elsewhere.                                *)

Held(h, n) == \E o \in DOMAIN h : h[o] = n

\* h gives every order of its domain a node of the graph E, or none, and no
\* node twice.
Assigns(E, h) ==
    /\ \A o \in DOMAIN h : h[o] # 0 => <<h[o], o>> \in E
    /\ \A o, p \in DOMAIN h : h[o] # 0 /\ h[o] = h[p] => o = p

Closed(E, h, Z) ==
    /\ Z \subseteq DOMAIN h
    /\ \A o \in Z : h[o] # 0 /\ \A e \in E : e[1] = h[o] => e[2] \in Z

Exhausted(E, h) == \E Z : Closed(E, h, Z) /\ \A e \in E : Held(h, e[1]) \/ e[2] \in Z

\* Pairs of numbered nodes.
Numbered(E) == \A e \in E : e = <<e[1], e[2]>> /\ e[1] # 0 /\ e[2] # 0

LEMMA MadeIsAMatching ==
    ASSUME NEW E, NEW h, Assigns(E, h)
    PROVE  /\ Made(h) \in Matchings(E)
           /\ \A e : e \in Made(h) <=> \E o \in DOMAIN h : h[o] # 0 /\ e = <<h[o], o>>
<1>1. \A e : e \in Made(h) <=> \E o \in DOMAIN h : h[o] # 0 /\ e = <<h[o], o>>
  BY DEF Made
<1>2. Made(h) \subseteq E
  BY <1>1 DEF Assigns
<1>3. IsMatching(Made(h))
  BY <1>1 DEF Assigns, IsMatching
<1> QED
  BY <1>1, <1>2, <1>3 DEF Matchings

\* Every edge of a matching is charged to a pair of h: to the one of its order
\* inside the closed set, to the one of its claim outside.
LEMMA ExhaustedIsMaximum ==
    ASSUME NEW E, IsFiniteSet(E), Numbered(E), NEW h, Assigns(E, h), Exhausted(E, h)
    PROVE  Made(h) \in MaxMatchings(E)
<1>1. PICK Z : Closed(E, h, Z) /\ \A e \in E : Held(h, e[1]) \/ e[2] \in Z
  BY DEF Exhausted
<1>2. Made(h) \in Matchings(E) /\ IsFiniteSet(Made(h))
  BY MadeIsAMatching, MatchingsAreFinite
<1>3. ASSUME NEW N \in Matchings(E) PROVE Cardinality(N) <= Cardinality(Made(h))
  <2> DEFINE own(e)  == CHOOSE o \in DOMAIN h : h[o] = e[1]
             pair(e) == IF e[2] \in Z THEN <<h[e[2]], e[2]>> ELSE <<e[1], own(e)>>
             charge  == [e \in N |-> pair(e)]
  <2>1. ASSUME NEW e \in N
        PROVE  /\ e \in E /\ e = <<e[1], e[2]>> /\ e[1] # 0 /\ pair(e) \in Made(h)
               /\ e[2] \notin Z => own(e) \in DOMAIN h /\ own(e) \notin Z
    <3>1. e \in E /\ e = <<e[1], e[2]>> /\ e[1] # 0
      BY MatchingsAreFinite DEF Numbered
    <3>2. CASE e[2] \in Z
      <4>1. e[2] \in DOMAIN h /\ h[e[2]] # 0
        BY <1>1, <3>2 DEF Closed
      <4> QED BY <3>1, <3>2, <4>1, MadeIsAMatching
    <3>3. CASE e[2] \notin Z
      <4>1. own(e) \in DOMAIN h /\ h[own(e)] = e[1]
        BY <1>1, <3>1, <3>3 DEF Held
      <4>2. own(e) \notin Z
        BY <1>1, <3>1, <3>3, <4>1 DEF Closed
      <4>3. pair(e) = <<h[own(e)], own(e)>>
        BY <3>3, <4>1
      <4> HIDE DEF own, pair
      <4> QED BY <3>1, <3>3, <4>1, <4>2, <4>3, MadeIsAMatching
    <3> QED BY <3>2, <3>3
  <2>2. ASSUME NEW e \in N, NEW f \in N, pair(e) = pair(f) PROVE e = f
    <3>1. IsMatching(N)
      BY MatchingsAreFinite
    <3>2. e[1] = f[1] \/ e[2] = f[2]
      <4> HIDE DEF own
      <4> QED BY <2>1, <2>2
    <3> QED BY <3>1, <3>2 DEF IsMatching
  <2>3. charge \in Injection(N, Made(h))
    <3> HIDE DEF pair
    <3> QED BY <2>1, <2>2 DEF Injection, IsInjective
  <2> QED BY <2>3, <1>2, FS_Injection
<1> QED
  BY <1>2, <1>3 DEF MaxMatchings

\* Without the claim c, whose order o found no other: what o's search visited
\* is closed under its own holders, so every matching that leaves c out is
\* charged to the other pairs of h.
LEMMA NoMatchingWithout ==
    ASSUME NEW G, IsFiniteSet(G), Numbered(G), NEW h, Assigns(G, h), Exhausted(G, h),
           NEW c, NEW o \in DOMAIN h, h[o] = c, c # 0,
           NEW H, H = {<<e[2], e[1]>> : e \in {f \in G : f[1] # c}},
           NEW t, \A d \in DOMAIN t : t[d] # 0 => t[d] \in DOMAIN h /\ h[t[d]] = d /\ d # c,
           NEW U, Closed(H, t, U), \A e \in H : e[1] = o => e[2] \in U,
           NEW N \in Matchings({f \in G : f[1] # c})
    PROVE  Cardinality(N) < Cardinality(Made(h))
<1>1. PICK Z : Closed(G, h, Z) /\ \A e \in G : Held(h, e[1]) \/ e[2] \in Z
  BY DEF Exhausted
<1>2. Made(h) \in Matchings(G) /\ IsFiniteSet(Made(h)) /\ Cardinality(Made(h)) \in Nat
  BY MadeIsAMatching, MatchingsAreFinite
<1> DEFINE own(e)  == CHOOSE p \in DOMAIN h : h[p] = e[1]
           pair(e) == IF e[1] \in U THEN <<e[1], t[e[1]]>>
                      ELSE IF e[2] \in Z THEN <<h[e[2]], e[2]>> ELSE <<e[1], own(e)>>
           charge  == [e \in N |-> pair(e)]
           rest    == Made(h) \ {<<c, o>>}
<1>3. IsMatching(N) /\ \A e \in N : e \in G /\ e[1] # c /\ e = <<e[1], e[2]>> /\ e[1] # 0 /\ e[2] # 0
  BY DEF Matchings, Numbered
<1>4. ASSUME NEW e \in N
      PROVE  /\ pair(e) \in rest
             /\ e[1] \in U => t[e[1]] # 0
             /\ e[1] \notin U => e[2] # o /\ \A d \in U : t[d] # e[2]
             /\ e[1] \notin U /\ e[2] \notin Z => own(e) \notin Z
  <2>1. <<e[2], e[1]>> \in H
    BY <1>3
  <2>2. e[1] \notin U => e[2] # o /\ \A d \in U : t[d] # e[2]
    BY <2>1 DEF Closed
  <2>3. CASE e[1] \in U
    <3>1. t[e[1]] # 0 /\ t[e[1]] \in DOMAIN h /\ h[t[e[1]]] = e[1]
      BY <2>3 DEF Closed
    <3>2. pair(e) = <<h[t[e[1]]], t[e[1]]>> /\ pair(e) # <<c, o>>
      BY <1>3, <2>3, <3>1
    <3>3. pair(e) \in Made(h)
      BY <1>3, <3>1, <3>2, MadeIsAMatching
    <3> QED BY <2>3, <3>1, <3>2, <3>3
  <2>4. CASE e[1] \notin U /\ e[2] \in Z
    <3>1. e[2] \in DOMAIN h /\ h[e[2]] # 0
      BY <1>1, <2>4 DEF Closed
    <3>2. pair(e) = <<h[e[2]], e[2]>> /\ pair(e) # <<c, o>>
      BY <2>2, <2>4
    <3> QED BY <2>2, <2>4, <3>1, <3>2, MadeIsAMatching
  <2>5. CASE e[1] \notin U /\ e[2] \notin Z
    <3>1. own(e) \in DOMAIN h /\ h[own(e)] = e[1]
      BY <1>1, <1>3, <2>5 DEF Held
    <3>2. own(e) \notin Z
      BY <1>1, <1>3, <2>5, <3>1 DEF Closed
    <3>3. pair(e) = <<h[own(e)], own(e)>> /\ pair(e) # <<c, o>>
      BY <1>3, <2>5, <3>1
    <3>4. pair(e) \in Made(h)
      <4> HIDE DEF own, pair
      <4> QED BY <1>3, <3>1, <3>3, MadeIsAMatching
    <3> QED BY <2>2, <2>5, <3>2, <3>3, <3>4
  <2> QED BY <2>3, <2>4, <2>5
<1>5. ASSUME NEW e \in N, NEW f \in N, pair(e) = pair(f) PROVE e = f
  <2>1. e[1] = f[1] \/ e[2] = f[2]
    <3> HIDE DEF own
    <3>1. CASE e[1] \in U /\ f[1] \in U
      BY <1>5, <3>1
    <3>2. CASE e[1] \in U /\ f[1] \notin U
      BY <1>4, <1>5, <3>2
    <3>3. CASE e[1] \notin U /\ f[1] \in U
      BY <1>4, <1>5, <3>3
    <3>4. CASE e[1] \notin U /\ f[1] \notin U
      BY <1>4, <1>5, <3>4
    <3> QED BY <3>1, <3>2, <3>3, <3>4
  <2> QED BY <1>3, <2>1 DEF IsMatching
<1>6. charge \in Injection(N, rest)
  <2> HIDE DEF pair, rest
  <2> QED BY <1>4, <1>5 DEF Injection, IsInjective
<1>7. <<c, o>> \in Made(h)
  BY MadeIsAMatching
<1>8. IsFiniteSet(rest) /\ Cardinality(rest) = Cardinality(Made(h)) - 1
  BY <1>2, <1>7, FS_RemoveElement
<1>9. Cardinality(N) <= Cardinality(rest) /\ Cardinality(N) \in Nat
  BY <1>6, <1>8, FS_Injection, FS_CardinalityType
<1> QED
  BY <1>2, <1>8, <1>9

\* And if o did find another, there is a matching of the same size without c.
LEMMA MatchingWithout ==
    ASSUME NEW G, IsFiniteSet(G), Numbered(G), NEW h, Assigns(G, h), NEW c,
           NEW H, H = {<<e[2], e[1]>> : e \in {f \in G : f[1] # c}},
           NEW t, Assigns(H, t), \A o \in DOMAIN h : h[o] # 0 => Held(t, o)
    PROVE  \E N \in Matchings({f \in G : f[1] # c}) : Cardinality(Made(h)) <= Cardinality(N)
<1> DEFINE R == {f \in G : f[1] # c}
           N == {<<d, t[d]>> : d \in {b \in DOMAIN t : t[b] # 0}}
           other(e) == CHOOSE d \in DOMAIN t : t[d] = e[2]
           moved == [e \in Made(h) |-> <<other(e), e[2]>>]
<1>1. \A d \in DOMAIN t : t[d] # 0 => <<d, t[d]>> \in R
  BY DEF Assigns, Numbered
<1>2. N \in Matchings(R)
  BY <1>1 DEF Matchings, IsMatching, Assigns
<1>3. IsFiniteSet(R)
  BY FS_Subset
<1>4. IsFiniteSet(N)
  <2> HIDE DEF N, R
  <2> QED BY <1>2, <1>3, MatchingsAreFinite
<1>5. ASSUME NEW e \in Made(h)
      PROVE  other(e) \in DOMAIN t /\ t[other(e)] = e[2] /\ e[2] # 0 /\ e = <<e[1], e[2]>> /\ e[2] \in DOMAIN h /\ h[e[2]] = e[1]
  <2>1. PICK o \in DOMAIN h : h[o] # 0 /\ e = <<h[o], o>>
    BY MadeIsAMatching
  <2>2. o = e[2] /\ e = <<e[1], e[2]>> /\ h[o] = e[1] /\ e \in G
    BY <2>1 DEF Assigns
  <2>3. \E d \in DOMAIN t : t[d] = e[2]
    BY <2>1, <2>2 DEF Held
  <2> QED BY <2>1, <2>2, <2>3 DEF Numbered
<1>6. moved \in Injection(Made(h), N)
  <2>1. \A e \in Made(h) : moved[e] \in N
    BY <1>5
  <2>2. ASSUME NEW e \in Made(h), NEW f \in Made(h), moved[e] = moved[f] PROVE e = f
    <3>1. e[2] = f[2]
      <4> HIDE DEF other
      <4> QED BY <2>2
    <3> QED BY <1>5, <3>1
  <2> HIDE DEF N
  <2> QED BY <2>1, <2>2 DEF Injection, IsInjective
<1>7. Cardinality(Made(h)) <= Cardinality(N)
  <2> HIDE DEF N, moved
  <2> QED BY <1>4, <1>6, FS_Injection
<1> QED
  BY <1>2, <1>7
\* Sets of numbers have a least element.
LEMMA Smallest ==
    ASSUME NEW S \in SUBSET Nat, S # {}
    PROVE  \E x \in S : \A y \in S : x <= y
<1>1. PICK x \in S : \A y \in S : ~(<<y, x>> \in OpToRel(<, Nat))
  BY NatLessThanWellFounded, WFMin
<1>2. \A y \in S : ~(y < x)
  <2>1. S \subseteq Nat
    OBVIOUS
  <2> QED BY <1>1, <2>1 DEF OpToRel
<1> QED
  BY <1>2

-----------------------------------------------------------------------------
(* The search.  The calls under way hold on to each other: every one tries *)
(* a candidate whose holder the next one searches for, and whatever else   *)
(* was visited leads nowhere else.                                         *)

Node == Nat \ {0}

Caller(i) == IF i <= Len(calls) THEN calls[i][1] ELSE at

\* The nodes that are searched from: all claims, or the order of a claim tested.
Roots == IF phase \in {"matching", "pairs"} THEN ClaimIds
         ELSE {o \in OrderIds : asked # NoTest /\ reference[o] = asked[1]}

MatchingTypeInv ==
    /\ DOMAIN holder \subseteq Node /\ holder \in [DOMAIN holder -> Nat]
    /\ edges \subseteq Node \X DOMAIN holder
    /\ starts \subseteq Roots /\ Roots \subseteq Node
    /\ at \in Nat /\ calls \in Seq(Node \X DOMAIN holder)

Failed(n) == n \notin starts /\ (at # 0 => n # Caller(1)) /\ ~Held(holder, n)

MatchingInv ==
    /\ Assigns(edges, holder)
    /\ \A n \in starts : ~Held(holder, n)
    /\ \E Z : Closed(edges, holder, Z)
              /\ \A e \in edges : e[1] \in Roots /\ Failed(e[1]) => e[2] \in Z

SearchInv ==
    /\ at = 0 => calls = <<>>
    /\ at # 0 =>
         /\ seen \subseteq DOMAIN holder
         /\ \A i \in 1..Len(calls) : /\ calls[i] \in edges /\ calls[i][2] \in seen
                                     /\ holder[calls[i][2]] = Caller(i + 1)
         /\ \A i, j \in 1..Len(calls) : calls[i][2] = calls[j][2] => i = j
         /\ Caller(1) \in Roots \ starts /\ ~Held(holder, Caller(1))
         /\ \A o \in seen : /\ holder[o] # 0
                            /\ \/ \E i \in 1..Len(calls) : calls[i][2] = o
                               \/ \A e \in edges : e[1] = holder[o] => e[2] \in seen

SolverInv == MatchingTypeInv /\ MatchingInv /\ SearchInv

\* What a search leaves alone.
LEMMA RootsStay == UNCHANGED answers => Roots' = Roots
BY DEF answers, Roots, OrderIds, ClaimIds

LEMMA SearchKeeps ==
    ASSUME SolverInv, NEW n \in starts, Search(n)
    PROVE  SolverInv'
<1>1. /\ at = 0 /\ at' = n /\ starts' = starts \ {n} /\ calls' = <<>> /\ seen' = {}
      /\ edges' = edges /\ holder' = holder /\ Roots' = Roots
  BY RootsStay DEF Search
<1>2. n \in Roots /\ n \in Node /\ n # 0 /\ ~Held(holder, n)
  BY DEF SolverInv, MatchingTypeInv, MatchingInv, Node
<1>3. Caller(1)' = n
  BY <1>1 DEF Caller
<1>4. MatchingTypeInv'
  BY <1>1, <1>2 DEF SolverInv, MatchingTypeInv, Node
<1>5. MatchingInv'
  <2>1. PICK Z : Closed(edges, holder, Z)
                 /\ \A e \in edges : e[1] \in Roots /\ Failed(e[1]) => e[2] \in Z
    BY DEF SolverInv, MatchingInv
  <2>2. \A m : Failed(m)' => Failed(m)
    BY <1>1, <1>2, <1>3 DEF Failed
  <2> QED BY <1>1, <2>1, <2>2 DEF SolverInv, MatchingInv
<1>6. SearchInv'
  BY <1>1, <1>2, <1>3 DEF SearchInv
<1> QED
  BY <1>4, <1>5, <1>6 DEF SolverInv

LEMMA DisplaceKeeps ==
    ASSUME SolverInv, NEW o \in DOMAIN holder, Displace(o)
    PROVE  SolverInv'
<1>0. PICK n \in Nat : n = Len(calls)
  BY DEF SolverInv, MatchingTypeInv
<1>1. /\ at # 0 /\ holder[o] # 0 /\ at' = holder[o] /\ calls' = Append(calls, <<at, o>>)
      /\ seen' = seen \cup {o} /\ edges' = edges /\ starts' = starts /\ holder' = holder /\ Roots' = Roots
  BY RootsStay DEF Displace
<1>2. <<at, o>> \in edges /\ o \notin seen
  <2>1. PICK e \in edges : e[1] = at /\ e[2] = o
    BY DEF Displace, Least, Candidates
  <2>2. e = <<at, o>>
    BY <1>0, <2>1 DEF SolverInv, MatchingTypeInv
  <2> QED BY <1>0, <2>1, <2>2 DEF Displace, Least, Candidates
<1>3. at \in Node /\ holder[o] \in Nat /\ calls \in Seq(Node \X DOMAIN holder)
  BY <1>1 DEF SolverInv, MatchingTypeInv, Node
<1>4. /\ Len(calls') = n + 1 /\ calls' \in Seq(Node \X DOMAIN holder) /\ calls'[n + 1] = <<at, o>>
      /\ \A i \in 1..n : calls'[i] = calls[i]
  BY <1>0, <1>1, <1>3
<1>5. \A i \in 1..(n + 1) : Caller(i)' = Caller(i)
  BY <1>0, <1>1, <1>3, <1>4 DEF Caller
<1>6. Caller(n + 2)' = holder[o]
  BY <1>0, <1>1, <1>3, <1>4 DEF Caller
<1>7. MatchingTypeInv'
  BY <1>0, <1>1, <1>3, <1>4 DEF SolverInv, MatchingTypeInv
<1>8. MatchingInv'
  <2>1. PICK Z : Closed(edges, holder, Z)
                 /\ \A e \in edges : e[1] \in Roots /\ Failed(e[1]) => e[2] \in Z
    BY DEF SolverInv, MatchingInv
  <2>2. \A m : Failed(m)' => Failed(m)
    BY <1>0, <1>1, <1>3, <1>5 DEF Failed
  <2> QED BY <1>0, <1>1, <2>1, <2>2 DEF SolverInv, MatchingInv
<1>9. SearchInv'
  <2> USE <1>1
  <2>0. /\ seen \subseteq DOMAIN holder
        /\ \A i \in 1..n : calls[i] \in edges /\ calls[i][2] \in seen /\ holder[calls[i][2]] = Caller(i + 1)
        /\ \A i, j \in 1..n : calls[i][2] = calls[j][2] => i = j
        /\ Caller(1) \in Roots \ starts /\ ~Held(holder, Caller(1))
        /\ \A p \in seen : /\ holder[p] # 0
                           /\ \/ \E i \in 1..n : calls[i][2] = p
                              \/ \A e \in edges : e[1] = holder[p] => e[2] \in seen
    BY <1>0 DEF SolverInv, SearchInv
  <2>1. ASSUME NEW i \in 1..(n + 1)
        PROVE  calls'[i] \in edges /\ calls'[i][2] \in seen' /\ holder[calls'[i][2]] = Caller(i + 1)'
    <3>1. CASE i \in 1..n
      <4>1. Caller(i + 1)' = Caller(i + 1)
        BY <3>1, <1>0, <1>5
      <4>2. calls'[i] = calls[i]
        BY <3>1, <1>0, <1>4
      <4>3. calls[i] \in edges /\ calls[i][2] \in seen /\ holder[calls[i][2]] = Caller(i + 1)
        BY <3>1, <2>0
      <4> QED BY <4>1, <4>2, <4>3
    <3>2. CASE i = n + 1
      <4>1. Caller(i + 1)' = holder[o] /\ calls'[i] = <<at, o>>
        BY <3>2, <1>4, <1>6
      <4>2. calls'[i][2] = o
        BY <3>2, <1>4
      <4> QED BY <4>1, <4>2, <1>2
    <3> QED BY <3>1, <3>2, <1>0
  <2>2. ASSUME NEW i \in 1..(n + 1), NEW j \in 1..(n + 1), calls'[i][2] = calls'[j][2] PROVE i = j
    <3>1. \A k \in 1..n : calls'[k][2] = calls[k][2] /\ calls[k][2] # o
      BY <2>0, <1>2, <1>4
    <3> QED BY <2>0, <2>2, <3>1, <1>0, <1>4
  <2>3. Caller(1)' \in Roots \ starts /\ ~Held(holder, Caller(1)')
    BY <1>0, <2>0, <1>5
  <2>4. ASSUME NEW p \in seen'
        PROVE  /\ holder[p] # 0
               /\ \/ \E i \in 1..(n + 1) : calls'[i][2] = p
                  \/ \A e \in edges : e[1] = holder[p] => e[2] \in seen'
    <3>1. CASE p = o
      <4>1. calls'[n + 1][2] = p
        BY <3>1, <1>0, <1>4
      <4> QED BY <3>1, <4>1, <1>0
    <3>2. CASE p \in seen
      <4>1. holder[p] # 0
        BY <2>0, <3>2
      <4>2. CASE \E i \in 1..n : calls[i][2] = p
        BY <4>1, <4>2, <1>0, <1>4
      <4>3. CASE \A e \in edges : e[1] = holder[p] => e[2] \in seen
        BY <4>1, <4>3
      <4> QED BY <2>0, <3>2, <4>2, <4>3
    <3> QED BY <3>1, <3>2
  <2>5. at' # 0 /\ seen' \subseteq DOMAIN holder'
    BY <2>0, <1>3 DEF Node
  <2> QED BY <2>1, <2>2, <2>3, <2>4, <2>5, <1>4 DEF SearchInv
<1> QED
  BY <1>7, <1>8, <1>9 DEF SolverInv

LEMMA ReturnKeeps ==
    ASSUME SolverInv, Return
    PROVE  SolverInv'
<1>0. PICK n \in Nat : n = Len(calls)
  BY DEF SolverInv, MatchingTypeInv
<1>1. /\ at # 0 /\ edges' = edges /\ starts' = starts /\ holder' = holder /\ seen' = seen /\ Roots' = Roots
  BY RootsStay DEF Return
<1>2. \A e \in edges : e[1] = at => e[2] \in seen
  BY DEF Return, Candidates
<1>3. calls \in Seq(Node \X DOMAIN holder)
  BY DEF SolverInv, MatchingTypeInv
<1>4. PICK Z : Closed(edges, holder, Z)
               /\ \A e \in edges : e[1] \in Roots /\ Failed(e[1]) => e[2] \in Z
  BY DEF SolverInv, MatchingInv
<1>5. CASE calls = <<>>
  <2>1. at' = 0 /\ calls' = <<>> /\ Caller(1) = at /\ Len(calls) = 0
    BY <1>5 DEF Return, Caller
  <2>2. Closed(edges, holder, Z \cup seen)
    BY <1>1, <1>4, <2>1 DEF SolverInv, SearchInv, MatchingTypeInv, Closed
  <2>3. \A m : Failed(m)' => Failed(m) \/ m = at
    BY <1>0, <1>1, <2>1 DEF Failed
  <2>4. MatchingInv'
    BY <1>1, <1>2, <1>4, <2>2, <2>3 DEF SolverInv, MatchingInv
  <2> QED BY <1>0, <1>1, <2>1, <2>4 DEF SolverInv, MatchingTypeInv, SearchInv
<1>6. CASE calls # <<>>
  <2>1. /\ n \in Nat \ {0} /\ at' = calls[n][1] /\ calls' = SubSeq(calls, 1, n - 1)
    BY <1>0, <1>3, <1>6 DEF Return, Last, Front
  <2>2. /\ Len(calls') = n - 1 /\ calls' \in Seq(Node \X DOMAIN holder)
        /\ \A i \in 1..(n - 1) : calls'[i] = calls[i]
    <3>1. 1 \in 1..(n + 1) /\ n - 1 \in 1 - 1..n
      BY <2>1
    <3> QED BY <1>0, <1>3, <2>1, <3>1, SubSeqProperties
  <2>3. at' \in Node /\ calls[n] \in Node \X DOMAIN holder
    BY <1>0, <1>3, <2>1
  <2>4. \A i \in 1..n : Caller(i)' = Caller(i)
    BY <1>0, <2>1, <2>2 DEF Caller
  <2>5. Caller(n + 1) = at
    BY <1>0, <2>1 DEF Caller
  <2>6. MatchingTypeInv'
    BY <1>1, <2>2, <2>3 DEF SolverInv, MatchingTypeInv, Node
  <2>7. MatchingInv'
    <3>1. \A m : Failed(m)' => Failed(m)
      BY <1>0, <1>1, <2>1, <2>3, <2>4 DEF Failed, Node
    <3> QED BY <1>1, <1>4, <3>1 DEF SolverInv, MatchingInv
  <2>8. SearchInv'
    <3> USE <1>1 DEF SolverInv, SearchInv
    <3>1. ASSUME NEW i \in 1..(n - 1)
          PROVE  calls'[i] \in edges /\ calls'[i][2] \in seen' /\ holder[calls'[i][2]] = Caller(i + 1)'
      BY <1>0, <2>1, <2>2, <2>4
    <3>2. \A i, j \in 1..(n - 1) : calls'[i][2] = calls'[j][2] => i = j
      BY <1>0, <2>1, <2>2
    <3>3. Caller(1)' \in Roots \ starts /\ ~Held(holder, Caller(1)')
      BY <1>0, <2>1, <2>4
    <3>4. ASSUME NEW p \in seen
          PROVE  /\ holder[p] # 0
                 /\ \/ \E i \in 1..(n - 1) : calls'[i][2] = p
                    \/ \A e \in edges : e[1] = holder[p] => e[2] \in seen
      <4>1. CASE p = calls[n][2]
        BY <1>0, <1>2, <2>1, <2>5, <4>1
      <4>2. CASE p # calls[n][2]
        BY <1>0, <2>1, <2>2, <4>2
      <4> QED BY <4>1, <4>2
    <3> QED BY <2>2, <2>3, <3>1, <3>2, <3>3, <3>4 DEF Node
  <2> QED BY <2>6, <2>7, <2>8 DEF SolverInv
<1> QED
  BY <1>5, <1>6

\* A successful search: nobody loses his candidate for good, and the node it
\* started from has one now.  The path avoids what earlier searches closed.
LEMMA AugmentedIs ==
    ASSUME SolverInv, NEW o \in DOMAIN holder, Augment(o)
    PROVE  /\ holder' \in [DOMAIN holder -> Node \cup {0}] /\ DOMAIN holder' = DOMAIN holder
           /\ Assigns(edges, holder')
           /\ \A m \in Node : Held(holder', m) <=> Held(holder, m) \/ m = Caller(1)
           /\ \A Z : Closed(edges, holder, Z) => Closed(edges, holder', Z)
<1>0. PICK n \in Nat : n = Len(calls)
  BY DEF SolverInv, MatchingTypeInv
<1>1. /\ at # 0 /\ at \in Node /\ holder[o] = 0 /\ holder' = Augmented(o)
      /\ holder \in [DOMAIN holder -> Nat] /\ calls \in Seq(Node \X DOMAIN holder)
      /\ edges \subseteq Node \X DOMAIN holder
  BY DEF Augment, SolverInv, MatchingTypeInv, Node
<1>2. <<at, o>> \in edges /\ o \notin seen
  <2>1. PICK e \in edges : e[1] = at /\ e[2] = o
    BY DEF Augment, Least, Candidates
  <2>2. e = <<at, o>>
    BY <1>1, <2>1
  <2> QED BY <2>1, <2>2 DEF Augment, Least, Candidates
<1>3. /\ \A i \in 1..n : /\ calls[i] \in edges /\ calls[i][2] \in seen
                         /\ holder[calls[i][2]] = Caller(i + 1)
      /\ \A i, j \in 1..n : calls[i][2] = calls[j][2] => i = j
      /\ ~Held(holder, Caller(1))
  BY <1>0, <1>1 DEF SolverInv, SearchInv
<1> DEFINE tried == [i \in 1..(n + 1) |-> IF i <= n THEN calls[i][2] ELSE o]
           call  == [i \in 1..(n + 1) |-> Caller(i)]
<1>4. ASSUME NEW i \in 1..(n + 1)
      PROVE  /\ <<call[i], tried[i]>> \in edges /\ tried[i] \in DOMAIN holder /\ call[i] \in Node
             /\ i <= n => holder[tried[i]] = call[i + 1] /\ calls[i] = <<call[i], tried[i]>>
  <2>1. CASE i <= n
    <3>1. i \in 1..n /\ i + 1 \in 1..(n + 1)
      BY <2>1
    <3>2. calls[i] \in edges /\ calls[i] = <<calls[i][1], calls[i][2]>>
      BY <1>1, <1>3, <3>1
    <3>3. call[i] = calls[i][1] /\ tried[i] = calls[i][2]
      BY <1>0, <2>1 DEF Caller
    <3>4. holder[tried[i]] = call[i + 1]
      BY <1>3, <3>1, <3>3
    <3>5. <<call[i], tried[i]>> \in edges
      BY <3>2, <3>3
    <3> QED BY <1>1, <3>2, <3>3, <3>4, <3>5
  <2>2. CASE i = n + 1
    <3>1. call[i] = at /\ tried[i] = o
      BY <1>0, <2>2 DEF Caller
    <3> QED BY <1>1, <1>2, <2>2, <3>1
  <2> QED BY <2>1, <2>2
<1>5. ASSUME NEW i \in 1..(n + 1), NEW j \in 1..(n + 1), tried[i] = tried[j] PROVE i = j
  <2>1. \A k \in 1..n : tried[k] = calls[k][2] /\ tried[k] # o
    BY <1>2, <1>3
  <2>2. tried[n + 1] = o
    OBVIOUS
  <2> HIDE DEF tried
  <2> QED BY <1>3, <1>5, <2>1, <2>2
<1>6. call[1] = Caller(1) /\ ~Held(holder, call[1])
  BY <1>3
<1>7. ASSUME NEW i \in 1..(n + 1), NEW p \in DOMAIN holder, holder[p] = call[i]
      PROVE  i # 1 /\ p = tried[i - 1]
  <2>1. i # 1
    BY <1>6, <1>7 DEF Held
  <2>2. i - 1 \in 1..(n + 1) /\ i - 1 <= n /\ (i - 1) + 1 = i
    BY <2>1
  <2>3. holder[tried[i - 1]] = call[i] /\ tried[i - 1] \in DOMAIN holder
    BY <1>4, <2>2
  <2>4. call[i] # 0
    BY <1>4 DEF Node
  <2> QED BY <1>7, <2>1, <2>3, <2>4 DEF SolverInv, MatchingInv, Assigns
<1>8. ASSUME NEW i \in 1..(n + 1), NEW j \in 1..(n + 1), call[i] = call[j] PROVE i = j
  <2>1. CASE i = 1 /\ j = 1
    BY <2>1
  <2>2. CASE i # 1
    <3>1. i - 1 \in 1..(n + 1) /\ i - 1 <= n /\ (i - 1) + 1 = i
      BY <2>2
    <3>2. holder[tried[i - 1]] = call[j] /\ tried[i - 1] \in DOMAIN holder
      BY <1>4, <1>8, <3>1
    <3>3. j # 1 /\ tried[i - 1] = tried[j - 1]
      BY <1>7, <3>2
    <3>4. i - 1 = j - 1
      BY <1>5, <3>1, <3>3
    <3> QED BY <3>4
  <2>3. CASE j # 1
    <3>1. j - 1 \in 1..(n + 1) /\ j - 1 <= n /\ (j - 1) + 1 = j
      BY <2>3
    <3>2. holder[tried[j - 1]] = call[i] /\ tried[j - 1] \in DOMAIN holder
      BY <1>4, <1>8, <3>1
    <3>3. i # 1 /\ tried[j - 1] = tried[i - 1]
      BY <1>7, <3>2
    <3>4. i - 1 = j - 1
      BY <1>5, <3>1, <3>3
    <3> QED BY <3>4
  <2> QED BY <2>1, <2>2, <2>3
<1> DEFINE path == ToSet(Append(calls, <<at, o>>))
<1>9. \A e : e \in path <=> \E i \in 1..(n + 1) : e = <<call[i], tried[i]>>
  <2>1. /\ DOMAIN Append(calls, <<at, o>>) = 1..(n + 1)
        /\ \A i \in 1..n : Append(calls, <<at, o>>)[i] = calls[i]
        /\ Append(calls, <<at, o>>)[n + 1] = <<at, o>>
    BY <1>0, <1>1
  <2>2. call[n + 1] = at /\ tried[n + 1] = o
    BY <1>0 DEF Caller
  <2>3. \A i \in 1..(n + 1) : Append(calls, <<at, o>>)[i] = <<call[i], tried[i]>>
    <3> HIDE DEF call, tried
    <3>1. Append(calls, <<at, o>>)[n + 1] = <<call[n + 1], tried[n + 1]>>
      BY <2>1, <2>2
    <3>2. \A i \in 1..n : i \in 1..(n + 1) /\ i <= n
      OBVIOUS
    <3>3. \A i \in 1..n : Append(calls, <<at, o>>)[i] = <<call[i], tried[i]>>
      BY <1>4, <2>1, <3>2
    <3>4. \A i \in 1..(n + 1) : i \in 1..n \/ i = n + 1
      OBVIOUS
    <3> QED BY <3>1, <3>3, <3>4, Zenon
  <2> HIDE DEF call, tried
  <2> QED BY <2>1, <2>3 DEF ToSet
<1>10. /\ DOMAIN holder' = DOMAIN holder
       /\ \A i \in 1..(n + 1) : holder'[tried[i]] = call[i]
       /\ \A p \in DOMAIN holder : (\A i \in 1..(n + 1) : p # tried[i]) => holder'[p] = holder[p]
  <2>1. holder' = [p \in DOMAIN holder |-> IF \E e \in path : e[2] = p
                                           THEN (CHOOSE e \in path : e[2] = p)[1] ELSE holder[p]]
    BY <1>1 DEF Augmented
  <2>2. ASSUME NEW i \in 1..(n + 1) PROVE holder'[tried[i]] = call[i]
    <3> HIDE DEF call, tried, path
    <3>1. <<call[i], tried[i]>> \in path /\ <<call[i], tried[i]>>[2] = tried[i]
      BY <1>9
    <3>2. \A e \in path : e[2] = tried[i] => e = <<call[i], tried[i]>>
      BY <1>5, <1>9
    <3>3. (CHOOSE e \in path : e[2] = tried[i]) = <<call[i], tried[i]>>
      BY <3>1, <3>2
    <3>4. holder'[tried[i]] = (CHOOSE e \in path : e[2] = tried[i])[1]
      BY <2>1, <3>1, <1>4
    <3>5. holder'[tried[i]] = <<call[i], tried[i]>>[1]
      BY <3>3, <3>4, Zenon
    <3> QED BY <3>5
  <2>3. ASSUME NEW p \in DOMAIN holder, \A i \in 1..(n + 1) : p # tried[i] PROVE holder'[p] = holder[p]
    <3> HIDE DEF call, tried, path
    <3> QED BY <1>9, <2>1, <2>3
  <2> HIDE DEF call, tried, path
  <2> QED BY <2>1, <2>2, <2>3
<1> HIDE DEF call, tried, path
<1>11. ASSUME NEW p \in DOMAIN holder
       PROVE  \/ holder'[p] = holder[p] /\ \A i \in 1..(n + 1) : p # tried[i]
              \/ \E i \in 1..(n + 1) : p = tried[i] /\ holder'[p] = call[i]
  BY <1>10
<1>12. holder' \in [DOMAIN holder -> Node \cup {0}]
  <2>1. \A p \in DOMAIN holder : holder'[p] \in Node \cup {0}
    <3> SUFFICES ASSUME NEW p \in DOMAIN holder PROVE holder'[p] \in Node \cup {0}
      OBVIOUS
    <3>1. CASE holder'[p] = holder[p]
      <4>1. holder[p] \in Nat
        BY <1>1
      <4> QED BY <3>1, <4>1 DEF Node
    <3>2. CASE \E i \in 1..(n + 1) : p = tried[i] /\ holder'[p] = call[i]
      BY <1>4, <3>2
    <3> QED BY <1>11, <3>1, <3>2
  <2>2. holder' = [p \in DOMAIN holder |-> holder'[p]]
    BY <1>1, <1>10 DEF Augmented
  <2> QED BY <2>1, <2>2
<1>13. Assigns(edges, holder')
  <2>1. ASSUME NEW p \in DOMAIN holder, holder'[p] # 0 PROVE <<holder'[p], p>> \in edges
    BY <1>4, <1>11, <2>1 DEF SolverInv, MatchingInv, Assigns
  <2>2. ASSUME NEW p \in DOMAIN holder, NEW q \in DOMAIN holder, holder'[p] # 0, holder'[p] = holder'[q]
        PROVE  p = q
    <3>1. CASE /\ holder'[p] = holder[p] /\ \A i \in 1..(n + 1) : p # tried[i]
               /\ holder'[q] = holder[q]
      BY <2>2, <3>1 DEF SolverInv, MatchingInv, Assigns
    <3>2. ASSUME NEW i \in 1..(n + 1), NEW j \in 1..(n + 1), p = tried[i], holder'[p] = call[i],
                 q = tried[j], holder'[q] = call[j]
          PROVE  p = q
      BY <1>8, <2>2, <3>2
    <3>3. ASSUME NEW i \in 1..(n + 1), call[i] = holder[p], \A k \in 1..(n + 1) : p # tried[k]
          PROVE  FALSE
      <4>1. i # 1 /\ p = tried[i - 1]
        BY <1>7, <3>3
      <4>2. i - 1 \in 1..(n + 1)
        BY <4>1
      <4> QED BY <3>3, <4>1, <4>2
    <3>4. ASSUME NEW i \in 1..(n + 1), call[i] = holder[q], \A k \in 1..(n + 1) : q # tried[k]
          PROVE  FALSE
      <4>1. i # 1 /\ q = tried[i - 1]
        BY <1>7, <3>4
      <4>2. i - 1 \in 1..(n + 1)
        BY <4>1
      <4> QED BY <3>4, <4>1, <4>2
    <3> QED BY <1>11, <2>2, <3>1, <3>2, <3>3, <3>4
  <2> QED BY <1>10, <2>1, <2>2 DEF Assigns
<1>14. ASSUME NEW m \in Node PROVE Held(holder', m) <=> Held(holder, m) \/ m = Caller(1)
  <2>1. ASSUME NEW p \in DOMAIN holder, holder'[p] = m PROVE Held(holder, m) \/ m = Caller(1)
    <3>1. ASSUME NEW i \in 1..(n + 1), m = call[i], i # 1 PROVE Held(holder, m)
      <4>1. i - 1 \in 1..(n + 1) /\ i - 1 <= n /\ (i - 1) + 1 = i
        BY <3>1
      <4> QED BY <1>4, <3>1, <4>1 DEF Held
    <3> QED BY <1>6, <1>11, <2>1, <3>1 DEF Held
  <2>2. ASSUME NEW p \in DOMAIN holder, holder[p] = m PROVE Held(holder', m)
    <3>1. CASE \A i \in 1..(n + 1) : p # tried[i]
      BY <1>10, <2>2, <3>1 DEF Held
    <3>2. ASSUME NEW i \in 1..(n + 1), p = tried[i] PROVE Held(holder', m)
      <4>1. i # n + 1
        <5>1. tried[n + 1] = o
          BY DEF tried
        <5> QED BY <1>1, <2>2, <3>2, <5>1 DEF Node
      <4>2. i <= n /\ i + 1 \in 1..(n + 1)
        BY <4>1
      <4>3. m = call[i + 1] /\ tried[i + 1] \in DOMAIN holder
        BY <1>4, <2>2, <3>2, <4>2
      <4> QED BY <1>10, <4>2, <4>3 DEF Held
    <3> QED BY <3>1, <3>2
  <2>3. Held(holder', Caller(1))
    <3>1. 1 \in 1..(n + 1)
      OBVIOUS
    <3>2. tried[1] \in DOMAIN holder' /\ holder'[tried[1]] = Caller(1)
      BY <1>4, <1>6, <1>10, <3>1
    <3> QED BY <3>2 DEF Held
  <2> QED BY <1>10, <2>1, <2>2, <2>3 DEF Held
<1>15. ASSUME NEW Z, Closed(edges, holder, Z) PROVE Closed(edges, holder', Z)
  <2>1. ASSUME NEW i \in 1..(n + 1), tried[i] \in Z PROVE FALSE
    <3> DEFINE S == {k \in Nat : k <= n /\ tried[n + 1 - k] \in Z}
    <3>1. n + 1 - i \in S
      <4>1. n + 1 - (n + 1 - i) = i /\ n + 1 - i \in Nat /\ n + 1 - i <= n
        OBVIOUS
      <4> QED BY <2>1, <4>1
    <3>2. PICK k \in S : \A l \in S : k <= l
      <4> S \in SUBSET Nat /\ S # {}
        BY <3>1
      <4> HIDE DEF S
      <4> QED BY Smallest
    <3>3. k \in Nat /\ k <= n /\ tried[n + 1 - k] \in Z
      OBVIOUS
    <3>4. holder[tried[n + 1 - k]] # 0 /\ \A e \in edges : e[1] = holder[tried[n + 1 - k]] => e[2] \in Z
      BY <1>15, <3>3 DEF Closed
    <3>5. k # 0
      <4>1. tried[n + 1] = o
        BY DEF tried
      <4>2. k = 0 => n + 1 - k = n + 1
        OBVIOUS
      <4> QED BY <1>1, <3>4, <4>1, <4>2
    <3>6. /\ n + 1 - k \in 1..(n + 1) /\ n + 1 - k <= n /\ (n + 1 - k) + 1 = n + 1 - (k - 1)
          /\ n + 1 - (k - 1) \in 1..(n + 1) /\ k - 1 \in Nat /\ k - 1 <= n
      BY <3>3, <3>5
    <3>7. /\ holder[tried[n + 1 - k]] = call[n + 1 - (k - 1)]
          /\ <<call[n + 1 - (k - 1)], tried[n + 1 - (k - 1)]>> \in edges
      BY <1>4, <3>6
    <3>8. tried[n + 1 - (k - 1)] \in Z
      <4> DEFINE e == <<call[n + 1 - (k - 1)], tried[n + 1 - (k - 1)]>>
      <4>1. e \in edges /\ e[1] = holder[tried[n + 1 - k]]
        BY <3>7
      <4>2. e[2] \in Z
        BY <3>4, <4>1
      <4> QED BY <4>2
    <3>9. k - 1 \in S
      BY <3>6, <3>8
    <3> QED BY <3>2, <3>3, <3>9
  <2>2. \A p \in Z : p \in DOMAIN holder /\ holder'[p] = holder[p]
    BY <1>11, <1>15, <2>1 DEF Closed
  <2> QED BY <1>10, <1>15, <2>2 DEF Closed
<1> QED
  BY <1>10, <1>12, <1>13, <1>14, <1>15

LEMMA AugmentKeeps ==
    ASSUME SolverInv, NEW o \in DOMAIN holder, Augment(o)
    PROVE  SolverInv'
<1>1. /\ at # 0 /\ at' = 0 /\ calls' = <<>> /\ seen' = seen \cup {o}
      /\ edges' = edges /\ starts' = starts /\ Roots' = Roots
  BY RootsStay DEF Augment
<1>2. /\ holder' \in [DOMAIN holder -> Node \cup {0}] /\ DOMAIN holder' = DOMAIN holder
      /\ Assigns(edges, holder')
      /\ \A m \in Node : Held(holder', m) <=> Held(holder, m) \/ m = Caller(1)
      /\ \A Z : Closed(edges, holder, Z) => Closed(edges, holder', Z)
  BY AugmentedIs
<1>3. starts \subseteq Node /\ Roots \subseteq Node /\ Caller(1) \in Roots \ starts
  BY <1>1 DEF SolverInv, MatchingTypeInv, SearchInv
<1>4. MatchingTypeInv'
  <2>1. calls' \in Seq(Node \X DOMAIN holder)
    BY <1>1
  <2> QED BY <1>1, <1>2, <2>1 DEF SolverInv, MatchingTypeInv, Node
<1>5. MatchingInv'
  <2>1. PICK Z : Closed(edges, holder, Z)
                 /\ \A e \in edges : e[1] \in Roots /\ Failed(e[1]) => e[2] \in Z
    BY DEF SolverInv, MatchingInv
  <2>2. \A m \in Node : Failed(m)' => Failed(m)
    BY <1>1, <1>2 DEF Failed
  <2>3. \A m \in starts : ~Held(holder', m)
    BY <1>2, <1>3 DEF SolverInv, MatchingInv
  <2>4. \A e \in edges : e[1] \in Roots /\ Failed(e[1])' => e[2] \in Z
    BY <1>3, <2>1, <2>2
  <2>5. Closed(edges, holder', Z)
    BY <1>2, <2>1
  <2> QED BY <1>1, <1>2, <2>3, <2>4, <2>5 DEF MatchingInv
<1>6. SearchInv'
  BY <1>1 DEF SearchInv
<1> QED
  BY <1>4, <1>5, <1>6 DEF SolverInv

-----------------------------------------------------------------------------
(* The tests.  What is known of a pair or of a claim that is no longer to  *)
(* be tested is right, because the reference matching stays maximum and a  *)
(* test's own matching is, when it is idle.                                *)

AnswersInv ==
    /\ graph \in SUBSET (ClaimIds \X OrderIds)
    /\ phase \in {"matching", "pairs", "claims", "done"}
    /\ phase = "matching" => asked = NoTest /\ edges = graph /\ DOMAIN holder = OrderIds
    /\ phase # "matching" =>
         /\ reference \in [OrderIds -> Nat]
         /\ Assigns(graph, reference) /\ Exhausted(graph, reference)
         /\ asked = NoTest => Idle

PairsInv ==
    /\ phase \in {"matching", "pairs"} => always = {}
    /\ phase = "pairs" =>
         /\ viable \subseteq graph /\ pairsLeft \subseteq graph \ viable
         /\ \A e \in graph : e \notin pairsLeft /\ e # asked => (e \in viable <=> e \in Viable(graph))
         /\ asked # NoTest => asked \in graph \ (viable \cup pairsLeft) /\ edges = Residual(asked)
    /\ phase \in {"claims", "done"} => viable = Viable(graph)

Without(c) == {f \in graph : f[1] # c}

\* While a claim is tested, every order that had another claim has one, and the
\* tested claim's order has one or nothing has moved yet.
ClaimUnderTest(c) ==
    /\ c \in ClaimIds \ (always \cup claimsLeft) /\ Held(reference, c)
    /\ edges = {<<e[2], e[1]>> : e \in Without(c)} /\ DOMAIN holder = ClaimIds
    /\ \A o \in OrderIds : reference[o] # 0 /\ reference[o] # c => Held(holder, o)
    /\ \A o \in OrderIds : reference[o] = c =>
         \/ Held(holder, o)
         \/ \A d \in ClaimIds : holder[d] # 0 =>
               holder[d] \in OrderIds /\ reference[holder[d]] = d /\ d # c

ClaimsInv ==
    /\ phase = "claims" =>
         /\ always \subseteq ClaimIds /\ claimsLeft \subseteq ClaimIds \ always
         /\ \A c \in ClaimIds : c \notin claimsLeft /\ asked # <<c>> =>
               (c \in always <=> c \in AlwaysMatched(graph))
         /\ asked # NoTest => \E c : asked = <<c>> /\ ClaimUnderTest(c)
    /\ phase = "done" => asked = NoTest /\ always = AlwaysMatched(graph)

KuhnInv == SolverInv /\ AnswersInv /\ PairsInv /\ ClaimsInv

LEMMA GraphIsFinite ==
    ASSUME AnswersInv, NEW G \in SUBSET graph
    PROVE  IsFiniteSet(G) /\ Numbered(G) /\ G \in SUBSET (ClaimIds \X OrderIds)
<1>1. NClaims \in Nat /\ NOrders \in Nat
  BY SizeAssumption
<1>2. IsFiniteSet(ClaimIds) /\ IsFiniteSet(OrderIds)
  BY <1>1, FS_Interval DEF ClaimIds, OrderIds
<1>3. IsFiniteSet(ClaimIds \X OrderIds)
  BY <1>2, FS_Product
<1>4. G \in SUBSET (ClaimIds \X OrderIds)
  BY DEF AnswersInv
<1>5. IsFiniteSet(G)
  BY <1>3, <1>4, FS_Subset
<1> QED
  BY <1>1, <1>4, <1>5 DEF Numbered, ClaimIds, OrderIds

\* A matching from the claims is maximum once no claim is left.
LEMMA IdleIsMaximum ==
    ASSUME SolverInv, AnswersInv, Idle, phase \in {"matching", "pairs"}, edges \subseteq graph
    PROVE  Assigns(edges, holder) /\ Exhausted(edges, holder) /\ Made(holder) \in MaxMatchings(edges)
<1>1. PICK Z : Closed(edges, holder, Z)
               /\ \A e \in edges : e[1] \in Roots /\ Failed(e[1]) => e[2] \in Z
  BY DEF SolverInv, MatchingInv
<1>2. IsFiniteSet(edges) /\ Numbered(edges) /\ edges \in SUBSET (ClaimIds \X OrderIds)
  BY GraphIsFinite
<1>3. \A e \in edges : e[1] \in Roots
  BY <1>2 DEF Roots
<1>4. \A e \in edges : Held(holder, e[1]) \/ e[2] \in Z
  BY <1>1, <1>3 DEF Idle, Failed
<1>5. Assigns(edges, holder) /\ Exhausted(edges, holder)
  BY <1>1, <1>4 DEF Exhausted, SolverInv, MatchingInv
<1> QED
  BY <1>2, <1>5, ExhaustedIsMaximum

LEMMA ReferenceIsMaximum ==
    ASSUME AnswersInv, phase # "matching"
    PROVE  Made(reference) \in MaxMatchings(graph) /\ Made(reference) \subseteq Viable(graph)
<1>1. Made(reference) \in MaxMatchings(graph)
  BY GraphIsFinite, ExhaustedIsMaximum DEF AnswersInv
<1> QED
  BY <1>1 DEF Viable

\* A pair is viable if what is left of the graph without its ends has a matching
\* one smaller.
LEMMA PairIsTested ==
    ASSUME KuhnInv, phase = "pairs", asked # NoTest, Idle
    PROVE  asked \in Viable(graph) <=> 1 + Cardinality(Made(holder)) = Cardinality(Made(reference))
<1>1. asked \in graph /\ edges = Residual(asked)
  BY DEF KuhnInv, PairsInv
<1>2. edges \subseteq graph /\ IsFiniteSet(graph)
  BY <1>1, GraphIsFinite DEF Residual, KuhnInv
<1>3. Made(holder) \in MaxMatchings(Residual(asked)) /\ Made(reference) \in MaxMatchings(graph)
  BY <1>1, <1>2, IdleIsMaximum, ReferenceIsMaximum DEF KuhnInv
<1> QED
  BY <1>1, <1>2, <1>3, ForcingAnEdge DEF Residual

\* A claim is in every maximum matching if its order has found no other.
LEMMA ClaimIsTested ==
    ASSUME KuhnInv, phase = "claims", Idle, NEW c, asked = <<c>>, ClaimUnderTest(c)
    PROVE  c \in AlwaysMatched(graph) <=> ~ \E d \in ClaimIds, o \in OrderIds : reference[o] = c /\ holder[d] = o
<1> DEFINE R == {f \in graph : f[1] # c}
           M == Made(reference)
<1>1. /\ IsFiniteSet(graph) /\ Numbered(graph) /\ graph \in SUBSET (ClaimIds \X OrderIds)
      /\ IsFiniteSet(R) /\ M \in MaxMatchings(graph)
  BY GraphIsFinite, ReferenceIsMaximum DEF KuhnInv
<1>2. /\ Assigns(graph, reference) /\ Exhausted(graph, reference) /\ DOMAIN reference = OrderIds
  BY DEF KuhnInv, AnswersInv
<1>3. PICK o \in OrderIds : reference[o] = c
  BY <1>2 DEF ClaimUnderTest, Held
<1>4. c # 0 /\ c \in ClaimIds
  BY SizeAssumption DEF ClaimUnderTest, ClaimIds
<1>5. c \in ClaimsOf(graph) /\ \A p \in OrderIds : reference[p] = c => p = o
  <2>1. <<c, o>> \in graph
    BY <1>2, <1>3, <1>4 DEF Assigns
  <2> QED BY <2>1, <1>2, <1>3, <1>4 DEF ClaimsOf, Assigns
<1>6. PICK N \in MaxMatchings(R) : TRUE
  BY <1>1, MaxMatchingExists
<1>7. c \in AlwaysMatched(graph) <=> Cardinality(N) < Cardinality(M)
  BY <1>1, <1>5, <1>6, RemovingAClaim
<1>8. /\ edges = {<<e[2], e[1]>> : e \in R} /\ DOMAIN holder = ClaimIds
  BY DEF ClaimUnderTest, Without
<1>9. /\ Cardinality(M) \in Nat /\ Cardinality(N) \in Nat /\ N \in Matchings(R)
  BY <1>1, <1>6, MaxMatchingsAreMatchings
<1>10. CASE Held(holder, o)
  <2>1. \A p \in DOMAIN reference : reference[p] # 0 => Held(holder, p)
    BY <1>2, <1>5, <1>10 DEF ClaimUnderTest
  <2>2. Assigns(edges, holder)
    BY DEF KuhnInv, SolverInv, MatchingInv
  <2>3. PICK K \in Matchings(R) : Cardinality(M) <= Cardinality(K)
    <3> HIDE DEF M
    <3>1. \E K \in Matchings({f \in graph : f[1] # c}) : Cardinality(Made(reference)) <= Cardinality(K)
      BY <1>1, <1>2, <1>8, <2>1, <2>2, MatchingWithout
    <3> QED BY <3>1 DEF M
  <2>4. Cardinality(K) <= Cardinality(N) /\ Cardinality(K) \in Nat
    BY <1>1, <1>6, <2>3, MatchingsAreFinite DEF MaxMatchings
  <2>5. \E d \in ClaimIds : holder[d] = o
    BY <1>8, <1>10 DEF Held
  <2> QED BY <1>3, <1>7, <1>9, <2>3, <2>4, <2>5
<1>11. CASE ~Held(holder, o)
  <2>1. \A d \in ClaimIds, p \in OrderIds : reference[p] = c => holder[d] # p
    BY <1>5, <1>8, <1>11 DEF Held
  <2>2. \A d \in DOMAIN holder : holder[d] # 0 =>
            holder[d] \in DOMAIN reference /\ reference[holder[d]] = d /\ d # c
    BY <1>2, <1>3, <1>8, <1>11 DEF ClaimUnderTest
  <2>3. PICK U : Closed(edges, holder, U)
                 /\ \A e \in edges : e[1] \in Roots /\ Failed(e[1]) => e[2] \in U
    BY DEF KuhnInv, SolverInv, MatchingInv
  <2>4. o \in Roots
    <3>1. asked[1] = c /\ asked # NoTest
      BY DEF NoTest
    <3> QED BY <3>1, <1>3 DEF Roots
  <2>5. \A e \in edges : e[1] = o => e[2] \in U
    BY <2>3, <2>4, <1>11 DEF Idle, Failed
  <2>6. Cardinality(N) < Cardinality(M)
    <3>1. N \in Matchings({f \in graph : f[1] # c}) /\ edges = {<<e[2], e[1]>> : e \in {f \in graph : f[1] # c}}
      BY <1>8, <1>9
    <3> HIDE DEF R
    <3> QED BY <1>1, <1>2, <1>3, <1>4, <2>2, <2>3, <2>5, <3>1, NoMatchingWithout
  <2> QED BY <1>7, <2>1, <2>6
<1> QED
  BY <1>10, <1>11

-----------------------------------------------------------------------------
(* Every step keeps it.                                                    *)

LEMMA TestsAreNotNoTest == \A c, o : <<c>> # NoTest /\ <<c, o>> # NoTest /\ <<c>>[1] = c
BY DEF NoTest

\* A matching that has ended stays as it is.
LEMMA EndedMatchingStays ==
    ASSUME SolverInv, at = 0, starts = {}, UNCHANGED <<matching, search>>, Roots' \subseteq Roots
    PROVE  SolverInv'
<1>1. /\ edges' = edges /\ starts' = {} /\ holder' = holder
      /\ at' = 0 /\ calls' = calls /\ seen' = seen /\ starts = {} /\ at = 0
  BY DEF matching, search
<1>2. MatchingTypeInv'
  BY <1>1 DEF SolverInv, MatchingTypeInv
<1>3. MatchingInv'
  <2>1. PICK Z : Closed(edges, holder, Z)
                 /\ \A e \in edges : e[1] \in Roots /\ Failed(e[1]) => e[2] \in Z
    BY DEF SolverInv, MatchingInv
  <2>2. \A m : Failed(m)' => Failed(m)
    BY <1>1 DEF Failed
  <2> QED BY <1>1, <2>1, <2>2 DEF SolverInv, MatchingInv
<1>4. SearchInv'
  BY <1>1 DEF SolverInv, SearchInv
<1> QED
  BY <1>2, <1>3, <1>4 DEF SolverInv

\* A matching that starts holds nothing that is searched from.
LEMMA MatchingStarts ==
    ASSUME at' = 0, calls' = <<>>,
           DOMAIN holder' \subseteq Node, holder' \in [DOMAIN holder' -> Nat],
           edges' \subseteq Node \X DOMAIN holder', Assigns(edges', holder'),
           starts' \subseteq Roots', Roots' \subseteq Node,
           \A m \in starts' : ~Held(holder', m),
           \A e \in edges' : e[1] \in Roots' => e[1] \in starts'
    PROVE  SolverInv'
<1>1. MatchingTypeInv'
  BY DEF MatchingTypeInv
<1>2. MatchingInv'
  <2>1. Closed(edges', holder', {})
    BY DEF Closed
  <2>2. \A e \in edges' : e[1] \in Roots' /\ Failed(e[1])' => e[2] \in {}
    BY DEF Failed
  <2> QED BY <2>1, <2>2 DEF MatchingInv
<1>3. SearchInv'
  BY DEF SearchInv
<1> QED
  BY <1>1, <1>2, <1>3 DEF SolverInv

\* A step of the search leaves the answers and the edges alone; what a claim's
\* test says of the holders holds on.
LEMMA SearchingKeepsAnswers ==
    ASSUME KuhnInv, UNCHANGED <<answers, edges>>, DOMAIN holder' = DOMAIN holder,
           at # 0 \/ starts # {},
           \A m \in Node : Held(holder, m) => Held(holder', m),
           phase = "claims" => holder' = holder \/ \A m \in Roots : Held(holder', m)
    PROVE  AnswersInv' /\ PairsInv' /\ ClaimsInv'
<1>1. /\ graph' = graph /\ phase' = phase /\ reference' = reference /\ asked' = asked
      /\ pairsLeft' = pairsLeft /\ claimsLeft' = claimsLeft /\ viable' = viable /\ always' = always
      /\ edges' = edges
  BY DEF answers
<1>2. AnswersInv'
  BY <1>1 DEF KuhnInv, AnswersInv, Idle
<1>3. PairsInv'
  BY <1>1 DEF KuhnInv, PairsInv, Residual
<1>4. ASSUME NEW c, asked = <<c>>, phase = "claims", ClaimUnderTest(c) PROVE ClaimUnderTest(c)'
  <2>1. OrderIds \subseteq Node
    BY SizeAssumption DEF OrderIds, Node
  <2>2. \A o \in OrderIds : reference[o] = c => o \in Roots
    BY <1>4, TestsAreNotNoTest DEF Roots
  <2>3. \A o \in OrderIds : Held(holder, o) => Held(holder', o)
    BY <2>1
  <2>4. CASE holder' = holder
    BY <1>1, <1>4, <2>4 DEF ClaimUnderTest, Without, ClaimIds, OrderIds
  <2>5. CASE \A m \in Roots : Held(holder', m)
    BY <1>1, <1>4, <2>2, <2>3, <2>5 DEF ClaimUnderTest, Without, ClaimIds, OrderIds
  <2> QED BY <1>4, <2>4, <2>5
<1>5. ClaimsInv'
  BY <1>1, <1>4 DEF KuhnInv, ClaimsInv, ClaimIds
<1> QED
  BY <1>2, <1>3, <1>5

LEMMA SearchingKeeps ==
    ASSUME KuhnInv,
           \/ \E n \in starts : Search(n)
           \/ \E o \in DOMAIN holder : Displace(o) \/ Augment(o)
           \/ Return
    PROVE  KuhnInv'
<1>1. ASSUME NEW n \in starts, Search(n) PROVE KuhnInv'
  <2>1. SolverInv'
    BY <1>1, SearchKeeps DEF KuhnInv
  <2>2. UNCHANGED <<answers, edges>> /\ holder' = holder /\ starts # {}
    BY <1>1 DEF Search
  <2> QED BY <2>1, <2>2, SearchingKeepsAnswers DEF KuhnInv
<1>2. ASSUME NEW o \in DOMAIN holder, Displace(o) PROVE KuhnInv'
  <2>1. SolverInv'
    BY <1>2, DisplaceKeeps DEF KuhnInv
  <2>2. UNCHANGED <<answers, edges>> /\ holder' = holder /\ at # 0
    BY <1>2 DEF Displace
  <2> QED BY <2>1, <2>2, SearchingKeepsAnswers DEF KuhnInv
<1>3. ASSUME NEW o \in DOMAIN holder, Augment(o) PROVE KuhnInv'
  <2>1. SolverInv'
    BY <1>3, AugmentKeeps DEF KuhnInv
  <2>2. UNCHANGED <<answers, edges>> /\ at # 0
    BY <1>3 DEF Augment
  <2>3. /\ DOMAIN holder' = DOMAIN holder
        /\ \A m \in Node : Held(holder', m) <=> Held(holder, m) \/ m = Caller(1)
    BY <1>3, AugmentedIs DEF KuhnInv
  <2>4. Caller(1) \in Roots /\ Caller(1) \in Node /\ Roots \subseteq Node
    BY <2>2 DEF KuhnInv, SolverInv, SearchInv, MatchingTypeInv
  <2>5. \A m \in Node : Held(holder, m) => Held(holder', m)
    BY <2>3
  <2>6. ASSUME phase = "claims" PROVE \A m \in Roots : Held(holder', m)
    <3>1. \A m \in Roots : m = Caller(1)
      <4>1. asked # NoTest
        BY <2>2, <2>6 DEF KuhnInv, AnswersInv, Idle
      <4>2. PICK c : asked = <<c>> /\ ClaimUnderTest(c)
        BY <2>6, <4>1 DEF KuhnInv, ClaimsInv
      <4>3. \A m \in Roots : m \in OrderIds /\ reference[m] = c
        BY <2>6, <4>2, TestsAreNotNoTest DEF Roots
      <4>4. c # 0 /\ DOMAIN reference = OrderIds /\ Assigns(graph, reference)
        BY <2>6, <4>2, SizeAssumption DEF KuhnInv, AnswersInv, ClaimUnderTest, ClaimIds
      <4> QED BY <2>4, <4>3, <4>4 DEF Assigns
    <3> QED BY <2>3, <2>4, <3>1
  <2> QED BY <2>1, <2>2, <2>3, <2>5, <2>6, SearchingKeepsAnswers DEF KuhnInv
<1>4. ASSUME Return PROVE KuhnInv'
  <2>1. SolverInv'
    BY <1>4, ReturnKeeps DEF KuhnInv
  <2>2. UNCHANGED <<answers, edges>> /\ holder' = holder /\ at # 0
    BY <1>4 DEF Return
  <2> QED BY <2>1, <2>2, SearchingKeepsAnswers DEF KuhnInv
<1> QED
  BY <1>1, <1>2, <1>3, <1>4

LEMMA KuhnInitially == KuhnInit => KuhnInv
<1> SUFFICES ASSUME KuhnInit PROVE KuhnInv
  OBVIOUS
<1>1. NClaims \in Nat /\ NOrders \in Nat
  BY SizeAssumption
<1>2. /\ graph \in SUBSET (ClaimIds \X OrderIds) /\ phase = "matching" /\ asked = NoTest
      /\ edges = graph /\ starts = ClaimIds /\ holder = NoHolder /\ at = 0 /\ calls = <<>>
      /\ always = {}
  BY DEF KuhnInit
<1>3. /\ ClaimIds \subseteq Node /\ OrderIds \subseteq Node /\ Roots = ClaimIds
      /\ DOMAIN holder = OrderIds /\ \A o \in OrderIds : holder[o] = 0
  BY <1>1, <1>2 DEF ClaimIds, OrderIds, Node, Roots, NoHolder
<1>4. /\ MatchingTypeInv
  BY <1>2, <1>3 DEF MatchingTypeInv, NoHolder
<1>5. MatchingInv
  <2>1. Assigns(edges, holder) /\ Closed(edges, holder, {}) /\ \A m \in Node : ~Held(holder, m)
    BY <1>3 DEF Assigns, Closed, Held, Node
  <2> QED BY <1>2, <1>3, <2>1 DEF MatchingInv, Failed
<1>6. SearchInv
  BY <1>2 DEF SearchInv
<1>7. AnswersInv /\ PairsInv /\ ClaimsInv
  BY <1>2, <1>3 DEF AnswersInv, PairsInv, ClaimsInv
<1> QED
  BY <1>4, <1>5, <1>6, <1>7 DEF KuhnInv, SolverInv

LEMMA MatchedKeeps ==
    ASSUME KuhnInv, Matched
    PROVE  KuhnInv'
<1>1. /\ phase = "matching" /\ at = 0 /\ starts = {} /\ reference' = holder /\ asked' = asked
      /\ phase' = (IF Made(holder) = {} THEN "done" ELSE "pairs")
      /\ viable' = Made(holder) /\ pairsLeft' = graph \ Made(holder) /\ graph' = graph
      /\ claimsLeft' = claimsLeft /\ always' = always /\ UNCHANGED <<matching, search>>
  BY DEF Matched, Idle
<1>2. asked = NoTest /\ edges = graph /\ DOMAIN holder = OrderIds /\ holder \in [OrderIds -> Nat]
  BY <1>1 DEF KuhnInv, AnswersInv, SolverInv, MatchingTypeInv
<1>3. Assigns(graph, holder) /\ Exhausted(graph, holder) /\ Made(holder) \in MaxMatchings(graph)
  BY <1>1, <1>2, IdleIsMaximum DEF KuhnInv, Idle
<1>4. IsFiniteSet(graph) /\ Made(holder) \subseteq Viable(graph) /\ Made(holder) \subseteq graph
  BY <1>3, GraphIsFinite, MaxMatchingsAreMatchings DEF KuhnInv, Viable
<1>5. SolverInv'
  <2>1. Roots' \subseteq Roots
    BY <1>1, <1>2 DEF Roots, ClaimIds
  <2> QED BY <1>1, <2>1, EndedMatchingStays DEF KuhnInv
<1>6. AnswersInv'
  BY <1>1, <1>2, <1>3 DEF KuhnInv, AnswersInv, Idle, matching, search, ClaimIds, OrderIds
<1>7. CASE Made(holder) = {}
  <2>1. phase' = "done"
    BY <1>1, <1>7
  <2>2. graph = {}
    <3> SUFFICES ASSUME NEW e \in graph PROVE FALSE
      OBVIOUS
    <3>1. {e} \in Matchings(graph) /\ Cardinality({e}) = 1
      BY FS_Singleton DEF Matchings, IsMatching
    <3> QED BY <1>3, <1>7, <3>1, FS_EmptySet DEF MaxMatchings
  <2>3. Viable(graph) = {} /\ AlwaysMatched(graph) = {}
    BY <2>2 DEF Viable, MaxMatchings, Matchings, AlwaysMatched, ClaimsOf
  <2>4. always = {}
    BY <1>1 DEF KuhnInv, PairsInv
  <2> QED BY <1>1, <1>2, <1>5, <1>6, <1>7, <2>1, <2>3, <2>4 DEF KuhnInv, PairsInv, ClaimsInv
<1>8. CASE Made(holder) # {}
  <2>1. phase' = "pairs"
    BY <1>1, <1>8
  <2>2. always = {}
    BY <1>1 DEF KuhnInv, PairsInv
  <2>3. PairsInv'
    BY <1>1, <1>2, <1>4, <2>1, <2>2 DEF PairsInv
  <2>4. ClaimsInv'
    BY <2>1 DEF ClaimsInv
  <2> QED BY <1>5, <1>6, <2>3, <2>4 DEF KuhnInv
<1> QED
  BY <1>7, <1>8

LEMMA TestPairKeeps ==
    ASSUME KuhnInv, NEW e \in pairsLeft, TestPair(e)
    PROVE  KuhnInv'
<1>1. /\ phase = "pairs" /\ asked = NoTest /\ asked' = e /\ pairsLeft' = pairsLeft \ {e}
      /\ edges' = Residual(e) /\ holder' = NoHolder
      /\ starts' = (IF Residual(e) = {} THEN {} ELSE ClaimIds \ {e[1]})
      /\ graph' = graph /\ phase' = phase /\ reference' = reference /\ claimsLeft' = claimsLeft
      /\ viable' = viable /\ always' = always /\ at' = at /\ calls' = calls /\ seen' = seen
  BY DEF TestPair, search
<1>2. /\ graph \in SUBSET (ClaimIds \X OrderIds) /\ at = 0 /\ starts = {} /\ calls = <<>>
      /\ reference \in [OrderIds -> Nat] /\ Assigns(graph, reference) /\ Exhausted(graph, reference)
      /\ viable \subseteq graph /\ pairsLeft \subseteq graph \ viable /\ always = {}
      /\ \A f \in graph : f \notin pairsLeft => (f \in viable <=> f \in Viable(graph))
  <2>1. \A f \in graph : f # NoTest
    BY TestsAreNotNoTest DEF KuhnInv, AnswersInv
  <2> QED BY <1>1, <2>1 DEF KuhnInv, AnswersInv, PairsInv, SolverInv, SearchInv, Idle
<1>3. /\ ClaimIds \subseteq Node /\ OrderIds \subseteq Node /\ Roots' = ClaimIds
      /\ DOMAIN holder' = OrderIds /\ \A o \in OrderIds : holder'[o] = 0
  BY <1>1, SizeAssumption DEF ClaimIds, OrderIds, Node, Roots, NoHolder
<1>4. e \in graph /\ e # NoTest /\ Residual(e) \subseteq graph
  BY <1>2, TestsAreNotNoTest DEF Residual
<1>5. SolverInv'
  <2>1. edges' \subseteq Node \X DOMAIN holder'
    BY <1>1, <1>2, <1>3, <1>4
  <2>2. Assigns(edges', holder') /\ \A m \in Node : ~Held(holder', m)
    BY <1>3 DEF Assigns, Held, Node
  <2>3. \A f \in edges' : f[1] \in starts'
    BY <1>1, <1>2, <1>4 DEF Residual
  <2>4. starts' \subseteq ClaimIds
    BY <1>1
  <2>5. holder' \in [DOMAIN holder' -> Nat] /\ calls' = <<>> /\ at' = 0
    BY <1>1, <1>2, <1>3 DEF NoHolder
  <2> QED BY <1>3, <2>1, <2>2, <2>3, <2>4, <2>5, MatchingStarts
<1>6. AnswersInv'
  BY <1>1, <1>2, <1>4 DEF AnswersInv, ClaimIds, OrderIds
<1>7. PairsInv'
  <2>1. e \notin viable
    BY <1>2
  <2> QED BY <1>1, <1>2, <1>4, <2>1 DEF PairsInv, Residual
<1>8. ClaimsInv'
  BY <1>1 DEF ClaimsInv
<1> QED
  BY <1>5, <1>6, <1>7, <1>8 DEF KuhnInv

LEMMA PairTestedKeeps ==
    ASSUME KuhnInv, PairTested
    PROVE  KuhnInv'
<1>1. /\ phase = "pairs" /\ asked # NoTest /\ at = 0 /\ starts = {} /\ asked' = NoTest
      /\ viable' = (IF 1 + Cardinality(Made(holder)) = Cardinality(Made(reference))
                    THEN viable \cup {asked} ELSE viable)
      /\ graph' = graph /\ phase' = phase /\ reference' = reference /\ claimsLeft' = claimsLeft
      /\ pairsLeft' = pairsLeft /\ always' = always /\ UNCHANGED <<matching, search>>
  BY DEF PairTested, Idle
<1>2. asked \in Viable(graph) <=> 1 + Cardinality(Made(holder)) = Cardinality(Made(reference))
  BY <1>1, PairIsTested DEF Idle
<1>3. asked \in graph /\ asked \notin viable /\ asked \notin pairsLeft
  BY <1>1 DEF KuhnInv, PairsInv
<1>4. \A f \in graph : f # NoTest
  BY TestsAreNotNoTest DEF KuhnInv, AnswersInv
<1>5. SolverInv'
  <2>1. Roots' \subseteq Roots
    BY <1>1 DEF Roots, ClaimIds
  <2> QED BY <1>1, <2>1, EndedMatchingStays DEF KuhnInv
<1>6. AnswersInv'
  BY <1>1 DEF KuhnInv, AnswersInv, Idle, matching, search, ClaimIds, OrderIds
<1>7. PairsInv'
  <2>1. \A f \in graph : f \notin pairsLeft => (f \in viable' <=> f \in Viable(graph))
    BY <1>1, <1>2, <1>3 DEF KuhnInv, PairsInv
  <2> QED BY <1>1, <1>3, <1>4, <2>1 DEF KuhnInv, PairsInv
<1>8. ClaimsInv'
  BY <1>1 DEF ClaimsInv
<1> QED
  BY <1>5, <1>6, <1>7, <1>8 DEF KuhnInv

LEMMA PairsDoneKeeps ==
    ASSUME KuhnInv, PairsDone
    PROVE  KuhnInv'
<1>1. /\ phase = "pairs" /\ asked = NoTest /\ pairsLeft = {} /\ phase' = "claims" /\ claimsLeft' = ClaimIds
      /\ graph' = graph /\ reference' = reference /\ asked' = asked /\ pairsLeft' = pairsLeft
      /\ viable' = viable /\ always' = always /\ UNCHANGED <<matching, search>>
  BY DEF PairsDone
<1>2. at = 0 /\ starts = {}
  BY <1>1 DEF KuhnInv, AnswersInv, Idle
<1>3. SolverInv'
  <2>1. Roots' \subseteq Roots
    BY <1>1 DEF Roots
  <2> QED BY <1>1, <1>2, <2>1, EndedMatchingStays DEF KuhnInv
<1>4. AnswersInv'
  BY <1>1, <1>2 DEF KuhnInv, AnswersInv, Idle, matching, search, ClaimIds, OrderIds
<1>5. viable = Viable(graph)
  <2>1. \A f \in graph : f # NoTest
    BY TestsAreNotNoTest DEF KuhnInv, AnswersInv
  <2>2. Viable(graph) \subseteq graph
    BY DEF Viable, MaxMatchings, Matchings
  <2> QED BY <1>1, <2>1, <2>2 DEF KuhnInv, PairsInv
<1>6. PairsInv'
  BY <1>1, <1>5 DEF PairsInv
<1>7. ClaimsInv'
  BY <1>1 DEF KuhnInv, PairsInv, ClaimsInv, ClaimIds
<1> QED
  BY <1>3, <1>4, <1>6, <1>7 DEF KuhnInv

LEMMA TestClaimKeeps ==
    ASSUME KuhnInv, NEW c \in claimsLeft, TestClaim(c)
    PROVE  KuhnInv'
<1>1. /\ phase = "claims" /\ asked = NoTest /\ claimsLeft' = claimsLeft \ {c}
      /\ graph' = graph /\ phase' = phase /\ reference' = reference /\ pairsLeft' = pairsLeft
      /\ viable' = viable /\ always' = always /\ at' = at /\ calls' = calls /\ seen' = seen
  BY DEF TestClaim, search
<1>2. /\ graph \in SUBSET (ClaimIds \X OrderIds) /\ at = 0 /\ starts = {} /\ calls = <<>>
      /\ reference \in [OrderIds -> Nat] /\ Assigns(graph, reference) /\ Exhausted(graph, reference)
      /\ viable = Viable(graph) /\ always \subseteq ClaimIds /\ claimsLeft \subseteq ClaimIds \ always
      /\ \A d \in ClaimIds : d \notin claimsLeft => (d \in always <=> d \in AlwaysMatched(graph))
  <2>1. \A d : asked # <<d>>
    BY <1>1, TestsAreNotNoTest
  <2> QED BY <1>1, <2>1 DEF KuhnInv, AnswersInv, PairsInv, ClaimsInv, SolverInv, SearchInv, Idle
<1>3. PairsInv'
  BY <1>1, <1>2 DEF PairsInv
<1>4. CASE (\A o \in OrderIds : reference[o] # c) /\ UNCHANGED <<asked, edges, starts, holder>>
  <2>1. SolverInv'
    <3>1. UNCHANGED <<matching, search>> /\ Roots' = Roots
      BY <1>1, <1>4 DEF matching, search, Roots, OrderIds, ClaimIds
    <3> QED BY <1>2, <3>1, EndedMatchingStays DEF KuhnInv
  <2>2. AnswersInv'
    BY <1>1, <1>2, <1>4 DEF AnswersInv, Idle, ClaimIds, OrderIds
  <2>3. c \notin AlwaysMatched(graph)
    <3>1. Made(reference) \in MaxMatchings(graph) /\ Assigns(graph, reference)
      BY <1>1, <1>2, ReferenceIsMaximum DEF KuhnInv
    <3>2. \A e \in Made(reference) : e[1] # c
      BY <1>2, <1>4, <3>1, MadeIsAMatching
    <3>3. c \notin ClaimsOf(Made(reference))
      BY <3>2 DEF ClaimsOf
    <3> QED BY <3>1, <3>3 DEF AlwaysMatched
  <2>4. c \notin always
    BY <1>2
  <2>5. ClaimsInv'
    BY <1>1, <1>2, <1>4, <2>3, <2>4, TestsAreNotNoTest DEF ClaimsInv, ClaimIds
  <2> QED BY <1>3, <2>1, <2>2, <2>5 DEF KuhnInv
<1>5. ASSUME NEW o \in OrderIds, reference[o] = c, asked' = <<c>>,
             edges' = {<<e[2], e[1]>> : e \in {f \in graph : f[1] # c}}, starts' = {o},
             holder' = [d \in ClaimIds |-> IF \E p \in OrderIds \ {o} : reference[p] = d
                                          THEN CHOOSE p \in OrderIds \ {o} : reference[p] = d ELSE 0]
      PROVE  KuhnInv'
  <2>1. c \in ClaimIds /\ ClaimIds \subseteq Node /\ OrderIds \subseteq Node
    BY <1>2, SizeAssumption DEF ClaimIds, OrderIds, Node
  <2>2. \A p \in OrderIds : reference[p] = c => p = o
    BY <1>2, <1>5, <2>1 DEF Assigns, Node
  <2>3. /\ DOMAIN holder' = ClaimIds
        /\ \A d \in ClaimIds :
              \/ holder'[d] = 0 /\ \A p \in OrderIds \ {o} : reference[p] # d
              \/ holder'[d] \in OrderIds \ {o} /\ reference[holder'[d]] = d
    <3>1. DOMAIN holder' = ClaimIds
      BY <1>5
    <3>2. ASSUME NEW d \in ClaimIds, NEW p \in OrderIds \ {o}, reference[p] = d
          PROVE  holder'[d] \in OrderIds \ {o} /\ reference[holder'[d]] = d
      <4>1. holder'[d] = CHOOSE q \in OrderIds \ {o} : reference[q] = d
        BY <1>5, <3>2
      <4> QED BY <3>2, <4>1
    <3>3. ASSUME NEW d \in ClaimIds, \A p \in OrderIds \ {o} : reference[p] # d PROVE holder'[d] = 0
      <4>1. ~ \E p \in OrderIds \ {o} : reference[p] = d
        BY <3>3
      <4> QED BY <1>5, <4>1
    <3> QED BY <3>1, <3>2, <3>3
  <2>4. \A d \in ClaimIds : holder'[d] # 0 => holder'[d] \in OrderIds /\ reference[holder'[d]] = d /\ d # c
    BY <2>2, <2>3
  <2>5. \A p \in OrderIds : reference[p] # 0 /\ reference[p] # c => Held(holder', p)
    <3> SUFFICES ASSUME NEW p \in OrderIds, reference[p] # 0, reference[p] # c PROVE Held(holder', p)
      OBVIOUS
    <3>1. <<reference[p], p>> \in graph /\ p # o
      BY <1>2, <1>5 DEF Assigns
    <3>2. reference[p] \in ClaimIds
      BY <1>2, <3>1
    <3>3. holder'[reference[p]] = p
      BY <1>2, <2>3, <3>1, <3>2 DEF Assigns
    <3> QED BY <2>3, <3>2, <3>3 DEF Held
  <2>6. Roots' = {o}
    BY <1>1, <1>5, <2>2, TestsAreNotNoTest DEF Roots, OrderIds
  <2>7. SolverInv'
    <3>1. edges' \subseteq Node \X DOMAIN holder'
      BY <1>2, <1>5, <2>1, <2>3
    <3>2. Assigns(edges', holder')
      <4>1. ASSUME NEW d \in ClaimIds, holder'[d] # 0 PROVE <<holder'[d], d>> \in edges'
        <5>1. holder'[d] \in OrderIds /\ reference[holder'[d]] = d /\ d # c /\ d # 0
          BY <2>1, <2>4, <4>1 DEF Node
        <5>2. <<d, holder'[d]>> \in graph
          BY <1>2, <5>1 DEF Assigns
        <5>3. PICK f \in graph : f = <<d, holder'[d]>>
          BY <5>2
        <5>4. f[1] # c /\ <<f[2], f[1]>> = <<holder'[d], d>>
          BY <5>1, <5>3
        <5>5. <<f[2], f[1]>> \in edges'
          BY <1>5, <5>4
        <5> QED BY <5>4, <5>5
      <4> QED BY <2>3, <2>4, <4>1 DEF Assigns
    <3>3. \A m \in {o} : ~Held(holder', m)
      BY <2>1, <2>3 DEF Held, Node
    <3>4. holder' \in [DOMAIN holder' -> Nat]
      <4>1. \A d \in ClaimIds : holder'[d] \in Nat
        <5>1. \A p \in OrderIds : p \in Nat
          BY <2>1 DEF Node
        <5> QED BY <2>3, <5>1
      <4> QED BY <1>5, <2>3, <4>1
    <3> QED BY <1>1, <1>2, <1>5, <2>1, <2>3, <2>6, <3>1, <3>2, <3>3, <3>4, MatchingStarts
  <2>8. AnswersInv'
    BY <1>1, <1>2, <1>5, TestsAreNotNoTest DEF AnswersInv, ClaimIds, OrderIds
  <2>9. ClaimUnderTest(c)'
    <3>1. c \notin always /\ Held(reference, c)
      BY <1>2, <1>5 DEF Held
    <3> QED BY <1>1, <1>5, <2>1, <2>3, <2>4, <2>5, <3>1 DEF ClaimUnderTest, Without, ClaimIds, OrderIds
  <2>10. ClaimsInv'
    <3>1. \A d : d # c => asked' # <<d>> 
      BY <1>5, TestsAreNotNoTest
    <3> QED BY <1>1, <1>2, <1>5, <2>9 DEF ClaimsInv, ClaimIds
  <2> QED BY <1>3, <2>7, <2>8, <2>10 DEF KuhnInv
<1> QED
  BY <1>4, <1>5 DEF TestClaim

LEMMA ClaimTestedKeeps ==
    ASSUME KuhnInv, ClaimTested
    PROVE  KuhnInv'
<1>1. /\ phase = "claims" /\ asked # NoTest /\ at = 0 /\ starts = {} /\ asked' = NoTest
      /\ graph' = graph /\ phase' = phase /\ reference' = reference /\ claimsLeft' = claimsLeft
      /\ pairsLeft' = pairsLeft /\ viable' = viable /\ UNCHANGED <<matching, search>>
  BY DEF ClaimTested, Idle
<1>2. PICK c : asked = <<c>> /\ ClaimUnderTest(c)
  BY <1>1 DEF KuhnInv, ClaimsInv
<1>3. /\ c \in ClaimIds \ (always \cup claimsLeft)
      /\ always' = IF c \in AlwaysMatched(graph) THEN always \cup {c} ELSE always
  <2>1. asked[1] = c
    BY <1>2, TestsAreNotNoTest
  <2>2. c \in AlwaysMatched(graph) <=>
            ~ \E d \in ClaimIds, o \in OrderIds : reference[o] = c /\ holder[d] = o
    BY <1>1, <1>2, ClaimIsTested DEF Idle
  <2> QED BY <1>2, <2>1, <2>2 DEF ClaimTested, ClaimUnderTest
<1>4. SolverInv'
  <2>1. Roots' \subseteq Roots
    BY <1>1 DEF Roots, OrderIds
  <2> QED BY <1>1, <2>1, EndedMatchingStays DEF KuhnInv
<1>5. AnswersInv'
  BY <1>1 DEF KuhnInv, AnswersInv, Idle, matching, search, ClaimIds, OrderIds
<1>6. PairsInv'
  BY <1>1 DEF KuhnInv, PairsInv
<1>7. ClaimsInv'
  <2>1. \A d : d # c => asked # <<d>>
    BY <1>2, TestsAreNotNoTest
  <2>2. \A d \in ClaimIds : d \notin claimsLeft => (d \in always' <=> d \in AlwaysMatched(graph))
    BY <1>1, <1>3, <2>1 DEF KuhnInv, ClaimsInv
  <2> QED BY <1>1, <1>3, <2>2 DEF KuhnInv, ClaimsInv, ClaimIds
<1> QED
  BY <1>4, <1>5, <1>6, <1>7 DEF KuhnInv

LEMMA ClaimsDoneKeeps ==
    ASSUME KuhnInv, ClaimsDone
    PROVE  KuhnInv'
<1>1. /\ phase = "claims" /\ asked = NoTest /\ claimsLeft = {} /\ phase' = "done"
      /\ graph' = graph /\ reference' = reference /\ asked' = asked /\ claimsLeft' = claimsLeft
      /\ pairsLeft' = pairsLeft /\ viable' = viable /\ always' = always /\ UNCHANGED <<matching, search>>
  BY DEF ClaimsDone
<1>2. at = 0 /\ starts = {}
  BY <1>1 DEF KuhnInv, AnswersInv, Idle
<1>3. SolverInv'
  <2>1. Roots' \subseteq Roots
    BY <1>1 DEF Roots, OrderIds
  <2> QED BY <1>1, <1>2, <2>1, EndedMatchingStays DEF KuhnInv
<1>4. AnswersInv'
  BY <1>1, <1>2 DEF KuhnInv, AnswersInv, Idle, matching, search, ClaimIds, OrderIds
<1>5. PairsInv'
  BY <1>1 DEF KuhnInv, PairsInv
<1>6. always = AlwaysMatched(graph)
  <2>1. AlwaysMatched(graph) \subseteq ClaimIds
    BY DEF KuhnInv, AnswersInv, AlwaysMatched, ClaimsOf
  <2>2. \A d : asked # <<d>>
    BY <1>1, TestsAreNotNoTest
  <2> QED BY <1>1, <2>1, <2>2 DEF KuhnInv, ClaimsInv
<1>7. ClaimsInv'
  BY <1>1, <1>6 DEF ClaimsInv
<1> QED
  BY <1>3, <1>4, <1>5, <1>7 DEF KuhnInv

LEMMA SolverStutterKeeps ==
    ASSUME KuhnInv, UNCHANGED kuhnVars
    PROVE  KuhnInv'
<1>1. /\ graph' = graph /\ phase' = phase /\ reference' = reference /\ asked' = asked
      /\ pairsLeft' = pairsLeft /\ claimsLeft' = claimsLeft /\ viable' = viable /\ always' = always
      /\ edges' = edges /\ starts' = starts /\ holder' = holder
      /\ at' = at /\ calls' = calls /\ seen' = seen
  BY DEF kuhnVars, answers, matching, search
<1>2. Roots' = Roots /\ \A m : Failed(m)' <=> Failed(m)
  BY <1>1 DEF Roots, Failed, Caller, ClaimIds, OrderIds
<1>3. MatchingTypeInv' /\ MatchingInv'
  BY <1>1, <1>2 DEF KuhnInv, SolverInv, MatchingTypeInv, MatchingInv
<1>4. SearchInv'
  <2>1. \A i : Caller(i)' = Caller(i)
    BY <1>1 DEF Caller
  <2> QED BY <1>1, <1>2, <2>1 DEF KuhnInv, SolverInv, SearchInv
<1>5. AnswersInv' /\ PairsInv'
  BY <1>1 DEF KuhnInv, AnswersInv, PairsInv, Idle, Residual, ClaimIds, OrderIds
<1>6. \A c : ClaimUnderTest(c) => ClaimUnderTest(c)'
  BY <1>1 DEF ClaimUnderTest, Without, ClaimIds, OrderIds
<1>7. ClaimsInv'
  BY <1>1, <1>6 DEF KuhnInv, ClaimsInv, ClaimIds
<1> QED
  BY <1>3, <1>4, <1>5, <1>7 DEF KuhnInv, SolverInv

\* What a search, a matching and a test keep: the calls under way are the path
\* an augmentation would take, what failed searches visited is closed, and what
\* is no longer to be tested is known (_bipartite_max_matching, _edge_is_viable,
\* _claim_can_be_unmatched).
THEOREM SolverInvariant == KuhnSpec => []KuhnInv
<1>1. KuhnInv /\ [KuhnNext]_kuhnVars => KuhnInv'
  BY SearchingKeeps, MatchedKeeps, TestPairKeeps, PairTestedKeeps, PairsDoneKeeps,
     TestClaimKeeps, ClaimTestedKeeps, ClaimsDoneKeeps, SolverStutterKeeps DEF KuhnNext
<1> QED
  BY <1>1, KuhnInitially, PTL DEF KuhnSpec

\* For any graph, the polynomial solver derives what enumerating every maximum
\* matching does (_max_matchings_for_tier).
THEOREM PolynomialSolverIsExact == KuhnSpec => []SolverIsExact
<1>1. KuhnInv => SolverIsExact
  BY DEF KuhnInv, PairsInv, ClaimsInv, SolverIsExact
<1> QED
  BY <1>1, SolverInvariant, PTL

-----------------------------------------------------------------------------
(* The reference model.                                                    *)

\* What the reference model keeps: a claim or an order is decided once, an
\* assignment is of one claim and one order, and what is left is the rest.
Sound(d) ==
    /\ d.forced \subseteq Eligible \X Order /\ d.several \subseteq Eligible \X Order
    /\ IsMatching(d.forced)
    /\ \A e \in d.forced, f \in d.several : e[1] # f[1] /\ e[2] # f[2]
    /\ d.left = Eligible \ ClaimsOf(d.forced \cup d.several)
    /\ d.free = Order \ OrdersOf(d.forced \cup d.several)

\* What a record has in common with the claims decided so far: F are the
\* assigned pairs, S the ambiguous ones.
Unmatched(c, F, S) == \A o \in Order : <<c, o>> \notin F \cup S

Standing(c, F, S) ==
    \/ assignment[c] = None /\ Unmatched(c, F, S)
    \/ /\ assignment[c] # None /\ assignment[c].kind = "assigned"
       /\ assignment[c].involved = {o \in Order : <<c, o>> \in F}
       /\ assignment[c].involved # {} /\ \A o \in Order : <<c, o>> \notin S
    \/ /\ assignment[c] # None /\ assignment[c].kind = "ambiguous"
       /\ assignment[c].involved = {o \in Order : <<c, o>> \in S}
       /\ assignment[c].involved # {} /\ \A o \in Order : <<c, o>> \notin F

Disposition(o, F, S, rest) ==
    IF o \in OrdersOf(F) THEN "assigned" ELSE IF o \in OrdersOf(S) THEN "ambiguous" ELSE rest

Decidedness(F, S) ==
    /\ \A c \in Claim : Standing(c, F, S)
    /\ \A o \in Order : state[o] = Disposition(o, F, S, "open")

\* A claim no tier decided, once the conflict pass has visited it.
Conflicts(c, o) == Tier(c, o) = "CONFLICT"

PassedOver(c, free) ==
    /\ assignment[c] # None
    /\ assignment[c].kind \in {"conflict", "none"}
    /\ assignment[c].involved = {o \in free : Conflicts(c, o)}
    /\ assignment[c].kind = "none" <=> assignment[c].involved = {}

-----------------------------------------------------------------------------
(* The invariant.                                                          *)

RecTypeInv ==
    /\ claims \in [Claim -> ClaimData] /\ orders \in [Order -> OrderData]
    /\ stage \in 1..6
    /\ matched \in {None} \cup SUBSET (Claim \X Order)
    /\ avail \subseteq Order /\ todo \subseteq Claim
    /\ assignment \in [Claim -> Assignment \cup {None}]
    /\ state \in [Order -> {"open", "assigned", "ambiguous", "conflict"}]

\* Between two tiers, everything is as the reference model has it.
BetweenTiers ==
    stage <= 3 /\ matched = None =>
        todo = {} /\ Decidedness(Decide[stage - 1].forced, Decide[stage - 1].several)

\* Within a tier, the claims visited are as the reference model will have them.
WithinTier ==
    stage <= 3 /\ matched # None =>
        LET d == Decide[stage - 1]
            visited == ClaimsOf(matched) \ todo
        IN /\ matched = TierGraph(stage, d)
           /\ todo \subseteq ClaimsOf(matched)
           /\ Decidedness(d.forced \cup Decided(matched, Forced(matched) \cap visited),
                          d.several \cup Decided(matched, Ambiguous(matched) \cap visited))

\* In the conflict pass, only what no tier decided can still change.
AfterTiers ==
    stage >= 4 =>
        LET d == Decide[3] IN
        /\ avail = d.free
        /\ \A c \in Claim :
              \/ c \in todo /\ assignment[c] = None /\ Unmatched(c, d.forced, d.several)
              \/ c \notin todo /\ assignment[c] # None /\ Standing(c, d.forced, d.several)
              \/ /\ c \notin todo /\ PassedOver(c, d.free)
                 /\ Unmatched(c, d.forced, d.several)

ConflictPass ==
    stage = 4 =>
        LET d == Decide[3]
            conflicting(o) == \E c \in Claim : /\ c \notin todo /\ Conflicts(c, o)
                                               /\ Unmatched(c, d.forced, d.several)
        IN \A o \in Order : state[o] = Disposition(o, d.forced, d.several,
                                    IF conflicting(o) THEN "conflict" ELSE "open")

Settled ==
    stage >= 5 =>
        LET d == Decide[3] IN
        /\ todo = {}
        /\ \A o \in Order : state[o] = Disposition(o, d.forced, d.several,
                IF \E c \in Claim : Conflicts(c, o) THEN "conflict" ELSE "open")

Reported ==
    stage = 6 => \E pick \in Picks : findings = Primary(pick) \cup OrderFindings(Primary(pick))

RecInv == RecTypeInv /\ BetweenTiers /\ WithinTier /\ AfterTiers /\ ConflictPass /\ Settled /\ Reported

-----------------------------------------------------------------------------
(* The reference model, in the order it decides.                           *)

LEMMA DecideUnfolds ==
    /\ Decide[0] = [forced |-> {}, several |-> {}, free |-> Order, left |-> Eligible]
    /\ \A t \in 1..3 : Decide[t] = DecideTier(t, Decide[t - 1])
<1> DEFINE first == [forced |-> {}, several |-> {}, free |-> Order, left |-> Eligible]
           nextTier(f, t) == IF t = 0 THEN first ELSE DecideTier(t, f[t - 1])
           d1 == DecideTier(1, first)
           d2 == DecideTier(2, d1)
           d3 == DecideTier(3, d2)
           g == [t \in 0..3 |-> IF t = 0 THEN first ELSE IF t = 1 THEN d1
                                ELSE IF t = 2 THEN d2 ELSE d3]
<1>1. g[0] = first /\ g[1] = d1 /\ g[2] = d2 /\ g[3] = d3
  OBVIOUS
<1> HIDE DEF g, d1, d2, d3, first
<1>2. \A t \in 0..3 : g[t] = IF t = 0 THEN first ELSE DecideTier(t, g[t - 1])
  <2> SUFFICES ASSUME NEW t \in 0..3 PROVE g[t] = IF t = 0 THEN first ELSE DecideTier(t, g[t - 1])
    OBVIOUS
  <2>1. t = 0 \/ t = 1 \/ t = 2 \/ t = 3
    OBVIOUS
  <2> QED
    BY <1>1, <2>1 DEF d1, d2, d3
<1>3. g = [t \in 0..3 |-> IF t = 0 THEN first ELSE DecideTier(t, g[t - 1])]
  BY <1>2 DEF g
<1>4. Decide = CHOOSE f : f = [t \in 0..3 |-> IF t = 0 THEN first ELSE DecideTier(t, f[t - 1])]
  BY DEF Decide, first
<1>5. Decide = [t \in 0..3 |-> IF t = 0 THEN first ELSE DecideTier(t, Decide[t - 1])]
  BY <1>3, <1>4
<1>6. ASSUME NEW t \in 0..3 PROVE Decide[t] = IF t = 0 THEN first ELSE DecideTier(t, Decide[t - 1])
  BY <1>5
<1> QED
  BY <1>6 DEF first

\* A tier's graph is finite.
LEMMA TierGraphIsFinite ==
    ASSUME NEW t, NEW d, Sound(d)
    PROVE  /\ FiniteGraph(TierGraph(t, d)) /\ TierGraph(t, d) \in SUBSET (Claim \X Order)
           /\ \A e \in TierGraph(t, d) : e[1] \in d.left /\ e[2] \in d.free
<1>1. d.left \subseteq Claim /\ d.free \subseteq Order
  BY DEF Sound, Eligible
<1>2. TierGraph(t, d) \subseteq Claim \X Order
  BY <1>1 DEF TierGraph
<1>3. IsFiniteSet(Claim \X Order)
  BY DataAssumption, FS_Product
<1> QED
  BY <1>2, <1>3, FS_Subset DEF FiniteGraph, TierGraph

LEMMA DecidedPairs ==
    ASSUME NEW G, FiniteGraph(G), NEW C, NEW c, NEW o
    PROVE  <<c, o>> \in Decided(G, C) <=> c \in C /\ o \in Partners(G, c)
BY PartnersAreEdges DEF Decided

\* A tier decides a claim, and an order, once.
LEMMA TierIsSound ==
    ASSUME NEW t, NEW d, Sound(d) PROVE Sound(DecideTier(t, d))
<1> DEFINE G == TierGraph(t, d)
           F == Decided(G, Forced(G))
           S == Decided(G, Ambiguous(G))
           n == DecideTier(t, d)
<1>1. /\ n.forced = d.forced \cup F /\ n.several = d.several \cup S
      /\ n.free = d.free \ OrdersOf(F \cup S) /\ n.left = d.left \ ClaimsOf(F \cup S)
  BY DEF DecideTier
<1>2. /\ FiniteGraph(G) /\ G \subseteq Claim \X Order
      /\ \A e \in G : e[1] \in d.left /\ e[2] \in d.free /\ e = <<e[1], e[2]>>
  BY TierGraphIsFinite DEF FiniteGraph
<1>3. \A e \in F : e \in G /\ e[1] \in Forced(G) /\ e[2] \in Partners(G, e[1])
  BY DEF Decided
<1>4. \A e \in S : e \in G /\ e[1] \in Ambiguous(G) /\ e[2] \in Partners(G, e[1]) /\ e[1] \notin Forced(G)
  BY DEF Decided, Ambiguous
<1> HIDE DEF G, F, S, n
<1>5. \A e \in F \cup S : e[1] \in d.left /\ e[2] \in d.free
  BY <1>2, <1>3, <1>4
<1>6. \A e \in d.forced \cup d.several : e[1] \notin d.left /\ e[2] \notin d.free
  BY DEF Sound, ClaimsOf, OrdersOf
<1>7. n.forced \subseteq Eligible \X Order /\ n.several \subseteq Eligible \X Order
  BY <1>1, <1>2, <1>3, <1>4, <1>5 DEF Sound
<1>8. IsMatching(n.forced)
  <2>1. ASSUME NEW e \in F, NEW f \in F, e[1] = f[1] PROVE e = f
    <3>1. PICK o : Partners(G, e[1]) = {o}
      BY <1>2, <1>3, ForcedPair
    <3> QED
      BY <1>2, <1>3, <2>1, <3>1
  <2>2. ASSUME NEW e \in F, NEW f \in F, e[2] = f[2] PROVE e = f
    BY <1>2, <1>3, <2>2, ForcedOrderIsHeld
  <2> QED
    BY <1>1, <1>5, <1>6, <2>1, <2>2 DEF IsMatching, Sound
<1>9. ASSUME NEW e \in n.forced, NEW f \in n.several PROVE e[1] # f[1] /\ e[2] # f[2]
  <2>1. ASSUME e \in F, f \in S PROVE e[1] # f[1] /\ e[2] # f[2]
    <3>1. e[2] = f[2] => f[1] = e[1]
      BY <1>2, <1>3, <1>4, <2>1, ForcedOrderIsHeld
    <3> QED
      BY <1>3, <1>4, <2>1, <3>1
  <2> QED
    BY <1>1, <1>5, <1>6, <2>1 DEF Sound
<1>10. /\ n.left = Eligible \ ClaimsOf(n.forced \cup n.several)
       /\ n.free = Order \ OrdersOf(n.forced \cup n.several)
  <2>1. /\ d.left = Eligible \ ClaimsOf(d.forced \cup d.several)
        /\ d.free = Order \ OrdersOf(d.forced \cup d.several)
    BY DEF Sound
  <2> QED
    BY <1>1, <2>1 DEF ClaimsOf, OrdersOf
<1> QED
  BY <1>7, <1>8, <1>9, <1>10 DEF Sound, n

LEMMA DecideIsSound ==
    /\ \A t \in 0..3 : Sound(Decide[t])
    /\ \A t \in 1..3 : Decide[t] = DecideTier(t, Decide[t - 1])
    /\ Decide[0].forced = {} /\ Decide[0].several = {}
<1>1. Sound(Decide[0])
  BY DecideUnfolds DEF Sound, IsMatching, ClaimsOf, OrdersOf
<1>2. Sound(Decide[1])
  BY <1>1, DecideUnfolds, TierIsSound
<1>3. Sound(Decide[2])
  BY <1>2, DecideUnfolds, TierIsSound
<1>4. Sound(Decide[3])
  BY <1>3, DecideUnfolds, TierIsSound
<1>5. \A t \in 0..3 : t = 0 \/ t = 1 \/ t = 2 \/ t = 3
  OBVIOUS
<1> QED
  BY <1>1, <1>2, <1>3, <1>4, <1>5, DecideUnfolds

\* The engine's tier of a pair is the reference model's, and conflict is the
\* partial disagreement of identifiers.
LEMMA TierIsEvidence ==
    ASSUME NEW c \in Claim, NEW o \in Order
    PROVE  /\ \A t \in 1..3 : Tier(c, o) = Tiers[t] <=> c \in Eligible /\ TierForEdge(c, o) = Tiers[t]
           /\ Conflicts(c, o) <=> /\ c \in Eligible /\ Agreed(c, o) # {}
                                  /\ Agreed(c, o) # Compared(c, o)
           /\ Tier(c, o) \in {"FULL", "PARTIAL"} <=> /\ c \in Eligible /\ Agreed(c, o) # {}
                                                     /\ Agreed(c, o) = Compared(c, o)
<1>1. Agreed(c, o) # {} => HasIds(c)
  BY DEF Agreed, Compared, HasIds
<1>2. c \in Eligible <=> Eligibility(c) # "SKIPPED"
  BY DEF Eligible
<1>3. \A t \in 1..3 : Tiers[t] \in {"FULL", "PARTIAL", "WEAK"}
  BY DEF Tiers
<1>4. Tier(c, o) = IF Eligibility(c) = "SKIPPED" THEN "none"
                   ELSE IF ~HasIds(c) THEN (IF CloseBy(c, o) THEN "WEAK" ELSE "none")
                   ELSE IF Agreed(c, o) = {} THEN "none"
                   ELSE IF Agreed(c, o) # Compared(c, o) THEN "CONFLICT"
                   ELSE IF Cardinality(Compared(c, o)) = 2 THEN "FULL" ELSE "PARTIAL"
  BY DEF Tier
<1>5. TierForEdge(c, o) = IF ~HasIds(c) THEN (IF CloseBy(c, o) THEN "WEAK" ELSE "none")
                          ELSE IF Agreed(c, o) # {} /\ Agreed(c, o) = Compared(c, o)
                               THEN (IF Cardinality(Agreed(c, o)) = 2 THEN "FULL" ELSE "PARTIAL")
                          ELSE "none"
  BY DEF TierForEdge
<1>6. \A s \in {"FULL", "PARTIAL", "WEAK"} :
         Tier(c, o) = s <=> c \in Eligible /\ TierForEdge(c, o) = s
  BY <1>2, <1>4, <1>5
<1>7. \A t \in 1..3 : Tier(c, o) = Tiers[t] <=> c \in Eligible /\ TierForEdge(c, o) = Tiers[t]
  BY <1>3, <1>6
<1> QED
  BY <1>1, <1>2, <1>4, <1>7 DEF Conflicts

\* The evidence is the input's, which no step changes.
LEMMA SameEvidence ==
    ASSUME UNCHANGED input
    PROVE  /\ \A c : Eligibility(c)' = Eligibility(c)
           /\ \A c, o : /\ Tier(c, o)' = Tier(c, o) /\ TierForEdge(c, o)' = TierForEdge(c, o)
                        /\ StatusCompatible(c, o)' <=> StatusCompatible(c, o)
           /\ \A o : Filled(o)' <=> Filled(o)
<1>1. claims' = claims /\ orders' = orders
  BY DEF input
<1>2. /\ \A c : Eligibility(c)' = Eligibility(c) /\ (HasIds(c)' <=> HasIds(c))
      /\ \A c, o : (CloseBy(c, o)' <=> CloseBy(c, o))
      /\ \A o : Filled(o)' <=> Filled(o)
  BY <1>1 DEF Eligibility, HasIds, CloseBy, Filled
<1>3. \A c, o : Compared(c, o)' = Compared(c, o)
  BY <1>1 DEF Compared
<1>4. \A c, o : Agreed(c, o)' = Agreed(c, o)
  BY <1>1, <1>3 DEF Agreed
<1>5. \A c, o : Tier(c, o)' = Tier(c, o)
  BY <1>2, <1>3, <1>4 DEF Tier
<1>6. \A c, o : TierForEdge(c, o)' = TierForEdge(c, o)
  BY <1>2, <1>3, <1>4 DEF TierForEdge
<1>7. \A c, o : StatusCompatible(c, o)' <=> StatusCompatible(c, o)
  BY <1>1, <1>2 DEF StatusCompatible
<1> QED
  BY <1>2, <1>5, <1>6, <1>7

Unfolded ==
    /\ Decide[0] = [forced |-> {}, several |-> {}, free |-> Order, left |-> Eligible]
    /\ \A t \in 1..3 : Decide[t] = DecideTier(t, Decide[t - 1])

LEMMA UnfoldedHolds == Unfolded
BY DecideUnfolds DEF Unfolded

LEMMA UnfoldedStays == Unfolded'
BY UnfoldedHolds, PTL

LEMMA SameDecisions ==
    ASSUME UNCHANGED input
    PROVE  \A t \in 0..3 : Decide[t]' = Decide[t]
<1>1. \A t, d : TierGraph(t, d)' = TierGraph(t, d)
  BY SameEvidence DEF TierGraph
<1>2. \A t, d : DecideTier(t, d)' = DecideTier(t, d)
  BY <1>1 DEF DecideTier
<1>3. Eligible' = Eligible
  BY SameEvidence DEF Eligible
<1>4. Decide[0]' = Decide[0]
  BY <1>3, UnfoldedHolds, UnfoldedStays DEF Unfolded
<1>5. ASSUME NEW t \in 1..3, Decide[t - 1]' = Decide[t - 1] PROVE Decide[t]' = Decide[t]
  BY <1>2, <1>5, UnfoldedHolds, UnfoldedStays DEF Unfolded
<1>6. Decide[1]' = Decide[1]
  BY <1>4, <1>5
<1>7. Decide[2]' = Decide[2]
  BY <1>6, <1>5
<1>8. Decide[3]' = Decide[3]
  BY <1>7, <1>5
<1>9. \A t \in 0..3 : t = 0 \/ t = 1 \/ t = 2 \/ t = 3
  OBVIOUS
<1> QED
  BY <1>4, <1>6, <1>7, <1>8, <1>9

-----------------------------------------------------------------------------
(* The steps.                                                              *)

LEMMA SameRecords ==
    ASSUME NEW F, NEW S, UNCHANGED <<assignment, state>>, Decidedness(F, S)
    PROVE  Decidedness(F, S)'
BY DEF Decidedness, Standing, Unmatched, Disposition

\* What is left is what the records show.
LEMMA LeftIsUnresolved ==
    ASSUME NEW d, Sound(d), Decidedness(d.forced, d.several)
    PROVE  d.left = Unresolved \cap Eligible /\ d.free = Open
<1>1. \A e \in d.forced \cup d.several : e[1] \in Claim /\ e[2] \in Order /\ e = <<e[1], e[2]>>
  BY DEF Sound, Eligible
<1>2. \A c \in Claim : c \in ClaimsOf(d.forced \cup d.several) <=> ~Unmatched(c, d.forced, d.several)
  BY <1>1 DEF ClaimsOf, Unmatched
<1>3. \A c \in Claim : assignment[c] = None <=> Unmatched(c, d.forced, d.several)
  BY DEF Decidedness, Standing, Unmatched
<1>4. Eligible \subseteq Claim
  BY DEF Eligible
<1>5. d.left = Unresolved \cap Eligible
  BY <1>2, <1>3, <1>4 DEF Sound, Unresolved
<1>6. \A o : o \in OrdersOf(d.forced \cup d.several) <=> o \in OrdersOf(d.forced) \/ o \in OrdersOf(d.several)
  BY DEF OrdersOf
<1>7. \A o \in Order : state[o] = "open" <=> o \notin OrdersOf(d.forced \cup d.several)
  BY <1>6 DEF Decidedness, Disposition
<1> QED
  BY <1>5, <1>7 DEF Sound, Open

LEMMA RecInitially == Init => RecInv
<1> SUFFICES ASSUME Init PROVE RecInv
  OBVIOUS
<1>1. RecTypeInv
  <2>1. assignment \in [Claim -> Assignment \cup {None}]
    BY DEF Init
  <2>2. state \in [Order -> {"open", "assigned", "ambiguous", "conflict"}]
    BY DEF Init
  <2>3. claims \in [Claim -> ClaimData] /\ orders \in [Order -> OrderData]
    BY DEF Init
  <2>4. /\ stage \in 1..6 /\ matched \in {None} \cup SUBSET (Claim \X Order)
        /\ avail \subseteq Order /\ todo \subseteq Claim
    BY DEF Init
  <2> QED
    BY <2>1, <2>2, <2>3, <2>4 DEF RecTypeInv
<1>2. BetweenTiers
  <2>1. stage - 1 = 0
    BY DEF Init
  <2>2. Decidedness({}, {})
    BY DEF Init, Decidedness, Standing, Unmatched, Disposition, OrdersOf
  <2> QED
    BY <2>1, <2>2, DecideIsSound DEF BetweenTiers, Init
<1> QED
  BY <1>1, <1>2 DEF Init, RecInv, WithinTier, AfterTiers, ConflictPass, Settled, Reported

LEMMA StartTierKeeps ==
    ASSUME RecInv, StartTier PROVE RecInv'
<1> DEFINE d == Decide[stage - 1]
<1>1. stage \in 1..3 /\ matched = None /\ UNCHANGED <<input, stage, assignment, state, avail, findings>>
  BY DEF StartTier, RecInv, RecTypeInv
<1>2. Sound(d) /\ d' = d
  BY <1>1, DecideIsSound, SameDecisions
<1>3. Decidedness(d.forced, d.several)
  BY <1>1 DEF RecInv, BetweenTiers
<1>4. d.left = Unresolved \cap Eligible /\ d.free = Open
  BY <1>2, <1>3, LeftIsUnresolved
<1>5. matched' = TierGraph(stage, d)
  <2>1. matched' = {e \in Unresolved \X Open :
                       Tier(e[1], e[2]) = Tiers[stage] /\ StatusCompatible(e[1], e[2])}
    BY DEF StartTier
  <2>2. \A c \in Unresolved, o \in Open : Tier(c, o) = Tiers[stage]
             <=> c \in Eligible /\ TierForEdge(c, o) = Tiers[stage]
    BY <1>1, TierIsEvidence DEF Unresolved, Open
  <2> QED
    BY <1>4, <2>1, <2>2 DEF TierGraph
<1>6. todo' = ClaimsOf(matched')
  BY DEF StartTier
<1>7. matched' \in SUBSET (Claim \X Order) /\ matched' # None
  BY <1>2, <1>5, TierGraphIsFinite, DataAssumption
<1>8. TierGraph(stage, d)' = matched'
  BY <1>1, <1>2, <1>5, SameEvidence DEF TierGraph
<1>9. RecTypeInv'
  <2>1. todo' \subseteq Claim
    BY <1>6, <1>7 DEF ClaimsOf
  <2> QED
    BY <1>1, <1>7, <2>1 DEF RecInv, RecTypeInv, input
<1>10. WithinTier'
  <2> DEFINE G == matched'
  <2>1. /\ Decided(G, Forced(G) \cap (ClaimsOf(G) \ todo')) = {}
        /\ Decided(G, Ambiguous(G) \cap (ClaimsOf(G) \ todo')) = {}
    BY <1>6 DEF Decided
  <2>2. Decidedness(d.forced, d.several)'
    BY <1>1, <1>2, <1>3, SameRecords
  <2>3. stage' = stage
    BY <1>1
  <2> QED
    BY <1>2, <1>6, <1>8, <2>1, <2>2, <2>3 DEF WithinTier
<1> QED
  BY <1>1, <1>7, <1>9, <1>10 DEF RecInv, BetweenTiers, AfterTiers, ConflictPass, Settled, Reported

\* The claims visited, and c too, are decided as the reference model has it.
LEMMA VisitKeeps ==
    ASSUME RecInv, NEW c \in Claim, Visit(c) PROVE RecInv'
<1>01. PICK G, d, V : G = matched /\ d = Decide[stage - 1] /\ V = ClaimsOf(matched) \ todo
  OBVIOUS
<1>02. PICK partners, F0, S0, F1, S1 :
          /\ partners = Partners(G, c)
          /\ F0 = d.forced \cup Decided(G, Forced(G) \cap V)
          /\ S0 = d.several \cup Decided(G, Ambiguous(G) \cap V)
          /\ F1 = d.forced \cup Decided(G, Forced(G) \cap (V \cup {c}))
          /\ S1 = d.several \cup Decided(G, Ambiguous(G) \cap (V \cup {c}))
  OBVIOUS
<1>1. /\ stage \in 1..3 /\ matched # None /\ c \in todo /\ todo' = todo \ {c}
      /\ UNCHANGED <<input, stage, matched, avail, findings>>
  BY DEF Visit, RecInv, RecTypeInv
<1>2. /\ assignment' = [assignment EXCEPT ![c] =
            CASE c \in Forced(G) -> [kind |-> "assigned", tier |-> stage, involved |-> partners]
              [] c \notin Forced(G) /\ partners # {} ->
                    [kind |-> "ambiguous", tier |-> stage, involved |-> partners]
              [] OTHER -> None]
      /\ state' = [o \in Order |->
            IF o \notin partners THEN state[o]
            ELSE IF c \in Forced(G) THEN "assigned"
            ELSE IF state[o] = "open" THEN "ambiguous" ELSE state[o]]
  BY <1>01, <1>02 DEF Visit
<1>3. Sound(d) /\ Decide[stage - 1]' = d
  BY <1>01, <1>1, DecideIsSound, SameDecisions
<1>4. G = TierGraph(stage, d) /\ todo \subseteq ClaimsOf(G) /\ Decidedness(F0, S0)
  BY <1>01, <1>02, <1>1 DEF RecInv, WithinTier
<1>5. /\ FiniteGraph(G) /\ G \subseteq Claim \X Order
      /\ \A e \in G : e[1] \in d.left /\ e[2] \in d.free /\ e = <<e[1], e[2]>>
  BY <1>3, <1>4, TierGraphIsFinite DEF FiniteGraph
<1>6. c \in ClaimsOf(G) /\ c \in d.left /\ partners \subseteq Order
  BY <1>01, <1>02, <1>1, <1>4, <1>5 DEF ClaimsOf, OrdersOf, Partners
<1>7. /\ c \in Forced(G) => partners # {} /\ c \notin Ambiguous(G)
      /\ c \in Ambiguous(G) <=> c \notin Forced(G) /\ partners # {}
  BY <1>02, <1>5, <1>6, TierDecides
<1>8. /\ RecTypeInv /\ TierGraph(stage, Decide[stage - 1])' = G
  BY <1>01, <1>1, <1>3, <1>4, SameEvidence DEF RecInv, TierGraph
<1>9. \A K, b, o : <<b, o>> \in Decided(G, K) <=> b \in K /\ o \in Partners(G, b)
  BY <1>5, DecidedPairs
<1>10. \A b, o : /\ <<b, o>> \in F1 <=> <<b, o>> \in F0 \/ (b = c /\ c \in Forced(G) /\ o \in partners)
                 /\ <<b, o>> \in S1 <=> <<b, o>> \in S0 \/ (b = c /\ c \in Ambiguous(G) /\ o \in partners)
  <2>1. \A b, o : <<b, o>> \in F0 <=> <<b, o>> \in d.forced \/ (b \in Forced(G) \cap V /\ o \in Partners(G, b))
    BY <1>02, <1>9
  <2>2. \A b, o : <<b, o>> \in S0 <=> <<b, o>> \in d.several \/ (b \in Ambiguous(G) \cap V /\ o \in Partners(G, b))
    BY <1>02, <1>9
  <2>3. \A b, o : <<b, o>> \in F1 <=>
           <<b, o>> \in d.forced \/ (b \in Forced(G) \cap (V \cup {c}) /\ o \in Partners(G, b))
    BY <1>02, <1>9
  <2>4. \A b, o : <<b, o>> \in S1 <=>
           <<b, o>> \in d.several \/ (b \in Ambiguous(G) \cap (V \cup {c}) /\ o \in Partners(G, b))
    BY <1>02, <1>9
  <2>5. partners = Partners(G, c)
    BY <1>02
  <2> QED
    BY <2>1, <2>2, <2>3, <2>4, <2>5
<1>11. c \notin V
  BY <1>01, <1>1
<1>12. \A e \in d.forced \cup d.several : e[1] \notin d.left /\ e \in Claim \X Order
  BY <1>3 DEF Sound, ClaimsOf, Eligible
<1>13. \A o : <<c, o>> \notin F0 /\ <<c, o>> \notin S0
  BY <1>02, <1>6, <1>9, <1>11, <1>12
<1>14. \A K : Decided(G, K) \subseteq Claim \X Order
  BY <1>5 DEF Decided
<1>15. F0 \cup S0 \cup F1 \cup S1 \subseteq Claim \X Order
  BY <1>02, <1>12, <1>14
<1>16. \A X : X \subseteq Claim \X Order =>
          \A o : o \in OrdersOf(X) <=> \E b \in Claim : <<b, o>> \in X
  <2> SUFFICES ASSUME NEW X, X \subseteq Claim \X Order, NEW o
               PROVE  o \in OrdersOf(X) <=> \E b \in Claim : <<b, o>> \in X
    OBVIOUS
  <2>1. \A e \in X : e[1] \in Claim /\ e = <<e[1], e[2]>>
    OBVIOUS
  <2>2. \A b : <<b, o>> \in X => o \in OrdersOf(X)
    BY DEF OrdersOf
  <2> QED
    BY <2>1, <2>2 DEF OrdersOf
<1>17. \A o \in Order :
          /\ o \in OrdersOf(F1) <=> o \in OrdersOf(F0) \/ (c \in Forced(G) /\ o \in partners)
          /\ o \in OrdersOf(S1) <=> o \in OrdersOf(S0) \/ (c \in Ambiguous(G) /\ o \in partners)
  <2>1. /\ F0 \subseteq Claim \X Order /\ F1 \subseteq Claim \X Order
        /\ S0 \subseteq Claim \X Order /\ S1 \subseteq Claim \X Order
    BY <1>15
  <2> QED
    BY <2>1, <1>10, <1>16
<1>18. Decidedness(F1, S1)'
  <2>1. ASSUME NEW b \in Claim, b # c PROVE Standing(b, F1, S1)'
    <3>1. assignment'[b] = assignment[b]
      BY <1>2, <1>8, <2>1 DEF RecTypeInv
    <3>2. \A o : (<<b, o>> \in F1 <=> <<b, o>> \in F0) /\ (<<b, o>> \in S1 <=> <<b, o>> \in S0)
      BY <1>10, <2>1
    <3>3. Standing(b, F0, S0)
      BY <1>4 DEF Decidedness
    <3> QED
      BY <3>1, <3>2, <3>3 DEF Standing, Unmatched
  <2>2. Standing(c, F1, S1)'
    <3>1. CASE c \in Forced(G)
      <4>1. assignment'[c] = [kind |-> "assigned", tier |-> stage, involved |-> partners]
        BY <1>2, <1>8, <3>1 DEF RecTypeInv
      <4>2. assignment'[c] # None
        BY <4>1, <1>1, <1>6, DataAssumption DEF Assignment
      <4>3. partners = {o \in Order : <<c, o>> \in F1} /\ \A o : <<c, o>> \notin S1
        BY <1>6, <1>7, <1>10, <1>13, <3>1
      <4>4. assignment'[c].kind = "assigned" /\ assignment'[c].involved = partners
        BY <4>1
      <4> QED
        BY <4>2, <4>3, <4>4, <1>7, <3>1 DEF Standing
    <3>2. CASE c \notin Forced(G) /\ partners # {}
      <4>1. assignment'[c] = [kind |-> "ambiguous", tier |-> stage, involved |-> partners]
        BY <1>2, <1>8, <3>2 DEF RecTypeInv
      <4>2. assignment'[c] # None
        BY <4>1, <1>1, <1>6, DataAssumption DEF Assignment
      <4>3. partners = {o \in Order : <<c, o>> \in S1} /\ \A o : <<c, o>> \notin F1
        BY <1>6, <1>7, <1>10, <1>13, <3>2
      <4>4. assignment'[c].kind = "ambiguous" /\ assignment'[c].involved = partners
        BY <4>1
      <4> QED
        BY <4>2, <4>3, <4>4, <3>2 DEF Standing
    <3>3. CASE c \notin Forced(G) /\ partners = {}
      <4>1. assignment'[c] = None
        BY <1>2, <1>8, <3>3 DEF RecTypeInv
      <4> QED
        BY <4>1, <1>10, <1>13, <3>3 DEF Standing, Unmatched
    <3> QED
      BY <3>1, <3>2, <3>3
  <2>3. ASSUME NEW o \in Order PROVE state'[o] = Disposition(o, F1, S1, "open")
    <3>1. state[o] = Disposition(o, F0, S0, "open")
      BY <1>4 DEF Decidedness
    <3>2. state'[o] = IF o \notin partners THEN state[o]
                      ELSE IF c \in Forced(G) THEN "assigned"
                      ELSE IF state[o] = "open" THEN "ambiguous" ELSE state[o]
      BY <1>2
    <3>3. o \in partners /\ c \notin Forced(G) => c \in Ambiguous(G)
      BY <1>7
    <3> QED
      BY <3>1, <3>2, <3>3, <1>17 DEF Disposition
  <2> QED
    BY <2>1, <2>2, <2>3 DEF Decidedness, Disposition
<1>19. RecTypeInv'
  <2>1. assignment' \in [Claim -> Assignment \cup {None}]
    BY <1>1, <1>2, <1>6, <1>8 DEF RecTypeInv, Assignment
  <2>2. state' \in [Order -> {"open", "assigned", "ambiguous", "conflict"}]
    BY <1>2, <1>8 DEF RecTypeInv
  <2> QED
    BY <1>1, <1>8, <2>1, <2>2 DEF RecTypeInv, input
<1>20. WithinTier'
  <2>1. ClaimsOf(G) \ todo' = V \cup {c}
    BY <1>01, <1>1, <1>6
  <2>2. matched' = G /\ stage' = stage /\ todo' \subseteq ClaimsOf(G)
    BY <1>01, <1>1, <1>4
  <2>3. Decidedness(d.forced \cup Decided(G, Forced(G) \cap (ClaimsOf(G) \ todo)),
                    d.several \cup Decided(G, Ambiguous(G) \cap (ClaimsOf(G) \ todo)))'
    BY <1>02, <1>18, <2>1
  <2> QED
    BY <1>3, <1>8, <2>2, <2>3 DEF WithinTier
<1> QED
  BY <1>1, <1>19, <1>20 DEF RecInv, BetweenTiers, AfterTiers, ConflictPass, Settled, Reported

\* At the end of a tier everything it holds is decided, so the pass over its
\* orders finds none contested.
LEMMA NothingIsContested ==
    ASSUME RecInv, EndTier
    PROVE  /\ UNCHANGED <<assignment, state>>
           /\ Decidedness(Decide[stage].forced, Decide[stage].several)
<1>1. stage \in 1..3 /\ matched # None /\ todo = {} /\ stage - 1 \in 0..3
  BY DEF EndTier, RecInv, RecTypeInv
<1>2. PICK G, d : G = matched /\ d = Decide[stage - 1]
  OBVIOUS
<1>3. Sound(d) /\ G = TierGraph(stage, d)
  BY <1>1, <1>2, DecideIsSound DEF RecInv, WithinTier
<1>4. FiniteGraph(G)
  BY <1>3, TierGraphIsFinite
<1>5. Decidedness(Decide[stage].forced, Decide[stage].several)
  <2>1. Forced(G) \cap ClaimsOf(G) = Forced(G) /\ Ambiguous(G) \cap ClaimsOf(G) = Ambiguous(G)
    BY DEF Forced, Ambiguous, AlwaysMatched
  <2>0. ClaimsOf(matched) \ todo = ClaimsOf(G)
    BY <1>1, <1>2
  <2>2. Decidedness(d.forced \cup Decided(G, Forced(G)), d.several \cup Decided(G, Ambiguous(G)))
    <3>1. Decidedness(d.forced \cup Decided(G, Forced(G) \cap ClaimsOf(G)),
                      d.several \cup Decided(G, Ambiguous(G) \cap ClaimsOf(G)))
      BY <1>1, <1>2, <2>0 DEF RecInv, WithinTier
    <3> QED
      BY <2>1, <3>1
  <2>3. Decide[stage] = DecideTier(stage, d)
    BY <1>1, <1>2, DecideIsSound
  <2>4. /\ Decide[stage].forced = d.forced \cup Decided(G, Forced(G))
        /\ Decide[stage].several = d.several \cup Decided(G, Ambiguous(G))
    BY <1>3, <2>3 DEF DecideTier
  <2> QED
    BY <2>2, <2>4
<1>6. ASSUME NEW o \in Open \cap OrdersOf(G) PROVE Holders(G, o) = {}
  <2>1. SUFFICES ASSUME NEW b \in Holders(G, o) PROVE FALSE
    OBVIOUS
  <2>2. b \in ClaimsOf(G) /\ o \in Partners(G, b)
    BY DEF Holders, Partners
  <2>3. b \in Forced(G) \/ b \in Ambiguous(G)
    BY <1>4, <2>2, TierDecides
  <2>4. <<b, o>> \in Decided(G, Forced(G)) \/ <<b, o>> \in Decided(G, Ambiguous(G))
    BY <1>4, <2>2, <2>3, DecidedPairs
  <2>5. /\ Decide[stage].forced = d.forced \cup Decided(G, Forced(G))
        /\ Decide[stage].several = d.several \cup Decided(G, Ambiguous(G))
    BY <1>1, <1>2, <1>3, DecideIsSound DEF DecideTier
  <2>6. o \in OrdersOf(Decide[stage].forced) \/ o \in OrdersOf(Decide[stage].several)
    <3>1. \A X : <<b, o>> \in X => o \in OrdersOf(X)
      BY DEF OrdersOf
    <3> QED
      BY <2>4, <2>5, <3>1
  <2> QED
    BY <1>5, <2>6 DEF Decidedness, Disposition, Open
<1>7. {o \in Open \cap OrdersOf(G) : Cardinality(Holders(G, o)) > 1} = {}
  BY <1>6, FS_EmptySet
<1>8. /\ state' = [o \in Order |-> state[o]]
      /\ assignment' = [c \in Claim |-> assignment[c]]
  <2>1. PICK contested : contested = {o \in Open \cap OrdersOf(matched) : Cardinality(Holders(matched, o)) > 1}
    OBVIOUS
  <2>2. /\ state' = [o \in Order |-> IF o \in contested THEN "ambiguous" ELSE state[o]]
        /\ assignment' = [c \in Claim |->
              IF assignment[c] = None /\ {o \in contested : c \in Holders(matched, o)} # {}
              THEN [kind |-> "ambiguous", tier |-> stage,
                    involved |-> {Only({o \in contested : c \in Holders(matched, o)})}]
              ELSE assignment[c]]
    BY <2>1 DEF EndTier
  <2>3. contested = {}
    BY <1>2, <1>7, <2>1
  <2> QED
    BY <2>2, <2>3
<1> QED
  BY <1>5, <1>8 DEF RecInv, RecTypeInv

LEMMA EndTierKeeps ==
    ASSUME RecInv, EndTier PROVE RecInv'
<1>1. /\ stage \in 1..3 /\ stage' = stage + 1 /\ matched' = None /\ UNCHANGED <<input, findings>>
      /\ avail' = {o \in Order : state'[o] = "open"}
      /\ todo' = IF stage = 3 THEN {c \in Claim : assignment'[c] = None} ELSE {}
  BY DEF EndTier, RecInv, RecTypeInv
<1>2. UNCHANGED <<assignment, state>>
  BY NothingIsContested
<1>3. PICK d, s : d = Decide[stage] /\ s = stage
  OBVIOUS
<1>4. Sound(d) /\ Decide[s]' = d /\ Decidedness(d.forced, d.several)
  BY <1>1, <1>3, NothingIsContested, DecideIsSound, SameDecisions
<1>5. Decidedness(d.forced, d.several)'
  BY <1>2, <1>4, SameRecords
<1>6. RecTypeInv'
  BY <1>1, <1>2 DEF RecInv, RecTypeInv, input
<1>7. BetweenTiers'
  <2>1. ASSUME stage < 3 PROVE todo' = {} /\ Decide[stage - 1]' = d
    <3>1. stage' - 1 = s
      BY <1>1, <1>3
    <3> QED
      BY <1>1, <1>4, <2>1, <3>1
  <2> QED
    BY <1>1, <1>5, <2>1 DEF BetweenTiers
<1>8. ASSUME stage = 3 PROVE AfterTiers' /\ ConflictPass'
  <2>1. Decide[3]' = d /\ d = Decide[3]
    BY <1>3, <1>4, <1>8
  <2>2. avail' = d.free
    BY <1>1, <1>2, <1>4, LeftIsUnresolved DEF Open
  <2>3. \A c \in Claim : Standing(c, d.forced, d.several)'
    BY <1>5 DEF Decidedness
  <2>4. \A c \in Claim : c \in todo' <=> assignment'[c] = None
    BY <1>1, <1>8
  <2>5. \A c \in Claim : assignment'[c] = None <=> Unmatched(c, d.forced, d.several)
    BY <2>3 DEF Standing, Unmatched
  <2>6. AfterTiers'
    <3>1. \A c \in Claim : Unmatched(c, d.forced, d.several)' <=> Unmatched(c, d.forced, d.several)
      BY DEF Unmatched
    <3> QED
      BY <2>1, <2>2, <2>3, <2>4, <2>5, <3>1 DEF AfterTiers
  <2>7. \A o \in Order : state'[o] = Disposition(o, d.forced, d.several, "open")
    BY <1>5 DEF Decidedness, Disposition
  <2>8. \A o \in Order : ~\E c \in Claim :
            c \notin todo' /\ Conflicts(c, o)' /\ Unmatched(c, d.forced, d.several)
    BY <2>4, <2>5
  <2>9. ConflictPass'
    BY <2>1, <2>7, <2>8 DEF ConflictPass, Disposition, Unmatched
  <2> QED
    BY <2>6, <2>9
<1> QED
  BY <1>1, <1>6, <1>7, <1>8 DEF RecInv, WithinTier, AfterTiers, ConflictPass, Settled, Reported

LEMMA SameConflicts ==
    ASSUME UNCHANGED input PROVE \A c, o : Conflicts(c, o)' <=> Conflicts(c, o)
BY SameEvidence DEF Conflicts

LEMMA ConflictKeeps ==
    ASSUME RecInv, NEW c \in Claim, Conflict(c) PROVE RecInv'
<1>1. PICK conflicts : conflicts = {o \in avail : Tier(c, o) = "CONFLICT"}
  OBVIOUS
<1>2. /\ stage = 4 /\ c \in todo /\ todo' = todo \ {c}
      /\ assignment' = [assignment EXCEPT ![c] =
            [kind |-> IF conflicts = {} THEN "none" ELSE "conflict", tier |-> None, involved |-> conflicts]]
      /\ state' = [o \in Order |-> IF o \in conflicts THEN "conflict" ELSE state[o]]
      /\ UNCHANGED <<input, stage, matched, avail, findings>>
  BY <1>1 DEF Conflict
<1>3. PICK d : d = Decide[3]
  OBVIOUS
<1>4. Sound(d) /\ Decide[3]' = d /\ avail = d.free
  BY <1>2, <1>3, SameDecisions, DecideIsSound DEF RecInv, AfterTiers
<1>5. \A b, o : Conflicts(b, o)' <=> Conflicts(b, o)
  BY <1>2, SameConflicts
<1>6. conflicts = {o \in d.free : Conflicts(c, o)} /\ conflicts \subseteq Order
  BY <1>1, <1>4 DEF Conflicts, Sound
<1>7. \A b \in Claim : Unmatched(b, d.forced, d.several)' <=> Unmatched(b, d.forced, d.several)
  BY DEF Unmatched
<1>8. RecTypeInv'
  <2>1. assignment' \in [Claim -> Assignment \cup {None}]
    BY <1>2, <1>6 DEF RecInv, RecTypeInv, Assignment
  <2>2. state' \in [Order -> {"open", "assigned", "ambiguous", "conflict"}]
    BY <1>2 DEF RecInv, RecTypeInv
  <2> QED
    BY <1>2, <2>1, <2>2 DEF RecInv, RecTypeInv, input
<1>9. Unmatched(c, d.forced, d.several)
  BY <1>2, <1>3 DEF RecInv, AfterTiers
<1>10. AfterTiers'
  <2>1. ASSUME NEW b \in Claim, b # c
        PROVE  \/ b \in todo' /\ assignment'[b] = None /\ Unmatched(b, d.forced, d.several)
               \/ b \notin todo' /\ assignment'[b] # None /\ Standing(b, d.forced, d.several)'
               \/ b \notin todo' /\ PassedOver(b, d.free)' /\ Unmatched(b, d.forced, d.several)
    <3>1. assignment'[b] = assignment[b] /\ (b \in todo' <=> b \in todo)
      BY <1>2, <2>1 DEF RecInv, RecTypeInv
    <3>2. Standing(b, d.forced, d.several) => Standing(b, d.forced, d.several)'
      BY <3>1 DEF Standing, Unmatched
    <3>3. PassedOver(b, d.free) => PassedOver(b, d.free)'
      BY <1>5, <3>1 DEF PassedOver
    <3>4. \/ b \in todo /\ assignment[b] = None /\ Unmatched(b, d.forced, d.several)
          \/ b \notin todo /\ assignment[b] # None /\ Standing(b, d.forced, d.several)
          \/ b \notin todo /\ PassedOver(b, d.free) /\ Unmatched(b, d.forced, d.several)
      BY <1>2, <1>3 DEF RecInv, AfterTiers
    <3> QED
      BY <3>1, <3>2, <3>3, <3>4
  <2>2. c \notin todo' /\ PassedOver(c, d.free)'
    <3>1. assignment'[c] = [kind |-> IF conflicts = {} THEN "none" ELSE "conflict", tier |-> None,
                            involved |-> conflicts]
      BY <1>2 DEF RecInv, RecTypeInv
    <3>2. assignment'[c] # None
      BY <1>6, <3>1, DataAssumption DEF Assignment
    <3>3. conflicts = {o \in d.free : Conflicts(c, o)'}
      BY <1>5, <1>6
    <3> QED
      BY <1>2, <3>1, <3>2, <3>3 DEF PassedOver
  <2>3. avail' = d.free /\ stage' = 4
    BY <1>2, <1>4
  <2> QED
    BY <1>4, <1>7, <1>9, <2>1, <2>2, <2>3 DEF AfterTiers
<1>11. ConflictPass'
  <2>1. ASSUME NEW o \in Order
        PROVE  state'[o] = Disposition(o, d.forced, d.several,
                  IF \E b \in Claim : b \notin todo' /\ Conflicts(b, o) /\ Unmatched(b, d.forced, d.several)
                  THEN "conflict" ELSE "open")
    <3>1. state[o] = Disposition(o, d.forced, d.several,
                  IF \E b \in Claim : b \notin todo /\ Conflicts(b, o) /\ Unmatched(b, d.forced, d.several)
                  THEN "conflict" ELSE "open")
      BY <1>2, <1>3 DEF RecInv, ConflictPass
    <3>2. (\E b \in Claim : b \notin todo' /\ Conflicts(b, o) /\ Unmatched(b, d.forced, d.several))
            <=> \/ \E b \in Claim : b \notin todo /\ Conflicts(b, o) /\ Unmatched(b, d.forced, d.several)
                \/ Conflicts(c, o)
      BY <1>2, <1>9
    <3>3. o \in d.free <=> o \notin OrdersOf(d.forced) /\ o \notin OrdersOf(d.several)
      BY <1>4 DEF Sound, OrdersOf
    <3>4. state'[o] = IF o \in d.free /\ Conflicts(c, o) THEN "conflict" ELSE state[o]
      BY <1>2, <1>6
    <3> QED
      BY <3>1, <3>2, <3>3, <3>4 DEF Disposition
  <2> QED
    BY <1>4, <1>5, <1>7, <2>1 DEF ConflictPass, Disposition
<1> QED
  BY <1>2, <1>8, <1>10, <1>11 DEF RecInv, BetweenTiers, WithinTier, Settled, Reported

LEMMA SweepKeeps ==
    ASSUME RecInv, Sweep PROVE RecInv'
<1>1. /\ stage = 4 /\ todo = {} /\ stage' = 5
      /\ state' = [o \in Order |-> IF state[o] = "open" /\ \E c \in Claim : Conflicts(c, o)
                                   THEN "conflict" ELSE state[o]]
      /\ UNCHANGED <<input, matched, avail, todo, assignment, findings>>
  BY DEF Sweep, Conflicts
<1>2. PICK d : d = Decide[3]
  OBVIOUS
<1>3. Sound(d) /\ Decide[3]' = d
  BY <1>1, <1>2, SameDecisions, DecideIsSound
<1>4. \A b, o : Conflicts(b, o)' <=> Conflicts(b, o)
  BY <1>1, SameConflicts
<1>5. RecTypeInv'
  <2>1. state' \in [Order -> {"open", "assigned", "ambiguous", "conflict"}]
    BY <1>1 DEF RecInv, RecTypeInv
  <2> QED
    BY <1>1, <2>1 DEF RecInv, RecTypeInv, input
<1>6. AfterTiers'
  <2>1. ASSUME NEW b \in Claim
        PROVE  \/ Standing(b, d.forced, d.several)' /\ assignment'[b] # None
               \/ PassedOver(b, d.free)' /\ Unmatched(b, d.forced, d.several)'
    <3>1. \/ Standing(b, d.forced, d.several) /\ assignment[b] # None
          \/ PassedOver(b, d.free) /\ Unmatched(b, d.forced, d.several)
      BY <1>1, <1>2 DEF RecInv, AfterTiers
    <3>2. assignment'[b] = assignment[b]
      BY <1>1
    <3>3. PassedOver(b, d.free) => PassedOver(b, d.free)'
      BY <1>4, <3>2 DEF PassedOver
    <3>4. Standing(b, d.forced, d.several) => Standing(b, d.forced, d.several)'
      BY <3>2 DEF Standing, Unmatched
    <3>5. Unmatched(b, d.forced, d.several) => Unmatched(b, d.forced, d.several)'
      BY DEF Unmatched
    <3> QED
      BY <3>1, <3>2, <3>3, <3>4, <3>5
  <2>2. avail' = d.free /\ todo' = {}
    BY <1>1, <1>2 DEF RecInv, AfterTiers
  <2> QED
    BY <1>3, <2>1, <2>2 DEF AfterTiers
<1>7. Settled'
  <2>1. ASSUME NEW o \in Order
        PROVE  state'[o] = Disposition(o, d.forced, d.several,
                              IF \E c \in Claim : Conflicts(c, o) THEN "conflict" ELSE "open")
    <3>1. state[o] = Disposition(o, d.forced, d.several,
                        IF \E c \in Claim : /\ c \notin todo /\ Conflicts(c, o)
                                            /\ Unmatched(c, d.forced, d.several)
                        THEN "conflict" ELSE "open")
      BY <1>1, <1>2 DEF RecInv, ConflictPass
    <3> QED
      BY <1>1, <3>1 DEF Disposition
  <2> QED
    BY <1>1, <1>3, <1>4, <2>1 DEF Settled, Disposition
<1> QED
  BY <1>1, <1>5, <1>6, <1>7 DEF RecInv, BetweenTiers, WithinTier, ConflictPass, Reported

\* A record is described by the input and by what was decided of it.
LEMMA SameFindings ==
    ASSUME UNCHANGED <<claims, orders, assignment, state>>
    PROVE  /\ Picks' = Picks
           /\ \A pick : Primary(pick)' = Primary(pick)
           /\ \A primary : OrderFindings(primary)' = OrderFindings(primary)
<1>1. UNCHANGED input
  BY DEF input
<1>2. /\ \A c : Eligibility(c)' = Eligibility(c)
      /\ \A c, o : Tier(c, o)' = Tier(c, o)
      /\ \A o : Filled(o)' <=> Filled(o)
  BY <1>1, SameEvidence
<1>3. \A c : Contradictions(c)' = Contradictions(c)
  BY <1>2 DEF Contradictions
<1>4. Contradictory' = Contradictory
  BY <1>2, <1>3 DEF Contradictory
<1>5. Picks' = Picks
  BY <1>3, <1>4 DEF Picks
<1>6. \A c : Involved(c)' = Involved(c)
  BY DEF Involved
<1>7. /\ \A c : Skipped(c)' = Skipped(c)
      /\ \A c : Executing(c)' = Executing(c)
      /\ \A c : Rejected(c)' = Rejected(c)
  BY <1>2, <1>3, <1>6 DEF Skipped, Executing, Rejected
<1>8. \A pick : Primary(pick)' = Primary(pick)
  BY <1>2, <1>7 DEF Primary
<1>9. \A primary : OrderFindings(primary)' = OrderFindings(primary)
  BY DEF OrderFindings, Open
<1> QED
  BY <1>5, <1>8, <1>9

LEMMA ClassifyKeeps ==
    ASSUME RecInv, Classify PROVE RecInv'
<1>1. stage = 5 /\ stage' = 6 /\ UNCHANGED <<input, matched, avail, todo, assignment, state>>
  BY DEF Classify
<1>2. PICK d : d = Decide[3]
  OBVIOUS
<1>3. Decide[3]' = d /\ \A b, o : Conflicts(b, o)' <=> Conflicts(b, o)
  BY <1>1, <1>2, SameDecisions, SameConflicts
<1>4. RecTypeInv'
  BY <1>1 DEF RecInv, RecTypeInv, input
<1>5. AfterTiers'
  <2>1. \A b : /\ Standing(b, d.forced, d.several)' <=> Standing(b, d.forced, d.several)
               /\ Unmatched(b, d.forced, d.several)' <=> Unmatched(b, d.forced, d.several)
               /\ PassedOver(b, d.free)' <=> PassedOver(b, d.free)
    BY <1>1, <1>3 DEF Standing, Unmatched, PassedOver
  <2>2. AfterTiers
    BY DEF RecInv
  <2> QED
    BY <1>1, <1>2, <1>3, <2>1, <2>2 DEF AfterTiers
<1>6. Settled'
  BY <1>1, <1>2, <1>3 DEF RecInv, Settled, Disposition
<1>7. Reported'
  <2>1. PICK pick \in Picks : findings' = Primary(pick) \cup OrderFindings(Primary(pick))
    BY DEF Classify
  <2>2. PICK primary : primary = Primary(pick)
    OBVIOUS
  <2>3. Picks' = Picks /\ Primary(pick)' = primary /\ OrderFindings(primary)' = OrderFindings(primary)
    BY <1>1, <2>2, SameFindings DEF input
  <2>4. pick \in Picks' /\ findings' = Primary(pick)' \cup OrderFindings(Primary(pick))'
    BY <2>1, <2>2, <2>3
  <2> QED
    BY <2>4 DEF Reported
<1> QED
  BY <1>1, <1>4, <1>5, <1>6, <1>7 DEF RecInv, BetweenTiers, WithinTier, ConflictPass

LEMMA StutterKeeps ==
    ASSUME RecInv, UNCHANGED vars PROVE RecInv'
<1>1. UNCHANGED <<claims, orders, stage, matched, avail, todo, assignment, state, findings, input>>
  BY DEF vars, input
<1>2. /\ \A b, o : Conflicts(b, o)' <=> Conflicts(b, o)
      /\ \A t \in 0..3 : Decide[t]' = Decide[t]
  BY <1>1, SameConflicts, SameDecisions
<1>3. /\ \A b, F, S : /\ Standing(b, F, S)' <=> Standing(b, F, S)
                      /\ Unmatched(b, F, S)' <=> Unmatched(b, F, S)
      /\ \A b, free : PassedOver(b, free)' <=> PassedOver(b, free)
      /\ \A F, S : Decidedness(F, S)' <=> Decidedness(F, S)
  BY <1>1, <1>2 DEF Standing, Unmatched, PassedOver, Decidedness, Disposition
<1>4. PICK d, t, e, G, rest :
         /\ d = Decide[3] /\ t = stage /\ e = Decide[stage - 1] /\ G = matched
         /\ rest = ClaimsOf(matched) \ todo
  OBVIOUS
<1>5. stage \in 1..3 => Decide[stage - 1]' = e
  BY <1>1, <1>2, <1>4
<1>6. Decide[3]' = d
  BY <1>2, <1>4
<1>7. RecTypeInv'
  BY <1>1 DEF RecInv, RecTypeInv
<1>8. BetweenTiers'
  BY <1>1, <1>3, <1>4, <1>5, <1>7 DEF RecInv, BetweenTiers, RecTypeInv
<1>9. ASSUME stage <= 3, matched # None PROVE WithinTier'
  <2>1. stage \in 1..3
    BY <1>9 DEF RecInv, RecTypeInv
  <2>2. G = TierGraph(stage, e) /\ todo \subseteq ClaimsOf(G)
    BY <1>4, <1>9 DEF RecInv, WithinTier
  <2>3. TierGraph(stage, Decide[stage - 1])' = G
    BY <1>1, <1>5, <2>1, <2>2, SameEvidence DEF TierGraph
  <2>4. Decidedness(e.forced \cup Decided(G, Forced(G) \cap rest),
                    e.several \cup Decided(G, Ambiguous(G) \cap rest))
    BY <1>4, <1>9 DEF RecInv, WithinTier
  <2>5. Decidedness(e.forced \cup Decided(G, Forced(G) \cap rest),
                    e.several \cup Decided(G, Ambiguous(G) \cap rest))'
    BY <1>3, <2>4
  <2>6. Decidedness(e.forced \cup Decided(G, Forced(G) \cap (ClaimsOf(G) \ todo)),
                    e.several \cup Decided(G, Ambiguous(G) \cap (ClaimsOf(G) \ todo)))'
    BY <1>1, <1>4, <2>5
  <2>7. matched' = G /\ todo' \subseteq ClaimsOf(G) /\ stage' = stage
    BY <1>1, <1>4, <2>2
  <2> QED
    BY <1>5, <2>1, <2>3, <2>6, <2>7 DEF WithinTier
<1>10. AfterTiers'
  BY <1>1, <1>3, <1>4, <1>6 DEF RecInv, AfterTiers
<1>11. ConflictPass'
  BY <1>1, <1>2, <1>3, <1>4, <1>6 DEF RecInv, ConflictPass, Disposition
<1>12. Settled'
  BY <1>1, <1>2, <1>4, <1>6 DEF RecInv, Settled, Disposition
<1>13. Reported'
  <2>1. SUFFICES ASSUME stage = 6, NEW pick \in Picks,
                        findings = Primary(pick) \cup OrderFindings(Primary(pick))
                 PROVE  Reported'
    BY <1>1 DEF RecInv, Reported
  <2>2. PICK primary : primary = Primary(pick)
    OBVIOUS
  <2>3. Picks' = Picks /\ Primary(pick)' = primary /\ OrderFindings(primary)' = OrderFindings(primary)
    BY <1>1, <2>2, SameFindings
  <2>4. pick \in Picks' /\ findings' = Primary(pick)' \cup OrderFindings(Primary(pick))'
    BY <1>1, <2>1, <2>2, <2>3
  <2> QED
    BY <2>4 DEF Reported
<1> QED
  BY <1>1, <1>7, <1>8, <1>9, <1>10, <1>11, <1>12, <1>13 DEF RecInv, WithinTier

\* Type correctness, and what the tiers and passes preserve, at every stage.
THEOREM ReconciliationInvariant == Spec => []RecInv
<1>1. RecInv /\ [Next]_vars => RecInv'
  <2> SUFFICES ASSUME RecInv, [Next]_vars PROVE RecInv'
    OBVIOUS
  <2>1. ASSUME NEW c \in Claim, Visit(c) PROVE RecInv'
    BY <2>1, VisitKeeps
  <2>2. ASSUME NEW c \in Claim, Conflict(c) PROVE RecInv'
    BY <2>2, ConflictKeeps
  <2> QED
    BY <2>1, <2>2, StartTierKeeps, EndTierKeeps, SweepKeeps, ClassifyKeeps, StutterKeeps DEF Next
<1> QED
  BY <1>1, RecInitially, PTL DEF Spec

-----------------------------------------------------------------------------
(* What the records and the findings say.                                  *)

\* Where every claim and every order ends up.
ClaimEnds(c, d) ==
    /\ assignment[c] # None
    /\ \/ /\ assignment[c].kind = "assigned" /\ assignment[c].involved # {}
          /\ assignment[c].involved = {o \in Order : <<c, o>> \in d.forced}
          /\ \A o \in Order : <<c, o>> \notin d.several
       \/ /\ assignment[c].kind = "ambiguous" /\ assignment[c].involved # {}
          /\ assignment[c].involved = {o \in Order : <<c, o>> \in d.several}
          /\ \A o \in Order : <<c, o>> \notin d.forced
       \/ /\ assignment[c].kind \in {"conflict", "none"}
          /\ \A o \in Order : <<c, o>> \notin d.forced /\ <<c, o>> \notin d.several
          /\ assignment[c].involved = {o \in d.free : Conflicts(c, o)}
          /\ assignment[c].kind = "none" <=> assignment[c].involved = {}

OrderEnds(o, d) ==
    state[o] = Disposition(o, d.forced, d.several,
                  IF \E c \in Claim : Conflicts(c, o) THEN "conflict" ELSE "open")

LEMMA WhereRecordsEnd ==
    ASSUME RecInv, stage \in {5, 6}
    PROVE  /\ \A c \in Claim : ClaimEnds(c, Decide[3])
           /\ \A o \in Order : OrderEnds(o, Decide[3])
<1>1. PICK d : d = Decide[3]
  OBVIOUS
<1>2. todo = {} /\ \A o \in Order : OrderEnds(o, d)
  BY <1>1 DEF RecInv, Settled, OrderEnds
<1>3. ASSUME NEW c \in Claim
      PROVE  \/ assignment[c] # None /\ Standing(c, d.forced, d.several)
             \/ PassedOver(c, d.free) /\ Unmatched(c, d.forced, d.several)
  BY <1>1, <1>2 DEF RecInv, AfterTiers
<1>4. \A c \in Claim : ClaimEnds(c, d)
  BY <1>3 DEF Standing, PassedOver, Unmatched, ClaimEnds
<1> QED
  BY <1>1, <1>2, <1>4

LEMMA ClaimFindings ==
    ASSUME NEW c
    PROVE  /\ Skipped(c).claim = c /\ Skipped(c).result # "CONTRADICTION"
           /\ Executing(c).claim = c /\ Executing(c).result # "CONTRADICTION"
           /\ \A f \in Rejected(c) : f.claim = c /\ f.result # "CONTRADICTION"
           /\ Skipped(c).order = None
BY DEF Skipped, Executing, Rejected, Finding

LEMMA PrimaryFindings ==
    ASSUME NEW pick, NEW f
    PROVE  f \in Primary(pick) <=>
              \/ \E c \in Claim : Eligibility(c) = "SKIPPED" /\ f = Skipped(c)
              \/ \E c \in Claim : Eligibility(c) = "EXPECTED" /\ f = Executing(c)
              \/ \E c \in Claim : Eligibility(c) = "REJECTED" /\ f \in Rejected(c)
              \/ f \in Contradicted(pick)
<1> DEFINE of(e) == {c \in Claim : Eligibility(c) = e}
           A == {Skipped(c) : c \in of("SKIPPED")}
           B == {Executing(c) : c \in of("EXPECTED")}
           D == UNION {Rejected(c) : c \in of("REJECTED")}
<1>1. Primary(pick) = A \cup B \cup Contradicted(pick) \cup D
  BY DEF Primary
<1>2. f \in A <=> \E c \in Claim : Eligibility(c) = "SKIPPED" /\ f = Skipped(c)
  OBVIOUS
<1>3. f \in B <=> \E c \in Claim : Eligibility(c) = "EXPECTED" /\ f = Executing(c)
  OBVIOUS
<1>4. f \in D <=> \E c \in Claim : Eligibility(c) = "REJECTED" /\ f \in Rejected(c)
  OBVIOUS
<1> HIDE DEF A, B, D
<1> QED
  BY <1>1, <1>2, <1>3, <1>4

LEMMA ContradictionFindings ==
    ASSUME NEW pick \in Picks, NEW f
    PROVE  f \in Contradicted(pick) <=>
              \E c \in Contradictory :
                 f = Finding(c, pick[c], "CONTRADICTION", {"REJECTION_EXECUTION_CONTRADICTION"}, {})
BY DEF Contradicted, Picks

LEMMA FindingsOfOrders ==
    ASSUME NEW primary, NEW f \in OrderFindings(primary)
    PROVE  /\ f.claim = None /\ f.result # "CONTRADICTION"
           /\ f.order \in Order
           /\ f.order \in Open => f = Finding(None, f.order, "UNRECORDED_INTERNALLY", {"UNMATCHED_BROKER_ORDER"}, {})
           /\ f.order \notin Open => state[f.order] = "conflict"
BY DEF OrderFindings, Finding, Open

LEMMA EligibilityIsOneOfThree ==
    ASSUME NEW c
    PROVE  Eligibility(c) \in {"SKIPPED", "REJECTED", "EXPECTED"}
BY DEF Eligibility

LEMMA ReferenceMatched ==
    ASSUME RecInv PROVE MatchesReference
<1> SUFFICES ASSUME stage >= 5 PROVE MatchesReference
  BY DEF MatchesReference
<1>1. stage \in {5, 6}
  BY DEF RecInv, RecTypeInv
<1>2. PICK d : d = Decide[3]
  OBVIOUS
<1>3. Sound(d)
  BY <1>2, DecideIsSound
<1>4. PICK ref : ref = ReferenceOutcome
  OBVIOUS
<1>5. /\ ref.forced = d.forced /\ ref.several = d.several /\ ref.free = d.free
      /\ \A e : e \in ref.conflicting <=> /\ e \in Eligible \X Order /\ Agreed(e[1], e[2]) # {}
                                          /\ Agreed(e[1], e[2]) # Compared(e[1], e[2])
      /\ \A e : e \in ref.contradicting <=> /\ e \in Eligible \X Order /\ Agreed(e[1], e[2]) # {}
                                            /\ Agreed(e[1], e[2]) = Compared(e[1], e[2])
                                            /\ Eligibility(e[1]) = "REJECTED" /\ Filled(e[2])
  BY <1>2, <1>4 DEF ReferenceOutcome
<1>6. Eligible \subseteq Claim
  BY DEF Eligible
<1>7. ref.conflicting = {e \in Claim \X Order : Conflicts(e[1], e[2])}
  <2>1. \A e \in Claim \X Order : Conflicts(e[1], e[2]) <=>
           /\ e[1] \in Eligible /\ Agreed(e[1], e[2]) # {}
           /\ Agreed(e[1], e[2]) # Compared(e[1], e[2])
    BY TierIsEvidence
  <2>2. \A e : e \in ref.conflicting <=> e \in Claim \X Order /\ Conflicts(e[1], e[2])
    <3> HIDE DEF Conflicts
    <3> SUFFICES ASSUME NEW c, NEW o
                 PROVE  <<c, o>> \in ref.conflicting <=> c \in Claim /\ o \in Order /\ Conflicts(c, o)
      BY <1>5
    <3> QED
      BY <1>5, <1>6, <2>1
  <2> QED
    BY <2>2
<1>71. /\ \A c \in Claim : ClaimEnds(c, d)
      /\ \A o \in Order : OrderEnds(o, d)
  BY <1>1, <1>2, WhereRecordsEnd
<1>8. PICK pairs : pairs = [k \in {"assigned", "ambiguous", "conflict"} |->
                               {e \in Claim \X Order : /\ assignment[e[1]].kind = k
                                                       /\ e[2] \in assignment[e[1]].involved}]
  OBVIOUS
<1>9. \A c \in Claim, o \in Order, k \in {"assigned", "ambiguous", "conflict"} :
         <<c, o>> \in pairs[k] <=> assignment[c].kind = k /\ o \in assignment[c].involved
  BY <1>8
<1>10. d.forced \subseteq Claim \X Order /\ d.several \subseteq Claim \X Order
  BY <1>3, <1>6 DEF Sound
<1>11. pairs["assigned"] = d.forced
  <2>1. \A c \in Claim, o \in Order : <<c, o>> \in pairs["assigned"] <=> <<c, o>> \in d.forced
    BY <1>71, <1>9 DEF ClaimEnds
  <2> QED
    BY <1>8, <1>10, <2>1
<1>12. pairs["ambiguous"] = d.several
  <2>1. \A c \in Claim, o \in Order : <<c, o>> \in pairs["ambiguous"] <=> <<c, o>> \in d.several
    BY <1>71, <1>9 DEF ClaimEnds
  <2> QED
    BY <1>8, <1>10, <2>1
<1>13. \A c \in Claim : c \in ClaimsOf(d.forced \cup d.several) <=> ~Unmatched(c, d.forced, d.several)
  BY <1>10 DEF ClaimsOf, Unmatched
<1>14. pairs["conflict"] = {e \in ref.conflicting : /\ e[1] \notin ClaimsOf(ref.forced \cup ref.several)
                                                   /\ e[2] \in ref.free}
  <2>1. ASSUME NEW c \in Claim, NEW o \in Order
        PROVE  <<c, o>> \in pairs["conflict"] <=>
                  Conflicts(c, o) /\ Unmatched(c, d.forced, d.several) /\ o \in d.free
    <3>1. Unmatched(c, d.forced, d.several) <=> assignment[c].kind \in {"conflict", "none"}
      BY <1>71 DEF ClaimEnds, Unmatched
    <3> QED
      BY <1>71, <1>9, <3>1 DEF ClaimEnds
  <2>2. \A e \in Claim \X Order : e \in pairs["conflict"] <=>
           e \in ref.conflicting /\ e[1] \notin ClaimsOf(ref.forced \cup ref.several) /\ e[2] \in ref.free
    <3>1. \A c \in Claim, o \in Order : <<c, o>> \in ref.conflicting <=> Conflicts(c, o)
      BY <1>7
    <3>2. \A c \in Claim, o \in Order : <<c, o>> \in pairs["conflict"] <=>
             <<c, o>> \in ref.conflicting /\ c \notin ClaimsOf(ref.forced \cup ref.several) /\ o \in ref.free
      BY <1>5, <1>13, <2>1, <3>1
    <3> TAKE e \in Claim \X Order
    <3>3. PICK c \in Claim, o \in Order : e = <<c, o>>
      OBVIOUS
    <3>4. e[1] = c /\ e[2] = o
      BY <3>3
    <3> QED
      BY <3>2, <3>3, <3>4, Zenon
  <2> QED
    BY <1>7, <1>8, <2>2
<1>15. /\ \A o \in ref.free :
             state[o] = IF o \in OrdersOf(ref.conflicting) THEN "conflict" ELSE "open"
       /\ \A o \in OrdersOf(ref.forced) : state[o] = "assigned"
       /\ \A o \in OrdersOf(ref.several) : state[o] = "ambiguous"
  <2>1. \A o \in Order : state[o] = Disposition(o, d.forced, d.several,
                 IF \E c \in Claim : Conflicts(c, o) THEN "conflict" ELSE "open")
    BY <1>71 DEF OrderEnds
  <2>2. \A o \in Order : o \in OrdersOf(ref.conflicting) <=> \E c \in Claim : Conflicts(c, o)
    <3>1. \A c \in Claim, o \in Order : <<c, o>> \in ref.conflicting <=> Conflicts(c, o)
      BY <1>7
    <3>2. \A e \in ref.conflicting : e[1] \in Claim /\ e = <<e[1], e[2]>>
      BY <1>7
    <3> HIDE DEF Conflicts
    <3> TAKE o \in Order
    <3>3. o \in OrdersOf(ref.conflicting) <=> \E e \in ref.conflicting : e[2] = o
      BY DEF OrdersOf
    <3>4. ASSUME NEW c \in Claim, Conflicts(c, o) PROVE \E e \in ref.conflicting : e[2] = o
      BY <3>1, <3>4
    <3>5. ASSUME NEW e \in ref.conflicting, e[2] = o PROVE Conflicts(e[1], o)
      BY <3>1, <3>2, <3>5
    <3> QED
      BY <3>2, <3>3, <3>4, <3>5, Zenon
  <2>3. \A o \in d.free : o \in Order /\ o \notin OrdersOf(d.forced) /\ o \notin OrdersOf(d.several)
    BY <1>3 DEF Sound, OrdersOf
  <2>4. \A o \in OrdersOf(d.several) : o \in Order /\ o \notin OrdersOf(d.forced)
    BY <1>3, <1>10 DEF Sound, OrdersOf
  <2>5. \A o \in OrdersOf(d.forced) : o \in Order
    BY <1>10 DEF OrdersOf
  <2> QED
    BY <1>5, <2>1, <2>2, <2>3, <2>4, <2>5 DEF Disposition
<1>16. ASSUME stage = 6
       PROVE  {f.claim : f \in {g \in findings : g.result = "CONTRADICTION"}} = ClaimsOf(ref.contradicting)
  <2>1. PICK pick \in Picks : findings = Primary(pick) \cup OrderFindings(Primary(pick))
    BY <1>16 DEF RecInv, Reported
  <2>2. \A f \in findings : f.result = "CONTRADICTION" <=> f \in Contradicted(pick)
    <3>1. \A f \in OrderFindings(Primary(pick)) : f.result # "CONTRADICTION"
      BY FindingsOfOrders
    <3>2. \A f \in Primary(pick) : f.result = "CONTRADICTION" <=> f \in Contradicted(pick)
      BY PrimaryFindings, ClaimFindings, ContradictionFindings DEF Finding
    <3>3. \A f \in Contradicted(pick) : f.result = "CONTRADICTION"
      BY ContradictionFindings DEF Finding
    <3> QED
      BY <2>1, <3>1, <3>2, <3>3
  <2>3. Contradicted(pick) \subseteq findings
    BY <2>1, PrimaryFindings
  <2>4. {f.claim : f \in Contradicted(pick)} = Contradictory
    <3>1. \A f \in Contradicted(pick) : f.claim \in Contradictory
      BY <2>1, ContradictionFindings DEF Finding
    <3>2. ASSUME NEW c \in Contradictory PROVE \E f \in Contradicted(pick) : f.claim = c
      <4>1. PICK f : f = Finding(c, pick[c], "CONTRADICTION", {"REJECTION_EXECUTION_CONTRADICTION"}, {})
        OBVIOUS
      <4>2. f \in Contradicted(pick)
        BY <2>1, <4>1, ContradictionFindings
      <4> QED
        BY <4>1, <4>2 DEF Finding
    <3> QED
      BY <3>1, <3>2
  <2>5. ClaimsOf(ref.contradicting) = Contradictory
    <3>1. \A c \in Claim : c \in Contradictory <=>
             Eligibility(c) = "REJECTED" /\ \E o \in Order : Tier(c, o) \in {"FULL", "PARTIAL"} /\ Filled(o)
      BY DEF Contradictory, Contradictions
    <3>2. \A e : e \in ref.contradicting <=>
             e \in Claim \X Order /\ Tier(e[1], e[2]) \in {"FULL", "PARTIAL"}
               /\ Eligibility(e[1]) = "REJECTED" /\ Filled(e[2])
      <4>1. \A e \in Claim \X Order : Tier(e[1], e[2]) \in {"FULL", "PARTIAL"} <=>
               /\ e[1] \in Eligible /\ Agreed(e[1], e[2]) # {}
               /\ Agreed(e[1], e[2]) = Compared(e[1], e[2])
        BY TierIsEvidence
      <4> QED
        BY <1>5, <1>6, <4>1
    <3>3. \A c : c \in ClaimsOf(ref.contradicting) <=> c \in Claim /\ c \in Contradictory
      <4>1. \A c \in Claim, o \in Order : <<c, o>> \in ref.contradicting <=>
               /\ Tier(c, o) \in {"FULL", "PARTIAL"}
               /\ Eligibility(c) = "REJECTED" /\ Filled(o)
        BY <3>2
      <4>2. \A e \in ref.contradicting : e[1] \in Claim /\ e[2] \in Order /\ e = <<e[1], e[2]>>
        BY <3>2
      <4>3. \A c : c \in ClaimsOf(ref.contradicting) <=>
               \E o : c \in Claim /\ o \in Order /\ <<c, o>> \in ref.contradicting
        BY <4>2 DEF ClaimsOf
      <4> QED
        BY <3>1, <4>1, <4>3
    <3> QED
      BY <3>3 DEF Contradictory
  <2> QED
    BY <2>2, <2>3, <2>4, <2>5
<1> QED
  BY <1>4, <1>5, <1>8, <1>11, <1>12, <1>14, <1>15, <1>16 DEF MatchesReference

\* Whatever the order of the lists, what the engine decides is what the
\* reference model decides, which visits no claim before another.
THEOREM DecisionsAreTheReferences == Spec => []MatchesReference
BY ReconciliationInvariant, ReferenceMatched, PTL

-----------------------------------------------------------------------------
(* No record disappears.                                                   *)

\* Every claim is found: once, or twice if it was rejected and executed.
LEMMA EveryClaimIsFound ==
    ASSUME RecInv, NEW pick \in Picks, findings = Primary(pick) \cup OrderFindings(Primary(pick)),
           NEW c \in Claim, NEW about, about = {f \in findings : f.claim = c}
    PROVE  Cardinality(about) \in 1..(IF \E f \in about : f.result = "CONTRADICTION" THEN 2 ELSE 1)
<1>1. ASSUME NEW f \in OrderFindings(Primary(pick)) PROVE f.claim # c
  BY DataAssumption, FindingsOfOrders
<1>2. \A f : f \in about <=> f \in Primary(pick) /\ f.claim = c
  BY <1>1
<1>3. ASSUME NEW f \in Contradicted(pick)
      PROVE  f.claim \in Contradictory /\ f.result = "CONTRADICTION"
             /\ f = Finding(f.claim, pick[f.claim], "CONTRADICTION", {"REJECTION_EXECUTION_CONTRADICTION"}, {})
  BY ContradictionFindings DEF Finding
<1>4. \A b \in Contradictory : Eligibility(b) = "REJECTED"
  BY DEF Contradictory
<1>5. ASSUME Eligibility(c) = "SKIPPED" PROVE about = {Skipped(c)}
  BY <1>2, <1>3, <1>4, <1>5, PrimaryFindings, ClaimFindings
<1>6. ASSUME Eligibility(c) = "EXPECTED" PROVE about = {Executing(c)}
  BY <1>2, <1>3, <1>4, <1>6, PrimaryFindings, ClaimFindings
<1>7. ASSUME Eligibility(c) = "REJECTED", c \notin Contradictory PROVE \E g : about = {g}
  <2>1. Contradictions(c) = {}
    BY <1>7 DEF Contradictory
  <2>2. PICK g : Rejected(c) = {g}
    BY <2>1 DEF Rejected
  <2>3. about = {g}
    BY <1>2, <1>3, <1>7, <2>2, PrimaryFindings, ClaimFindings
  <2> QED
    BY <2>3
<1>8. ASSUME Eligibility(c) = "REJECTED", c \in Contradictory
      PROVE  \E g, k : k.result = "CONTRADICTION" /\ (about = {k} \/ about = {g, k})
  <2>1. PICK k : k = Finding(c, pick[c], "CONTRADICTION", {"REJECTION_EXECUTION_CONTRADICTION"}, {})
    OBVIOUS
  <2>2. k \in Contradicted(pick) /\ k.claim = c /\ k.result = "CONTRADICTION"
    <3>1. k \in Contradicted(pick)
      BY <1>8, <2>1, ContradictionFindings
    <3> QED
      BY <2>1, <3>1 DEF Finding
  <2>3. \A f : f \in about <=> f \in Rejected(c) \/ f = k
    BY <1>2, <1>3, <1>8, <2>1, <2>2, PrimaryFindings, ClaimFindings
  <2>4. Rejected(c) = {} \/ \E g : Rejected(c) = {g}
    BY DEF Rejected
  <2>5. ASSUME NEW g, Rejected(c) = {g} PROVE about = {g, k}
    BY <2>3, <2>5
  <2>6. ASSUME Rejected(c) = {} PROVE about = {k}
    BY <2>3, <2>6
  <2> QED
    BY <2>2, <2>4, <2>5, <2>6
<1>9. \A g, k : Cardinality({g}) = 1 /\ Cardinality({g, k}) \in 1..2
  <2> SUFFICES ASSUME NEW g, NEW k PROVE Cardinality({g}) = 1 /\ Cardinality({g, k}) \in 1..2
    OBVIOUS
  <2>1. IsFiniteSet({g}) /\ Cardinality({g}) = 1
    BY FS_Singleton
  <2>2. Cardinality({g} \cup {k}) \in 1..2
    <3>1. Cardinality({g} \cup {k}) = (IF k \in {g} THEN Cardinality({g}) ELSE Cardinality({g}) + 1)
      BY <2>1, FS_AddElement, Zenon
    <3>2. Cardinality({g} \cup {k}) = 1 \/ Cardinality({g} \cup {k}) = 1 + 1
      BY <2>1, <3>1, Zenon
    <3> QED
      BY <3>2
  <2>3. {g} \cup {k} = {g, k}
    OBVIOUS
  <2> QED
    BY <2>1, <2>2, <2>3
<1>10. ASSUME NEW g, about = {g} PROVE Cardinality(about) = 1
  BY <1>9, <1>10
<1>11. Eligibility(c) \in {"SKIPPED", "REJECTED", "EXPECTED"}
  BY EligibilityIsOneOfThree
<1>12. CASE Eligibility(c) = "REJECTED" /\ c \in Contradictory
  <2>1. PICK g, k : k.result = "CONTRADICTION" /\ (about = {k} \/ about = {g, k})
    BY <1>8, <1>12
  <2>2. \E f \in about : f.result = "CONTRADICTION"
    BY <2>1
  <2>3. Cardinality(about) \in 1..2
    <3>1. Cardinality({k}) = 1 /\ Cardinality({g, k}) \in 1..2
      <4>1. Cardinality({k}) = 1
        BY FS_Singleton
      <4>2. Cardinality({g, k}) \in 1..2
        BY <1>9
      <4> QED
        BY <4>1, <4>2
    <3>2. CASE about = {k}
      <4>1. Cardinality(about) = Cardinality({k})
        BY <3>2, Zenon
      <4> QED
        BY <3>1, <4>1
    <3>3. CASE about = {g, k}
      BY <3>1, <3>3
    <3> QED
      BY <2>1, <3>2, <3>3
  <2> QED
    BY <2>2, <2>3
<1>13. CASE ~(Eligibility(c) = "REJECTED" /\ c \in Contradictory)
  <2>1. PICK g : about = {g}
    BY <1>5, <1>6, <1>7, <1>11, <1>13
  <2>2. Cardinality(about) = 1
    BY <1>10, <2>1
  <2> QED
    BY <2>2
<1> QED
  BY <1>12, <1>13

\* What a finding about a claim names.
LEMMA ClaimFindingsNameOrders ==
    ASSUME NEW c \in Claim, NEW o \in Order, assignment[c].kind \in {"assigned", "ambiguous", "conflict", "none"}
    PROVE  /\ Executing(c).order = o => assignment[c].kind = "assigned" /\ o = Only(Involved(c))
           /\ \A f \in Rejected(c) : f.order = o => assignment[c].kind = "assigned" /\ o = Only(Involved(c))
           /\ assignment[c].kind = "assigned" => Executing(c).order = Only(Involved(c))
           /\ assignment[c].kind = "assigned" =>
                 \E g : Rejected(c) = {g} /\ g.order = Only(Involved(c)) /\ g.claim = c
           /\ assignment[c].kind = "ambiguous" =>
                 /\ Executing(c).involved = Involved(c) /\ "AMBIGUOUS_MATCHES" \in Executing(c).reasons
                 /\ \E f \in Rejected(c) : f.involved = Involved(c) /\ "AMBIGUOUS_MATCHES" \in f.reasons
<1>1. o # None
  BY DataAssumption
<1>2. CASE assignment[c].kind = "assigned"
  <2>1. Executing(c).order = Only(Involved(c))
    BY <1>2 DEF Executing, Finding
  <2>2. PICK g : g = Finding(c, Only(Involved(c)), "REJECTED", {"BROKER_REJECTED"}, {})
    OBVIOUS
  <2>3. Rejected(c) = {g}
    BY <1>2, <2>2 DEF Rejected
  <2>4. g.order = Only(Involved(c)) /\ g.claim = c
    BY <2>2 DEF Finding
  <2> QED
    BY <1>2, <2>1, <2>3, <2>4
<1>3. CASE assignment[c].kind = "ambiguous"
  <2>1. Executing(c) = Finding(c, None, "UNCERTAIN", {"AMBIGUOUS_MATCHES"}, Involved(c))
    BY <1>3 DEF Executing
  <2>2. PICK g : g = Finding(c, None, "REJECTED", {"BROKER_REJECTED", "AMBIGUOUS_MATCHES"}, Involved(c))
    OBVIOUS
  <2>3. Rejected(c) = {g}
    BY <1>3, <2>2 DEF Rejected
  <2>4. /\ g.order = None /\ g.involved = Involved(c) /\ "AMBIGUOUS_MATCHES" \in g.reasons
        /\ Executing(c).order = None /\ Executing(c).involved = Involved(c)
        /\ "AMBIGUOUS_MATCHES" \in Executing(c).reasons
    BY <2>1, <2>2 DEF Finding
  <2> QED
    BY <1>1, <1>3, <2>3, <2>4
<1>4. CASE assignment[c].kind \in {"conflict", "none"}
  BY <1>1, <1>4 DEF Executing, Rejected, Finding
<1> QED
  BY <1>2, <1>3, <1>4

\* What the findings say of an order is what its disposition says.
LEMMA EveryOrderIsFound ==
    ASSUME RecInv, stage = 6, NEW pick \in Picks,
           findings = Primary(pick) \cup OrderFindings(Primary(pick)), NEW o \in Order,
           NEW matches, matches = {f \in findings : f.order = o /\ f.result # "CONTRADICTION"}
    PROVE  /\ state[o] = "assigned" => \E g : matches = {g} /\ g.claim # None
           /\ state[o] = "open" => \E g : matches = {g} /\ g.result = "UNRECORDED_INTERNALLY"
           /\ state[o] = "ambiguous" =>
                 /\ matches = {}
                 /\ \E f \in findings : o \in f.involved /\ "AMBIGUOUS_MATCHES" \in f.reasons
           /\ state[o] = "conflict" =>
                 \E f \in findings : /\ f.order = o \/ o \in f.involved
                                     /\ \/ "IDENTIFIER_CONFLICT" \in f.reasons
                                        \/ "EXTERNAL_IDENTIFIER_CONFLICT" \in f.reasons
                                        \/ "REJECTION_EXECUTION_CONTRADICTION" \in f.reasons
<1>1. PICK d : d = Decide[3]
  OBVIOUS
<1>2. /\ Sound(d) /\ \A c \in Claim : ClaimEnds(c, d)
      /\ OrderEnds(o, d)
  BY <1>1, DecideIsSound, WhereRecordsEnd
<1>3. \A c \in Claim : Involved(c) = assignment[c].involved
  BY DEF Involved
<1>4. \A S : S # {} => Only(S) \in S
  BY DEF Only
<1>5. d.forced \subseteq Claim \X Order /\ d.several \subseteq Claim \X Order
      /\ \A e \in d.forced \cup d.several : Eligibility(e[1]) \in {"EXPECTED", "REJECTED"}
  BY <1>2, EligibilityIsOneOfThree DEF Sound, Eligible
\* an assigned claim names its order
<1>6. ASSUME NEW c \in Claim, assignment[c].kind = "assigned"
      PROVE  <<c, Only(Involved(c))>> \in d.forced /\ Only(Involved(c)) \in Order
  BY <1>2, <1>3, <1>4, <1>6 DEF ClaimEnds
<1>7. ASSUME NEW c \in Claim, <<c, o>> \in d.forced
      PROVE  assignment[c].kind = "assigned" /\ Only(Involved(c)) = o
  <2>1. assignment[c].kind = "assigned"
    BY <1>2, <1>7 DEF ClaimEnds
  <2>2. <<c, Only(Involved(c))>> \in d.forced
    BY <1>6, <2>1
  <2> QED
    BY <1>2, <1>7, <2>1, <2>2 DEF Sound, IsMatching
<1>8. \A c \in Claim : assignment[c].kind \in {"assigned", "ambiguous", "conflict", "none"}
  BY <1>2 DEF ClaimEnds
<1>9. ASSUME NEW f \in Primary(pick), f.order = o, f.result # "CONTRADICTION"
      PROVE  \E c \in Claim : /\ <<c, o>> \in d.forced
                              /\ \/ Eligibility(c) = "EXPECTED" /\ f = Executing(c)
                                 \/ Eligibility(c) = "REJECTED" /\ f \in Rejected(c)
  <2>1. f \notin Contradicted(pick)
    BY <1>9, ContradictionFindings DEF Finding
  <2>2. \A c : f # Skipped(c)
    BY <1>9, DataAssumption, ClaimFindings
  <2>3. PICK c \in Claim : \/ Eligibility(c) = "EXPECTED" /\ f = Executing(c)
                           \/ Eligibility(c) = "REJECTED" /\ f \in Rejected(c)
    BY <2>1, <2>2, PrimaryFindings
  <2>4. assignment[c].kind = "assigned" /\ o = Only(Involved(c))
    BY <1>8, <1>9, <2>3, ClaimFindingsNameOrders
  <2> QED
    BY <1>6, <2>3, <2>4
<1>10. state[o] = "assigned" <=> \E c \in Claim : <<c, o>> \in d.forced
  <2>1. o \in OrdersOf(d.forced) <=> \E c \in Claim : <<c, o>> \in d.forced
    <3>1. \A e \in d.forced : e[1] \in Claim /\ e = <<e[1], e[2]>>
      BY <1>5
    <3> QED
      BY <3>1 DEF OrdersOf
  <2> QED
    BY <1>2, <2>1 DEF OrderEnds, Disposition
<1>11. ASSUME state[o] = "assigned" PROVE \E g : matches = {g} /\ g.claim # None
  <2>1. PICK c \in Claim : <<c, o>> \in d.forced
    BY <1>10, <1>11
  <2>2. \A b \in Claim : <<b, o>> \in d.forced => b = c
    BY <1>2, <2>1 DEF Sound, IsMatching
  <2>3. Eligibility(c) \in {"EXPECTED", "REJECTED"}
    BY <1>5, <2>1
  <2>4. assignment[c].kind = "assigned" /\ Only(Involved(c)) = o
    BY <1>7, <2>1
  <2>5. \A f \in OrderFindings(Primary(pick)) : f.order # o
    BY <1>11, FindingsOfOrders DEF Open
  <2>6. CASE Eligibility(c) = "EXPECTED"
    <3>1. /\ Executing(c).order = o /\ Executing(c).claim = c /\ Executing(c).result # "CONTRADICTION"
      BY <1>8, <2>4, ClaimFindingsNameOrders, ClaimFindings
    <3>2. Executing(c) \in Primary(pick)
      BY <2>6, PrimaryFindings
    <3>3. \A f : f \in matches <=> f = Executing(c)
      BY <1>9, <2>2, <2>5, <2>6, <3>1, <3>2
    <3> QED
      BY <3>1, <3>3, DataAssumption
  <2>7. CASE Eligibility(c) = "REJECTED"
    <3>1. PICK g : Rejected(c) = {g} /\ g.order = o /\ g.claim = c
      BY <1>8, <2>4, ClaimFindingsNameOrders
    <3>2. g.result # "CONTRADICTION"
      BY <3>1, ClaimFindings
    <3>3. g \in Primary(pick)
      BY <2>7, <3>1, PrimaryFindings
    <3>4. \A f : f \in matches <=> f = g
      BY <1>9, <2>2, <2>5, <2>7, <3>1, <3>2, <3>3
    <3> QED
      BY <3>1, <3>4, DataAssumption
  <2> QED
    BY <2>3, <2>6, <2>7
<1>12. ASSUME state[o] = "open" PROVE \E g : matches = {g} /\ g.result = "UNRECORDED_INTERNALLY"
  <2>1. PICK g : g = Finding(None, o, "UNRECORDED_INTERNALLY", {"UNMATCHED_BROKER_ORDER"}, {})
    OBVIOUS
  <2>2. o \in Open
    BY <1>12 DEF Open
  <2>3. g \in OrderFindings(Primary(pick)) /\ g.order = o /\ g.result = "UNRECORDED_INTERNALLY"
    <3>1. g \in OrderFindings(Primary(pick))
      BY <2>1, <2>2 DEF OrderFindings
    <3> QED
      BY <2>1, <3>1 DEF Finding
  <2>4. \A f \in OrderFindings(Primary(pick)) : f.order = o => f = g
    BY <2>1, <2>2, FindingsOfOrders
  <2>5. \A f \in Primary(pick) : ~(f.order = o /\ f.result # "CONTRADICTION")
    BY <1>9, <1>10, <1>12
  <2>6. \A f : f \in matches <=> f = g
    BY <2>3, <2>4, <2>5
  <2> QED
    BY <2>3, <2>6
<1>13. ASSUME state[o] = "ambiguous"
       PROVE  /\ matches = {}
              /\ \E f \in findings : o \in f.involved /\ "AMBIGUOUS_MATCHES" \in f.reasons
  <2>1. matches = {}
    <3>1. \A f \in Primary(pick) : ~(f.order = o /\ f.result # "CONTRADICTION")
      BY <1>9, <1>10, <1>13
    <3>2. \A f \in OrderFindings(Primary(pick)) : f.order # o
      BY <1>13, FindingsOfOrders DEF Open
    <3> QED
      BY <3>1, <3>2
  <2>2. PICK c \in Claim : <<c, o>> \in d.several
    BY <1>2, <1>5, <1>13 DEF OrderEnds, Disposition, OrdersOf
  <2>3. assignment[c].kind = "ambiguous" /\ o \in Involved(c)
    BY <1>2, <1>3, <2>2 DEF ClaimEnds
  <2>4. Eligibility(c) \in {"EXPECTED", "REJECTED"}
    BY <1>5, <2>2
  <2>5. /\ Executing(c).involved = Involved(c) /\ "AMBIGUOUS_MATCHES" \in Executing(c).reasons
        /\ \E f \in Rejected(c) : f.involved = Involved(c) /\ "AMBIGUOUS_MATCHES" \in f.reasons
    BY <1>8, <2>3, ClaimFindingsNameOrders
  <2>6. CASE Eligibility(c) = "EXPECTED"
    <3>1. Executing(c) \in findings
      BY <2>6, PrimaryFindings
    <3> QED
      BY <2>1, <2>3, <2>5, <3>1
  <2>7. CASE Eligibility(c) = "REJECTED"
    <3>1. \A f \in Rejected(c) : f \in findings
      BY <2>7, PrimaryFindings
    <3> QED
      BY <2>1, <2>3, <2>5, <3>1
  <2> QED
    BY <2>4, <2>6, <2>7
<1>14. ASSUME state[o] = "conflict"
       PROVE  \E f \in findings : /\ f.order = o \/ o \in f.involved
                                  /\ \/ "IDENTIFIER_CONFLICT" \in f.reasons
                                     \/ "EXTERNAL_IDENTIFIER_CONFLICT" \in f.reasons
                                     \/ "REJECTION_EXECUTION_CONTRADICTION" \in f.reasons
  <2>1. CASE \E f \in Primary(pick) :
                /\ f.order = o \/ o \in f.involved
                /\ f.reasons \cap {"IDENTIFIER_CONFLICT", "REJECTION_EXECUTION_CONTRADICTION"} # {}
    BY <2>1
  <2>2. CASE ~\E f \in Primary(pick) :
                /\ f.order = o \/ o \in f.involved
                /\ f.reasons \cap {"IDENTIFIER_CONFLICT", "REJECTION_EXECUTION_CONTRADICTION"} # {}
    <3>1. PICK g : g = Finding(None, o, "UNCERTAIN", {"EXTERNAL_IDENTIFIER_CONFLICT"}, {})
      OBVIOUS
    <3>2. g \in OrderFindings(Primary(pick))
      BY <1>14, <2>2, <3>1 DEF OrderFindings
    <3>3. g.order = o /\ "EXTERNAL_IDENTIFIER_CONFLICT" \in g.reasons
      BY <3>1 DEF Finding
    <3> QED
      BY <3>2, <3>3
  <2> QED
    BY <2>1, <2>2
<1> QED
  BY <1>11, <1>12, <1>13, <1>14

LEMMA RecordsAreReported ==
    ASSUME RecInv PROVE EveryRecordReported
<1> SUFFICES ASSUME stage = 6 PROVE EveryRecordReported
  BY DEF EveryRecordReported
<1>1. PICK pick \in Picks : findings = Primary(pick) \cup OrderFindings(Primary(pick))
  BY DEF RecInv, Reported
<1>2. ASSUME NEW c \in Claim
      PROVE  LET about == {f \in findings : f.claim = c}
             IN Cardinality(about) \in 1..(IF \E f \in about : f.result = "CONTRADICTION" THEN 2 ELSE 1)
  BY <1>1, EveryClaimIsFound
<1>3. ASSUME NEW o \in Order
      PROVE  LET matches == {f \in findings : f.order = o /\ f.result # "CONTRADICTION"}
                 names(r) == \E f \in findings : (f.order = o \/ o \in f.involved) /\ r \in f.reasons
             IN CASE state[o] = "assigned" ->
                       Cardinality(matches) = 1 /\ \A f \in matches : f.claim # None
                  [] state[o] = "open" ->
                       /\ Cardinality(matches) = 1
                       /\ \A f \in matches : f.result = "UNRECORDED_INTERNALLY"
                  [] state[o] = "ambiguous" -> matches = {} /\ names("AMBIGUOUS_MATCHES")
                  [] state[o] = "conflict" ->
                       \/ names("IDENTIFIER_CONFLICT") \/ names("EXTERNAL_IDENTIFIER_CONFLICT")
                       \/ names("REJECTION_EXECUTION_CONTRADICTION")
  <2>1. PICK matches : matches = {f \in findings : f.order = o /\ f.result # "CONTRADICTION"}
    OBVIOUS
  <2>2. state[o] \in {"open", "assigned", "ambiguous", "conflict"}
    BY DEF RecInv, RecTypeInv
  <2>3. /\ state[o] = "assigned" => \E g : matches = {g} /\ g.claim # None
        /\ state[o] = "open" => \E g : matches = {g} /\ g.result = "UNRECORDED_INTERNALLY"
        /\ state[o] = "ambiguous" =>
              /\ matches = {}
              /\ \E f \in findings : o \in f.involved /\ "AMBIGUOUS_MATCHES" \in f.reasons
        /\ state[o] = "conflict" =>
              \E f \in findings : /\ f.order = o \/ o \in f.involved
                                  /\ \/ "IDENTIFIER_CONFLICT" \in f.reasons
                                     \/ "EXTERNAL_IDENTIFIER_CONFLICT" \in f.reasons
                                     \/ "REJECTION_EXECUTION_CONTRADICTION" \in f.reasons
    BY <1>1, <2>1, EveryOrderIsFound
  <2>4. \A g : Cardinality({g}) = 1
    BY FS_Singleton
  <2>5. /\ state[o] = "assigned" => Cardinality(matches) = 1 /\ \A f \in matches : f.claim # None
        /\ state[o] = "open" => /\ Cardinality(matches) = 1
                                /\ \A f \in matches : f.result = "UNRECORDED_INTERNALLY"
    BY <2>3, <2>4
  <2>6. CASE state[o] = "assigned"
    BY <2>1, <2>5, <2>6
  <2>7. CASE state[o] = "open"
    BY <2>1, <2>5, <2>7
  <2>8. CASE state[o] = "ambiguous"
    BY <2>1, <2>3, <2>8
  <2>9. CASE state[o] = "conflict"
    BY <2>3, <2>9
  <2> QED
    BY <2>2, <2>6, <2>7, <2>8, <2>9
<1> QED
  BY <1>2, <1>3 DEF EveryRecordReported

\* Every claim has its finding, and every order is reported as what it was
\* decided to be.
THEOREM NoRecordDisappears == Spec => []EveryRecordReported
BY ReconciliationInvariant, RecordsAreReported, PTL

-----------------------------------------------------------------------------
(* The first of a list by some order.                                      *)

\* A finite set has a first element under any strict order.
LEMMA LeastExists ==
    ASSUME NEW G, IsFiniteSet(G), G # {}, NEW R,
           \A x \in G : <<x, x>> \notin R,
           \A x, y, z \in G : <<x, y>> \in R /\ <<y, z>> \in R => <<x, z>> \in R
    PROVE  \E x \in G : \A y \in G : <<y, x>> \notin R
<1> DEFINE below == [x \in G |-> {y \in G : <<y, x>> \in R}]
           sizes == {Cardinality(below[x]) : x \in G}
<1>1. \A x \in G : IsFiniteSet(below[x]) /\ Cardinality(below[x]) \in Nat
  BY FS_Subset, FS_CardinalityType
<1>2. sizes \in SUBSET Nat /\ sizes # {}
  <2> HIDE DEF below
  <2> QED BY <1>1
<1>3. PICK n \in sizes : \A m \in sizes : n <= m
  <2> HIDE DEF sizes
  <2> QED BY <1>2, Smallest
<1>4. PICK x \in G : n = Cardinality(below[x])
  BY <1>3
<1>5. ASSUME NEW y \in G, <<y, x>> \in R PROVE FALSE
  <2>1. below[y] \subseteq below[x] /\ y \in below[x] /\ y \notin below[y]
    BY <1>5
  <2>2. Cardinality(below[y]) <= Cardinality(below[x]) /\ Cardinality(below[y]) # Cardinality(below[x])
    <3> HIDE DEF below
    <3>1. below[y] \in SUBSET below[x] /\ below[y] # below[x]
      BY <2>1
    <3>2. IsFiniteSet(below[x])
      BY <1>1
    <3>3. \A S, T : IsFiniteSet(S) /\ T \in SUBSET S /\ T # S =>
                      Cardinality(T) <= Cardinality(S) /\ Cardinality(T) # Cardinality(S)
      BY FS_Subset, Zenon
    <3> QED BY <3>1, <3>2, <3>3, Zenon
  <2>3. Cardinality(below[x]) <= Cardinality(below[y])
    <3> HIDE DEF below
    <3>1. Cardinality(below[y]) \in sizes
      OBVIOUS
    <3> QED BY <1>3, <1>4, <3>1
  <2> QED
    BY <1>1, <2>2, <2>3
<1> QED
  BY <1>5

LEMMA OneAtMost ==
    ASSUME NEW S, IsFiniteSet(S), Cardinality(S) <= 1, NEW a \in S, NEW b \in S
    PROVE  a = b
<1> SUFFICES ASSUME a # b PROVE FALSE
  OBVIOUS
<1>1. IsFiniteSet({a}) /\ Cardinality({a}) = 1
  BY FS_Singleton
<1>2. {a} \in SUBSET S /\ {a} # S
  OBVIOUS
<1>3. Cardinality({a}) <= Cardinality(S) /\ Cardinality({a}) # Cardinality(S)
  BY <1>2, FS_Subset, Zenon
<1>4. Cardinality(S) \in Nat
  BY FS_CardinalityType
<1> QED
  BY <1>1, <1>3, <1>4

\* Comparing tuples.
LEMMA NotBeforeItself ==
    ASSUME NEW n \in Nat, NEW a \in [1..n -> Int] PROVE ~Before(a, a)
BY DEF Before

LEMMA BeforeIsStrict ==
    ASSUME NEW n \in Nat, NEW a \in [1..n -> Int], NEW b \in [1..n -> Int], NEW c \in [1..n -> Int]
    PROVE  /\ Before(a, b) /\ Before(b, c) => Before(a, c)
           /\ a = b \/ Before(a, b) \/ Before(b, a)
<1>2. ASSUME Before(a, b), Before(b, c) PROVE Before(a, c)
  <2>1. PICK k \in 1..n : a[k] < b[k] /\ \A m \in 1..(k - 1) : a[m] = b[m]
    BY <1>2 DEF Before
  <2>2. PICK l \in 1..n : b[l] < c[l] /\ \A m \in 1..(l - 1) : b[m] = c[m]
    BY <1>2 DEF Before
  <2>3. CASE k <= l
    <3>1. a[k] < c[k]
      BY <2>1, <2>2, <2>3
    <3>2. \A m \in 1..(k - 1) : a[m] = c[m]
      BY <2>1, <2>2, <2>3
    <3> QED
      BY <3>1, <3>2 DEF Before
  <2>4. CASE l < k
    <3>1. a[l] < c[l]
      BY <2>1, <2>2, <2>4
    <3>2. \A m \in 1..(l - 1) : a[m] = c[m]
      BY <2>1, <2>2, <2>4
    <3> QED
      BY <3>1, <3>2 DEF Before
  <2> QED
    BY <2>3, <2>4
<1>3. ASSUME a # b PROVE Before(a, b) \/ Before(b, a)
  <2> DEFINE D == {k \in 1..n : a[k] # b[k]}
  <2>1. D \in SUBSET Nat /\ D # {}
    <3>1. (\A k \in 1..n : a[k] = b[k]) => a = b
      OBVIOUS
    <3>2. D # {}
      BY <1>3, <3>1
    <3>3. D \in SUBSET Nat
      OBVIOUS
    <3> QED BY <3>2, <3>3
  <2>2. PICK k \in D : \A m \in D : k <= m
    <3> HIDE DEF D
    <3> QED BY <2>1, Smallest
  <2>3. \A m \in 1..(k - 1) : a[m] = b[m]
    <3> TAKE m \in 1..(k - 1)
    <3>1. m \in 1..n /\ ~(k <= m)
      BY <2>2
    <3> QED BY <2>2, <3>1
  <2>4. a[k] < b[k] \/ b[k] < a[k]
    BY <2>2
  <2> QED
    BY <2>2, <2>3, <2>4 DEF Before
<1> QED
  BY <1>2, <1>3

-----------------------------------------------------------------------------
(* Records and their groups.                                               *)

OrderList(records) ==
    /\ records \in [DOMAIN records -> OrderRecord]
    /\ IsFiniteSet(DOMAIN records) /\ DOMAIN records \subseteq Nat

\* The records that are one order with the i-th.
GroupOf(records, i) ==
    {i} \cup {j \in DOMAIN records : /\ records[i].boid # 0 /\ records[j].boid = records[i].boid
                                     /\ records[j].source = records[i].source}

LEMMA StatusesRank ==
    /\ \A s : Rank(s) \in 0..2 /\ (s \in Terminal <=> Rank(s) = 2)
    /\ DOMAIN Statuses = 1..10
    /\ \A r \in OrderRecord : Place(r.status) \in 1..10 /\ Statuses[Place(r.status)] = r.status
<1>1. \A s : Rank(s) \in 0..2 /\ (s \in Terminal <=> Rank(s) = 2)
  BY DEF Rank, Terminal
<1>2. DOMAIN Statuses = 1..10
  BY DEF Statuses
<1>3. ASSUME NEW r \in OrderRecord PROVE Place(r.status) \in 1..10 /\ Statuses[Place(r.status)] = r.status
  <2>1. PICK n \in DOMAIN Statuses : Statuses[n] = r.status
    BY DEF OrderRecord
  <2> QED
    BY <1>2, <2>1 DEF Place
<1> QED
  BY <1>1, <1>2, <1>3

\* Records without a broker order id are orders of their own.
LEMMA IdentityIsOwn ==
    ASSUME NEW records, OrderList(records), NEW i \in DOMAIN records, NEW j \in DOMAIN records
    PROVE  Identity(records, j) = Identity(records, i) <=> j \in GroupOf(records, i)
<1> DEFINE like == [k \in DOMAIN records |-> {l \in DOMAIN records : records[l] = records[k]}]
           least == [k \in DOMAIN records |-> CHOOSE l \in like[k] : \A m \in like[k] : l <= m]
           rank == [k \in DOMAIN records |-> Cardinality({l \in like[k] : l < k})]
<1>1. \A k \in DOMAIN records : records[k].boid = 0 =>
          Identity(records, k) = [source |-> records[k].source, boid |-> 0, like |-> least[k], rank |-> rank[k]]
  BY DEF Identity
<1>2. \A k \in DOMAIN records : records[k].boid # 0 =>
          Identity(records, k) = [source |-> records[k].source, boid |-> records[k].boid, like |-> 0, rank |-> 0]
  BY Zenon DEF Identity
<1>3. \A k \in DOMAIN records : least[k] \in like[k]
  <2> TAKE k \in DOMAIN records
  <2>1. like[k] \in SUBSET Nat /\ like[k] # {}
    BY DEF OrderList
  <2> QED
    BY <2>1, Smallest
<1>4. ASSUME records[i].boid = 0, records[j].boid = 0, Identity(records, j) = Identity(records, i)
      PROVE  i = j
  <2>1. least[i] = least[j] /\ rank[i] = rank[j]
    <3> HIDE DEF least, rank
    <3> QED BY <1>1, <1>4
  <2>2. records[i] = records[j]
    BY <1>3, <2>1
  <2> DEFINE a == {l \in like[i] : l < i}
             b == {l \in like[i] : l < j}
  <2>3. rank[i] = Cardinality(a) /\ rank[j] = Cardinality(b)
    BY <2>2
  <2>4. IsFiniteSet(a) /\ IsFiniteSet(b)
    BY FS_Subset DEF OrderList
  <2>5. i \in Nat /\ j \in Nat
    BY DEF OrderList
  <2>6. CASE i < j
    <3>1. a \subseteq b /\ i \in b /\ i \notin a
      BY <2>5, <2>6 DEF OrderList
    <3> HIDE DEF a, b
    <3> QED BY <2>1, <2>3, <2>4, <3>1, FS_Subset
  <2>7. CASE j < i
    <3>1. b \subseteq a /\ j \in a /\ j \notin b
      BY <2>2, <2>5, <2>7 DEF OrderList
    <3> HIDE DEF a, b
    <3> QED BY <2>1, <2>3, <2>4, <3>1, FS_Subset
  <2> QED
    BY <2>5, <2>6, <2>7
<1> HIDE DEF like, least, rank
<1>5. CASE records[i].boid = 0
  <2>1. j \in GroupOf(records, i) <=> j = i
    BY <1>5 DEF GroupOf
  <2>2. records[j].boid # 0 => Identity(records, j) # Identity(records, i)
    BY <1>1, <1>2, <1>5
  <2> QED
    BY <1>4, <1>5, <2>1, <2>2
<1>6. CASE records[i].boid # 0
  <2>1. j \in GroupOf(records, i) <=> records[j].boid = records[i].boid /\ records[j].source = records[i].source
    BY <1>6 DEF GroupOf
  <2> QED
    BY <1>1, <1>2, <1>6, <2>1
<1> QED
  BY <1>5, <1>6

LEMMA GroupsAre ==
    ASSUME NEW records, OrderList(records)
    PROVE  /\ Groups(records) = {GroupOf(records, i) : i \in DOMAIN records}
           /\ \A i \in DOMAIN records : i \in GroupOf(records, i) /\ GroupOf(records, i) \subseteq DOMAIN records
           /\ \A i, j \in DOMAIN records : j \in GroupOf(records, i) => GroupOf(records, j) = GroupOf(records, i)
<1>1. \A i \in DOMAIN records : i \in GroupOf(records, i) /\ GroupOf(records, i) \subseteq DOMAIN records
  BY DEF GroupOf
<1>2. \A i \in DOMAIN records :
        {j \in DOMAIN records : Identity(records, j) = Identity(records, i)} = GroupOf(records, i)
  BY <1>1, IdentityIsOwn
<1>3. Groups(records) = {GroupOf(records, i) : i \in DOMAIN records}
  BY <1>2, Zenon DEF Groups
<1>4. \A i, j \in DOMAIN records : j \in GroupOf(records, i) => GroupOf(records, j) = GroupOf(records, i)
  BY DEF GroupOf
<1> QED
  BY <1>1, <1>3, <1>4

-----------------------------------------------------------------------------
(* Who stands for a group.                                                 *)

LEMMA AdvanceIsCompared ==
    ASSUME NEW r \in OrderRecord, NEW i \in Nat
    PROVE  <<-Rank(r.status), -Place(r.status), i>> \in [1..3 -> Int] /\ Key(r) \in [1..8 -> Int]
<1>1. Rank(r.status) \in Int /\ Place(r.status) \in Int
  BY StatusesRank
<1>2. r.at \in Int /\ r.filled \in Int /\ r.cid \in Int /\ r.trade \in Int
  BY DEF OrderRecord
<1>3. \A x : Missing(x) \in Int
  BY DEF Missing
<1> QED
  BY <1>1, <1>2, <1>3 DEF Key

\* The most advanced record of a group is one of it, no other has a higher
\* rank, nor a later status of that rank.
LEMMA MostAdvancedIsOne ==
    ASSUME NEW records, OrderList(records), NEW G \in SUBSET DOMAIN records, G # {}
    PROVE  /\ MostAdvanced(records, G) \in G
           /\ \A j \in G :
                 LET r == records[j].status
                     s == records[MostAdvanced(records, G)].status
                 IN Rank(r) <= Rank(s) /\ (Rank(r) = Rank(s) => Place(r) <= Place(s))
<1> DEFINE order == [i \in G |-> <<-Rank(records[i].status), -Place(records[i].status), i>>]
           R == {e \in G \X G : Before(order[e[1]], order[e[2]])}
<1>1. IsFiniteSet(G)
  BY FS_Subset DEF OrderList
<1>2. \A i \in G : order[i] \in [1..3 -> Int]
  BY AdvanceIsCompared DEF OrderList
<1>3. \A i, j : <<i, j>> \in R <=> i \in G /\ j \in G /\ Before(order[i], order[j])
  OBVIOUS
<1>4. \E i \in G : \A j \in G : ~Before(order[j], order[i])
  <2> HIDE DEF order, R
  <2>1. \A x \in G : <<x, x>> \notin R
    BY <1>2, <1>3, NotBeforeItself
  <2>2. \A x, y, z \in G : <<x, y>> \in R /\ <<y, z>> \in R => <<x, z>> \in R
    <3> SUFFICES ASSUME NEW x \in G, NEW y \in G, NEW z \in G, Before(order[x], order[y]), Before(order[y], order[z])
                 PROVE  Before(order[x], order[z])
      BY <1>3
    <3> QED BY <1>2, BeforeIsStrict
  <2>3. PICK x \in G : \A y \in G : <<y, x>> \notin R
    BY <1>1, <2>1, <2>2, LeastExists, Zenon
  <2> QED
    BY <1>3, <2>3
<1> DEFINE m == MostAdvanced(records, G)
<1>5. m = CHOOSE i \in G : \A j \in G : ~Before(order[j], order[i])
  BY DEF MostAdvanced
<1>6. m \in G /\ \A j \in G : ~Before(order[j], order[m])
  <2> HIDE DEF order, m
  <2> QED BY <1>4, <1>5
<1>7. ASSUME NEW j \in G
      PROVE  LET r == records[j].status
                 s == records[m].status
             IN Rank(r) <= Rank(s) /\ (Rank(r) = Rank(s) => Place(r) <= Place(s))
  <2> DEFINE a == order[j]
             b == order[m]
  <2>1. ~(a[1] < b[1]) /\ ~(a[1] = b[1] /\ a[2] < b[2])
    <3>1. a \in [1..3 -> Int] /\ b \in [1..3 -> Int] /\ ~Before(a, b)
      BY <1>2, <1>6
    <3> HIDE DEF a, b
    <3>2. DOMAIN a = 1..3
      BY <3>1
    <3>3. ASSUME a[1] < b[1] PROVE FALSE
      <4>1. 1 \in DOMAIN a /\ \A l \in 1..(1 - 1) : a[l] = b[l]
        BY <3>2
      <4> QED BY <3>1, <3>3, <4>1 DEF Before
    <3>4. ASSUME a[1] = b[1], a[2] < b[2] PROVE FALSE
      <4>1. 2 \in DOMAIN a /\ \A l \in 1..(2 - 1) : a[l] = b[l]
        BY <3>2, <3>4
      <4> QED BY <3>1, <3>4, <4>1 DEF Before
    <3> QED BY <3>3, <3>4
  <2>2. /\ a[1] = -Rank(records[j].status) /\ a[2] = -Place(records[j].status)
        /\ b[1] = -Rank(records[m].status) /\ b[2] = -Place(records[m].status)
    BY <1>6
  <2>3. /\ Rank(records[j].status) \in Int /\ Place(records[j].status) \in Int
        /\ Rank(records[m].status) \in Int /\ Place(records[m].status) \in Int
    BY <1>6, StatusesRank DEF OrderList
  <2> HIDE DEF a, b, m
  <2> QED BY <2>1, <2>2, <2>3
<1> QED
  BY <1>6, <1>7

\* The first by content is one of the group, and none comes before it.
LEMMA FirstByContentIsOne ==
    ASSUME NEW records, OrderList(records), NEW G \in SUBSET DOMAIN records, G # {}
    PROVE  /\ FirstByContent(records, G) \in G
           /\ \A j \in G : ~Before(Key(records[j]), Key(records[FirstByContent(records, G)]))
<1> DEFINE R == {e \in G \X G : Before(Key(records[e[1]]), Key(records[e[2]]))}
<1>1. IsFiniteSet(G)
  BY FS_Subset DEF OrderList
<1>2. \A i \in G : Key(records[i]) \in [1..8 -> Int]
  BY AdvanceIsCompared DEF OrderList
<1>3. \A i, j : <<i, j>> \in R <=> i \in G /\ j \in G /\ Before(Key(records[i]), Key(records[j]))
  OBVIOUS
<1> HIDE DEF R
<1>4. \A x \in G : <<x, x>> \notin R
  BY <1>2, <1>3, NotBeforeItself
<1>5. \A x, y, z \in G : <<x, y>> \in R /\ <<y, z>> \in R => <<x, z>> \in R
  <2> SUFFICES ASSUME NEW x \in G, NEW y \in G, NEW z \in G,
                      Before(Key(records[x]), Key(records[y])), Before(Key(records[y]), Key(records[z]))
               PROVE  Before(Key(records[x]), Key(records[z]))
    BY <1>3
  <2> QED BY <1>2, BeforeIsStrict
<1>6. PICK x \in G : \A y \in G : <<y, x>> \notin R
  BY <1>1, <1>4, <1>5, LeastExists, Zenon
<1>7. \A y \in G : ~Before(Key(records[y]), Key(records[x]))
  BY <1>3, <1>6
<1> QED
  BY <1>7 DEF FirstByContent

LEMMA RepresentativeIsOne ==
    ASSUME NEW records, OrderList(records), NEW G \in SUBSET DOMAIN records, G # {}
    PROVE  Representative(records, G) \in G
BY MostAdvancedIsOne, FirstByContentIsOne DEF Representative

\* The order handed on differs from its record at most in a client id.
LEMMA EnrichedIsOne ==
    ASSUME NEW records, OrderList(records), NEW G \in SUBSET DOMAIN records, G # {}
    PROVE  LET rep == records[Representative(records, G)]
               ids == {records[i].cid : i \in G} \ {0}
               e   == Enriched(records, G)
           IN /\ Representative(records, G) \in G /\ rep \in OrderRecord
              /\ e.boid = rep.boid /\ e.trade = rep.trade /\ e.at = rep.at /\ e.status = rep.status
              /\ e.filled = rep.filled /\ e.source = rep.source
              /\ rep.cid # 0 => e.cid = rep.cid
              /\ rep.cid = 0 /\ Cardinality(ids) # 1 => e.cid = 0
              /\ \A c : rep.cid = 0 /\ ids = {c} => e.cid = c
              /\ \A i \in G : rep.cid = 0 /\ records[i].cid # 0 /\ (\A j \in G : records[j].cid \in {0, records[i].cid})
                              => e.cid = records[i].cid
              /\ e \in OrderRecord
<1> DEFINE rep == records[Representative(records, G)]
           ids == {records[i].cid : i \in G} \ {0}
<1>1. Representative(records, G) \in G /\ rep \in OrderRecord
  BY RepresentativeIsOne DEF OrderList
<1>2. ids \subseteq Nat /\ IsFiniteSet(ids)
  <2>1. ids \subseteq Nat
    BY DEF OrderList, OrderRecord
  <2>2. IsFiniteSet({records[i].cid : i \in G})
    <3> DEFINE f == [i \in G |-> records[i].cid]
    <3>1. f \in Surjection(G, {records[i].cid : i \in G})
      BY DEF Surjection
    <3> QED BY <3>1, FS_Surjection, FS_Subset DEF OrderList
  <2> QED BY <2>1, <2>2, FS_Subset
<1>3. Enriched(records, G) = IF rep.cid = 0 /\ Cardinality(ids) = 1
                            THEN [rep EXCEPT !.cid = CHOOSE c \in ids : TRUE] ELSE rep
  BY DEF Enriched
<1>4. Cardinality(ids) = 1 => \E c : ids = {c}
  BY <1>2, FS_Singleton
<1>5. \A c : ids = {c} => Cardinality(ids) = 1 /\ (CHOOSE d \in ids : TRUE) = c
  BY FS_Singleton
<1>8. \A i \in G : records[i].cid # 0 /\ (\A j \in G : records[j].cid \in {0, records[i].cid})
                => ids = {records[i].cid}
  OBVIOUS
<1> HIDE DEF rep, ids
<1>6. CASE rep.cid = 0 /\ Cardinality(ids) = 1
  <2>1. PICK c : ids = {c} /\ c \in Nat
    BY <1>2, <1>4, <1>6
  <2>2. Enriched(records, G) = [rep EXCEPT !.cid = c]
    BY <1>3, <1>5, <1>6, <2>1
  <2>3. Enriched(records, G).cid = c /\ \A d : ids = {d} => c = d
    BY <1>1, <2>1, <2>2 DEF OrderRecord
  <2> QED BY <1>1, <1>6, <1>8, <2>1, <2>2, <2>3 DEF OrderRecord, rep, ids
<1>7. CASE ~(rep.cid = 0 /\ Cardinality(ids) = 1)
  <2>1. Enriched(records, G) = rep
    BY <1>3, <1>7
  <2> QED BY <1>1, <1>5, <1>7, <1>8, <2>1 DEF rep, ids
<1> QED
  BY <1>6, <1>7

LEMMA EnrichedKeeps ==
    ASSUME NEW records, OrderList(records), NEW G \in SUBSET DOMAIN records, G # {},
           NEW m, m = Representative(records, G), NEW e, e = Enriched(records, G)
    PROVE  /\ m \in G /\ e \in OrderRecord
           /\ e.boid = records[m].boid /\ e.trade = records[m].trade /\ e.at = records[m].at
           /\ e.status = records[m].status /\ e.filled = records[m].filled /\ e.source = records[m].source
<1>1. m \in G /\ e \in OrderRecord /\ e.boid = records[m].boid /\ e.trade = records[m].trade
  BY EnrichedIsOne
<1>2. e.at = records[m].at /\ e.status = records[m].status /\ e.filled = records[m].filled
  BY EnrichedIsOne
<1>3. e.source = records[m].source
  BY EnrichedIsOne
<1> QED
  BY <1>1, <1>2, <1>3

\* The client id handed on is one of the group's.
LEMMA ClientIdIsOne ==
    ASSUME NEW records, OrderList(records), NEW G \in SUBSET DOMAIN records, G # {},
           Enriched(records, G).cid # 0
    PROVE  \E i \in G : records[i].cid = Enriched(records, G).cid
<1> DEFINE rep == records[Representative(records, G)]
           ids == {records[i].cid : i \in G} \ {0}
           e == Enriched(records, G)
<1>1. e = IF rep.cid = 0 /\ Cardinality(ids) = 1
          THEN [rep EXCEPT !.cid = CHOOSE c \in ids : TRUE] ELSE rep
  BY DEF Enriched
<1>2. Representative(records, G) \in G /\ rep \in OrderRecord
  BY RepresentativeIsOne DEF OrderList
<1>3. Cardinality(ids) = 1 => \E c : c \in ids
  <2> HIDE DEF ids
  <2>1. ids = {} => Cardinality(ids) = 0
    BY FS_EmptySet
  <2> QED BY <2>1
<1>4. CASE rep.cid = 0 /\ Cardinality(ids) = 1
  <2>1. (CHOOSE c \in ids : TRUE) \in ids
    BY <1>3, <1>4
  <2>2. e.cid \in ids
    <3> HIDE DEF ids, rep, e
    <3> QED BY <1>1, <1>2, <1>4, <2>1 DEF OrderRecord
  <2> QED BY <2>2
<1>5. CASE ~(rep.cid = 0 /\ Cardinality(ids) = 1)
  BY <1>1, <1>2, <1>5
<1> QED
  BY <1>4, <1>5

-----------------------------------------------------------------------------
(* A file's records: nothing of them is lost silently.                     *)

\* What normalize_ingested_orders makes of one group.
Handing(records, G) ==
    [order |-> Enriched(records, G), of |-> G, count |-> Cardinality(G), verdict |-> Verdict(records, G)]

\* Every record is in one group.
LEMMA HeldOnce ==
    ASSUME NEW records, OrderList(records)
    PROVE  /\ Clean(records) = {Handing(records, G) : G \in Groups(records)}
           /\ Clean(records) = {Handing(records, GroupOf(records, i)) : i \in DOMAIN records}
           /\ \A i \in DOMAIN records :
                 {c \in Clean(records) : i \in c.of} = {Handing(records, GroupOf(records, i))}
<1>1. Clean(records) = {Handing(records, G) : G \in Groups(records)}
  BY Zenon DEF Clean, Handing
<1>2. Clean(records) = {Handing(records, GroupOf(records, i)) : i \in DOMAIN records}
  BY <1>1, GroupsAre
<1>3. \A G : Handing(records, G).of = G
  BY DEF Handing
<1>4. ASSUME NEW i \in DOMAIN records
      PROVE  {c \in Clean(records) : i \in c.of} = {Handing(records, GroupOf(records, i))}
  <2>1. \A c \in Clean(records) : i \in c.of => c = Handing(records, GroupOf(records, i))
    <3> SUFFICES ASSUME NEW j \in DOMAIN records, i \in GroupOf(records, j)
                 PROVE  Handing(records, GroupOf(records, j)) = Handing(records, GroupOf(records, i))
      BY <1>2, <1>3
    <3>1. GroupOf(records, i) = GroupOf(records, j)
      BY GroupsAre
    <3> QED BY <3>1
  <2>2. i \in Handing(records, GroupOf(records, i)).of
    BY <1>3, GroupsAre
  <2> QED
    BY <1>2, <2>1, <2>2
<1> QED
  BY <1>1, <1>2, <1>4

\* The order handed on for a group whose records do not contradict each other.
LEMMA AgreedOrder ==
    ASSUME NEW records, OrderList(records), NEW G \in SUBSET DOMAIN records, NEW i \in G,
           Verdict(records, G) \notin {"conflict", "unmapped"}
    PROVE  LET o == Enriched(records, G) IN
           /\ o.trade = records[i].trade /\ o.at = records[i].at
           /\ records[i].cid \in {0, o.cid}
           /\ Rank(records[i].status) <= Rank(o.status)
           /\ records[i].status \in Terminal => records[i].status = o.status
<1> DEFINE m == Representative(records, G)
           rep == records[m]
           r == records[i]
           o == Enriched(records, G)
           all == {records[j] : j \in G}
           statuses == {records[j].status : j \in G}
<1>1. /\ m \in G /\ m = MostAdvanced(records, G)
      /\ o.trade = rep.trade /\ o.at = rep.at /\ o.status = rep.status
      /\ rep.cid # 0 => o.cid = rep.cid
      /\ rep.cid = 0 /\ r.cid # 0 /\ (\A j \in G : records[j].cid \in {0, r.cid}) => o.cid = r.cid
  <2>1. m = MostAdvanced(records, G)
    BY DEF Representative
  <2>2. G # {}
    OBVIOUS
  <2>3. m \in G /\ o.trade = rep.trade /\ o.at = rep.at /\ o.status = rep.status
    BY <2>2, EnrichedKeeps
  <2>4. rep.cid # 0 => o.cid = rep.cid
    BY <2>2, EnrichedIsOne
  <2>5. rep.cid = 0 /\ r.cid # 0 /\ (\A j \in G : records[j].cid \in {0, r.cid}) => o.cid = r.cid
    <3>1. \A k \in G : rep.cid = 0 /\ records[k].cid # 0 /\ (\A j \in G : records[j].cid \in {0, records[k].cid})
                          => o.cid = records[k].cid
      BY <2>2, EnrichedIsOne
    <3> HIDE DEF o
    <3> QED
      BY <3>1
  <2> QED
    BY <2>1, <2>3, <2>4, <2>5
<1>2. IsFiniteSet(G)
  BY FS_Subset DEF OrderList
<1>3. CASE Cardinality(all) = 1
  <2>1. IsFiniteSet(all)
    <3> DEFINE f == [j \in G |-> records[j]]
    <3>1. f \in Surjection(G, all)
      BY DEF Surjection
    <3> QED BY <1>2, <3>1, FS_Surjection
  <2>2. \E a : all = {a}
    <3> HIDE DEF all
    <3> QED BY <1>3, <2>1, FS_Singleton
  <2>3. rep \in all /\ r \in all
    BY <1>1
  <2>4. rep = r
    <3> HIDE DEF all, rep, r
    <3> QED BY <2>2, <2>3
  <2>5. Rank(r.status) <= Rank(r.status)
    BY StatusesRank
  <2>6. r.cid \in {0, o.cid}
    BY <1>1, <2>4
  <2> HIDE DEF rep, r, o
  <2> QED BY <1>1, <2>4, <2>5, <2>6 DEF r, o
<1>4. CASE Cardinality(all) # 1
  <2>1. ~Disagree(records, G) /\ ~(Cardinality(statuses \cap Terminal) > 1)
    BY <1>4 DEF Verdict
  <2>2. \A j, k \in G : /\ records[j].trade = records[k].trade /\ records[j].at = records[k].at
                        /\ records[j].cid # 0 /\ records[k].cid # 0 => records[j].cid = records[k].cid
    BY <2>1 DEF Disagree
  <2>3. r.cid \in {0, o.cid}
    <3>1. CASE rep.cid # 0
      BY <1>1, <2>2, <3>1
    <3>2. CASE rep.cid = 0 /\ r.cid # 0
      <4>1. \A j \in G : records[j].cid \in {0, r.cid}
        BY <2>2, <3>2
      <4> HIDE DEF rep, r, o
      <4> QED BY <1>1, <3>2, <4>1
    <3> QED BY <3>1, <3>2
  <2>4. Rank(r.status) <= Rank(rep.status)
    BY <1>1, MostAdvancedIsOne
  <2>5. ASSUME r.status \in Terminal PROVE r.status = rep.status
    <3>1. Rank(rep.status) = 2
      BY <2>4, <2>5, StatusesRank
    <3>2. rep.status \in statuses \cap Terminal /\ r.status \in statuses \cap Terminal
      BY <1>1, <2>5, <3>1, StatusesRank
    <3>3. IsFiniteSet(statuses \cap Terminal)
      <4>1. IsFiniteSet({"filled", "rejected", "canceled", "cancelled", "expired"})
        <5>1. \A a, b, c, d, e : IsFiniteSet({a, b, c, d, e})
          <6> TAKE a, b, c, d, e
          <6>1. IsFiniteSet({a} \cup {b} \cup ({c} \cup {d}) \cup {e})
            BY FS_Singleton, FS_Union
          <6>2. {a} \cup {b} \cup ({c} \cup {d}) \cup {e} = {a, b, c, d, e}
            OBVIOUS
          <6> QED BY <6>1, <6>2
        <5> QED BY <5>1
      <4> QED BY <4>1, FS_Subset DEF Terminal
    <3>4. Cardinality(statuses \cap Terminal) \in Nat /\ Cardinality(statuses \cap Terminal) <= 1
      <4> HIDE DEF statuses
      <4> QED BY <2>1, <3>3, FS_CardinalityType
    <3> HIDE DEF rep, r, statuses
    <3> QED BY <3>2, <3>3, <3>4, OneAtMost
  <2>6. rep.trade = r.trade /\ rep.at = r.at
    BY <1>1, <2>2
  <2> HIDE DEF rep, r, o
  <2> QED BY <1>1, <2>3, <2>4, <2>5, <2>6 DEF r, o
<1> QED
  BY <1>3, <1>4

Files == UNION {[1..n -> Record] : n \in 0..FileLength}

Named(c) == IF c.verdict = "conflict" THEN "INGESTION_SOURCE_IDENTITY_CONFLICT"
            ELSE "INGESTION_UNMAPPED_STATUS_UNRESOLVED"

\* The inductive invariant of a run on a file.
FileInv ==
    ~window.api =>
        /\ step # "pages"
        /\ step \in {"arguments", "claims", "orders"} => raw \in Files
        /\ step \in {"reconcile", "reports"} => OrderList(raw)
        /\ step = "reports" => \A c \in Clean(raw) :
              c.verdict \in {"conflict", "unmapped"} => <<Named(c), c.of>> \in found

LEMMA AcceptedAreOrders ==
    ASSUME NEW records \in Files, NEW required PROVE OrderList(Accepted(required, records))
<1> DEFINE A == Accepted(required, records)
<1>1. PICK n \in 0..FileLength : records \in [1..n -> Record]
  BY DEF Files
<1>2. n \in Nat /\ DOMAIN records = 1..n
  BY <1>1, RunAssumption
<1>3. A \in [DOMAIN A -> OrderRecord] /\ DOMAIN A \subseteq 1..n
  BY <1>1, <1>2, RecordAssumption DEF Accepted
<1>4. IsFiniteSet(1..n)
  BY <1>2, FS_Interval
<1>5. IsFiniteSet(DOMAIN A)
  <2> HIDE DEF A
  <2> QED BY <1>3, <1>4, FS_Subset
<1>6. DOMAIN A \subseteq Nat
  <2> HIDE DEF A
  <2> QED BY <1>2, <1>3
<1> QED
  BY <1>3, <1>5, <1>6 DEF OrderList

\* Every step of a run on a file keeps it: the file's records become a list of
\* orders (ReadFile), and the engine's findings are joined by those of the
\* normalization (Reconcile).
THEOREM FileStep == FileInv /\ [RunNext]_runVars => FileInv'
<1> SUFFICES ASSUME FileInv, [RunNext]_runVars, ~window'.api PROVE
        /\ step' # "pages"
        /\ step' \in {"arguments", "claims", "orders"} => raw' \in Files
        /\ step' \in {"reconcile", "reports"} => OrderList(raw')
        /\ step' = "reports" => \A c \in Clean(raw') :
              c.verdict \in {"conflict", "unmapped"} => <<Named(c), c.of>> \in found'
  BY DEF FileInv
<1>1. CASE World
  BY <1>1 DEF World
<1>2. CASE ParseArguments
  BY <1>2 DEF ParseArguments, End, FileInv
<1>3. CASE ReadClaims
  BY <1>3 DEF ReadClaims, End, FileInv
<1>4. CASE ReadFile
  <2>1. CASE raw' = Accepted(FileRequires, raw) /\ step' = "reconcile"
    <3>1. raw \in Files
      BY <1>4 DEF ReadFile, FileInv
    <3> QED BY <2>1, <3>1, AcceptedAreOrders
  <2>2. CASE End("exit 2")
    BY <2>2 DEF End
  <2> QED BY <1>4, <2>1, <2>2 DEF ReadFile
<1>5. CASE Connect
  BY <1>5 DEF Connect
<1>6. CASE FetchPage
  BY <1>6 DEF FetchPage, FileInv
<1>7. CASE Reconcile
  <2>1. ~window.api /\ window' = window /\ raw' = raw /\ OrderList(raw)
    BY <1>7 DEF Reconcile, End, FileInv
  <2>2. CASE step' = "reports"
    <3>1. Normalized = Clean(raw)
      BY <2>1 DEF Normalized
    <3>2. \E results : found' = BuildFindings(results)
      BY <1>7, <2>2 DEF Reconcile, End
    <3>3. \A c \in Normalized : c.verdict \in {"conflict", "unmapped"} => <<Named(c), c.of>> \in found'
      BY <3>2 DEF BuildFindings, Named
    <3> QED BY <2>1, <2>2, <3>1, <3>3
  <2>3. CASE step' # "reports"
    <3>1. step' = "exit 1"
      BY <1>7, <2>3 DEF Reconcile, End
    <3> QED BY <3>1
  <2> QED BY <2>2, <2>3
<1>8. CASE Write
  BY <1>8 DEF Write, End
<1>9. CASE UNCHANGED runVars
  BY <1>9 DEF runVars, FileInv
<1> QED
  BY <1>1, <1>2, <1>3, <1>4, <1>5, <1>6, <1>7, <1>8, <1>9 DEF RunNext

\* A run on a file of any records is always in a state FileInv describes.
THEOREM FileSafety == RunSpec => []FileInv
<1>1. RunInit => FileInv
  <2>1. ASSUME RunInit, ~window.api PROVE raw \in Files
    <3>1. window \notin {[api |-> TRUE, after |-> w[1], until |-> w[2]] : w \in Windows}
      BY <2>1
    <3> QED BY <2>1, <3>1 DEF RunInit, Files
  <2>2. RunInit => step = "arguments"
    BY DEF RunInit
  <2> QED BY <2>1, <2>2 DEF FileInv
<1> QED
  BY <1>1, FileStep, PTL DEF RunSpec

\* Whatever the records of a file say: each stands for one order, and what the
\* records of an order disagree about is reported
\* (normalize_ingested_orders, build_findings).
THEOREM NothingIsLostSilently == RunSpec => []NothingLostSilently
<1>1. FileInv => NothingLostSilently
  <2> SUFFICES ASSUME FileInv, step = "reports", ~window.api, NEW i \in DOMAIN raw
               PROVE
            LET holding == {c \in Clean(raw) : i \in c.of} IN
            /\ Cardinality(holding) = 1
            /\ \A c \in holding :
                  /\ c.of = GroupOf(raw, i)
                  /\ c.count = Cardinality(c.of)
                  /\ \/ \E f \in found : f[1] \in {"INGESTION_SOURCE_IDENTITY_CONFLICT",
                                              "INGESTION_UNMAPPED_STATUS_UNRESOLVED"} /\ f[2] = c.of
                     \/ /\ c.order.trade = raw[i].trade /\ c.order.at = raw[i].at
                        /\ raw[i].cid \in {0, c.order.cid}
                        /\ Rank(raw[i].status) <= Rank(c.order.status)
                        /\ raw[i].status \in Terminal => raw[i].status = c.order.status
    BY Zenon DEF NothingLostSilently, GroupOf
  <2> DEFINE G == GroupOf(raw, i)
             d == Handing(raw, G)
             holding == {c \in Clean(raw) : i \in c.of}
  <2>1. OrderList(raw) /\ G \in SUBSET DOMAIN raw /\ i \in G
    BY GroupsAre DEF FileInv
  <2>2. holding = {d}
    BY <2>1, HeldOnce
  <2>3. Cardinality({d}) = 1
    BY FS_Singleton
  <2>4. d.of = G /\ d.count = Cardinality(G) /\ d.order = Enriched(raw, G) /\ d.verdict = Verdict(raw, G)
    BY DEF Handing
  <2>5. CASE d.verdict \in {"conflict", "unmapped"}
    <3>1. d \in Clean(raw)
      BY <2>2
    <3>2. <<Named(d), d.of>> \in found
      BY <2>5, <3>1 DEF FileInv
    <3>3. \E f \in found : f[1] \in {"INGESTION_SOURCE_IDENTITY_CONFLICT",
                                      "INGESTION_UNMAPPED_STATUS_UNRESOLVED"} /\ f[2] = d.of
      BY <3>2 DEF Named
    <3> HIDE DEF d
    <3> QED BY <2>2, <2>3, <2>4, <3>3
  <2>6. CASE d.verdict \notin {"conflict", "unmapped"}
    <3>1. LET o == Enriched(raw, G) IN
             /\ o.trade = raw[i].trade /\ o.at = raw[i].at
             /\ raw[i].cid \in {0, o.cid}
             /\ Rank(raw[i].status) <= Rank(o.status)
             /\ raw[i].status \in Terminal => raw[i].status = o.status
      BY <2>1, <2>4, <2>6, AgreedOrder
    <3> HIDE DEF d
    <3> QED BY <2>2, <2>3, <2>4, <3>1
  <2> QED BY <2>5, <2>6
<1> QED
  BY <1>1, FileSafety, PTL

-----------------------------------------------------------------------------
(* The order of the records does not matter.                               *)

\* Two groups of as many records that say the same, all of one identity.
SameContent(s, G, t, H) ==
    /\ OrderList(s) /\ G \in SUBSET DOMAIN s /\ G # {}
    /\ OrderList(t) /\ H \in SUBSET DOMAIN t /\ H # {}
    /\ Cardinality(G) = Cardinality(H)
    /\ \A i \in G : \E j \in H : s[i] = t[j]
    /\ \A j \in H : \E i \in G : s[i] = t[j]
    /\ \A j, k \in H : t[j].boid = t[k].boid /\ t[j].source = t[k].source

LEMMA SameVerdict ==
    ASSUME NEW s, NEW G, NEW t, NEW H, SameContent(s, G, t, H)
    PROVE  /\ Verdict(s, G) = Verdict(t, H)
           /\ Disagree(s, G) <=> Disagree(t, H)
<1>1. {s[i] : i \in G} = {t[j] : j \in H}
  BY DEF SameContent
<1>2. {s[i].status : i \in G} = {t[j].status : j \in H}
  BY DEF SameContent
<1>3. Disagree(s, G) <=> Disagree(t, H)
  BY DEF SameContent, Disagree
<1>4. Verdict(s, G) = Verdict(t, H)
  <2> DEFINE all == {s[i] : i \in G}
             statuses == {s[i].status : i \in G}
  <2>1. Verdict(s, G) =
            CASE Cardinality(all) = 1 -> "duplicate"
                 [] Disagree(s, G) -> "conflict"
                 [] Cardinality(statuses \cap Terminal) > 1 -> "conflict"
                 [] Cardinality(statuses) > 1 /\ statuses \cap Unmapped # {} -> "unmapped"
                 [] OTHER -> "progress"
    BY DEF Verdict
  <2>2. Verdict(t, H) =
            CASE Cardinality({t[i] : i \in H}) = 1 -> "duplicate"
                 [] Disagree(t, H) -> "conflict"
                 [] Cardinality({t[i].status : i \in H} \cap Terminal) > 1 -> "conflict"
                 [] Cardinality({t[i].status : i \in H}) > 1 /\ {t[i].status : i \in H} \cap Unmapped # {} -> "unmapped"
                 [] OTHER -> "progress"
    BY DEF Verdict
  <2>3. Verdict(t, H) =
            CASE Cardinality(all) = 1 -> "duplicate"
                 [] Disagree(t, H) -> "conflict"
                 [] Cardinality(statuses \cap Terminal) > 1 -> "conflict"
                 [] Cardinality(statuses) > 1 /\ statuses \cap Unmapped # {} -> "unmapped"
                 [] OTHER -> "progress"
    BY <1>1, <1>2, <2>2
  <2> HIDE DEF all, statuses
  <2> QED
    BY <1>3, <2>1, <2>3
<1> QED
  BY <1>3, <1>4

\* Of a contradiction the same record comes first.
LEMMA SameFirst ==
    ASSUME NEW s, NEW G, NEW t, NEW H, SameContent(s, G, t, H)
    PROVE  s[FirstByContent(s, G)] = t[FirstByContent(t, H)]
<1> DEFINE a == s[FirstByContent(s, G)]
           b == t[FirstByContent(t, H)]
<1>1. /\ FirstByContent(s, G) \in G /\ \A j \in G : ~Before(Key(s[j]), Key(a))
      /\ FirstByContent(t, H) \in H /\ \A j \in H : ~Before(Key(t[j]), Key(b))
  BY FirstByContentIsOne DEF SameContent
<1>2. a \in OrderRecord /\ b \in OrderRecord /\ a.boid = b.boid /\ a.source = b.source
  <2>1. PICK j \in H : a = t[j]
    BY <1>1 DEF SameContent
  <2> QED BY <1>1, <2>1 DEF SameContent, OrderList
<1>3. ~Before(Key(a), Key(b)) /\ ~Before(Key(b), Key(a))
  <2>1. PICK j \in H : a = t[j]
    BY <1>1 DEF SameContent
  <2>2. PICK i \in G : b = s[i]
    BY <1>1 DEF SameContent
  <2> HIDE DEF a, b
  <2> QED BY <1>1, <2>1, <2>2
<1> HIDE DEF a, b
<1>4. Key(a) = Key(b)
  <2>1. Key(a) \in [1..8 -> Int] /\ Key(b) \in [1..8 -> Int]
    BY <1>2, AdvanceIsCompared
  <2> QED BY <1>3, <2>1, BeforeIsStrict
<1>5. Place(a.status) = Place(b.status) /\ a.at = b.at /\ a.filled = b.filled /\ a.cid = b.cid /\ a.trade = b.trade
  BY <1>4 DEF Key
<1>6. a.status = b.status
  BY <1>2, <1>5, StatusesRank
<1>7. a = b
  BY <1>2, <1>5, <1>6 DEF OrderRecord
<1> QED
  BY <1>7 DEF a, b

\* Of a progress the same status is the most advanced.
LEMMA SameStatus ==
    ASSUME NEW s, NEW G, NEW t, NEW H, SameContent(s, G, t, H)
    PROVE  s[MostAdvanced(s, G)].status = t[MostAdvanced(t, H)].status
<1> DEFINE m == MostAdvanced(s, G)
           n == MostAdvanced(t, H)
           a == s[m].status
           b == t[n].status
<1>1. m \in G /\ n \in H
  BY MostAdvancedIsOne DEF SameContent
<1>2. Rank(b) <= Rank(a) /\ (Rank(b) = Rank(a) => Place(b) <= Place(a))
  <2>1. PICK i \in G : s[i] = t[n]
    BY <1>1 DEF SameContent
  <2> QED BY <2>1, MostAdvancedIsOne DEF SameContent
<1>3. Rank(a) <= Rank(b) /\ (Rank(a) = Rank(b) => Place(a) <= Place(b))
  <2>1. PICK j \in H : s[m] = t[j]
    BY <1>1 DEF SameContent
  <2> QED BY <2>1, MostAdvancedIsOne DEF SameContent
<1>4. s[m] \in OrderRecord /\ t[n] \in OrderRecord
  BY <1>1 DEF SameContent, OrderList
<1>5. /\ Rank(a) \in Int /\ Rank(b) \in Int
      /\ Place(a) \in 1..10 /\ Statuses[Place(a)] = a
      /\ Place(b) \in 1..10 /\ Statuses[Place(b)] = b
  BY <1>4, StatusesRank
<1> HIDE DEF a, b
<1>6. Place(a) = Place(b)
  BY <1>2, <1>3, <1>5
<1> QED
  BY <1>5, <1>6 DEF a, b

\* What Handed tells of one order.
View(records, c) ==
    LET fills == {records[i].filled : i \in {j \in c.of : records[j].status = c.order.status}} IN
    [order |-> IF c.verdict = "progress" /\ Cardinality(fills) > 1
               THEN [c.order EXCEPT !.filled = 0] ELSE c.order,
     count |-> c.count, verdict |-> c.verdict]

\* Of a progress, all but the fill time is the same, and it is if the most
\* advanced records give only one.
LEMMA SameProgress ==
    ASSUME NEW s, NEW G, NEW t, NEW H, SameContent(s, G, t, H), Verdict(s, G) = "progress"
    PROVE  LET e == Enriched(s, G)
               f == Enriched(t, H)
           IN /\ e \in OrderRecord /\ f \in OrderRecord
              /\ e.boid = f.boid /\ e.source = f.source /\ e.trade = f.trade /\ e.at = f.at
              /\ e.status = f.status /\ e.cid = f.cid
              /\ \E i \in G : s[i].status = e.status /\ s[i].filled = e.filled
              /\ \E j \in H : t[j].status = f.status /\ t[j].filled = f.filled
<1> DEFINE e == Enriched(s, G)
           f == Enriched(t, H)
           m == Representative(s, G)
           n == Representative(t, H)
<1>1. Verdict(t, H) = "progress" /\ ~Disagree(s, G) /\ ~Disagree(t, H)
  <2>1. ~Disagree(s, G)
    BY DEF Verdict
  <2> QED BY <2>1, SameVerdict
<1>2. m = MostAdvanced(s, G) /\ n = MostAdvanced(t, H)
  BY <1>1 DEF Representative
<1>3. /\ m \in G /\ e \in OrderRecord
      /\ e.boid = s[m].boid /\ e.trade = s[m].trade /\ e.at = s[m].at /\ e.status = s[m].status
      /\ e.filled = s[m].filled /\ e.source = s[m].source
  <2>1. OrderList(s) /\ G \in SUBSET DOMAIN s /\ G # {}
    BY DEF SameContent
  <2> QED BY <2>1, EnrichedKeeps
<1>4. /\ n \in H /\ f \in OrderRecord
      /\ f.boid = t[n].boid /\ f.trade = t[n].trade /\ f.at = t[n].at /\ f.status = t[n].status
      /\ f.filled = t[n].filled /\ f.source = t[n].source
  <2>1. OrderList(t) /\ H \in SUBSET DOMAIN t /\ H # {}
    BY DEF SameContent
  <2> QED BY <2>1, EnrichedKeeps
<1>5. e.status = f.status
  BY <1>2, <1>3, <1>4, SameStatus
<1>6. PICK j \in H : s[m] = t[j]
  BY <1>3 DEF SameContent
<1>7. s[m].boid = t[n].boid /\ s[m].source = t[n].source
  BY <1>4, <1>6 DEF SameContent
<1>8. s[m].trade = t[n].trade /\ s[m].at = t[n].at
  BY <1>1, <1>4, <1>6 DEF Disagree
<1>9. e.cid = f.cid
  <2>1. \A i \in G : s[i].cid \in {0, e.cid}
    BY <1>1, AgreedOrder DEF SameContent
  <2>2. \A i \in H : t[i].cid \in {0, f.cid}
    BY <1>1, AgreedOrder DEF SameContent
  <2>3. \A c : c # 0 /\ c = e.cid => \E i \in G : s[i].cid = c
    BY ClientIdIsOne DEF SameContent
  <2>4. \A c : c # 0 /\ c = f.cid => \E i \in H : t[i].cid = c
    BY ClientIdIsOne DEF SameContent
  <2> HIDE DEF e, f
  <2>5. e.cid # 0 => f.cid = e.cid
    <3> SUFFICES ASSUME e.cid # 0 PROVE f.cid = e.cid
      OBVIOUS
    <3>1. PICK i \in G : s[i].cid = e.cid
      BY <2>3
    <3>2. PICK k \in H : s[i] = t[k]
      BY DEF SameContent
    <3> QED BY <2>2, <3>1, <3>2
  <2>6. f.cid # 0 => e.cid = f.cid
    <3> SUFFICES ASSUME f.cid # 0 PROVE e.cid = f.cid
      OBVIOUS
    <3>1. PICK i \in H : t[i].cid = f.cid
      BY <2>4
    <3>2. PICK k \in G : s[k] = t[i]
      BY DEF SameContent
    <3> QED BY <2>1, <3>1, <3>2
  <2> QED BY <2>5, <2>6
<1> HIDE DEF e, f, m, n
<1>10. (\E i \in G : s[i].status = e.status /\ s[i].filled = e.filled) /\ (\E i \in H : t[i].status = f.status /\ t[i].filled = f.filled)
  BY <1>3, <1>4
<1> QED
  BY <1>3, <1>4, <1>5, <1>7, <1>8, <1>9, <1>10 DEF e, f

LEMMA SameEnriched ==
    ASSUME NEW s, NEW G, NEW t, NEW H, SameContent(s, G, t, H),
           s[Representative(s, G)] = t[Representative(t, H)]
    PROVE  Enriched(s, G) = Enriched(t, H)
<1> DEFINE rep == t[Representative(t, H)]
           ids == {t[i].cid : i \in H} \ {0}
           carried == IF rep.cid = 0 /\ Cardinality(ids) = 1
                      THEN [rep EXCEPT !.cid = CHOOSE c \in ids : TRUE] ELSE rep
<1>1. {s[i].cid : i \in G} \ {0} = ids
  <2>1. {s[i].cid : i \in G} = {t[i].cid : i \in H}
    BY DEF SameContent
  <2> QED BY <2>1
<1>2. Enriched(s, G) = carried
  <2> DEFINE own == {s[i].cid : i \in G} \ {0}
  <2>1. Enriched(s, G) = IF s[Representative(s, G)].cid = 0 /\ Cardinality(own) = 1
                        THEN [s[Representative(s, G)] EXCEPT !.cid = CHOOSE c \in own : TRUE]
                        ELSE s[Representative(s, G)]
    BY DEF Enriched
  <2> HIDE DEF own
  <2>2. Enriched(s, G) = IF rep.cid = 0 /\ Cardinality(own) = 1
                        THEN [rep EXCEPT !.cid = CHOOSE c \in own : TRUE] ELSE rep
    BY <2>1
  <2>3. own = ids
    BY <1>1 DEF own
  <2> HIDE DEF rep, ids
  <2> QED BY <2>2, <2>3
<1>3. Enriched(t, H) = carried
  BY DEF Enriched
<1> QED
  BY <1>2, <1>3

LEMMA SameView ==
    ASSUME NEW s, NEW G, NEW t, NEW H, SameContent(s, G, t, H)
    PROVE  View(s, Handing(s, G)) = View(t, Handing(t, H))
<1> DEFINE v == Verdict(s, G)
           e == Enriched(s, G)
           f == Enriched(t, H)
           count == Cardinality(G)
           fillsS == {s[i].filled : i \in {j \in G : s[j].status = e.status}}
           fillsT == {t[i].filled : i \in {j \in H : t[j].status = f.status}}
<1>1. Verdict(t, H) = v /\ Cardinality(H) = count
  BY SameVerdict DEF SameContent
<1>2. View(s, Handing(s, G)) =
        [order |-> IF v = "progress" /\ Cardinality(fillsS) > 1 THEN [e EXCEPT !.filled = 0] ELSE e,
         count |-> count, verdict |-> v]
  BY DEF View, Handing
<1>3. View(t, Handing(t, H)) =
        [order |-> IF v = "progress" /\ Cardinality(fillsT) > 1 THEN [f EXCEPT !.filled = 0] ELSE f,
         count |-> count, verdict |-> v]
  BY <1>1 DEF View, Handing
<1>4. CASE v \in {"conflict", "unmapped"}
  <2>1. s[Representative(s, G)] = t[Representative(t, H)]
    BY <1>1, <1>4, SameFirst DEF Representative
  <2>2. e = f
    BY <2>1, SameEnriched
  <2> HIDE DEF v, e, f, count, fillsS, fillsT
  <2> QED BY <1>2, <1>3, <1>4, <2>2
<1>5. CASE v \notin {"conflict", "unmapped", "progress"}
  <2>1. Cardinality({s[i] : i \in G}) = 1
    BY <1>5 DEF Verdict
  <2>2. IsFiniteSet({s[i] : i \in G})
    <3> DEFINE g == [i \in G |-> s[i]]
    <3>1. g \in Surjection(G, {s[i] : i \in G})
      BY DEF Surjection
    <3>2. IsFiniteSet(G)
      BY FS_Subset DEF SameContent, OrderList
    <3> QED BY <3>1, <3>2, FS_Surjection
  <2>3. \A i, j \in G : s[i] = s[j]
    <3> TAKE i \in G, j \in G
    <3>1. s[i] \in {s[k] : k \in G} /\ s[j] \in {s[k] : k \in G}
      OBVIOUS
    <3> QED BY <2>1, <2>2, <3>1, OneAtMost
  <2>4. Representative(s, G) \in G /\ Representative(t, H) \in H
    BY RepresentativeIsOne DEF SameContent
  <2>5. s[Representative(s, G)] = t[Representative(t, H)]
    BY <2>3, <2>4 DEF SameContent
  <2>6. e = f
    BY <2>5, SameEnriched
  <2> HIDE DEF v, e, f, count, fillsS, fillsT
  <2> QED BY <1>2, <1>3, <1>5, <2>6
<1>6. CASE v = "progress"
  <2>1. /\ e \in OrderRecord /\ f \in OrderRecord
        /\ e.boid = f.boid /\ e.source = f.source /\ e.trade = f.trade /\ e.at = f.at
        /\ e.status = f.status /\ e.cid = f.cid
        /\ \E i \in G : s[i].status = e.status /\ s[i].filled = e.filled
        /\ \E j \in H : t[j].status = f.status /\ t[j].filled = f.filled
    BY <1>6, SameProgress
  <2> HIDE DEF v, e, f
  <2>2. fillsS = fillsT
    BY <2>1 DEF SameContent
  <2>3. e.filled \in fillsS /\ f.filled \in fillsT
    BY <2>1
  <2>4. CASE Cardinality(fillsS) > 1
    <3>1. [e EXCEPT !.filled = 0] = [f EXCEPT !.filled = 0]
      BY <2>1 DEF OrderRecord
    <3> HIDE DEF count, fillsS, fillsT
    <3> QED BY <1>2, <1>3, <1>6, <2>2, <2>4, <3>1
  <2>5. CASE ~(Cardinality(fillsS) > 1)
    <3>1. IsFiniteSet(fillsS)
      <4> DEFINE top == {j \in G : s[j].status = e.status}
                 g == [i \in top |-> s[i].filled]
      <4>1. g \in Surjection(top, fillsS)
        BY DEF Surjection
      <4>2. top \in SUBSET DOMAIN s /\ IsFiniteSet(DOMAIN s)
        BY DEF SameContent, OrderList
      <4>3. IsFiniteSet(top)
        BY <4>2, FS_Subset
      <4> HIDE DEF top, g
      <4> QED BY <4>1, <4>3, FS_Surjection
    <3> HIDE DEF count, fillsS, fillsT
    <3>2. Cardinality(fillsS) <= 1
      BY <2>5, <3>1, FS_CardinalityType
    <3>3. e.filled = f.filled
      BY <2>2, <2>3, <3>1, <3>2, OneAtMost
    <3>4. e = f
      BY <2>1, <3>3 DEF OrderRecord
    <3> QED BY <1>2, <1>3, <2>2, <2>5, <3>4
  <2> QED BY <2>4, <2>5
<1> QED
  BY <1>4, <1>5, <1>6

\* How often an order comes up in what is handed on.
TimesOf(records, v) == Cardinality({d \in Clean(records) : View(records, d) = v})

LEMMA HandedIs ==
    ASSUME NEW records
    PROVE  Handed(records) = {[view |-> View(records, c), times |-> TimesOf(records, View(records, c))] :
                                c \in Clean(records)}
BY Zenon DEF Handed, View, TimesOf

\* The records in another order, and their groups.
LEMMA Rearranged ==
    ASSUME NEW records, OrderList(records),
           NEW p \in [DOMAIN records -> DOMAIN records], IsInjective(p),
           NEW s, s = [i \in DOMAIN records |-> records[p[i]]]
    PROVE  /\ OrderList(s) /\ DOMAIN s = DOMAIN records
           /\ \A j \in DOMAIN records : \E i \in DOMAIN records : p[i] = j
           /\ \A i, j \in DOMAIN records : j \in GroupOf(s, i) <=> p[j] \in GroupOf(records, p[i])
           /\ \A i \in DOMAIN records : SameContent(s, GroupOf(s, i), records, GroupOf(records, p[i]))
<1> DEFINE D == DOMAIN records
<1>1. OrderList(s) /\ DOMAIN s = D
  BY DEF OrderList
<1>2. \A i, j \in D : p[i] = p[j] => i = j
  BY DEF IsInjective
<1>3. \A j \in D : \E i \in D : p[i] = j
  <2>1. p \in Injection(D, D)
    BY DEF Injection
  <2>2. IsFiniteSet(D)
    BY DEF OrderList
  <2>3. p \in Surjection(D, D)
    BY <2>1, <2>2, FS_Injection
  <2> QED BY <2>3 DEF Surjection
<1>4. \A i, j \in D : j \in GroupOf(s, i) <=> p[j] \in GroupOf(records, p[i])
  BY <1>1, <1>2 DEF GroupOf
<1>5. ASSUME NEW i \in D PROVE SameContent(s, GroupOf(s, i), records, GroupOf(records, p[i]))
  <2> DEFINE G == GroupOf(s, i)
             H == GroupOf(records, p[i])
  <2>1. /\ G \in SUBSET D /\ i \in G /\ H \in SUBSET D /\ p[i] \in H
    BY <1>1, GroupsAre
  <2>2. \A j \in D : j \in G <=> p[j] \in H
    BY <1>4
  <2>3. \A j, k \in H : records[j].boid = records[k].boid /\ records[j].source = records[k].source
    BY DEF GroupOf
  <2> HIDE DEF G, H
  <2>4. Cardinality(G) = Cardinality(H)
    <3> DEFINE f == [j \in G |-> p[j]]
    <3>1. f \in [G -> H]
      BY <2>1, <2>2
    <3>2. \A j, k \in G : f[j] = f[k] => j = k
      BY <1>2, <2>1
    <3>3. \A h \in H : \E j \in G : f[j] = h
      BY <1>3, <2>1, <2>2
    <3> HIDE DEF f
    <3>4. f \in Bijection(G, H)
      BY <3>1, <3>2, <3>3 DEF Bijection, Injection, Surjection, IsInjective
    <3>5. IsFiniteSet(G)
      BY <2>1, FS_Subset DEF OrderList
    <3> QED BY <3>4, <3>5, FS_Bijection DEF ExistsBijection
  <2>5. \A j \in G : \E k \in H : s[j] = records[k]
    BY <2>1, <2>2
  <2>6. \A k \in H : \E j \in G : s[j] = records[k]
    BY <1>3, <2>1, <2>2
  <2>7. SameContent(s, G, records, H)
    BY <1>1, <2>1, <2>3, <2>4, <2>5, <2>6 DEF SameContent
  <2> QED BY <2>7 DEF G, H
<1> QED
  BY <1>1, <1>3, <1>4, <1>5

LEMMA HandedAlike ==
    ASSUME NEW records, OrderList(records),
           NEW p \in [DOMAIN records -> DOMAIN records], IsInjective(p)
    PROVE  Handed([i \in DOMAIN records |-> records[p[i]]]) = Handed(records)
<1> DEFINE D == DOMAIN records
<1>0. PICK s : s = [i \in D |-> records[p[i]]]
  OBVIOUS
<1> DEFINE mine(i) == Handing(s, GroupOf(s, i))
           its(i) == Handing(records, GroupOf(records, i))
<1>1. /\ OrderList(s) /\ DOMAIN s = D
      /\ \A j \in D : \E i \in D : p[i] = j
      /\ \A i, j \in D : j \in GroupOf(s, i) <=> p[j] \in GroupOf(records, p[i])
      /\ \A i \in D : SameContent(s, GroupOf(s, i), records, GroupOf(records, p[i]))
  BY <1>0, Rearranged
<1>2. Clean(s) = {mine(i) : i \in D} /\ Clean(records) = {its(i) : i \in D}
  BY <1>1, HeldOnce
<1>3. \A i \in D : View(s, mine(i)) = View(records, its(p[i]))
  BY <1>1, SameView
<1>4. ASSUME NEW i \in D, NEW j \in D PROVE mine(i) = mine(j) <=> its(p[i]) = its(p[j])
  <2>1. /\ mine(i).of = GroupOf(s, i) /\ its(p[i]).of = GroupOf(records, p[i])
        /\ mine(j).of = GroupOf(s, j) /\ its(p[j]).of = GroupOf(records, p[j])
    BY DEF Handing
  <2>2. GroupOf(s, i) = GroupOf(s, j) <=> GroupOf(records, p[i]) = GroupOf(records, p[j])
    <3>1. GroupOf(s, i) = GroupOf(s, j) <=> j \in GroupOf(s, i)
      BY <1>1, GroupsAre
    <3>2. GroupOf(records, p[i]) = GroupOf(records, p[j]) <=> p[j] \in GroupOf(records, p[i])
      BY GroupsAre
    <3> QED BY <1>1, <3>1, <3>2
  <2> QED BY <2>1, <2>2
<1> HIDE DEF mine, its
<1>5. ASSUME NEW v PROVE TimesOf(s, v) = TimesOf(records, v)
  <2> DEFINE S == {d \in Clean(s) : View(s, d) = v}
             T == {d \in Clean(records) : View(records, d) = v}
             f == [d \in S |-> CHOOSE e \in T : \E i \in D : d = mine(i) /\ e = its(p[i])]
  <2>1. \A i \in D : mine(i) \in S => its(p[i]) \in T
    BY <1>2, <1>3
  <2>2. \A d \in S : \E i \in D : d = mine(i)
    BY <1>2
  <2>3. \A i \in D : mine(i) \in S => f[mine(i)] = its(p[i])
    BY <1>4, <2>1
  <2>4. f \in [S -> T]
    BY <2>1, <2>2, <2>3
  <2>5. ASSUME NEW d \in S, NEW e \in S, f[d] = f[e] PROVE d = e
    <3>1. PICK i \in D : d = mine(i)
      BY <2>2
    <3>2. PICK j \in D : e = mine(j)
      BY <2>2
    <3>3. f[d] = its(p[i]) /\ f[e] = its(p[j])
      BY <2>3, <3>1, <3>2
    <3> HIDE DEF f
    <3> QED BY <1>4, <2>5, <3>1, <3>2, <3>3
  <2>6. \A e \in T : \E d \in S : f[d] = e
    <3> SUFFICES ASSUME NEW e \in T PROVE \E d \in S : f[d] = e
      OBVIOUS
    <3>1. PICK j \in D : e = its(j)
      BY <1>2
    <3>2. PICK i \in D : p[i] = j
      BY <1>1
    <3>3. mine(i) \in S
      BY <1>2, <1>3, <3>1, <3>2
    <3> QED BY <2>3, <3>1, <3>2, <3>3
  <2>7. IsFiniteSet(Clean(s))
    <3> DEFINE g == [i \in D |-> mine(i)]
    <3>1. g \in Surjection(D, Clean(s))
      BY <1>2 DEF Surjection
    <3> QED BY <3>1, FS_Surjection DEF OrderList
  <2>8. IsFiniteSet(S)
    BY <2>7, FS_Subset
  <2> HIDE DEF f, S, T
  <2>9. f \in Bijection(S, T)
    BY <2>4, <2>5, <2>6 DEF Bijection, Injection, Surjection, IsInjective
  <2>10. Cardinality(T) = Cardinality(S)
    BY <2>8, <2>9, FS_Bijection DEF ExistsBijection
  <2> QED BY <2>10 DEF TimesOf, S, T
<1>6. ASSUME NEW x PROVE x \in Handed(s) <=> x \in Handed(records)
  <2> DEFINE told(v) == [view |-> v, times |-> TimesOf(records, v)]
  <2>1. Handed(s) = {[view |-> View(s, c), times |-> TimesOf(s, View(s, c))] : c \in Clean(s)}
    BY HandedIs
  <2>2. Handed(records) = {[view |-> View(records, c), times |-> TimesOf(records, View(records, c))] : c \in Clean(records)}
    BY HandedIs
  <2>3. x \in Handed(s) <=> \E i \in D : x = told(View(s, mine(i)))
    BY <1>2, <1>5, <2>1
  <2>4. x \in Handed(records) <=> \E j \in D : x = told(View(records, its(j)))
    BY <1>2, <2>2
  <2> HIDE DEF told
  <2> QED BY <1>1, <1>3, <2>3, <2>4
<1> QED
  BY <1>0, <1>6

\* Whatever the records of a file say, listing them in another order hands the
\* engine the same orders (normalize_ingested_orders).
THEOREM HandedOnInAnyOrder == RunSpec => []OrderIndependent
<1>1. FileInv => OrderIndependent
  <2> SUFFICES ASSUME FileInv, step = "reconcile", ~window.api,
                      NEW p \in [DOMAIN raw -> DOMAIN raw], IsInjective(p)
               PROVE  Handed([i \in DOMAIN raw |-> raw[p[i]]]) = Handed(raw)
    BY DEF OrderIndependent
  <2>1. OrderList(raw)
    BY DEF FileInv
  <2> QED BY <2>1, HandedAlike
<1> QED
  BY <1>1, FileSafety, PTL

-----------------------------------------------------------------------------
(* A run on the broker's orders: why a claim is left without one.          *)

FullRows ==
    [status : {"PENDING", "COMMITTED"}, key : Keys \cup {"order"}, lacks : {{}}, trade : Request,
     bar : Times, created : Times, said : {"SUCCESS"}, result : {0, Unreadable} \cup Request]
Rows  == {NoRow} \cup FullRows
Books == {NoOrder} \cup [status : {"new"}, at : Times, lacks : SUBSET {"trade"}]
Snapshots ==
    [boid : Request, cid : {0}, trade : Request, at : Times, status : {"new"}, filled : {0},
     source : {0}, lacks : SUBSET {"trade"}]

\* A row names its request, an order is no earlier than its bar.
WorldOk ==
    /\ now \in Times
    /\ table \in [Request -> Rows] /\ book \in [Request -> Books]
    /\ \A r \in Request : table[r] # NoRow =>
          /\ table[r].trade = r /\ table[r].created = table[r].bar /\ table[r].bar <= now
          /\ table[r].result \in {0, Unreadable, r}
    /\ \A r \in Request : book[r] # NoOrder => table[r] # NoRow /\ table[r].bar <= book[r].at

\* A claim is its row's, and the rows that should be claims are.
ClaimsOk ==
    /\ \A r \in Request : kept[r] # NoClaim =>
          /\ table[r] # NoRow /\ kept[r].trade = r /\ kept[r].at = table[r].bar
          /\ kept[r].boid \in {0, r}
    /\ \A r \in had.rows :
          /\ r \in Request /\ table[r] # NoRow
          /\ table[r].key = "order" /\ table[r].bar \in window.after..window.until => kept[r] # NoClaim

\* A record read is an order of the broker's.
RawOk ==
    /\ raw \in Seq(Snapshots)
    /\ \A i \in DOMAIN raw :
          /\ book[raw[i].boid] # NoOrder /\ raw[i].trade = raw[i].boid
          /\ raw[i].at = book[raw[i].boid].at /\ raw[i].lacks = book[raw[i].boid].lacks

\* Others fill a page at an instant no earlier than this order's.
Crowded(r) ==
    \E t \in book[r].at..MaxTime :
        Cardinality({s \in Request \ {r} : book[s] # NoOrder /\ book[s].at = t}) >= MaxPageSize

\* What is not seen yet lies where the next page ends or before, what is seen
\* no earlier; in the end what is not seen was crowded out.
PagesOk ==
    /\ had = [rows |-> had.rows, orders |-> had.orders]
    /\ \A r \in had.orders : r \in Request /\ book[r] # NoOrder
    /\ page = [read |-> page.read, limit |-> page.limit, until |-> page.until] /\ page.until \in Int
    /\ step \in {"arguments", "claims", "orders"} => raw = <<>> /\ page.until = window.until
    /\ step = "pages" =>
          /\ \A r \in had.orders : book[r].at \in window.after..window.until =>
                r \in Seen \/ book[r].at <= page.until
          /\ \A r \in Seen : page.until <= book[r].at
    /\ step \in {"reconcile", "reports", "exit 0"} =>
          \A r \in had.orders : book[r].at \in window.after..window.until => r \in Seen \/ Crowded(r)

FoundOk ==
    step \in {"reports", "exit 0"} =>
        \A x : <<"UNRECORDED_INTERNALLY", x>> \in found =>
            \E o \in Orders : o.trade = x /\ \A r \in Claimed : ~Matches(kept[r], o)

\* The inductive invariant of a run on the broker's orders.
ApiInv ==
    window.api =>
        /\ window.after \in Int /\ window.until \in Int
        /\ WorldOk /\ ClaimsOk /\ RawOk /\ PagesOk /\ FoundOk

\* Rows keep what they say of a request, orders stay as they are.
Grows ==
    /\ \A r \in Request : table[r] # NoRow =>
          table'[r] # NoRow /\ table'[r].key = table[r].key /\ table'[r].bar = table[r].bar
    /\ \A r \in Request : book[r] # NoOrder => book'[r] = book[r]

LEMMA RowsAreRows == \A row \in Rows : row # NoRow <=> row \in FullRows
BY DEF Rows, NoRow, FullRows

LEMMA TimesAreNumbers == \A t \in Times : t \in Nat /\ t \in Int
BY RunAssumption DEF Times

LEMMA WorldGrows ==
    ASSUME WorldOk, World PROVE WorldOk' /\ Grows
<1> USE DEF WorldOk, Grows
<1>1. CASE Tick
  <2>1. now' \in Times /\ now <= now'
    BY <1>1, RunAssumption DEF Tick, Times
  <2>2. \A r \in Request : table[r] # NoRow => table[r].bar \in Int
    BY RowsAreRows, RunAssumption DEF Times, FullRows
  <2>3. now \in Int /\ now' \in Int
    BY <2>1, RunAssumption DEF Times
  <2> QED BY <1>1, <2>1, <2>2, <2>3 DEF Tick
<1>2. ASSUME NEW r \in Request, NEW key \in Keys \cup {"order"}, BotClaims(r, key)
      PROVE  WorldOk' /\ Grows
  <2> DEFINE row == Row(key, r, now)
  <2>1. row \in Rows /\ row # NoRow
    BY DEF Row, Rows, NoRow, FullRows
  <2>2. row.trade = r /\ row.created = row.bar /\ row.bar = now /\ row.result = 0
    BY DEF Row
  <2> HIDE DEF row
  <2>3. /\ table[r] = NoRow /\ now' = now /\ book' = book
        /\ table' = [table EXCEPT ![r] = row]
    BY <1>2 DEF BotClaims, row
  <2>4. now <= now
    BY RunAssumption DEF Times
  <2>5. table'[r] = row /\ \A q \in Request \ {r} : table'[q] = table[q]
    BY <2>3
  <2>6. table' \in [Request -> Rows]
    BY <2>1, <2>3
  <2> QED BY <2>1, <2>2, <2>3, <2>4, <2>5, <2>6
<1>3. ASSUME NEW r \in Request, NEW lacks \in SUBSET {"trade"}, BotSends(r, lacks)
      PROVE  WorldOk' /\ Grows
  <2> DEFINE order == [status |-> "new", at |-> now, lacks |-> lacks]
  <2>1. order \in Books /\ order # NoOrder /\ order.at = now
    BY DEF Books, NoOrder
  <2> HIDE DEF order
  <2>2. /\ table[r].status = "PENDING" /\ book[r] = NoOrder /\ now' = now /\ table' = table
        /\ book' = [book EXCEPT ![r] = order]
    BY <1>3 DEF BotSends, order
  <2>3. book'[r] = order /\ \A q \in Request \ {r} : book'[q] = book[q]
    BY <2>2
  <2>4. book' \in [Request -> Books]
    BY <2>1, <2>2
  <2>5. table[r] # NoRow
    BY <2>2 DEF NoRow
  <2> QED BY <2>1, <2>2, <2>3, <2>4, <2>5
<1>4. ASSUME NEW r \in Request, NEW result \in {Unreadable, r}, BotCommits(r, result)
      PROVE  WorldOk' /\ Grows
  <2> DEFINE row == [table[r] EXCEPT !.status = "COMMITTED", !.result = result]
  <2>1. /\ table[r] # NoRow /\ book[r] # NoOrder /\ now' = now /\ book' = book
        /\ table' = [table EXCEPT ![r] = row]
    BY <1>4 DEF BotCommits, NoRow
  <2>2. /\ row \in Rows /\ row # NoRow /\ row.trade = table[r].trade /\ row.created = table[r].created
        /\ row.bar = table[r].bar /\ row.key = table[r].key /\ row.result = result
    <3>1. table[r] \in FullRows
      BY <2>1, RowsAreRows
    <3>2. row \in FullRows
      BY <3>1 DEF FullRows
    <3>3. row \in Rows /\ row # NoRow
      <4> HIDE DEF row
      <4> QED BY <3>2, RowsAreRows DEF Rows
    <3> QED BY <3>1, <3>3 DEF FullRows
  <2> HIDE DEF row
  <2>3. table'[r] = row /\ \A q \in Request \ {r} : table'[q] = table[q]
    BY <2>1
  <2>4. table' \in [Request -> Rows]
    BY <2>1, <2>2
  <2> QED BY <2>1, <2>2, <2>3, <2>4
<1> QED
  BY <1>1, <1>2, <1>3, <1>4 DEF World

LEMMA WorldKeeps ==
    ASSUME WorldOk, ClaimsOk, RawOk, PagesOk, World
    PROVE  WorldOk' /\ ClaimsOk' /\ RawOk' /\ PagesOk' /\ FoundOk'
<1>1. WorldOk' /\ Grows
  BY WorldGrows
<1>2. /\ window' = window /\ step' = step /\ kept' = kept /\ had' = had /\ page' = page /\ raw' = raw
      /\ step \in {"claims", "orders", "pages"}
  BY DEF World
<1>3. ClaimsOk'
  BY <1>1, <1>2 DEF ClaimsOk, Grows
<1>4. \A i \in DOMAIN raw : raw[i].boid \in Request
  <2>1. \A x \in Snapshots : x.boid \in Request
    BY DEF Snapshots
  <2> QED BY <2>1 DEF RawOk
<1>5. RawOk'
  BY <1>1, <1>2, <1>4 DEF RawOk, Grows
<1>6. Seen' = Seen /\ Seen \subseteq Request
  BY <1>2, <1>4 DEF Seen
<1>7. \A r \in Seen : book[r] # NoOrder
  BY DEF Seen, RawOk
<1>8. PagesOk'
  BY <1>1, <1>2, <1>6, <1>7 DEF PagesOk, Grows
<1>9. FoundOk'
  BY <1>2 DEF FoundOk
<1> QED
  BY <1>1, <1>3, <1>5, <1>8, <1>9

\* The claims that are read.
LEMMA ReadingKeeps ==
    ASSUME window.api, WorldOk, RawOk, PagesOk, ReadClaims,
           ClaimsOk
    PROVE  ClaimsOk' /\ PagesOk' /\ FoundOk'
<1>1. CASE kept' # kept \/ had' # had
  <2>1. /\ kept' = [r \in Request |->
                       LET c == ClaimOf(table[r], Interpretation(log, table[r])) IN
                       IF table[r] # NoRow /\ IsClaim(table[r]) /\ InWindow(c) THEN c ELSE NoClaim]
        /\ had' = [had EXCEPT !.rows = {r \in Request : table[r] # NoRow}]
        /\ step' = "orders" /\ page' = page /\ raw' = raw
        /\ table' = table /\ book' = book /\ window' = window /\ step = "claims"
    BY <1>1 DEF ReadClaims, End, world
  <2>2. had'.rows = {r \in Request : table[r] # NoRow} /\ had'.orders = had.orders
        /\ had' = [rows |-> had'.rows, orders |-> had'.orders]
    BY <2>1 DEF PagesOk
  <2>3. ASSUME NEW r \in Request, table[r] # NoRow
        PROVE  LET c == ClaimOf(table[r], Interpretation(log, table[r])) IN
               /\ c.trade = r /\ c.at = table[r].bar /\ c.boid \in {0, r}
               /\ table[r].key = "order" => c.aware /\ IsClaim(table[r])
               /\ c # NoClaim
    <3>1. table[r] \in FullRows /\ table[r].trade = r /\ table[r].created = table[r].bar
          /\ table[r].result \in {0, Unreadable, r}
      BY <2>3, RowsAreRows DEF WorldOk
    <3>2. table[r].lacks = {}
      BY <3>1 DEF FullRows
    <3>3. r # 0
      BY RunAssumption
    <3>4. ResultOf(table[r]) \in {0, r}
      BY <3>1 DEF ResultOf
    <3> QED BY <3>1, <3>2, <3>3, <3>4 DEF ClaimOf, IsClaim, NoClaim
  <2>4. ASSUME NEW r \in Request, kept'[r] # NoClaim
        PROVE  /\ table[r] # NoRow /\ kept'[r].trade = r /\ kept'[r].at = table[r].bar
               /\ kept'[r].boid \in {0, r}
    <3>1. table[r] # NoRow /\ kept'[r] = ClaimOf(table[r], Interpretation(log, table[r]))
      BY <2>1, <2>4
    <3> QED BY <2>3, <3>1
  <2>5. ASSUME NEW r \in Request, table[r] # NoRow, table[r].key = "order",
               table[r].bar \in window.after..window.until
        PROVE  kept'[r] # NoClaim
    <3> DEFINE c == ClaimOf(table[r], Interpretation(log, table[r]))
    <3>1. c.at = table[r].bar /\ c.aware /\ IsClaim(table[r]) /\ c # NoClaim
      BY <2>3, <2>5
    <3>2. kept'[r] = IF table[r] # NoRow /\ IsClaim(table[r]) /\ InWindow(c) THEN c ELSE NoClaim
      BY <2>1
    <3> HIDE DEF c
    <3>3. InWindow(c)
      BY <2>5, <3>1 DEF InWindow
    <3> QED BY <2>5, <3>1, <3>2, <3>3
  <2>6. ClaimsOk'
    BY <2>1, <2>2, <2>4, <2>5 DEF ClaimsOk
  <2>7. PagesOk'
    BY <2>1, <2>2 DEF PagesOk
  <2>8. FoundOk'
    BY <2>1 DEF FoundOk
  <2> QED BY <2>6, <2>7, <2>8
<1>2. CASE kept' = kept /\ had' = had
  <2>1. step' \in {"orders", "exit 1"} /\ step = "claims" /\ page' = page /\ raw' = raw
        /\ table' = table /\ book' = book /\ window' = window
    BY DEF ReadClaims, End, world
  <2>2. ClaimsOk'
    BY <1>2, <2>1 DEF ClaimsOk
  <2>3. PagesOk'
    BY <1>2, <2>1 DEF PagesOk
  <2>4. FoundOk'
    BY <2>1 DEF FoundOk
  <2> QED BY <2>2, <2>3, <2>4
<1> QED
  BY <1>1, <1>2

LEMMA ConnectingKeeps ==
    ASSUME window.api, WorldOk, ClaimsOk, RawOk, PagesOk, Connect
    PROVE  ClaimsOk' /\ PagesOk' /\ FoundOk'
<1>1. CASE End("exit 1")
  <2>1. /\ step' = "exit 1" /\ kept' = kept /\ had' = had /\ page' = page /\ raw' = raw
        /\ table' = table /\ book' = book /\ window' = window
    BY <1>1 DEF Connect, End, world
  <2> QED BY <2>1 DEF ClaimsOk, PagesOk, FoundOk
<1>2. CASE ~End("exit 1")
  <2>1. PICK limit \in MaxPages : page' = [page EXCEPT !.limit = limit]
    BY <1>2 DEF Connect
  <2>2. /\ step = "orders" /\ step' = "pages" /\ kept' = kept /\ raw' = raw
        /\ had' = [had EXCEPT !.orders = {r \in Request : book[r] # NoOrder}]
        /\ table' = table /\ book' = book /\ window' = window
    BY <1>2 DEF Connect, world
  <2>3. /\ had'.rows = had.rows /\ had'.orders = {r \in Request : book[r] # NoOrder}
        /\ had' = [rows |-> had'.rows, orders |-> had'.orders]
    BY <2>2 DEF PagesOk
  <2>4. /\ page'.until = page.until /\ page' = [read |-> page'.read, limit |-> page'.limit, until |-> page'.until]
        /\ page.until \in Int /\ page.until = window.until /\ raw = <<>>
    BY <2>1, <2>2 DEF PagesOk
  <2>5. Seen' = {}
    BY <2>2, <2>4 DEF Seen
  <2>6. PagesOk'
    BY <2>2, <2>3, <2>4, <2>5 DEF PagesOk
  <2>7. ClaimsOk' /\ FoundOk'
    BY <2>2, <2>3 DEF ClaimsOk, FoundOk
  <2> QED BY <2>6, <2>7
<1> QED
  BY <1>1, <1>2

\* SetToSeq lists all of a finite set.
LEMMA SetInOrder ==
    ASSUME NEW S, IsFiniteSet(S)
    PROVE  /\ Cardinality(S) \in Nat /\ SetToSeq(S) \in [1..Cardinality(S) -> S]
           /\ \A x \in S : \E i \in 1..Cardinality(S) : SetToSeq(S)[i] = x
<1> DEFINE n == Cardinality(S)
           q == SetToSeq(S)
<1>1. n \in Nat /\ ExistsBijection(1..n, S)
  BY FS_CardinalityType
<1>2. PICK f \in [1..n -> S] : IsInjective(f)
  BY <1>1 DEF ExistsBijection, Bijection, Injection
<1>3. q \in [1..n -> S] /\ IsInjective(q)
  BY <1>2 DEF SetToSeq
<1>4. IsFiniteSet(1..n) /\ Cardinality(1..n) = n
  BY <1>1, FS_Interval
<1>5. q \in Injection(1..n, S)
  BY <1>3 DEF Injection
<1> HIDE DEF q
<1>6. q \in Surjection(1..n, S)
  BY <1>4, <1>5, FS_Injection
<1>7. \A x \in S : \E i \in 1..n : q[i] = x
  BY <1>6 DEF Surjection
<1> QED
  BY <1>1, <1>3, <1>7 DEF q

LEMMA RecordsOfOrders ==
    ASSUME WorldOk, NEW S \in SUBSET Request, \A r \in S : book[r] # NoOrder
    PROVE  /\ Records(S) \in Seq(Snapshots)
           /\ \A i \in DOMAIN Records(S) : \E r \in S : Records(S)[i] = Snapshot(r)
           /\ \A r \in S : \E i \in DOMAIN Records(S) : Records(S)[i] = Snapshot(r)
<1> DEFINE n == Cardinality(S)
           q == SetToSeq(S)
<1>1. IsFiniteSet(S)
  BY RunAssumption, FS_Subset
<1>2. n \in Nat /\ q \in [1..n -> S] /\ \A x \in S : \E i \in 1..n : q[i] = x
  BY <1>1, SetInOrder
<1>3. Records(S) = [i \in 1..n |-> Snapshot(q[i])]
  <2> HIDE DEF n
  <2>1. DOMAIN q = 1..n
    BY <1>2
  <2> QED BY <2>1 DEF Records
<1>4. \A r \in S : Snapshot(r) \in Snapshots
  BY DEF WorldOk, Snapshot, Snapshots, Books, NoOrder
<1> HIDE DEF n, q
<1>5. Records(S) \in Seq(Snapshots) /\ DOMAIN Records(S) = 1..n
  <2>1. Records(S) \in [1..n -> Snapshots]
    BY <1>2, <1>3, <1>4
  <2> QED BY <1>2, <2>1
<1> QED
  BY <1>2, <1>3, <1>5

\* What a page adds to what has been seen.
LEMMA PageIsAdded ==
    ASSUME WorldOk, RawOk, NEW S \in SUBSET Request, \A r \in S : book[r] # NoOrder,
           raw' = raw \o Records(S), book' = book
    PROVE  RawOk' /\ Seen' = Seen \cup S
<1> DEFINE new == Records(S)
<1>1. /\ new \in Seq(Snapshots)
      /\ \A i \in DOMAIN new : \E r \in S : new[i] = Snapshot(r)
      /\ \A r \in S : \E i \in DOMAIN new : new[i] = Snapshot(r)
  BY RecordsOfOrders
<1>2. raw \in Seq(Snapshots)
  BY DEF RawOk
<1> HIDE DEF new
<1>3. /\ Len(raw) \in Nat /\ Len(new) \in Nat /\ DOMAIN raw = 1..Len(raw) /\ DOMAIN new = 1..Len(new)
  BY <1>1, <1>2, LenProperties
<1>4. /\ raw' \in Seq(Snapshots) /\ DOMAIN raw' = 1..(Len(raw) + Len(new))
      /\ \A i \in 1..(Len(raw) + Len(new)) : raw'[i] = IF i <= Len(raw) THEN raw[i] ELSE new[i - Len(raw)]
  <2>1. raw' = raw \o new
    BY DEF new
  <2> QED BY <1>1, <1>2, <1>3, <2>1, ConcatProperties, LenProperties
<1>5. \A r : LET s == Snapshot(r) IN s.boid = r /\ s.trade = r /\ s.at = book[r].at /\ s.lacks = book[r].lacks
  BY DEF Snapshot
<1>6. \A i \in DOMAIN raw' : (i \in DOMAIN raw /\ raw'[i] = raw[i]) \/ \E r \in S : raw'[i] = Snapshot(r)
  <2> TAKE i \in DOMAIN raw'
  <2>1. CASE i <= Len(raw)
    BY <1>3, <1>4, <2>1
  <2>2. CASE ~(i <= Len(raw))
    <3>1. i - Len(raw) \in DOMAIN new /\ raw'[i] = new[i - Len(raw)]
      BY <1>3, <1>4, <2>2
    <3> QED BY <1>1, <3>1
  <2> QED BY <2>1, <2>2
<1>7. RawOk'
  <2> SUFFICES ASSUME NEW i \in DOMAIN raw'
               PROVE  /\ book[raw'[i].boid] # NoOrder /\ raw'[i].trade = raw'[i].boid
                      /\ raw'[i].at = book[raw'[i].boid].at /\ raw'[i].lacks = book[raw'[i].boid].lacks
    BY <1>4 DEF RawOk
  <2>1. CASE i \in DOMAIN raw /\ raw'[i] = raw[i]
    BY <2>1 DEF RawOk
  <2>2. ASSUME NEW r \in S, raw'[i] = Snapshot(r)
        PROVE  /\ book[raw'[i].boid] # NoOrder /\ raw'[i].trade = raw'[i].boid
               /\ raw'[i].at = book[raw'[i].boid].at /\ raw'[i].lacks = book[raw'[i].boid].lacks
    BY <1>5, <2>2
  <2> QED BY <1>6, <2>1, <2>2
<1>8. ASSUME NEW r PROVE r \in Seen' <=> r \in Seen \/ r \in S
  <2>1. r \in Seen' => r \in Seen \/ r \in S
    BY <1>5, <1>6 DEF Seen
  <2>2. ASSUME r \in Seen PROVE r \in Seen'
    <3>1. PICK i \in DOMAIN raw : r = raw[i].boid
      BY <2>2 DEF Seen
    <3>2. i \in DOMAIN raw' /\ raw'[i] = raw[i]
      BY <1>3, <1>4
    <3> QED BY <3>1, <3>2 DEF Seen
  <2>3. ASSUME r \in S PROVE r \in Seen'
    <3>1. PICK i \in DOMAIN new : new[i] = Snapshot(r)
      BY <1>1, <2>3
    <3>2. Len(raw) + i \in DOMAIN raw' /\ raw'[Len(raw) + i] = new[i]
      BY <1>3, <1>4
    <3> QED BY <1>5, <3>1, <3>2 DEF Seen
  <2> QED BY <2>1, <2>2, <2>3
<1> QED
  BY <1>7, <1>8

\* The orders a page could hold, and what a page has to be.
There == {r \in Request : book[r] # NoOrder /\ book[r].at \in window.after..page.until}

LEMMA PageIs ==
    ASSUME WorldOk, NEW P \in Pages
    PROVE  /\ P \subseteq There /\ IsFiniteSet(There) /\ IsFiniteSet(P) /\ Cardinality(P) \in Nat
           /\ Cardinality(P) < MaxPageSize => P = There
           /\ \A r \in P, s \in There \ P : book[s].at <= book[r].at
           /\ Cardinality(P) <= MaxPageSize
<1>1. /\ P \in SUBSET There
      /\ Cardinality(P) = IF Cardinality(There) < MaxPageSize THEN Cardinality(There) ELSE MaxPageSize
      /\ \A r \in P, s \in There \ P : book[s].at <= book[r].at
  BY DEF Pages, There
<1>2. IsFiniteSet(There)
  BY RunAssumption, FS_Subset DEF There
<1>3. IsFiniteSet(P) /\ Cardinality(P) \in Nat /\ Cardinality(There) \in Nat
  BY <1>1, <1>2, FS_Subset, FS_CardinalityType
<1>4. Cardinality(P) < MaxPageSize => P = There
  <2>1. Cardinality(P) < MaxPageSize => Cardinality(P) = Cardinality(There)
    BY <1>1, <1>3, RunAssumption
  <2> QED BY <1>1, <1>2, <2>1, FS_Subset
<1>5. Cardinality(P) <= MaxPageSize
  BY <1>1, <1>3, RunAssumption
<1> QED
  BY <1>1, <1>2, <1>3, <1>4, <1>5

LEMMA EarliestIs ==
    ASSUME WorldOk, NEW S \in SUBSET Request, S # {}, \A r \in S : book[r] # NoOrder
    PROVE  /\ Earliest(S) \in Times /\ \E r \in S : book[r].at = Earliest(S)
           /\ \A r \in S : Earliest(S) <= book[r].at
<1> DEFINE T == {book[r].at : r \in S}
<1>1. \A r \in S : book[r].at \in Times
  BY DEF WorldOk, Books, NoOrder
<1>2. T \in SUBSET Nat /\ T # {}
  <2>1. Times \subseteq Nat
    BY RunAssumption DEF Times
  <2>2. \A t \in T : t \in Nat
    BY <1>1, <2>1
  <2>3. T # {}
    OBVIOUS
  <2> HIDE DEF T
  <2> QED BY <2>2, <2>3
<1>3. PICK t \in T : \A u \in T : t <= u
  <2> HIDE DEF T
  <2> QED BY <1>2, Smallest
<1>4. t \in Times /\ (\E r \in S : book[r].at = t) /\ \A r \in S : t <= book[r].at
  BY <1>1, <1>3
<1> QED
  BY <1>4 DEF Earliest

\* A page read, be it the last or not.
LEMMA PageKeeps ==
    ASSUME window.api, window.after \in Int, window.until \in Int,
           WorldOk, ClaimsOk, RawOk, PagesOk, FetchPage
    PROVE  ClaimsOk' /\ RawOk' /\ PagesOk' /\ FoundOk'
<1>1. step = "pages" /\ table' = table /\ book' = book /\ window' = window /\ now' = now
  BY DEF FetchPage, world
<1>2. CASE End("exit 1")
  <2>1. step' = "exit 1" /\ kept' = kept /\ had' = had /\ page' = page /\ raw' = raw
    BY <1>2 DEF End
  <2> QED BY <1>1, <2>1 DEF ClaimsOk, RawOk, PagesOk, FoundOk
<1>3. CASE ~End("exit 1")
  <2>1. PICK P \in Pages :
          LET new  == {r \in P : r \notin Seen}
              last == Cardinality(P) < MaxPageSize \/ new = {}
          IN
          /\ raw' = raw \o Records(new)
          /\ step' = IF last THEN "reconcile" ELSE IF page.read + 1 = page.limit THEN "exit 1" ELSE "pages"
          /\ page' = [page EXCEPT !.read = @ + 1, !.until = IF last THEN @ ELSE Earliest(new)]
          /\ UNCHANGED <<kept, had, found>>
    BY <1>3 DEF FetchPage
  <2> DEFINE new == {r \in P : r \notin Seen}
             last == Cardinality(P) < MaxPageSize \/ new = {}
  <2>2. P \subseteq There /\ new \in SUBSET Request /\ \A r \in new : book[r] # NoOrder
    BY PageIs DEF There
  <2>3. RawOk' /\ Seen' = Seen \cup new
    BY <1>1, <2>1, <2>2, PageIsAdded
  <2>4. Seen' = Seen \cup P
    BY <2>3
  <2>5. /\ page' = [read |-> page'.read, limit |-> page'.limit, until |-> page'.until]
        /\ page'.until = IF last THEN page.until ELSE Earliest(new)
        /\ page.until \in Int
    <3> HIDE DEF new
    <3> QED BY <2>1 DEF PagesOk, new
  <2>6. /\ step' = IF last THEN "reconcile" ELSE IF page.read + 1 = page.limit THEN "exit 1" ELSE "pages"
        /\ kept' = kept /\ had' = had
    BY <2>1
  <2>7. ClaimsOk' /\ FoundOk'
    BY <1>1, <2>6 DEF ClaimsOk, FoundOk
  <2>8. \A r \in Request : book[r] # NoOrder => book[r].at \in Times /\ book[r].at \in Int
    BY RunAssumption DEF WorldOk, Books, NoOrder, Times
  <2>9. /\ had = [rows |-> had.rows, orders |-> had.orders]
        /\ \A r \in had.orders : r \in Request /\ book[r] # NoOrder
        /\ \A r \in had.orders : book[r].at \in window.after..window.until => r \in Seen \/ book[r].at <= page.until
        /\ \A r \in Seen : page.until <= book[r].at
    BY <1>1 DEF PagesOk
  <2>10. \A r \in had.orders : book[r].at \in window.after..window.until /\ r \notin Seen => r \in There
    BY <2>5, <2>8, <2>9 DEF There
  <2>11. \A r \in Seen : r \in Request /\ book[r] # NoOrder
    <3>1. \A x \in Snapshots : x.boid \in Request
      BY DEF Snapshots
    <3> QED BY <3>1 DEF Seen, RawOk
  <2>12. CASE last /\ Cardinality(P) < MaxPageSize
    <3>1. \A r \in had.orders : book[r].at \in window.after..window.until => r \in Seen'
      BY <2>4, <2>10, <2>12, PageIs
    <3>2. step' = "reconcile" /\ page'.until = page.until
      BY <2>5, <2>6, <2>12
    <3> HIDE DEF new, last
    <3>3. PagesOk'
      BY <1>1, <2>5, <2>6, <2>9, <3>1, <3>2 DEF PagesOk
    <3> QED BY <2>3, <2>7, <3>3
  <2>13. CASE last /\ ~(Cardinality(P) < MaxPageSize)
    <3>1. P \subseteq Seen
      BY <2>13
    <3>2. \A r \in P : book[r].at = page.until
      <4>1. \A r \in P : page.until <= book[r].at
        BY <2>9, <3>1
      <4>2. \A r \in P : book[r].at \in window.after..page.until
        BY <2>2 DEF There
      <4> QED BY <2>5, <4>1, <4>2
    <3>3. Cardinality(P) >= MaxPageSize /\ P # {}
      <4>1. Cardinality(P) \in Nat /\ MaxPageSize \in Nat \ {0}
        BY PageIs, RunAssumption
      <4>2. P = {} => Cardinality(P) = 0
        BY FS_EmptySet
      <4> QED BY <2>13, <4>1, <4>2
    <3>4. ASSUME NEW r \in had.orders, book[r].at \in window.after..window.until, r \notin Seen
          PROVE  Crowded(r)
      <4>1. PICK q \in P : TRUE
        BY <3>3
      <4>2. book[q].at = page.until /\ q \in Request /\ book[q].at \in Times
        BY <2>2, <2>8, <3>2 DEF There
      <4>3. page.until \in book[r].at..MaxTime
        BY <2>8, <2>9, <3>4, <4>2, RunAssumption DEF Times
      <4> DEFINE crowd == {s \in Request \ {r} : book[s] # NoOrder /\ book[s].at = page.until}
      <4>4. P \subseteq crowd
        BY <2>2, <3>1, <3>2, <3>4 DEF There
      <4>5. IsFiniteSet(crowd)
        <5>1. crowd \in SUBSET Request
          OBVIOUS
        <5> QED BY <5>1, RunAssumption, FS_Subset
      <4>6. Cardinality(crowd) >= MaxPageSize
        <5> HIDE DEF crowd
        <5>1. Cardinality(P) <= Cardinality(crowd)
          BY <4>4, <4>5, FS_Subset
        <5>2. Cardinality(crowd) \in Nat /\ Cardinality(P) \in Nat /\ MaxPageSize \in Nat
          BY <4>5, PageIs, FS_CardinalityType, RunAssumption
        <5> QED BY <3>3, <5>1, <5>2
      <4> QED BY <4>3, <4>6 DEF Crowded
    <3>5. step' = "reconcile" /\ page'.until = page.until
      BY <2>5, <2>6, <2>13
    <3>6. \A r \in had.orders : book[r].at \in window.after..window.until => r \in Seen' \/ Crowded(r)'
      BY <1>1, <2>4, <3>4 DEF Crowded
    <3> HIDE DEF new, last
    <3>7. PagesOk'
      BY <1>1, <2>5, <2>6, <2>9, <3>5, <3>6 DEF PagesOk
    <3> QED BY <2>3, <2>7, <3>7
  <2>14. CASE ~last
    <3>1. /\ Earliest(new) \in Times /\ (\E r \in new : book[r].at = Earliest(new))
          /\ \A r \in new : Earliest(new) <= book[r].at
      BY <2>2, <2>14, EarliestIs
    <3> DEFINE u == Earliest(new)
    <3>2. page'.until = u /\ u \in Int
      BY <2>5, <2>14, <3>1, RunAssumption DEF Times
    <3>3. u <= page.until
      BY <2>2, <2>5, <3>1, <3>2 DEF There
    <3>4. \A r \in Seen' : u <= book[r].at
      <4>1. \A r \in Seen : u <= book[r].at
        BY <2>5, <2>8, <2>9, <2>11, <3>2, <3>3
      <4> QED BY <2>3, <3>1, <4>1
    <3>5. ASSUME NEW r \in had.orders, book[r].at \in window.after..window.until, r \notin Seen'
          PROVE  book[r].at <= u
      <4>1. r \in There \ P
        BY <2>4, <2>10, <3>5
      <4>2. PICK q \in new : book[q].at = u
        BY <3>1
      <4> QED BY <4>1, <4>2, PageIs
    <3> HIDE DEF new, last, u
    <3>6. step' \in {"pages", "exit 1"}
      BY <2>6, <2>14
    <3>7. PagesOk'
      BY <1>1, <2>5, <2>6, <2>9, <3>2, <3>4, <3>5, <3>6 DEF PagesOk
    <3> QED BY <2>3, <2>7, <3>7
  <2> QED BY <2>12, <2>13, <2>14
<1> QED
  BY <1>2, <1>3

-----------------------------------------------------------------------------
(* What the engine is given, and what it makes of it.                      *)

\* The orders handed on are the broker's, and every order seen that has a
\* quantity is one.
LEMMA OrdersAreTheBrokers ==
    ASSUME window.api, WorldOk, RawOk
    PROVE  /\ \A o \in Orders : /\ o.boid \in Request /\ o.trade = o.boid
                                /\ book[o.boid] # NoOrder /\ o.at = book[o.boid].at
           /\ \A r \in Seen : book[r].lacks = {} => \E o \in Orders : o.boid = r
<1> DEFINE A == Accepted(ApiRequires, raw)
<1>1. \A i \in DOMAIN raw : raw[i] \in Snapshots
  BY DEF RawOk
<1>2. /\ DOMAIN A = {j \in DOMAIN raw : raw[j].lacks \cap ApiRequires = {}}
      /\ \A i \in DOMAIN A : A[i] = OrderOf(raw[i])
  BY DEF Accepted, Accepts
<1>3. \A x \in Snapshots : /\ OrderOf(x) \in OrderRecord /\ OrderOf(x).boid = x.boid
                           /\ OrderOf(x).trade = x.trade /\ OrderOf(x).at = x.at
                           /\ x.boid \in Request
  <2> SUFFICES ASSUME NEW x \in Snapshots
               PROVE  /\ OrderOf(x) \in OrderRecord /\ OrderOf(x).boid = x.boid
                      /\ OrderOf(x).trade = x.trade /\ OrderOf(x).at = x.at
                      /\ x.boid \in Request
    OBVIOUS
  <2>1. Statuses[7] = "new" /\ 7 \in DOMAIN Statuses
    BY DEF Statuses
  <2>2. x.status \in {Statuses[k] : k \in DOMAIN Statuses}
    BY <2>1 DEF Snapshots
  <2>3. x.boid \in Nat /\ x.cid \in Nat /\ x.trade \in Nat /\ x.at \in Nat /\ x.filled \in Nat /\ x.source \in Nat
    <3>1. (\A y \in Request : y \in Nat) /\ \A y \in Times : y \in Nat
      BY RunAssumption DEF Times
    <3>2. /\ x.boid \in Request /\ x.trade \in Request /\ x.at \in Times
          /\ x.cid = 0 /\ x.filled = 0 /\ x.source = 0
      BY DEF Snapshots
    <3> QED BY <3>1, <3>2
  <2>4. (IF x.source = 0 THEN DefaultSource ELSE x.source) \in Nat
    BY <2>3, RunAssumption
  <2> QED BY <2>2, <2>3, <2>4 DEF OrderOf, OrderRecord, Snapshots
<1>4. /\ DOMAIN A \subseteq DOMAIN raw
      /\ \A i \in DOMAIN A : /\ A[i] \in OrderRecord /\ A[i].boid = raw[i].boid
                             /\ A[i].trade = raw[i].trade /\ A[i].at = raw[i].at
                             /\ raw[i].boid \in Request
  <2> HIDE DEF A
  <2> QED BY <1>1, <1>2, <1>3
<1>5. OrderList(A)
  <2>1. IsFiniteSet(DOMAIN raw) /\ DOMAIN raw \subseteq Nat
    <3>1. Len(raw) \in Nat /\ DOMAIN raw = 1..Len(raw)
      BY LenProperties DEF RawOk
    <3> QED BY <3>1, FS_Interval
  <2>2. A = [i \in DOMAIN A |-> A[i]]
    BY DEF Accepted
  <2> HIDE DEF A
  <2> QED BY <1>4, <2>1, <2>2, FS_Subset DEF OrderList
<1>6. Orders = {Enriched(A, G) : G \in Groups(A)}
  <2>1. Normalized = Clean(A)
    BY DEF Normalized
  <2>2. \A c : c \in Clean(A) <=> \E G \in Groups(A) : c = Handing(A, G)
    BY <1>5, HeldOnce
  <2>3. \A G : Handing(A, G).order = Enriched(A, G)
    BY DEF Handing
  <2> HIDE DEF A
  <2> QED BY <2>1, <2>2, <2>3 DEF Orders
<1> HIDE DEF A
<1>7. ASSUME NEW i \in DOMAIN A
      PROVE  LET o == Enriched(A, GroupOf(A, i)) IN
             /\ o.boid = raw[i].boid /\ o.trade = raw[i].trade /\ o.at = raw[i].at
  <2> DEFINE G == GroupOf(A, i)
             j == Representative(A, G)
             o == Enriched(A, G)
  <2>1. G \in SUBSET DOMAIN A /\ i \in G
    BY <1>5, GroupsAre
  <2>2. j \in G /\ o.boid = A[j].boid /\ o.trade = A[j].trade /\ o.at = A[j].at
    <3> HIDE DEF G
    <3>1. G # {}
      BY <2>1
    <3> QED BY <1>5, <2>1, <3>1, EnrichedKeeps
  <2>3. A[j].boid = A[i].boid
    BY <2>2 DEF GroupOf
  <2> HIDE DEF G, j, o
  <2>4. raw[j].boid = raw[i].boid /\ j \in DOMAIN raw /\ i \in DOMAIN raw
    BY <1>4, <2>1, <2>2, <2>3
  <2>5. raw[j].trade = raw[i].trade /\ raw[j].at = raw[i].at
    BY <2>4 DEF RawOk
  <2>6. o.boid = raw[i].boid /\ o.trade = raw[i].trade /\ o.at = raw[i].at
    BY <1>4, <2>1, <2>2, <2>4, <2>5
  <2> QED BY <2>6 DEF o, G
<1>8. \A o : o \in Orders <=> \E i \in DOMAIN A : o = Enriched(A, GroupOf(A, i))
  BY <1>5, <1>6, GroupsAre
<1>9. ASSUME NEW o \in Orders
      PROVE  o.boid \in Request /\ o.trade = o.boid /\ book[o.boid] # NoOrder /\ o.at = book[o.boid].at
  <2>1. PICK i \in DOMAIN A : o = Enriched(A, GroupOf(A, i))
    BY <1>8
  <2>2. o.boid = raw[i].boid /\ o.trade = raw[i].trade /\ o.at = raw[i].at
    BY <1>7, <2>1
  <2> QED BY <1>4, <2>2 DEF RawOk
<1>10. ASSUME NEW r \in Seen, book[r].lacks = {} PROVE \E o \in Orders : o.boid = r
  <2>1. PICK i \in DOMAIN raw : r = raw[i].boid
    BY DEF Seen
  <2>2. raw[i].lacks = {}
    BY <1>10, <2>1 DEF RawOk
  <2>3. i \in DOMAIN A
    BY <1>2, <2>2
  <2> QED BY <1>7, <1>8, <2>1, <2>3
<1> QED
  BY <1>9, <1>10

LEMMA NothingMoves ==
    ASSUME book' = book, raw' = raw
    PROVE  Seen' = Seen /\ \A r : Crowded(r)' <=> Crowded(r)
<1>1. Seen' = Seen
  BY DEF Seen
<1>2. \A r : Crowded(r)' <=> Crowded(r)
  BY DEF Crowded
<1> QED
  BY <1>1, <1>2

LEMMA WindowIsFixed ==
    ASSUME [RunNext]_runVars PROVE window' = window
<1>1. World => window' = window
  BY DEF World
<1>2. ParseArguments \/ Write => window' = window
  BY DEF ParseArguments, Write
<1>3. ReadClaims => window' = window
  BY DEF ReadClaims
<1>4. ReadFile \/ Connect => window' = window
  BY DEF ReadFile, Connect
<1>5. FetchPage => window' = window
  BY DEF FetchPage
<1>6. Reconcile => window' = window
  BY DEF Reconcile
<1>7. UNCHANGED runVars => window' = window
  BY DEF runVars
<1> QED
  BY <1>1, <1>2, <1>3, <1>4, <1>5, <1>6, <1>7 DEF RunNext

LEMMA ReconcilingKeeps ==
    ASSUME window.api, WorldOk, ClaimsOk, RawOk, PagesOk, Reconcile
    PROVE  ClaimsOk' /\ PagesOk' /\ FoundOk'
<1>1. /\ table' = table /\ book' = book /\ window' = window /\ kept' = kept /\ had' = had /\ page' = page
      /\ raw' = raw /\ step = "reconcile" /\ step' \in {"reports", "exit 1"}
  BY DEF Reconcile, End, world
<1>2. ClaimsOk' /\ PagesOk'
  <2>1. ClaimsOk'
    BY <1>1 DEF ClaimsOk
  <2>2. PagesOk'
    BY <1>1, NothingMoves DEF PagesOk
  <2> QED BY <2>1, <2>2
<1>3. CASE step' = "reports"
  <2>1. found' = BuildFindings({ClaimFinding(r) : r \in Claimed}
              \cup {<<"UNRECORDED_INTERNALLY", o.trade>> :
                       o \in {p \in Orders : \A r \in Claimed : ~Matches(kept[r], p)}})
    BY <1>3 DEF Reconcile, End
  <2>2. \A r \in Claimed : ClaimFinding(r)[1] # "UNRECORDED_INTERNALLY"
    BY DEF ClaimFinding
  <2>3. ASSUME NEW x, <<"UNRECORDED_INTERNALLY", x>> \in found'
        PROVE  \E o \in Orders : o.trade = x /\ \A r \in Claimed : ~Matches(kept[r], o)
    BY <2>1, <2>2, <2>3 DEF BuildFindings
  <2>4. Orders' = Orders /\ Claimed' = Claimed
    BY <1>1 DEF Orders, Normalized, Claimed
  <2> QED BY <1>1, <1>2, <2>3, <2>4 DEF FoundOk
<1>4. CASE step' # "reports"
  BY <1>1, <1>2, <1>4 DEF FoundOk
<1> QED
  BY <1>3, <1>4

\* Every step of a run on the broker's orders, and of the bot beside it, keeps
\* it: nothing that was at the broker when retrieval began is passed over
\* unless it is crowded out (fetch_all_orders).
THEOREM ApiStep == ApiInv /\ [RunNext]_runVars => ApiInv'
<1> SUFFICES ASSUME ApiInv, [RunNext]_runVars, window.api PROVE ApiInv'
  BY WindowIsFixed DEF ApiInv
<1>1. /\ window.after \in Int /\ window.until \in Int
      /\ WorldOk /\ ClaimsOk /\ RawOk /\ PagesOk /\ FoundOk
  BY DEF ApiInv
<1>2. CASE World
  <2>1. window' = window
    BY <1>2 DEF World
  <2> QED BY <1>1, <1>2, <2>1, WorldKeeps DEF ApiInv
<1>3. CASE ParseArguments \/ Write
  <2>1. /\ now' = now /\ table' = table /\ book' = book /\ window' = window /\ kept' = kept /\ had' = had
        /\ page' = page /\ raw' = raw /\ found' = found
        /\ \/ step = "arguments" /\ step' \in {"claims", "exit 2"}
           \/ step = "reports" /\ step' \in {"exit 0", "exit 1"}
    BY <1>3 DEF ParseArguments, Write, End, world
  <2>2. Orders' = Orders /\ Claimed' = Claimed /\ Seen' = Seen
    BY <2>1 DEF Orders, Normalized, Claimed, Seen
  <2>3. WorldOk' /\ ClaimsOk' /\ RawOk'
    BY <1>1, <2>1 DEF WorldOk, ClaimsOk, RawOk
  <2>4. PagesOk'
    BY <1>1, <2>1, NothingMoves DEF PagesOk
  <2>5. FoundOk'
    BY <1>1, <2>1, <2>2 DEF FoundOk
  <2> QED BY <1>1, <2>1, <2>3, <2>4, <2>5 DEF ApiInv
<1>4. CASE ReadClaims
  <2>1. raw' = raw /\ now' = now /\ table' = table /\ book' = book /\ window' = window
    BY <1>4 DEF ReadClaims, End, world
  <2>2. RawOk' /\ WorldOk'
    BY <1>1, <2>1 DEF RawOk, WorldOk
  <2> QED BY <1>1, <1>4, <2>1, <2>2, ReadingKeeps DEF ApiInv
<1>5. CASE ReadFile
  BY <1>5 DEF ReadFile
<1>6. CASE Connect
  <2>1. raw' = raw /\ now' = now /\ table' = table /\ book' = book /\ window' = window
    BY <1>6 DEF Connect, End, world
  <2>2. RawOk' /\ WorldOk'
    BY <1>1, <2>1 DEF RawOk, WorldOk
  <2> QED BY <1>1, <1>6, <2>1, <2>2, ConnectingKeeps DEF ApiInv
<1>7. CASE FetchPage
  <2>1. now' = now /\ table' = table /\ book' = book /\ window' = window
    BY <1>7 DEF FetchPage, world
  <2>2. WorldOk'
    BY <1>1, <2>1 DEF WorldOk
  <2> QED BY <1>1, <1>7, <2>1, <2>2, PageKeeps DEF ApiInv
<1>8. CASE Reconcile
  <2>1. raw' = raw /\ now' = now /\ table' = table /\ book' = book /\ window' = window
    BY <1>8 DEF Reconcile, End, world
  <2>2. RawOk' /\ WorldOk'
    BY <1>1, <2>1 DEF RawOk, WorldOk
  <2> QED BY <1>1, <1>8, <2>1, <2>2, ReconcilingKeeps DEF ApiInv
<1>9. CASE UNCHANGED runVars
  <2>1. /\ now' = now /\ table' = table /\ book' = book /\ window' = window /\ kept' = kept /\ had' = had
        /\ page' = page /\ raw' = raw /\ found' = found /\ step' = step
    BY <1>9 DEF runVars
  <2>2. Orders' = Orders /\ Claimed' = Claimed
    BY <2>1 DEF Orders, Normalized, Claimed
  <2>3. WorldOk' /\ ClaimsOk' /\ RawOk'
    BY <1>1, <2>1 DEF WorldOk, ClaimsOk, RawOk
  <2>4. PagesOk'
    BY <1>1, <2>1, NothingMoves DEF PagesOk
  <2>5. FoundOk'
    BY <1>1, <2>1, <2>2 DEF FoundOk
  <2> QED BY <1>1, <2>1, <2>3, <2>4, <2>5 DEF ApiInv
<1> QED
  BY <1>2, <1>3, <1>4, <1>5, <1>6, <1>7, <1>8, <1>9 DEF RunNext

\* A run beside any bot is always in a state ApiInv describes.
THEOREM ApiSafety == RunSpec => []ApiInv
<1>1. ASSUME RunInit, window.api PROVE ApiInv
  <2> DEFINE windows == {[api |-> TRUE, after |-> w[1], until |-> w[2]] : w \in Windows}
  <2>1. window \in windows /\ raw = <<>> /\ table = NoTable
    <3>1. window # [api |-> FALSE, after |-> 0, until |-> 0]
      BY <1>1
    <3> HIDE DEF windows
    <3> QED BY <1>1, <3>1 DEF RunInit, windows
  <2>2. window.after \in Int /\ window.until \in Int
    <3>1. PICK w \in Windows : window = [api |-> TRUE, after |-> w[1], until |-> w[2]]
      BY <2>1
    <3> QED BY <3>1, RunAssumption
  <2>3. /\ raw = <<>> /\ table = NoTable /\ step = "arguments" /\ now = 0 /\ book = [r \in Request |-> NoOrder]
        /\ kept = [r \in Request |-> NoClaim] /\ had = [rows |-> {}, orders |-> {}]
        /\ page \in [read : {0}, limit : {Min(MaxPages)}, until : {window.until}]
    BY <1>1, <2>1 DEF RunInit
  <2>4. WorldOk
    BY <2>3, RunAssumption DEF WorldOk, NoTable, Rows, Books, Times
  <2>5. ClaimsOk
    BY <2>3 DEF ClaimsOk
  <2>6. RawOk
    BY <2>3 DEF RawOk
  <2>7. page.until = window.until /\ page = [read |-> page.read, limit |-> page.limit, until |-> page.until]
    BY <2>3
  <2>8. PagesOk
    BY <2>2, <2>3, <2>7 DEF PagesOk
  <2>9. FoundOk
    BY <2>3 DEF FoundOk
  <2> QED BY <2>2, <2>4, <2>5, <2>6, <2>8, <2>9 DEF ApiInv
<1>2. RunInit => ApiInv
  BY <1>1 DEF ApiInv
<1> QED
  BY <1>2, ApiStep, PTL DEF RunSpec

LEMMA WithinTolerance ==
    ASSUME NEW a \in Int, NEW b \in Int, NEW t \in Nat, a <= b
    PROVE  a - b \in -t..t <=> ~(b - a > t)
OBVIOUS

\* For any requests, windows and page size: a claim whose order was at the
\* broker is matched, or there is one of the reasons for which it may not be
\* (parse_safeagent_db, fetch_all_orders).
THEOREM MissingHasAReason == RunSpec => []MissingIsExplained
<1>1. ApiInv => MissingIsExplained
  <2> SUFFICES ASSUME ApiInv, step = "exit 0", window.api, NEW r \in Claimed \cap had.orders,
                      book[r].at \in window.after..window.until, book[r].lacks = {},
                      ~(kept[r].boid = 0 /\ book[r].at - kept[r].at > MatchTolerance), ~Crowded(r)
               PROVE  \E o \in Orders : Matches(kept[r], o)
    BY DEF MissingIsExplained, Crowded
  <2>1. WorldOk /\ ClaimsOk /\ RawOk /\ PagesOk
    BY DEF ApiInv
  <2>2. r \in Request /\ kept[r] # NoClaim /\ r \in had.orders
    BY DEF Claimed
  <2>3. r \in Seen
    BY <2>1, <2>2 DEF PagesOk
  <2>4. PICK o \in Orders : o.boid = r
    BY <2>1, <2>3, OrdersAreTheBrokers
  <2>5. o.trade = r /\ o.at = book[r].at /\ book[r] # NoOrder
    BY <2>1, <2>4, OrdersAreTheBrokers
  <2>6. table[r] # NoRow /\ kept[r].trade = r /\ kept[r].at = table[r].bar /\ kept[r].boid \in {0, r}
    BY <2>1, <2>2 DEF ClaimsOk
  <2>7. table[r].bar <= book[r].at
    BY <2>1, <2>2, <2>5 DEF WorldOk
  <2>8. table[r].bar \in Int /\ book[r].at \in Int
    <3>1. \A t \in Times : t \in Int
      BY TimesAreNumbers
    <3>2. table[r] \in FullRows
      BY <2>1, <2>2, <2>6, RowsAreRows DEF WorldOk
    <3>3. book[r].at \in Times
      BY <2>1, <2>2, <2>5 DEF WorldOk, Books
    <3> QED BY <3>1, <3>2, <3>3 DEF FullRows
  <2>9. MatchTolerance \in Nat
    BY RunAssumption
  <2>10. Matches(kept[r], o)
    <3>1. CASE kept[r].boid # 0
      BY <2>4, <2>6, <3>1 DEF Matches
    <3>2. CASE kept[r].boid = 0
      <4>1. table[r].bar - book[r].at \in -MatchTolerance..MatchTolerance
        <5>1. ~(book[r].at - table[r].bar > MatchTolerance)
          BY <2>6, <3>2
        <5> QED BY <2>7, <2>8, <2>9, <5>1, WithinTolerance
      <4> QED BY <2>5, <2>6, <3>2, <4>1 DEF Matches
    <3> QED BY <3>1, <3>2
  <2> QED BY <2>4, <2>10
<1> QED
  BY <1>1, ApiSafety, PTL

\* For any requests, windows and page size: no order is reported as unrecorded
\* whose row the run has read, but for one of the reasons given.
THEOREM UnrecordedHasAReason == RunSpec => []UnrecordedIsExplained
<1>1. ApiInv => UnrecordedIsExplained
  <2> SUFFICES ASSUME ApiInv, step = "exit 0", window.api, NEW r \in had.rows,
                      <<"UNRECORDED_INTERNALLY", r>> \in found,
                      table[r].key = "order", table[r].bar \in window.after..window.until
               PROVE  kept[r].boid = 0 /\ book[r].at - table[r].bar > MatchTolerance
    BY DEF UnrecordedIsExplained
  <2>1. WorldOk /\ ClaimsOk /\ RawOk /\ FoundOk
    BY DEF ApiInv
  <2>2. r \in Request /\ table[r] # NoRow /\ kept[r] # NoClaim
    BY <2>1 DEF ClaimsOk
  <2>3. PICK o \in Orders : o.trade = r /\ \A q \in Claimed : ~Matches(kept[q], o)
    BY <2>1 DEF FoundOk
  <2>4. o.boid = r /\ o.at = book[r].at /\ book[r] # NoOrder
    BY <2>1, <2>3, OrdersAreTheBrokers
  <2>5. kept[r].trade = r /\ kept[r].at = table[r].bar /\ kept[r].boid \in {0, r}
    BY <2>1, <2>2 DEF ClaimsOk
  <2>6. ~Matches(kept[r], o)
    BY <2>2, <2>3 DEF Claimed
  <2>7. table[r].bar <= book[r].at
    BY <2>1, <2>2, <2>4 DEF WorldOk
  <2>8. table[r].bar \in Int /\ book[r].at \in Int
    <3>1. \A t \in Times : t \in Int
      BY TimesAreNumbers
    <3>2. table[r] \in FullRows
      BY <2>1, <2>2, RowsAreRows DEF WorldOk
    <3>3. book[r].at \in Times
      BY <2>1, <2>2, <2>4 DEF WorldOk, Books
    <3> QED BY <3>1, <3>2, <3>3 DEF FullRows
  <2>9. MatchTolerance \in Nat
    BY RunAssumption
  <2>10. kept[r].boid = 0
    BY <2>4, <2>5, <2>6 DEF Matches
  <2>11. ~(table[r].bar - book[r].at \in -MatchTolerance..MatchTolerance)
    BY <2>3, <2>4, <2>5, <2>6, <2>10 DEF Matches
  <2> QED BY <2>7, <2>8, <2>9, <2>10, <2>11, WithinTolerance
<1> QED
  BY <1>1, ApiSafety, PTL
=============================================================================
