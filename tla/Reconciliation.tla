---------------------------- MODULE Reconciliation ----------------------------
(***************************************************************************)
(* reconcile: internal claims are matched against a broker's orders, after *)
(* ingestion has given every order an identity of its own.                 *)
(*                                                                         *)
(*   FULL --> PARTIAL --> WEAK --> CONFLICT --> CLASSIFY --> DONE          *)
(*                                                                         *)
(* A tier matches the open orders with the unresolved claims; its claims   *)
(* are then visited one by one, in the order of their list, which here is  *)
(* any order.  The solver is taken at what TierMatching says it decides    *)
(* (KuhnSolver).  Symbol, side, quantity and time are one number: two      *)
(* records agree on them when it differs by Tolerance at most.             *)
(***************************************************************************)
EXTENDS TierMatching, Integers

CONSTANTS
    Claim, Order,            \* the records' places in their lists
    ClaimData, OrderData,    \* what a record may say
    Tolerance, None

\* Identifiers are numbers; NoId is a missing one.
NoId    == 0
Tiers   == <<"FULL", "PARTIAL", "WEAK">>

Assignment == [kind : {"assigned", "ambiguous", "conflict", "none"}, tier : (1..3) \cup {None},
               involved : SUBSET Order]

ASSUME DataAssumption ==
    /\ \A d \in ClaimData : d.boid \in Nat /\ d.coid \in Nat /\ d.at \in Nat /\ d.rejected \in BOOLEAN
    /\ \A d \in OrderData : d.boid \in Nat /\ d.coid \in Nat /\ d.at \in Nat
    /\ Tolerance \in Nat /\ None \notin Claim \cup Order
    /\ (\A G \in SUBSET (Claim \X Order) : G # None) /\ None \notin Assignment
    /\ IsFiniteSet(Claim) /\ IsFiniteSet(Order)

VARIABLES
    claims,      \* Claim -> its data
    orders,      \* Order -> its data
    stage,       \* the tier or pass under way, 1 to 6
    matched,     \* the graph of the tier, once it is built, or None
    avail,       \* the orders that were open when the pass began
    todo,        \* the claims it has still to visit
    assignment,  \* Claim -> its assignment, or None
    state,       \* Order -> open, assigned, ambiguous or conflict
    findings     \* the findings reported

input == <<claims, orders>>
vars  == <<claims, orders, stage, matched, avail, todo, assignment, state, findings>>

Init ==
    /\ claims \in [Claim -> ClaimData]
    /\ orders \in [Order -> OrderData]
    /\ \A o, p \in Order : o # p /\ orders[o].boid # NoId => orders[o].boid # orders[p].boid
    /\ stage = 1 /\ matched = None /\ avail = {} /\ todo = {}
    /\ assignment = [c \in Claim |-> None]
    /\ state = [o \in Order |-> "open"]
    /\ findings = {}

-----------------------------------------------------------------------------
(* The evidence graph.                                                     *)

\* normalize_inputs
Eligibility(c) ==
    CASE claims[c].outcome = "SKIP" -> "SKIPPED"
      [] claims[c].outcome # "SKIP" /\ claims[c].rejected -> "REJECTED"
      [] OTHER -> "EXPECTED"

\* The identifiers both records have, and those they agree on.
Compared(c, o) == {f \in {"boid", "coid"} : claims[c][f] # NoId /\ orders[o][f] # NoId}
Agreed(c, o)   == {f \in Compared(c, o) : claims[c][f] = orders[o][f]}

HasIds(c) == claims[c].boid # NoId \/ claims[c].coid # NoId

CloseBy(c, o) ==
    claims[c].at - orders[o].at \in -Tolerance..Tolerance

\* The tier of the edge, or "none": a partial disagreement is a conflict, a
\* complete one no edge at all; only claims without identifiers are matched
\* by what was traded and when.
Tier(c, o) ==
    CASE Eligibility(c) = "SKIPPED" -> "none"
      [] Eligibility(c) # "SKIPPED" /\ ~HasIds(c) -> IF CloseBy(c, o) THEN "WEAK" ELSE "none"
      [] OTHER -> CASE Agreed(c, o) = {} -> "none"
                    [] Agreed(c, o) # {} /\ Agreed(c, o) # Compared(c, o) -> "CONFLICT"
                    [] OTHER -> IF Cardinality(Compared(c, o)) = 2 THEN "FULL" ELSE "PARTIAL"

Filled(o) == orders[o].status \in {"filled", "partially_filled"}

\* A rejected claim is compatible only with an order that did not execute.
StatusCompatible(c, o) ==
    Eligibility(c) = "REJECTED" => orders[o].status \in {"rejected", "canceled"}

-----------------------------------------------------------------------------
(* resolve_assignments                                                     *)

Only(S) == CHOOSE o \in S : TRUE

Open == {o \in Order : state[o] = "open"}
Unresolved == {c \in Claim : assignment[c] = None}

\* A tier begins: what it may match is fixed.
StartTier ==
    /\ stage <= 3 /\ matched = None
    /\ LET G == {e \in Unresolved \X Open :
                    Tier(e[1], e[2]) = Tiers[stage] /\ StatusCompatible(e[1], e[2])}
       IN matched' = G /\ todo' = ClaimsOf(G)
    /\ UNCHANGED <<input, stage, avail, assignment, state, findings>>

\* A claim of the tier: assigned to its only partner if every maximum matching
\* matches it, ambiguous if it has partners, left to the next tier if not.
Visit(c) ==
    LET partners == Partners(matched, c)
        forced   == c \in Forced(matched)
    IN
    /\ stage <= 3 /\ matched # None /\ c \in todo
    /\ todo' = todo \ {c}
    /\ assignment' = [assignment EXCEPT ![c] =
            CASE forced -> [kind |-> "assigned", tier |-> stage, involved |-> partners]
              [] ~forced /\ partners # {} -> [kind |-> "ambiguous", tier |-> stage, involved |-> partners]
              [] OTHER -> None]
    /\ state' = [o \in Order |->
            IF o \notin partners THEN state[o]
            ELSE IF forced THEN "assigned"
            ELSE IF state[o] = "open" THEN "ambiguous" ELSE state[o]]
    /\ UNCHANGED <<input, stage, matched, avail, findings>>

\* The pass over the tier's orders: one that is still open but has several
\* holders is ambiguous, and so are the holders nothing was decided for.
EndTier ==
    LET contested == {o \in Open \cap OrdersOf(matched) : Cardinality(Holders(matched, o)) > 1}
    IN
    /\ stage <= 3 /\ matched # None /\ todo = {}
    /\ state' = [o \in Order |-> IF o \in contested THEN "ambiguous" ELSE state[o]]
    /\ assignment' = [c \in Claim |->
            LET held == {o \in contested : c \in Holders(matched, o)} IN
            IF assignment[c] = None /\ held # {}
            THEN [kind |-> "ambiguous", tier |-> stage, involved |-> {Only(held)}] ELSE assignment[c]]
    /\ stage' = stage + 1
    /\ matched' = None
    /\ avail' = {o \in Order : state'[o] = "open"}
    /\ todo' = IF stage = 3 THEN {c \in Claim : assignment'[c] = None} ELSE {}
    /\ UNCHANGED <<input, findings>>

\* Mutant: availability is read again for every claim.
ConflictRefetched(c) ==
    LET conflicts == {o \in Open : Tier(c, o) = "CONFLICT"} IN
    /\ stage = 4 /\ c \in todo
    /\ todo' = todo \ {c}
    /\ assignment' = [assignment EXCEPT ![c] =
            [kind |-> IF conflicts = {} THEN "none" ELSE "conflict", tier |-> None, involved |-> conflicts]]
    /\ state' = [o \in Order |-> IF o \in conflicts THEN "conflict" ELSE state[o]]
    /\ UNCHANGED <<input, stage, matched, avail, findings>>

\* An unresolved claim conflicts with every order that was open when the pass
\* began; a conflict does not consume the order.
Conflict(c) ==
    LET conflicts == {o \in avail : Tier(c, o) = "CONFLICT"} IN
    /\ stage = 4 /\ c \in todo
    /\ todo' = todo \ {c}
    /\ assignment' = [assignment EXCEPT ![c] =
            [kind |-> IF conflicts = {} THEN "none" ELSE "conflict", tier |-> None, involved |-> conflicts]]
    /\ state' = [o \in Order |-> IF o \in conflicts THEN "conflict" ELSE state[o]]
    /\ UNCHANGED <<input, stage, matched, avail, findings>>

\* The final sweep: conflicting evidence of resolved claims takes the orders
\* that are still open.  After it nothing writes a disposition.
Sweep ==
    /\ stage = 4 /\ todo = {}
    /\ state' = [o \in Order |->
            IF state[o] = "open" /\ \E c \in Claim : Tier(c, o) = "CONFLICT"
            THEN "conflict" ELSE state[o]]
    /\ stage' = 5
    /\ UNCHANGED <<input, matched, avail, todo, assignment, findings>>

-----------------------------------------------------------------------------
(* classify_results                                                        *)

Finding(c, o, result, reasons, involved) ==
    [claim |-> c, order |-> o, result |-> result, reasons |-> reasons, involved |-> involved]

Involved(c) == assignment[c].involved

Skipped(c) ==
    IF claims[c].said = "SKIPPED" THEN Finding(c, None, "DUPLICATE_BLOCKED", {}, {})
    ELSE Finding(c, None, "MISSING_EXTERNALLY", {"CALLER_IGNORED_SKIP"}, {})

Executing(c) ==
    CASE assignment[c].kind = "assigned" ->
            LET o == Only(Involved(c)) IN
            IF Filled(o)
            THEN Finding(c, o, "CONFIRMED",
                    IF assignment[c].tier = 2 THEN {"PARTIAL_IDENTIFIER_EVIDENCE"} ELSE {}, {})
            ELSE Finding(c, o, "UNCERTAIN", {"AMBIGUOUS_PROVIDER_RESPONSE"}, {})
      [] assignment[c].kind = "ambiguous" ->
            Finding(c, None, "UNCERTAIN", {"AMBIGUOUS_MATCHES"}, Involved(c))
      [] assignment[c].kind = "conflict" ->
            Finding(c, None, "UNCERTAIN", {"IDENTIFIER_CONFLICT"}, Involved(c))
      [] OTHER ->
            Finding(c, None, IF claims[c].said = "SUCCESS" THEN "MISSING_EXTERNALLY" ELSE "UNCERTAIN",
                    {"BROKER_MATCH_NOT_FOUND"}, {})

\* Filled orders whose identifiers agree with a claim the broker rejected.
Contradictions(c) == {o \in Order : Tier(c, o) \in {"FULL", "PARTIAL"} /\ Filled(o)}

Rejected(c) ==
    CASE assignment[c].kind = "assigned" ->
            {Finding(c, Only(Involved(c)), "REJECTED", {"BROKER_REJECTED"}, {})}
      [] assignment[c].kind = "ambiguous" ->
            {Finding(c, None, "REJECTED", {"BROKER_REJECTED", "AMBIGUOUS_MATCHES"}, Involved(c))}
      [] assignment[c].kind = "conflict" ->
            {Finding(c, None, "REJECTED", {"BROKER_REJECTED", "IDENTIFIER_CONFLICT"}, Involved(c))}
      [] OTHER -> IF Contradictions(c) # {} THEN {}
                  ELSE {Finding(c, None, "REJECTED", {"BROKER_REJECTED"}, {})}

\* Which of several contradicting orders is named depends on their stable ids.
Contradicted(pick) ==
    {Finding(c, pick[c], "CONTRADICTION", {"REJECTION_EXECUTION_CONTRADICTION"}, {}) :
        c \in DOMAIN pick}

\* Mutant: any finding that names the order makes it reported.
OrderFindingsLoose(primary) ==
    {Finding(None, o, "UNRECORDED_INTERNALLY", {"UNMATCHED_BROKER_ORDER"}, {}) :
        o \in {p \in Open : \A f \in primary : f.order # p}}
    \cup
    {Finding(None, o, "UNCERTAIN", {"EXTERNAL_IDENTIFIER_CONFLICT"}, {}) :
        o \in {p \in Order : state[p] = "conflict" /\ \A f \in primary : f.order # p /\ p \notin f.involved}}

\* The findings about orders: one per unmatched order, and one per conflicting
\* order unless a conflict or contradiction finding names it already.
OrderFindings(primary) ==
    {Finding(None, o, "UNRECORDED_INTERNALLY", {"UNMATCHED_BROKER_ORDER"}, {}) : o \in Open}
    \cup
    {Finding(None, o, "UNCERTAIN", {"EXTERNAL_IDENTIFIER_CONFLICT"}, {}) :
        o \in {p \in Order : state[p] = "conflict" /\
                 ~\E f \in primary : /\ f.order = p \/ p \in f.involved
                                     /\ f.reasons \cap {"IDENTIFIER_CONFLICT",
                                                        "REJECTION_EXECUTION_CONTRADICTION"} # {}}}

\* The findings about claims.
Contradictory == {c \in Claim : Eligibility(c) = "REJECTED" /\ Contradictions(c) # {}}
Picks == {f \in [Contradictory -> Order] : \A c \in Contradictory : f[c] \in Contradictions(c)}

Primary(pick) ==
    LET of(e) == {c \in Claim : Eligibility(c) = e}
    IN {Skipped(c) : c \in of("SKIPPED")} \cup {Executing(c) : c \in of("EXPECTED")}
         \cup Contradicted(pick) \cup UNION {Rejected(c) : c \in of("REJECTED")}

Classify ==
    /\ stage = 5
    /\ \E pick \in Picks : findings' = Primary(pick) \cup OrderFindings(Primary(pick))
    /\ stage' = 6
    /\ UNCHANGED <<input, matched, avail, todo, assignment, state>>

Next ==
    \/ StartTier \/ EndTier \/ Sweep \/ Classify
    \/ \E c \in Claim : Visit(c) \/ Conflict(c)

Spec == Init /\ [][Next]_vars

-----------------------------------------------------------------------------
(* The reference model: the tiers decide in turn, each over what the ones  *)
(* before it have left, and no claim is visited before another.            *)

\* Its tier of a pair; what conflicts is no edge.
TierForEdge(c, o) ==
    CASE ~HasIds(c) -> IF CloseBy(c, o) THEN "WEAK" ELSE "none"
      [] HasIds(c) /\ Agreed(c, o) # {} /\ Agreed(c, o) = Compared(c, o) ->
            IF Cardinality(Agreed(c, o)) = 2 THEN "FULL" ELSE "PARTIAL"
      [] OTHER -> "none"

Eligible == {c \in Claim : Eligibility(c) # "SKIPPED"}

\* What a tier matches of what the ones before it have left, and the pairs of
\* the claims it decides.  The pass over contested orders that ends a tier in
\* the code finds none: an order with a holder went with the holder's pairs.
TierGraph(t, d) ==
    {e \in d.left \X d.free : TierForEdge(e[1], e[2]) = Tiers[t] /\ StatusCompatible(e[1], e[2])}

Decided(G, C) == {e \in G : e[1] \in C /\ e[2] \in Partners(G, e[1])}

DecideTier(t, d) ==
    LET G       == TierGraph(t, d)
        forced  == Decided(G, Forced(G))
        several == Decided(G, Ambiguous(G))
    IN [forced |-> d.forced \cup forced, several |-> d.several \cup several,
        free |-> d.free \ OrdersOf(forced \cup several),
        left |-> d.left \ ClaimsOf(forced \cup several)]

Decide[t \in 0..3] ==
    IF t = 0 THEN [forced |-> {}, several |-> {}, free |-> Order, left |-> Eligible]
    ELSE DecideTier(t, Decide[t - 1])

\* compute_reference_outcome, as pairs of a claim and an order.
ReferenceOutcome ==
    LET d == Decide[3]
        agreeing == {e \in Eligible \X Order : Agreed(e[1], e[2]) # {}}
        whole    == {e \in agreeing : Agreed(e[1], e[2]) = Compared(e[1], e[2])}
    IN [forced |-> d.forced, several |-> d.several, free |-> d.free,
        conflicting   |-> agreeing \ whole,
        contradicting |-> {e \in whole : Eligibility(e[1]) = "REJECTED" /\ Filled(e[2])}]

-----------------------------------------------------------------------------
(* Properties.                                                             *)

\* Whatever the order of the lists, assignments and dispositions are those of
\* the reference model, a disposition is not touched after, and a claim is
\* found in contradiction where the reference finds it so ("claim/order
\* permutations cannot change dispositions, the claim->order relation").
MatchesReference ==
    stage >= 5 =>
        LET ref == ReferenceOutcome
            pairs(k) == {e \in Claim \X Order : /\ assignment[e[1]].kind = k
                                                /\ e[2] \in assignment[e[1]].involved}
        IN
        /\ pairs("assigned")  = ref.forced
        /\ pairs("ambiguous") = ref.several
        /\ pairs("conflict")  = {e \in ref.conflicting : /\ e[1] \notin ClaimsOf(ref.forced \cup ref.several)
                                                        /\ e[2] \in ref.free}
        /\ \A o \in ref.free :
              state[o] = IF o \in OrdersOf(ref.conflicting) THEN "conflict" ELSE "open"
        /\ \A o \in OrdersOf(ref.forced) : state[o] = "assigned"
        /\ \A o \in OrdersOf(ref.several) : state[o] = "ambiguous"
        /\ stage = 6 => {f.claim : f \in {g \in findings : g.result = "CONTRADICTION"}}
                            = ClaimsOf(ref.contradicting)

\* No record disappears: every claim has its finding, a rejected one that also
\* executed at most two; and what the findings say of an order is what its
\* disposition says, to one claim if it is assigned.
EveryRecordReported ==
    stage = 6 =>
        /\ \A c \in Claim :
              LET about == {f \in findings : f.claim = c}
              IN Cardinality(about) \in
                     1..(IF \E f \in about : f.result = "CONTRADICTION" THEN 2 ELSE 1)
        /\ \A o \in Order :
              LET matches == {f \in findings : f.order = o /\ f.result # "CONTRADICTION"}
                  names(r) == \E f \in findings : (f.order = o \/ o \in f.involved) /\ r \in f.reasons
              IN CASE state[o] = "assigned" ->
                        Cardinality(matches) = 1 /\ \A f \in matches : f.claim # None
                   [] state[o] = "open" ->
                        /\ Cardinality(matches) = 1
                        /\ \A f \in matches : f.result = "UNRECORDED_INTERNALLY"
                   [] state[o] = "ambiguous" -> matches = {} /\ names("AMBIGUOUS_MATCHES")
                   [] state[o] = "conflict" ->
                        \/ names("IDENTIFIER_CONFLICT") \/ names("EXTERNAL_IDENTIFIER_CONFLICT")
                        \/ names("REJECTION_EXECUTION_CONTRADICTION")
=============================================================================
