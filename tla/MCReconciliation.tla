--------------------------- MODULE MCReconciliation ---------------------------
(* Reconciliation over every combination of a few claims and orders: broker *)
(* ids 1 and 2 and client id 1, present, shared, crossed or missing.        *)
EXTENDS Reconciliation, TLC

C(boid, coid, at, outcome, rejected, said) ==
    [boid |-> boid, coid |-> coid, at |-> at, outcome |-> outcome,
     rejected |-> rejected, said |-> said]
O(boid, coid, at, status) == [boid |-> boid, coid |-> coid, at |-> at, status |-> status]

MCClaimData ==
    {C(i[1], i[2], 0, "COMMITTED", r, "SUCCESS") :
        i \in {<<0, 0>>, <<1, 0>>, <<0, 1>>, <<1, 1>>, <<2, 1>>}, r \in BOOLEAN}
    \cup {C(0, 0, 2, "PENDING", FALSE, "PENDING"), C(1, 0, 0, "SKIP", FALSE, "SKIPPED"),
          C(0, 0, 0, "SKIP", FALSE, "SUCCESS")}
MCOrderData ==
    {O(i[1], i[2], i[3], s) : s \in {"filled", "rejected"},
        i \in {<<0, 0, 0>>, <<0, 0, 3>>, <<0, 1, 0>>, <<1, 0, 0>>, <<1, 1, 0>>, <<2, 1, 3>>}}

Symmetry == Permutations(Claim) \cup Permutations(Order)
=============================================================================
