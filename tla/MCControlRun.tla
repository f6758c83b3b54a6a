----------------------------- MODULE MCControlRun -----------------------------
(* ControlRun over three requests and a page of two, and over every file of *)
(* three records of two orders.                                             *)
EXTENDS ControlRun, TLC

R(boid, cid, trade, status, filled, source, lacks) ==
    [boid |-> boid, cid |-> cid, trade |-> trade, at |-> trade, status |-> status, filled |-> filled,
     source |-> source, lacks |-> lacks]
MCRecord ==
    {R(1, c, 1, s, 0, 1, {}) : c \in {0, 1}, s \in {"new", "held", "rejected"}}
    \cup {R(1, 0, 1, "filled", f, 1, {}) : f \in {0, 2, 3}}
    \cup {R(1, 2, 1, "partially_filled", 0, 0, {}), R(1, 0, 2, "filled", 2, 1, {}),
          R(0, 0, 2, "filled", 2, 1, {}), R(2, 0, 2, "new", 0, 2, {"status"})}

MCWindows == {<<0, 1>>, <<1, 2>>}
===============================================================================
