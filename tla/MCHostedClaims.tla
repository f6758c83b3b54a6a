---------------------------- MODULE MCHostedClaims ----------------------------
(* HostedClaims on small sets of servers, agents and request ids. *)
EXTENDS HostedClaims, TLC

Symmetry == Permutations(Server) \cup Permutations(Agent) \cup Permutations(Req)
=============================================================================
