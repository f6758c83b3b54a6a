--------------------------- MODULE MCHostedReceipts ---------------------------
(* HostedReceipts with a paid, a test and a legacy request. *)
EXTENDS HostedReceipts

CONSTANTS k1, k2

MCKeys == <<k1, None, k2>>

MCDeployments ==
    {[durable |-> TRUE,  trails |-> TRUE,  policy |-> "required", importable |-> TRUE],
     [durable |-> TRUE,  trails |-> FALSE, policy |-> "off",      importable |-> TRUE],
     [durable |-> TRUE,  trails |-> FALSE, policy |-> "required", importable |-> FALSE],
     [durable |-> FALSE, trails |-> TRUE,  policy |-> "on",       importable |-> TRUE]}
=============================================================================
