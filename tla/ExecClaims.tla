----------------------------- MODULE ExecClaims -----------------------------
(***************************************************************************)
(* What the execution guard promises about one stable request_id, whatever *)
(* the store, the process or the transport behind it:                      *)
(*                                                                         *)
(*      CLAIMABLE --Claim--> PENDING --Settle--> COMMITTED                 *)
(*                              |                                          *)
(*                            Effect  (at most once)                       *)
(*                                                                         *)
(* A request is claimed once, its side effect happens at most once and     *)
(* only while the claim is unresolved, and it is resolved once, with an    *)
(* outcome that says ok only when the effect did happen.  Nothing releases *)
(* a claim: a crash is a stuttering step, after which the request may stay *)
(* PENDING for ever.                                                       *)
(*                                                                         *)
(* TwoPhaseClaim implements this specification; so must every other        *)
(* front-end of the guard.                                                 *)
(***************************************************************************)
EXTENDS Naturals

CONSTANT Req          \* the stable request ids

VARIABLES
    status,           \* Req -> CLAIMABLE, PENDING or COMMITTED
    effects,          \* Req -> how often the side effect has happened
    verdict           \* Req -> what a COMMITTED request reports

avars == <<status, effects, verdict>>

Status  == {"CLAIMABLE", "PENDING", "COMMITTED"}
Verdict == {"none", "ok", "failed"}

ClaimsTypeOK ==
    /\ status  \in [Req -> Status]
    /\ effects \in [Req -> Nat]
    /\ verdict \in [Req -> Verdict]

ClaimsInit ==
    /\ status  = [r \in Req |-> "CLAIMABLE"]
    /\ effects = [r \in Req |-> 0]
    /\ verdict = [r \in Req |-> "none"]

Claim(r) ==
    /\ status[r] = "CLAIMABLE"
    /\ status' = [status EXCEPT ![r] = "PENDING"]
    /\ UNCHANGED <<effects, verdict>>

Effect(r) ==
    /\ status[r] = "PENDING"
    /\ effects[r] = 0
    /\ effects' = [effects EXCEPT ![r] = 1]
    /\ UNCHANGED <<status, verdict>>

Settle(r, v) ==
    /\ status[r] = "PENDING"
    /\ v = "ok" => effects[r] = 1
    /\ status'  = [status EXCEPT ![r] = "COMMITTED"]
    /\ verdict' = [verdict EXCEPT ![r] = v]
    /\ UNCHANGED effects

ClaimsNext ==
    \E r \in Req : \/ Claim(r)
                   \/ Effect(r)
                   \/ \E v \in {"ok", "failed"} : Settle(r, v)

ClaimsSpec == ClaimsInit /\ [][ClaimsNext]_avars
=============================================================================
