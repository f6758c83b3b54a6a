------------------------------- MODULE Permits -------------------------------
(***************************************************************************)
(* SafeAgent Boundary: one-use permits.  An authority signs a permit for   *)
(* one exact request; gateway workers authorize it, consume it in the      *)
(* durable permit store and only then call the executor:                   *)
(*                                                                         *)
(*   idle --authorize--> authorized --consume--> consumed --executor-->    *)
(*        returned / unserializable / raised --finalize--> idle            *)
(*                                                                         *)
(*   row:  none --consume--> DISPATCHED --finalize--> SETTLED or           *)
(*                                               PENDING_RECONCILIATION    *)
(*                                                                         *)
(* Each transaction of the store is BEGIN IMMEDIATE ... COMMIT on a        *)
(* connection of its own, so it is one step here; it can also time out on  *)
(* the write lock.  A request stands for the five fields a permit binds    *)
(* (principal, run_id, action, target, payload_sha256).                    *)
(***************************************************************************)
EXTENDS Naturals, Sequences, FiniteSets

CONSTANTS
    Worker,      \* gateway threads or processes
    Permit,      \* permit ids
    Request,     \* requests, up to the fields a permit binds
    MaxTime,     \* bound: the last instant of the clock
    MaxTtl,      \* bound: the longest ttl_seconds issued
    MaxTokens    \* bound: how many tokens the authority signs

ASSUME BoundsAssumption == MaxTime \in Nat /\ MaxTtl \in Nat /\ MaxTokens \in Nat

VARIABLES
    clock,       \* the wall clock every process reads
    issued,      \* the tokens the authority has signed
    row,         \* Permit -> its row of boundary_permits
    events,      \* Permit -> its boundary_events in order
    pc,          \* Worker -> where its dispatch stands
    call,        \* Worker -> the token, request and now of its dispatch
    out,         \* Worker -> what its last dispatch ended with
    ran          \* Permit -> the requests the executor acted on, in order

vars == <<clock, issued, row, events, pc, call, out, ran>>

Time   == 0..MaxTime
Token  == [permit_id : Permit, request : Request,
           issued_at : Time, expires_at : 0..(MaxTime + MaxTtl)]
Call   == [token : Token, request : Request, now : Time]

Terminal == {"SETTLED", "PENDING_RECONCILIATION"}
NoCall   == <<>>
NoRow    == [status |-> "none", token |-> <<>>, uses |-> 0]
Row      == [status : {"DISPATCHED"} \cup Terminal, token : Token, uses : Nat]
Outcome  == {"none", "denied", "raised"} \cup Terminal

TypeOK ==
    /\ clock  \in Time
    /\ issued \in SUBSET Token
    /\ row    \in [Permit -> Row \cup {NoRow}]
    /\ events \in [Permit -> Seq({"PERMIT_CONSUMED"} \cup Terminal)]
    /\ pc     \in [Worker -> {"idle", "authorized", "consumed", "returned",
                              "unserializable", "raised"}]
    /\ call   \in [Worker -> Call \cup {NoCall}]
    /\ out    \in [Worker -> Outcome]
    /\ ran    \in [Permit -> Seq(Request)]

Init ==
    /\ clock  = 0
    /\ issued = {}
    /\ row    = [p \in Permit |-> NoRow]
    /\ events = [p \in Permit |-> <<>>]
    /\ pc     = [w \in Worker |-> "idle"]
    /\ call   = [w \in Worker |-> NoCall]
    /\ out    = [w \in Worker |-> "none"]
    /\ ran    = [p \in Permit |-> <<>>]

-----------------------------------------------------------------------------
(* The authority, and time.                                                *)

\* issue: ttl_seconds is positive, the permit is one-use, and nothing keeps
\* the authority from signing two tokens with one permit_id.
Issue(p, req, ttl) ==
    /\ Cardinality(issued) < MaxTokens
    /\ issued' = issued \cup {[permit_id |-> p, request |-> req,
                               issued_at |-> clock, expires_at |-> clock + ttl]}
    /\ UNCHANGED <<clock, row, events, pc, call, out, ran>>

Tick ==
    /\ clock < MaxTime
    /\ clock' = clock + 1
    /\ UNCHANGED <<issued, row, events, pc, call, out, ran>>

-----------------------------------------------------------------------------
(* dispatch.                                                               *)

\* A dispatch ends: whatever it ends with, it holds no call any more.
End(w, outcome) ==
    /\ pc'   = [pc EXCEPT ![w] = "idle"]
    /\ call' = [call EXCEPT ![w] = NoCall]
    /\ out'  = [out EXCEPT ![w] = outcome]

\* Mutant: the request fields are not compared with the signed ones.
ValidUnbound(token, req, now) ==
    /\ token \in issued
    /\ token.issued_at <= now
    /\ now < token.expires_at

\* What _authorize accepts: a signed token, inside its validity, for exactly
\* this request.
Valid(token, req, now) ==
    /\ token \in issued
    /\ token.issued_at <= now
    /\ now < token.expires_at
    /\ token.request = req

\* Mutant: the executor is called before the permit is consumed.
AuthorizeUnconsumed(w, token, req) ==
    /\ pc[w] = "idle"
    /\ Valid(token, req, clock)
    /\ pc'   = [pc EXCEPT ![w] = "consumed"]
    /\ call' = [call EXCEPT ![w] = [token |-> token, request |-> req,
                                   now |-> clock]]
    /\ UNCHANGED <<clock, issued, row, events, out, ran>>

\* dispatch reads the clock once; the permit is checked against that instant.
Authorize(w, token, req) ==
    /\ pc[w] = "idle"
    /\ \/ /\ Valid(token, req, clock)
          /\ pc'   = [pc EXCEPT ![w] = "authorized"]
          /\ call' = [call EXCEPT ![w] = [token |-> token, request |-> req,
                                          now |-> clock]]
          /\ UNCHANGED out
       \/ /\ ~Valid(token, req, clock)
          /\ End(w, "denied")
    /\ UNCHANGED <<clock, issued, row, events, ran>>

\* Mutant: only the use count is looked at, and it is compared with <=.
ConsumableTwice(token) ==
    \/ row[token.permit_id] = NoRow
    \/ row[token.permit_id].token = token /\ row[token.permit_id].uses <= 1

\* What consume accepts: no row yet.  A row of another token with this id is
\* permit_id_collision, a row of this token is permit_already_consumed.
Consumable(token) == row[token.permit_id] = NoRow

\* Mutant: consumption is only journaled once the row is finalized.
ConsumeUnjournaled(w) ==
    LET token == call[w].token
        p     == token.permit_id
    IN
    /\ pc[w] = "authorized"
    /\ \/ /\ Consumable(token)
          /\ row'    = [row EXCEPT ![p] = [status |-> "DISPATCHED", token |-> token,
                                           uses |-> @.uses + 1]]
          /\ pc'     = [pc EXCEPT ![w] = "consumed"]
          /\ UNCHANGED <<events, call, out>>
       \/ /\ ~Consumable(token)
          /\ End(w, "denied")
          /\ UNCHANGED <<row, events>>
    /\ UNCHANGED <<clock, issued, ran>>

\* consume: one transaction registers the permit, marks its one use and
\* journals it, or refuses it and changes nothing.
Consume(w) ==
    LET token == call[w].token
        p     == token.permit_id
    IN
    /\ pc[w] = "authorized"
    /\ \/ /\ Consumable(token)
          /\ row'    = [row EXCEPT ![p] = [status |-> "DISPATCHED", token |-> token,
                                           uses |-> @.uses + 1]]
          /\ events' = [events EXCEPT ![p] = Append(@, "PERMIT_CONSUMED")]
          /\ pc'     = [pc EXCEPT ![w] = "consumed"]
          /\ UNCHANGED <<call, out>>
       \/ /\ ~Consumable(token)
          /\ End(w, "denied")
          /\ UNCHANGED <<row, events>>
    /\ UNCHANGED <<clock, issued, ran>>

\* The write lock is not granted in time: nothing was written.
ConsumeLocked(w) ==
    /\ pc[w] = "authorized"
    /\ End(w, "raised")
    /\ UNCHANGED <<clock, issued, row, events, ran>>

\* The executor acts on the request and returns a value, serializable or not,
\* or it raises, having acted or not.
Acts(w) ==
    ran' = [ran EXCEPT ![call[w].token.permit_id] = Append(@, call[w].request)]

Execute(w) ==
    /\ pc[w] = "consumed"
    /\ \/ /\ Acts(w)
          /\ pc' = [pc EXCEPT ![w] = "returned"]
       \/ /\ Acts(w)
          /\ pc' = [pc EXCEPT ![w] = "unserializable"]
       \/ /\ Acts(w) \/ UNCHANGED ran
          /\ pc' = [pc EXCEPT ![w] = "raised"]
    /\ UNCHANGED <<clock, issued, row, events, call, out>>

\* A value that was returned and can be stored settles the permit; anything
\* else leaves its outcome to reconciliation.
Decision(w) == IF pc[w] = "returned" THEN "SETTLED" ELSE "PENDING_RECONCILIATION"

\* finalize: only a DISPATCHED permit, row and journal in one transaction.
Finalize(w) ==
    LET p == call[w].token.permit_id IN
    /\ pc[w] \in {"returned", "unserializable", "raised"}
    /\ row[p].status = "DISPATCHED"
    /\ row'    = [row EXCEPT ![p] = [status |-> Decision(w), token |-> @.token,
                                     uses |-> @.uses]]
    /\ events' = [events EXCEPT ![p] = Append(@, Decision(w))]
    /\ End(w, Decision(w))
    /\ UNCHANGED <<clock, issued, ran>>

\* The write lock is not granted in time: the exception leaves dispatch and
\* the row stays DISPATCHED.
FinalizeLocked(w) ==
    /\ pc[w] \in {"returned", "unserializable", "raised"}
    /\ End(w, "raised")
    /\ UNCHANGED <<clock, issued, row, events, ran>>

\* A worker dies and is started again.
Crash(w) ==
    /\ pc[w] # "idle"
    /\ End(w, "none")
    /\ UNCHANGED <<clock, issued, row, events, ran>>

Dispatch(w) ==
    \/ Consume(w) \/ ConsumeLocked(w) \/ Execute(w)
    \/ Finalize(w) \/ FinalizeLocked(w) \/ Crash(w)

Next ==
    \/ Tick
    \/ \E p \in Permit, req \in Request, ttl \in 1..MaxTtl : Issue(p, req, ttl)
    \/ \E w \in Worker :
          \/ \E token \in issued, req \in Request : Authorize(w, token, req)
          \/ Dispatch(w)

Spec == Init /\ [][Next]_vars

-----------------------------------------------------------------------------
(* Properties.                                                             *)

\* Nothing is done twice under one permit id, even if the authority signed
\* two tokens with it, workers race and crash, or an outcome was lost.
OneUse == \A p \in Permit : Len(ran[p]) <= 1

\* What was done under a permit is what the consumed token binds.
ExactBinding ==
    \A p \in Permit : \A i \in DOMAIN ran[p] : ran[p][i] = row[p].token.request

\* Row and journal tell the same story at every instant, so a crash between
\* any two steps leaves them consistent.
JournalMatches ==
    \A p \in Permit :
        events[p] = CASE row[p].status = "none"       -> <<>>
                      [] row[p].status = "DISPATCHED" -> <<"PERMIT_CONSUMED">>
                      [] OTHER -> <<"PERMIT_CONSUMED", row[p].status>>

\* "time does not restore authority": a consumed permit never becomes
\* consumable again and a terminal decision is never replaced.
NeverReopens ==
    [][\A p \in Permit :
        /\ row[p] # NoRow => row'[p] # NoRow
        /\ row[p].status \in Terminal => row'[p] = row[p]]_vars

\* A permit is a claim on its one use.
Claims == INSTANCE ExecClaims WITH
    Req     <- Permit,
    effects <- [p \in Permit |-> Len(ran[p])],
    status  <- [p \in Permit |-> CASE row[p].status = "none"       -> "CLAIMABLE"
                                   [] row[p].status = "DISPATCHED" -> "PENDING"
                                   [] OTHER                        -> "COMMITTED"],
    verdict <- [p \in Permit |-> CASE row[p].status \in {"none", "DISPATCHED"} -> "none"
                                   [] row[p].status = "SETTLED"                -> "ok"
                                   [] OTHER                                    -> "failed"]

\* Every step of the gateway is a step, or a stutter, of the abstract claims.
ImplementsClaims == Claims!ClaimsSpec
=============================================================================
