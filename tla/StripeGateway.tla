---------------------------- MODULE StripeGateway ----------------------------
(***************************************************************************)
(* The Stripe adapter of SafeAgent Boundary.  A dispatch durably           *)
(* correlates the permit with the request (prepare), lets the boundary     *)
(* consume the permit, creates a PaymentIntent under the idempotency key   *)
(* safeagent:{permit_id}, records what it observed, lets the boundary      *)
(* finalize the permit and records the boundary's decision.  Reconcilers   *)
(* read the PaymentIntent back, or replay the create; webhooks report its  *)
(* changes, late, twice, out of order or never.                            *)
(*                                                                         *)
(* Permits is the boundary: its steps are the boundary's part of a         *)
(* dispatch.  Stripe is modelled by what the adapter uses of it: one       *)
(* PaymentIntent per idempotency key, whose status changes until it is     *)
(* final, and one event for each status.                                   *)
(***************************************************************************)
EXTENDS Permits

CONSTANTS
    Reconciler,  \* threads that call reconcile
    Params,      \* what Stripe is asked for
    ParamsOf     \* Request -> the create parameters it leads to

ASSUME ParamsAssumption == ParamsOf \in [Request -> Params]

VARIABLES
    op,          \* Permit -> its row of stripe_operations: state, parameters,
                 \* known PaymentIntent, source of the last entry, decision
    journal,     \* stripe_webhook_events: the events journaled
    at,          \* Worker -> where the adapter's part of its dispatch stands
    rec,         \* Reconciler -> the reconcile it is in
    hook,        \* the webhook deliveries journaled and not applied yet
    intent,      \* Permit -> the status of the PaymentIntent under its key
    sent,        \* the events Stripe has emitted
    replayed     \* the permits whose create a reconciler has replayed

adapterVars == <<op, journal, at, rec, hook, intent, sent, replayed>>
stripeVars  == <<vars, adapterVars>>

\* "unlisted" is a status the adapter does not know.
Pending == {"processing", "unlisted"}
Final   == {"succeeded", "canceled"}
Status  == Pending \cup Final
NoOp    == [state |-> "none"]
Free    == [step |-> "free"]
Idle    == [step |-> "idle"]

\* Mutant: a status that is not known to be final is taken for success.
ClassifyOptimistic(status) == IF status = "canceled" THEN "REJECTED" ELSE "CONFIRMED"

Classify(status) == CASE status = "succeeded"  -> "CONFIRMED"
                      [] status = "canceled"   -> "REJECTED"
                      [] status = "processing" -> "OPEN"
                      [] OTHER                 -> "UNCERTAIN"

StripeInit ==
    /\ Init
    /\ op       = [p \in Permit |-> NoOp]
    /\ journal  = {}
    /\ at       = [w \in Worker |-> Free]
    /\ rec      = [o \in Reconciler |-> Idle]
    /\ hook     = {}
    /\ intent   = [p \in Permit |-> "absent"]
    /\ sent     = {}
    /\ replayed = {}

-----------------------------------------------------------------------------
(* The stripe_operations table; every statement is a transaction.          *)

\* record_observation: the last observation wins, whatever it follows.
Observe(p, status, source) ==
    op' = [op EXCEPT ![p] = [@ EXCEPT !.state = Classify(status), !.known = TRUE,
                                      !.source = source]]

\* record_error: the correlation is kept.
Fail(p, source) ==
    op' = [op EXCEPT ![p] = [@ EXCEPT !.state = "UNCERTAIN", !.source = source]]

-----------------------------------------------------------------------------
(* Stripe.                                                                 *)

\* create under the permit's key: a new PaymentIntent, processing or, when the
\* request confirms it, succeeded at once; or the one there is.
Created(p, status) ==
    /\ IF intent[p] = "absent" THEN status \in {"processing", "succeeded"}
                               ELSE status = intent[p]
    /\ intent' = [intent EXCEPT ![p] = status]
    /\ sent'   = sent \cup {[permit |-> p, status |-> status]}

NotCreated == UNCHANGED <<intent, sent>>

\* A PaymentIntent that is not final changes.
Resolve(p, status) ==
    /\ intent[p] \in Pending \ {status}
    /\ intent' = [intent EXCEPT ![p] = status]
    /\ sent'   = sent \cup {[permit |-> p, status |-> status]}
    /\ UNCHANGED <<vars, op, journal, at, rec, hook, replayed>>

-----------------------------------------------------------------------------
(* dispatch.                                                               *)

Goto(w, there) == at' = [at EXCEPT ![w] = there]

\* _authorize, before the boundary repeats it with the same now.
StripeAuthorize(w, token, req) ==
    /\ at[w] = Free
    /\ Authorize(w, token, req)
    /\ UNCHANGED adapterVars

\* prepare: one operation per permit; another request for it collides.
Prepare(w) ==
    LET p      == call[w].token.permit_id
        params == ParamsOf[call[w].request]
    IN
    /\ pc[w] = "authorized" /\ at[w] = Free
    /\ \/ /\ op[p] = NoOp
          /\ op' = [op EXCEPT ![p] = [state |-> "PREPARED", params |-> params,
                                      known |-> FALSE, source |-> "none",
                                      decision |-> "none"]]
          /\ Goto(w, [step |-> "prepared"])
          /\ UNCHANGED vars
       \/ /\ op[p] # NoOp /\ op[p].params = params
          /\ Goto(w, [step |-> "prepared"])
          /\ UNCHANGED <<vars, op>>
       \/ /\ op[p] # NoOp /\ op[p].params # params
          /\ End(w, "denied")
          /\ UNCHANGED <<clock, issued, row, events, ran, op, at>>
       \/ /\ End(w, "raised")                              \* the store is locked
          /\ UNCHANGED <<clock, issued, row, events, ran, op, at>>
    /\ UNCHANGED <<journal, rec, hook, intent, sent, replayed>>

StripeConsume(w) ==
    /\ at[w] = [step |-> "prepared"]
    /\ Consume(w) \/ ConsumeLocked(w)
    /\ Goto(w, IF pc'[w] = "idle" THEN Free ELSE at[w])
    /\ UNCHANGED <<op, journal, rec, hook, intent, sent, replayed>>

\* Mutant: Stripe is called once the operation is prepared.
CreateEarly(w, status) ==
    LET p == call[w].token.permit_id IN
    /\ at[w] = [step |-> "prepared"]
    /\ pc[w] = "authorized"
    /\ Created(p, status)
    /\ Goto(w, [step |-> "observe", status |-> status])
    /\ UNCHANGED <<vars, op, journal, rec, hook, replayed>>

\* create answers; recording the answer comes next, unless the store stays
\* locked and the executor raises after all.
CreateAnswered(w, status) ==
    LET p == call[w].token.permit_id IN
    /\ at[w] = [step |-> "prepared"]
    /\ Execute(w)
    /\ Acts(w)
    /\ Created(p, status)
    /\ \/ pc'[w] = "returned" /\ Goto(w, [step |-> "observe", status |-> status])
       \/ pc'[w] = "raised"   /\ Goto(w, [step |-> "done"])
    /\ UNCHANGED <<op, journal, rec, hook, replayed>>

\* create raises: the request never arrived, or its answer was lost.
CreateRaised(w) ==
    LET p == call[w].token.permit_id IN
    /\ at[w] = [step |-> "prepared"]
    /\ Execute(w)
    /\ pc'[w] = "raised"
    /\ \/ Acts(w) /\ \E status \in Status : Created(p, status)
       \/ UNCHANGED ran /\ NotCreated
    /\ Goto(w, [step |-> "error"])
    /\ UNCHANGED <<op, journal, rec, hook, replayed>>

RecordResponse(w) ==
    /\ at[w].step = "observe"
    /\ Observe(call[w].token.permit_id, at[w].status, "create_response")
    /\ Goto(w, [step |-> "done"])
    /\ UNCHANGED <<vars, journal, rec, hook, intent, sent, replayed>>

RecordError(w) ==
    /\ at[w].step = "error"
    /\ Fail(call[w].token.permit_id, "create") \/ UNCHANGED op
    /\ Goto(w, [step |-> "done"])
    /\ UNCHANGED <<vars, journal, rec, hook, intent, sent, replayed>>

\* Mutant: a dispatch that returns a receipt is recorded as SETTLED.
FinalizeOptimistic(w) ==
    LET p == call[w].token.permit_id IN
    /\ at[w].step = "done"
    /\ Finalize(w)
    /\ Goto(w, [step |-> "decide", permit |-> p, decision |-> "SETTLED"])
    /\ UNCHANGED <<op, journal, rec, hook, intent, sent, replayed>>

StripeFinalize(w) ==
    LET p == call[w].token.permit_id IN
    /\ at[w].step = "done"
    /\ \/ /\ Finalize(w)
          /\ Goto(w, [step |-> "decide", permit |-> p, decision |-> Decision(w)])
       \/ /\ FinalizeLocked(w)
          /\ Goto(w, Free)
    /\ UNCHANGED <<op, journal, rec, hook, intent, sent, replayed>>

\* record_boundary_decision, or the store is locked and dispatch raises.
RecordDecision(w) ==
    /\ at[w].step = "decide"
    /\ \/ op' = [op EXCEPT ![at[w].permit] = [@ EXCEPT !.decision = at[w].decision]]
       \/ UNCHANGED op
    /\ Goto(w, Free)
    /\ UNCHANGED <<vars, journal, rec, hook, intent, sent, replayed>>

StripeCrash(w) ==
    /\ Crash(w) \/ (pc[w] = "idle" /\ at[w] # Free /\ UNCHANGED vars)
    /\ Goto(w, Free)
    /\ UNCHANGED <<op, journal, rec, hook, intent, sent, replayed>>

-----------------------------------------------------------------------------
(* reconcile.                                                              *)

\* The operation is read once; it decides between retrieve and replay.
Reconcile(o, p) ==
    /\ rec[o] = Idle
    /\ op[p] # NoOp
    /\ rec' = [rec EXCEPT ![o] = [step |-> "call", permit |-> p, known |-> op[p].known]]
    /\ UNCHANGED <<vars, op, journal, at, hook, intent, sent, replayed>>

Retrieve(o) ==
    LET p == rec[o].permit IN
    /\ rec[o].step = "call" /\ rec[o].known
    /\ \/ rec' = [rec EXCEPT ![o] = [step |-> "record", permit |-> p,
                                     status |-> intent[p], source |-> "retrieve"]]
       \/ rec' = [rec EXCEPT ![o] = [step |-> "error", permit |-> p]]
    /\ UNCHANGED <<vars, op, journal, at, hook, intent, sent, replayed>>

\* The stored parameters under the stored key, whatever became of the permit.
Replay(o) ==
    LET p == rec[o].permit IN
    /\ rec[o].step = "call" /\ ~rec[o].known
    /\ \/ \E status \in Status :
             /\ Created(p, status)
             /\ \/ rec' = [rec EXCEPT ![o] = [step |-> "record", permit |-> p, status |-> status,
                                              source |-> "idempotent_replay"]]
                \/ rec' = [rec EXCEPT ![o] = [step |-> "error", permit |-> p]]
       \/ NotCreated /\ rec' = [rec EXCEPT ![o] = [step |-> "error", permit |-> p]]
    /\ replayed' = replayed \cup {p}
    /\ UNCHANGED <<vars, op, journal, at, hook>>

\* What was read is recorded, however old it is by now; a locked store takes
\* the exception branch.
ReconcileRecord(o) ==
    LET p == rec[o].permit IN
    /\ rec[o].step = "record"
    /\ \/ /\ Observe(p, rec[o].status, rec[o].source)
          /\ rec' = [rec EXCEPT ![o] = Idle]
       \/ /\ rec' = [rec EXCEPT ![o] = [step |-> "error", permit |-> p]]
          /\ UNCHANGED op
    /\ UNCHANGED <<vars, journal, at, hook, intent, sent, replayed>>

ReconcileError(o) ==
    /\ rec[o].step = "error"
    /\ Fail(rec[o].permit, "reconcile") \/ UNCHANGED op
    /\ rec' = [rec EXCEPT ![o] = Idle]
    /\ UNCHANGED <<vars, journal, at, hook, intent, sent, replayed>>

-----------------------------------------------------------------------------
(* ingest_webhook.                                                         *)

\* A delivery is journaled in a transaction of its own; an event that was
\* journaled before is ignored.
Journal(event) ==
    /\ event \notin journal
    /\ journal' = journal \cup {event}
    /\ hook'    = hook \cup {event}
    /\ UNCHANGED <<vars, op, at, rec, intent, sent, replayed>>

\* Then the operation is looked up by its PaymentIntent, and the observation
\* applied if it is known by now; a lock or a crash drops it.
ApplyWebhook(event) ==
    /\ hook' = hook \ {event}
    /\ \/ op[event.permit] # NoOp /\ op[event.permit].known
          /\ Observe(event.permit, event.status, "webhook")
       \/ UNCHANGED op
    /\ UNCHANGED <<vars, journal, at, rec, intent, sent, replayed>>

-----------------------------------------------------------------------------
StripeDispatch(w) ==
    \/ Prepare(w) \/ StripeConsume(w)
    \/ \E status \in Status : CreateAnswered(w, status)
    \/ CreateRaised(w) \/ RecordResponse(w) \/ RecordError(w)
    \/ StripeFinalize(w) \/ RecordDecision(w) \/ StripeCrash(w)

ReconcileStep(o) ==
    \/ \E p \in Permit : Reconcile(o, p)
    \/ Retrieve(o) \/ Replay(o) \/ ReconcileRecord(o) \/ ReconcileError(o)

Authority ==
    /\ \/ Tick
       \/ \E p \in Permit, req \in Request, ttl \in 1..MaxTtl : Issue(p, req, ttl)
    /\ UNCHANGED adapterVars

StripeNext ==
    \/ Authority
    \/ \E w \in Worker :
          \/ \E token \in issued, req \in Request : StripeAuthorize(w, token, req)
          \/ StripeDispatch(w)
    \/ \E o \in Reconciler : ReconcileStep(o)
    \/ \E p \in Permit, status \in Status : Resolve(p, status)
    \/ \E event \in sent : Journal(event)
    \/ \E event \in hook : ApplyWebhook(event)

StripeSpec == StripeInit /\ [][StripeNext]_stripeVars

-----------------------------------------------------------------------------
(* Properties.                                                             *)

\* A final verdict is never wrong, however late, repeated or out of order the
\* observation that led to it arrived.
VerdictIsTrue ==
    \A p \in Permit :
        /\ op[p].state = "CONFIRMED" => intent[p] = "succeeded"
        /\ op[p].state = "REJECTED"  => intent[p] = "canceled"

\* The decision stored beside the operation is the one the boundary made.
DecisionAgrees ==
    \A p \in Permit :
        op[p] # NoOp /\ op[p].decision # "none" => op[p].decision = row[p].status

\* Without a reconciler's replay, nothing is charged before the permit is
\* consumed.
OnlyReplayUnauthorized ==
    \A p \in Permit : intent[p] # "absent" /\ row[p] = NoRow => p \in replayed
=============================================================================
