--------------------------- MODULE BoundaryProofs -----------------------------
(***************************************************************************)
(* SafeAgent Boundary and its Stripe adapter, for any number of workers,   *)
(* reconcilers, permits and requests and any bounds.                       *)
(*                                                                         *)
(* Permits: it is well typed, a permit is used once and for exactly what   *)
(* its token binds, row and journal agree at every step, and the gateway   *)
(* implements ExecClaims with the permit as the claim.                     *)
(*                                                                         *)
(* StripeGateway: the adapter keeps every promise of the boundary it wraps, *)
(* which is argued once in the first part; verdicts are true although      *)
(* observations arrive late, twice and out of order; decisions agree with  *)
(* the boundary's; and only a reconciler's replay charges under a permit   *)
(* not consumed.                                                           *)
(***************************************************************************)
EXTENDS StripeGateway, SequenceTheorems, TLAPS

-----------------------------------------------------------------------------
(* Types.                                                                  *)

Places == {"idle", "authorized", "consumed", "returned", "unserializable", "raised"}

\* Places of a dispatch that has consumed its permit and has not finalized it.
Holding == {"consumed", "returned", "unserializable", "raised"}

LEMMA EndTyped ==
    ASSUME TypeOK, NEW w \in Worker, NEW outcome \in Outcome, End(w, outcome)
    PROVE  /\ pc'   \in [Worker -> Places]
           /\ call' \in [Worker -> Call \cup {NoCall}]
           /\ out'  \in [Worker -> Outcome]
  BY DEF TypeOK, End, Places

LEMMA AppendTyped ==
    ASSUME NEW S, NEW s \in Seq(S), NEW e \in S
    PROVE  Append(s, e) \in Seq(S)
  OBVIOUS

LEMMA AppendSecond ==
    ASSUME NEW d, NEW e
    PROVE  Append(<<d>>, e) = <<d, e>>
  <1> DEFINE S == {d, e}
             s == Append(<<d>>, e)
             u == <<d, e>>
  <1>1. <<d>> \in Seq(S) /\ u \in Seq(S) /\ Len(<<d>>) = 1 /\ Len(u) = 2
    OBVIOUS
  <1>2. s \in Seq(S) /\ Len(s) = 2
    BY <1>1
  <1>3. s[1] = d /\ s[2] = e
    BY <1>1
  <1>4. \A i \in 1..Len(s) : s[i] = u[i]
    BY <1>2, <1>3
  <1> HIDE DEF S, s, u
  <1>5. s = u
    BY <1>1, <1>2, <1>4, SeqEqual
  <1> QED
    BY <1>5 DEF s, u

LEMMA AppendFirst ==
    ASSUME NEW e
    PROVE  Len(Append(<<>>, e)) = 1
  <1>1. <<>> \in Seq({e}) /\ Len(<<>>) = 0
    BY EmptySeq
  <1> QED
    BY <1>1

LEMMA LengthUpToOne ==
    ASSUME NEW s, NEW e, s = <<>> \/ s = <<e>>
    PROVE  Len(s) <= 1
  <1>1. CASE s = <<>>
    BY <1>1, EmptySeq
  <1>2. CASE s = <<e>>
    BY <1>2
  <1> QED
    BY <1>1, <1>2

\* A dispatch that is under way has a call.
Calling == \A w \in Worker : pc[w] # "idle" => call[w] \in Call

\* What a step does to rows, journals and executions, whoever takes it.
LEMMA DecisionTyped ==
    ASSUME NEW w \in Worker
    PROVE  Decision(w) \in Terminal
  BY DEF Decision, Terminal

\* The specification never leaves its types, and a dispatch under way has a
\* token and a request.
TypeInv == TypeOK /\ Calling

LEMMA TypeInvInductive == TypeInv /\ [Next]_vars => TypeInv'
  <1> SUFFICES ASSUME TypeInv, [Next]_vars PROVE TypeInv'
    OBVIOUS
  <1> USE DEF TypeInv
  <1>1. CASE Tick
    BY <1>1, BoundsAssumption DEF Tick, TypeOK, Calling, Time
  <1>2. ASSUME NEW p \in Permit, NEW req \in Request, NEW ttl \in 1..MaxTtl, Issue(p, req, ttl)
        PROVE  TypeInv'
    <2> DEFINE token == [permit_id |-> p, request |-> req, issued_at |-> clock,
                         expires_at |-> clock + ttl]
    <2>1. clock + ttl \in 0..(MaxTime + MaxTtl)
      BY BoundsAssumption DEF TypeOK, Time
    <2>2. token \in Token
      BY <2>1 DEF Token, TypeOK
    <2>3. issued' \in SUBSET Token
      BY <1>2, <2>2 DEF Issue, TypeOK
    <2> QED
      BY <1>2, <2>3 DEF Issue, TypeOK, Calling
  <1>3. ASSUME NEW w \in Worker, NEW token \in issued, NEW req \in Request,
               Authorize(w, token, req)
        PROVE  TypeInv'
    <2>1. CASE Valid(token, req, clock)
      <3>1. [token |-> token, request |-> req, now |-> clock] \in Call
        BY DEF Call, TypeOK
      <3> QED
        BY <1>3, <2>1, <3>1 DEF Authorize, TypeOK, Calling
    <2>2. CASE ~Valid(token, req, clock)
      BY <1>3, <2>2, EndTyped DEF Authorize, TypeOK, Calling, Outcome, End, Places
    <2> QED
      BY <2>1, <2>2
  <1>4. ASSUME NEW w \in Worker, Consume(w) PROVE TypeInv'
    <2> DEFINE token == call[w].token
               p     == call[w].token.permit_id
    <2>1. token \in Token /\ p \in Permit
      BY <1>4 DEF Consume, Calling, Call, Token
    <2>2. CASE Consumable(token)
      <3>1. row[p].uses + 1 \in Nat
        BY <2>1, <2>2 DEF Consumable, NoRow
      <3>2. [status |-> "DISPATCHED", token |-> token, uses |-> row[p].uses + 1] \in Row
        BY <2>1, <3>1 DEF Row
      <3>3. row' \in [Permit -> Row \cup {NoRow}]
        <4>1. row \in [Permit -> Row \cup {NoRow}]
          BY DEF TypeOK
        <4>2. row' = [row EXCEPT ![p] = [status |-> "DISPATCHED", token |-> token, uses |-> row[p].uses + 1]]
          BY <1>4, <2>2 DEF Consume
        <4> QED
          BY <3>2, <4>1, <4>2
      <3>4. events' \in [Permit -> Seq({"PERMIT_CONSUMED"} \cup Terminal)]
        <4>1. Append(events[p], "PERMIT_CONSUMED") \in Seq({"PERMIT_CONSUMED"} \cup Terminal)
          BY <2>1, AppendTyped DEF TypeOK
        <4> QED
          BY <1>4, <2>1, <2>2, <4>1 DEF Consume, TypeOK
      <3> QED
        BY <1>4, <2>2, <3>3, <3>4 DEF Consume, TypeOK, Calling
    <2>3. CASE ~Consumable(token)
      BY <1>4, <2>3, EndTyped DEF Consume, TypeOK, Calling, Outcome, End, Places
    <2> QED
      BY <2>2, <2>3
  <1>5. ASSUME NEW w \in Worker, ConsumeLocked(w) PROVE TypeInv'
    BY <1>5, EndTyped DEF ConsumeLocked, TypeOK, Calling, Outcome, End, Places
  <1>6. ASSUME NEW w \in Worker, Execute(w) PROVE TypeInv'
    <2> DEFINE p == call[w].token.permit_id
    <2>1. call[w].request \in Request /\ p \in Permit
      BY <1>6 DEF Execute, Calling, Call, Token
    <2>2. ran' \in [Permit -> Seq(Request)]
      <3>1. Append(ran[p], call[w].request) \in Seq(Request)
        BY <2>1, AppendTyped DEF TypeOK
      <3> QED
        BY <1>6, <2>1, <3>1 DEF Execute, Acts, TypeOK
    <2> QED
      BY <1>6, <2>2 DEF Execute, TypeOK, Calling
  <1>7. ASSUME NEW w \in Worker, Finalize(w) PROVE TypeInv'
    <2> DEFINE p == call[w].token.permit_id
    <2>1. p \in Permit
      BY <1>7 DEF Finalize, Calling, Call, Token
    <2>2. row[p] \in Row
      BY <1>7, <2>1 DEF Finalize, TypeOK, NoRow
    <2>3. [status |-> Decision(w), token |-> row[p].token, uses |-> row[p].uses] \in Row
      BY <2>2, DecisionTyped DEF Row
    <2>4. row' \in [Permit -> Row \cup {NoRow}]
      BY <1>7, <2>1, <2>3 DEF Finalize, TypeOK
    <2>5. events' \in [Permit -> Seq({"PERMIT_CONSUMED"} \cup Terminal)]
      BY <1>7, <2>1, DecisionTyped DEF Finalize, TypeOK
    <2> QED
      BY <1>7, <2>4, <2>5, EndTyped, DecisionTyped
      DEF Finalize, TypeOK, Calling, Outcome, End, Places
  <1>8. ASSUME NEW w \in Worker, FinalizeLocked(w) \/ Crash(w) PROVE TypeInv'
    BY <1>8, EndTyped DEF FinalizeLocked, Crash, TypeOK, Calling, Outcome, End, Places
  <1>9. CASE UNCHANGED vars
    BY <1>9 DEF vars, TypeOK, Calling
  <1> QED
    BY <1>1, <1>2, <1>3, <1>4, <1>5, <1>6, <1>7, <1>8, <1>9 DEF Next, Dispatch

LEMMA TypeInvHolds == Spec => []TypeInv
  <1>1. Init => TypeInv
    BY BoundsAssumption DEF Init, TypeInv, TypeOK, Calling, Time, Outcome
  <1> QED
    BY <1>1, TypeInvInductive, PTL DEF Spec

\* Clock, tokens, rows, journals, dispatches and executions keep their types.
THEOREM PermitsTyped == Spec => []TypeOK
  BY TypeInvHolds, PTL DEF TypeInv

-----------------------------------------------------------------------------
(* One use, exact binding, and the journal.                                *)

\* What dispatch w is about.
PermitOf(w) == call[w].token.permit_id

\* A dispatch under way is for the request its token binds; one that holds a
\* permit finds it DISPATCHED with its own token, and no other dispatch holds
\* that permit.
Bound ==
    \A w \in Worker : pc[w] # "idle" => call[w].request = call[w].token.request

HolderRow ==
    \A w \in Worker : pc[w] \in Holding =>
        /\ row[PermitOf(w)].status = "DISPATCHED"
        /\ row[PermitOf(w)].token = call[w].token

OneHolder ==
    \A v, w \in Worker :
        pc[v] \in Holding /\ pc[w] \in Holding /\ PermitOf(v) = PermitOf(w) => v = w

\* A permit without a row, or whose holder has not called the executor, has
\* done nothing; one whose executor returned has done one thing.
Unused ==
    /\ \A p \in Permit : row[p] = NoRow => ran[p] = <<>>
    /\ \A w \in Worker : pc[w] = "consumed" => ran[PermitOf(w)] = <<>>
    /\ \A w \in Worker : pc[w] = "returned" => Len(ran[PermitOf(w)]) = 1

\* JournalMatches for one permit.
JournalOf(p) ==
    events[p] = CASE row[p].status = "none"       -> <<>>
                  [] row[p].status = "DISPATCHED" -> <<"PERMIT_CONSUMED">>
                  [] OTHER -> <<"PERMIT_CONSUMED", row[p].status>>

SafetyInv == Bound /\ HolderRow /\ OneHolder /\ Unused /\ OneUse /\ ExactBinding /\ JournalMatches

LEMMA RowPresent ==
    ASSUME TypeOK, NEW p \in Permit
    PROVE  row[p] = NoRow <=> row[p].status = "none"
  <1>1. CASE row[p] = NoRow
    BY <1>1 DEF NoRow
  <1>2. CASE row[p] \in Row
    <2>1. row[p].status \in {"DISPATCHED", "SETTLED", "PENDING_RECONCILIATION"}
      BY <1>2 DEF Row, Terminal
    <2>2. row[p].status # "none"
      BY <2>1
    <2> QED
      BY <2>2 DEF NoRow
  <1> QED
    BY <1>1, <1>2 DEF TypeOK

\* A dispatch that ends without touching the store keeps the invariant.
LEMMA EndSafe ==
    ASSUME TypeInv, SafetyInv, NEW w \in Worker, NEW outcome \in Outcome,
           End(w, outcome), UNCHANGED <<row, events, ran>>
    PROVE  SafetyInv'
  <1> USE DEF TypeInv, SafetyInv
  <1>1. \A v \in Worker : pc'[v] # "idle" => /\ v # w
                                             /\ pc'[v] = pc[v]
                                             /\ call'[v] = call[v]
    BY DEF End, TypeOK
  <1>2. Bound' /\ HolderRow' /\ OneHolder'
    BY <1>1 DEF Bound, HolderRow, OneHolder, PermitOf, Holding
  <1>3. Unused'
    BY <1>1 DEF Unused, PermitOf
  <1>4. OneUse' /\ ExactBinding' /\ JournalMatches'
    BY DEF OneUse, ExactBinding, JournalMatches
  <1> QED
    BY <1>2, <1>3, <1>4

LEMMA AuthorizeSafe ==
    ASSUME TypeInv, SafetyInv, NEW w \in Worker, NEW token \in issued, NEW req \in Request,
           Authorize(w, token, req)
    PROVE  SafetyInv'
  <1> USE DEF TypeInv, SafetyInv
  <1>1. CASE Valid(token, req, clock)
    <2>1. /\ pc' = [pc EXCEPT ![w] = "authorized"]
          /\ call'[w].token = token /\ call'[w].request = req
          /\ \A v \in Worker : v # w => pc'[v] = pc[v] /\ call'[v] = call[v]
          /\ UNCHANGED <<row, events, ran>>
      BY <1>1 DEF Authorize, TypeOK
    <2>2. Bound'
      BY <1>1, <2>1 DEF Bound, Valid, TypeOK
    <2>3. \A v \in Worker : pc'[v] \in Holding => v # w /\ pc[v] \in Holding
      BY <2>1 DEF Holding, TypeOK
    <2>4. HolderRow' /\ OneHolder'
      BY <2>1, <2>3 DEF HolderRow, OneHolder, PermitOf
    <2>5. Unused'
      BY <2>1, <2>3 DEF Unused, PermitOf, Holding
    <2>6. OneUse' /\ ExactBinding' /\ JournalMatches'
      BY <2>1 DEF OneUse, ExactBinding, JournalMatches
    <2> QED
      BY <2>2, <2>4, <2>5, <2>6
  <1>2. CASE ~Valid(token, req, clock)
    BY <1>2, EndSafe DEF Authorize, Outcome
  <1> QED
    BY <1>1, <1>2

\* What a successful consume does.
Consumed(w) ==
    LET p == PermitOf(w) IN
    /\ pc[w] = "authorized"
    /\ row[p] = NoRow
    /\ row'[p].status = "DISPATCHED" /\ row'[p].token = call[w].token
    /\ events'[p] = Append(events[p], "PERMIT_CONSUMED")
    /\ \A q \in Permit : q # p => row'[q] = row[q] /\ events'[q] = events[q]
    /\ pc' = [pc EXCEPT ![w] = "consumed"]
    /\ UNCHANGED <<call, ran>>

LEMMA ConsumeSteps ==
    ASSUME TypeInv, NEW w \in Worker, Consume(w)
    PROVE  \/ Consumed(w)
           \/ End(w, "denied") /\ UNCHANGED <<row, events, ran>>
  <1> DEFINE p == call[w].token.permit_id
  <1>1. p \in Permit
    BY DEF Consume, TypeInv, Calling, Call, Token
  <1>2. CASE Consumable(call[w].token)
    <2>1. /\ pc[w] = "authorized"
          /\ row[p] = NoRow
          /\ row' = [row EXCEPT ![p] = [status |-> "DISPATCHED", token |-> call[w].token,
                                        uses |-> row[p].uses + 1]]
          /\ events' = [events EXCEPT ![p] = Append(events[p], "PERMIT_CONSUMED")]
          /\ pc' = [pc EXCEPT ![w] = "consumed"]
          /\ UNCHANGED <<call, ran>>
      BY <1>2 DEF Consume, Consumable
    <2>2. row'[p] = [status |-> "DISPATCHED", token |-> call[w].token,
                     uses |-> row[p].uses + 1]
      BY <1>1, <2>1 DEF TypeInv, TypeOK
    <2>3. events'[p] = Append(events[p], "PERMIT_CONSUMED")
      BY <1>1, <2>1 DEF TypeInv, TypeOK
    <2>4. \A q \in Permit : q # p => row'[q] = row[q] /\ events'[q] = events[q]
      BY <2>1 DEF TypeInv, TypeOK
    <2>5. row'[p].status = "DISPATCHED" /\ row'[p].token = call[w].token
      BY <2>2
    <2> QED
      BY <2>1, <2>3, <2>4, <2>5 DEF Consumed, PermitOf
  <1>3. CASE ~Consumable(call[w].token)
    BY <1>3 DEF Consume
  <1> QED
    BY <1>2, <1>3

LEMMA ConsumedSafe ==
    ASSUME TypeInv, SafetyInv, NEW w \in Worker, Consumed(w)
    PROVE  SafetyInv'
  <1> USE DEF TypeInv, SafetyInv
  <1> DEFINE p == PermitOf(w)
  <1>0. p \in Permit
    BY DEF Consumed, PermitOf, Calling, Call, Token
  <1>1. /\ pc'[w] = "consumed"
        /\ \A v \in Worker : v # w => pc'[v] = pc[v]
        /\ UNCHANGED <<call, ran>>
    BY DEF Consumed, TypeOK
  <1>2. \A v \in Worker : pc[v] \in Holding => PermitOf(v) # p
    BY DEF HolderRow, Consumed, NoRow
  <1>3. Bound'
    BY <1>1 DEF Bound, Consumed
  <1>4. HolderRow'
    <2>1. ASSUME NEW v \in Worker, v # w, pc[v] \in Holding
          PROVE  row'[PermitOf(v)] = row[PermitOf(v)]
      <3>1. PermitOf(v) \in Permit
        BY <2>1 DEF Calling, Call, Token, PermitOf, Holding
      <3> QED
        BY <2>1, <3>1, <1>2 DEF Consumed
    <2> QED
      BY <1>1, <2>1 DEF HolderRow, Consumed, PermitOf
  <1>5. OneHolder'
    BY <1>1, <1>2 DEF OneHolder, PermitOf, Holding
  <1>6. \A q \in Permit : q # p => row'[q] = row[q] /\ events'[q] = events[q]
    BY DEF Consumed
  <1>7. row[p] = NoRow /\ row'[p].status = "DISPATCHED" /\ row'[p].token = call[w].token
        /\ events'[p] = Append(events[p], "PERMIT_CONSUMED")
    BY DEF Consumed
  <1>8. Unused'
    <2>1. \A q \in Permit : row'[q] = NoRow => row[q] = NoRow
      BY <1>6, <1>7
    <2> QED
      BY <1>0, <1>1, <1>7, <2>1 DEF Unused, PermitOf
  <1>9. OneUse'
    BY <1>1 DEF OneUse
  <1>10. ExactBinding'
    <2>1. ran[p] = <<>>
      BY <1>0, <1>7 DEF Unused
    <2>2. \A i \in DOMAIN ran'[p] : FALSE
      BY <1>1, <2>1
    <2> QED
      BY <1>1, <1>6, <2>2 DEF ExactBinding
  <1>11. JournalMatches'
    <2>1. events[p] = <<>>
      <3>1. JournalOf(p)
        BY <1>0 DEF JournalMatches, JournalOf
      <3>2. row[p].status = "none"
        BY <1>7 DEF NoRow
      <3> QED
        BY <3>1, <3>2 DEF JournalOf
    <2>2. events'[p] = <<"PERMIT_CONSUMED">>
      BY <1>7, <2>1
    <2>3. \A q \in Permit : JournalOf(q)'
      <3> TAKE q \in Permit
      <3>1. CASE q = p
        BY <3>1, <1>7, <2>2 DEF JournalOf
      <3>2. CASE q # p
        BY <3>2, <1>6 DEF JournalOf, JournalMatches
      <3> QED
        BY <3>1, <3>2
    <2> QED
      BY <2>3 DEF JournalMatches, JournalOf
  <1> QED
    BY <1>3, <1>4, <1>5, <1>8, <1>9, <1>10, <1>11

\* What the executor may do: act once on the request, or not act.
Executed(w) ==
    LET p == PermitOf(w) IN
    /\ pc[w] = "consumed"
    /\ pc'[w] \in {"returned", "unserializable", "raised"}
    /\ \A v \in Worker : v # w => pc'[v] = pc[v]
    /\ \/ ran'[p] = Append(ran[p], call[w].request)
       \/ ran'[p] = ran[p] /\ pc'[w] # "returned"
    /\ \A q \in Permit : q # p => ran'[q] = ran[q]
    /\ UNCHANGED <<row, events, call>>

LEMMA ExecuteSteps ==
    ASSUME TypeInv, NEW w \in Worker, Execute(w)
    PROVE  Executed(w)
  <1> DEFINE p == call[w].token.permit_id
  <1>1. p \in Permit
    BY DEF Execute, TypeInv, Calling, Call, Token
  <1>2. /\ pc[w] = "consumed"
        /\ pc'[w] \in {"returned", "unserializable", "raised"}
        /\ \A v \in Worker : v # w => pc'[v] = pc[v]
        /\ UNCHANGED <<row, events, call>>
    BY DEF Execute, TypeInv, TypeOK
  <1>3. CASE Acts(w)
    <2>1. ran'[p] = Append(ran[p], call[w].request)
      BY <1>1, <1>3 DEF Acts, TypeInv, TypeOK
    <2>2. \A q \in Permit : q # p => ran'[q] = ran[q]
      BY <1>3 DEF Acts, TypeInv, TypeOK
    <2> QED
      BY <1>2, <2>1, <2>2 DEF Executed, PermitOf
  <1>4. CASE ~Acts(w)
    <2>1. UNCHANGED ran /\ pc'[w] = "raised"
      BY <1>4 DEF Execute, TypeInv, TypeOK
    <2> QED
      BY <1>2, <2>1 DEF Executed, PermitOf
  <1> QED
    BY <1>3, <1>4

LEMMA ExecutedSafe ==
    ASSUME TypeInv, SafetyInv, NEW w \in Worker, Executed(w)
    PROVE  SafetyInv'
  <1> USE DEF TypeInv, SafetyInv
  <1> DEFINE p == PermitOf(w)
  <1>0. p \in Permit
    BY DEF Executed, PermitOf, Calling, Call, Token
  <1>1. /\ pc'[w] \in {"returned", "unserializable", "raised"}
        /\ \A v \in Worker : v # w => pc'[v] = pc[v]
        /\ UNCHANGED <<row, events, call>>
        /\ pc[w] = "consumed"
    BY DEF Executed
  <1>2. \A v \in Worker : pc'[v] \in Holding => pc[v] \in Holding
    BY <1>1 DEF Holding
  <1>3. Bound'
    BY <1>1 DEF Bound
  <1>4. HolderRow' /\ OneHolder'
    BY <1>1, <1>2 DEF HolderRow, OneHolder, PermitOf
  <1>5. /\ ran[p] = <<>>
        /\ row[p].status = "DISPATCHED"
        /\ row[p].token = call[w].token
        /\ call[w].request = call[w].token.request
        /\ call[w].request \in Request
    BY <1>1 DEF Unused, HolderRow, Bound, Holding, Calling, Call
  <1>6. ran'[p] = <<>> \/ ran'[p] = <<call[w].request>>
    BY <1>5 DEF Executed
  <1>7. pc'[w] = "returned" => ran'[p] = <<call[w].request>>
    BY <1>5 DEF Executed
  <1>8. \A q \in Permit : q # p => ran'[q] = ran[q]
    BY DEF Executed
  <1>9. Unused'
    <2>1. ASSUME NEW q \in Permit, row'[q] = NoRow PROVE ran'[q] = <<>>
      <3>1. q # p
        BY <2>1, <1>1, <1>5 DEF NoRow
      <3> QED
        BY <2>1, <3>1, <1>1, <1>8 DEF Unused
    <2>2. ASSUME NEW v \in Worker, v # w, pc[v] \in Holding
          PROVE  ran'[PermitOf(v)] = ran[PermitOf(v)]
      <3>1. PermitOf(v) \in Permit
        BY <2>2 DEF Calling, Call, Token, PermitOf, Holding
      <3>2. PermitOf(v) # p
        BY <2>2, <1>1 DEF OneHolder, Holding
      <3> QED
        BY <3>1, <3>2, <1>8
    <2>3. ASSUME NEW v \in Worker, pc'[v] = "consumed" PROVE ran'[PermitOf(v)] = <<>>
      BY <2>2, <2>3, <1>1 DEF Unused, Holding
    <2>4. ASSUME NEW v \in Worker, pc'[v] = "returned" PROVE Len(ran'[PermitOf(v)]) = 1
      <3>1. CASE v = w
        BY <3>1, <2>4, <1>7
      <3>2. CASE v # w
        BY <3>2, <2>2, <2>4, <1>1 DEF Unused, Holding
      <3> QED
        BY <3>1, <3>2
    <2> QED
      BY <2>1, <2>3, <2>4, <1>1 DEF Unused, PermitOf
  <1>10. OneUse'
    <2>1. Len(ran'[p]) <= 1
      BY <1>6, LengthUpToOne
    <2>2. \A q \in Permit : q # p => Len(ran'[q]) <= 1
      BY <1>8 DEF OneUse
    <2> QED
      BY <2>1, <2>2 DEF OneUse
  <1>11. ExactBinding'
    <2>1. \A i \in DOMAIN ran'[p] : ran'[p][i] = call[w].request
      BY <1>6
    <2> QED
      BY <2>1, <1>1, <1>5, <1>8 DEF ExactBinding
  <1>12. JournalMatches'
    BY <1>1 DEF JournalMatches
  <1> QED
    BY <1>3, <1>4, <1>9, <1>10, <1>11, <1>12

\* What finalize does: the row gets its decision, the dispatch is over.
Finalized(w) ==
    LET p == PermitOf(w) IN
    /\ pc[w] \in Holding
    /\ Decision(w) = "SETTLED" => pc[w] = "returned"
    /\ row[p].status = "DISPATCHED"
    /\ row'[p].status = Decision(w) /\ row'[p].token = row[p].token
    /\ events'[p] = Append(events[p], Decision(w))
    /\ \A q \in Permit : q # p => row'[q] = row[q] /\ events'[q] = events[q]
    /\ End(w, Decision(w))
    /\ UNCHANGED ran

LEMMA FinalizeSteps ==
    ASSUME TypeInv, NEW w \in Worker, Finalize(w)
    PROVE  Finalized(w)
  <1> DEFINE p == call[w].token.permit_id
  <1>1. p \in Permit
    BY DEF Finalize, TypeInv, Calling, Call, Token
  <1>2. /\ pc[w] \in Holding
        /\ row[p].status = "DISPATCHED"
        /\ End(w, Decision(w))
        /\ UNCHANGED ran
        /\ Decision(w) = "SETTLED" => pc[w] = "returned"
    BY DEF Finalize, Holding, Decision
  <1>3. row'[p] = [status |-> Decision(w), token |-> row[p].token, uses |-> row[p].uses]
    BY <1>1 DEF Finalize, TypeInv, TypeOK
  <1>4. events'[p] = Append(events[p], Decision(w))
    BY <1>1 DEF Finalize, TypeInv, TypeOK
  <1>5. \A q \in Permit : q # p => row'[q] = row[q] /\ events'[q] = events[q]
    BY DEF Finalize, TypeInv, TypeOK
  <1>6. row'[p].status = Decision(w) /\ row'[p].token = row[p].token
    BY <1>3
  <1> QED
    BY <1>2, <1>4, <1>5, <1>6 DEF Finalized, PermitOf

LEMMA FinalizedSafe ==
    ASSUME TypeInv, SafetyInv, NEW w \in Worker, Finalized(w)
    PROVE  SafetyInv'
  <1> USE DEF TypeInv, SafetyInv
  <1> DEFINE p == PermitOf(w)
  <1>0. p \in Permit
    BY DEF Finalized, PermitOf, Calling, Call, Token, Holding
  <1>1. \A v \in Worker : pc'[v] # "idle" => /\ v # w
                                             /\ pc'[v] = pc[v]
                                             /\ call'[v] = call[v]
    BY DEF Finalized, End, TypeOK
  <1>2. \A q \in Permit : q # p => row'[q] = row[q] /\ events'[q] = events[q]
    BY DEF Finalized
  <1>3. ASSUME NEW v \in Worker, pc'[v] \in Holding
        PROVE  /\ PermitOf(v) \in Permit
               /\ PermitOf(v) # p
    <2>1. pc[v] \in Holding /\ v # w
      BY <1>1, <1>3 DEF Holding
    <2>2. PermitOf(v) \in Permit
      BY <2>1 DEF Calling, Call, Token, PermitOf, Holding
    <2> QED
      BY <2>1, <2>2 DEF OneHolder, Finalized
  <1>4. Bound'
    BY <1>1 DEF Bound
  <1>5. HolderRow'
    BY <1>1, <1>2, <1>3 DEF HolderRow, PermitOf, Holding
  <1>6. OneHolder'
    BY <1>1 DEF OneHolder, PermitOf, Holding
  <1>7. row'[p].status = Decision(w) /\ row'[p].token = row[p].token /\ UNCHANGED ran
        /\ row[p].status = "DISPATCHED" /\ events'[p] = Append(events[p], Decision(w))
    BY DEF Finalized
  <1>8. Decision(w) \in {"SETTLED", "PENDING_RECONCILIATION"}
    BY DEF Decision
  <1>9. Unused'
    <2>1. ASSUME NEW q \in Permit, row'[q] = NoRow PROVE ran'[q] = <<>>
      <3>1. q # p
        BY <2>1, <1>7, <1>8 DEF NoRow
      <3> QED
        BY <2>1, <3>1, <1>2, <1>7 DEF Unused
    <2> QED
      BY <2>1, <1>1, <1>7 DEF Unused, PermitOf
  <1>10. OneUse'
    BY <1>7 DEF OneUse
  <1>11. ExactBinding'
    BY <1>2, <1>7 DEF ExactBinding
  <1>12. JournalMatches'
    <2>1. events[p] = <<"PERMIT_CONSUMED">>
      <3>1. JournalOf(p)
        BY <1>0 DEF JournalMatches, JournalOf
      <3> QED
        BY <1>7, <3>1 DEF JournalOf
    <2>2. events'[p] = <<"PERMIT_CONSUMED", row'[p].status>>
      <3>1. Append(<<"PERMIT_CONSUMED">>, Decision(w)) = <<"PERMIT_CONSUMED", Decision(w)>>
        BY AppendSecond
      <3> QED
        BY <1>7, <2>1, <3>1
    <2>3. row'[p].status # "none" /\ row'[p].status # "DISPATCHED"
      BY <1>7, <1>8
    <2>4. \A q \in Permit : JournalOf(q)'
      <3> TAKE q \in Permit
      <3>1. CASE q = p
        BY <3>1, <2>2, <2>3 DEF JournalOf
      <3>2. CASE q # p
        BY <3>2, <1>2 DEF JournalOf, JournalMatches
      <3> QED
        BY <3>1, <3>2
    <2> QED
      BY <2>4 DEF JournalMatches, JournalOf
  <1> QED
    BY <1>4, <1>5, <1>6, <1>9, <1>10, <1>11, <1>12

LEMMA SafetyInvInductive == TypeInv /\ SafetyInv /\ [Next]_vars => SafetyInv'
  <1> SUFFICES ASSUME TypeInv, SafetyInv, [Next]_vars PROVE SafetyInv'
    OBVIOUS
  <1>1. CASE UNCHANGED <<row, events, pc, call, ran>>
    BY <1>1 DEF SafetyInv, Bound, HolderRow, OneHolder, Unused, PermitOf,
                OneUse, ExactBinding, JournalMatches
  <1>2. CASE Tick
    BY <1>1, <1>2 DEF Tick
  <1>3. ASSUME NEW p \in Permit, NEW req \in Request, NEW ttl \in 1..MaxTtl, Issue(p, req, ttl)
        PROVE  SafetyInv'
    BY <1>1, <1>3 DEF Issue
  <1>4. ASSUME NEW w \in Worker, NEW token \in issued, NEW req \in Request,
               Authorize(w, token, req)
        PROVE  SafetyInv'
    BY <1>4, AuthorizeSafe
  <1>5. ASSUME NEW w \in Worker, Consume(w) PROVE SafetyInv'
    BY <1>5, ConsumeSteps, ConsumedSafe, EndSafe DEF Outcome
  <1>6. ASSUME NEW w \in Worker, Execute(w) PROVE SafetyInv'
    BY <1>6, ExecuteSteps, ExecutedSafe
  <1>7. ASSUME NEW w \in Worker, Finalize(w) PROVE SafetyInv'
    BY <1>7, FinalizeSteps, FinalizedSafe
  <1>8. ASSUME NEW w \in Worker, ConsumeLocked(w) \/ FinalizeLocked(w) \/ Crash(w)
        PROVE  SafetyInv'
    BY <1>8, EndSafe DEF ConsumeLocked, FinalizeLocked, Crash, Outcome
  <1>9. CASE UNCHANGED vars
    BY <1>1, <1>9 DEF vars
  <1> QED
    BY <1>2, <1>3, <1>4, <1>5, <1>6, <1>7, <1>8, <1>9 DEF Next, Dispatch

LEMMA SafetyInvInitially == Init => SafetyInv
  <1> SUFFICES ASSUME Init PROVE SafetyInv
    OBVIOUS
  <1>1. \A w \in Worker : pc[w] = "idle"
    BY DEF Init
  <1>2. Bound /\ HolderRow /\ OneHolder
    BY <1>1 DEF Bound, HolderRow, OneHolder, Holding
  <1>3. Unused /\ OneUse /\ ExactBinding
    BY <1>1 DEF Init, Unused, OneUse, ExactBinding
  <1>4. JournalMatches
    BY DEF Init, JournalMatches, NoRow
  <1> QED
    BY <1>2, <1>3, <1>4 DEF SafetyInv

LEMMA SafetyInvHolds == Spec => []SafetyInv
  BY SafetyInvInitially, TypeInvHolds, SafetyInvInductive, PTL DEF Spec

\* Nothing is done twice under one permit id, for any number of workers that
\* race and crash and any tokens the authority signs with it.
THEOREM PermitsUsedOnce == Spec => []OneUse
  BY SafetyInvHolds, PTL DEF SafetyInv

\* What is done under a permit is what its consumed token binds.
THEOREM PermitsBindExactly == Spec => []ExactBinding
  BY SafetyInvHolds, PTL DEF SafetyInv

\* Row and journal of a permit agree in every reachable state.
THEOREM JournalsMatch == Spec => []JournalMatches
  BY SafetyInvHolds, PTL DEF SafetyInv

\* No step takes a row away or replaces a terminal decision.
LEMMA RowsStay ==
    TypeInv /\ SafetyInv /\ [Next]_vars =>
        \A p \in Permit :
            /\ row[p] # NoRow => row'[p] # NoRow
            /\ row[p].status \in Terminal => row'[p] = row[p]
  <1> SUFFICES ASSUME TypeInv, SafetyInv, [Next]_vars, NEW p \in Permit
               PROVE  /\ row[p] # NoRow => row'[p] # NoRow
                      /\ row[p].status \in Terminal => row'[p] = row[p]
    OBVIOUS
  <1>1. CASE UNCHANGED row
    BY <1>1
  <1>2. ASSUME NEW w \in Worker, Consume(w)
        PROVE  row[p] # NoRow => row'[p] = row[p]
    BY <1>2, ConsumeSteps DEF Consumed
  <1>3. ASSUME NEW w \in Worker, Finalize(w)
        PROVE  /\ row[p] # NoRow => row'[p] # NoRow
               /\ row[p].status \in Terminal => row'[p] = row[p]
    <2>1. Finalized(w)
      BY <1>3, FinalizeSteps
    <2>2. Decision(w) \in {"SETTLED", "PENDING_RECONCILIATION"}
      BY DEF Decision
    <2>3. CASE p = PermitOf(w)
      BY <2>1, <2>2, <2>3 DEF Finalized, NoRow, Terminal
    <2>4. CASE p # PermitOf(w)
      BY <2>1, <2>4 DEF Finalized
    <2> QED
      BY <2>3, <2>4
  <1>4. row[p].status \in Terminal => row[p] # NoRow
    BY DEF NoRow, Terminal
  <1> QED
    BY <1>1, <1>2, <1>3, <1>4
    DEF vars, Next, Dispatch, Tick, Issue, Authorize, ConsumeLocked, Execute, FinalizeLocked, Crash

\* A consumed permit never becomes consumable again and a terminal decision
\* is never replaced: time and restarts restore no authority.
THEOREM PermitsStayConsumed == Spec => NeverReopens
  BY RowsStay, TypeInvHolds, SafetyInvHolds, PTL DEF Spec, NeverReopens

-----------------------------------------------------------------------------
(* Refinement.                                                             *)

\* The status and the verdict of a permit as a claim.
StatusOf(p) ==
    CASE row[p].status = "none"       -> "CLAIMABLE"
      [] row[p].status = "DISPATCHED" -> "PENDING"
      [] OTHER                        -> "COMMITTED"

VerdictOf(p) ==
    CASE row[p].status \in {"none", "DISPATCHED"} -> "none"
      [] row[p].status = "SETTLED"                -> "ok"
      [] OTHER                                    -> "failed"

\* Every step of the gateway is a step of the abstract claims or a stutter:
\* a consumed permit is claimed, an executor that acts has the effect, and a
\* finalized permit is settled, as ok only if the executor returned.
LEMMA PermitStepsAreClaims ==
    TypeInv /\ SafetyInv /\ [Next]_vars => [Claims!ClaimsNext]_Claims!avars
  <1> SUFFICES ASSUME TypeInv, SafetyInv, [Next]_vars
               PROVE  Claims!ClaimsNext \/ UNCHANGED Claims!avars
    OBVIOUS
  <1>1. CASE UNCHANGED <<row, ran>>
    BY <1>1 DEF Claims!avars
  <1>2. ASSUME NEW w \in Worker, Consumed(w) PROVE Claims!ClaimsNext
    <2>1. PICK p \in Permit : p = PermitOf(w)
      BY <1>2 DEF Consumed, PermitOf, TypeInv, Calling, Call, Token
    <2>2. StatusOf(p) = "CLAIMABLE" /\ StatusOf(p)' = "PENDING"
          /\ VerdictOf(p) = "none" /\ VerdictOf(p)' = "none"
      BY <1>2, <2>1 DEF Consumed, StatusOf, VerdictOf, NoRow
    <2>3. \A q \in Permit : q # p => StatusOf(q)' = StatusOf(q) /\ VerdictOf(q)' = VerdictOf(q)
      BY <1>2, <2>1 DEF Consumed, StatusOf, VerdictOf
    <2>4. UNCHANGED ran
      BY <1>2 DEF Consumed
    <2>5. Claims!Claim(p)
      BY <2>2, <2>3, <2>4 DEF Claims!Claim, StatusOf, VerdictOf
    <2> QED
      BY <2>5 DEF Claims!ClaimsNext
  <1>3. ASSUME NEW w \in Worker, Executed(w) PROVE Claims!ClaimsNext \/ UNCHANGED Claims!avars
    <2>1. PICK p \in Permit : p = PermitOf(w)
      BY <1>3 DEF Executed, PermitOf, TypeInv, Calling, Call, Token
    <2>2. row[p].status = "DISPATCHED" /\ ran[p] = <<>> /\ UNCHANGED row
      BY <1>3, <2>1 DEF Executed, SafetyInv, HolderRow, Unused, Holding
    <2>3. ran' \in [Permit -> Seq(Request)] /\ ran \in [Permit -> Seq(Request)]
      BY TypeInvInductive DEF TypeInv, TypeOK
    <2>4. \A q \in Permit : q # p => ran'[q] = ran[q]
      BY <1>3, <2>1 DEF Executed
    <2>5. CASE ran'[p] = ran[p]
      <3>1. \A q \in Permit : ran'[q] = ran[q]
        BY <2>4, <2>5
      <3>2. ran' = ran
        BY <2>3, <3>1
      <3> QED
        BY <1>1, <2>2, <3>2
    <2>6. CASE ran'[p] # ran[p]
      <3>1. Len(ran'[p]) = 1 /\ Len(ran[p]) = 0
        BY <1>3, <2>1, <2>2, <2>6, AppendFirst, EmptySeq DEF Executed
      <3>2. StatusOf(p) = "PENDING"
        BY <2>2 DEF StatusOf
      <3>3. Claims!Effect(p)
        BY <2>2, <2>4, <3>1, <3>2 DEF Claims!Effect, StatusOf
      <3> QED
        BY <3>3 DEF Claims!ClaimsNext
    <2> QED
      BY <2>5, <2>6
  <1>4. ASSUME NEW w \in Worker, Finalized(w) PROVE Claims!ClaimsNext
    <2>1. PICK p \in Permit : p = PermitOf(w)
      BY <1>4 DEF Finalized, PermitOf, TypeInv, Calling, Call, Token, Holding
    <2>2. PICK v \in {"ok", "failed"} :
              v = IF Decision(w) = "SETTLED" THEN "ok" ELSE "failed"
      OBVIOUS
    <2>3. Decision(w) \in {"SETTLED", "PENDING_RECONCILIATION"}
      BY DEF Decision
    <2>4. StatusOf(p) = "PENDING" /\ StatusOf(p)' = "COMMITTED" /\ VerdictOf(p)' = v
      BY <1>4, <2>1, <2>2, <2>3 DEF Finalized, StatusOf, VerdictOf
    <2>5. \A q \in Permit : q # p => StatusOf(q)' = StatusOf(q) /\ VerdictOf(q)' = VerdictOf(q)
      BY <1>4, <2>1 DEF Finalized, StatusOf, VerdictOf
    <2>6. v = "ok" => Len(ran[p]) = 1
      BY <1>4, <2>1, <2>2, <2>3 DEF Finalized, SafetyInv, Unused
    <2>7. UNCHANGED ran
      BY <1>4 DEF Finalized
    <2>8. Claims!Settle(p, v)
      BY <2>4, <2>5, <2>6, <2>7 DEF Claims!Settle, StatusOf, VerdictOf
    <2> QED
      BY <2>2, <2>8 DEF Claims!ClaimsNext
  <1>5. ASSUME NEW w \in Worker, Consume(w) PROVE Claims!ClaimsNext \/ UNCHANGED Claims!avars
    BY <1>1, <1>2, <1>5, ConsumeSteps
  <1>6. ASSUME NEW w \in Worker, Execute(w) PROVE Claims!ClaimsNext \/ UNCHANGED Claims!avars
    BY <1>3, <1>6, ExecuteSteps
  <1>7. ASSUME NEW w \in Worker, Finalize(w) PROVE Claims!ClaimsNext
    BY <1>4, <1>7, FinalizeSteps
  <1> QED
    BY <1>1, <1>5, <1>6, <1>7
    DEF Next, Dispatch, vars, Tick, Issue, Authorize, ConsumeLocked, FinalizeLocked, Crash

\* The boundary implements the abstract claims, with permits as requests.
THEOREM PermitsAreClaims == Spec => ImplementsClaims
  <1>1. Init => Claims!ClaimsInit
    BY DEF Init, Claims!ClaimsInit, NoRow
  <1> QED
    BY <1>1, PermitStepsAreClaims, TypeInvHolds, SafetyInvHolds, PTL
    DEF Spec, ImplementsClaims, Claims!ClaimsSpec

-----------------------------------------------------------------------------
(* The boundary below the adapter.                                         *)

\* A dispatch the adapter refuses before the boundary sees it again.
Abandon(w) ==
    /\ pc[w] = "authorized"
    /\ End(w, "denied")
    /\ UNCHANGED <<clock, issued, row, events, ran>>

BoundaryStep == [Next]_vars \/ \E w \in Worker : Abandon(w)

\* What the adapter does to the boundary is a step of the boundary, nothing,
\* or a dispatch given up.
LEMMA BoundarySteps == [StripeNext]_stripeVars => BoundaryStep
  <1> SUFFICES ASSUME [StripeNext]_stripeVars PROVE BoundaryStep
    OBVIOUS
  <1>1. CASE UNCHANGED vars
    BY <1>1 DEF BoundaryStep
  <1>2. CASE UNCHANGED stripeVars
    BY <1>1, <1>2 DEF stripeVars
  <1>3. CASE Authority
    BY <1>3 DEF Authority, BoundaryStep, Next
  <1>4. ASSUME NEW w \in Worker, NEW token \in issued, NEW req \in Request,
               StripeAuthorize(w, token, req)
        PROVE  BoundaryStep
    BY <1>4 DEF StripeAuthorize, BoundaryStep, Next
  <1>5. ASSUME NEW w \in Worker, StripeDispatch(w) PROVE BoundaryStep
    <2>1. CASE Dispatch(w)
      BY <2>1 DEF BoundaryStep, Next
    <2>2. CASE Prepare(w)
      <3>1. UNCHANGED vars \/ Abandon(w) \/ ConsumeLocked(w)
        BY <2>2 DEF Prepare, Abandon, ConsumeLocked
      <3> QED
        BY <1>1, <2>1, <3>1 DEF BoundaryStep, Dispatch
    <2>3. StripeDispatch(w) => Dispatch(w) \/ Prepare(w) \/ UNCHANGED vars
      BY DEF StripeDispatch, StripeConsume, CreateAnswered, CreateRaised, RecordResponse,
             RecordError, StripeFinalize, RecordDecision, StripeCrash, Dispatch
    <2> QED
      BY <1>1, <1>5, <2>1, <2>2, <2>3
  <1>6. ASSUME NEW o \in Reconciler, ReconcileStep(o) PROVE UNCHANGED vars
    BY <1>6 DEF ReconcileStep, Reconcile, Retrieve, Replay, ReconcileRecord, ReconcileError
  <1>7. ASSUME NEW p \in Permit, NEW status \in Status, Resolve(p, status)
        PROVE  UNCHANGED vars
    BY <1>7 DEF Resolve
  <1>8. ASSUME NEW event, Journal(event) \/ ApplyWebhook(event) PROVE UNCHANGED vars
    BY <1>8 DEF Journal, ApplyWebhook
  <1> QED
    BY <1>1, <1>2, <1>3, <1>4, <1>5, <1>6, <1>7, <1>8 DEF StripeNext

Boundary == TypeInv /\ SafetyInv

LEMMA BoundaryKept == Boundary /\ [StripeNext]_stripeVars => Boundary'
  <1> SUFFICES ASSUME TypeInv, SafetyInv, BoundaryStep PROVE TypeInv' /\ SafetyInv'
    BY BoundarySteps DEF Boundary
  <1>1. CASE [Next]_vars
    BY <1>1, TypeInvInductive, SafetyInvInductive
  <1>2. ASSUME NEW w \in Worker, Abandon(w) PROVE TypeInv' /\ SafetyInv'
    BY <1>2, EndTyped, EndSafe DEF Abandon, TypeInv, TypeOK, Calling, Outcome, End, Places
  <1> QED
    BY <1>1, <1>2 DEF BoundaryStep

LEMMA BoundaryHolds == StripeSpec => []Boundary
  <1>1. StripeInit => Boundary
    <2>1. Init => TypeInv
      BY BoundsAssumption DEF Init, TypeInv, TypeOK, Calling, Time, Outcome
    <2>2. Init => SafetyInv
      BY SafetyInvInitially
    <2> QED
      BY <2>1, <2>2 DEF StripeInit, Boundary
  <1> QED
    BY <1>1, BoundaryKept, PTL DEF StripeSpec

\* The adapter takes no row away and replaces no terminal decision.
LEMMA RowsKept ==
    Boundary /\ [StripeNext]_stripeVars =>
        \A p \in Permit :
            /\ row[p] # NoRow => row'[p] # NoRow
            /\ row[p].status \in Terminal => row'[p] = row[p]
  BY BoundarySteps, RowsStay DEF Boundary, BoundaryStep, Abandon

\* Behind the adapter too, a permit is a claim: however dispatches, webhooks
\* and reconcilers meet, its executor acts at most once and its decision is
\* final.
THEOREM StripeDispatchesAreClaims == StripeSpec => ImplementsClaims
  <1>1. StripeInit => Claims!ClaimsInit
    BY DEF StripeInit, Init, Claims!ClaimsInit, NoRow
  <1>2. Boundary /\ [StripeNext]_stripeVars => [Claims!ClaimsNext]_Claims!avars
    <2> SUFFICES ASSUME Boundary, BoundaryStep PROVE [Claims!ClaimsNext]_Claims!avars
      BY BoundarySteps
    <2>1. ASSUME NEW w \in Worker, Abandon(w) PROVE UNCHANGED Claims!avars
      BY <2>1 DEF Abandon, Claims!avars
    <2> QED
      BY <2>1, PermitStepsAreClaims DEF Boundary, BoundaryStep
  <1> QED
    BY <1>1, <1>2, BoundaryHolds, PTL DEF StripeSpec, ImplementsClaims, Claims!ClaimsSpec

\* Nothing is done twice under one permit by dispatches of the adapter.
THEOREM StripeUsesOnce == StripeSpec => [](OneUse /\ ExactBinding)
  BY BoundaryHolds, PTL DEF Boundary, SafetyInv

-----------------------------------------------------------------------------
(* The shape of the adapter's state.                                       *)

Verdicts == {"PREPARED", "OPEN", "CONFIRMED", "REJECTED", "UNCERTAIN"}
Origins  == {"none", "create_response", "create", "idempotent_replay", "retrieve",
             "reconcile", "webhook"}
Ops      == [state : Verdicts, params : Params, known : BOOLEAN, source : Origins,
             decision : {"none"} \cup Terminal]
Told     == Status \cup {"absent"}
Stands   == [step : {"free", "prepared", "error", "done"}]
              \cup [step : {"observe"}, status : Status]
              \cup [step : {"decide"}, permit : Permit, decision : Terminal]
Recs     == [step : {"idle"}] \cup [step : {"call"}, permit : Permit, known : BOOLEAN]
              \cup [step : {"record"}, permit : Permit, status : Told, source : Origins]
              \cup [step : {"error"}, permit : Permit]
Events   == [permit : Permit, status : Status]

AdapterTypeOK ==
    /\ op       \in [Permit -> Ops \cup {NoOp}]
    /\ at       \in [Worker -> Stands]
    /\ rec      \in [Reconciler -> Recs]
    /\ intent   \in [Permit -> Told]
    /\ sent     \subseteq Events
    /\ journal  \subseteq sent
    /\ hook     \subseteq sent
    /\ replayed \subseteq Permit

\* Where the adapter stands in a dispatch goes with where the boundary does;
\* from prepare on there is an operation, for reconcilers too.
Placed ==
    \A w \in Worker :
        /\ at[w].step = "free"     => pc[w] \in {"idle", "authorized"}
        /\ at[w].step = "prepared" => pc[w] \in {"authorized", "consumed"}
        /\ at[w].step = "observe"  => pc[w] = "returned"
        /\ at[w].step = "error"    => pc[w] = "raised"
        /\ at[w].step = "done"     => pc[w] \in {"returned", "raised"}
        /\ at[w].step = "decide"   => pc[w] = "idle" /\ op[at[w].permit] # NoOp
        /\ at[w].step \in {"prepared", "observe", "error", "done"} => op[PermitOf(w)] # NoOp

Correlated == \A o \in Reconciler : rec[o].step # "idle" => op[rec[o].permit] # NoOp

Shape == AdapterTypeOK /\ Placed /\ Correlated

\* An operation stays once there is one.
OpsStay ==
    /\ op' \in [Permit -> Ops \cup {NoOp}]
    /\ \A p \in Permit : op[p] # NoOp => op'[p] # NoOp

LEMMA OpPresent ==
    ASSUME NEW o \in Ops
    PROVE  o # NoOp
  BY DEF Ops, NoOp, Verdicts

LEMMA ClassifyTyped ==
    ASSUME NEW status
    PROVE  Classify(status) \in Verdicts
  BY DEF Classify, Verdicts

LEMMA ObserveStays ==
    ASSUME AdapterTypeOK, NEW p \in Permit, op[p] # NoOp, NEW status, NEW source \in Origins,
           Observe(p, status, source)
    PROVE  OpsStay
  <1> DEFINE new == [op[p] EXCEPT !.state = Classify(status), !.known = TRUE, !.source = source]
  <1>1. op[p] \in Ops /\ op' = [op EXCEPT ![p] = new]
    BY DEF AdapterTypeOK, Observe
  <1>2. new \in Ops
    BY <1>1, ClassifyTyped DEF Ops
  <1>3. new # NoOp
    BY <1>2, OpPresent
  <1> HIDE DEF new
  <1> QED
    BY <1>1, <1>2, <1>3 DEF AdapterTypeOK, OpsStay

LEMMA FailStays ==
    ASSUME AdapterTypeOK, NEW p \in Permit, op[p] # NoOp, NEW source \in Origins,
           Fail(p, source)
    PROVE  OpsStay
  <1> DEFINE new == [op[p] EXCEPT !.state = "UNCERTAIN", !.source = source]
  <1>1. op[p] \in Ops /\ op' = [op EXCEPT ![p] = new]
    BY DEF AdapterTypeOK, Fail
  <1>2. new \in Ops
    BY <1>1 DEF Ops, Verdicts
  <1>3. new # NoOp
    BY <1>2, OpPresent
  <1> HIDE DEF new
  <1> QED
    BY <1>1, <1>2, <1>3 DEF AdapterTypeOK, OpsStay

LEMMA UnchangedStays ==
    ASSUME AdapterTypeOK, UNCHANGED op
    PROVE  OpsStay
  BY DEF AdapterTypeOK, OpsStay

\* What Stripe knows, and has emitted, after a step.
StripeTyped ==
    /\ intent' \in [Permit -> Told]
    /\ sent' \subseteq Events /\ sent \subseteq sent'

LEMMA CreatedTyped ==
    ASSUME AdapterTypeOK, NEW p \in Permit, NEW status \in Status, Created(p, status)
    PROVE  StripeTyped
  <1>1. [permit |-> p, status |-> status] \in Events
    BY DEF Events
  <1> QED
    BY <1>1 DEF AdapterTypeOK, Created, StripeTyped, Told

LEMMA NotCreatedTyped ==
    ASSUME AdapterTypeOK, UNCHANGED <<intent, sent>>
    PROVE  StripeTyped
  BY DEF AdapterTypeOK, StripeTyped

\* Placed for one worker.
PlacedAt(w) ==
    /\ at[w].step = "free"     => pc[w] \in {"idle", "authorized"}
    /\ at[w].step = "prepared" => pc[w] \in {"authorized", "consumed"}
    /\ at[w].step = "observe"  => pc[w] = "returned"
    /\ at[w].step = "error"    => pc[w] = "raised"
    /\ at[w].step = "done"     => pc[w] \in {"returned", "raised"}
    /\ at[w].step = "decide"   => pc[w] = "idle" /\ op[at[w].permit] # NoOp
    /\ at[w].step \in {"prepared", "observe", "error", "done"} => op[PermitOf(w)] # NoOp

\* What a step of w leaves alone.
OnlyMoves(w) ==
    \A v \in Worker \ {w} : pc'[v] = pc[v] /\ call'[v] = call[v] /\ at'[v] = at[v]

LEMMA CallPermit ==
    ASSUME TypeInv, NEW w \in Worker, pc[w] # "idle"
    PROVE  PermitOf(w) \in Permit
  BY DEF TypeInv, Calling, Call, Token, PermitOf

LEMMA OthersPlaced ==
    ASSUME TypeInv, Shape, NEW w \in Worker, OpsStay, OnlyMoves(w), PlacedAt(w)'
    PROVE  Placed'
  <1> SUFFICES ASSUME NEW v \in Worker \ {w} PROVE PlacedAt(v)'
    BY DEF Placed, PlacedAt
  <1>1. PlacedAt(v)
    BY DEF Shape, Placed, PlacedAt
  <1>2. pc'[v] = pc[v] /\ call'[v] = call[v] /\ at'[v] = at[v]
    BY DEF OnlyMoves
  <1>3. at[v].step \in {"prepared", "observe", "error", "done"} => PermitOf(v) \in Permit
    BY <1>1, CallPermit DEF PlacedAt
  <1>4. at[v].step = "decide" => at[v].permit \in Permit
    BY DEF Shape, AdapterTypeOK, Stands
  <1> QED
    BY <1>1, <1>2, <1>3, <1>4 DEF PlacedAt, PermitOf, OpsStay

LEMMA CorrelatedStays ==
    ASSUME Shape, OpsStay, UNCHANGED rec
    PROVE  Correlated'
  <1> SUFFICES ASSUME NEW o \in Reconciler, rec[o].step # "idle"
               PROVE  op'[rec[o].permit] # NoOp
    BY DEF Correlated
  <1>1. rec[o].permit \in Permit
    BY DEF Shape, AdapterTypeOK, Recs
  <1> QED
    BY <1>1 DEF Shape, Correlated, OpsStay

\* A step of a dispatch that keeps what is listed keeps the shape.
LEMMA DispatchKeepsShape ==
    ASSUME TypeInv, Shape, NEW w \in Worker, OpsStay, StripeTyped, OnlyMoves(w), PlacedAt(w)',
           at' \in [Worker -> Stands], UNCHANGED <<journal, rec, hook, replayed>>
    PROVE  Shape'
  <1>1. AdapterTypeOK'
    BY DEF Shape, AdapterTypeOK, OpsStay, StripeTyped
  <1> QED
    BY <1>1, OthersPlaced, CorrelatedStays DEF Shape

\* A step of the boundary's dispatch moves one worker, and an end clears it.
LEMMA EndMoves ==
    ASSUME TypeInv, NEW w \in Worker, NEW outcome, End(w, outcome)
    PROVE  pc'[w] = "idle" /\ \A v \in Worker \ {w} : pc'[v] = pc[v] /\ call'[v] = call[v]
  BY DEF TypeInv, TypeOK, End

LEMMA GotoMoves ==
    ASSUME AdapterTypeOK, NEW w \in Worker, NEW there \in Stands, Goto(w, there)
    PROVE  /\ at' \in [Worker -> Stands] /\ at'[w] = there
           /\ \A v \in Worker \ {w} : at'[v] = at[v]
  BY DEF AdapterTypeOK, Goto

LEMMA StandsTyped ==
    /\ Free \in Stands /\ [step |-> "prepared"] \in Stands
    /\ [step |-> "error"] \in Stands /\ [step |-> "done"] \in Stands
  BY DEF Free, Stands

LEMMA AuthorizeShape ==
    ASSUME TypeInv, Shape, NEW w \in Worker, NEW token \in issued, NEW req \in Request,
           StripeAuthorize(w, token, req)
    PROVE  Shape'
  <1>1. /\ pc'[w] \in {"idle", "authorized"}
        /\ \A v \in Worker \ {w} : pc'[v] = pc[v] /\ call'[v] = call[v]
    BY DEF StripeAuthorize, Authorize, End, TypeInv, TypeOK
  <1>2. at[w] = Free /\ UNCHANGED adapterVars
    BY DEF StripeAuthorize
  <1>3. PlacedAt(w)' /\ OnlyMoves(w)
    BY <1>1, <1>2 DEF PlacedAt, OnlyMoves, Free, adapterVars
  <1>4. OpsStay /\ StripeTyped /\ at' \in [Worker -> Stands]
    BY <1>2, UnchangedStays, NotCreatedTyped DEF Shape, adapterVars, AdapterTypeOK
  <1> QED
    BY <1>2, <1>3, <1>4, DispatchKeepsShape DEF adapterVars

LEMMA PrepareShape ==
    ASSUME TypeInv, Shape, NEW w \in Worker, Prepare(w)
    PROVE  Shape'
  <1> DEFINE p      == call[w].token.permit_id
             params == ParamsOf[call[w].request]
             new    == [state |-> "PREPARED", params |-> params, known |-> FALSE,
                        source |-> "none", decision |-> "none"]
  <1>1. pc[w] = "authorized" /\ at[w] = Free /\ p \in Permit /\ p = PermitOf(w)
        /\ UNCHANGED <<journal, rec, hook, replayed>> /\ StripeTyped
    BY CallPermit, NotCreatedTyped DEF Prepare, PermitOf, Shape
  <1>2. new \in Ops
    <2>1. params \in Params
      BY <1>1, ParamsAssumption DEF TypeInv, Calling, Call
    <2> QED
      BY <2>1 DEF Ops, Verdicts, Origins
  <1>3. CASE op[p] = NoOp /\ op' = [op EXCEPT ![p] = new] /\ Goto(w, [step |-> "prepared"])
             /\ UNCHANGED vars
    <2>1. OpsStay /\ op'[p] # NoOp
      <3>1. new # NoOp
        BY <1>2, OpPresent
      <3> HIDE DEF new, p
      <3> QED
        BY <1>1, <1>2, <1>3, <3>1 DEF OpsStay, Shape, AdapterTypeOK
    <2>2. at'[w] = [step |-> "prepared"] /\ at' \in [Worker -> Stands] /\ OnlyMoves(w)
      BY <1>3, GotoMoves, StandsTyped DEF Shape, OnlyMoves, vars
    <2>3. PlacedAt(w)'
      BY <1>1, <1>3, <2>1, <2>2 DEF PlacedAt, PermitOf, vars
    <2> QED
      BY <1>1, <2>1, <2>2, <2>3, DispatchKeepsShape
  <1>4. CASE op[p] # NoOp /\ Goto(w, [step |-> "prepared"]) /\ UNCHANGED <<vars, op>>
    <2>1. at'[w] = [step |-> "prepared"] /\ at' \in [Worker -> Stands] /\ OnlyMoves(w)
      BY <1>4, GotoMoves, StandsTyped DEF Shape, OnlyMoves, vars
    <2>2. PlacedAt(w)'
      BY <1>1, <1>4, <2>1 DEF PlacedAt, PermitOf, vars
    <2>3. OpsStay
      BY <1>4, UnchangedStays DEF Shape
    <2> QED
      BY <1>1, <2>1, <2>2, <2>3, DispatchKeepsShape
  <1>5. ASSUME NEW outcome, End(w, outcome), UNCHANGED <<op, at>> PROVE Shape'
    <2>1. OnlyMoves(w) /\ PlacedAt(w)'
      BY <1>1, <1>5, EndMoves DEF OnlyMoves, PlacedAt, Free
    <2>2. OpsStay /\ at' \in [Worker -> Stands]
      BY <1>5, UnchangedStays DEF Shape, AdapterTypeOK
    <2> QED
      BY <1>1, <2>1, <2>2, DispatchKeepsShape
  <1> QED
    BY <1>3, <1>4, <1>5 DEF Prepare

LEMMA ConsumeShape ==
    ASSUME TypeInv, Shape, NEW w \in Worker, StripeConsume(w)
    PROVE  Shape'
  <1>1. /\ at[w].step = "prepared"
        /\ UNCHANGED <<op, journal, rec, hook, intent, sent, replayed>>
        /\ OpsStay /\ StripeTyped
    BY UnchangedStays, NotCreatedTyped DEF StripeConsume, Shape
  <1>2. /\ \A v \in Worker \ {w} : pc'[v] = pc[v] /\ call'[v] = call[v]
        /\ \/ pc'[w] = "idle"
           \/ pc'[w] = "consumed" /\ call' = call
    <2>1. CASE Consume(w)
      BY <2>1, EndMoves DEF Consume, TypeInv, TypeOK
    <2>2. CASE ConsumeLocked(w)
      BY <2>2, EndMoves DEF ConsumeLocked
    <2> QED
      BY <2>1, <2>2 DEF StripeConsume
  <1>3. /\ at' \in [Worker -> Stands] /\ \A v \in Worker \ {w} : at'[v] = at[v]
        /\ at'[w] = IF pc'[w] = "idle" THEN Free ELSE at[w]
    <2>1. (IF pc'[w] = "idle" THEN Free ELSE at[w]) \in Stands
      BY StandsTyped DEF Shape, AdapterTypeOK
    <2> QED
      BY <2>1, GotoMoves DEF StripeConsume, Shape
  <1>4. op[PermitOf(w)] # NoOp
    BY <1>1 DEF Shape, Placed
  <1>5. PlacedAt(w)' /\ OnlyMoves(w)
    BY <1>1, <1>2, <1>3, <1>4 DEF PlacedAt, OnlyMoves, Free, PermitOf
  <1> QED
    BY <1>1, <1>3, <1>5, DispatchKeepsShape

\* The executor's step, whatever it does.
LEMMA ExecuteMoves ==
    ASSUME TypeInv, Shape, NEW w \in Worker, at[w] = [step |-> "prepared"], Execute(w)
    PROVE  /\ call' = call /\ op[PermitOf(w)] # NoOp /\ PermitOf(w) \in Permit
           /\ \A v \in Worker \ {w} : pc'[v] = pc[v]
  BY CallPermit DEF Execute, Shape, Placed, TypeInv, TypeOK

LEMMA AnsweredShape ==
    ASSUME TypeInv, Shape, NEW w \in Worker, NEW status \in Status, CreateAnswered(w, status)
    PROVE  Shape'
  <1>1. /\ call' = call /\ op[PermitOf(w)] # NoOp /\ PermitOf(w) \in Permit
        /\ \A v \in Worker \ {w} : pc'[v] = pc[v]
    BY ExecuteMoves DEF CreateAnswered
  <1>2. UNCHANGED <<op, journal, rec, hook, replayed>> /\ OpsStay /\ StripeTyped
    BY <1>1, UnchangedStays, CreatedTyped DEF CreateAnswered, Shape, PermitOf
  <1>3. [step |-> "observe", status |-> status] \in Stands
    BY DEF Stands
  <1>4. /\ at' \in [Worker -> Stands] /\ \A v \in Worker \ {w} : at'[v] = at[v]
        /\ \/ pc'[w] = "returned" /\ at'[w] = [step |-> "observe", status |-> status]
           \/ pc'[w] = "raised" /\ at'[w] = [step |-> "done"]
    BY <1>3, GotoMoves, StandsTyped DEF CreateAnswered, Shape
  <1>5. PlacedAt(w)' /\ OnlyMoves(w)
    BY <1>1, <1>2, <1>4 DEF PlacedAt, OnlyMoves, PermitOf
  <1> QED
    BY <1>2, <1>4, <1>5, DispatchKeepsShape

LEMMA RaisedShape ==
    ASSUME TypeInv, Shape, NEW w \in Worker, CreateRaised(w)
    PROVE  Shape'
  <1>1. /\ call' = call /\ op[PermitOf(w)] # NoOp /\ PermitOf(w) \in Permit
        /\ \A v \in Worker \ {w} : pc'[v] = pc[v]
    BY ExecuteMoves DEF CreateRaised
  <1>2. StripeTyped
    BY <1>1, CreatedTyped, NotCreatedTyped DEF CreateRaised, NotCreated, Shape, PermitOf
  <1>3. UNCHANGED <<op, journal, rec, hook, replayed>> /\ OpsStay
    BY UnchangedStays DEF CreateRaised, Shape
  <1>4. /\ at' \in [Worker -> Stands] /\ \A v \in Worker \ {w} : at'[v] = at[v]
        /\ pc'[w] = "raised" /\ at'[w] = [step |-> "error"]
    BY GotoMoves, StandsTyped DEF CreateRaised, Shape
  <1>5. PlacedAt(w)' /\ OnlyMoves(w)
    BY <1>1, <1>3, <1>4 DEF PlacedAt, OnlyMoves, PermitOf
  <1> QED
    BY <1>2, <1>3, <1>4, <1>5, DispatchKeepsShape

LEMMA RecordShape ==
    ASSUME TypeInv, Shape, NEW w \in Worker, RecordResponse(w) \/ RecordError(w)
    PROVE  Shape'
  <1>1. /\ at[w].step \in {"observe", "error"} /\ PermitOf(w) \in Permit
        /\ pc[w] \in {"returned", "raised"} /\ op[PermitOf(w)] # NoOp
    <2>1. at[w].step \in {"observe", "error"}
      BY DEF RecordResponse, RecordError
    <2>2. pc[w] \in {"returned", "raised"} /\ op[PermitOf(w)] # NoOp
      BY <2>1 DEF Shape, Placed
    <2> QED
      BY <2>1, <2>2, CallPermit
  <1>2. OpsStay
    BY <1>1, ObserveStays, FailStays, UnchangedStays
    DEF RecordResponse, RecordError, PermitOf, Shape, Origins
  <1>3. /\ at' \in [Worker -> Stands] /\ \A v \in Worker \ {w} : at'[v] = at[v]
        /\ at'[w] = [step |-> "done"]
    BY GotoMoves, StandsTyped DEF RecordResponse, RecordError, Shape
  <1>4. UNCHANGED <<vars, journal, rec, hook, intent, sent, replayed>> /\ StripeTyped
    BY NotCreatedTyped DEF RecordResponse, RecordError, Shape
  <1>5. PlacedAt(w)' /\ OnlyMoves(w)
    BY <1>1, <1>2, <1>3, <1>4 DEF PlacedAt, OnlyMoves, PermitOf, OpsStay, vars
  <1> QED
    BY <1>2, <1>3, <1>4, <1>5, DispatchKeepsShape

LEMMA FinalizeShape ==
    ASSUME TypeInv, Shape, NEW w \in Worker, StripeFinalize(w)
    PROVE  Shape'
  <1> DEFINE p      == call[w].token.permit_id
             decide == [step |-> "decide", permit |-> p, decision |-> Decision(w)]
  <1>1. PermitOf(w) \in Permit /\ op[PermitOf(w)] # NoOp
    <2>1. pc[w] \in {"returned", "raised"} /\ op[PermitOf(w)] # NoOp
      BY DEF StripeFinalize, Shape, Placed
    <2> QED
      BY <2>1, CallPermit
  <1>2. decide \in Stands
    BY <1>1, DecisionTyped DEF Stands, PermitOf
  <1>3. UNCHANGED <<op, journal, rec, hook, intent, sent, replayed>> /\ OpsStay /\ StripeTyped
    BY UnchangedStays, NotCreatedTyped DEF StripeFinalize, Shape
  <1>4. pc'[w] = "idle" /\ \A v \in Worker \ {w} : pc'[v] = pc[v] /\ call'[v] = call[v]
    BY EndMoves DEF StripeFinalize, Finalize, FinalizeLocked
  <1>5. /\ at' \in [Worker -> Stands] /\ \A v \in Worker \ {w} : at'[v] = at[v]
        /\ at'[w] = decide \/ at'[w] = Free
    BY <1>2, GotoMoves, StandsTyped DEF StripeFinalize, Shape
  <1>6. PlacedAt(w)' /\ OnlyMoves(w)
    BY <1>1, <1>3, <1>4, <1>5 DEF PlacedAt, OnlyMoves, PermitOf, Free
  <1> QED
    BY <1>3, <1>5, <1>6, DispatchKeepsShape

\* The operation whose decision is recorded, and what becomes of it.
LEMMA DecisionRecorded ==
    ASSUME Shape, NEW w \in Worker, RecordDecision(w), op' # op
    PROVE  /\ at[w].permit \in Permit /\ at[w].decision \in Terminal
           /\ op[at[w].permit] \in Ops
           /\ op' = [op EXCEPT ![at[w].permit] = [op[at[w].permit] EXCEPT !.decision = at[w].decision]]
           /\ [op[at[w].permit] EXCEPT !.decision = at[w].decision] \in Ops
  <1>1. at[w].step = "decide" /\ at[w].permit \in Permit /\ at[w].decision \in Terminal
    BY DEF RecordDecision, Shape, AdapterTypeOK, Stands
  <1>2. op[at[w].permit] \in Ops
    BY <1>1 DEF Shape, Placed, AdapterTypeOK
  <1>3. [op[at[w].permit] EXCEPT !.decision = at[w].decision] \in Ops
    BY <1>1, <1>2 DEF Ops
  <1> QED
    BY <1>1, <1>2, <1>3 DEF RecordDecision

LEMMA DecisionShape ==
    ASSUME TypeInv, Shape, NEW w \in Worker, RecordDecision(w)
    PROVE  Shape'
  <1>1. OpsStay
    <2>1. CASE op' = op
      BY <2>1, UnchangedStays DEF Shape
    <2>2. CASE op' # op
      <3> DEFINE new == [op[at[w].permit] EXCEPT !.decision = at[w].decision]
      <3>1. new \in Ops /\ new # NoOp /\ op' = [op EXCEPT ![at[w].permit] = new]
            /\ at[w].permit \in Permit
        BY <2>2, DecisionRecorded, OpPresent
      <3> HIDE DEF new
      <3> QED
        BY <3>1 DEF OpsStay, Shape, AdapterTypeOK
    <2> QED
      BY <2>1, <2>2
  <1>2. /\ at' \in [Worker -> Stands] /\ \A v \in Worker \ {w} : at'[v] = at[v]
        /\ at'[w] = Free
    BY GotoMoves, StandsTyped DEF RecordDecision, Shape
  <1>3. UNCHANGED <<vars, journal, rec, hook, intent, sent, replayed>> /\ StripeTyped
    BY NotCreatedTyped DEF RecordDecision, Shape
  <1>4. PlacedAt(w)' /\ OnlyMoves(w)
    <2>1. pc[w] = "idle"
      BY DEF RecordDecision, Shape, Placed
    <2> QED
      BY <2>1, <1>2, <1>3 DEF PlacedAt, OnlyMoves, Free, vars
  <1> QED
    BY <1>1, <1>2, <1>3, <1>4, DispatchKeepsShape

LEMMA CrashShape ==
    ASSUME TypeInv, Shape, NEW w \in Worker, StripeCrash(w)
    PROVE  Shape'
  <1>1. pc'[w] = "idle" /\ \A v \in Worker \ {w} : pc'[v] = pc[v] /\ call'[v] = call[v]
    BY EndMoves DEF StripeCrash, Crash, vars
  <1>2. /\ at' \in [Worker -> Stands] /\ \A v \in Worker \ {w} : at'[v] = at[v]
        /\ at'[w] = Free
    BY GotoMoves, StandsTyped DEF StripeCrash, Shape
  <1>3. UNCHANGED <<op, journal, rec, hook, intent, sent, replayed>> /\ OpsStay /\ StripeTyped
    BY UnchangedStays, NotCreatedTyped DEF StripeCrash, Shape
  <1>4. PlacedAt(w)' /\ OnlyMoves(w)
    BY <1>1, <1>2 DEF PlacedAt, OnlyMoves, Free
  <1> QED
    BY <1>2, <1>3, <1>4, DispatchKeepsShape

\* A step that moves no dispatch keeps the places.
LEMMA PlacesStay ==
    ASSUME TypeInv, Shape, OpsStay, UNCHANGED <<vars, at>>
    PROVE  Placed'
  <1> SUFFICES ASSUME NEW w \in Worker PROVE PlacedAt(w)'
    BY DEF Placed, PlacedAt
  <1>1. PlacedAt(w)
    BY DEF Shape, Placed, PlacedAt
  <1>2. at[w].step \in {"prepared", "observe", "error", "done"} => PermitOf(w) \in Permit
    BY <1>1, CallPermit DEF PlacedAt
  <1>3. at[w].step = "decide" => at[w].permit \in Permit
    BY DEF Shape, AdapterTypeOK, Stands
  <1> QED
    BY <1>1, <1>2, <1>3 DEF PlacedAt, PermitOf, OpsStay, vars

\* A reconciler's step: it ends, or goes on about a permit with an operation.
LEMMA ReconcilerKeepsShape ==
    ASSUME TypeInv, Shape, NEW o \in Reconciler, OpsStay, StripeTyped,
           NEW r \in Recs, rec' = [rec EXCEPT ![o] = r],
           r.step # "idle" => op[r.permit] # NoOp,
           replayed' \subseteq Permit, UNCHANGED <<vars, journal, at, hook>>
    PROVE  Shape'
  <1>1. AdapterTypeOK'
    BY DEF Shape, AdapterTypeOK, OpsStay, StripeTyped
  <1>2. Correlated'
    <2> SUFFICES ASSUME NEW q \in Reconciler, rec'[q].step # "idle"
                 PROVE  op'[rec'[q].permit] # NoOp
      BY DEF Correlated
    <2>1. rec'[q] \in Recs /\ (rec'[q] = r \/ rec'[q] = rec[q])
      BY DEF Shape, AdapterTypeOK
    <2>2. rec'[q].permit \in Permit
      BY <2>1 DEF Recs
    <2> QED
      BY <2>1, <2>2 DEF Shape, Correlated, OpsStay
  <1> QED
    BY <1>1, <1>2, PlacesStay DEF Shape

LEMMA ReconcileShape ==
    ASSUME TypeInv, Shape, NEW o \in Reconciler, ReconcileStep(o)
    PROVE  Shape'
  <1>1. Idle \in Recs /\ Idle.step = "idle"
    BY DEF Idle, Recs
  <1>2. UNCHANGED <<vars, journal, at, hook>>
    BY DEF ReconcileStep, Reconcile, Retrieve, Replay, ReconcileRecord, ReconcileError
  <1>3. ASSUME NEW p \in Permit, Reconcile(o, p) PROVE Shape'
    <2>1. [step |-> "call", permit |-> p, known |-> op[p].known] \in Recs /\ op[p] # NoOp
      BY <1>3 DEF Reconcile, Recs, Ops, Shape, AdapterTypeOK
    <2>2. OpsStay /\ StripeTyped /\ replayed' \subseteq Permit
      BY <1>3, UnchangedStays, NotCreatedTyped DEF Reconcile, Shape, AdapterTypeOK
    <2> QED
      BY <1>2, <1>3, <2>1, <2>2, ReconcilerKeepsShape DEF Reconcile
  <1>4. ASSUME rec[o].step # "idle" PROVE rec[o].permit \in Permit /\ op[rec[o].permit] # NoOp
    BY <1>4 DEF Shape, AdapterTypeOK, Correlated, Recs
  <1> DEFINE p     == rec[o].permit
             error == [step |-> "error", permit |-> p]
  <1>5. p \in Permit => error \in Recs
    BY DEF Recs
  <1>6. CASE Retrieve(o)
    <2>1. p \in Permit /\ op[p] # NoOp
      BY <1>4, <1>6 DEF Retrieve
    <2>2. [step |-> "record", permit |-> p, status |-> intent[p], source |-> "retrieve"] \in Recs
      BY <2>1 DEF Recs, Origins, Shape, AdapterTypeOK
    <2>3. OpsStay /\ StripeTyped /\ replayed' \subseteq Permit
      BY <1>6, UnchangedStays, NotCreatedTyped DEF Retrieve, Shape, AdapterTypeOK
    <2> QED
      BY <1>2, <1>5, <1>6, <2>1, <2>2, <2>3, ReconcilerKeepsShape DEF Retrieve
  <1>7. CASE Replay(o)
    <2>1. p \in Permit /\ op[p] # NoOp
      BY <1>4, <1>7 DEF Replay
    <2>2. \A status \in Status :
              [step |-> "record", permit |-> p, status |-> status, source |-> "idempotent_replay"] \in Recs
      BY <2>1 DEF Recs, Origins, Told
    <2>3. OpsStay /\ replayed' \subseteq Permit
      BY <1>7, <2>1, UnchangedStays DEF Replay, Shape, AdapterTypeOK
    <2>4. StripeTyped
      BY <1>7, <2>1, CreatedTyped, NotCreatedTyped DEF Replay, NotCreated, Shape
    <2>5. \/ rec' = [rec EXCEPT ![o] = error]
          \/ \E status \in Status :
                rec' = [rec EXCEPT ![o] = [step |-> "record", permit |-> p, status |-> status,
                                           source |-> "idempotent_replay"]]
      BY <1>7 DEF Replay
    <2> QED
      BY <1>2, <1>5, <2>1, <2>2, <2>3, <2>4, <2>5, ReconcilerKeepsShape
  <1>8. CASE ReconcileRecord(o)
    <2>1. p \in Permit /\ op[p] # NoOp /\ rec[o].source \in Origins
      BY <1>4, <1>8 DEF ReconcileRecord, Shape, AdapterTypeOK, Recs
    <2>2. OpsStay
      BY <1>8, <2>1, ObserveStays, UnchangedStays DEF ReconcileRecord, Shape
    <2>3. StripeTyped /\ replayed' \subseteq Permit
      BY <1>8, NotCreatedTyped DEF ReconcileRecord, Shape, AdapterTypeOK
    <2> QED
      BY <1>1, <1>2, <1>5, <1>8, <2>1, <2>2, <2>3, ReconcilerKeepsShape DEF ReconcileRecord
  <1>9. CASE ReconcileError(o)
    <2>1. p \in Permit /\ op[p] # NoOp
      BY <1>4, <1>9 DEF ReconcileError
    <2>2. OpsStay
      BY <1>9, <2>1, FailStays, UnchangedStays DEF ReconcileError, Shape, Origins
    <2>3. StripeTyped /\ replayed' \subseteq Permit
      BY <1>9, NotCreatedTyped DEF ReconcileError, Shape, AdapterTypeOK
    <2> QED
      BY <1>1, <1>2, <1>9, <2>2, <2>3, ReconcilerKeepsShape DEF ReconcileError
  <1> QED
    BY <1>3, <1>6, <1>7, <1>8, <1>9 DEF ReconcileStep

\* A change of a PaymentIntent, and the two steps of a webhook.
LEMMA WebhookShape ==
    ASSUME TypeInv, Shape,
           \/ \E p \in Permit, status \in Status : Resolve(p, status)
           \/ \E event \in sent : Journal(event)
           \/ \E event \in hook : ApplyWebhook(event)
    PROVE  Shape'
  <1>1. UNCHANGED <<vars, at, rec, replayed>>
    BY DEF Resolve, Journal, ApplyWebhook
  <1>2. OpsStay
    <2>1. ASSUME NEW event \in hook, ApplyWebhook(event) PROVE OpsStay
      <3>1. event.permit \in Permit
        BY DEF Shape, AdapterTypeOK, Events
      <3> QED
        BY <2>1, <3>1, ObserveStays, UnchangedStays DEF ApplyWebhook, Shape, Origins
    <2> QED
      BY <2>1, UnchangedStays DEF Resolve, Journal, Shape
  <1>3. StripeTyped /\ hook' \subseteq sent' /\ journal' \subseteq sent'
    <2>1. ASSUME NEW p \in Permit, NEW status \in Status, Resolve(p, status)
          PROVE  StripeTyped /\ hook' \subseteq sent' /\ journal' \subseteq sent'
      <3>1. [permit |-> p, status |-> status] \in Events /\ status \in Told
        BY DEF Events, Status, Told
      <3> QED
        BY <2>1, <3>1 DEF Resolve, StripeTyped, Shape, AdapterTypeOK
    <2>2. ASSUME NEW event \in sent, Journal(event)
          PROVE  StripeTyped /\ hook' \subseteq sent' /\ journal' \subseteq sent'
      BY <2>2 DEF Journal, StripeTyped, Shape, AdapterTypeOK
    <2>3. ASSUME NEW event \in hook, ApplyWebhook(event)
          PROVE  StripeTyped /\ hook' \subseteq sent' /\ journal' \subseteq sent'
      BY <2>3 DEF ApplyWebhook, StripeTyped, Shape, AdapterTypeOK
    <2> QED
      BY <2>1, <2>2, <2>3
  <1>4. AdapterTypeOK'
    BY <1>1, <1>2, <1>3 DEF Shape, AdapterTypeOK, OpsStay, StripeTyped
  <1> QED
    BY <1>1, <1>2, <1>4, PlacesStay, CorrelatedStays DEF Shape

LEMMA ShapeInductive == Boundary /\ Shape /\ [StripeNext]_stripeVars => Shape'
  <1> SUFFICES ASSUME TypeInv, Shape, [StripeNext]_stripeVars PROVE Shape'
    BY DEF Boundary
  <1>1. CASE UNCHANGED <<pc, call, adapterVars>>
    BY <1>1 DEF adapterVars, Shape, AdapterTypeOK, Placed, Correlated, PermitOf
  <1>2. CASE Authority
    BY <1>1, <1>2 DEF Authority, Tick, Issue
  <1>3. ASSUME NEW w \in Worker, StripeDispatch(w) PROVE Shape'
    BY <1>3, PrepareShape, ConsumeShape, AnsweredShape, RaisedShape, RecordShape,
       FinalizeShape, DecisionShape, CrashShape DEF StripeDispatch
  <1> QED
    BY <1>1, <1>2, <1>3, AuthorizeShape, ReconcileShape, WebhookShape
    DEF StripeNext, stripeVars, vars

-----------------------------------------------------------------------------
(* Verdicts.                                                               *)

\* Whatever is on its way to the store - an answer, what a reconciler read, a
\* webhook - says of a final status what is so: it may be late, never wrong.
Truthful ==
    /\ \A w \in Worker : at[w].step = "observe" /\ at[w].status \in Final
                            => intent[PermitOf(w)] = at[w].status
    /\ \A o \in Reconciler : rec[o].step = "record" /\ rec[o].status \in Final
                            => intent[rec[o].permit] = rec[o].status
    /\ \A event \in sent : event.status \in Final => intent[event.permit] = event.status

\* The decision a dispatch is about to record is the one the boundary made.
Decided == \A w \in Worker : at[w].step = "decide" => row[at[w].permit].status = at[w].decision

AdapterInv ==
    Shape /\ Truthful /\ VerdictIsTrue /\ Decided /\ DecisionAgrees /\ OnlyReplayUnauthorized

LEMMA CreatedIntents ==
    ASSUME Shape, NEW p \in Permit, NEW status \in Status, Created(p, status)
    PROVE  /\ intent'[p] = status
           /\ \A q \in Permit : intent'[q] = intent[q] \/ (q = p /\ intent[q] = "absent")
           /\ \A event \in sent' : event \in sent \/ intent'[event.permit] = event.status
  BY DEF Created, Shape, AdapterTypeOK

\* The steps that create a PaymentIntent, and what they create.
LEMMA Creations ==
    ASSUME Boundary, Shape, [StripeNext]_stripeVars
    PROVE  \/ UNCHANGED <<intent, sent>>
           \/ \E p \in Permit, status \in Status : Resolve(p, status)
           \/ \E p \in Permit, status \in Status :
                 /\ Created(p, status)
                 /\ \/ p \in replayed'
                    \/ \E w \in Worker : pc[w] = "consumed" /\ p = PermitOf(w)
  <1>1. ASSUME NEW w \in Worker, NEW status \in Status, Created(call[w].token.permit_id, status),
               Execute(w)
        PROVE  \E p \in Permit : Created(p, status) /\ pc[w] = "consumed" /\ p = PermitOf(w)
    BY <1>1, CallPermit DEF Execute, Boundary, PermitOf
  <1>2. ASSUME NEW w \in Worker, NEW status \in Status, CreateAnswered(w, status)
        PROVE  \E p \in Permit : Created(p, status) /\ pc[w] = "consumed" /\ p = PermitOf(w)
    BY <1>1, <1>2 DEF CreateAnswered
  <1>3. ASSUME NEW w \in Worker, CreateRaised(w)
        PROVE  \/ UNCHANGED <<intent, sent>>
               \/ \E p \in Permit, status \in Status :
                     Created(p, status) /\ pc[w] = "consumed" /\ p = PermitOf(w)
    BY <1>1, <1>3 DEF CreateRaised, NotCreated
  <1>4. ASSUME NEW o \in Reconciler, Replay(o)
        PROVE  \/ UNCHANGED <<intent, sent>>
               \/ \E p \in Permit, status \in Status : Created(p, status) /\ p \in replayed'
    <2>1. rec[o].permit \in Permit
      BY <1>4 DEF Replay, Shape, AdapterTypeOK, Recs
    <2> QED
      BY <1>4, <2>1 DEF Replay, NotCreated
  <1>5. ASSUME NEW w \in Worker, StripeDispatch(w)
        PROVE  \/ UNCHANGED <<intent, sent>>
               \/ CreateRaised(w) \/ \E status \in Status : CreateAnswered(w, status)
    BY <1>5 DEF StripeDispatch, Prepare, StripeConsume, RecordResponse,
                RecordError, StripeFinalize, RecordDecision, StripeCrash
  <1>6. ASSUME NEW o \in Reconciler, ReconcileStep(o)
        PROVE  UNCHANGED <<intent, sent>> \/ Replay(o)
    BY <1>6 DEF ReconcileStep, Reconcile, Retrieve, ReconcileRecord, ReconcileError
  <1>7. \/ UNCHANGED <<intent, sent>>
        \/ \E p \in Permit, status \in Status : Resolve(p, status)
        \/ \E w \in Worker : StripeDispatch(w)
        \/ \E o \in Reconciler : ReconcileStep(o)
    BY DEF StripeNext, stripeVars, adapterVars, Authority, StripeAuthorize, Journal, ApplyWebhook
  <1> QED
    BY <1>2, <1>3, <1>4, <1>5, <1>6, <1>7

\* A PaymentIntent stays, and stays what it finally is; what Stripe emits is so.
LEMMA IntentsStay ==
    ASSUME Boundary, Shape, [StripeNext]_stripeVars
    PROVE  /\ \A p \in Permit : intent[p] # "absent" => intent'[p] # "absent"
           /\ \A p \in Permit : intent[p] \in Final => intent'[p] = intent[p]
           /\ \A event \in sent' : event \in sent \/ intent'[event.permit] = event.status
  <1>1. CASE UNCHANGED <<intent, sent>>
    BY <1>1
  <1>2. ASSUME NEW p \in Permit, NEW status \in Status, Resolve(p, status)
        PROVE  /\ \A q \in Permit : intent[q] # "absent" => intent'[q] # "absent"
               /\ \A q \in Permit : intent[q] \in Final => intent'[q] = intent[q]
               /\ \A event \in sent' : event \in sent \/ intent'[event.permit] = event.status
    BY <1>2 DEF Resolve, Final, Pending, Status, Shape, AdapterTypeOK
  <1>3. ASSUME NEW p \in Permit, NEW status \in Status, Created(p, status)
        PROVE  /\ \A q \in Permit : intent[q] # "absent" => intent'[q] # "absent"
               /\ \A q \in Permit : intent[q] \in Final => intent'[q] = intent[q]
               /\ \A event \in sent' : event \in sent \/ intent'[event.permit] = event.status
    BY <1>3, CreatedIntents DEF Final
  <1> QED
    BY <1>1, <1>2, <1>3, Creations

\* Only a replay charges under a permit that was never consumed: a dispatch
\* that creates holds its permit.
LEMMA UnauthorizedStays ==
    ASSUME Boundary, Shape, OnlyReplayUnauthorized, [StripeNext]_stripeVars
    PROVE  OnlyReplayUnauthorized'
  <1> SUFFICES ASSUME NEW p \in Permit, intent'[p] # "absent", row'[p] = NoRow
               PROVE  p \in replayed'
    BY DEF OnlyReplayUnauthorized
  <1>1. row[p] = NoRow
    BY RowsKept
  <1>2. replayed \subseteq replayed'
    BY DEF StripeNext, stripeVars, adapterVars, Authority, StripeAuthorize, Resolve, Journal,
           ApplyWebhook, StripeDispatch, Prepare, StripeConsume, CreateAnswered, CreateRaised,
           RecordResponse, RecordError, StripeFinalize, RecordDecision, StripeCrash,
           ReconcileStep, Reconcile, Retrieve, Replay, ReconcileRecord, ReconcileError
  <1>3. CASE intent[p] # "absent"
    BY <1>1, <1>2, <1>3 DEF OnlyReplayUnauthorized
  <1>4. CASE intent[p] = "absent"
    <2>1. ~(\E q \in Permit, status \in Status : Resolve(q, status))
      BY <1>4 DEF Resolve, Pending, Shape, AdapterTypeOK
    <2>2. PICK q \in Permit, status \in Status :
              /\ Created(q, status)
              /\ \/ q \in replayed'
                 \/ \E w \in Worker : pc[w] = "consumed" /\ q = PermitOf(w)
      BY <1>4, <2>1, Creations
    <2>3. q = p
      BY <1>4, <2>2, CreatedIntents
    <2>4. ASSUME NEW w \in Worker, pc[w] = "consumed", p = PermitOf(w) PROVE FALSE
      BY <1>1, <2>4 DEF Boundary, SafetyInv, HolderRow, Holding, NoRow
    <2> QED
      BY <2>2, <2>3, <2>4
  <1> QED
    BY <1>3, <1>4

\* What w is about to record, or to decide, it has from its own last step.
LEMMA WorkersTold ==
    ASSUME Boundary, Shape, [StripeNext]_stripeVars, NEW w \in Worker
    PROVE  \/ at'[w] = at[w] /\ (at[w].step = "observe" => call'[w] = call[w])
           \/ at'[w].step \notin {"observe", "decide"}
           \/ \E status \in Status :
                 /\ CreateAnswered(w, status) /\ call'[w] = call[w]
                 /\ at'[w] = [step |-> "observe", status |-> status]
           \/ /\ Finalize(w)
              /\ at'[w] = [step |-> "decide", permit |-> PermitOf(w), decision |-> Decision(w)]
  <1> DEFINE Claim == \/ at'[w] = at[w] /\ (at[w].step = "observe" => call'[w] = call[w])
                      \/ at'[w].step \notin {"observe", "decide"}
                      \/ \E status \in Status :
                            /\ CreateAnswered(w, status) /\ call'[w] = call[w]
                            /\ at'[w] = [step |-> "observe", status |-> status]
                      \/ /\ Finalize(w)
                         /\ at'[w] = [step |-> "decide", permit |-> PermitOf(w), decision |-> Decision(w)]
  <1> SUFFICES Claim
    OBVIOUS
  <1>0. TypeOK /\ AdapterTypeOK
    BY DEF Boundary, TypeInv, Shape
  <1>1. CASE UNCHANGED <<call, at>>
    BY <1>1
  <1>2. CASE Authority
    BY <1>1, <1>2 DEF Authority, Tick, Issue, adapterVars
  <1>3. ASSUME NEW v \in Worker, NEW token \in issued, NEW req \in Request,
               StripeAuthorize(v, token, req)
        PROVE  Claim
    <2>1. at' = at /\ at[v].step = "free"
      BY <1>3 DEF StripeAuthorize, adapterVars, Free
    <2>2. v # w => call'[w] = call[w]
      BY <1>0, <1>3 DEF StripeAuthorize, Authorize, End, TypeOK
    <2> QED
      BY <2>1, <2>2
  <1>4. ASSUME NEW v \in Worker, v # w, StripeDispatch(v) PROVE Claim
    <2>1. at'[w] = at[w]
      BY <1>0, <1>4 DEF StripeDispatch, Prepare, StripeConsume, CreateAnswered, CreateRaised,
           RecordResponse, RecordError, StripeFinalize, RecordDecision, StripeCrash, Goto, AdapterTypeOK
    <2>2. call'[w] = call[w]
      BY <1>0, <1>4 DEF StripeDispatch, Prepare, StripeConsume, CreateAnswered, CreateRaised,
           RecordResponse, RecordError, StripeFinalize, RecordDecision, StripeCrash,
           Consume, ConsumeLocked, Execute, Finalize, FinalizeLocked, Crash, End, vars, TypeOK
    <2> QED
      BY <2>1, <2>2
  <1>5. CASE Prepare(w)
    <2>1. at[w].step = "free" /\ (at' = at \/ Goto(w, [step |-> "prepared"]))
      BY <1>5 DEF Prepare, Free
    <2>2. Goto(w, [step |-> "prepared"]) => at'[w] = [step |-> "prepared"]
      BY <1>0, GotoMoves, StandsTyped
    <2> QED
      BY <2>1, <2>2
  <1>6. CASE StripeConsume(w)
    <2>1. at[w] \in Stands /\ Free \in Stands /\ at[w].step = "prepared"
      BY <1>0, <1>6, StandsTyped DEF StripeConsume, AdapterTypeOK
    <2>2. at'[w] = Free \/ at'[w] = at[w]
      BY <1>0, <1>6, <2>1, GotoMoves DEF StripeConsume
    <2> QED
      BY <2>1, <2>2 DEF Free
  <1>7. ASSUME NEW status \in Status, CreateAnswered(w, status) PROVE Claim
    <2>1. [step |-> "observe", status |-> status] \in Stands
      BY DEF Stands
    <2>2. \/ at'[w] = [step |-> "observe", status |-> status]
          \/ at'[w] = [step |-> "done"]
      BY <1>0, <1>7, <2>1, GotoMoves, StandsTyped DEF CreateAnswered
    <2>3. call'[w] = call[w]
      BY <1>7 DEF CreateAnswered, Execute
    <2> QED
      BY <1>7, <2>2, <2>3
  <1>8. CASE CreateRaised(w) \/ RecordResponse(w) \/ RecordError(w) \/ RecordDecision(w) \/ StripeCrash(w)
    <2>1. at'[w] \in {[step |-> "error"], [step |-> "done"], Free}
      BY <1>0, <1>8, GotoMoves, StandsTyped
      DEF CreateRaised, RecordResponse, RecordError, RecordDecision, StripeCrash
    <2> QED
      BY <2>1 DEF Free
  <1>9. CASE StripeFinalize(w)
    <2> DEFINE decide == [step |-> "decide", permit |-> PermitOf(w), decision |-> Decision(w)]
    <2>1. decide \in Stands
      <3>1. pc[w] \in {"returned", "raised"}
        BY <1>9 DEF StripeFinalize, Shape, Placed
      <3> QED
        BY <3>1, CallPermit, DecisionTyped DEF Stands, Boundary
    <2>2. Goto(w, decide) => at'[w] = decide
      BY <1>0, <2>1, GotoMoves
    <2>3. Goto(w, Free) => at'[w].step = "free"
      BY <1>0, GotoMoves, StandsTyped DEF Free
    <2> QED
      BY <1>9, <2>2, <2>3 DEF StripeFinalize, PermitOf
  <1>10. ASSUME NEW o \in Reconciler, ReconcileStep(o) PROVE Claim
    BY <1>1, <1>10 DEF ReconcileStep, Reconcile, Retrieve, Replay, ReconcileRecord, ReconcileError, vars
  <1> QED
    BY <1>1, <1>2, <1>3, <1>4, <1>5, <1>6, <1>7, <1>8, <1>9, <1>10
    DEF StripeNext, StripeDispatch, stripeVars, vars, adapterVars, Resolve, Journal, ApplyWebhook

\* What a reconciler is about to record it has just read, or created.
LEMMA ReconcilersTold ==
    ASSUME Boundary, Shape, [StripeNext]_stripeVars, NEW o \in Reconciler
    PROVE  \/ rec'[o] = rec[o]
           \/ rec'[o].step # "record"
           \/ rec'[o].permit \in Permit /\ intent'[rec'[o].permit] = rec'[o].status
  <1> DEFINE Claim == \/ rec'[o] = rec[o]
                      \/ rec'[o].step # "record"
                      \/ rec'[o].permit \in Permit /\ intent'[rec'[o].permit] = rec'[o].status
  <1> SUFFICES Claim
    OBVIOUS
  <1>1. AdapterTypeOK
    BY DEF Shape
  <1>2. ASSUME NEW q \in Reconciler, q # o, ReconcileStep(q) PROVE Claim
    BY <1>1, <1>2 DEF ReconcileStep, Reconcile, Retrieve, Replay, ReconcileRecord, ReconcileError,
                      AdapterTypeOK
  <1>3. CASE Retrieve(o)
    <2>1. rec[o].permit \in Permit
      BY <1>1, <1>3 DEF Retrieve, AdapterTypeOK, Recs
    <2> QED
      BY <1>1, <1>3, <2>1 DEF Retrieve, AdapterTypeOK
  <1>4. CASE Replay(o)
    <2>1. rec[o].permit \in Permit
      BY <1>1, <1>4 DEF Replay, AdapterTypeOK, Recs
    <2>2. ASSUME NEW status \in Status, Created(rec[o].permit, status)
          PROVE  intent'[rec[o].permit] = status
      BY <2>1, <2>2, CreatedIntents
    <2> QED
      BY <1>1, <1>4, <2>1, <2>2 DEF Replay, AdapterTypeOK
  <1>5. CASE ReconcileRecord(o) \/ ReconcileError(o) \/ \E p \in Permit : Reconcile(o, p)
    BY <1>1, <1>5 DEF ReconcileRecord, ReconcileError, Reconcile, AdapterTypeOK, Idle
  <1>6. CASE UNCHANGED rec
    BY <1>6
  <1> QED
    BY <1>2, <1>3, <1>4, <1>5, <1>6
    DEF StripeNext, stripeVars, adapterVars, Authority, StripeAuthorize, Resolve, Journal, ApplyWebhook,
        StripeDispatch, Prepare, StripeConsume, CreateAnswered, CreateRaised, RecordResponse,
        RecordError, StripeFinalize, RecordDecision, StripeCrash, ReconcileStep

LEMMA TruthfulStays ==
    ASSUME Boundary, Shape, Truthful, [StripeNext]_stripeVars
    PROVE  Truthful'
  <1>1. ASSUME NEW w \in Worker, at'[w].step = "observe", at'[w].status \in Final
        PROVE  intent'[PermitOf(w)'] = at'[w].status
    <2>1. PermitOf(w)' = call'[w].token.permit_id
      BY DEF PermitOf
    <2>2. CASE at'[w] = at[w] /\ call'[w] = call[w]
      <3>1. PermitOf(w) \in Permit
        BY <1>1, <2>2, CallPermit DEF Shape, Placed, Boundary
      <3>2. intent[PermitOf(w)] = at[w].status
        BY <1>1, <2>2 DEF Truthful
      <3> QED
        BY <1>1, <2>1, <2>2, <3>1, <3>2, IntentsStay DEF PermitOf
    <2>3. ASSUME NEW status \in Status, CreateAnswered(w, status), call'[w] = call[w],
                 at'[w] = [step |-> "observe", status |-> status]
          PROVE  intent'[PermitOf(w)'] = at'[w].status
      <3>1. PermitOf(w) \in Permit /\ Created(PermitOf(w), status)
        BY <2>3, CallPermit DEF CreateAnswered, Execute, Boundary, PermitOf
      <3> QED
        BY <2>1, <2>3, <3>1, CreatedIntents DEF PermitOf
    <2>4. ASSUME NEW decision, at'[w] = [step |-> "decide", permit |-> PermitOf(w), decision |-> decision]
          PROVE  FALSE
      BY <1>1, <2>4
    <2>5. \/ at'[w] = at[w] /\ call'[w] = call[w]
          \/ \E status \in Status :
                /\ CreateAnswered(w, status) /\ call'[w] = call[w]
                /\ at'[w] = [step |-> "observe", status |-> status]
      BY <1>1, <2>4, WorkersTold
    <2> QED
      BY <2>2, <2>3, <2>5
  <1>2. ASSUME NEW o \in Reconciler, rec'[o].step = "record", rec'[o].status \in Final
        PROVE  intent'[rec'[o].permit] = rec'[o].status
    <2>1. CASE rec'[o] = rec[o]
      <3>1. rec[o].permit \in Permit
        BY <1>2, <2>1 DEF Shape, AdapterTypeOK, Recs
      <3>2. intent[rec[o].permit] = rec[o].status
        BY <1>2, <2>1 DEF Truthful
      <3> QED
        BY <1>2, <2>1, <3>1, <3>2, IntentsStay
    <2> QED
      BY <1>2, <2>1, ReconcilersTold
  <1>3. ASSUME NEW event \in sent', event.status \in Final
        PROVE  intent'[event.permit] = event.status
    <2>1. CASE event \in sent
      BY <1>3, <2>1, IntentsStay DEF Truthful, Shape, AdapterTypeOK, Events
    <2> QED
      BY <1>3, <2>1, IntentsStay
  <1> QED
    BY <1>1, <1>2, <1>3 DEF Truthful

\* What an observation leaves of an operation.
LEMMA Observed ==
    ASSUME Shape, NEW p \in Permit, op[p] # NoOp, NEW status, NEW source, Observe(p, status, source)
    PROVE  /\ op'[p].state = Classify(status) /\ op'[p].decision = op[p].decision
           /\ \A q \in Permit \ {p} : op'[q] = op[q]
  <1>1. op[p] \in Ops
    BY DEF Shape, AdapterTypeOK
  <1> QED
    BY <1>1 DEF Observe, Shape, AdapterTypeOK, Ops

LEMMA Failed ==
    ASSUME Shape, NEW p \in Permit, op[p] # NoOp, NEW source, Fail(p, source)
    PROVE  /\ op'[p].state = "UNCERTAIN" /\ op'[p].decision = op[p].decision
           /\ \A q \in Permit \ {p} : op'[q] = op[q]
  <1>1. op[p] \in Ops
    BY DEF Shape, AdapterTypeOK
  <1> QED
    BY <1>1 DEF Fail, Shape, AdapterTypeOK, Ops

\* What a step makes of the operation of p, as far as verdict and decision go.
Kept(p)        == op'[p] = op[p]
Prepared(p)    == op[p] = NoOp /\ op'[p].state = "PREPARED" /\ op'[p].decision = "none"
Doubted(p)     == op'[p].state = "UNCERTAIN" /\ op'[p].decision = op[p].decision /\ op[p] # NoOp
Judged(p)      == /\ op[p] # NoOp /\ op'[p].decision = op[p].decision
                  /\ \E status : /\ op'[p].state = Classify(status)
                                 /\ status \in Final => intent[p] = status
RecordedOf(p)  == /\ op[p] # NoOp /\ op'[p].state = op[p].state
                  /\ \E w \in Worker : /\ at[w].step = "decide" /\ at[w].permit = p
                                       /\ op'[p].decision = at[w].decision
OneOf(p) == Kept(p) \/ Prepared(p) \/ Doubted(p) \/ Judged(p) \/ RecordedOf(p)

\* An observation of q that is true, or a failure recorded of it.
LEMMA ObservedIsOne ==
    ASSUME Shape, NEW q \in Permit, op[q] # NoOp, NEW status, NEW source,
           status \in Final => intent[q] = status, Observe(q, status, source), NEW p \in Permit
    PROVE  OneOf(p)
  <1>1. CASE p = q
    BY <1>1, Observed DEF OneOf, Judged
  <1>2. CASE p # q
    BY <1>2, Observed DEF OneOf, Kept
  <1> QED
    BY <1>1, <1>2

LEMMA FailedIsOne ==
    ASSUME Shape, NEW q \in Permit, op[q] # NoOp, NEW source, Fail(q, source), NEW p \in Permit
    PROVE  OneOf(p)
  <1>1. CASE p = q
    BY <1>1, Failed DEF OneOf, Doubted
  <1>2. CASE p # q
    BY <1>2, Failed DEF OneOf, Kept
  <1> QED
    BY <1>1, <1>2

LEMMA OperationsMove ==
    ASSUME Boundary, Shape, Truthful, [StripeNext]_stripeVars, NEW p \in Permit
    PROVE  OneOf(p)
  <1>1. CASE UNCHANGED op
    BY <1>1 DEF OneOf, Kept
  <1>2. ASSUME NEW w \in Worker, Prepare(w) PROVE OneOf(p)
    <2> DEFINE q   == call[w].token.permit_id
               new == [state |-> "PREPARED", params |-> ParamsOf[call[w].request], known |-> FALSE,
                       source |-> "none", decision |-> "none"]
    <2>1. CASE op[q] = NoOp /\ op' = [op EXCEPT ![q] = new]
      <3>1. q \in Permit
        BY <1>2, CallPermit DEF Prepare, Boundary, PermitOf
      <3>2. op'[q] = new /\ (p # q => op'[p] = op[p])
        BY <2>1, <3>1 DEF Shape, AdapterTypeOK
      <3>3. new.state = "PREPARED" /\ new.decision = "none"
        OBVIOUS
      <3> HIDE DEF new, q
      <3> QED
        BY <2>1, <3>2, <3>3 DEF OneOf, Kept, Prepared
    <2> QED
      BY <1>1, <1>2, <2>1 DEF Prepare
  <1>3. ASSUME NEW w \in Worker, RecordResponse(w) PROVE OneOf(p)
    <2>1. op[PermitOf(w)] # NoOp /\ PermitOf(w) \in Permit
      BY <1>3, CallPermit DEF RecordResponse, Shape, Placed, Boundary
    <2>2. at[w].status \in Final => intent[PermitOf(w)] = at[w].status
      BY <1>3 DEF RecordResponse, Truthful
    <2> QED
      BY <1>3, <2>1, <2>2, ObservedIsOne DEF RecordResponse, PermitOf
  <1>4. ASSUME NEW w \in Worker, RecordError(w) PROVE OneOf(p)
    <2>1. op[PermitOf(w)] # NoOp /\ PermitOf(w) \in Permit
      BY <1>4, CallPermit DEF RecordError, Shape, Placed, Boundary
    <2> QED
      BY <1>1, <1>4, <2>1, FailedIsOne DEF RecordError, PermitOf
  <1>5. ASSUME NEW w \in Worker, RecordDecision(w) PROVE OneOf(p)
    <2>1. CASE op' # op
      <3>1. /\ at[w].permit \in Permit /\ op[at[w].permit] \in Ops
            /\ op' = [op EXCEPT ![at[w].permit] = [op[at[w].permit] EXCEPT !.decision = at[w].decision]]
        BY <1>5, <2>1, DecisionRecorded
      <3>2. CASE p = at[w].permit
        <4>1. op'[p] = [op[p] EXCEPT !.decision = at[w].decision] /\ op[p] \in Ops
          BY <3>1, <3>2 DEF Shape, AdapterTypeOK
        <4>2. op'[p].state = op[p].state /\ op'[p].decision = at[w].decision /\ op[p] # NoOp
          BY <4>1, OpPresent DEF Ops
        <4> QED
          BY <1>5, <3>2, <4>2 DEF OneOf, RecordedOf, RecordDecision
      <3>3. CASE p # at[w].permit
        BY <3>1, <3>3 DEF OneOf, Kept, Shape, AdapterTypeOK
      <3> QED
        BY <3>2, <3>3
    <2> QED
      BY <1>1, <2>1
  <1>6. ASSUME NEW o \in Reconciler, ReconcileRecord(o) PROVE OneOf(p)
    <2>1. rec[o].permit \in Permit /\ op[rec[o].permit] # NoOp
      BY <1>6 DEF ReconcileRecord, Shape, AdapterTypeOK, Recs, Correlated
    <2>2. rec[o].status \in Final => intent[rec[o].permit] = rec[o].status
      BY <1>6 DEF ReconcileRecord, Truthful
    <2> QED
      BY <1>1, <1>6, <2>1, <2>2, ObservedIsOne DEF ReconcileRecord
  <1>7. ASSUME NEW o \in Reconciler, ReconcileError(o) PROVE OneOf(p)
    <2>1. rec[o].permit \in Permit /\ op[rec[o].permit] # NoOp
      BY <1>7 DEF ReconcileError, Shape, AdapterTypeOK, Recs, Correlated
    <2> QED
      BY <1>1, <1>7, <2>1, FailedIsOne DEF ReconcileError
  <1>8. ASSUME NEW event \in hook, ApplyWebhook(event) PROVE OneOf(p)
    <2>1. event \in sent /\ event.permit \in Permit
      BY DEF Shape, AdapterTypeOK, Events
    <2>2. event.status \in Final => intent[event.permit] = event.status
      BY <2>1 DEF Truthful
    <2> QED
      BY <1>1, <1>8, <2>1, <2>2, ObservedIsOne DEF ApplyWebhook
  <1>9. \/ UNCHANGED op
        \/ \E w \in Worker : Prepare(w) \/ RecordResponse(w) \/ RecordError(w) \/ RecordDecision(w)
        \/ \E o \in Reconciler : ReconcileRecord(o) \/ ReconcileError(o)
        \/ \E event \in hook : ApplyWebhook(event)
    BY DEF StripeNext, stripeVars, adapterVars, Authority, StripeAuthorize, Resolve, Journal,
           StripeDispatch, StripeConsume, CreateAnswered, CreateRaised, StripeFinalize, StripeCrash,
           ReconcileStep, Reconcile, Retrieve, Replay
  <1> QED
    BY <1>1, <1>2, <1>3, <1>4, <1>5, <1>6, <1>7, <1>8, <1>9

LEMMA VerdictsStay ==
    ASSUME Boundary, Shape, Truthful, VerdictIsTrue, [StripeNext]_stripeVars
    PROVE  VerdictIsTrue'
  <1> SUFFICES ASSUME NEW p \in Permit
               PROVE  /\ op'[p].state = "CONFIRMED" => intent'[p] = "succeeded"
                      /\ op'[p].state = "REJECTED"  => intent'[p] = "canceled"
    BY DEF VerdictIsTrue
  <1>1. /\ op[p].state = "CONFIRMED" => intent[p] = "succeeded"
        /\ op[p].state = "REJECTED"  => intent[p] = "canceled"
    BY DEF VerdictIsTrue
  <1>2. intent[p] \in Final => intent'[p] = intent[p]
    BY IntentsStay
  <1>3. \/ op'[p].state = op[p].state
        \/ op'[p].state \in {"PREPARED", "UNCERTAIN"}
        \/ \E status : op'[p].state = Classify(status) /\ (status \in Final => intent[p] = status)
    BY OperationsMove DEF OneOf, Kept, Prepared, Doubted, Judged, RecordedOf
  <1>4. ASSUME NEW status, op'[p].state = Classify(status), status \in Final => intent[p] = status
        PROVE  /\ op'[p].state = "CONFIRMED" => intent[p] = "succeeded"
               /\ op'[p].state = "REJECTED"  => intent[p] = "canceled"
    BY <1>4 DEF Classify, Final
  <1> QED
    BY <1>1, <1>2, <1>3, <1>4 DEF Final

\* A recorded decision is the boundary's, which is final.
LEMMA DecisionsStay ==
    ASSUME Boundary, Shape, Truthful, Decided, DecisionAgrees, [StripeNext]_stripeVars
    PROVE  Decided' /\ DecisionAgrees'
  <1>1. \A p \in Permit : row[p].status \in Terminal => row'[p] = row[p]
    BY RowsKept
  <1>2. ASSUME NEW w \in Worker, at'[w].step = "decide"
        PROVE  row'[at'[w].permit].status = at'[w].decision
    <2>1. CASE at'[w] = at[w]
      <3>1. at[w].permit \in Permit /\ at[w].decision \in Terminal
        BY <1>2, <2>1 DEF Shape, AdapterTypeOK, Stands
      <3> QED
        BY <1>1, <1>2, <2>1, <3>1 DEF Decided
    <2>2. CASE /\ Finalize(w)
               /\ at'[w] = [step |-> "decide", permit |-> PermitOf(w), decision |-> Decision(w)]
      <3>1. row'[PermitOf(w)].status = Decision(w)
        BY <2>2, FinalizeSteps DEF Finalized, Boundary
      <3> QED
        BY <2>2, <3>1
    <2>3. ASSUME NEW status, at'[w] = [step |-> "observe", status |-> status] PROVE FALSE
      BY <1>2, <2>3
    <2> QED
      BY <1>2, <2>1, <2>2, <2>3, WorkersTold
  <1>3. ASSUME NEW p \in Permit, op'[p] # NoOp, op'[p].decision # "none"
        PROVE  op'[p].decision = row'[p].status
    <2>1. CASE op[p] # NoOp /\ op'[p].decision = op[p].decision
      <3>1. op[p].decision = row[p].status /\ op[p].decision \in Terminal
        BY <1>3, <2>1 DEF DecisionAgrees, Shape, AdapterTypeOK, Ops
      <3> QED
        BY <1>1, <2>1, <3>1
    <2>2. ASSUME NEW w \in Worker, at[w].step = "decide", at[w].permit = p,
                 op'[p].decision = at[w].decision
          PROVE  op'[p].decision = row'[p].status
      <3>1. at[w].decision \in Terminal
        BY <2>2 DEF Shape, AdapterTypeOK, Stands
      <3> QED
        BY <1>1, <2>2, <3>1 DEF Decided
    <2> QED
      BY <1>3, <2>1, <2>2, OperationsMove DEF OneOf, Kept, Prepared, Doubted, Judged, RecordedOf
  <1>4. Decided'
    BY <1>2 DEF Decided
  <1>5. DecisionAgrees'
    BY <1>3 DEF DecisionAgrees
  <1> QED
    BY <1>4, <1>5

-----------------------------------------------------------------------------
(* The theorems.                                                           *)

LEMMA AdapterInvHolds == StripeSpec => []AdapterInv
  <1>1. StripeInit => AdapterInv
    <2> SUFFICES ASSUME StripeInit PROVE AdapterInv
      OBVIOUS
    <2>1. /\ op = [p \in Permit |-> NoOp] /\ at = [w \in Worker |-> Free]
          /\ rec = [o \in Reconciler |-> Idle] /\ intent = [p \in Permit |-> "absent"]
          /\ journal = {} /\ hook = {} /\ sent = {} /\ replayed = {}
          /\ pc = [w \in Worker |-> "idle"]
      BY DEF StripeInit, Init
    <2>2. Shape
      BY <2>1 DEF Shape, AdapterTypeOK, Placed, Correlated, Free, Idle, Stands, Recs, Told
    <2>3. Truthful /\ Decided
      BY <2>1 DEF Truthful, Decided, Free, Idle
    <2>4. VerdictIsTrue /\ DecisionAgrees /\ OnlyReplayUnauthorized
      BY <2>1 DEF VerdictIsTrue, DecisionAgrees, OnlyReplayUnauthorized, NoOp
    <2> QED
      BY <2>2, <2>3, <2>4 DEF AdapterInv
  <1>2. Boundary /\ AdapterInv /\ [StripeNext]_stripeVars => AdapterInv'
    BY ShapeInductive, TruthfulStays, VerdictsStay, DecisionsStay, UnauthorizedStays DEF AdapterInv
  <1> QED
    BY <1>1, <1>2, BoundaryHolds, PTL DEF StripeSpec

\* The adapter's tables, dispatches, reconcilers and webhooks keep their types.
THEOREM StripeTypes == StripeSpec => []AdapterTypeOK
  BY AdapterInvHolds, PTL DEF AdapterInv, Shape

\* A final verdict is never wrong, for any number of dispatches, reconcilers
\* and webhooks in any order.
THEOREM VerdictsAreTrue == StripeSpec => []VerdictIsTrue
  BY AdapterInvHolds, PTL DEF AdapterInv

\* The decision stored beside an operation is the boundary's.
THEOREM DecisionsAgree == StripeSpec => []DecisionAgrees
  BY AdapterInvHolds, PTL DEF AdapterInv

\* Nothing but a reconciler's replay charges before the permit is consumed.
THEOREM OnlyReplaysUnauthorized == StripeSpec => []OnlyReplayUnauthorized
  BY AdapterInvHolds, PTL DEF AdapterInv
===============================================================================
