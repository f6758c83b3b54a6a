------------------------ MODULE TwoPhaseClaimProofs ------------------------
(***************************************************************************)
(* TwoPhaseClaim for any number of processes and requests: it is well      *)
(* typed, the side effect of a request happens at most once, receipts      *)
(* agree with the settled row and with each other, and every step is a     *)
(* step of ExecClaims or a stutter.                                        *)
(***************************************************************************)
EXTENDS TwoPhaseClaim, FiniteSetTheorems, TLAPS

-----------------------------------------------------------------------------
(* Types.                                                                  *)

LEMMA BlanksTyped ==
    /\ NoResult \in Result
    /\ NoRow \in Row
    /\ PendingRow \in Row
    /\ NoRows \in [Req -> Row]
    /\ NoDraft \in Draft
  <1>1. NoResult \in Result
    BY DEF NoResult, Result
  <1>2. NoRow \in Row
    BY <1>1 DEF NoRow, Row, Status
  <1>4. PendingRow \in Row
    BY <1>1 DEF PendingRow, Row, Status
  <1>3. NoDraft \in Draft
    BY <1>1 DEF NoDraft, Draft, Reason
  <1> QED
    BY <1>1, <1>2, <1>3, <1>4 DEF NoRows

\* What a connection sees is a table of rows.
LEMMA SeenTyped ==
    ASSUME TypeOK, NEW p \in Proc
    PROVE  Seen(p) \in [Req -> Row]
  BY DEF TypeOK, Seen

\* Reading, ending a transaction and answering a call keep the types.
LEMMA SelectTyped ==
    ASSUME TypeOK, NEW p \in Proc, Select(p)
    PROVE  /\ txn'  \in [Proc -> {"none", "begun", "reading"}]
           /\ view' \in [Proc -> [Req -> Row]]
  BY DEF TypeOK, Select

LEMMA EndTransactionTyped ==
    ASSUME TypeOK, NEW p \in Proc, EndTransaction(p)
    PROVE  /\ txn'  \in [Proc -> {"none", "begun", "reading"}]
           /\ view' \in [Proc -> [Req -> Row]]
  BY BlanksTyped DEF TypeOK, EndTransaction

LEMMA LockedTyped ==
    ASSUME TypeOK, NEW p \in Proc, Locked(p)
    PROVE  /\ txn'  \in [Proc -> {"none", "begun", "reading"}]
           /\ UNCHANGED <<view, db, stale, effects, counted>>
  BY DEF TypeOK, Locked

LEMMA ReturnTyped ==
    ASSUME TypeOK, NEW p \in Proc, NEW r \in Req,
           NEW reason \in Reason, NEW result \in Result,
           Return(p, r, reason, result)
    PROVE  /\ pc'    \in [Proc -> {"idle", "checked", "lost", "run", "ran"}]
           /\ out'   \in [Proc -> Receipt]
           /\ draft' \in [Proc -> Draft]
  BY BlanksTyped DEF TypeOK, Return, Receipt

LEMMA ReplayTyped ==
    ASSUME TypeOK, NEW p \in Proc, NEW r \in Req, NEW row \in Row,
           Replay(p, r, row)
    PROVE  /\ pc'    \in [Proc -> {"idle", "checked", "lost", "run", "ran"}]
           /\ out'   \in [Proc -> Receipt]
           /\ draft' \in [Proc -> Draft]
  <1>1. row.result \in Result
    BY DEF Row
  <1>2. CASE row.status = "COMMITTED"
    BY <1>1, <1>2, ReturnTyped DEF Replay, Reason
  <1>3. CASE row.status # "COMMITTED"
    BY <1>3, ReturnTyped, BlanksTyped DEF Replay, Reason
  <1> QED
    BY <1>2, <1>3

LEMMA DraftedTyped ==
    ASSUME TypeOK, NEW p \in Proc,
           NEW reason \in Reason, NEW result \in Result,
           Drafted(p, reason, result)
    PROVE  /\ pc'    \in [Proc -> {"idle", "checked", "lost", "run", "ran"}]
           /\ draft' \in [Proc -> Draft]
  BY DEF TypeOK, Drafted, Draft

\* The specification never leaves its types: every process's connection,
\* call, draft and receipt, and every row, keep their shape.
THEOREM TypeCorrect == Spec => []TypeOK
  <1>1. Init => TypeOK
    BY BlanksTyped DEF Init, TypeOK, Receipt, Reason
  <1>2. TypeOK /\ [Next]_vars => TypeOK'
    <2> SUFFICES ASSUME TypeOK, [Next]_vars PROVE TypeOK'
      OBVIOUS
    <2>1. ASSUME NEW p \in Proc, CallBlank(p) PROVE TypeOK'
      <3>1. cur[p] \in Req
        BY DEF TypeOK
      <3> QED
        BY <2>1, <3>1, ReturnTyped, BlanksTyped DEF CallBlank, TypeOK, Reason
    <2>2. ASSUME NEW p \in Proc, NEW r \in Req, Call(p, r) PROVE TypeOK'
      <3>1. Seen(p)[r] \in Row
        BY SeenTyped
      <3>2. /\ pc'    \in [Proc -> {"idle", "checked", "lost", "run", "ran"}]
            /\ out'   \in [Proc -> Receipt]
            /\ draft' \in [Proc -> Draft]
        <4>1. CASE Seen(p)[r].status = "CLAIMABLE"
          BY <2>2, <4>1 DEF Call, TypeOK
        <4>2. CASE Seen(p)[r].status # "CLAIMABLE"
          BY <2>2, <3>1, <4>2, ReplayTyped DEF Call
        <4> QED
          BY <4>1, <4>2
      <3> QED
        BY <2>2, <3>2, SelectTyped DEF Call, TypeOK
    <2>3. ASSUME NEW p \in Proc, ClaimWon(p) PROVE TypeOK'
      <3>1. db' \in [Req -> Row]
        BY <2>3, BlanksTyped DEF ClaimWon, TypeOK
      <3> QED
        BY <2>3, <3>1, EndTransactionTyped DEF ClaimWon, TypeOK
    <2>4. ASSUME NEW p \in Proc, ClaimLost(p) PROVE TypeOK'
      BY <2>4, EndTransactionTyped DEF ClaimLost, TypeOK
    <2>5. ASSUME NEW p \in Proc, ClaimLocked(p) PROVE TypeOK'
      <3>1. cur[p] \in Req
        BY DEF TypeOK
      <3> QED
        BY <2>5, <3>1, LockedTyped, ReturnTyped, BlanksTyped
        DEF ClaimLocked, TypeOK, Reason
    <2>6. ASSUME NEW p \in Proc, Reread(p) PROVE TypeOK'
      <3>1. cur[p] \in Req
        BY DEF TypeOK
      <3>2. Seen(p)[cur[p]] \in Row
        BY <3>1, SeenTyped
      <3> QED
        BY <2>6, <3>1, <3>2, ReplayTyped, SelectTyped DEF Reread, TypeOK
    <2>7. ASSUME NEW p \in Proc, RunOk(p) PROVE TypeOK'
      <3>1. [ok |-> TRUE, execution_id |-> p] \in Result
        BY DEF Result
      <3>2. effects' \in [Req -> Nat]
        BY <2>7 DEF RunOk, Happen, TypeOK
      <3>3. /\ pc'    \in [Proc -> {"idle", "checked", "lost", "run", "ran"}]
            /\ draft' \in [Proc -> Draft]
        BY <2>7, <3>1, DraftedTyped DEF RunOk, Reason
      <3> QED
        BY <2>7, <3>2, <3>3 DEF RunOk, Drafted, TypeOK
    <2>8. ASSUME NEW p \in Proc, RunFail(p) PROVE TypeOK'
      <3>1. effects' \in [Req -> Nat]
        BY <2>8 DEF RunFail, Happen, TypeOK
      <3>2. /\ pc'    \in [Proc -> {"idle", "checked", "lost", "run", "ran"}]
            /\ draft' \in [Proc -> Draft]
        BY <2>8, BlanksTyped, DraftedTyped DEF RunFail, Reason
      <3> QED
        BY <2>8, <3>1, <3>2 DEF RunFail, Drafted, TypeOK
    <2>9. ASSUME NEW p \in Proc, Settle(p) PROVE TypeOK'
      <3>1. /\ cur[p] \in Req
            /\ draft[p].reason \in Reason
            /\ draft[p].result \in Result
        BY DEF TypeOK, Draft
      <3>2. db' \in [Req -> Row]
        BY <2>9, <3>1 DEF Settle, TypeOK, Row, Status
      <3> QED
        BY <2>9, <3>1, <3>2, EndTransactionTyped, ReturnTyped
        DEF Settle, TypeOK
    <2>10. ASSUME NEW p \in Proc, SettleLocked(p) PROVE TypeOK'
      <3>1. cur[p] \in Req
        BY DEF TypeOK
      <3>2. abandoned' \in SUBSET Req
        BY <2>10 DEF SettleLocked, Abandon, TypeOK
      <3> QED
        BY <2>10, <3>1, <3>2, LockedTyped, ReturnTyped, BlanksTyped
        DEF SettleLocked, TypeOK, Reason
    <2>11. ASSUME NEW p \in Proc, SettleUnserializable(p) PROVE TypeOK'
      <3>1. cur[p] \in Req
        BY DEF TypeOK
      <3>2. abandoned' \in SUBSET Req
        BY <2>11 DEF SettleUnserializable, Abandon, TypeOK
      <3> QED
        BY <2>11, <3>1, <3>2, ReturnTyped, BlanksTyped
        DEF SettleUnserializable, TypeOK, Reason
    <2>12. ASSUME NEW p \in Proc, Crash(p) PROVE TypeOK'
      <3>1. abandoned' \in SUBSET Req
        BY <2>12 DEF Crash, Abandon, TypeOK
      <3> QED
        BY <2>12, <3>1, EndTransactionTyped, BlanksTyped DEF Crash, TypeOK
    <2>13. ASSUME NEW p \in Proc, CountStale(p) PROVE TypeOK'
      <3>1. counted' \in Nat
        <4>1. IsFiniteSet({r \in stale : Seen(p)[r].status = "PENDING"})
          BY ReqAssumption, FS_Subset DEF TypeOK
        <4> QED
          BY <2>13, <4>1, FS_CardinalityType DEF CountStale
      <3> QED
        BY <2>13, <3>1, SelectTyped DEF CountStale, TypeOK
    <2>14. ASSUME NEW p \in Proc, SweepStale(p) PROVE TypeOK'
      BY <2>14 DEF SweepStale, TypeOK
    <2>15. ASSUME NEW r \in Req, Age(r) PROVE TypeOK'
      BY <2>15 DEF Age, TypeOK
    <2>16. CASE UNCHANGED vars
      BY <2>16 DEF vars, TypeOK
    <2> QED
      BY <2>1, <2>2, <2>3, <2>4, <2>5, <2>6, <2>7, <2>8, <2>9, <2>10, <2>11,
         <2>12, <2>13, <2>14, <2>15, <2>16 DEF Next, Step
  <1> QED
    BY <1>1, <1>2, PTL DEF Spec
-----------------------------------------------------------------------------
(* The inductive invariant.  AtMostOnce is not inductive: it needs that a  *)
(* claim has one owner, that the owner's row stays PENDING until it        *)
(* settles, and that nothing has happened before the owner runs.  The      *)
(* claims about receipts need that a row, a snapshot of it and a draft say *)
(* ok only when the effect happened, and that a settled row is final in    *)
(* every snapshot.                                                         *)

\* A claim has one owner, and its row is PENDING as long as it has one.
OwnersHold ==
    /\ \A p \in Proc : pc[p] \in {"run", "ran"} => db[cur[p]].status = "PENDING"
    /\ \A p, q \in Proc : /\ pc[p] \in {"run", "ran"}
                          /\ pc[q] \in {"run", "ran"}
                          /\ cur[p] = cur[q]
                          => p = q

\* Nothing happens before the claim, nor before the owner runs.
NotYet ==
    /\ \A r \in Req : db[r].status = "CLAIMABLE" => effects[r] = 0
    /\ \A p \in Proc : pc[p] = "run" => effects[cur[p]] = 0

\* Whatever says ok says so of an effect that happened.
OkIsTrue ==
    /\ \A r \in Req : db[r].result.ok => effects[r] = 1
    /\ \A p \in Proc, r \in Req : view[p][r].result.ok => effects[r] = 1
    /\ \A p \in Proc : pc[p] = "ran" /\ draft[p].result.ok => effects[cur[p]] = 1

\* A settled row is final, in every snapshot and in every receipt.
SettledIsFinal ==
    /\ \A p \in Proc, r \in Req :
          view[p][r].status = "COMMITTED" => view[p][r] = db[r]
    /\ \A p \in Proc :
          Conclusive(out[p]) =>
            LET row == db[out[p].request_id] IN
                row.status = "COMMITTED" /\ out[p].result = row.result

SafetyInv ==
    /\ AtMostOnce
    /\ OwnersHold
    /\ NotYet
    /\ OkIsTrue
    /\ OkMeansEffect
    /\ SettledIsFinal
    /\ PendingIsExplained

\* A step that moves no row and runs nothing keeps the invariant when nobody
\* becomes an owner, owners that stop are accounted for, snapshots are taken
\* of the current rows, and a new receipt is either inconclusive or a replay
\* of a settled row.
ReadsRows == \A q \in Proc : view'[q] = view[q] \/ view'[q] = db \/ view'[q] = NoRows

KeepsOwners ==
    /\ \A q \in Proc : pc'[q] \in {"run", "ran"} =>
            pc'[q] = pc[q] /\ cur'[q] = cur[q] /\ draft'[q] = draft[q]
    /\ \A r \in Req : /\ r \in abandoned => r \in abandoned'
                      /\ \A q \in Proc : Owns(q, r) =>
                            r \in abandoned' \/ Owns(q, r)'

AnswersFromRows ==
    \A q \in Proc :
        \/ out'[q] = out[q]
        \/ ~Conclusive(out'[q]) /\ ~out'[q].result.ok
        \/ LET row == db[out'[q].request_id] IN
              row.status = "COMMITTED" /\ out'[q].result = row.result

LEMMA ReadingStep ==
    ASSUME TypeOK, TypeOK', SafetyInv, UNCHANGED <<db, effects>>,
           ReadsRows, KeepsOwners, AnswersFromRows
    PROVE  SafetyInv'
  <1>1. AtMostOnce'
    BY DEF SafetyInv, AtMostOnce
  <1>2. OwnersHold'
    BY DEF SafetyInv, OwnersHold, KeepsOwners
  <1>3. NotYet'
    BY DEF SafetyInv, NotYet, KeepsOwners
  <1>4. OkIsTrue'
    <2>1. \A r \in Req : ~NoRows[r].result.ok
      BY DEF NoRows, NoRow, NoResult
    <2>2. ASSUME NEW p \in Proc, NEW r \in Req, view'[p][r].result.ok
          PROVE  effects[r] = 1
      BY <2>1, <2>2 DEF SafetyInv, OkIsTrue, ReadsRows
    <2> QED
      BY <2>2 DEF SafetyInv, OkIsTrue, KeepsOwners
  <1>5. OkMeansEffect'
    <2> SUFFICES ASSUME NEW p \in Proc, out'[p].result.ok
                 PROVE  effects[out'[p].request_id] = 1
      BY DEF OkMeansEffect
    <2>1. out'[p].request_id \in Req
      BY DEF TypeOK, Receipt
    <2> QED
      BY <2>1 DEF SafetyInv, OkMeansEffect, OkIsTrue, AnswersFromRows
  <1>6. SettledIsFinal'
    <2>1. \A r \in Req : NoRows[r].status # "COMMITTED"
      BY DEF NoRows, NoRow
    <2>2. ASSUME NEW p \in Proc, NEW r \in Req, view'[p][r].status = "COMMITTED"
          PROVE  view'[p][r] = db[r]
      BY <2>1, <2>2 DEF SafetyInv, SettledIsFinal, ReadsRows
    <2>3. ASSUME NEW p \in Proc, Conclusive(out'[p])
          PROVE  LET row == db[out'[p].request_id] IN
                    row.status = "COMMITTED" /\ out'[p].result = row.result
      BY <2>3 DEF SafetyInv, SettledIsFinal, AnswersFromRows
    <2> QED
      BY <2>2, <2>3 DEF SettledIsFinal, Conclusive
  <1>7. PendingIsExplained'
    BY DEF SafetyInv, PendingIsExplained, KeepsOwners
  <1> QED
    BY <1>1, <1>2, <1>3, <1>4, <1>5, <1>6, <1>7 DEF SafetyInv

\* What a connection sees of a settled row is the row.
LEMMA SeenSettled ==
    ASSUME TypeOK, SafetyInv, NEW p \in Proc, NEW r \in Req,
           Seen(p)[r].status = "COMMITTED"
    PROVE  Seen(p)[r] = db[r]
  BY DEF Seen, SafetyInv, SettledIsFinal

LEMMA SelectReads ==
    ASSUME TypeOK, NEW p \in Proc, Select(p)
    PROVE  ReadsRows
  BY DEF TypeOK, Select, ReadsRows

LEMMA EndTransactionReads ==
    ASSUME TypeOK, NEW p \in Proc, EndTransaction(p)
    PROVE  ReadsRows
  BY DEF TypeOK, EndTransaction, ReadsRows

\* An answer with an inconclusive reason and no result.
LEMMA ReturnAnswers ==
    ASSUME TypeOK, NEW p \in Proc, NEW r \in Req, NEW reason,
           reason \in {"missing_request_id", "claim_pending", "raised"},
           Return(p, r, reason, NoResult)
    PROVE  AnswersFromRows
  BY DEF TypeOK, Return, AnswersFromRows, Conclusive, NoResult

LEMMA ReplayAnswers ==
    ASSUME TypeOK, SafetyInv, NEW p \in Proc, NEW r \in Req,
           Replay(p, r, Seen(p)[r])
    PROVE  AnswersFromRows
  <1>1. CASE Seen(p)[r].status = "COMMITTED"
    <2>1. Return(p, r, "dedup_same_request_id", db[r].result)
      BY <1>1, SeenSettled DEF Replay
    <2>2. db[r].status = "COMMITTED"
      BY <1>1, SeenSettled
    <2> QED
      BY <2>1, <2>2 DEF TypeOK, Return, AnswersFromRows
  <1>2. CASE Seen(p)[r].status # "COMMITTED"
    BY <1>2, ReturnAnswers DEF Replay
  <1> QED
    BY <1>1, <1>2

\* The steps that do move a row or run the effect.
LEMMA ClaimWonSafe ==
    ASSUME TypeOK, TypeOK', SafetyInv, NEW p \in Proc, ClaimWon(p)
    PROVE  SafetyInv'
  <1> DEFINE r == cur[p]
  <1>0. /\ r \in Req
        /\ effects[r] = 0
        /\ db[r].status = "CLAIMABLE"
        /\ db' = [db EXCEPT ![r] = PendingRow]
        /\ \A q \in Proc : pc[q] \in {"run", "ran"} => cur[q] # r
        /\ pc' = [pc EXCEPT ![p] = "run"]
        /\ UNCHANGED <<cur, draft, out, effects, abandoned>>
    BY DEF ClaimWon, TypeOK, SafetyInv, NotYet, OwnersHold
  <1>1. PendingRow.status = "PENDING" /\ ~PendingRow.result.ok
    BY DEF PendingRow, NoResult
  <1>2. AtMostOnce' /\ OkMeansEffect'
    BY <1>0 DEF SafetyInv, AtMostOnce, OkMeansEffect
  <1>3. OwnersHold'
    BY <1>0, <1>1 DEF SafetyInv, OwnersHold, TypeOK
  <1>4. NotYet'
    BY <1>0, <1>1 DEF SafetyInv, NotYet, TypeOK
  <1>5. \A q \in Proc : view'[q] = view[q] \/ view'[q] = NoRows
    BY DEF ClaimWon, EndTransaction, TypeOK
  <1>6. \A x \in Req : NoRows[x].status # "COMMITTED" /\ ~NoRows[x].result.ok
    BY DEF NoRows, NoRow, NoResult
  <1>7. OkIsTrue'
    <2>1. ASSUME NEW q \in Proc, NEW x \in Req, view'[q][x].result.ok
          PROVE  effects[x] = 1
      BY <1>5, <1>6, <2>1 DEF SafetyInv, OkIsTrue
    <2> QED
      BY <2>1, <1>0, <1>1 DEF SafetyInv, OkIsTrue, TypeOK
  <1>8. SettledIsFinal'
    <2>1. ASSUME NEW q \in Proc, NEW x \in Req, view'[q][x].status = "COMMITTED"
          PROVE  view'[q][x] = db[x] /\ x # r
      BY <1>0, <1>5, <1>6, <2>1 DEF SafetyInv, SettledIsFinal
    <2>2. ASSUME NEW q \in Proc, Conclusive(out[q])
          PROVE  /\ db[out[q].request_id].status = "COMMITTED"
                 /\ out[q].result = db[out[q].request_id].result
                 /\ out[q].request_id # r
      BY <1>0, <2>2 DEF SafetyInv, SettledIsFinal
    <2>3. \A x \in Req : x # r => db'[x] = db[x]
      BY <1>0 DEF TypeOK
    <2>4. \A q \in Proc : out[q].request_id \in Req
      BY DEF TypeOK, Receipt
    <2> QED
      BY <2>1, <2>2, <2>3, <2>4, <1>0 DEF SettledIsFinal, Conclusive
  <1>9. PendingIsExplained'
    BY <1>0 DEF SafetyInv, PendingIsExplained, Owns, TypeOK
  <1> QED
    BY <1>2, <1>3, <1>4, <1>7, <1>8, <1>9 DEF SafetyInv

\* Running execute_fn, whether or not the effect happens, whatever is drafted.
LEMMA RunSafe ==
    ASSUME TypeOK, TypeOK', SafetyInv, NEW p \in Proc, pc[p] = "run",
           Happen(cur[p]) \/ UNCHANGED effects,
           NEW reason, NEW result, Drafted(p, reason, result),
           result.ok => Happen(cur[p])
    PROVE  SafetyInv'
  <1> DEFINE r == cur[p]
  <1>0. /\ r \in Req
        /\ effects[r] = 0
        /\ db[r].status = "PENDING"
        /\ effects' = [effects EXCEPT ![r] = 1] \/ UNCHANGED effects
        /\ result.ok => effects'[r] = 1
        /\ pc' = [pc EXCEPT ![p] = "ran"]
        /\ draft' = [draft EXCEPT ![p] = [reason |-> reason, result |-> result]]
        /\ UNCHANGED <<db, view, cur, out, abandoned>>
    BY DEF Drafted, Happen, TypeOK, SafetyInv, NotYet, OwnersHold
  <1>1. \A x \in Req : x # r => effects'[x] = effects[x]
    BY <1>0 DEF TypeOK
  <1>2. AtMostOnce'
    <2>1. effects'[r] <= 1
      BY <1>0 DEF TypeOK
    <2>2. \A x \in Req : effects[x] <= 1
      BY DEF SafetyInv, AtMostOnce
    <2> QED
      BY <1>1, <2>1, <2>2 DEF AtMostOnce
  <1>3. OwnersHold'
    BY <1>0 DEF SafetyInv, OwnersHold, TypeOK
  <1>4. NotYet'
    <2>1. ASSUME NEW q \in Proc, pc'[q] = "run"
          PROVE  effects'[cur[q]] = 0
      <3>1. pc[q] = "run" /\ cur[q] # r /\ cur[q] \in Req
        BY <1>0, <2>1 DEF SafetyInv, OwnersHold, TypeOK
      <3> QED
        BY <1>1, <3>1 DEF SafetyInv, NotYet
    <2>2. ASSUME NEW x \in Req, db[x].status = "CLAIMABLE"
          PROVE  effects'[x] = 0
      BY <1>0, <1>1, <2>2 DEF SafetyInv, NotYet
    <2> QED
      BY <1>0, <2>1, <2>2 DEF NotYet
  <1>5. \A x \in Req : effects[x] = 1 => effects'[x] = 1
    BY <1>0, <1>1
  <1>6. OkIsTrue'
    <2>1. ASSUME NEW q \in Proc, pc'[q] = "ran", draft'[q].result.ok
          PROVE  effects'[cur[q]] = 1
      <3>1. CASE q = p
        BY <1>0, <2>1, <3>1 DEF TypeOK
      <3>2. CASE q # p
        BY <1>0, <1>5, <2>1, <3>2 DEF SafetyInv, OkIsTrue, TypeOK
      <3> QED
        BY <3>1, <3>2
    <2> QED
      BY <1>0, <1>5, <2>1 DEF SafetyInv, OkIsTrue
  <1>7. OkMeansEffect'
    BY <1>0, <1>5 DEF SafetyInv, OkMeansEffect, TypeOK, Receipt
  <1>8. SettledIsFinal'
    BY <1>0 DEF SafetyInv, SettledIsFinal, Conclusive
  <1>9. PendingIsExplained'
    BY <1>0 DEF SafetyInv, PendingIsExplained, Owns, TypeOK
  <1> QED
    BY <1>2, <1>3, <1>4, <1>6, <1>7, <1>8, <1>9 DEF SafetyInv

\* The owner's settle finds its row PENDING, so the receipt it returns is the
\* result it has stored.
LEMMA SettleSafe ==
    ASSUME TypeOK, TypeOK', SafetyInv, NEW p \in Proc, Settle(p)
    PROVE  SafetyInv'
  <1> DEFINE r == cur[p]
             row == [status |-> "COMMITTED", result |-> draft[p].result]
  <1>0. /\ r \in Req
        /\ db[r].status = "PENDING"
        /\ draft[p].result.ok => effects[r] = 1
        /\ db' = [db EXCEPT ![r] = row]
        /\ pc' = [pc EXCEPT ![p] = "idle"]
        /\ draft' = [draft EXCEPT ![p] = NoDraft]
        /\ out' = [out EXCEPT ![p] = [reason |-> draft[p].reason,
                                     request_id |-> r,
                                     result |-> draft[p].result]]
        /\ UNCHANGED <<cur, effects, abandoned>>
    BY DEF Settle, Return, TypeOK, SafetyInv, OkIsTrue, OwnersHold
  <1>1. \A x \in Req : x # r => db'[x] = db[x]
    BY <1>0 DEF TypeOK
  <1>2. db'[r] = row
    BY <1>0 DEF TypeOK
  <1>3. \A q \in Proc : q # p /\ pc[q] \in {"run", "ran"} => cur[q] # r
    BY DEF Settle, SafetyInv, OwnersHold
  <1>4. AtMostOnce'
    BY <1>0 DEF SafetyInv, AtMostOnce
  <1>5. OwnersHold'
    BY <1>0, <1>1, <1>3 DEF SafetyInv, OwnersHold, TypeOK
  <1>6. NotYet'
    BY <1>0, <1>1, <1>2 DEF SafetyInv, NotYet, TypeOK
  <1>7. \A q \in Proc : view'[q] = view[q] \/ view'[q] = NoRows
    BY DEF Settle, EndTransaction, TypeOK
  <1>8. \A x \in Req : NoRows[x].status # "COMMITTED" /\ ~NoRows[x].result.ok
    BY DEF NoRows, NoRow, NoResult
  <1>9. OkIsTrue'
    <2>1. ASSUME NEW q \in Proc, NEW x \in Req, view'[q][x].result.ok
          PROVE  effects[x] = 1
      BY <1>7, <1>8, <2>1 DEF SafetyInv, OkIsTrue
    <2>2. ASSUME NEW x \in Req, db'[x].result.ok
          PROVE  effects[x] = 1
      BY <1>0, <1>1, <1>2, <2>2 DEF SafetyInv, OkIsTrue
    <2>3. ASSUME NEW q \in Proc, pc'[q] = "ran", draft'[q].result.ok
          PROVE  effects[cur[q]] = 1
      BY <1>0, <2>3 DEF SafetyInv, OkIsTrue, TypeOK
    <2> QED
      BY <1>0, <2>1, <2>2, <2>3 DEF OkIsTrue
  <1>10. OkMeansEffect'
    BY <1>0 DEF SafetyInv, OkMeansEffect, TypeOK
  <1>11. SettledIsFinal'
    <2>1. ASSUME NEW q \in Proc, NEW x \in Req, view'[q][x].status = "COMMITTED"
          PROVE  view'[q][x] = db'[x]
      <3>1. view[q][x].status = "COMMITTED" /\ view'[q] = view[q]
        BY <1>7, <1>8, <2>1
      <3>2. view[q][x] = db[x] /\ x # r
        BY <1>0, <3>1 DEF SafetyInv, SettledIsFinal
      <3> QED
        BY <1>1, <3>1, <3>2
    <2>2. ASSUME NEW q \in Proc, Conclusive(out'[q])
          PROVE  /\ db'[out'[q].request_id].status = "COMMITTED"
                 /\ out'[q].result = db'[out'[q].request_id].result
      <3>1. CASE q = p
        BY <1>0, <1>2, <3>1 DEF TypeOK
      <3>2. CASE q # p
        <4>1. out'[q] = out[q] /\ out[q].request_id \in Req
          BY <1>0, <3>2 DEF TypeOK, Receipt
        <4>2. /\ db[out[q].request_id].status = "COMMITTED"
              /\ out[q].result = db[out[q].request_id].result
          BY <2>2, <4>1 DEF SafetyInv, SettledIsFinal
        <4>3. out[q].request_id # r
          BY <1>0, <4>2
        <4> QED
          BY <1>1, <4>1, <4>2, <4>3
      <3> QED
        BY <3>1, <3>2
    <2> QED
      BY <2>1, <2>2 DEF SettledIsFinal, Conclusive
  <1>12. PendingIsExplained'
    BY <1>0, <1>1, <1>2 DEF SafetyInv, PendingIsExplained, Owns, TypeOK
  <1> QED
    BY <1>4, <1>5, <1>6, <1>9, <1>10, <1>11, <1>12 DEF SafetyInv

-----------------------------------------------------------------------------
(* The safety theorems.                                                    *)

LEMMA SafetyInvInductive ==
    TypeOK /\ TypeOK' /\ SafetyInv /\ [Next]_vars => SafetyInv'
  <1> SUFFICES ASSUME TypeOK, TypeOK', SafetyInv, [Next]_vars
               PROVE  SafetyInv'
    OBVIOUS
  <1>0. \A p \in Proc : cur[p] \in Req
    BY DEF TypeOK
  <1>1. ASSUME NEW p \in Proc, CallBlank(p) PROVE SafetyInv'
    <2>1. AnswersFromRows
      BY <1>0, <1>1, ReturnAnswers DEF CallBlank
    <2>2. KeepsOwners
      BY <1>1 DEF CallBlank, Return, KeepsOwners, Owns, TypeOK
    <2> QED
      BY <1>1, <2>1, <2>2, ReadingStep DEF CallBlank, ReadsRows
  <1>2. ASSUME NEW p \in Proc, NEW r \in Req, Call(p, r) PROVE SafetyInv'
    <2>1. AnswersFromRows
      BY <1>2, ReplayAnswers DEF Call, AnswersFromRows
    <2>2. KeepsOwners
      BY <1>2 DEF Call, Replay, Return, KeepsOwners, Owns, TypeOK
    <2> QED
      BY <1>2, <2>1, <2>2, SelectReads, ReadingStep DEF Call
  <1>3. ASSUME NEW p \in Proc, ClaimLost(p) PROVE SafetyInv'
    <2>1. KeepsOwners
      BY <1>3 DEF ClaimLost, KeepsOwners, Owns, TypeOK
    <2> QED
      BY <1>3, <2>1, EndTransactionReads, ReadingStep DEF ClaimLost, AnswersFromRows
  <1>4. ASSUME NEW p \in Proc, ClaimLocked(p) PROVE SafetyInv'
    <2>1. AnswersFromRows
      BY <1>0, <1>4, ReturnAnswers DEF ClaimLocked
    <2>2. KeepsOwners
      BY <1>4 DEF ClaimLocked, Return, KeepsOwners, Owns, TypeOK
    <2> QED
      BY <1>4, <2>1, <2>2, ReadingStep DEF ClaimLocked, Locked, ReadsRows
  <1>5. ASSUME NEW p \in Proc, Reread(p) PROVE SafetyInv'
    <2>1. AnswersFromRows
      BY <1>0, <1>5, ReplayAnswers DEF Reread
    <2>2. KeepsOwners
      BY <1>5 DEF Reread, Replay, Return, KeepsOwners, Owns, TypeOK
    <2> QED
      BY <1>5, <2>1, <2>2, SelectReads, ReadingStep DEF Reread
  <1>6. ASSUME NEW p \in Proc, SettleLocked(p) PROVE SafetyInv'
    <2>1. AnswersFromRows
      BY <1>0, <1>6, ReturnAnswers DEF SettleLocked
    <2>2. KeepsOwners
      BY <1>6 DEF SettleLocked, Return, Abandon, KeepsOwners, Owns, TypeOK
    <2> QED
      BY <1>6, <2>1, <2>2, ReadingStep DEF SettleLocked, Locked, ReadsRows
  <1>7. ASSUME NEW p \in Proc, SettleUnserializable(p) PROVE SafetyInv'
    <2>1. AnswersFromRows
      BY <1>0, <1>7, ReturnAnswers DEF SettleUnserializable
    <2>2. KeepsOwners
      BY <1>7 DEF SettleUnserializable, Return, Abandon, KeepsOwners, Owns, TypeOK
    <2> QED
      BY <1>7, <2>1, <2>2, ReadingStep DEF SettleUnserializable, ReadsRows
  <1>8. ASSUME NEW p \in Proc, Crash(p) PROVE SafetyInv'
    <2>1. KeepsOwners
      BY <1>8 DEF Crash, Abandon, KeepsOwners, Owns, TypeOK
    <2> QED
      BY <1>8, <2>1, EndTransactionReads, ReadingStep DEF Crash, AnswersFromRows
  <1>9. ASSUME NEW p \in Proc, CountStale(p) PROVE SafetyInv'
    <2>1. KeepsOwners
      BY <1>9 DEF CountStale, KeepsOwners, Owns
    <2> QED
      BY <1>9, <2>1, SelectReads, ReadingStep DEF CountStale, AnswersFromRows
  <1>10. ASSUME NEW p \in Proc, SweepStale(p) PROVE SafetyInv'
    BY <1>10, ReadingStep
    DEF SweepStale, ReadsRows, AnswersFromRows, KeepsOwners, Owns
  <1>11. ASSUME NEW r \in Req, Age(r) PROVE SafetyInv'
    BY <1>11, ReadingStep
    DEF Age, ReadsRows, AnswersFromRows, KeepsOwners, Owns
  <1>12. ASSUME NEW p \in Proc, RunOk(p) PROVE SafetyInv'
    BY <1>12, RunSafe DEF RunOk
  <1>13. ASSUME NEW p \in Proc, RunFail(p) PROVE SafetyInv'
    BY <1>13, RunSafe DEF RunFail, NoResult
  <1>14. CASE UNCHANGED vars
    BY <1>14, ReadingStep
    DEF vars, ReadsRows, AnswersFromRows, KeepsOwners, Owns
  <1> QED
    BY <1>1, <1>2, <1>3, <1>4, <1>5, <1>6, <1>7, <1>8, <1>9, <1>10, <1>11,
       <1>12, <1>13, <1>14, ClaimWonSafe, SettleSafe DEF Next, Step

LEMMA SafetyInvHolds == Spec => []SafetyInv
  <1>1. Init => SafetyInv
    BY DEF Init, SafetyInv, AtMostOnce, OwnersHold, NotYet, OkIsTrue,
           OkMeansEffect, SettledIsFinal, PendingIsExplained, Conclusive,
           NoRows, NoRow, NoResult
  <1> QED
    BY <1>1, TypeCorrect, SafetyInvInductive, PTL DEF Spec

\* However many processes retry, crash and meet a locked database, the side
\* effect of a request happens at most once.
THEOREM ExecutedAtMostOnce == Spec => []AtMostOnce
  BY SafetyInvHolds, PTL DEF SafetyInv

\* A caller is told ok only when the effect of its request has happened.
THEOREM OkReceiptsAreTrue == Spec => []OkMeansEffect
  BY SafetyInvHolds, PTL DEF SafetyInv

\* All conclusive receipts about one request carry the same result: a replay
\* returns what the run returned.
THEOREM ReplaysAgree == Spec => []ReceiptsAgree
  <1>1. SafetyInv => ReceiptsAgree
    BY DEF SafetyInv, SettledIsFinal, ReceiptsAgree
  <1> QED
    BY <1>1, SafetyInvHolds, PTL

\* A row that nobody works on is PENDING only because its owner died or its
\* settle raised.
THEOREM PendingHasACause == Spec => []PendingIsExplained
  BY SafetyInvHolds, PTL DEF SafetyInv

-----------------------------------------------------------------------------
(* The rows, and the abstract claims.                                      *)

RowClaimed(p) ==
    /\ db[cur[p]].status = "CLAIMABLE"
    /\ db' = [db EXCEPT ![cur[p]] = PendingRow]
    /\ UNCHANGED effects

EffectRun(p) ==
    /\ db[cur[p]].status = "PENDING"
    /\ effects[cur[p]] = 0
    /\ effects' = [effects EXCEPT ![cur[p]] = 1]
    /\ UNCHANGED db

RowSettled(p) ==
    /\ db[cur[p]].status = "PENDING"
    /\ draft[p].result.ok => effects[cur[p]] = 1
    /\ db' = [db EXCEPT ![cur[p]] = [status |-> "COMMITTED",
                                    result |-> draft[p].result]]
    /\ UNCHANGED effects

\* A step leaves rows and effects alone, or is one of these three.
RowStep ==
    \/ UNCHANGED <<db, effects>>
    \/ \E p \in Proc : RowClaimed(p) \/ EffectRun(p) \/ RowSettled(p)

LEMMA RowSteps ==
    ASSUME TypeOK, SafetyInv, [Next]_vars
    PROVE  RowStep
  <1>1. ASSUME NEW p \in Proc, ClaimWon(p) PROVE RowStep
    BY <1>1 DEF ClaimWon, RowStep, RowClaimed
  <1>2. ASSUME NEW p \in Proc, pc[p] = "run", Happen(cur[p]), UNCHANGED db
        PROVE  RowStep
    <2>1. cur[p] \in Req /\ db[cur[p]].status = "PENDING" /\ effects[cur[p]] = 0
      BY <1>2 DEF TypeOK, SafetyInv, OwnersHold, NotYet
    <2>2. effects' = [effects EXCEPT ![cur[p]] = 1]
      BY <1>2, <2>1 DEF Happen
    <2> QED
      BY <1>2, <2>1, <2>2 DEF RowStep, EffectRun
  <1>3. ASSUME NEW p \in Proc, RunOk(p) \/ RunFail(p) PROVE RowStep
    BY <1>2, <1>3 DEF RunOk, RunFail, Drafted, RowStep
  <1>4. ASSUME NEW p \in Proc, Settle(p) PROVE RowStep
    <2>1. /\ db[cur[p]].status = "PENDING"
          /\ draft[p].result.ok => effects[cur[p]] = 1
      BY <1>4 DEF Settle, SafetyInv, OwnersHold, OkIsTrue
    <2>2. RowSettled(p)
      BY <1>4, <2>1 DEF Settle, RowSettled
    <2> QED
      BY <2>2 DEF RowStep
  <1>5. ASSUME NEW p \in Proc,
               \/ CallBlank(p) \/ (\E r \in Req : Call(p, r)) \/ ClaimLost(p)
               \/ ClaimLocked(p) \/ Reread(p) \/ SettleLocked(p)
               \/ SettleUnserializable(p) \/ Crash(p) \/ CountStale(p)
               \/ SweepStale(p)
        PROVE  RowStep
    BY <1>5 DEF CallBlank, Call, ClaimLost, ClaimLocked, Reread, SettleLocked,
                SettleUnserializable, Crash, CountStale, SweepStale, Locked,
                RowStep
  <1>6. ASSUME NEW r \in Req, Age(r) PROVE RowStep
    BY <1>6 DEF Age, RowStep
  <1>7. CASE UNCHANGED vars
    BY <1>7 DEF vars, RowStep
  <1> QED
    BY <1>1, <1>3, <1>4, <1>5, <1>6, <1>7 DEF Next, Step

\* A claim is never released and an outcome never rewritten.
THEOREM RowsOnlyAdvance == Spec => NeverReleased
  <1>1. TypeOK /\ SafetyInv /\ [Next]_vars =>
          [\A r \in Req : /\ db[r].status = "PENDING" =>
                                db'[r].status \in {"PENDING", "COMMITTED"}
                          /\ db[r].status = "COMMITTED" => db'[r] = db[r]]_vars
    <2> SUFFICES ASSUME TypeOK, SafetyInv, [Next]_vars, NEW r \in Req
                 PROVE  /\ db[r].status = "PENDING" =>
                              db'[r].status \in {"PENDING", "COMMITTED"}
                        /\ db[r].status = "COMMITTED" => db'[r] = db[r]
      OBVIOUS
    <2>1. CASE UNCHANGED db
      BY <2>1 DEF TypeOK, Row, Status
    <2>2. ASSUME NEW p \in Proc, RowClaimed(p)
          PROVE  db[r].status # "CLAIMABLE" => db'[r] = db[r]
      BY <2>2 DEF RowClaimed, TypeOK
    <2>3. ASSUME NEW p \in Proc, RowSettled(p)
          PROVE  \/ db'[r] = db[r]
                 \/ db[r].status = "PENDING" /\ db'[r].status = "COMMITTED"
      BY <2>3 DEF RowSettled, TypeOK
    <2> QED
      BY <2>1, <2>2, <2>3, RowSteps DEF RowStep, EffectRun
  <1> QED
    BY <1>1, TypeCorrect, SafetyInvHolds, PTL DEF Spec, NeverReleased

\* Every behaviour of the processes is a behaviour of the abstract claims.
THEOREM Implementation == Spec => ImplementsClaims
  <1>1. Init => Claims!ClaimsInit
    BY DEF Init, Claims!ClaimsInit, NoRows, NoRow
  <1>2. TypeOK /\ SafetyInv /\ [Next]_vars => [Claims!ClaimsNext]_Claims!avars
    <2> SUFFICES ASSUME TypeOK, SafetyInv, [Next]_vars
                 PROVE  Claims!ClaimsNext \/ UNCHANGED Claims!avars
      OBVIOUS
    <2>0. \A p \in Proc : cur[p] \in Req
      BY DEF TypeOK
    <2>1. CASE UNCHANGED <<db, effects>>
      BY <2>1 DEF Claims!avars
    <2>2. ASSUME NEW p \in Proc, RowClaimed(p) PROVE Claims!ClaimsNext
      <3>1. PICK r \in Req : r = cur[p]
        BY <2>0
      <3>2. /\ db'[r].status = "PENDING"
            /\ \A x \in Req : x # r => db'[x] = db[x]
        BY <2>2, <3>1 DEF RowClaimed, TypeOK, PendingRow
      <3>3. Claims!Claim(r)
        BY <2>2, <3>1, <3>2 DEF RowClaimed, Claims!Claim
      <3> QED
        BY <3>3 DEF Claims!ClaimsNext
    <2>3. ASSUME NEW p \in Proc, EffectRun(p) PROVE Claims!ClaimsNext
      <3>1. PICK r \in Req : r = cur[p]
        BY <2>0
      <3>2. Claims!Effect(r)
        BY <2>3, <3>1 DEF EffectRun, Claims!Effect
      <3> QED
        BY <3>2 DEF Claims!ClaimsNext
    <2>4. ASSUME NEW p \in Proc, RowSettled(p) PROVE Claims!ClaimsNext
      <3>1. PICK r \in Req : r = cur[p]
        BY <2>0
      <3>2. PICK v \in {"ok", "failed"} :
                v = IF draft[p].result.ok THEN "ok" ELSE "failed"
        OBVIOUS
      <3>3. Claims!Settle(r, v)
        BY <2>4, <3>1, <3>2 DEF RowSettled, Claims!Settle, TypeOK
      <3> QED
        BY <3>3 DEF Claims!ClaimsNext
    <2> QED
      BY <2>1, <2>2, <2>3, <2>4, RowSteps DEF RowStep
  <1> QED
    BY <1>1, <1>2, TypeCorrect, SafetyInvHolds, PTL
    DEF Spec, ImplementsClaims, Claims!ClaimsSpec
=============================================================================
