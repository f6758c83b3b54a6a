--------------------------- MODULE TwoPhaseClaim ---------------------------
(***************************************************************************)
(* SettlementRequestRegistry.execute on its SQLite backend: every process  *)
(* has its own registry, its own SQLiteExecutionStore and so its own       *)
(* connection to one database file (WAL mode).  A call reads the row,      *)
(* claims it, runs the side effect and settles the row:                    *)
(*                                                                         *)
(*   idle --get--> checked --claim--> run --execute_fn--> ran --settle-->  *)
(*                    |                                                    *)
(*                    +--claim lost--> lost --get--> idle                  *)
(*                                                                         *)
(* Python's sqlite3 opens a transaction before an INSERT or an UPDATE.     *)
(* When that statement fails with "database is locked" nothing closes the  *)
(* transaction: the next SELECT fixes its snapshot, and the connection     *)
(* goes on reading that snapshot and can no longer write once another      *)
(* process has committed.  txn and view model this.                        *)
(***************************************************************************)
EXTENDS Naturals, FiniteSets

CONSTANTS
    Proc,     \* processes, one registry and one connection each
    Req,      \* stable request ids
    None      \* no process: the execution_id of a run that produced none

ASSUME NoneAssumption == None \notin Proc

\* A stale count is a number only if the requests are finitely many.
ASSUME ReqAssumption == IsFiniteSet(Req)

VARIABLES
    db,       \* Req -> the committed row of execution_requests
    stale,    \* the requests whose row is older than pending_ttl_seconds
    txn,      \* Proc -> no open transaction, one just begun, one that has read
    view,     \* Proc -> the rows an open transaction that has read still sees
    pc,       \* Proc -> where its call of execute stands
    cur,      \* Proc -> the request of that call
    draft,    \* Proc -> the receipt built by the run, before it is settled
    out,      \* Proc -> the receipt its last call returned
    effects,  \* Req -> how often the side effect of a request has happened
    abandoned,\* history: requests whose owner died or raised before settling
    counted   \* what the last sweep or stale count returned

vars == <<db, stale, txn, view, pc, cur, draft, out, effects, abandoned,
          counted>>

-----------------------------------------------------------------------------
(* Rows and receipts.  A uuid4 execution_id is named by the process that   *)
(* drew it.                                                                *)

Status == {"CLAIMABLE", "PENDING", "COMMITTED"}
Result == [ok : BOOLEAN, execution_id : Proc \cup {None}]
Row    == [status : Status, result : Result]
Reason == {"none", "missing_request_id", "dedup_same_request_id",
           "claim_pending", "executed", "execute_failed", "raised"}
Receipt == [reason : Reason, request_id : Req, result : Result]
Draft   == [reason : Reason, result : Result]

NoResult == [ok |-> FALSE, execution_id |-> None]
NoRow    == [status |-> "CLAIMABLE", result |-> NoResult]
PendingRow == [status |-> "PENDING", result |-> NoResult]
NoRows   == [r \in Req |-> NoRow]
NoDraft  == [reason |-> "none", result |-> NoResult]

TypeOK ==
    /\ db      \in [Req -> Row]
    /\ stale   \in SUBSET Req
    /\ txn     \in [Proc -> {"none", "begun", "reading"}]
    /\ view    \in [Proc -> [Req -> Row]]
    /\ pc      \in [Proc -> {"idle", "checked", "lost", "run", "ran"}]
    /\ cur     \in [Proc -> Req]
    /\ draft   \in [Proc -> Draft]
    /\ out     \in [Proc -> Receipt]
    /\ effects \in [Req -> Nat]
    /\ abandoned \in SUBSET Req
    /\ counted \in Nat

Init ==
    \E r0 \in Req :
      /\ db      = NoRows
      /\ stale   = {}
      /\ txn     = [p \in Proc |-> "none"]
      /\ view    = [p \in Proc |-> NoRows]
      /\ pc      = [p \in Proc |-> "idle"]
      /\ cur     = [p \in Proc |-> r0]
      /\ draft   = [p \in Proc |-> NoDraft]
      /\ out     = [p \in Proc |-> [reason |-> "none", request_id |-> r0,
                                    result |-> NoResult]]
      /\ effects = [r \in Req |-> 0]
      /\ abandoned = {}
      /\ counted = 0

-----------------------------------------------------------------------------
(* The store, as a connection sees it.                                     *)

\* The rows connection p reads.
Seen(p) == IF txn[p] = "reading" THEN view[p] ELSE db

\* A write from a snapshot older than the last commit is refused at once.
Outdated(p) == txn[p] = "reading" /\ view[p] # db

\* SELECT: inside a transaction that has not read yet it fixes the snapshot.
Select(p) ==
    IF txn[p] = "begun"
    THEN /\ txn'  = [txn EXCEPT ![p] = "reading"]
         /\ view' = [view EXCEPT ![p] = db]
    ELSE UNCHANGED <<txn, view>>

\* commit() and rollback() both leave the connection without a transaction.
EndTransaction(p) ==
    /\ txn'  = [txn EXCEPT ![p] = "none"]
    /\ view' = [view EXCEPT ![p] = NoRows]

\* "database is locked": the statement fails inside a transaction nobody ends.
Locked(p) ==
    /\ txn'  = [txn EXCEPT ![p] = IF @ = "none" THEN "begun" ELSE @]
    /\ UNCHANGED <<view, db, stale, effects, counted>>

\* Whether p has claimed a request that it has not settled yet.
Owns(p, r) == pc[p] \in {"run", "ran"} /\ cur[p] = r

\* p stops in the middle of its call: what it owned stays unresolved.
Abandon(p) == abandoned' = abandoned \cup {r \in Req : Owns(p, r)}

\* The call about r is answered; what the run had drafted is gone with it.
Return(p, r, reason, result) ==
    /\ pc'    = [pc EXCEPT ![p] = "idle"]
    /\ out'   = [out EXCEPT ![p] = [reason |-> reason, request_id |-> r,
                                    result |-> result]]
    /\ draft' = [draft EXCEPT ![p] = NoDraft]

\* Mutant: any COMMITTED row is replayed as a success.
ReplayAlwaysOk(p, r, row) ==
    IF row.status = "COMMITTED"
    THEN Return(p, r, "dedup_same_request_id", [row.result EXCEPT !.ok = TRUE])
    ELSE Return(p, r, "claim_pending", NoResult)

\* A COMMITTED row is replayed, any other existing row is claim_pending.
Replay(p, r, row) ==
    IF row.status = "COMMITTED"
    THEN Return(p, r, "dedup_same_request_id", row.result)
    ELSE Return(p, r, "claim_pending", NoResult)

-----------------------------------------------------------------------------
(* execute: the steps of one call.                                         *)

\* A blank request_id is refused before the store is touched.
CallBlank(p) ==
    /\ pc[p] = "idle"
    /\ Return(p, cur[p], "missing_request_id", NoResult)
    /\ UNCHANGED <<db, stale, txn, view, cur, effects, abandoned, counted>>

\* A call begins with get: an existing row answers it, no row goes on to claim.
Call(p, r) ==
    LET row == Seen(p)[r] IN
    /\ pc[p] = "idle"
    /\ cur' = [cur EXCEPT ![p] = r]
    /\ Select(p)
    /\ \/ /\ row.status = "CLAIMABLE"
          /\ pc' = [pc EXCEPT ![p] = "checked"]
          /\ UNCHANGED <<out, draft>>
       \/ /\ row.status # "CLAIMABLE"
          /\ Replay(p, r, row)
    /\ UNCHANGED <<db, stale, effects, abandoned, counted>>

\* Mutant: INSERT OR REPLACE.
ClaimReplace(p) ==
    /\ pc[p] = "checked"
    /\ ~Outdated(p)
    /\ db' = [db EXCEPT ![cur[p]] = PendingRow]
    /\ EndTransaction(p)
    /\ pc' = [pc EXCEPT ![p] = "run"]
    /\ UNCHANGED <<stale, cur, draft, out, effects, abandoned, counted>>

\* claim: INSERT of a PENDING row, then commit.
ClaimWon(p) ==
    /\ pc[p] = "checked"
    /\ ~Outdated(p)
    /\ db[cur[p]].status = "CLAIMABLE"
    /\ db' = [db EXCEPT ![cur[p]] = PendingRow]
    /\ EndTransaction(p)
    /\ pc' = [pc EXCEPT ![p] = "run"]
    /\ UNCHANGED <<stale, cur, draft, out, effects, abandoned, counted>>

\* claim: the primary key is taken, IntegrityError, rollback, False.
ClaimLost(p) ==
    /\ pc[p] = "checked"
    /\ ~Outdated(p)
    /\ db[cur[p]].status # "CLAIMABLE"
    /\ EndTransaction(p)
    /\ pc' = [pc EXCEPT ![p] = "lost"]
    /\ UNCHANGED <<db, stale, cur, draft, out, effects, abandoned, counted>>

\* claim: the INSERT finds the database locked and the exception propagates.
ClaimLocked(p) ==
    /\ pc[p] = "checked"
    /\ Locked(p)
    /\ Return(p, cur[p], "raised", NoResult)
    /\ UNCHANGED <<cur, abandoned>>

\* After a lost claim the row is read again and answers the call.
Reread(p) ==
    /\ pc[p] = "lost"
    /\ Select(p)
    /\ Replay(p, cur[p], Seen(p)[cur[p]])
    /\ UNCHANGED <<db, stale, cur, effects, abandoned, counted>>

Drafted(p, reason, result) ==
    /\ pc'    = [pc EXCEPT ![p] = "ran"]
    /\ draft' = [draft EXCEPT ![p] = [reason |-> reason, result |-> result]]
    /\ UNCHANGED <<db, stale, txn, view, cur, out, abandoned, counted>>

Happen(r) == effects' = [effects EXCEPT ![r] = @ + 1]

\* execute_fn returns: the effect happened and a fresh execution_id is drawn.
RunOk(p) ==
    /\ pc[p] = "run"
    /\ Happen(cur[p])
    /\ Drafted(p, "executed", [ok |-> TRUE, execution_id |-> p])

\* execute_fn raises, before or after its side effect.
RunFail(p) ==
    /\ pc[p] = "run"
    /\ Happen(cur[p]) \/ UNCHANGED effects
    /\ Drafted(p, "execute_failed", NoResult)

\* Mutant: a failed run is not settled.
SettleOnlySuccess(p) ==
    LET r == cur[p] IN
    /\ pc[p] = "ran"
    /\ ~Outdated(p)
    /\ db' = [db EXCEPT ![r] =
                IF @.status = "PENDING" /\ draft[p].result.ok
                THEN [status |-> "COMMITTED", result |-> draft[p].result]
                ELSE @]
    /\ EndTransaction(p)
    /\ Return(p, r, draft[p].reason, draft[p].result)
    /\ UNCHANGED <<stale, cur, effects, abandoned, counted>>

\* settle: UPDATE ... WHERE status = 'PENDING', then commit; the receipt is
\* returned whether or not a row matched.
Settle(p) ==
    LET r == cur[p] IN
    /\ pc[p] = "ran"
    /\ ~Outdated(p)
    /\ db' = [db EXCEPT ![r] =
                IF @.status = "PENDING"
                THEN [status |-> "COMMITTED", result |-> draft[p].result]
                ELSE @]
    /\ EndTransaction(p)
    /\ Return(p, r, draft[p].reason, draft[p].result)
    /\ UNCHANGED <<stale, cur, effects, abandoned, counted>>

\* settle: the UPDATE finds the database locked and the exception propagates.
SettleLocked(p) ==
    /\ pc[p] = "ran"
    /\ Locked(p)
    /\ Abandon(p)
    /\ Return(p, cur[p], "raised", NoResult)
    /\ UNCHANGED cur

\* settle: json.dumps refuses the receipt before any statement is sent.
SettleUnserializable(p) ==
    /\ pc[p] = "ran"
    /\ Abandon(p)
    /\ Return(p, cur[p], "raised", NoResult)
    /\ UNCHANGED <<db, stale, txn, view, cur, effects, counted>>

\* The process dies and is started again: its connection closes, its call is
\* gone, the rows stay.
Crash(p) ==
    /\ pc'    = [pc EXCEPT ![p] = "idle"]
    /\ draft' = [draft EXCEPT ![p] = NoDraft]
    /\ Abandon(p)
    /\ EndTransaction(p)
    /\ UNCHANGED <<db, stale, cur, out, effects, counted>>

-----------------------------------------------------------------------------
(* Ageing, and the two operator calls about it.                            *)

\* A row outlives pending_ttl_seconds.
Age(r) ==
    /\ db[r].status # "CLAIMABLE"
    /\ stale' = stale \cup {r}
    /\ UNCHANGED <<db, txn, view, pc, cur, draft, out, effects, abandoned, counted>>

\* count_stale_pending: a SELECT, it changes no row.
CountStale(p) ==
    /\ pc[p] = "idle"
    /\ Select(p)
    /\ counted' = Cardinality({r \in stale : Seen(p)[r].status = "PENDING"})
    /\ UNCHANGED <<db, stale, pc, cur, draft, out, effects, abandoned>>

\* Mutant: the sweeper of older releases, which deleted stale PENDING rows.
SweepDeletes(p) ==
    /\ pc[p] = "idle"
    /\ txn[p] = "none"
    /\ counted' = 0
    /\ db' = [r \in Req |-> IF r \in stale /\ db[r].status = "PENDING"
                            THEN NoRow ELSE db[r]]
    /\ UNCHANGED <<stale, txn, view, pc, cur, draft, out, effects, abandoned>>

\* sweep_stale_pending returns 0 and touches no row.
SweepStale(p) ==
    /\ pc[p] = "idle"
    /\ counted' = 0
    /\ UNCHANGED <<db, stale, txn, view, pc, cur, draft, out, effects, abandoned>>

-----------------------------------------------------------------------------
\* What a call does once it has begun.
Step(p) ==
    \/ ClaimWon(p) \/ ClaimLost(p) \/ ClaimLocked(p) \/ Reread(p)
    \/ RunOk(p) \/ RunFail(p)
    \/ Settle(p) \/ SettleLocked(p) \/ SettleUnserializable(p)

Next ==
    \/ \E p \in Proc : \/ CallBlank(p)
                       \/ \E r \in Req : Call(p, r)
                       \/ Step(p)
                       \/ Crash(p)
                       \/ CountStale(p)
                       \/ SweepStale(p)
    \/ \E r \in Req : Age(r)

Spec == Init /\ [][Next]_vars

\* A call that has begun is a thread of control that goes on running.
Fairness == \A p \in Proc : WF_vars(Step(p))

FairSpec == Spec /\ Fairness

-----------------------------------------------------------------------------
(* Properties.                                                             *)

\* The side effect of a request happens at most once, whatever the calls,
\* retries, lost claims, locked databases and crashes around it (execute:
\* "At-most-once execution guard").
AtMostOnce == \A r \in Req : effects[r] <= 1

\* Every receipt that settles a caller's question about a request says the
\* same: a replay carries the ok flag and the execution_id of the run.
Conclusive(rcpt) ==
    rcpt.reason \in {"executed", "execute_failed", "dedup_same_request_id"}

ReceiptsAgree ==
    \A p, q \in Proc :
        /\ Conclusive(out[p])
        /\ Conclusive(out[q])
        /\ out[p].request_id = out[q].request_id
        => out[p].result = out[q].result

\* A caller is told ok only when the effect of its request has happened.
OkMeansEffect ==
    \A p \in Proc : out[p].result.ok => effects[out[p].request_id] = 1

\* A claim is never released and an outcome never rewritten: no crash, no
\* sweep and no age moves a row back ("It stays PENDING").
NeverReleased ==
    [][\A r \in Req : /\ db[r].status = "PENDING" =>
                            db'[r].status \in {"PENDING", "COMMITTED"}
                      /\ db[r].status = "COMMITTED" => db'[r] = db[r]]_vars

\* A row nobody is working on is PENDING only because its owner died or the
\* store refused its settle: every other path through execute, the failing
\* execute_fn included, settles what it claimed ("called even on fn failure").
PendingIsExplained ==
    \A r \in Req : db[r].status = "PENDING" =>
                        r \in abandoned \/ \E p \in Proc : Owns(p, r)

\* A claim is settled in the end unless its owner died or its settle raised.
ClaimsResolve ==
    \A r \in Req : db[r].status = "PENDING" ~>
                        (db[r].status = "COMMITTED" \/ r \in abandoned)

\* The abstract claims this module implements.
Claims == INSTANCE ExecClaims WITH
    status  <- [r \in Req |-> db[r].status],
    verdict <- [r \in Req |-> IF db[r].status # "COMMITTED" THEN "none"
                              ELSE IF db[r].result.ok THEN "ok" ELSE "failed"]

\* Every step of the processes is a step, or a stutter, of the abstract claims.
ImplementsClaims == Claims!ClaimsSpec
=============================================================================
