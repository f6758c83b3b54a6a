-------------------------- MODULE SharedConnection --------------------------
(***************************************************************************)
(* Threads of one process on one SQLiteExecutionStore.  The store opens    *)
(* one connection with check_same_thread=False and takes no lock, so the   *)
(* statements of concurrent calls interleave inside one transaction:       *)
(*                                                                         *)
(*   claim  = [BEGIN]  INSERT  COMMIT     or  [BEGIN]  INSERT!  ROLLBACK   *)
(*   settle = [BEGIN]  UPDATE  COMMIT                                      *)
(*                                                                         *)
(* COMMIT and ROLLBACK end the transaction whoever began it: a thread      *)
(* whose INSERT fails rolls back every other thread's uncommitted work,    *)
(* and that thread's own commit then has nothing to commit and succeeds.   *)
(***************************************************************************)
EXTENDS Naturals

CONSTANTS
    Thread,      \* callers of the one registry
    Req,         \* stable request ids
    None,        \* no thread
    MaxEffects   \* bound: runs of one request that are explored

ASSUME NoneAssumption == None \notin Thread

VARIABLES
    disk,        \* Req -> the committed row
    work,        \* Req -> the row as the connection sees it now
    open,        \* whether the connection has a transaction open
    pc,          \* Thread -> where its call of execute stands: at *Begin it
                 \* has seen no open transaction and will send BEGIN, at
                 \* *Stmt it sends its statement, at *Commit it has sent it
    cur,         \* Thread -> the request of that call
    draft,       \* Thread -> the receipt of its run
    out,         \* Thread -> the receipt its last call returned
    effects,     \* Req -> how often the side effect has happened
    erased       \* history: requests whose row a rollback took away

vars == <<disk, work, open, pc, cur, draft, out, effects, erased>>

NoResult   == [ok |-> FALSE, execution_id |-> None]
NoRow      == [status |-> "CLAIMABLE", result |-> NoResult]
PendingRow == [status |-> "PENDING", result |-> NoResult]

Init ==
    \E r0 \in Req :
      /\ disk    = [r \in Req |-> NoRow]
      /\ work    = disk
      /\ open    = FALSE
      /\ pc      = [t \in Thread |-> "idle"]
      /\ cur     = [t \in Thread |-> r0]
      /\ draft   = [t \in Thread |-> [reason |-> "none", request_id |-> r0,
                                      result |-> NoResult]]
      /\ out     = draft
      /\ effects = [r \in Req |-> 0]
      /\ erased  = {}

-----------------------------------------------------------------------------
(* The connection.                                                         *)

Goto(t, place) == pc' = [pc EXCEPT ![t] = place]

Return(t, receipt) ==
    /\ Goto(t, "idle")
    /\ out' = [out EXCEPT ![t] = receipt]

\* Python looks at sqlite3_get_autocommit before an INSERT or an UPDATE; it
\* lets other threads run before the BEGIN it then sends.
Prepare(t, begin, stmt) ==
    /\ Goto(t, IF open THEN stmt ELSE begin)
    /\ UNCHANGED <<disk, work, open, cur, draft, out, effects, erased>>

\* BEGIN.  Inside a transaction of another thread it is an error: "cannot
\* start a transaction within a transaction" leaves claim and settle.
Begin(t, stmt) ==
    /\ \/ /\ ~open
          /\ open' = TRUE
          /\ Goto(t, stmt)
          /\ UNCHANGED out
       \/ /\ open
          /\ Return(t, [reason |-> "raised", request_id |-> cur[t],
                        result |-> NoResult])
          /\ UNCHANGED open
    /\ UNCHANGED <<disk, work, cur, draft, effects, erased>>

\* A statement changes what the connection sees; without a transaction (a
\* neighbour has just ended it) it commits by itself.
Write(rows) ==
    /\ work' = rows
    /\ disk' = IF open THEN disk ELSE rows

\* COMMIT publishes everybody's work; with no transaction it does nothing.
Commit ==
    /\ disk' = work
    /\ open' = FALSE
    /\ UNCHANGED <<work, erased>>

\* ROLLBACK takes back everybody's work.
Rollback ==
    /\ work'   = disk
    /\ open'   = FALSE
    /\ erased' = erased \cup {r \in Req : work[r] # disk[r]}
    /\ UNCHANGED disk

-----------------------------------------------------------------------------
(* execute.                                                                *)

Replay(t, r) ==
    IF work[r].status = "COMMITTED"
    THEN Return(t, [reason |-> "dedup_same_request_id", request_id |-> r,
                    result |-> work[r].result])
    ELSE Return(t, [reason |-> "claim_pending", request_id |-> r,
                    result |-> NoResult])

\* get reads through the shared connection, other threads' open work included.
Call(t, r) ==
    /\ pc[t] = "idle"
    /\ cur' = [cur EXCEPT ![t] = r]
    /\ IF work[r].status = "CLAIMABLE"
       THEN Goto(t, "checked") /\ UNCHANGED out
       ELSE Replay(t, r)
    /\ UNCHANGED <<disk, work, open, draft, effects, erased>>

ClaimPrepare(t) == pc[t] = "checked" /\ Prepare(t, "insBegin", "insStmt")

ClaimBegin(t) == pc[t] = "insBegin" /\ Begin(t, "insStmt")

\* Mutant: INSERT OR REPLACE.
ClaimInsertReplace(t) ==
    /\ pc[t] = "insStmt"
    /\ Write([work EXCEPT ![cur[t]] = PendingRow])
    /\ Goto(t, "insCommit")
    /\ UNCHANGED <<open, cur, draft, out, effects, erased>>

\* INSERT: the row is new, or the primary key refuses it.
ClaimInsert(t) ==
    /\ pc[t] = "insStmt"
    /\ \/ /\ work[cur[t]].status = "CLAIMABLE"
          /\ Write([work EXCEPT ![cur[t]] = PendingRow])
          /\ Goto(t, "insCommit")
       \/ /\ work[cur[t]].status # "CLAIMABLE"
          /\ Goto(t, "insRollback")
          /\ UNCHANGED <<disk, work>>
    /\ UNCHANGED <<open, cur, draft, out, effects, erased>>

\* claim returns True whether or not its row is still there.
ClaimCommit(t) ==
    /\ pc[t] = "insCommit"
    /\ Commit
    /\ Goto(t, "run")
    /\ UNCHANGED <<cur, draft, out, effects>>

\* IntegrityError: rollback, and claim returns False.
ClaimRollback(t) ==
    /\ pc[t] = "insRollback"
    /\ Rollback
    /\ Goto(t, "lost")
    /\ UNCHANGED <<cur, draft, out, effects>>

Reread(t) ==
    /\ pc[t] = "lost"
    /\ Replay(t, cur[t])
    /\ UNCHANGED <<disk, work, open, cur, draft, effects, erased>>

Drafted(t, reason, result) ==
    /\ Goto(t, "ran")
    /\ draft' = [draft EXCEPT ![t] = [reason |-> reason, request_id |-> cur[t],
                                      result |-> result]]
    /\ UNCHANGED <<disk, work, open, cur, out, erased>>

Happen(r) ==
    /\ effects[r] < MaxEffects
    /\ effects' = [effects EXCEPT ![r] = @ + 1]

RunOk(t) ==
    /\ pc[t] = "run"
    /\ Happen(cur[t])
    /\ Drafted(t, "executed", [ok |-> TRUE, execution_id |-> t])

RunFail(t) ==
    /\ pc[t] = "run"
    /\ Happen(cur[t]) \/ UNCHANGED effects
    /\ Drafted(t, "execute_failed", NoResult)

SettlePrepare(t) == pc[t] = "ran" /\ Prepare(t, "updBegin", "updStmt")

SettleBegin(t) == pc[t] = "updBegin" /\ Begin(t, "updStmt")

\* Mutant: UPDATE without its status condition.
SettleUpdateAny(t) ==
    /\ pc[t] = "updStmt"
    /\ Write([work EXCEPT ![cur[t]] =
                IF @.status # "CLAIMABLE"
                THEN [status |-> "COMMITTED", result |-> draft[t].result]
                ELSE @])
    /\ Goto(t, "updCommit")
    /\ UNCHANGED <<open, cur, draft, out, effects, erased>>

\* UPDATE ... WHERE request_id = ? AND status = 'PENDING'.
SettleUpdate(t) ==
    /\ pc[t] = "updStmt"
    /\ Write([work EXCEPT ![cur[t]] =
                IF @.status = "PENDING"
                THEN [status |-> "COMMITTED", result |-> draft[t].result]
                ELSE @])
    /\ Goto(t, "updCommit")
    /\ UNCHANGED <<open, cur, draft, out, effects, erased>>

SettleCommit(t) ==
    /\ pc[t] = "updCommit"
    /\ Commit
    /\ Return(t, draft[t])
    /\ UNCHANGED <<cur, draft, effects>>

Step(t) ==
    \/ ClaimPrepare(t) \/ ClaimBegin(t) \/ ClaimInsert(t)
    \/ ClaimCommit(t) \/ ClaimRollback(t) \/ Reread(t)
    \/ RunOk(t) \/ RunFail(t)
    \/ SettlePrepare(t) \/ SettleBegin(t) \/ SettleUpdate(t) \/ SettleCommit(t)

Next == \E t \in Thread : (\E r \in Req : Call(t, r)) \/ Step(t)

Spec == Init /\ [][Next]_vars

-----------------------------------------------------------------------------
(* Properties.                                                             *)

\* execute's docstring promises "At-most-once execution guard for ANY
\* irreversible action".  For the threads of one process there is one way to
\* a second run: a rollback by a thread that lost a claim took the request's
\* row away.  No other interleaving of the statements, of BEGIN
\* with an open transaction or of a statement with another thread's COMMIT,
\* lets a request run twice.
OnlyRollbackDuplicates == \A r \in Req : effects[r] > 1 => r \in erased

\* What the database has committed as an outcome is never changed or lost,
\* even when a request has run twice.
OutcomeIsFinal ==
    [][\A r \in Req : disk[r].status = "COMMITTED" => disk'[r] = disk[r]]_vars
=============================================================================
