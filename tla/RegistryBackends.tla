--------------------------- MODULE RegistryBackends ---------------------------
(***************************************************************************)
(* SettlementRequestRegistry.execute without SQLite: the Postgres path and *)
(* the in-memory path a process takes when it has no Postgres.  A process  *)
(* whose init_db fails when it starts keeps going in memory.               *)
(*                                                                         *)
(*   pg:      idle --get--> inserting --insert--> claimed --fn--> ran /    *)
(*            failed --complete--> idle;  lost --get--> idle               *)
(*   memory:  idle --miss--> running --fn--> ran / failed --store--> idle  *)
(*                                                                         *)
(* Every Postgres call is a transaction on a connection of its own; it may *)
(* raise without being applied, and also after it was committed.           *)
(***************************************************************************)
EXTENDS Naturals

CONSTANTS
    Proc,        \* processes, each with a registry
    Thread,      \* the threads that call execute
    Home,        \* Thread -> the process it runs in
    Req,         \* request ids
    MaxEffects,  \* bound: how often a side effect may happen
    None

ASSUME HomeAssumption == Home \in [Thread -> Proc]
ASSUME NoneAssumption == None \notin Req

VARIABLES
    backend,     \* Proc -> where its registry keeps receipts
    mem,         \* Proc -> Req -> _exec_receipts
    db,          \* Req -> its row: pending or completed, and ok
    pc,          \* Thread -> where its call stands
    cur,         \* Thread -> the request id of its call
    effects,     \* Req -> how often its side effect happened
    memRan,      \* the requests some process ran in memory
    abandoned,   \* the requests whose owner died or raised before complete
    first,       \* Req -> the ok of its first receipt that is no replay
    replays      \* the replayed receipts, as pairs of request and ok

vars == <<backend, mem, db, pc, cur, effects, memRan, abandoned, first, replays>>

NoRow   == [status |-> "none", ok |-> FALSE]

Blank == [r \in Req |-> "none"]

Init ==
    /\ backend   \in [Proc -> {"pg", "memory"}]
    /\ mem       = [m \in Proc |-> Blank]
    /\ db        = [r \in Req |-> NoRow]
    /\ pc        = [t \in Thread |-> "idle"]
    /\ cur       = [t \in Thread |-> None]
    /\ effects   = [r \in Req |-> 0]
    /\ memRan    = {}
    /\ abandoned = {}
    /\ first     = [r \in Req |-> "none"]
    /\ replays   = {}

-----------------------------------------------------------------------------
Local(t) == mem[Home[t]]

\* The call is over.
Done(t) == pc' = [pc EXCEPT ![t] = "idle"] /\ cur' = [cur EXCEPT ![t] = None]

\* A receipt with reason dedup_same_request_id.
Replay(r, ok) == replays' = replays \cup {<<r, ok>>}

\* A receipt with reason executed or execute_failed.
Report(r, receipt) ==
    first' = [first EXCEPT ![r] = IF @ = "none" THEN receipt ELSE @]

\* Mutant: a row is enough.
RowOkPending(row) == row.status # "none"

\* The row's ok is its status alone.
RowOk(row) == row.status = "completed"

-----------------------------------------------------------------------------
(* execute.                                                                *)

\* The Postgres path begins with a get, which may raise.
CallPg(t, r) ==
    /\ pc[t] = "idle" /\ backend[Home[t]] = "pg"
    /\ \/ /\ db[r] # NoRow
          /\ Replay(r, RowOk(db[r]))
          /\ UNCHANGED <<pc, cur>>
       \/ /\ db[r] = NoRow
          /\ pc'  = [pc EXCEPT ![t] = "inserting"]
          /\ cur' = [cur EXCEPT ![t] = r]
          /\ UNCHANGED replays
    /\ UNCHANGED <<backend, mem, db, effects, memRan, abandoned, first>>

CallMemory(t, r) ==
    /\ pc[t] = "idle" /\ backend[Home[t]] = "memory"
    /\ \/ /\ Local(t)[r] # "none"
          /\ Replay(r, Local(t)[r] = "ok")
          /\ UNCHANGED <<pc, cur>>
       \/ /\ Local(t)[r] = "none"
          /\ pc'  = [pc EXCEPT ![t] = "running"]
          /\ cur' = [cur EXCEPT ![t] = r]
          /\ UNCHANGED replays
    /\ UNCHANGED <<backend, mem, db, effects, memRan, abandoned, first>>

\* Mutant: the insert overwrites a row that is there.
InsertOver(t) ==
    /\ pc[t] = "inserting"
    /\ db' = [db EXCEPT ![cur[t]] = [status |-> "pending", ok |-> FALSE]]
    /\ pc' = [pc EXCEPT ![t] = "claimed"]
    /\ UNCHANGED <<backend, mem, cur, effects, memRan, abandoned, first, replays>>

\* insert_if_not_exists: the primary key lets one caller in.  When it raises
\* the caller does not know whether its row was committed.
Insert(t) ==
    LET r == cur[t]
        claim == db' = [db EXCEPT ![r] = [status |-> "pending", ok |-> FALSE]]
    IN
    /\ pc[t] = "inserting"
    /\ \/ /\ db[r] = NoRow /\ claim
          /\ pc' = [pc EXCEPT ![t] = "claimed"]
          /\ UNCHANGED <<cur, abandoned>>
       \/ /\ db[r] # NoRow
          /\ pc' = [pc EXCEPT ![t] = "lost"]
          /\ UNCHANGED <<db, cur, abandoned>>
       \/ /\ db[r] = NoRow /\ claim
          /\ abandoned' = abandoned \cup {r}
          /\ Done(t)
       \/ /\ Done(t)
          /\ UNCHANGED <<db, abandoned>>
    /\ UNCHANGED <<backend, mem, effects, memRan, first, replays>>

\* The loser reads the row again, or its read raises.
Reread(t) ==
    /\ pc[t] = "lost"
    /\ Replay(cur[t], RowOk(db[cur[t]])) \/ UNCHANGED replays
    /\ Done(t)
    /\ UNCHANGED <<backend, mem, db, effects, memRan, abandoned, first>>

Happen(r) == effects[r] < MaxEffects /\ effects' = [effects EXCEPT ![r] = @ + 1]

Ran(t) == memRan' = IF pc[t] = "running" THEN memRan \cup {cur[t]} ELSE memRan

\* execute_fn returns.
RunOk(t) ==
    /\ pc[t] \in {"claimed", "running"}
    /\ Happen(cur[t])
    /\ Ran(t)
    /\ pc' = [pc EXCEPT ![t] = "ran"]
    /\ UNCHANGED <<backend, mem, db, cur, abandoned, first, replays>>

\* execute_fn raises, its effect having happened or not.
RunFail(t) ==
    /\ pc[t] \in {"claimed", "running"}
    /\ Happen(cur[t]) \/ UNCHANGED effects
    /\ Ran(t)
    /\ pc' = [pc EXCEPT ![t] = "failed"]
    /\ UNCHANGED <<backend, mem, db, cur, abandoned, first, replays>>

\* complete: an unconditional UPDATE.
Write(t, ok) == db' = [db EXCEPT ![cur[t]] = [status |-> "completed", ok |-> ok]]

\* complete after success sits inside the try: when it raises, committed or
\* not, the call goes on as if execute_fn had failed.
CompleteOk(t) ==
    LET r == cur[t] IN
    /\ pc[t] = "ran" /\ backend[Home[t]] = "pg"
    /\ \/ /\ Write(t, TRUE)
          /\ Report(r, "ok")
          /\ Done(t)
       \/ /\ Write(t, TRUE) \/ UNCHANGED db
          /\ pc' = [pc EXCEPT ![t] = "failed"]
          /\ UNCHANGED <<cur, first>>
    /\ UNCHANGED <<backend, mem, effects, memRan, abandoned, replays>>

\* Mutant: only a success is completed.
CompleteNothing(t) ==
    /\ pc[t] = "failed" /\ backend[Home[t]] = "pg"
    /\ Report(cur[t], "failed")
    /\ Done(t)
    /\ UNCHANGED <<backend, mem, db, effects, memRan, abandoned, replays>>

\* complete after a failure: when it raises, so does execute.
CompleteFailed(t) ==
    LET r == cur[t] IN
    /\ pc[t] = "failed" /\ backend[Home[t]] = "pg"
    /\ \/ /\ Write(t, FALSE)
          /\ Report(r, "failed")
          /\ UNCHANGED abandoned
       \/ /\ Write(t, FALSE) \/ UNCHANGED db
          /\ abandoned' = abandoned \cup {r}
          /\ UNCHANGED first
    /\ Done(t)
    /\ UNCHANGED <<backend, mem, effects, memRan, replays>>

\* The in-memory receipt is stored after execute_fn, last writer wins.
StoreMemory(t) ==
    LET receipt == IF pc[t] = "ran" THEN "ok" ELSE "failed" IN
    /\ pc[t] \in {"ran", "failed"} /\ backend[Home[t]] = "memory"
    /\ mem' = [mem EXCEPT ![Home[t]] = [@ EXCEPT ![cur[t]] = receipt]]
    /\ Report(cur[t], receipt)
    /\ Done(t)
    /\ UNCHANGED <<backend, db, effects, memRan, abandoned, replays>>

Owns(t, r) == cur[t] = r /\ pc[t] \in {"claimed", "ran", "failed"}

\* A process dies and starts again: its receipts in memory are gone, and its
\* init_db succeeds or not.
Restart(m) ==
    /\ \E t \in Thread : Home[t] = m
    /\ pc'  = [t \in Thread |-> IF Home[t] = m THEN "idle" ELSE pc[t]]
    /\ cur' = [t \in Thread |-> IF Home[t] = m THEN None ELSE cur[t]]
    /\ mem' = [mem EXCEPT ![m] = Blank]
    /\ \E b \in {"pg", "memory"} : backend' = [backend EXCEPT ![m] = b]
    /\ abandoned' = abandoned \cup
           {r \in Req : \E t \in Thread : Home[t] = m /\ Owns(t, r)}
    /\ UNCHANGED <<db, effects, memRan, first, replays>>

Next ==
    \/ \E t \in Thread :
          \/ \E r \in Req : CallPg(t, r) \/ CallMemory(t, r)
          \/ Insert(t) \/ Reread(t)
          \/ RunOk(t) \/ RunFail(t)
          \/ CompleteOk(t) \/ CompleteFailed(t) \/ StoreMemory(t)
    \/ \E m \in Proc : Restart(m)

Spec == Init /\ [][Next]_vars

-----------------------------------------------------------------------------
(* Properties.                                                             *)

\* With every process on Postgres an effect happens at most once, whatever
\* raises, is lost or dies; only a process that fell back to memory can make
\* it happen again.
OnlyMemoryDuplicates == \A r \in Req : effects[r] > 1 => r \in memRan

\* A row stays pending only while its owner is alive or because the owner
\* died or its complete raised.
PendingIsExplained ==
    \A r \in Req : db[r].status = "pending" =>
        r \in abandoned \/ \E t \in Thread : Owns(t, r) /\ backend[Home[t]] = "pg"

\* "Returns the original receipt": a replay says ok only of an action whose
\* effect happened, but for one that failed - then the original said so, or
\* the row's owner died or raised and nobody was told.
OkReplaysAreExplained ==
    \A r \in Req : <<r, TRUE>> \in replays =>
        effects[r] > 0 \/ first[r] = "failed" \/ r \in abandoned
=============================================================================
