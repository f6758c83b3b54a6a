------------------------ MODULE SharedConnectionProofs ------------------------
(***************************************************************************)
(* The shared connection for any number of threads and requests: a request *)
(* runs twice only after a rollback took its row away, and a committed     *)
(* outcome is never changed.                                               *)
(***************************************************************************)
EXTENDS SharedConnection, TLAPS

Places == {"idle", "checked", "insBegin", "insStmt", "insCommit", "insRollback", "lost",
           "run", "ran", "updBegin", "updStmt", "updCommit"}

\* The places of a thread whose INSERT won and whose settle is not over.
Owning == {"insCommit", "run", "ran", "updBegin", "updStmt", "updCommit"}

Owner(t, r) == cur[t] = r /\ pc[t] \in Owning

\* Not run yet.
Fresh(t, r) == cur[t] = r /\ pc[t] \in {"insCommit", "run"}

Rows == [status : {"CLAIMABLE", "PENDING", "COMMITTED"},
         result : [ok : BOOLEAN, execution_id : Thread \cup {None}]]

Receipts == [reason : {"none", "executed", "execute_failed"}, request_id : Req,
             result : [ok : BOOLEAN, execution_id : Thread \cup {None}]]

TypeInv ==
    /\ disk \in [Req -> Rows] /\ work \in [Req -> Rows]
    /\ open \in BOOLEAN
    /\ pc \in [Thread -> Places]
    /\ cur \in [Thread -> Req]
    /\ draft \in [Thread -> Receipts]
    /\ effects \in [Req -> Nat]
    /\ erased \subseteq Req

-----------------------------------------------------------------------------
(* The inductive invariant.                                                *)

\* A request whose row no rollback took away has one owner at most, who has
\* not run it yet when nothing has happened; without a row it has none.
Kept(r) ==
    r \notin erased =>
        /\ effects[r] <= 1
        /\ work[r].status = "CLAIMABLE" => effects[r] = 0 /\ \A t \in Thread : ~Owner(t, r)
        /\ \A t, u \in Thread : Owner(t, r) /\ Owner(u, r) => t = u
        /\ \A t \in Thread : Fresh(t, r) => effects[r] = 0

\* What is committed as an outcome is what the connection sees.
Final(r) == disk[r].status = "COMMITTED" => work[r] = disk[r]

Inv == TypeInv /\ \A r \in Req : Kept(r) /\ Final(r)

-----------------------------------------------------------------------------
(* Steps.                                                                  *)

\* A thread that goes to a place, or returns, moves no other thread.
LEMMA Moved ==
    ASSUME TypeInv, NEW t \in Thread, NEW place \in Places, Goto(t, place)
    PROVE  /\ pc' \in [Thread -> Places]
           /\ pc'[t] = place
           /\ \A u \in Thread : u # t => pc'[u] = pc[u]
  BY DEF TypeInv, Goto

\* A step that writes nothing and makes no owner keeps the invariant.
LEMMA QuietIsSafe ==
    ASSUME Inv, NEW t \in Thread,
           UNCHANGED <<disk, work, effects, erased>>,
           open' \in BOOLEAN, draft' \in [Thread -> Receipts],
           pc' \in [Thread -> Places], cur' \in [Thread -> Req],
           \A u \in Thread : u # t => pc'[u] = pc[u] /\ cur'[u] = cur[u],
           \A r \in Req : Owner(t, r)' => Owner(t, r),
           \A r \in Req : Fresh(t, r)' => Fresh(t, r)
    PROVE  Inv'
  <1>1. TypeInv'
    BY DEF Inv, TypeInv
  <1>2. ASSUME NEW r \in Req PROVE Kept(r)' /\ Final(r)'
    <2>1. Kept(r) /\ Final(r)
      BY DEF Inv
    <2>2. \A u \in Thread : Owner(u, r)' => Owner(u, r)
      BY DEF Owner
    <2>3. \A u \in Thread : Fresh(u, r)' => Fresh(u, r)
      BY DEF Fresh
    <2> QED
      BY <2>1, <2>2, <2>3 DEF Kept, Final
  <1> QED
    BY <1>1, <1>2 DEF Inv

LEMMA CallIsSafe ==
    ASSUME Inv, NEW t \in Thread, NEW r \in Req, Call(t, r)
    PROVE  Inv'
  <1>1. /\ cur' \in [Thread -> Req] /\ \A u \in Thread : u # t => cur'[u] = cur[u]
        /\ UNCHANGED <<disk, work, open, draft, effects, erased>>
    BY DEF Call, Inv, TypeInv
  <1>2. Goto(t, "checked") \/ Goto(t, "idle")
    BY DEF Call, Replay, Return
  <1>3. /\ pc' \in [Thread -> Places] /\ pc'[t] \in {"checked", "idle"}
        /\ \A u \in Thread : u # t => pc'[u] = pc[u]
    BY <1>2, Moved DEF Inv, Places
  <1>4. \A q \in Req : ~Owner(t, q)' /\ ~Fresh(t, q)'
    BY <1>3 DEF Owner, Fresh, Owning
  <1> QED
    BY <1>1, <1>3, <1>4, QuietIsSafe DEF Inv, TypeInv

LEMMA PrepareIsSafe ==
    ASSUME Inv, NEW t \in Thread,
           NEW begin \in Places, NEW stmt \in Places, Prepare(t, begin, stmt),
           begin \notin {"insCommit", "run"}, stmt \notin {"insCommit", "run"},
           begin \in Owning \/ stmt \in Owning => pc[t] \in Owning
    PROVE  Inv'
  <1>1. /\ pc' \in [Thread -> Places] /\ pc'[t] \in {begin, stmt}
        /\ \A u \in Thread : u # t => pc'[u] = pc[u]
    BY Moved DEF Prepare, Inv
  <1>2. UNCHANGED <<disk, work, open, cur, draft, effects, erased>>
    BY DEF Prepare
  <1>3. \A q \in Req : (Owner(t, q)' => Owner(t, q)) /\ ~Fresh(t, q)'
    BY <1>1, <1>2 DEF Owner, Fresh
  <1> QED
    BY <1>1, <1>2, <1>3, QuietIsSafe DEF Inv, TypeInv

LEMMA BeginIsSafe ==
    ASSUME Inv, NEW t \in Thread, NEW stmt \in Places, Begin(t, stmt),
           stmt \notin {"insCommit", "run"}, stmt \in Owning => pc[t] \in Owning
    PROVE  Inv'
  <1>1. /\ pc' \in [Thread -> Places] /\ pc'[t] \in {stmt, "idle"}
        /\ \A u \in Thread : u # t => pc'[u] = pc[u]
    BY Moved DEF Begin, Return, Inv, Places
  <1>2. UNCHANGED <<disk, work, cur, draft, effects, erased>> /\ open' \in BOOLEAN
    BY DEF Begin, Inv, TypeInv
  <1>3. \A q \in Req : (Owner(t, q)' => Owner(t, q)) /\ ~Fresh(t, q)'
    BY <1>1, <1>2 DEF Owner, Fresh, Owning
  <1> QED
    BY <1>1, <1>2, <1>3, QuietIsSafe DEF Inv, TypeInv

LEMMA RereadIsSafe ==
    ASSUME Inv, NEW t \in Thread, Reread(t)
    PROVE  Inv'
  <1>1. /\ pc' \in [Thread -> Places] /\ pc'[t] = "idle"
        /\ \A u \in Thread : u # t => pc'[u] = pc[u]
    BY Moved DEF Reread, Replay, Return, Inv, Places
  <1>2. UNCHANGED <<disk, work, open, cur, draft, effects, erased>>
    BY DEF Reread
  <1>3. \A q \in Req : ~Owner(t, q)' /\ ~Fresh(t, q)'
    BY <1>1 DEF Owner, Fresh, Owning
  <1> QED
    BY <1>1, <1>2, <1>3, QuietIsSafe DEF Inv, TypeInv

LEMMA ClaimInsertIsSafe ==
    ASSUME Inv, NEW t \in Thread, ClaimInsert(t)
    PROVE  Inv'
  <1> DEFINE r == cur[t]
  <1>1. r \in Req /\ pc[t] = "insStmt" /\ UNCHANGED <<open, cur, draft, effects, erased>>
    BY DEF ClaimInsert, Inv, TypeInv
  <1>2. CASE /\ work[r].status = "CLAIMABLE"
             /\ Write([work EXCEPT ![r] = PendingRow])
             /\ Goto(t, "insCommit")
    <2>1. /\ pc' \in [Thread -> Places] /\ pc'[t] = "insCommit"
          /\ \A u \in Thread : u # t => pc'[u] = pc[u]
      BY <1>2, Moved DEF Inv, Places
    <2>2. PendingRow \in Rows /\ PendingRow.status = "PENDING"
      BY DEF PendingRow, NoResult, Rows
    <2>3. /\ work' = [work EXCEPT ![r] = PendingRow]
          /\ disk' = disk \/ disk' = work'
      BY <1>2 DEF Write
    <2>4. work' \in [Req -> Rows] /\ work'[r].status = "PENDING"
          /\ \A q \in Req : q # r => work'[q] = work[q]
      BY <1>1, <2>2, <2>3 DEF Inv, TypeInv
    <2>5. TypeInv'
      BY <1>1, <2>1, <2>3, <2>4 DEF Inv, TypeInv
    <2>6. ASSUME NEW q \in Req PROVE Kept(q)' /\ Final(q)'
      <3>1. Kept(q) /\ Final(q)
        BY DEF Inv
      <3>2. Final(q)'
        <4>1. disk[r].status # "COMMITTED"
          BY <1>1, <1>2 DEF Inv, Final
        <4> QED
          BY <2>3, <2>4, <3>1, <4>1 DEF Final
      <3>3. CASE q # r
        <4>1. \A u \in Thread : (Owner(u, q)' <=> Owner(u, q)) /\ (Fresh(u, q)' <=> Fresh(u, q))
          BY <1>1, <2>1, <3>3 DEF Owner, Fresh
        <4> QED
          BY <1>1, <2>4, <3>1, <3>2, <3>3, <4>1 DEF Kept
      <3>4. CASE q = r
        <4>1. q \notin erased => effects[q] = 0 /\ \A u \in Thread : ~Owner(u, q)
          BY <1>2, <3>1, <3>4 DEF Kept
        <4>2. \A u \in Thread : Owner(u, q)' => u = t \/ Owner(u, q)
          BY <1>1, <2>1 DEF Owner
        <4> QED
          BY <1>1, <2>4, <3>1, <3>2, <3>4, <4>1, <4>2 DEF Kept
      <3> QED
        BY <3>3, <3>4
    <2> QED
      BY <2>5, <2>6 DEF Inv
  <1>3. CASE /\ work[r].status # "CLAIMABLE"
             /\ Goto(t, "insRollback")
             /\ UNCHANGED <<disk, work>>
    <2>1. /\ pc' \in [Thread -> Places] /\ pc'[t] = "insRollback"
          /\ \A u \in Thread : u # t => pc'[u] = pc[u]
      BY <1>3, Moved DEF Inv, Places
    <2>2. \A q \in Req : ~Owner(t, q)' /\ ~Fresh(t, q)'
      BY <2>1 DEF Owner, Fresh, Owning
    <2> QED
      BY <1>1, <1>3, <2>1, <2>2, QuietIsSafe DEF Inv, TypeInv
  <1> QED
    BY <1>2, <1>3 DEF ClaimInsert

LEMMA CommitIsSafe ==
    ASSUME Inv, NEW t \in Thread, ClaimCommit(t) \/ SettleCommit(t)
    PROVE  Inv'
  <1>1. /\ disk' = work /\ open' = FALSE
        /\ UNCHANGED <<work, cur, draft, effects, erased>>
    BY DEF ClaimCommit, SettleCommit, Commit
  <1>2. /\ pc' \in [Thread -> Places]
        /\ \/ pc[t] = "insCommit" /\ pc'[t] = "run"
           \/ pc[t] = "updCommit" /\ pc'[t] = "idle"
        /\ \A u \in Thread : u # t => pc'[u] = pc[u]
    <2>1. CASE ClaimCommit(t)
      BY <2>1, Moved DEF ClaimCommit, Inv, Places
    <2>2. CASE SettleCommit(t)
      BY <2>2, Moved DEF SettleCommit, Return, Inv, Places
    <2> QED
      BY <2>1, <2>2
  <1>3. TypeInv'
    BY <1>1, <1>2 DEF Inv, TypeInv
  <1>4. ASSUME NEW q \in Req PROVE Kept(q)' /\ Final(q)'
    <2>1. Kept(q)
      BY DEF Inv
    <2>2. \A u \in Thread : Owner(u, q)' => Owner(u, q)
      BY <1>1, <1>2 DEF Owner, Owning
    <2>3. \A u \in Thread : Fresh(u, q)' => Fresh(u, q)
      BY <1>1, <1>2 DEF Fresh
    <2> QED
      BY <1>1, <2>1, <2>2, <2>3 DEF Kept, Final
  <1> QED
    BY <1>3, <1>4 DEF Inv

LEMMA ClaimRollbackIsSafe ==
    ASSUME Inv, NEW t \in Thread, ClaimRollback(t)
    PROVE  Inv'
  <1>1. /\ work' = disk /\ open' = FALSE
        /\ erased' = erased \cup {r \in Req : work[r] # disk[r]}
        /\ UNCHANGED <<disk, cur, draft, effects>>
    BY DEF ClaimRollback, Rollback
  <1>2. /\ pc' \in [Thread -> Places] /\ pc'[t] = "lost"
        /\ \A u \in Thread : u # t => pc'[u] = pc[u]
    BY Moved DEF ClaimRollback, Inv, Places
  <1>3. TypeInv'
    BY <1>1, <1>2 DEF Inv, TypeInv
  <1>4. ASSUME NEW q \in Req PROVE Kept(q)' /\ Final(q)'
    <2>1. Kept(q)
      BY DEF Inv
    <2>2. \A u \in Thread : (Owner(u, q)' => Owner(u, q)) /\ (Fresh(u, q)' => Fresh(u, q))
      BY <1>1, <1>2 DEF Owner, Fresh, Owning
    <2>3. q \notin erased' => work'[q] = work[q] /\ q \notin erased
      BY <1>1
    <2> QED
      BY <1>1, <2>1, <2>2, <2>3 DEF Kept, Final
  <1> QED
    BY <1>3, <1>4 DEF Inv

LEMMA RunIsSafe ==
    ASSUME Inv, NEW t \in Thread, RunOk(t) \/ RunFail(t)
    PROVE  Inv'
  <1> DEFINE r == cur[t]
  <1>1. /\ pc[t] = "run" /\ r \in Req
        /\ (Happen(r) \/ UNCHANGED effects)
        /\ UNCHANGED <<disk, work, open, cur, erased>>
    BY DEF RunOk, RunFail, Drafted, Inv, TypeInv
  <1>2. /\ pc' \in [Thread -> Places] /\ pc'[t] = "ran"
        /\ \A u \in Thread : u # t => pc'[u] = pc[u]
    <2>1. Goto(t, "ran")
      BY DEF RunOk, RunFail, Drafted
    <2> QED
      BY <2>1, Moved DEF Inv, Places
  <1>3. draft' \in [Thread -> Receipts]
    <2>1. /\ [reason |-> "executed", request_id |-> r,
              result |-> [ok |-> TRUE, execution_id |-> t]] \in Receipts
          /\ [reason |-> "execute_failed", request_id |-> r,
              result |-> NoResult] \in Receipts
      BY <1>1 DEF Receipts, NoResult
    <2>2. PICK receipt \in Receipts : draft' = [draft EXCEPT ![t] = receipt]
      BY <2>1 DEF RunOk, RunFail, Drafted
    <2> QED
      BY <2>2 DEF Inv, TypeInv
  <1>4. /\ effects' \in [Req -> Nat]
        /\ effects'[r] \in {effects[r], effects[r] + 1}
        /\ \A q \in Req : q # r => effects'[q] = effects[q]
    BY <1>1 DEF Happen, Inv, TypeInv
  <1>5. TypeInv'
    BY <1>1, <1>2, <1>3, <1>4 DEF Inv, TypeInv
  <1>6. ASSUME NEW q \in Req PROVE Kept(q)' /\ Final(q)'
    <2>1. Kept(q) /\ Final(q)
      BY DEF Inv
    <2>2. \A u \in Thread : Owner(u, q)' <=> Owner(u, q)
      BY <1>1, <1>2 DEF Owner, Owning
    <2>3. \A u \in Thread : Fresh(u, q)' => Fresh(u, q) /\ u # t
      BY <1>1, <1>2 DEF Fresh
    <2>4. CASE q # r
      BY <1>1, <1>4, <2>1, <2>2, <2>3, <2>4 DEF Kept, Final
    <2>5. CASE q = r
      <3>1. Owner(t, q) /\ Fresh(t, q)
        BY <1>1, <2>5 DEF Owner, Fresh, Owning
      <3>2. \A u \in Thread : Fresh(u, q) => Owner(u, q)
        BY DEF Fresh, Owner, Owning
      <3>3. q \notin erased => effects[q] = 0 /\ \A u \in Thread : ~Fresh(u, q)'
        BY <2>1, <2>3, <3>1, <3>2 DEF Kept
      <3>4. q \notin erased => effects'[q] <= 1
        BY <1>4, <2>5, <3>3
      <3>5. q \notin erased => work[q].status # "CLAIMABLE"
        BY <2>1, <3>1 DEF Kept
      <3> QED
        BY <1>1, <2>1, <2>2, <3>3, <3>4, <3>5 DEF Kept, Final
    <2> QED
      BY <2>4, <2>5
  <1> QED
    BY <1>5, <1>6 DEF Inv

LEMMA SettleUpdateIsSafe ==
    ASSUME Inv, NEW t \in Thread, SettleUpdate(t)
    PROVE  Inv'
  <1> DEFINE r == cur[t]
             row == [status |-> "COMMITTED", result |-> draft[t].result]
  <1>1. /\ r \in Req /\ pc[t] = "updStmt"
        /\ UNCHANGED <<open, cur, draft, effects, erased>>
    BY DEF SettleUpdate, Inv, TypeInv
  <1>2. /\ pc' \in [Thread -> Places] /\ pc'[t] = "updCommit"
        /\ \A u \in Thread : u # t => pc'[u] = pc[u]
    BY Moved DEF SettleUpdate, Inv, Places
  <1>3. row \in Rows /\ row.status = "COMMITTED"
    BY DEF Rows, Receipts, Inv, TypeInv
  <1>4. /\ work' = [work EXCEPT ![r] = IF work[r].status = "PENDING" THEN row ELSE work[r]]
        /\ disk' = disk \/ disk' = work'
    BY DEF SettleUpdate, Write
  <1> HIDE DEF row
  <1>5. /\ work' \in [Req -> Rows]
        /\ work'[r] = IF work[r].status = "PENDING" THEN row ELSE work[r]
        /\ \A q \in Req : q # r => work'[q] = work[q]
    BY <1>1, <1>3, <1>4 DEF Inv, TypeInv
  <1>6. TypeInv'
    BY <1>1, <1>2, <1>4, <1>5 DEF Inv, TypeInv
  <1>7. ASSUME NEW q \in Req PROVE Kept(q)' /\ Final(q)'
    <2>1. Kept(q) /\ Final(q)
      BY DEF Inv
    <2>2. \A u \in Thread : (Owner(u, q)' <=> Owner(u, q)) /\ (Fresh(u, q)' <=> Fresh(u, q))
      BY <1>1, <1>2 DEF Owner, Fresh, Owning
    <2>3. work'[q].status = "CLAIMABLE" <=> work[q].status = "CLAIMABLE"
      BY <1>3, <1>5
    <2>4. disk[q].status = "COMMITTED" => work'[q] = work[q]
      BY <1>5, <2>1 DEF Final
    <2> QED
      BY <1>1, <1>4, <2>1, <2>2, <2>3, <2>4 DEF Kept, Final
  <1> QED
    BY <1>6, <1>7 DEF Inv

-----------------------------------------------------------------------------
(* The theorems.                                                           *)

LEMMA InitIsSafe == Init => Inv
  <1> SUFFICES ASSUME NEW r0 \in Req,
                      /\ disk    = [r \in Req |-> NoRow]
                      /\ work    = disk
                      /\ open    = FALSE
                      /\ pc      = [t \in Thread |-> "idle"]
                      /\ cur     = [t \in Thread |-> r0]
                      /\ draft   = [t \in Thread |-> [reason |-> "none", request_id |-> r0,
                                                      result |-> NoResult]]
                      /\ effects = [r \in Req |-> 0]
                      /\ erased  = {}
               PROVE  Inv
    BY DEF Init
  <1>1. NoRow \in Rows /\ NoRow.status = "CLAIMABLE"
    BY DEF NoRow, NoResult, Rows
  <1>2. [reason |-> "none", request_id |-> r0, result |-> NoResult] \in Receipts
    BY DEF NoResult, Receipts
  <1>3. TypeInv
    BY <1>1, <1>2 DEF TypeInv, Places
  <1>4. \A t \in Thread, r \in Req : ~Owner(t, r) /\ ~Fresh(t, r)
    BY DEF Owner, Fresh, Owning
  <1>5. \A r \in Req : Kept(r) /\ Final(r)
    BY <1>1, <1>4 DEF Kept, Final
  <1> QED
    BY <1>3, <1>5 DEF Inv

LEMMA NextIsSafe == Inv /\ [Next]_vars => Inv'
  <1> SUFFICES ASSUME Inv, [Next]_vars PROVE Inv'
    OBVIOUS
  <1>1. ASSUME NEW t \in Thread, Step(t) PROVE Inv'
    <2>1. CASE ClaimPrepare(t)
      BY <2>1, PrepareIsSafe DEF ClaimPrepare, Places, Owning
    <2>2. CASE ClaimBegin(t)
      BY <2>2, BeginIsSafe DEF ClaimBegin, Places, Owning
    <2>3. CASE SettlePrepare(t)
      BY <2>3, PrepareIsSafe DEF SettlePrepare, Places, Owning
    <2>4. CASE SettleBegin(t)
      BY <2>4, BeginIsSafe DEF SettleBegin, Places, Owning
    <2> QED
      BY <1>1, <2>1, <2>2, <2>3, <2>4, ClaimInsertIsSafe, CommitIsSafe, ClaimRollbackIsSafe,
         RereadIsSafe, RunIsSafe, SettleUpdateIsSafe
         DEF Step
  <1>2. CASE UNCHANGED vars
    BY <1>2 DEF vars, Inv, TypeInv, Kept, Final, Owner, Fresh
  <1> QED
    BY <1>1, <1>2, CallIsSafe DEF Next

LEMMA Invariance == Spec => []Inv
  BY InitIsSafe, NextIsSafe, PTL DEF Spec

\* Every reachable state of the shared connection is well typed.
THEOREM SharedTyped == Spec => []TypeInv
  <1>1. Inv => TypeInv
    BY DEF Inv
  <1> QED
    BY <1>1, Invariance, PTL

\* Whatever the interleaving of statements, BEGIN, COMMIT and ROLLBACK on the
\* shared connection, a request runs twice only after a rollback took its row
\* away.
THEOREM OnlyRollbacksDuplicate == Spec => []OnlyRollbackDuplicates
  <1>1. Inv => OnlyRollbackDuplicates
    <2> SUFFICES ASSUME Inv, NEW r \in Req, effects[r] > 1, r \notin erased PROVE FALSE
      BY DEF OnlyRollbackDuplicates
    <2>1. effects[r] \in Nat /\ effects[r] <= 1
      BY DEF Inv, TypeInv, Kept
    <2> QED
      BY <2>1
  <1> QED
    BY <1>1, Invariance, PTL

\* A committed outcome is never changed or lost, even where a request has run
\* twice.
THEOREM OutcomesAreFinal == Spec => OutcomeIsFinal
  <1>1. Inv /\ Inv' /\ [Next]_vars
            => [\A r \in Req : disk[r].status = "COMMITTED" => disk'[r] = disk[r]]_vars
    <2> SUFFICES ASSUME Inv, Next, NEW r \in Req, disk[r].status = "COMMITTED"
                 PROVE  disk'[r] = disk[r]
      OBVIOUS
    <2>1. work[r] = disk[r]
      BY DEF Inv, Final
    <2>2. CASE \E t \in Thread, q \in Req : Call(t, q)
      BY <2>2 DEF Call
    <2>3. ASSUME NEW t \in Thread, Step(t) PROVE disk'[r] = disk[r]
      <3>1. CASE ClaimInsert(t)
        <4>1. CASE cur[t] # r
          BY <2>1, <3>1, <4>1 DEF ClaimInsert, Write, Inv, TypeInv
        <4>2. CASE cur[t] = r
          BY <2>1, <3>1, <4>2 DEF ClaimInsert, Write
        <4> QED
          BY <4>1, <4>2
      <3>2. CASE SettleUpdate(t)
        <4>1. CASE cur[t] # r
          BY <2>1, <3>2, <4>1 DEF SettleUpdate, Write, Inv, TypeInv
        <4>2. CASE cur[t] = r
          BY <2>1, <3>2, <4>2 DEF SettleUpdate, Write, Inv, TypeInv
        <4> QED
          BY <4>1, <4>2
      <3>3. CASE ClaimCommit(t) \/ SettleCommit(t)
        BY <2>1, <3>3 DEF ClaimCommit, SettleCommit, Commit
      <3>4. CASE \/ ClaimPrepare(t) \/ ClaimBegin(t) \/ ClaimRollback(t) \/ Reread(t)
                 \/ RunOk(t) \/ RunFail(t) \/ SettlePrepare(t) \/ SettleBegin(t)
        BY <3>4 DEF ClaimPrepare, ClaimBegin, ClaimRollback, Reread, RunOk, RunFail, SettlePrepare,
                    SettleBegin, Prepare, Begin, Rollback, Drafted
      <3> QED
        BY <2>3, <3>1, <3>2, <3>3, <3>4 DEF Step
    <2> QED
      BY <2>2, <2>3 DEF Next
  <1> QED
    BY <1>1, Invariance, PTL DEF Spec, OutcomeIsFinal
===============================================================================
