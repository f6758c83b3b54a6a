-------------------------- MODULE SettlementProofs ----------------------------
(***************************************************************************)
(* Settlement, for any number of processes, requests, cases and sources.   *)
(*                                                                         *)
(* RegistryBackends: only memory duplicates, a pending row has a cause, and *)
(* a replay says ok of what happened, or of what was told otherwise.       *)
(*                                                                         *)
(* SettlementCase: a case's state says what is in it, settlement ids and   *)
(* outcomes fix one another, and only a case that was contested after it   *)
(* was settled can be settled twice.                                       *)
(***************************************************************************)
EXTENDS RegistryBackends, SettlementCase, FiniteSetTheorems, TLAPS

-----------------------------------------------------------------------------
(* RegistryBackends.                                                       *)

Places == {"idle", "inserting", "lost", "claimed", "running", "ran", "failed"}

Backends == {"pg", "memory"}

Receipts == {"none", "ok", "failed"}

Rows == {NoRow} \cup [status : {"pending", "completed"}, ok : BOOLEAN]

TypeInv ==
    /\ backend \in [Proc -> Backends]
    /\ mem \in [Proc -> [Req -> Receipts]]
    /\ db \in [Req -> Rows]
    /\ pc \in [Thread -> Places]
    /\ cur \in [Thread -> Req \cup {None}]
    /\ effects \in [Req -> Nat]
    /\ memRan \subseteq Req
    /\ abandoned \subseteq Req
    /\ first \in [Req -> Receipts]
    /\ replays \subseteq Req \X BOOLEAN

-----------------------------------------------------------------------------
(* The inductive invariant.                                                *)

\* A call stands where its backend takes it, and "ran" means it happened.
Placed(t) ==
    /\ pc[t] # "idle" => cur[t] \in Req
    /\ pc[t] \in {"inserting", "lost", "claimed"} => backend[Home[t]] = "pg"
    /\ pc[t] = "running" => backend[Home[t]] = "memory"
    /\ pc[t] \in {"ran", "failed"} /\ backend[Home[t]] = "memory" => cur[t] \in memRan
    /\ pc[t] = "ran" => effects[cur[t]] > 0

\* The owner of a row of Postgres.
Owner(t, r) == Owns(t, r) /\ backend[Home[t]] = "pg"

OneOwner(r) ==
    /\ \A t \in Thread : Owner(t, r) => db[r] # NoRow
    /\ \A t, u \in Thread : Owner(t, r) /\ Owner(u, r) => t = u

\* Off memory, nothing happens without a row, or before the owner runs.
Once(r) ==
    r \notin memRan =>
        /\ effects[r] <= 1
        /\ db[r] = NoRow => effects[r] = 0
        /\ \A t \in Thread : cur[t] = r /\ pc[t] = "claimed" => effects[r] = 0

Pend(r) ==
    db[r].status = "pending" => r \in abandoned \/ \E t \in Thread : Owner(t, r)

Explained(r) == effects[r] > 0 \/ first[r] = "failed" \/ r \in abandoned

\* What says ok, or will be replayed as ok.
Told(r) ==
    /\ <<r, TRUE>> \in replays => Explained(r)
    /\ db[r].status = "completed" => Explained(r)
    /\ first[r] = "ok" => effects[r] > 0
    /\ \A m \in Proc : mem[m][r] = "ok" => effects[r] > 0

Inv ==
    /\ TypeInv
    /\ \A t \in Thread : Placed(t)
    /\ \A r \in Req : OneOwner(r) /\ Once(r) /\ Pend(r) /\ Told(r)

-----------------------------------------------------------------------------
(* Steps.                                                                  *)

LEMMA HomeIsAProcess == ASSUME NEW t \in Thread PROVE Home[t] \in Proc
  BY HomeAssumption

\* How a step of a thread moves it, and nobody else.
Moves(t, place, req) ==
    /\ pc' \in [Thread -> Places] /\ cur' \in [Thread -> Req \cup {None}]
    /\ pc'[t] = place /\ cur'[t] = req
    /\ \A u \in Thread : u # t => pc'[u] = pc[u] /\ cur'[u] = cur[u]

LEMMA DoneMoves ==
    ASSUME TypeInv, NEW t \in Thread, Done(t)
    PROVE  Moves(t, "idle", None)
  BY DEF TypeInv, Done, Moves, Places

LEMMA GoMoves ==
    ASSUME TypeInv, NEW t \in Thread, NEW place \in Places,
           pc' = [pc EXCEPT ![t] = place], UNCHANGED cur
    PROVE  Moves(t, place, cur[t])
  BY DEF TypeInv, Moves

\* A step that writes neither rows nor receipts, runs nothing and, if it ends
\* an owner's call, abandons its request.
LEMMA QuietIsSafe ==
    ASSUME Inv, NEW t \in Thread, NEW place \in {"idle", "inserting", "lost", "running"},
           NEW req \in Req \cup {None}, Moves(t, place, req),
           UNCHANGED <<backend, mem, db, effects, memRan, first>>,
           place # "idle" => req \in Req,
           place \in {"inserting", "lost"} => backend[Home[t]] = "pg",
           place = "running" => backend[Home[t]] = "memory",
           abandoned \subseteq abandoned', abandoned' \subseteq Req,
           \A r \in Req : Owner(t, r) => r \in abandoned',
           replays' \subseteq Req \X BOOLEAN,
           \A r \in Req : <<r, TRUE>> \in replays' => <<r, TRUE>> \in replays \/ Explained(r)
    PROVE  Inv'
  <1>1. TypeInv'
    BY DEF Inv, TypeInv, Moves
  <1>2. ASSUME NEW u \in Thread PROVE Placed(u)'
    BY DEF Inv, Placed, Moves
  <1>3. ASSUME NEW r \in Req PROVE (OneOwner(r) /\ Once(r) /\ Pend(r) /\ Told(r))'
    <2>1. OneOwner(r) /\ Once(r) /\ Pend(r) /\ Told(r)
      BY DEF Inv
    <2>2. \A u \in Thread : Owner(u, r)' => Owner(u, r)
      BY DEF Moves, Owner, Owns
    <2>3. \A u \in Thread : u # t /\ Owner(u, r) => Owner(u, r)'
      BY DEF Moves, Owner, Owns
    <2>4. OneOwner(r)'
      BY <2>1, <2>2 DEF OneOwner
    <2>5. Once(r)'
      BY <2>1 DEF Once, Moves
    <2>6. Pend(r)'
      BY <2>1, <2>3 DEF Pend
    <2>7. Told(r)'
      BY <2>1 DEF Told, Explained
    <2> QED
      BY <2>4, <2>5, <2>6, <2>7
  <1> QED
    BY <1>1, <1>2, <1>3 DEF Inv

LEMMA ReplayIsTold ==
    ASSUME Inv, NEW r \in Req, NEW ok \in BOOLEAN, Replay(r, ok), ok => Explained(r)
    PROVE  /\ replays' \subseteq Req \X BOOLEAN
           /\ \A q \in Req : <<q, TRUE>> \in replays' => <<q, TRUE>> \in replays \/ Explained(q)
  <1>1. replays' = replays \cup {<<r, ok>>} /\ replays \subseteq Req \X BOOLEAN
    BY DEF Replay, Inv, TypeInv
  <1>2. replays' \subseteq Req \X BOOLEAN
    BY <1>1
  <1>3. ASSUME NEW q \in Req, <<q, TRUE>> \in replays', <<q, TRUE>> \notin replays
        PROVE  Explained(q)
    <2>1. <<q, TRUE>> = <<r, ok>>
      BY <1>1, <1>3
    <2>2. q = r /\ ok
      BY <2>1
    <2> QED
      BY <2>2
  <1> QED
    BY <1>2, <1>3

LEMMA CallPgIsSafe ==
    ASSUME Inv, NEW t \in Thread, NEW r \in Req, CallPg(t, r)
    PROVE  Inv'
  <1>1. /\ pc[t] = "idle" /\ backend[Home[t]] = "pg"
        /\ UNCHANGED <<backend, mem, db, effects, memRan, abandoned, first>>
    BY DEF CallPg
  <1>2. \A q \in Req : ~Owner(t, q)
    BY <1>1 DEF Owner, Owns
  <1>3. CASE db[r] # NoRow /\ Replay(r, RowOk(db[r])) /\ UNCHANGED <<pc, cur>>
    <2>1. Moves(t, "idle", cur[t]) /\ cur[t] \in Req \cup {None}
      BY <1>1, <1>3 DEF Moves, Inv, TypeInv
    <2>2. /\ replays' \subseteq Req \X BOOLEAN
          /\ \A q \in Req : <<q, TRUE>> \in replays' => <<q, TRUE>> \in replays \/ Explained(q)
      <3>1. RowOk(db[r]) \in BOOLEAN
        BY DEF RowOk
      <3>2. RowOk(db[r]) => Explained(r)
        BY DEF RowOk, Inv, Told
      <3> QED
        BY <1>3, <3>1, <3>2, ReplayIsTold
    <2> QED
      BY <1>1, <1>2, <2>1, <2>2, QuietIsSafe DEF Inv, TypeInv
  <1>4. CASE /\ pc' = [pc EXCEPT ![t] = "inserting"] /\ cur' = [cur EXCEPT ![t] = r]
             /\ UNCHANGED replays
    <2>1. Moves(t, "inserting", r)
      BY <1>4 DEF Moves, Inv, TypeInv, Places
    <2> QED
      BY <1>1, <1>2, <1>4, <2>1, QuietIsSafe DEF Inv, TypeInv
  <1> QED
    BY <1>3, <1>4 DEF CallPg

LEMMA CallMemoryIsSafe ==
    ASSUME Inv, NEW t \in Thread, NEW r \in Req, CallMemory(t, r)
    PROVE  Inv'
  <1>1. /\ pc[t] = "idle" /\ backend[Home[t]] = "memory"
        /\ UNCHANGED <<backend, mem, db, effects, memRan, abandoned, first>>
    BY DEF CallMemory
  <1>2. \A q \in Req : ~Owner(t, q)
    BY <1>1 DEF Owner, Owns
  <1>3. CASE Replay(r, Local(t)[r] = "ok") /\ UNCHANGED <<pc, cur>>
    <2>1. Moves(t, "idle", cur[t]) /\ cur[t] \in Req \cup {None}
      BY <1>1, <1>3 DEF Moves, Inv, TypeInv
    <2>2. /\ replays' \subseteq Req \X BOOLEAN
          /\ \A q \in Req : <<q, TRUE>> \in replays' => <<q, TRUE>> \in replays \/ Explained(q)
      <3> DEFINE ok == Local(t)[r] = "ok"
      <3>1. ok \in BOOLEAN
        OBVIOUS
      <3>2. ok => Explained(r)
        BY HomeIsAProcess DEF Local, Inv, Told, Explained
      <3>3. Replay(r, ok)
        BY <1>3
      <3> HIDE DEF ok
      <3> QED
        BY <3>1, <3>2, <3>3, ReplayIsTold
    <2> QED
      BY <1>1, <1>2, <2>1, <2>2, QuietIsSafe DEF Inv, TypeInv
  <1>4. CASE /\ pc' = [pc EXCEPT ![t] = "running"] /\ cur' = [cur EXCEPT ![t] = r]
             /\ UNCHANGED replays
    <2>1. Moves(t, "running", r)
      BY <1>4 DEF Moves, Inv, TypeInv, Places
    <2> QED
      BY <1>1, <1>2, <1>4, <2>1, QuietIsSafe DEF Inv, TypeInv
  <1> QED
    BY <1>3, <1>4 DEF CallMemory

LEMMA RereadIsSafe ==
    ASSUME Inv, NEW t \in Thread, Reread(t)
    PROVE  Inv'
  <1> DEFINE r == cur[t]
  <1>1. /\ pc[t] = "lost" /\ r \in Req
        /\ UNCHANGED <<backend, mem, db, effects, memRan, abandoned, first>>
    BY DEF Reread, Inv, Placed
  <1>2. Moves(t, "idle", None)
    BY DoneMoves DEF Reread, Inv
  <1>3. \A q \in Req : ~Owner(t, q)
    BY <1>1 DEF Owner, Owns
  <1>4. /\ replays' \subseteq Req \X BOOLEAN
        /\ \A q \in Req : <<q, TRUE>> \in replays' => <<q, TRUE>> \in replays \/ Explained(q)
    <2>1. CASE Replay(r, RowOk(db[r]))
      <3>1. RowOk(db[r]) \in BOOLEAN
        BY DEF RowOk
      <3>2. RowOk(db[r]) => Explained(r)
        BY <1>1 DEF RowOk, Inv, Told
      <3> QED
        BY <1>1, <2>1, <3>1, <3>2, ReplayIsTold
    <2>2. CASE UNCHANGED replays
      BY <2>2 DEF Inv, TypeInv
    <2> QED
      BY <2>1, <2>2 DEF Reread
  <1> QED
    BY <1>1, <1>2, <1>3, <1>4, QuietIsSafe DEF Inv, TypeInv

\* A step of a thread that may write its row of Postgres: what becomes of the
\* other requests.
LEMMA OthersStay ==
    ASSUME Inv, NEW t \in Thread, NEW place \in Places, NEW req \in Req \cup {None},
           Moves(t, place, req), NEW q \in Req,
           ~Owner(t, q), ~Owner(t, q)', ~(cur'[t] = q /\ pc'[t] = "claimed"),
           UNCHANGED <<backend, replays>>,
           db'[q] = db[q], effects'[q] = effects[q], first'[q] = first[q],
           q \in memRan <=> q \in memRan', q \in abandoned => q \in abandoned',
           \A m \in Proc : mem'[m][q] = mem[m][q]
    PROVE  (OneOwner(q) /\ Once(q) /\ Pend(q) /\ Told(q))'
  <1>1. OneOwner(q) /\ Once(q) /\ Pend(q) /\ Told(q)
    BY DEF Inv
  <1>2. \A u \in Thread : Owner(u, q)' <=> Owner(u, q)
    BY DEF Moves, Owner, Owns
  <1>3. OneOwner(q)' /\ Pend(q)'
    BY <1>1, <1>2 DEF OneOwner, Pend
  <1>4. Once(q)'
    BY <1>1 DEF Once, Moves
  <1>5. Told(q)'
    BY <1>1 DEF Told, Explained
  <1> QED
    BY <1>3, <1>4, <1>5

PendingRow == [status |-> "pending", ok |-> FALSE]

LEMMA InsertIsSafe ==
    ASSUME Inv, NEW t \in Thread, Insert(t)
    PROVE  Inv'
  <1>0. PICK r \in Req : r = cur[t]
    BY DEF Insert, Inv, Placed
  <1>1. /\ pc[t] = "inserting" /\ r \in Req /\ backend[Home[t]] = "pg"
        /\ UNCHANGED <<backend, mem, effects, memRan, first, replays>>
    BY <1>0 DEF Insert, Inv, Placed
  <1>2. \A q \in Req : ~Owner(t, q)
    BY <1>1 DEF Owner, Owns
  <1>3. CASE /\ db[r] # NoRow /\ pc' = [pc EXCEPT ![t] = "lost"]
             /\ UNCHANGED <<db, cur, abandoned>>
    <2>1. Moves(t, "lost", r)
      BY <1>0, <1>3, GoMoves DEF Inv, Places
    <2> QED
      BY <1>1, <1>2, <1>3, <2>1, QuietIsSafe DEF Inv, TypeInv
  <1>4. CASE Done(t) /\ UNCHANGED <<db, abandoned>>
    <2>1. Moves(t, "idle", None)
      BY <1>4, DoneMoves DEF Inv
    <2> QED
      BY <1>1, <1>2, <1>4, <2>1, QuietIsSafe DEF Inv, TypeInv
  <1>5. ASSUME db[r] = NoRow, db' = [db EXCEPT ![r] = PendingRow],
               \/ pc' = [pc EXCEPT ![t] = "claimed"] /\ UNCHANGED <<cur, abandoned>>
               \/ abandoned' = abandoned \cup {r} /\ Done(t)
        PROVE  Inv'
    <2>1. \/ Moves(t, "claimed", r) /\ UNCHANGED abandoned
          \/ Moves(t, "idle", None) /\ abandoned' = abandoned \cup {r}
      BY <1>0, <1>5, GoMoves, DoneMoves DEF Inv, Places
    <2>2. /\ db' \in [Req -> Rows] /\ db'[r] = PendingRow
          /\ \A q \in Req : q # r => db'[q] = db[q]
      BY <1>1, <1>5 DEF Inv, TypeInv, PendingRow, Rows
    <2>3. TypeInv'
      BY <1>1, <2>1, <2>2 DEF Inv, TypeInv, Moves
    <2>4. ASSUME NEW u \in Thread PROVE Placed(u)'
      BY <1>0, <1>1, <2>1 DEF Inv, Placed, Moves
    <2>5. ASSUME NEW q \in Req PROVE (OneOwner(q) /\ Once(q) /\ Pend(q) /\ Told(q))'
      <3>1. CASE q # r
        <4>1. /\ ~Owner(t, q) /\ ~Owner(t, q)' /\ ~(cur'[t] = q /\ pc'[t] = "claimed")
              /\ (q \in abandoned => q \in abandoned')
          BY <1>2, <2>1, <3>1 DEF Moves, Owner, Owns
        <4> QED
          BY <1>1, <2>1, <2>2, <3>1, <4>1, OthersStay DEF Places
      <3>2. CASE q = r
        <4>1. OneOwner(r) /\ Once(r) /\ Told(r)
          BY <1>1 DEF Inv
        <4>2. \A u \in Thread : ~Owner(u, r)
          BY <1>5, <4>1 DEF OneOwner
        <4>3. \A u \in Thread : u # t => ~Owner(u, r)'
          BY <1>1, <2>1, <4>2 DEF Moves, Owner, Owns
        <4>4. PendingRow # NoRow /\ PendingRow.status = "pending"
          BY DEF PendingRow, NoRow
        <4>5. OneOwner(r)'
          BY <2>2, <4>3, <4>4 DEF OneOwner
        <4>6. Once(r)'
          BY <1>1, <1>5, <2>2, <4>1, <4>4 DEF Once
        <4>7. Pend(r)'
          BY <1>1, <2>1 DEF Pend, Moves, Owner, Owns
        <4>8. Told(r)'
          BY <1>1, <2>1, <2>2, <4>1, <4>4 DEF Told, Explained
        <4> QED
          BY <3>2, <4>5, <4>6, <4>7, <4>8
      <3> QED
        BY <3>1, <3>2
    <2> QED
      BY <2>3, <2>4, <2>5 DEF Inv
  <1> QED
    BY <1>0, <1>3, <1>4, <1>5 DEF Insert, PendingRow

LEMMA RunIsSafe ==
    ASSUME Inv, NEW t \in Thread, RunOk(t) \/ RunFail(t)
    PROVE  Inv'
  <1>0. PICK r \in Req : r = cur[t]
    BY DEF RunOk, RunFail, Inv, Placed
  <1>1. /\ pc[t] \in {"claimed", "running"} /\ r \in Req
        /\ UNCHANGED <<backend, mem, db, cur, abandoned, first, replays>>
        /\ Ran(t)
    BY <1>0 DEF RunOk, RunFail, Inv, Placed
  <1>2. PICK place \in {"ran", "failed"} :
           /\ pc' = [pc EXCEPT ![t] = place]
           /\ place = "ran" => Happen(r)
           /\ (Happen(r) \/ UNCHANGED effects)
    BY <1>0 DEF RunOk, RunFail
  <1>3. Moves(t, place, r)
    BY <1>0, <1>1, <1>2, GoMoves DEF Inv, Places
  <1>4. /\ effects' \in [Req -> Nat]
        /\ effects'[r] \in {effects[r], effects[r] + 1}
        /\ place = "ran" => effects'[r] = effects[r] + 1
        /\ \A q \in Req : q # r => effects'[q] = effects[q]
    BY <1>1, <1>2 DEF Happen, Inv, TypeInv
  <1>5. /\ memRan \subseteq memRan' /\ memRan' \subseteq memRan \cup {r}
        /\ pc[t] = "running" => r \in memRan'
    BY <1>0, <1>1 DEF Ran
  <1>6. TypeInv'
    BY <1>1, <1>3, <1>4, <1>5 DEF Inv, TypeInv, Moves
  <1>7. ASSUME NEW u \in Thread PROVE Placed(u)'
    <2>1. Placed(u) /\ effects[r] \in Nat
      BY <1>1 DEF Inv, TypeInv
    <2>2. CASE u = t
      BY <1>0, <1>1, <1>2, <1>3, <1>4, <1>5, <2>1, <2>2 DEF Placed, Moves
    <2>3. CASE u # t
      <3>1. pc'[u] = pc[u] /\ cur'[u] = cur[u]
        BY <1>3, <2>3 DEF Moves
      <3>2. pc[u] = "ran" => effects'[cur[u]] > 0
        <4> SUFFICES ASSUME pc[u] = "ran" PROVE effects'[cur[u]] > 0
          OBVIOUS
        <4>1. cur[u] \in Req /\ effects[cur[u]] > 0 /\ effects[cur[u]] \in Nat
          BY <2>1 DEF Placed, Inv, TypeInv
        <4> QED
          BY <1>4, <2>1, <4>1
      <3> QED
        BY <1>1, <1>5, <2>1, <3>1, <3>2 DEF Placed
    <2> QED
      BY <2>2, <2>3
  <1>8. ASSUME NEW q \in Req PROVE (OneOwner(q) /\ Once(q) /\ Pend(q) /\ Told(q))'
    <2>1. CASE q # r
      <3>1. /\ ~Owner(t, q) /\ ~Owner(t, q)' /\ ~(cur'[t] = q /\ pc'[t] = "claimed")
            /\ (q \in memRan <=> q \in memRan')
        BY <1>0, <1>3, <1>5, <2>1 DEF Moves, Owner, Owns
      <3>2. effects'[q] = effects[q]
        BY <1>4, <2>1
      <3> QED
        BY <1>1, <1>2, <1>3, <2>1, <3>1, <3>2, OthersStay DEF Places
    <2>2. CASE q = r
      <3>1. OneOwner(r) /\ Once(r) /\ Pend(r) /\ Told(r) /\ effects[r] \in Nat
        BY <1>1 DEF Inv, TypeInv
      <3>2. \A u \in Thread : Owner(u, r)' => Owner(u, r) \/ u = t
        BY <1>1, <1>3 DEF Moves, Owner, Owns
      <3>3. \A u \in Thread : Owner(u, r) => Owner(u, r)'
        BY <1>0, <1>1, <1>2, <1>3 DEF Moves, Owner, Owns
      <3>4. CASE pc[t] = "claimed"
        <4>1. Owner(t, r)
          BY <1>0, <1>1, <3>4 DEF Owner, Owns, Inv, Placed
        <4>2. \A u \in Thread : Owner(u, r)' => Owner(u, r)
          BY <3>2, <4>1
        <4>3. OneOwner(r)' /\ Pend(r)'
          BY <1>1, <3>1, <3>3, <4>2 DEF OneOwner, Pend
        <4>4. db[r] # NoRow /\ (r \notin memRan => effects[r] = 0)
          BY <1>0, <1>1, <3>1, <3>4, <4>1 DEF OneOwner, Once
        <4>5. ASSUME NEW u \in Thread, cur'[u] = r, pc'[u] = "claimed"
              PROVE  FALSE
          <5>1. u # t /\ cur[u] = r /\ pc[u] = "claimed"
            BY <1>2, <1>3, <4>5 DEF Moves
          <5>2. Owner(u, r)
            BY <5>1 DEF Owner, Owns, Inv, Placed
          <5> QED
            BY <3>1, <4>1, <5>1, <5>2 DEF OneOwner
        <4>6. Once(r)'
          BY <1>1, <1>4, <1>5, <3>1, <4>4, <4>5 DEF Once
        <4>7. Told(r)'
          BY <1>1, <1>4, <3>1 DEF Told, Explained
        <4> QED
          BY <2>2, <4>3, <4>6, <4>7
      <3>5. CASE pc[t] = "running"
        <4>1. backend[Home[t]] = "memory" /\ backend' = backend
          BY <1>1, <3>5 DEF Inv, Placed
        <4>2. ~Owner(t, r)'
          BY <4>1 DEF Owner
        <4>3. \A u \in Thread : Owner(u, r)' <=> Owner(u, r)
          BY <3>2, <3>3, <4>2
        <4>4. OneOwner(r)' /\ Pend(r)'
          BY <1>1, <3>1, <4>3 DEF OneOwner, Pend
        <4>5. Once(r)'
          BY <1>5, <3>5 DEF Once
        <4>6. Told(r)'
          BY <1>1, <1>4, <3>1 DEF Told, Explained
        <4> QED
          BY <2>2, <4>4, <4>5, <4>6
      <3> QED
        BY <1>1, <3>4, <3>5
    <2> QED
      BY <2>1, <2>2
  <1> QED
    BY <1>6, <1>7, <1>8 DEF Inv

\* The owner ends its call, or goes on to record a failure.
LEMMA WriteIsSafe ==
    ASSUME Inv, NEW t \in Thread, NEW r \in Req, Owner(t, r),
           \/ Moves(t, "idle", None)
           \/ Moves(t, "failed", r),
           UNCHANGED <<backend, mem, effects, memRan, replays>>,
           db' \in [Req -> Rows],
           db'[r] = db[r] \/ db'[r].status = "completed",
           \A q \in Req : q # r => db'[q] = db[q],
           first' \in [Req -> Receipts],
           first'[r] = "ok" => effects[r] > 0,
           first[r] = "failed" => first'[r] = "failed",
           \A q \in Req : q # r => first'[q] = first[q],
           abandoned \subseteq abandoned', abandoned' \subseteq abandoned \cup {r},
           db'[r].status = "completed" =>
               effects[r] > 0 \/ first'[r] = "failed" \/ r \in abandoned',
           db'[r].status = "pending" => r \in abandoned' \/ pc'[t] = "failed"
    PROVE  Inv'
  <1>1. PICK place \in {"idle", "failed"}, req \in {None, r} :
           /\ Moves(t, place, req)
           /\ (place = "idle" /\ req = None) \/ (place = "failed" /\ req = r)
    OBVIOUS
  <1>2. backend[Home[t]] = "pg" /\ cur[t] = r
    BY DEF Owner, Owns
  <1>3. TypeInv'
    BY <1>1 DEF Inv, TypeInv, Moves
  <1>4. ASSUME NEW u \in Thread PROVE Placed(u)'
    BY <1>1, <1>2 DEF Inv, Placed, Moves
  <1>5. ASSUME NEW q \in Req PROVE (OneOwner(q) /\ Once(q) /\ Pend(q) /\ Told(q))'
    <2>1. CASE q # r
      <3>1. ~Owner(t, q) /\ ~Owner(t, q)' /\ ~(cur'[t] = q /\ pc'[t] = "claimed")
        BY <1>1, <1>2, <2>1 DEF Moves, Owner, Owns
      <3> QED
        BY <1>1, <2>1, <3>1, OthersStay DEF Places
    <2>2. CASE q = r
      <3>1. OneOwner(r) /\ Once(r) /\ Pend(r) /\ Told(r)
        BY DEF Inv
      <3>2. \A u \in Thread : Owner(u, r)' => Owner(u, r)
        BY <1>1 DEF Moves, Owner, Owns
      <3>3. db[r] # NoRow /\ db'[r] # NoRow
        <4>1. NoRow.status = "none"
          BY DEF NoRow
        <4> QED
          BY <3>1, <4>1 DEF OneOwner
      <3>4. OneOwner(r)'
        BY <3>1, <3>2, <3>3 DEF OneOwner
      <3>5. Once(r)'
        <4>1. \A u \in Thread : cur'[u] = r /\ pc'[u] = "claimed" => cur[u] = r /\ pc[u] = "claimed"
          BY <1>1 DEF Moves
        <4> QED
          BY <3>1, <3>3, <4>1 DEF Once
      <3>6. Pend(r)'
        BY <1>1, <1>2 DEF Pend, Moves, Owner, Owns
      <3>7. Told(r)'
        BY <3>1 DEF Told, Explained
      <3> QED
        BY <2>2, <3>4, <3>5, <3>6, <3>7
    <2> QED
      BY <2>1, <2>2
  <1> QED
    BY <1>3, <1>4, <1>5 DEF Inv

\* What complete does to the row.
LEMMA WriteWrites ==
    ASSUME TypeInv, NEW t \in Thread, NEW r \in Req, r = cur[t], NEW ok \in BOOLEAN,
           Write(t, ok) \/ UNCHANGED db
    PROVE  /\ db' \in [Req -> Rows]
           /\ db'[r] = db[r] \/ db'[r].status = "completed"
           /\ Write(t, ok) => db'[r].status = "completed"
           /\ \A q \in Req : q # r => db'[q] = db[q]
  <1> DEFINE row == [status |-> "completed", ok |-> ok]
  <1>1. row \in Rows /\ row.status = "completed"
    BY DEF Rows
  <1>2. Write(t, ok) => db' = [db EXCEPT ![r] = row]
    BY DEF Write
  <1> HIDE DEF row
  <1> QED
    BY <1>1, <1>2 DEF TypeInv

LEMMA ReportReports ==
    ASSUME TypeInv, NEW r \in Req, NEW receipt \in {"ok", "failed"}, Report(r, receipt)
    PROVE  /\ first' \in [Req -> Receipts]
           /\ first'[r] = IF first[r] = "none" THEN receipt ELSE first[r]
           /\ \A q \in Req : q # r => first'[q] = first[q]
  BY DEF TypeInv, Report, Receipts

LEMMA CompleteOkIsSafe ==
    ASSUME Inv, NEW t \in Thread, CompleteOk(t)
    PROVE  Inv'
  <1>0. PICK r \in Req : r = cur[t]
    BY DEF CompleteOk, Inv, Placed
  <1>1. /\ Owner(t, r) /\ effects[r] > 0
        /\ UNCHANGED <<backend, mem, effects, memRan, abandoned, replays>>
    BY <1>0 DEF CompleteOk, Owner, Owns, Inv, Placed
  <1>2. /\ TypeInv /\ (Write(t, TRUE) \/ UNCHANGED db)
        /\ Told(r)
    BY DEF CompleteOk, Inv
  <1>3. CASE Write(t, TRUE) /\ Report(r, "ok") /\ Done(t)
    <2>1. Moves(t, "idle", None) /\ abandoned' \subseteq abandoned \cup {r}
      BY <1>1, <1>2, <1>3, DoneMoves
    <2>2. /\ db' \in [Req -> Rows] /\ db'[r].status = "completed"
          /\ \A q \in Req : q # r => db'[q] = db[q]
      BY <1>0, <1>2, <1>3, WriteWrites
    <2>3. /\ first' \in [Req -> Receipts]
          /\ first[r] = "failed" => first'[r] = "failed"
          /\ \A q \in Req : q # r => first'[q] = first[q]
      BY <1>2, <1>3, ReportReports
    <2> QED
      BY <1>1, <2>1, <2>2, <2>3, WriteIsSafe
  <1>4. CASE pc' = [pc EXCEPT ![t] = "failed"] /\ UNCHANGED <<cur, first>>
    <2>1. Moves(t, "failed", r) /\ pc'[t] = "failed" /\ abandoned' \subseteq abandoned \cup {r}
      BY <1>0, <1>1, <1>2, <1>4, GoMoves DEF Moves, Places
    <2>2. /\ db' \in [Req -> Rows] /\ (db'[r] = db[r] \/ db'[r].status = "completed")
          /\ \A q \in Req : q # r => db'[q] = db[q]
      BY <1>0, <1>2, WriteWrites
    <2>3. first' = first /\ first' \in [Req -> Receipts] /\ (first[r] = "ok" => effects[r] > 0)
      BY <1>2, <1>4 DEF TypeInv, Told
    <2> QED
      BY <1>1, <2>1, <2>2, <2>3, WriteIsSafe
  <1> QED
    BY <1>0, <1>3, <1>4 DEF CompleteOk

LEMMA CompleteFailedIsSafe ==
    ASSUME Inv, NEW t \in Thread, CompleteFailed(t)
    PROVE  Inv'
  <1>0. PICK r \in Req : r = cur[t]
    BY DEF CompleteFailed, Inv, Placed
  <1>1. /\ Owner(t, r)
        /\ UNCHANGED <<backend, mem, effects, memRan, replays>>
    BY <1>0 DEF CompleteFailed, Owner, Owns
  <1>2. /\ TypeInv /\ (Write(t, FALSE) \/ UNCHANGED db)
        /\ Told(r) /\ Moves(t, "idle", None)
    BY DoneMoves DEF CompleteFailed, Inv
  <1>3. /\ db' \in [Req -> Rows] /\ (db'[r] = db[r] \/ db'[r].status = "completed")
        /\ Write(t, FALSE) => db'[r].status = "completed"
        /\ \A q \in Req : q # r => db'[q] = db[q]
    BY <1>0, <1>2, WriteWrites
  <1>4. CASE Write(t, FALSE) /\ Report(r, "failed") /\ UNCHANGED abandoned
    <2>1. /\ first' \in [Req -> Receipts]
          /\ first'[r] = IF first[r] = "none" THEN "failed" ELSE first[r]
          /\ first[r] \in Receipts
          /\ \A q \in Req : q # r => first'[q] = first[q]
      BY <1>2, <1>4, ReportReports DEF TypeInv
    <2>2. /\ first'[r] = "ok" => effects[r] > 0
          /\ effects[r] > 0 \/ first'[r] = "failed"
      BY <1>2, <2>1 DEF Told, Receipts
    <2> QED
      BY <1>1, <1>2, <1>3, <1>4, <2>1, <2>2, WriteIsSafe
  <1>5. CASE abandoned' = abandoned \cup {r} /\ UNCHANGED first
    <2>1. first' = first /\ first' \in [Req -> Receipts] /\ (first[r] = "ok" => effects[r] > 0)
      BY <1>2, <1>5 DEF TypeInv, Told
    <2> QED
      BY <1>1, <1>2, <1>3, <1>5, <2>1, WriteIsSafe
  <1> QED
    BY <1>0, <1>4, <1>5 DEF CompleteFailed

LEMMA StoreIsSafe ==
    ASSUME Inv, NEW t \in Thread, StoreMemory(t)
    PROVE  Inv'
  <1>0. PICK r \in Req : r = cur[t]
    BY DEF StoreMemory, Inv, Placed
  <1>1. PICK receipt \in {"ok", "failed"} :
           /\ receipt = IF pc[t] = "ran" THEN "ok" ELSE "failed"
           /\ mem' = [mem EXCEPT ![Home[t]] = [@ EXCEPT ![r] = receipt]]
           /\ Report(r, receipt)
    BY <1>0 DEF StoreMemory
  <1>2. /\ UNCHANGED <<backend, db, effects, memRan, abandoned, replays>>
        /\ backend[Home[t]] = "memory" /\ r \in memRan
        /\ receipt = "ok" => effects[r] > 0
    BY <1>0, <1>1 DEF StoreMemory, Inv, Placed
  <1>3. Moves(t, "idle", None)
    BY DoneMoves DEF StoreMemory, Inv
  <1>4. /\ mem' \in [Proc -> [Req -> Receipts]]
        /\ \A m \in Proc : mem'[m][r] \in {mem[m][r], receipt}
        /\ \A m \in Proc, q \in Req : q # r => mem'[m][q] = mem[m][q]
    BY <1>1, HomeIsAProcess DEF Inv, TypeInv, Receipts
  <1>5. /\ first' \in [Req -> Receipts]
        /\ first'[r] = IF first[r] = "none" THEN receipt ELSE first[r]
        /\ \A q \in Req : q # r => first'[q] = first[q]
    BY <1>1, ReportReports DEF Inv
  <1>6. TypeInv'
    BY <1>2, <1>3, <1>4, <1>5 DEF Inv, TypeInv, Moves
  <1>7. ASSUME NEW u \in Thread PROVE Placed(u)'
    BY <1>2, <1>3 DEF Inv, Placed, Moves
  <1>8. ASSUME NEW q \in Req PROVE (OneOwner(q) /\ Once(q) /\ Pend(q) /\ Told(q))'
    <2>1. ~Owner(t, q) /\ ~Owner(t, q)'
      BY <1>2 DEF Owner
    <2>2. CASE q # r
      BY <1>2, <1>3, <1>4, <1>5, <2>1, <2>2, OthersStay DEF Moves, Places
    <2>3. CASE q = r
      <3>1. OneOwner(r) /\ Once(r) /\ Pend(r) /\ Told(r)
        BY DEF Inv
      <3>2. \A u \in Thread : Owner(u, r)' <=> Owner(u, r)
        BY <1>2, <1>3, <2>1, <2>3 DEF Moves, Owner, Owns
      <3>3. OneOwner(r)' /\ Pend(r)'
        BY <1>2, <3>1, <3>2 DEF OneOwner, Pend
      <3>4. Once(r)'
        BY <1>2 DEF Once
      <3>5. Told(r)'
        BY <1>2, <1>4, <1>5, <3>1 DEF Told, Explained
      <3> QED
        BY <2>3, <3>3, <3>4, <3>5
    <2> QED
      BY <2>2, <2>3
  <1> QED
    BY <1>6, <1>7, <1>8 DEF Inv

LEMMA RestartIsSafe ==
    ASSUME Inv, NEW m \in Proc, Restart(m)
    PROVE  Inv'
  <1>1. /\ UNCHANGED <<db, effects, memRan, first, replays>>
        /\ abandoned' = abandoned \cup
               {r \in Req : \E t \in Thread : Home[t] = m /\ Owns(t, r)}
    BY DEF Restart
  <1>2. /\ pc' \in [Thread -> Places] /\ cur' \in [Thread -> Req \cup {None}]
        /\ \A t \in Thread : Home[t] = m => pc'[t] = "idle" /\ cur'[t] = None
        /\ \A t \in Thread : Home[t] # m => pc'[t] = pc[t] /\ cur'[t] = cur[t]
    BY DEF Restart, Inv, TypeInv, Places
  <1>3. /\ mem' \in [Proc -> [Req -> Receipts]]
        /\ \A n \in Proc, r \in Req : mem'[n][r] \in {mem[n][r], "none"}
    BY DEF Restart, Blank, Inv, TypeInv, Receipts
  <1>4. /\ backend' \in [Proc -> Backends]
        /\ \A n \in Proc : n # m => backend'[n] = backend[n]
    BY DEF Restart, Inv, TypeInv, Backends
  <1>5. TypeInv'
    BY <1>1, <1>2, <1>3, <1>4 DEF Inv, TypeInv
  <1>6. ASSUME NEW u \in Thread PROVE Placed(u)'
    <2>1. CASE Home[u] = m
      BY <1>2, <2>1 DEF Placed
    <2>2. CASE Home[u] # m
      BY <1>1, <1>2, <1>4, <2>2, HomeIsAProcess DEF Placed, Inv
    <2> QED
      BY <2>1, <2>2
  <1>7. ASSUME NEW q \in Req PROVE (OneOwner(q) /\ Once(q) /\ Pend(q) /\ Told(q))'
    <2>1. OneOwner(q) /\ Once(q) /\ Pend(q) /\ Told(q)
      BY DEF Inv
    <2>2. \A u \in Thread : Owner(u, q)' => Owner(u, q)
      BY <1>2, <1>4, HomeIsAProcess DEF Owner, Owns
    <2>3. \A u \in Thread : Owner(u, q) => Owner(u, q)' \/ q \in abandoned'
      BY <1>1, <1>2, <1>4, HomeIsAProcess DEF Owner, Owns
    <2>4. OneOwner(q)'
      BY <1>1, <2>1, <2>2 DEF OneOwner
    <2>5. Once(q)'
      BY <1>1, <1>2, <2>1 DEF Once
    <2>6. Pend(q)'
      BY <1>1, <2>1, <2>3 DEF Pend
    <2>7. Told(q)'
      BY <1>1, <1>3, <2>1 DEF Told, Explained
    <2> QED
      BY <2>4, <2>5, <2>6, <2>7
  <1> QED
    BY <1>5, <1>6, <1>7 DEF Inv

-----------------------------------------------------------------------------
(* The theorems.                                                           *)

LEMMA InitIsSafe == Init => Inv
  <1> SUFFICES ASSUME Init PROVE Inv
    OBVIOUS
  <1>1. TypeInv
    BY DEF Init, TypeInv, Backends, Blank, Receipts, Rows, Places
  <1>2. \A t \in Thread : Placed(t)
    BY DEF Init, Placed
  <1>3. \A t \in Thread, r \in Req : ~Owner(t, r)
    BY DEF Init, Owner, Owns
  <1>4. ASSUME NEW r \in Req PROVE OneOwner(r) /\ Once(r) /\ Pend(r) /\ Told(r)
    BY <1>3 DEF Init, NoRow, Blank, OneOwner, Once, Pend, Told
  <1> QED
    BY <1>1, <1>2, <1>4 DEF Inv

LEMMA NextIsSafe == Inv /\ [Next]_vars => Inv'
  <1> SUFFICES ASSUME Inv, [Next]_vars PROVE Inv'
    OBVIOUS
  <1>1. CASE Next
    BY <1>1, CallPgIsSafe, CallMemoryIsSafe, InsertIsSafe, RereadIsSafe, RunIsSafe,
       CompleteOkIsSafe, CompleteFailedIsSafe, StoreIsSafe, RestartIsSafe DEF Next
  <1>2. CASE UNCHANGED vars
    <2>1. TypeInv'
      BY <1>2 DEF vars, Inv, TypeInv
    <2>2. ASSUME NEW t \in Thread PROVE Placed(t)'
      BY <1>2 DEF vars, Inv, Placed
    <2>3. ASSUME NEW r \in Req PROVE (OneOwner(r) /\ Once(r) /\ Pend(r) /\ Told(r))'
      <3>1. OneOwner(r) /\ Once(r) /\ Pend(r) /\ Told(r)
        BY DEF Inv
      <3>2. \A t \in Thread : Owner(t, r)' <=> Owner(t, r)
        BY <1>2 DEF vars, Owner, Owns
      <3> QED
        BY <1>2, <3>1, <3>2 DEF vars, OneOwner, Once, Pend, Told, Explained
    <2> QED
      BY <2>1, <2>2, <2>3 DEF Inv
  <1> QED
    BY <1>1, <1>2

LEMMA Invariance == Spec => []Inv
  BY InitIsSafe, NextIsSafe, PTL DEF Spec

\* Every reachable state of the two backends is well typed.
THEOREM BackendsTyped == Spec => []TypeInv
  <1>1. Inv => TypeInv
    BY DEF Inv
  <1> QED
    BY <1>1, Invariance, PTL

\* On Postgres an effect happens at most once, whatever raises, is lost or
\* dies: only a process that ran the request in memory makes it happen again.
THEOREM OnlyMemoryRepeats == Spec => []OnlyMemoryDuplicates
  <1>1. Inv => OnlyMemoryDuplicates
    <2> SUFFICES ASSUME Inv, NEW r \in Req, effects[r] > 1, r \notin memRan PROVE FALSE
      BY DEF OnlyMemoryDuplicates
    <2>1. effects[r] \in Nat /\ effects[r] <= 1
      BY DEF Inv, TypeInv, Once
    <2> QED
      BY <2>1
  <1> QED
    BY <1>1, Invariance, PTL

\* A row is pending only while its owner is alive, or because the owner died
\* or its complete raised.
THEOREM PendingHasAnOwner == Spec => []PendingIsExplained
  <1>1. Inv => PendingIsExplained
    BY DEF Inv, Pend, Owner, PendingIsExplained
  <1> QED
    BY <1>1, Invariance, PTL

\* A replay says ok only of what happened, of what was first reported as
\* failed, or of a request whose owner died or raised.
THEOREM OkReplaysHaveAReason == Spec => []OkReplaysAreExplained
  <1>1. Inv => OkReplaysAreExplained
    BY DEF Inv, Told, Explained, OkReplaysAreExplained
  <1> QED
    BY <1>1, Invariance, PTL

-----------------------------------------------------------------------------
(* SettlementCase.                                                         *)

CaseTypeInv ==
    /\ durable \in BOOLEAN
    /\ stored \in [CaseId -> CaseType \cup {Nothing}]
    /\ \A c \in CaseId : stored[c] # Nothing => stored[c].id = c
    /\ loaded \in [Actor -> CaseType \cup {Nothing}]
    /\ requests \in [Actor -> [ReqId -> Nat \cup {Nothing}]]
    /\ issued \in Seq(CaseId)
    /\ contested \subseteq CaseId

\* The state of a case says what is in it.
Fits(k) ==
    /\ k.state = "OPEN" => Tallied(k) = {}
    /\ k.state = "RESOLVED_PROVISIONAL" => Cardinality(Tallied(k)) <= 1
    /\ k.final # Nothing <=> k.state \in {"FINAL", "SETTLED"}
    /\ k.sid # Nothing   <=> k.state = "SETTLED"

\* Its id is one that was issued for it.
Numbered(k) == k.sid # Nothing => k.sid \in 1..Len(issued) /\ issued[k.sid] = k.id

\* An id goes with one outcome.
Agree(j, k) == j.sid # Nothing /\ j.sid = k.sid => j.final = k.final

\* In memory every caller works on the stored case.
OneObject == ~durable => \A a \in Actor : loaded[a] # Nothing => loaded[a] = stored[loaded[a].id]

Holds(a, c) == loaded[a] # Nothing /\ loaded[a].id = c

\* A case that is not contested has one holder, and once an id has been issued
\* for it, it is settled where it is held, or in the store if nobody holds it.
OneHolderOf(c) == durable => \A a, b \in Actor : Holds(a, c) /\ Holds(b, c) => a = b

IssuedFor(c) == \E i \in 1..Len(issued) : issued[i] = c

StoredSettled(c) == stored[c] # Nothing /\ stored[c].state = "SETTLED"

SettledAt(c) ==
    IF durable
    THEN \/ \E a \in Actor : Holds(a, c) /\ loaded[a].state = "SETTLED"
         \/ (\A a \in Actor : ~Holds(a, c)) /\ StoredSettled(c)
    ELSE StoredSettled(c)

Uncontested == \A c \in CaseId \ contested : OneHolderOf(c) /\ (IssuedFor(c) => SettledAt(c))

OnceEach ==
    \A i, j \in 1..Len(issued) : i # j /\ issued[i] = issued[j] => issued[i] \in contested

\* A registry answers with ids that were issued.
Registered ==
    \A a \in Actor, q \in ReqId : requests[a][q] # Nothing => requests[a][q] \in 1..Len(issued)

CaseInv ==
    /\ CaseTypeInv
    /\ \A k \in Cases : Fits(k) /\ Numbered(k)
    /\ \A j, k \in Cases : Agree(j, k)
    /\ OneObject /\ Uncontested /\ OnceEach /\ Registered

-----------------------------------------------------------------------------
(* The operators.                                                          *)

LEMMA NewCaseFits ==
    ASSUME NEW c \in CaseId
    PROVE  NewCase(c) \in CaseType /\ Fits(NewCase(c)) /\ NewCase(c) # Nothing
<1>1. NewCase(c) \in CaseType
  BY DEF NewCase, CaseType
<1>2. Tallied(NewCase(c)) = {}
  BY DEF Tallied, Said, Heard, NewCase
<1> QED
  BY <1>1, <1>2, SignalAssumption DEF NewCase, Fits

\* Who says what is a finite matter.
LEMMA FiniteTally ==
    ASSUME NEW k \in CaseType
    PROVE  /\ IsFiniteSet(Heard(k)) /\ IsFiniteSet(Said(k)) /\ IsFiniteSet(Tallied(k))
           /\ Cardinality(Heard(k)) \in Nat /\ Cardinality(Said(k)) \in Nat
           /\ Cardinality(Tallied(k)) \in Nat
           /\ \A o : IsFiniteSet({s \in Said(k) : k.says[s] = o}) /\ Votes(k, o) \in Nat
<1>1. IsFiniteSet(Heard(k)) /\ IsFiniteSet(Said(k))
  BY SourceAssumption, FS_Subset, Zenon DEF Heard, Said
<1>2. \A o : IsFiniteSet({s \in Said(k) : k.says[s] = o})
  BY <1>1, FS_Subset, Zenon
<1>3. IsFiniteSet(Tallied(k))
  <2> DEFINE says == [s \in Said(k) |-> k.says[s]]
  <2>1. says \in Surjection(Said(k), Tallied(k))
    BY DEF Surjection, Tallied
  <2> QED
    BY <1>1, <2>1, FS_Surjection
<1> QED
  BY <1>1, <1>2, <1>3, FS_CardinalityType, Zenon DEF Votes

\* Reading a case back changes nothing but the places.
LEMMA ReloadKeeps ==
    ASSUME NEW k \in CaseType
    PROVE  /\ Reload(k) \in CaseType
           /\ Reload(k).id = k.id /\ Reload(k).state = k.state /\ Reload(k).final = k.final
           /\ Reload(k).sid = k.sid /\ Reload(k).says = k.says
           /\ Heard(Reload(k)) = Heard(k) /\ Said(Reload(k)) = Said(k)
           /\ Tallied(Reload(k)) = Tallied(k) /\ \A o : Votes(Reload(k), o) = Votes(k, o)
<1>1. \A s : IsFiniteSet({t \in Heard(k) : t <= s})
  BY FiniteTally, FS_Subset, Zenon
<1>2. \A s : Cardinality({t \in Heard(k) : t <= s}) \in Nat
  BY <1>1, FS_CardinalityType, Zenon
<1>3. [s \in Source |-> IF s \in Heard(k) THEN Cardinality({t \in Heard(k) : t <= s}) ELSE 0]
        \in [Source -> Nat]
  BY <1>2
<1>4. /\ Reload(k) \in CaseType
      /\ Reload(k).id = k.id /\ Reload(k).state = k.state /\ Reload(k).final = k.final
      /\ Reload(k).sid = k.sid /\ Reload(k).says = k.says
  BY <1>3 DEF Reload, CaseType
<1> QED
  BY <1>4 DEF Heard, Said, Tallied, Votes

LEMMA UpsertChanges ==
    ASSUME NEW k \in CaseType, NEW src \in Source, NEW o \in Outcome \cup {Unusable}
    PROVE  LET u == Upsert(k, src, o) IN
           /\ u \in CaseType
           /\ u.id = k.id /\ u.state = k.state /\ u.final = k.final /\ u.sid = k.sid
           /\ u.says = [k.says EXCEPT ![src] = o]
<1>1. Cardinality(Heard(k)) + 1 \in Nat
  BY FiniteTally
<1> QED
  BY <1>1 DEF Upsert, CaseType

\* A tally of nothing grows by what is said.
LEMMA FirstSignal ==
    ASSUME NEW k \in CaseType, NEW src \in Source, NEW o \in Outcome \cup {Unusable},
           Tallied(k) = {}
    PROVE  Tallied(Upsert(k, src, o)) \subseteq {o}
           /\ (Tallied(Upsert(k, src, o)) = {} \/ Cardinality(Tallied(Upsert(k, src, o))) = 1)
<1> DEFINE u == Upsert(k, src, o)
<1>1. u.says = [k.says EXCEPT ![src] = o] /\ k.says \in [Source -> Outcome \cup {Unusable, Nothing}]
  BY UpsertChanges DEF CaseType
<1>2. Said(k) = {}
  BY DEF Tallied
<1>3. \A s \in Source : s # src => k.says[s] \in {Nothing, Unusable}
  BY <1>2 DEF Said, Heard
<1>4. Tallied(u) \subseteq {o}
  BY <1>1, <1>3 DEF Tallied, Said, Heard
<1>5. Tallied(u) = {} \/ Tallied(u) = {o}
  BY <1>4
<1> QED
  BY <1>4, <1>5, FS_Singleton, Zenon

-----------------------------------------------------------------------------
(* What makes a case final by itself.                                      *)

\* Two outcomes have no more votes between them than there are signals.
LEMMA VotesAddUp ==
    ASSUME NEW k \in CaseType, NEW o, NEW p, o # p
    PROVE  Votes(k, o) + Votes(k, p) <= Cardinality(Said(k))
<1> DEFINE O == {s \in Said(k) : k.says[s] = o}
           P == {s \in Said(k) : k.says[s] = p}
<1>1. IsFiniteSet(Said(k)) /\ IsFiniteSet(O) /\ IsFiniteSet(P)
  BY FiniteTally
<1>2. O \cap P = {} /\ O \cup P \in SUBSET Said(k)
  OBVIOUS
<1>3. Cardinality(O \cup P) = Cardinality(O) + Cardinality(P) - Cardinality(O \cap P)
  BY <1>1, FS_Union
<1>4. Cardinality(O \cup P) <= Cardinality(Said(k))
  BY <1>1, <1>2, FS_Subset
<1>5. Cardinality(O \cap P) = 0
  BY <1>2, FS_EmptySet
<1>6. Cardinality(O) \in Nat /\ Cardinality(P) \in Nat /\ Cardinality(Said(k)) \in Nat
  BY <1>1, FS_CardinalityType
<1> QED
  BY <1>3, <1>4, <1>5, <1>6 DEF Votes

\* Of the signals for the outcomes with most votes there is a first.
LEMMA FirstExists ==
    ASSUME NEW k \in CaseType, Most(k) # {}
    PROVE  First(k) \in Said(k) /\ k.says[First(k)] \in Most(k)
<1> DEFINE places == {k.place[s] : s \in {t \in Said(k) : k.says[t] \in Most(k)}}
<1>1. places \subseteq Nat /\ places # {}
  BY DEF Most, Tallied, Said, Heard, CaseType
<1>2. PICK n \in places : \A m \in places : ~(<<m, n>> \in OpToRel(<, Nat))
  BY <1>1, NatLessThanWellFounded, WFMin
<1>3. \A m \in places : ~(m < n)
  BY <1>1, <1>2 DEF OpToRel
<1>4. PICK s \in Said(k) : k.says[s] \in Most(k) /\ k.place[s] = n
  OBVIOUS
<1>5. \A t \in Said(k) : k.place[t] < k.place[s] => k.says[t] \notin Most(k)
  BY <1>3, <1>4
<1> QED
  BY <1>4, <1>5 DEF First

\* With a decisive majority, no other outcome has as many votes.
LEMMA DecisiveIsAlone ==
    ASSUME NEW k \in CaseType, Decisive(k)
    PROVE  Winner(k) \in Outcome /\ Most(k) = {Winner(k)}
<1>1. Most(k) # {} /\ Winner(k) = k.says[First(k)]
  BY DEF Decisive, Winner
<1>2. First(k) \in Said(k) /\ Winner(k) \in Most(k)
  BY <1>1, FirstExists
<1>3. Winner(k) \in Outcome
  BY <1>1, <1>2 DEF Said, Heard, CaseType
<1>4. ASSUME NEW p \in Most(k), p # Winner(k) PROVE FALSE
  <2>1. Votes(k, p) >= Votes(k, Winner(k))
    BY <1>2, FiniteTally DEF Most
  <2>2. Votes(k, p) + Votes(k, Winner(k)) <= Cardinality(Said(k))
    BY <1>4, VotesAddUp
  <2>3. Said(k) # {} /\ IsFiniteSet(Said(k)) /\ Cardinality(Said(k)) \in Nat
    BY <1>2, FiniteTally
  <2>4. Cardinality(Said(k)) > 0
    BY <2>3, FS_EmptySet
  <2>5. 5 * Votes(k, Winner(k)) >= 4 * Cardinality(Said(k))
    BY DEF Decisive
  <2>6. Votes(k, p) \in Nat /\ Votes(k, Winner(k)) \in Nat
    BY FiniteTally
  <2> QED
    BY <2>1, <2>2, <2>3, <2>4, <2>5, <2>6
<1> QED
  BY <1>2, <1>3, <1>4

LEMMA DecisiveSurvives ==
    ASSUME NEW k \in CaseType, Decisive(k)
    PROVE  Winner(k) = Winner(Reload(k))
<1>1. Reload(k) \in CaseType /\ Most(Reload(k)) = Most(k) /\ Reload(k).says = k.says
  BY ReloadKeeps DEF Most
<1>2. Most(k) = {Winner(k)}
  BY DecisiveIsAlone
<1>3. Reload(k).says[First(Reload(k))] \in Most(k)
  BY <1>1, <1>2, FirstExists
<1> QED
  BY <1>1, <1>2, <1>3 DEF Winner
-----------------------------------------------------------------------------
(* The steps.                                                              *)

\* What is read is the stored case, but for its places, or a new one.
LEMMA ReadIsStored ==
    ASSUME CaseTypeInv, NEW c \in CaseId
    PROVE  /\ Read(c) \in CaseType /\ Read(c) # Nothing /\ Read(c).id = c
           /\ stored[c] = Nothing => Read(c) = NewCase(c)
           /\ stored[c] # Nothing => /\ Read(c).state = stored[c].state
                                     /\ Read(c).final = stored[c].final
                                     /\ Read(c).sid = stored[c].sid
                                     /\ Tallied(Read(c)) = Tallied(stored[c])
           /\ stored[c] # Nothing /\ ~durable => Read(c) = stored[c]
           /\ StoredSettled(c) <=> Read(c).state = "SETTLED"
<1>1. CASE stored[c] = Nothing
  BY <1>1, NewCaseFits DEF Read, NewCase, StoredSettled
<1>2. CASE stored[c] # Nothing
  <2>1. stored[c] \in CaseType /\ stored[c].id = c
    BY <1>2 DEF CaseTypeInv
  <2>2. Reload(stored[c]) \in CaseType /\ Reload(stored[c]) # Nothing
    BY <2>1, ReloadKeeps, SignalAssumption
  <2> QED
    BY <1>2, <2>1, <2>2, ReloadKeeps DEF Read, StoredSettled
<1> QED
  BY <1>1, <1>2

\* A case that comes in by a step, from one that was there.
LEMMA NewAmongCases ==
    ASSUME CaseInv, CaseTypeInv', NEW k \in CaseType, k # Nothing,
           issued' = issued, Cases' \subseteq Cases \cup {k},
           Fits(k),
           \/ k.sid = Nothing
           \/ \E j \in Cases : j.id = k.id /\ j.sid = k.sid /\ j.final = k.final
    PROVE  /\ \A m \in Cases' : Fits(m) /\ Numbered(m)'
           /\ \A m, n \in Cases' : Agree(m, n)
<1>1. Numbered(k)
  BY DEF CaseInv, Numbered
<1>2. \A m \in Cases : Agree(m, k) /\ Agree(k, m)
  BY DEF CaseInv, Agree
<1> QED
  BY <1>1, <1>2 DEF CaseInv, Numbered, Agree

LEMMA LoadIsSafe ==
    ASSUME CaseInv, NEW a \in Actor, NEW c \in CaseId, Load(a, c)
    PROVE  CaseInv'
<1> DEFINE r == Read(c)
<1> USE DEF CaseInv
<1>1. /\ r \in CaseType /\ r # Nothing /\ r.id = c
      /\ stored[c] = Nothing => r = NewCase(c)
      /\ stored[c] # Nothing => r.state = stored[c].state /\ r.final = stored[c].final
                                /\ r.sid = stored[c].sid /\ Tallied(r) = Tallied(stored[c])
      /\ stored[c] # Nothing /\ ~durable => r = stored[c]
      /\ StoredSettled(c) <=> r.state = "SETTLED"
  BY ReadIsStored
<1>2. /\ loaded' = [loaded EXCEPT ![a] = r]
      /\ stored' = IF durable THEN stored ELSE [stored EXCEPT ![c] = r]
      /\ contested' = contested \cup Dropped(a) \cup ({c} \cap HeldElsewhere(a))
      /\ UNCHANGED <<durable, requests, issued>>
  BY DEF Load
<1>3. CaseTypeInv'
  <2>1. contested' \subseteq CaseId
    BY <1>2 DEF Dropped, CaseTypeInv, CaseType
  <2>2. stored' \in [CaseId -> CaseType \cup {Nothing}]
        /\ \A d \in CaseId : stored'[d] # Nothing => stored'[d].id = d
    BY <1>1, <1>2 DEF CaseTypeInv
  <2> QED
    BY <1>1, <1>2, <2>1, <2>2 DEF CaseTypeInv
<1>4. Cases' \subseteq Cases \cup {r}
  BY <1>1, <1>2 DEF Cases, CaseTypeInv
<1>5. Fits(r)
  <2>1. CASE stored[c] = Nothing
    BY <1>1, <2>1, NewCaseFits
  <2>2. CASE stored[c] # Nothing
    <3>1. stored[c] \in Cases
      BY <2>2 DEF Cases
    <3> QED
      BY <1>1, <2>2, <3>1 DEF Fits
  <2> QED
    BY <2>1, <2>2
<1>6. r.sid = Nothing \/ \E j \in Cases : j.id = r.id /\ j.sid = r.sid /\ j.final = r.final
  <2>1. CASE stored[c] = Nothing
    BY <1>1, <2>1 DEF NewCase
  <2>2. CASE stored[c] # Nothing
    <3>1. stored[c] \in Cases /\ stored[c].id = c
      BY <2>2 DEF Cases, CaseTypeInv
    <3> QED
      BY <1>1, <2>2, <3>1
  <2> QED
    BY <2>1, <2>2
<1>7. /\ \A m \in Cases' : Fits(m) /\ Numbered(m)'
      /\ \A m, n \in Cases' : Agree(m, n)
  BY <1>1, <1>2, <1>3, <1>4, <1>5, <1>6, NewAmongCases
<1>8. OneObject'
  BY <1>1, <1>2 DEF OneObject, CaseTypeInv
<1>9. Uncontested'
  <2> SUFFICES ASSUME NEW d \in CaseId \ contested'
               PROVE  OneHolderOf(d)' /\ (IssuedFor(d)' => SettledAt(d)')
    BY DEF Uncontested
  <2>1. d \notin contested /\ OneHolderOf(d) /\ (IssuedFor(d) => SettledAt(d))
    BY <1>2 DEF Uncontested
  <2>2. IssuedFor(d)' <=> IssuedFor(d)
    BY <1>2 DEF IssuedFor
  <2>3. CASE durable
    <3>1. \A b \in Actor \ {a} : Holds(b, d)' <=> Holds(b, d)
      BY <1>2 DEF Holds, CaseTypeInv
    <3>2. Holds(a, d)' <=> d = c
      BY <1>1, <1>2 DEF Holds, CaseTypeInv
    <3>3. d = c => \A b \in Actor \ {a} : ~Holds(b, d)
      BY <1>2, <2>3 DEF HeldElsewhere, Holds
    <3>4. OneHolderOf(d)'
      BY <2>1, <2>3, <3>1, <3>2, <3>3, <1>2 DEF OneHolderOf
    <3>5. Holds(a, d) => loaded[a] = Read(d)
      BY <1>2, <2>3 DEF Dropped, Holds
    <3>6. ASSUME IssuedFor(d) PROVE SettledAt(d)'
      <4>1. \/ \E b \in Actor : Holds(b, d) /\ loaded[b].state = "SETTLED"
            \/ (\A b \in Actor : ~Holds(b, d)) /\ StoredSettled(d)
        BY <2>1, <2>3, <3>6 DEF SettledAt
      <4>2. StoredSettled(d) = StoredSettled(d)'
        BY <1>2, <2>3 DEF StoredSettled
      <4>3. CASE \E b \in Actor \ {a} : Holds(b, d) /\ loaded[b].state = "SETTLED"
        BY <4>3, <3>1, <1>2, <2>3 DEF SettledAt, CaseTypeInv
      <4>4. CASE Holds(a, d) /\ loaded[a].state = "SETTLED"
        <5>1. Read(d).state = "SETTLED" /\ StoredSettled(d)
          BY <4>4, <3>5, ReadIsStored
        <5>2. CASE d = c
          BY <5>1, <5>2, <3>2, <1>1, <1>2, <2>3 DEF SettledAt, CaseTypeInv
        <5>3. CASE d # c
          <6>1. \A b \in Actor : ~Holds(b, d)'
            BY <5>3, <3>1, <3>2, <2>1, <2>3, <4>4 DEF OneHolderOf
          <6> QED
            BY <6>1, <5>1, <4>2, <1>2, <2>3 DEF SettledAt
        <5> QED
          BY <5>2, <5>3
      <4>5. CASE (\A b \in Actor : ~Holds(b, d)) /\ StoredSettled(d)
        <5>1. CASE d = c
          BY <4>5, <5>1, <3>2, <1>1, <1>2, <2>3 DEF SettledAt, CaseTypeInv
        <5>2. CASE d # c
          <6>1. \A b \in Actor : ~Holds(b, d)'
            BY <5>2, <3>1, <3>2, <4>5
          <6> QED
            BY <6>1, <4>5, <4>2, <1>2, <2>3 DEF SettledAt
        <5> QED
          BY <5>1, <5>2
      <4> QED
        BY <4>1, <4>3, <4>4, <4>5
    <3> QED
      BY <2>2, <3>4, <3>6
  <2>4. CASE ~durable
    <3>1. SettledAt(d) => SettledAt(d)'
      <4>1. CASE d = c
        BY <4>1, <2>4, <1>1, <1>2 DEF SettledAt, StoredSettled, CaseTypeInv
      <4>2. CASE d # c
        BY <4>2, <2>4, <1>2 DEF SettledAt, StoredSettled, CaseTypeInv
      <4> QED
        BY <4>1, <4>2
    <3> QED
      BY <2>1, <2>2, <2>4, <3>1, <1>2 DEF OneHolderOf
  <2> QED
    BY <2>3, <2>4
<1>10. OnceEach' /\ Registered'
  BY <1>2 DEF OnceEach, Registered
<1> QED
  BY <1>3, <1>7, <1>8, <1>9, <1>10 DEF Fits, Agree, Tallied, Said, Heard

LEMMA SaveIsSafe ==
    ASSUME CaseInv, NEW a \in Actor, Save(a)
    PROVE  CaseInv'
<1> DEFINE k == loaded[a]
<1> USE DEF CaseInv
<1>1. durable /\ k # Nothing /\ k \in CaseType /\ k \in Cases
      /\ stored' = [stored EXCEPT ![k.id] = k]
      /\ UNCHANGED <<durable, loaded, requests, issued, contested>>
  BY DEF Save, CaseTypeInv, Cases
<1>2. k.id \in CaseId
  BY <1>1 DEF CaseType
<1>3. CaseTypeInv'
  BY <1>1, <1>2 DEF CaseTypeInv
<1>4. Cases' \subseteq Cases \cup {k}
  BY <1>1, <1>2 DEF Cases, CaseTypeInv
<1>5. /\ \A m \in Cases' : Fits(m) /\ Numbered(m)'
      /\ \A m, n \in Cases' : Agree(m, n)
  BY <1>1, <1>3, <1>4, NewAmongCases
<1>6. OneObject' /\ OnceEach' /\ Registered'
  BY <1>1 DEF OneObject, OnceEach, Registered
<1>7. Uncontested'
  <2> SUFFICES ASSUME NEW d \in CaseId \ contested'
               PROVE  OneHolderOf(d)' /\ (IssuedFor(d)' => SettledAt(d)')
    BY DEF Uncontested
  <2>1. d \notin contested /\ OneHolderOf(d) /\ (IssuedFor(d) => SettledAt(d))
    BY <1>1 DEF Uncontested
  <2>2. \A b \in Actor : Holds(b, d)' <=> Holds(b, d)
    BY <1>1 DEF Holds
  <2>3. SettledAt(d) => SettledAt(d)'
    <3>1. CASE Holds(a, d)
      BY <3>1, <1>1, <2>2 DEF SettledAt
    <3>2. CASE ~Holds(a, d)
      <4>1. stored'[d] = stored[d]
        BY <3>2, <1>1, <1>2 DEF Holds, CaseTypeInv
      <4> QED
        BY <4>1, <1>1, <2>2 DEF SettledAt, StoredSettled
    <3> QED
      BY <3>1, <3>2
  <2> QED
    BY <2>1, <2>2, <2>3, <1>1 DEF OneHolderOf, IssuedFor
<1> QED
  BY <1>3, <1>5, <1>6, <1>7 DEF Fits, Agree, Tallied, Said, Heard

LEMMA EndProcessIsSafe ==
    ASSUME CaseInv, NEW a \in Actor, EndProcess(a)
    PROVE  CaseInv'
<1> USE DEF CaseInv
<1>1. /\ durable
      /\ loaded' = [loaded EXCEPT ![a] = Nothing]
      /\ requests' = [requests EXCEPT ![a] = [q \in ReqId |-> Nothing]]
      /\ contested' = contested \cup Dropped(a)
      /\ UNCHANGED <<durable, stored, issued>>
  BY DEF EndProcess
<1>2. CaseTypeInv'
  <2>1. contested' \subseteq CaseId
    BY <1>1 DEF Dropped, CaseTypeInv, CaseType
  <2> QED
    BY <1>1, <2>1 DEF CaseTypeInv
<1>3. Cases' \subseteq Cases
  BY <1>1 DEF Cases, CaseTypeInv
<1>4. /\ \A m \in Cases' : Fits(m) /\ Numbered(m)'
      /\ \A m, n \in Cases' : Agree(m, n)
  BY <1>1, <1>3 DEF Numbered
<1>5. OneObject' /\ OnceEach' /\ Registered'
  BY <1>1 DEF OneObject, OnceEach, Registered, CaseTypeInv
<1>6. Uncontested'
  <2> SUFFICES ASSUME NEW d \in CaseId \ contested'
               PROVE  OneHolderOf(d)' /\ (IssuedFor(d)' => SettledAt(d)')
    BY DEF Uncontested
  <2>1. d \notin contested /\ OneHolderOf(d) /\ (IssuedFor(d) => SettledAt(d))
    BY <1>1 DEF Uncontested
  <2>2. \A b \in Actor \ {a} : Holds(b, d)' <=> Holds(b, d)
    BY <1>1 DEF Holds, CaseTypeInv
  <2>3. ~Holds(a, d)'
    BY <1>1 DEF Holds, CaseTypeInv
  <2>4. Holds(a, d) => loaded[a] = Read(d)
    BY <1>1 DEF Dropped, Holds
  <2>5. StoredSettled(d)' = StoredSettled(d)
    BY <1>1 DEF StoredSettled
  <2>6. ASSUME SettledAt(d) PROVE SettledAt(d)'
    <3>1. CASE \E b \in Actor \ {a} : Holds(b, d) /\ loaded[b].state = "SETTLED"
      BY <3>1, <2>2, <1>1 DEF SettledAt, CaseTypeInv
    <3>2. CASE Holds(a, d) /\ loaded[a].state = "SETTLED"
      <4>1. StoredSettled(d)
        BY <3>2, <2>4, ReadIsStored
      <4>2. \A b \in Actor : ~Holds(b, d)'
        BY <3>2, <2>1, <2>2, <2>3, <1>1 DEF OneHolderOf
      <4> QED
        BY <4>1, <4>2, <2>5, <1>1 DEF SettledAt
    <3>3. CASE (\A b \in Actor : ~Holds(b, d)) /\ StoredSettled(d)
      BY <3>3, <2>2, <2>3, <2>5, <1>1 DEF SettledAt
    <3> QED
      BY <2>6, <3>1, <3>2, <3>3, <1>1 DEF SettledAt
  <2> QED
    BY <2>1, <2>2, <2>3, <2>6, <1>1 DEF OneHolderOf, IssuedFor
<1> QED
  BY <1>2, <1>4, <1>5, <1>6 DEF Fits, Agree, Tallied, Said, Heard
-----------------------------------------------------------------------------
(* A caller changes the case it works on.                                  *)

LEMMA ChangeMoves ==
    ASSUME CaseInv, NEW a \in Actor, loaded[a] # Nothing,
           NEW k \in CaseType, k # Nothing, k.id = loaded[a].id, Change(a, k), UNCHANGED durable
    PROVE  /\ stored' \in [CaseId -> CaseType \cup {Nothing}]
           /\ \A c \in CaseId : stored'[c] # Nothing => stored'[c].id = c
           /\ loaded' \in [Actor -> CaseType \cup {Nothing}]
           /\ Cases' \subseteq Cases \cup {k}
           /\ OneObject'
           /\ \A b \in Actor, c \in CaseId : Holds(b, c)' <=> Holds(b, c)
           /\ \A b \in Actor : \/ loaded'[b] = loaded[b]
                               \/ loaded'[b] = k /\ Holds(b, k.id)
           /\ loaded'[a] = k
           /\ \A c \in CaseId : c # k.id => stored'[c] = stored[c]
           /\ ~durable => stored'[k.id] = k
           /\ durable => stored' = stored /\ \A b \in Actor \ {a} : loaded'[b] = loaded[b]
<1>1. loaded[a] \in CaseType /\ k.id \in CaseId
  BY DEF CaseInv, CaseTypeInv, CaseType
<1>2. CASE durable
  <2>1. loaded' = [loaded EXCEPT ![a] = k] /\ stored' = stored
    BY <1>2 DEF Change
  <2> QED
    BY <1>1, <1>2, <2>1 DEF CaseInv, CaseTypeInv, Cases, OneObject, Holds
<1>3. CASE ~durable
  <2>1. /\ stored' = [stored EXCEPT ![k.id] = k]
        /\ loaded' = [b \in Actor |-> IF loaded[b] # Nothing /\ loaded[b].id = k.id
                                      THEN k ELSE loaded[b]]
    BY <1>3 DEF Change
  <2>2. \A b \in Actor : loaded[b] # Nothing => loaded[b].id \in CaseId /\ loaded[b] = stored[loaded[b].id]
    BY <1>3 DEF CaseInv, CaseTypeInv, CaseType, OneObject
  <2>3. /\ stored' \in [CaseId -> CaseType \cup {Nothing}]
        /\ \A c \in CaseId : stored'[c] # Nothing => stored'[c].id = c
        /\ \A c \in CaseId : c # k.id => stored'[c] = stored[c]
        /\ stored'[k.id] = k
    BY <1>1, <2>1 DEF CaseInv, CaseTypeInv
  <2>4. loaded' \in [Actor -> CaseType \cup {Nothing}] /\ loaded'[a] = k
    BY <1>1, <2>1 DEF CaseInv, CaseTypeInv
  <2>5. Cases' \subseteq Cases \cup {k}
    BY <2>1, <1>1 DEF CaseInv, CaseTypeInv, Cases
  <2>6. OneObject'
    BY <2>1, <2>2, <2>3 DEF OneObject
  <2>7. \A b \in Actor, c \in CaseId : Holds(b, c)' <=> Holds(b, c)
    BY <2>1 DEF Holds
  <2>8. \A b \in Actor : loaded'[b] = loaded[b] \/ (loaded'[b] = k /\ Holds(b, k.id))
    BY <2>1 DEF Holds
  <2> QED
    BY <1>3, <2>3, <2>4, <2>5, <2>6, <2>7, <2>8
<1> QED
  BY <1>2, <1>3

\* A change of a case that is not settled, in which no id is issued.
LEMMA ChangeIsSafe ==
    ASSUME CaseInv, NEW a \in Actor, loaded[a] # Nothing, loaded[a].state # "SETTLED",
           NEW k \in CaseType, k # Nothing, k.id = loaded[a].id, k.sid = Nothing, Fits(k),
           Change(a, k), UNCHANGED <<durable, requests, issued, contested>>
    PROVE  CaseInv'
<1> USE DEF CaseInv
<1>1. loaded[a] \in CaseType /\ k.id \in CaseId
  BY DEF CaseTypeInv, CaseType
<1>2. CaseTypeInv'
  BY ChangeMoves DEF CaseTypeInv
<1>3. Cases' \subseteq Cases \cup {k} /\ OneObject'
  BY ChangeMoves
<1>4. /\ \A m \in Cases' : Fits(m) /\ Numbered(m)'
      /\ \A m, n \in Cases' : Agree(m, n)
  BY <1>2, <1>3, NewAmongCases
<1>5. OnceEach' /\ Registered'
  BY DEF OnceEach, Registered
<1>6. Uncontested'
  <2> SUFFICES ASSUME NEW d \in CaseId \ contested
               PROVE  OneHolderOf(d)' /\ (IssuedFor(d) => SettledAt(d)')
    BY DEF Uncontested, IssuedFor
  <2>1. OneHolderOf(d) /\ (IssuedFor(d) => SettledAt(d))
    BY DEF Uncontested
  <2>2. \A b \in Actor : Holds(b, d)' <=> Holds(b, d)
    BY ChangeMoves
  <2>3. OneHolderOf(d)'
    BY <2>1, <2>2 DEF OneHolderOf
  <2>4. SettledAt(d) => d # k.id
    <3>1. CASE durable
      BY <3>1, <2>1 DEF SettledAt, OneHolderOf, Holds
    <3>2. CASE ~durable
      BY <3>2 DEF SettledAt, StoredSettled, OneObject
    <3> QED
      BY <3>1, <3>2
  <2>5. SettledAt(d) => SettledAt(d)'
    <3> HAVE SettledAt(d)
    <3>1. stored'[d] = stored[d]
      BY <2>4, ChangeMoves
    <3>2. \A b \in Actor : Holds(b, d) => loaded'[b] = loaded[b]
      BY <2>4, ChangeMoves DEF Holds
    <3> QED
      BY <2>2, <3>1, <3>2 DEF SettledAt, StoredSettled
  <2> QED
    BY <2>1, <2>3, <2>5
<1> QED
  BY <1>2, <1>3, <1>4, <1>5, <1>6 DEF Fits, Agree, Tallied, Said, Heard

LEMMA LoadedFits ==
    ASSUME CaseInv, NEW a \in Actor, loaded[a] # Nothing
    PROVE  loaded[a] \in CaseType /\ loaded[a] \in Cases /\ Fits(loaded[a]) /\ Numbered(loaded[a])
BY DEF CaseInv, CaseTypeInv, Cases

LEMMA IngestIsSafe ==
    ASSUME CaseInv, NEW a \in Actor, NEW src \in Source, NEW o \in Signal, Ingest(a, src, o)
    PROVE  CaseInv'
<1> DEFINE l == loaded[a]
           u == Upsert(l, src, o)
           k == CASE Cardinality(Tallied(u)) = 1 /\ u.state = "OPEN" ->
                       [u EXCEPT !.state = "RESOLVED_PROVISIONAL"]
                  [] Cardinality(Tallied(u)) > 1 /\ u.state \in {"OPEN", "RESOLVED_PROVISIONAL"} ->
                       [u EXCEPT !.state = "IN_RECONCILIATION"]
                  [] OTHER -> u
<1>1. l # Nothing /\ l.state \notin {"FINAL", "SETTLED"} /\ Change(a, k)
      /\ UNCHANGED <<durable, requests, issued, contested>>
  BY DEF Ingest
<1>2. l \in CaseType /\ Fits(l)
  BY <1>1, LoadedFits
<1>3. o \in Outcome \cup {Unusable}
  BY SignalAssumption DEF Signal
<1>4. u \in CaseType /\ u.id = l.id /\ u.state = l.state /\ u.final = l.final /\ u.sid = l.sid
  <2> HIDE DEF l, k
  <2> QED BY <1>2, <1>3, UpsertChanges, Zenon
<1>5. Cardinality(Tallied(u)) \in Nat
  BY <1>4, FiniteTally
<1>6. u.state = "OPEN" => Tallied(u) = {} \/ Cardinality(Tallied(u)) = 1
  BY <1>2, <1>3, <1>4, FirstSignal DEF Fits
<1> HIDE DEF u
<1>7. /\ k \in CaseType /\ k.id = u.id /\ k.final = u.final /\ k.sid = u.sid
      /\ k.says = u.says
      /\ k.state \in {"OPEN", "RESOLVED_PROVISIONAL", "IN_RECONCILIATION"}
      /\ k.state = "OPEN" => u.state = "OPEN" /\ Cardinality(Tallied(u)) # 1
      /\ k.state = "RESOLVED_PROVISIONAL" => Cardinality(Tallied(u)) <= 1
  BY <1>1, <1>4, <1>5 DEF CaseType
<1> HIDE DEF k
<1>8. Tallied(k) = Tallied(u)
  BY <1>7 DEF Tallied, Said, Heard
<1>9. Fits(k) /\ k.sid = Nothing
  BY <1>1, <1>2, <1>4, <1>6, <1>7, <1>8 DEF Fits
<1> QED
  BY <1>1, <1>4, <1>7, <1>9, ChangeIsSafe, SignalAssumption

LEMMA ResolveIsSafe ==
    ASSUME CaseInv, NEW a \in Actor, NEW o \in Outcome, Resolve(a, o)
    PROVE  CaseInv'
<1> DEFINE l == loaded[a]
           k == [l EXCEPT !.final = o, !.state = "FINAL"]
<1>1. l # Nothing /\ l.state \in {"RESOLVED_PROVISIONAL", "IN_RECONCILIATION"} /\ Change(a, k)
      /\ UNCHANGED <<durable, requests, issued, contested>>
  BY DEF Resolve
<1>2. l \in CaseType /\ Fits(l)
  BY <1>1, LoadedFits
<1>3. k \in CaseType /\ k.id = l.id /\ k.state = "FINAL" /\ k.final = o /\ k.sid = l.sid
  BY <1>2 DEF CaseType
<1>4. Fits(k) /\ k.sid = Nothing
  BY <1>1, <1>2, <1>3, SignalAssumption DEF Fits
<1> HIDE DEF k
<1> QED
  BY <1>1, <1>3, <1>4, ChangeIsSafe, SignalAssumption

\* A submission of a settled case changes nothing but the registry; one of a
\* final case is given the next id.
LEMMA SubmitIsSafe ==
    ASSUME CaseInv, NEW a \in Actor, NEW q \in ReqId, Submit(a, q)
    PROVE  CaseInv'
<1> DEFINE l == loaded[a]
<1> USE DEF CaseInv
<1>1. PICK k, ids : /\ l # Nothing /\ Attempt(l, k, ids) /\ Change(a, k)
                    /\ issued' = ids /\ requests' = [requests EXCEPT ![a][q] = k.sid]
                    /\ UNCHANGED <<durable, contested>>
  BY DEF Submit
<1>2. l \in CaseType /\ l \in Cases /\ Fits(l) /\ Numbered(l) /\ l.id \in CaseId
  BY <1>1, LoadedFits DEF CaseType
<1>3. CASE l.state = "SETTLED"
  <2>1. k = l /\ ids = issued
    BY <1>1, <1>3 DEF Attempt
  <2>2. k # Nothing /\ k \in CaseType /\ k.id = l.id
    BY <1>1, <1>2, <2>1
  <2>3. k.sid \in Nat
    BY <2>1, <1>2, <1>3 DEF Fits, CaseType
  <2>4. CaseTypeInv'
    BY <1>1, <2>1, <2>2, <2>3, ChangeMoves DEF CaseTypeInv
  <2>5. Cases' \subseteq Cases /\ OneObject'
    BY <1>1, <1>2, <2>1, <2>2, ChangeMoves
  <2>6. /\ \A m \in Cases' : Fits(m) /\ Numbered(m)'
        /\ \A m, n \in Cases' : Agree(m, n)
    BY <1>1, <2>1, <2>5 DEF Numbered
  <2>7. OnceEach' /\ Registered'
    BY <1>1, <1>2, <2>1, <2>3 DEF OnceEach, Registered, Numbered, CaseTypeInv
  <2>8. loaded' = loaded /\ stored' = stored
    <3>1. CASE durable
      BY <3>1, <1>1, <2>1 DEF Change, CaseTypeInv
    <3>2. CASE ~durable
      <4>1. \A b \in Actor : Holds(b, l.id) => loaded[b] = l
        BY <3>2, <1>1 DEF OneObject, Holds
      <4>2. stored[l.id] = l
        BY <3>2, <1>1 DEF OneObject
      <4> QED
        BY <3>2, <4>1, <4>2, <1>1, <1>2, <2>1 DEF Change, CaseTypeInv, Holds
    <3> QED
      BY <3>1, <3>2
  <2>9. Uncontested'
    BY <2>8, <1>1, <2>1 DEF Uncontested, OneHolderOf, IssuedFor, SettledAt, StoredSettled, Holds
  <2> QED
    BY <2>4, <2>5, <2>6, <2>7, <2>9 DEF Fits, Agree, Tallied, Said, Heard
<1>4. CASE l.state = "FINAL"
  <2> DEFINE n == Len(issued) + 1
  <2>1. ids = Append(issued, l.id) /\ k = [l EXCEPT !.state = "SETTLED", !.sid = n]
    <3>1. ids = Append(issued, l.id) /\ k = [l EXCEPT !.state = "SETTLED", !.sid = Len(ids)]
      BY <1>1, <1>4, Zenon DEF Attempt
    <3>2. Len(Append(issued, l.id)) = n
      BY <1>2 DEF CaseTypeInv
    <3> QED
      BY <3>1, <3>2
  <2>2. /\ ids \in Seq(CaseId) /\ Len(ids) = n /\ n \in Nat /\ ids[n] = l.id
        /\ \A i \in 1..Len(issued) : ids[i] = issued[i]
    BY <1>2, <2>1 DEF CaseTypeInv
  <2>3. /\ k \in CaseType /\ k.id = l.id /\ k.state = "SETTLED" /\ k.sid = n
        /\ k.final = l.final /\ k.says = l.says
    BY <1>2, <2>1, <2>2 DEF CaseType
  <2>4. k # Nothing /\ n # Nothing
    BY <2>2, <2>3, SignalAssumption
  <2>5. Fits(k)
    BY <1>2, <1>4, <2>3, <2>4 DEF Fits
  <2> HIDE DEF n
  <2>6. CaseTypeInv'
    BY <1>1, <2>2, <2>3, <2>4, ChangeMoves DEF CaseTypeInv
  <2>7. Cases' \subseteq Cases \cup {k} /\ OneObject'
    BY <1>1, <2>3, <2>4, ChangeMoves
  <2>8. \A m \in Cases : m.sid # n
    <3> SUFFICES ASSUME NEW m \in Cases, m.sid = n PROVE FALSE
      OBVIOUS
    <3>1. Numbered(m)
      OBVIOUS
    <3> QED
      BY <3>1, <2>2, <2>4 DEF Numbered, n, CaseTypeInv
  <2>9. \A m \in Cases' : Fits(m) /\ Numbered(m)'
    <3>1. Numbered(k)'
      BY <2>2, <2>3, <1>1 DEF Numbered, n
    <3>2. \A m \in Cases : Numbered(m)'
      BY <2>2, <1>1 DEF Numbered, n, CaseTypeInv
    <3> QED
      BY <2>5, <2>7, <3>1, <3>2
  <2>10. \A i, j \in Cases' : Agree(i, j)
    BY <2>3, <2>7, <2>8 DEF Agree
  <2>11. l.id \notin contested => ~IssuedFor(l.id)
    <3> SUFFICES ASSUME l.id \notin contested, IssuedFor(l.id) PROVE FALSE
      OBVIOUS
    <3>1. OneHolderOf(l.id) /\ SettledAt(l.id)
      BY <1>2 DEF Uncontested
    <3>2. CASE durable
      BY <3>1, <3>2, <1>1, <1>4 DEF SettledAt, OneHolderOf, Holds
    <3>3. CASE ~durable
      BY <3>1, <3>3, <1>1, <1>4 DEF SettledAt, StoredSettled, OneObject
    <3> QED
      BY <3>2, <3>3
  <2>12. OnceEach'
    <3>1. SUFFICES ASSUME NEW i \in 1..n, NEW j \in 1..n, i < j, ids[i] = ids[j]
                   PROVE  ids[i] \in contested
      BY <1>1, <2>2 DEF OnceEach
    <3>2. i \in 1..Len(issued) /\ Len(issued) \in Nat
      BY <3>1 DEF n, CaseTypeInv
    <3>3. CASE j = n
      BY <3>1, <3>2, <3>3, <2>2, <2>11 DEF IssuedFor
    <3>4. CASE j # n
      BY <3>1, <3>2, <3>4, <2>2 DEF OnceEach, n
    <3> QED
      BY <3>3, <3>4
  <2>13. Uncontested'
    <3> SUFFICES ASSUME NEW d \in CaseId \ contested
                 PROVE  OneHolderOf(d)' /\ (IssuedFor(d)' => SettledAt(d)')
      BY <1>1 DEF Uncontested
    <3>1. OneHolderOf(d) /\ (IssuedFor(d) => SettledAt(d))
      BY DEF Uncontested
    <3>2. \A b \in Actor : Holds(b, d)' <=> Holds(b, d)
      BY <1>1, <2>3, <2>4, ChangeMoves
    <3>3. OneHolderOf(d)'
      BY <3>1, <3>2, <1>1 DEF OneHolderOf
    <3>4. CASE d = l.id
      <4>1. loaded'[a] = k /\ (~durable => stored'[d] = k) /\ Holds(a, d)'
        BY <3>4, <1>1, <2>3, <2>4, <3>2, ChangeMoves DEF Holds
      <4> QED
        BY <4>1, <3>3, <2>3, <2>4, <1>1 DEF SettledAt, StoredSettled
    <3>5. CASE d # l.id
      <4>1. IssuedFor(d)' => IssuedFor(d)
        BY <3>5, <1>1, <2>2 DEF IssuedFor, n, CaseTypeInv
      <4>2. stored'[d] = stored[d]
        BY <3>5, <1>1, <2>3, <2>4, ChangeMoves
      <4>3. \A b \in Actor : Holds(b, d) => loaded'[b] = loaded[b]
        BY <3>5, <1>1, <2>3, <2>4, ChangeMoves DEF Holds
      <4>4. SettledAt(d) => SettledAt(d)'
        BY <3>2, <4>2, <4>3, <1>1 DEF SettledAt, StoredSettled
      <4> QED
        BY <3>1, <3>3, <4>1, <4>4
    <3> QED
      BY <3>4, <3>5
  <2>14. Registered'
    BY <1>1, <2>2, <2>3 DEF Registered, CaseTypeInv, n
  <2> QED
    BY <2>6, <2>7, <2>9, <2>10, <2>12, <2>13, <2>14 DEF Fits, Agree, Tallied, Said, Heard
<1> QED
  BY <1>1, <1>3, <1>4 DEF Attempt

-----------------------------------------------------------------------------
LEMMA CaseInitIsSafe == CaseInit => CaseInv
<1> SUFFICES ASSUME CaseInit PROVE CaseInv
  OBVIOUS
<1> USE DEF CaseInit
<1>1. CaseTypeInv /\ Cases = {}
  BY DEF CaseTypeInv, Cases
<1>2. OneObject /\ Uncontested /\ OnceEach /\ Registered
  BY DEF OneObject, Uncontested, OneHolderOf, Holds, IssuedFor, OnceEach, Registered
<1> QED
  BY <1>1, <1>2 DEF CaseInv

LEMMA CaseNextIsSafe == CaseInv /\ [CaseNext]_caseVars => CaseInv'
<1> SUFFICES ASSUME CaseInv, [CaseNext]_caseVars PROVE CaseInv'
  OBVIOUS
<1>1. ASSUME NEW a \in Actor, NEW c \in CaseId, Load(a, c) PROVE CaseInv'
  BY <1>1, LoadIsSafe
<1>2. ASSUME NEW a \in Actor, NEW src \in Source, NEW o \in Signal, Ingest(a, src, o) PROVE CaseInv'
  BY <1>2, IngestIsSafe
<1>3. ASSUME NEW a \in Actor, NEW o \in Outcome, Resolve(a, o) PROVE CaseInv'
  BY <1>3, ResolveIsSafe
<1>4. ASSUME NEW a \in Actor, NEW q \in ReqId, Submit(a, q) PROVE CaseInv'
  BY <1>4, SubmitIsSafe
<1>5. ASSUME NEW a \in Actor, AutoFinalize(a) PROVE CaseInv'
  <2>1. loaded[a] \in CaseType
    BY <1>5, LoadedFits DEF AutoFinalize
  <2> QED
    BY <1>5, <2>1, DecisiveIsAlone, ResolveIsSafe DEF AutoFinalize
<1>6. ASSUME NEW a \in Actor, Save(a) \/ EndProcess(a) PROVE CaseInv'
  BY <1>6, SaveIsSafe, EndProcessIsSafe
<1>7. CASE UNCHANGED caseVars
  <2>1. CaseTypeInv' /\ Cases' = Cases /\ OneObject' /\ OnceEach' /\ Registered'
    BY <1>7 DEF caseVars, CaseInv, CaseTypeInv, Cases, OneObject, OnceEach, Registered
  <2>2. \A k \in Cases : Fits(k)' /\ Numbered(k)'
    BY <1>7 DEF caseVars, CaseInv, Fits, Numbered, Tallied, Said, Heard
  <2>3. \A j, k \in Cases : Agree(j, k)'
    BY DEF CaseInv, Agree
  <2>4. Uncontested'
    BY <1>7 DEF caseVars, CaseInv, Uncontested, OneHolderOf, Holds, IssuedFor, SettledAt, StoredSettled
  <2> QED
    BY <2>1, <2>2, <2>3, <2>4 DEF CaseInv
<1> QED
  BY <1>1, <1>2, <1>3, <1>4, <1>5, <1>6, <1>7 DEF CaseNext

LEMMA CaseInvariance == CaseSpec => []CaseInv
BY CaseInitIsSafe, CaseNextIsSafe, PTL DEF CaseSpec

-----------------------------------------------------------------------------
\* In every copy of a case the state agrees with its signals, its outcome and
\* its id (the transitions of reconciliation.py and gate.py).
THEOREM CaseStatesMatch == CaseSpec => []StateMatchesSignals
<1>1. CaseInv => StateMatchesSignals
  BY DEF CaseInv, StateMatchesSignals, Fits
<1> QED
  BY <1>1, CaseInvariance, PTL

\* A settlement id is one case's and goes with one outcome, in every process
\* and in the store, and what a registry answers is the id of the case it was
\* issued for, unless that is contested.
THEOREM IdsFixOutcomes == CaseSpec => []IdFixesOutcome
<1>1. CaseInv => IdFixesOutcome
  <2> SUFFICES ASSUME CaseInv PROVE IdFixesOutcome
    OBVIOUS
  <2>1. /\ \A j, k \in Cases : j.sid # Nothing /\ j.sid = k.sid => j.id = k.id /\ j.final = k.final
        /\ \A k \in Cases : k.sid # Nothing => issued[k.sid] = k.id
    BY DEF CaseInv, Numbered, Agree
  <2>2. ASSUME NEW a \in Actor, NEW q \in ReqId, requests[a][q] # Nothing
        PROVE  /\ requests[a][q] \in DOMAIN issued
               /\ \/ issued[requests[a][q]] \in contested
                  \/ \E k \in Cases : k.id = issued[requests[a][q]] /\ k.sid = requests[a][q]
    <3> DEFINE n == requests[a][q]
               c == issued[n]
    <3>1. n \in 1..Len(issued) /\ 1..Len(issued) = DOMAIN issued /\ c \in CaseId
      BY <2>2 DEF CaseInv, Registered, CaseTypeInv
    <3> HIDE DEF n
    <3>2. ASSUME c \notin contested
          PROVE  \E k \in Cases : k.id = c /\ k.sid = n
      <4>1. IssuedFor(c) /\ SettledAt(c)
        BY <3>1, <3>2 DEF IssuedFor, CaseInv, Uncontested
      <4>2. PICK k \in Cases : k.id = c /\ k.state = "SETTLED"
        BY <4>1, <3>1 DEF SettledAt, Holds, StoredSettled, Cases, CaseInv, CaseTypeInv
      <4>3. k.sid \in 1..Len(issued) /\ issued[k.sid] = c
        BY <4>2 DEF CaseInv, Fits, Numbered
      <4>4. k.sid = n
        BY <3>1, <3>2, <4>3 DEF CaseInv, OnceEach
      <4> QED
        BY <4>2, <4>4
    <3> QED
      BY <3>1, <3>2 DEF n
  <2> QED
    BY <2>1, <2>2 DEF IdFixesOutcome
<1> QED
  BY <1>1, CaseInvariance, PTL

\* A case is settled twice only if it was held twice or let go of unsaved.
THEOREM OnlyContestedTwice == CaseSpec => []OnlyContestedSettlesTwice
<1>1. CaseInv => OnlyContestedSettlesTwice
  BY DEF CaseInv, CaseTypeInv, OnlyContestedSettlesTwice, OnceEach
<1> QED
  BY <1>1, CaseInvariance, PTL

\* What would be finalized by itself would be so after a round trip through
\* the store too: a decisive majority leaves no tie for the places to break.
THEOREM FinalizationIsStable == CaseSpec => []FinalizesAlike
<1>1. CaseInv => FinalizesAlike
  <2> SUFFICES ASSUME CaseInv, NEW k \in Cases, Decisive(k) PROVE Winner(k) = Winner(Reload(k))
    BY DEF FinalizesAlike
  <2>1. k \in CaseType
    BY DEF CaseInv, CaseTypeInv, Cases
  <2> QED
    BY <2>1, DecisiveSurvives
<1> QED
  BY <1>1, CaseInvariance, PTL
===============================================================================
