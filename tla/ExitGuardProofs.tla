---------------------------- MODULE ExitGuardProofs ----------------------------
(***************************************************************************)
(* The exit guards for any number of callers, exits and symbols and any    *)
(* bound on orders: the runtime never sells an exit twice, the patch only  *)
(* one whose calls overlapped, failed or went without an answer; a settled *)
(* exit is skipped; and what the runtime leaves PENDING has its reason.    *)
(***************************************************************************)
EXTENDS ExitGuard, TLAPS

\* The steps of the guard in use.
Steps == IF guard = "runtime" THEN RuntimeSteps ELSE PatchSteps

\* What a caller at work is.
Work == [step : Steps, exit : Exit, late : BOOLEAN, blind : BOOLEAN]

\* Caller c is at work on e, and at one of the given steps.
On(c, e)    == caller[c] # Idle /\ caller[c].exit = e
At(c, e, S) == On(c, e) /\ caller[c].step \in S

\* The steps of a caller of the runtime whose insert won.
Owning == {"order", "commit", "clear", "quarantine", "flag"}

-----------------------------------------------------------------------------
(* The inductive invariant.                                                *)

\* The runtime: an exit that has a row has one owner at most, which orders
\* once, and one that has none was not sold.
RuntimeExit(e) ==
    /\ sold[e] <= 1
    /\ status[e] = "none" => sold[e] = 0
    /\ \A c \in Caller : At(c, e, Owning) => status[e] # "none"
    /\ \A c, d \in Caller : At(c, e, Owning) /\ At(d, e, Owning) => c = d
    /\ \A c \in Caller : At(c, e, {"order"}) => sold[e] = 0

\* The runtime: a row is PENDING while its owner can still mark it.
PendingExit(e) ==
    status[e] = "PENDING" /\ e \notin abandoned
        => \E c \in Caller : At(c, e, {"order", "commit", "quarantine"})

\* The patch, where nothing overlapped or failed: one caller at a time, and an
\* exit that was sold is settled or about to be.
PatchExit(e) ==
    /\ sold[e] <= 1
    /\ \A c, d \in Caller : On(c, e) /\ On(d, e) => c = d
    /\ \A c \in Caller : At(c, e, {"check", "order", "settle"}) => status[e] # "none"
    /\ \A c \in Caller : At(c, e, {"order"}) => sold[e] = 0
    /\ sold[e] = 1 => status[e] = "COMMITTED" \/ \E c \in Caller : At(c, e, {"settle"})

\* A call that began after the exit was settled has not got past the guard.
LateCall(c) ==
    caller[c] # Idle /\ caller[c].late =>
        IF guard = "runtime"
        THEN status[caller[c].exit] # "none" /\ caller[c].step = "select"
        ELSE /\ status[caller[c].exit] = "COMMITTED"
             /\ caller[c].step \in {"ignore", "check"} \/ caller[c].blind

RuntimeInv == guard = "runtime" => \A e \in Exit : RuntimeExit(e)
PendingInv == guard = "runtime" => \A e \in Exit : PendingExit(e)
PatchInv   == guard = "patch" => \A e \in Exit \ Gaps : PatchExit(e)
LateInv    == \A c \in Caller : LateCall(c)

IInv == TypeOK /\ RuntimeInv /\ PendingInv /\ PatchInv /\ LateInv

-----------------------------------------------------------------------------
(* What a step does to the callers.                                        *)

LEMMA AtWork ==
    ASSUME TypeOK, NEW c \in Caller, caller[c] # Idle
    PROVE  caller[c] \in Work
  BY DEF TypeOK, Work, Steps

LEMMA WorkIsNotIdle ==
    ASSUME NEW x \in Work
    PROVE  x # Idle
  BY DEF Work, Steps, RuntimeSteps, PatchSteps, Idle

\* A caller goes on to another step; nobody else moves.
LEMMA Went ==
    ASSUME TypeOK, NEW c \in Caller, caller[c] # Idle, NEW s \in Steps, Go(c, s)
    PROVE  /\ caller' \in [Caller -> {Idle} \cup Work]
           /\ caller'[c] # Idle
           /\ caller'[c].step = s
           /\ caller'[c].exit = caller[c].exit
           /\ caller'[c].late = caller[c].late
           /\ caller'[c].blind = caller[c].blind
           /\ \A d \in Caller : d # c => caller'[d] = caller[d]
  <1>1. caller \in [Caller -> {Idle} \cup Work]
    BY DEF TypeOK, Work, Steps
  <1>2. caller[c] \in Work
    BY AtWork
  <1> DEFINE x == [caller[c] EXCEPT !.step = s]
  <1>3. /\ x \in Work
        /\ x.step = s /\ x.exit = caller[c].exit
        /\ x.late = caller[c].late /\ x.blind = caller[c].blind
    BY <1>2 DEF Work
  <1>4. caller' = [caller EXCEPT ![c] = x]
    BY DEF Go
  <1>5. x # Idle
    BY <1>3, WorkIsNotIdle
  <1> HIDE DEF x
  <1> QED
    BY <1>1, <1>3, <1>4, <1>5

\* A call ends; nobody else moves.
LEMMA Returned ==
    ASSUME TypeOK, NEW c \in Caller, Return(c)
    PROVE  /\ caller' \in [Caller -> {Idle} \cup Work]
           /\ caller'[c] = Idle
           /\ \A d \in Caller : d # c => caller'[d] = caller[d]
  BY DEF TypeOK, Return, Work, Steps

\* A caller goes on to the order though the guard failed it.
LEMMA WentBlind ==
    ASSUME TypeOK, NEW c \in Caller, caller[c] # Idle, guard = "patch",
           caller' = [caller EXCEPT ![c].step = "order", ![c].blind = TRUE]
    PROVE  /\ caller' \in [Caller -> {Idle} \cup Work]
           /\ caller'[c] # Idle
           /\ caller'[c].step = "order"
           /\ caller'[c].exit = caller[c].exit
           /\ caller'[c].late = caller[c].late
           /\ caller'[c].blind = TRUE
           /\ \A d \in Caller : d # c => caller'[d] = caller[d]
  <1>1. caller \in [Caller -> {Idle} \cup Work]
    BY DEF TypeOK, Work, Steps
  <1>2. caller[c] \in Work
    BY AtWork
  <1> DEFINE x == [[caller[c] EXCEPT !.step = "order"] EXCEPT !.blind = TRUE]
  <1>3. /\ x \in Work
        /\ x.step = "order" /\ x.exit = caller[c].exit
        /\ x.late = caller[c].late /\ x.blind = TRUE
    BY <1>2 DEF Work, Steps, PatchSteps
  <1>4. caller' = [caller EXCEPT ![c] = x]
    BY <1>1
  <1>5. x # Idle
    BY <1>3, WorkIsNotIdle
  <1> HIDE DEF x
  <1> QED
    BY <1>1, <1>3, <1>4, <1>5

-----------------------------------------------------------------------------
(* What every step keeps, by how it moves its caller.                      *)

LEMMA MarkedTyped ==
    ASSUME TypeOK, NEW e \in Exit, NEW new \in {"PENDING", "COMMITTED", "QUARANTINED"}
    PROVE  /\ Marked(e, new) \in [Exit -> {"none", "PENDING", "COMMITTED", "QUARANTINED"}]
           /\ Marked(e, new)[e] = IF status[e] = "none" THEN "none" ELSE new
           /\ \A f \in Exit : f # e => Marked(e, new)[f] = status[f]
  BY DEF TypeOK, Marked

\* A call that ends and changes nothing keeps the invariant, if it was not the
\* one to settle its exit or the exit counts as unguarded or abandoned from now
\* on; for the runtime only the latter will do.
LEMMA EndingIsSafe ==
    ASSUME IInv, NEW c \in Caller, caller[c] # Idle, Return(c),
           UNCHANGED <<guard, status, sold>>, phantom' \subseteq Symbol,
           UNCHANGED overlapped,
           unguarded' \in {unguarded, unguarded \cup {caller[c].exit}},
           abandoned' \in {abandoned, abandoned \cup {caller[c].exit}},
           caller[c].step = "settle" => caller[c].exit \in unguarded' \cup abandoned',
           guard = "runtime" /\ caller[c].step \in {"order", "commit", "quarantine"}
               => caller[c].exit \in abandoned'
    PROVE  IInv'
  <1> DEFINE x == caller[c].exit
  <1>1. /\ caller' \in [Caller -> {Idle} \cup Work]
        /\ caller'[c] = Idle
        /\ \A d \in Caller : d # c => caller'[d] = caller[d]
    BY Returned DEF IInv
  <1>2. caller[c] \in Work
    BY AtWork DEF IInv
  <1>3. x \in Exit /\ caller[c].step \in Steps
    BY <1>2 DEF Work
  <1>4. TypeOK'
    BY <1>1, <1>3 DEF IInv, TypeOK, Work, Steps
  <1>5. RuntimeInv'
    BY <1>1 DEF IInv, RuntimeInv, RuntimeExit, At, On
  <1>6. PendingInv'
    <2> SUFFICES ASSUME guard = "runtime", NEW e \in Exit, status[e] = "PENDING",
                        e \notin abandoned'
                 PROVE  \E d \in Caller : At(d, e, {"order", "commit", "quarantine"})'
      BY DEF PendingInv, PendingExit
    <2>1. PICK d \in Caller : At(d, e, {"order", "commit", "quarantine"})
      BY DEF IInv, PendingInv, PendingExit
    <2>2. d # c
      BY <2>1 DEF At, On
    <2> QED
      BY <1>1, <2>1, <2>2 DEF At, On
  <1>7. PatchInv'
    <2> SUFFICES ASSUME guard = "patch", NEW e \in Exit, e \notin Gaps'
                 PROVE  PatchExit(e)'
      BY DEF PatchInv
    <2>1. PatchExit(e)
      BY DEF IInv, PatchInv, Gaps
    <2>2. sold[e] = 1 => status[e] = "COMMITTED" \/ \E d \in Caller : At(d, e, {"settle"})'
      <3>1. ASSUME NEW d \in Caller, At(d, e, {"settle"}) PROVE At(d, e, {"settle"})'
        BY <1>1, <3>1 DEF At, On, Gaps
      <3> QED
        BY <2>1, <3>1 DEF PatchExit
    <2> QED
      BY <1>1, <2>1, <2>2 DEF PatchExit, At, On
  <1>8. LateInv'
    BY <1>1 DEF IInv, LateInv, LateCall
  <1> QED
    BY <1>4, <1>5, <1>6, <1>7, <1>8 DEF IInv

-----------------------------------------------------------------------------
(* The invariant, action by action.                                        *)

LEMMA InitIsSafe == Init => IInv
  <1> SUFFICES ASSUME Init PROVE IInv
    OBVIOUS
  <1>1. TypeOK
    BY ExitAssumption DEF Init, TypeOK
  <1>2. \A c \in Caller : caller[c] = Idle
    BY DEF Init
  <1>3. \A e \in Exit : status[e] = "none" /\ sold[e] = 0
    BY DEF Init
  <1> QED
    BY <1>1, <1>2, <1>3
       DEF IInv, RuntimeInv, RuntimeExit, PendingInv, PendingExit, PatchInv, PatchExit,
           LateInv, LateCall, At, On

LEMMA CallIsSafe ==
    ASSUME IInv, NEW c \in Caller, NEW e \in Exit, Call(c, e)
    PROVE  IInv'
  <1> DEFINE x == [step |-> IF guard = "runtime" THEN "select" ELSE "ignore", exit |-> e,
                   late |-> status[e] = "COMMITTED", blind |-> FALSE]
  <1>1. /\ x \in Work /\ x.exit = e /\ x.blind = FALSE
        /\ x.step = IF guard = "runtime" THEN "select" ELSE "ignore"
        /\ x.late = (status[e] = "COMMITTED")
    BY DEF Work, Steps, RuntimeSteps, PatchSteps
  <1>2. caller \in [Caller -> {Idle} \cup Work]
    BY DEF IInv, TypeOK, Work, Steps
  <1>3. /\ caller' = [caller EXCEPT ![c] = x]
        /\ caller[c] = Idle
        /\ overlapped' = IF Working(e) = {} THEN overlapped ELSE overlapped \cup {e}
        /\ UNCHANGED <<guard, status, phantom, sold, unguarded, abandoned>>
    BY DEF Call
  <1> HIDE DEF x
  <1>4. /\ caller' \in [Caller -> {Idle} \cup Work]
        /\ caller'[c] = x
        /\ \A d \in Caller : d # c => caller'[d] = caller[d]
    BY <1>1, <1>2, <1>3
  <1>5. TypeOK'
    BY <1>3, <1>4 DEF IInv, TypeOK, Work, Steps
  <1>6. RuntimeInv'
    BY <1>1, <1>3, <1>4 DEF IInv, RuntimeInv, RuntimeExit, At, On, Owning
  <1>7. PendingInv'
    BY <1>3, <1>4 DEF IInv, PendingInv, PendingExit, At, On
  <1>8. PatchInv'
    <2> SUFFICES ASSUME guard = "patch", NEW f \in Exit, f \notin Gaps'
                 PROVE  PatchExit(f)'
      BY <1>3 DEF PatchInv
    <2>1. PatchExit(f)
      BY <1>3 DEF IInv, PatchInv, Gaps
    <2>2. \A d \in Caller : On(d, f)' => (d = c /\ f = e) \/ (d # c /\ On(d, f))
      BY <1>1, <1>4 DEF On
    <2>3. f = e => \A d \in Caller : ~On(d, f)
      BY <1>3 DEF On, Working, Gaps
    <2>4. \A d1, d2 \in Caller : On(d1, f)' /\ On(d2, f)' => d1 = d2
      BY <2>1, <2>2, <2>3 DEF PatchExit
    <2>5. sold[f] = 1 => status[f] = "COMMITTED" \/ \E d \in Caller : At(d, f, {"settle"})'
      BY <1>3, <1>4, <2>1 DEF PatchExit, At, On
    <2> QED
      BY <1>1, <1>3, <1>4, <2>1, <2>4, <2>5 DEF PatchExit, At, On
  <1>9. LateInv'
    BY <1>1, <1>3, <1>4 DEF IInv, TypeOK, LateInv, LateCall
  <1> QED
    BY <1>5, <1>6, <1>7, <1>8, <1>9 DEF IInv

LEMMA SelectIsSafe ==
    ASSUME IInv, NEW c \in Caller, Select(c)
    PROVE  IInv'
  <1>1. CASE status[caller[c].exit] # "none"
    BY <1>1, EndingIsSafe DEF Select, history, IInv, TypeOK
  <1>2. CASE status[caller[c].exit] = "none"
    <2>1. caller[c] \in Work /\ guard = "runtime"
      BY AtWork DEF IInv, TypeOK, Select, Work, Steps, PatchSteps
    <2>2. /\ caller' \in [Caller -> {Idle} \cup Work]
          /\ caller'[c].step = "insert" /\ caller'[c] # Idle
          /\ caller'[c].exit = caller[c].exit /\ caller'[c].late = caller[c].late
          /\ \A d \in Caller : d # c => caller'[d] = caller[d]
      BY <1>2, <2>1, Went DEF Select, IInv, Steps, RuntimeSteps
    <2>3. UNCHANGED <<guard, status, phantom, sold, overlapped, unguarded, abandoned>>
      BY DEF Select, history
    <2>4. TypeOK'
      BY <2>2, <2>3 DEF IInv, TypeOK, Work, Steps
    <2>5. RuntimeInv'
      BY <2>2, <2>3 DEF IInv, RuntimeInv, RuntimeExit, At, On, Owning
    <2>6. PendingInv'
      BY <1>2, <2>2, <2>3 DEF IInv, PendingInv, PendingExit, At, On
    <2>7. LateInv'
      BY <1>2, <2>1, <2>2, <2>3 DEF IInv, LateInv, LateCall, Select
    <2> QED
      BY <2>1, <2>3, <2>4, <2>5, <2>6, <2>7 DEF IInv, PatchInv, Gaps
  <1> QED
    BY <1>1, <1>2

LEMMA InsertIsSafe ==
    ASSUME IInv, NEW c \in Caller, Insert(c)
    PROVE  IInv'
  <1> DEFINE x == caller[c].exit
  <1>1. caller[c] \in Work /\ guard = "runtime"
    BY AtWork DEF IInv, TypeOK, Insert, Work, Steps, PatchSteps
  <1>2. CASE status[x] # "none"
    BY <1>2, EndingIsSafe DEF Insert, history, IInv, TypeOK
  <1>3. CASE status[x] = "none"
    <2>1. /\ caller' \in [Caller -> {Idle} \cup Work]
          /\ caller'[c].step = "order" /\ caller'[c] # Idle
          /\ caller'[c].exit = x /\ caller'[c].late = caller[c].late
          /\ \A d \in Caller : d # c => caller'[d] = caller[d]
      BY <1>1, <1>3, Went DEF Insert, IInv, Steps, RuntimeSteps
    <2>2. /\ status' = [status EXCEPT ![x] = "PENDING"]
          /\ UNCHANGED <<guard, phantom, sold, overlapped, unguarded, abandoned>>
          /\ caller[c] # Idle /\ caller[c].step = "insert"
      BY <1>3 DEF Insert, history
    <2>3. x \in Exit
      BY <1>1 DEF Work
    <2>4. TypeOK'
      BY <2>1, <2>2, <2>3 DEF IInv, TypeOK, Work, Steps
    <2>5. \A d \in Caller : ~At(d, x, Owning)
      BY <1>1, <1>3, <2>3 DEF IInv, RuntimeInv, RuntimeExit
    <2>6. /\ status'[x] = "PENDING"
          /\ \A e \in Exit : e # x => status'[e] = status[e]
      BY <2>2, <2>3 DEF IInv, TypeOK
    <2>7. RuntimeInv'
      BY <1>1, <1>3, <2>1, <2>2, <2>3, <2>5, <2>6 DEF IInv, RuntimeInv, RuntimeExit, At, On, Owning
    <2>8. PendingInv'
      BY <2>1, <2>2, <2>3, <2>6 DEF IInv, PendingInv, PendingExit, At, On
    <2>9. LateInv'
      BY <1>1, <2>1, <2>2, <2>3, <2>6 DEF IInv, LateInv, LateCall, TypeOK, Work
    <2> QED
      BY <1>1, <2>2, <2>4, <2>7, <2>8, <2>9 DEF IInv, PatchInv, Gaps
  <1> QED
    BY <1>2, <1>3

\* The patch goes on to the order without its guard: the exit is unguarded.
LEMMA BlindIsSafe ==
    ASSUME IInv, NEW c \in Caller, caller[c] # Idle, guard = "patch",
           caller[c].step \in {"ignore", "check"},
           caller' = [caller EXCEPT ![c].step = "order", ![c].blind = TRUE],
           unguarded' = unguarded \cup {caller[c].exit},
           UNCHANGED <<guard, status, phantom, sold, overlapped, abandoned>>
    PROVE  IInv'
  <1>1. /\ caller' \in [Caller -> {Idle} \cup Work]
        /\ caller'[c] # Idle
        /\ caller'[c].exit = caller[c].exit
        /\ caller'[c].late = caller[c].late
        /\ caller'[c].blind = TRUE
        /\ \A d \in Caller : d # c => caller'[d] = caller[d]
    BY WentBlind DEF IInv
  <1>2. caller[c].exit \in Exit
    BY AtWork DEF IInv, Work
  <1>3. TypeOK'
    BY <1>1, <1>2 DEF IInv, TypeOK, Work, Steps
  <1>4. PatchInv'
    <2> SUFFICES ASSUME NEW e \in Exit, e \notin Gaps'
                 PROVE  PatchExit(e)'
      BY DEF PatchInv
    <2>1. PatchExit(e) /\ e # caller[c].exit
      BY DEF IInv, PatchInv, Gaps
    <2>2. sold[e] = 1 => status[e] = "COMMITTED" \/ \E d \in Caller : At(d, e, {"settle"})'
      BY <1>1, <2>1 DEF PatchExit, At, On
    <2> QED
      BY <1>1, <2>1, <2>2 DEF PatchExit, At, On
  <1>5. LateInv'
    BY <1>1 DEF IInv, LateInv, LateCall
  <1> QED
    BY <1>3, <1>4, <1>5 DEF IInv, RuntimeInv, PendingInv

LEMMA InsertOrIgnoreIsSafe ==
    ASSUME IInv, NEW c \in Caller, InsertOrIgnore(c)
    PROVE  IInv'
  <1> DEFINE x == caller[c].exit
  <1>1. caller[c] \in Work /\ guard = "patch"
    BY AtWork DEF IInv, TypeOK, InsertOrIgnore, Work, Steps, RuntimeSteps
  <1>2. x \in Exit
    BY <1>1 DEF Work
  <1>3. CASE /\ status' = [status EXCEPT ![x] = IF @ = "none" THEN "PENDING" ELSE @]
             /\ Go(c, "check")
             /\ UNCHANGED unguarded
    <2>1. /\ caller' \in [Caller -> {Idle} \cup Work]
          /\ caller'[c].step = "check" /\ caller'[c] # Idle
          /\ caller'[c].exit = x
          /\ caller'[c].late = caller[c].late
          /\ \A d \in Caller : d # c => caller'[d] = caller[d]
      BY <1>1, <1>3, Went DEF InsertOrIgnore, IInv, Steps, PatchSteps
    <2>2. /\ status'[x] = IF status[x] = "none" THEN "PENDING" ELSE status[x]
          /\ \A e \in Exit : e # x => status'[e] = status[e]
          /\ UNCHANGED <<guard, phantom, sold, overlapped, unguarded, abandoned>>
          /\ caller[c] # Idle /\ caller[c].step = "ignore"
      BY <1>2, <1>3 DEF InsertOrIgnore, IInv, TypeOK
    <2>3. TypeOK'
      BY <1>2, <1>3, <2>1, <2>2 DEF IInv, TypeOK, Work, Steps
    <2>4. PatchInv'
      <3> SUFFICES ASSUME NEW e \in Exit, e \notin Gaps
                   PROVE  PatchExit(e)'
        BY <2>2 DEF PatchInv, Gaps
      <3>1. PatchExit(e)
        BY <1>1 DEF IInv, PatchInv, Gaps
      <3>2. \A d \in Caller : On(d, e)' <=> On(d, e)
        BY <2>1, <2>2 DEF On
      <3>3. \A d \in Caller : At(d, e, {"check", "order", "settle"})' => status'[e] # "none"
        BY <2>1, <2>2, <3>1 DEF PatchExit, At, On
      <3>4. sold[e] = 1 => status'[e] = "COMMITTED" \/ \E d \in Caller : At(d, e, {"settle"})'
        BY <2>1, <2>2, <3>1 DEF PatchExit, At, On
      <3>5. \A d \in Caller : At(d, e, {"order"})' => sold[e] = 0
        BY <2>1, <3>1 DEF PatchExit, At, On
      <3> QED
        BY <2>2, <3>1, <3>2, <3>3, <3>4, <3>5 DEF PatchExit
    <2>5. LateInv'
      BY <1>1, <1>2, <2>1, <2>2 DEF IInv, LateInv, LateCall, TypeOK, Work
    <2> QED
      BY <1>1, <2>2, <2>3, <2>4, <2>5 DEF IInv, RuntimeInv, PendingInv
  <1>4. CASE /\ caller' = [caller EXCEPT ![c].step = "order", ![c].blind = TRUE]
             /\ unguarded' = unguarded \cup {x}
             /\ UNCHANGED status
    BY <1>1, <1>4, BlindIsSafe DEF InsertOrIgnore
  <1> QED
    BY <1>3, <1>4 DEF InsertOrIgnore

LEMMA CheckIsSafe ==
    ASSUME IInv, NEW c \in Caller, Check(c)
    PROVE  IInv'
  <1> DEFINE x == caller[c].exit
  <1>1. caller[c] \in Work /\ guard = "patch"
    BY AtWork DEF IInv, TypeOK, Check, Work, Steps, RuntimeSteps
  <1>2. x \in Exit
    BY <1>1 DEF Work
  <1>3. /\ caller[c] # Idle /\ caller[c].step = "check"
        /\ UNCHANGED <<guard, status, phantom, sold, overlapped, abandoned>>
    BY DEF Check
  <1>4. CASE status[x] = "COMMITTED" /\ Return(c) /\ UNCHANGED unguarded
    BY <1>1, <1>3, <1>4, EndingIsSafe DEF IInv, TypeOK
  <1>5. CASE status[x] # "COMMITTED" /\ Go(c, "order") /\ UNCHANGED unguarded
    <2>1. /\ caller' \in [Caller -> {Idle} \cup Work]
          /\ caller'[c].step = "order" /\ caller'[c] # Idle
          /\ caller'[c].exit = x
          /\ caller'[c].late = caller[c].late
          /\ caller'[c].blind = caller[c].blind
          /\ \A d \in Caller : d # c => caller'[d] = caller[d]
      BY <1>1, <1>3, <1>5, Went DEF IInv, Steps, PatchSteps
    <2>2. TypeOK'
      BY <1>3, <1>5, <2>1 DEF IInv, TypeOK, Work, Steps
    <2>3. PatchInv'
      <3> SUFFICES ASSUME NEW e \in Exit, e \notin Gaps
                   PROVE  PatchExit(e)'
        BY <1>3, <1>5 DEF PatchInv, Gaps
      <3>1. PatchExit(e)
        BY <1>1 DEF IInv, PatchInv, Gaps
      <3>2. \A d \in Caller : On(d, e)' <=> On(d, e)
        BY <1>3, <2>1 DEF On
      <3>3. sold[e] = 1 => status[e] = "COMMITTED" \/ \E d \in Caller : At(d, e, {"settle"})'
        BY <1>3, <2>1, <3>1 DEF PatchExit, At, On
      <3>4. e = x => sold[e] = 0
        <4>1. e = x => On(c, e)
          BY <1>3 DEF On
        <4>2. \A d \in Caller : e = x /\ At(d, e, {"settle"}) => d = c
          BY <3>1, <4>1 DEF PatchExit, At
        <4>3. e = x => \A d \in Caller : ~At(d, e, {"settle"})
          BY <1>3, <4>2 DEF At
        <4>4. sold[e] \in Nat /\ sold[e] <= 1
          BY <3>1, ExitAssumption DEF PatchExit, IInv, TypeOK
        <4> QED
          BY <1>5, <3>1, <4>3, <4>4 DEF PatchExit
      <3>5. \A d \in Caller : At(d, e, {"order"})' => sold[e] = 0
        BY <2>1, <3>1, <3>4 DEF PatchExit, At, On
      <3>6. \A d \in Caller : At(d, e, {"check", "order", "settle"})' => status[e] # "none"
        BY <1>3, <2>1, <3>1 DEF PatchExit, At, On
      <3> QED
        BY <1>3, <3>1, <3>2, <3>3, <3>5, <3>6 DEF PatchExit
    <2>4. LateInv'
      BY <1>1, <1>3, <1>5, <2>1 DEF IInv, LateInv, LateCall
    <2> QED
      BY <1>1, <1>3, <2>2, <2>3, <2>4 DEF IInv, RuntimeInv, PendingInv
  <1>6. CASE /\ caller' = [caller EXCEPT ![c].step = "order", ![c].blind = TRUE]
             /\ unguarded' = unguarded \cup {x}
    BY <1>1, <1>3, <1>6, BlindIsSafe
  <1> QED
    BY <1>4, <1>5, <1>6 DEF Check

LEMMA OrderIsSafe ==
    ASSUME IInv, NEW c \in Caller, Order(c)
    PROVE  IInv'
  <1> DEFINE x == caller[c].exit
  <1>1. caller[c] \in Work /\ x \in Exit
    BY AtWork DEF IInv, Order, Work
  <1>2. /\ caller[c] # Idle /\ caller[c].step = "order"
        /\ UNCHANGED <<guard, status, phantom, overlapped, unguarded>>
    BY DEF Order
  <1>3. At(c, x, {"order"}) /\ At(c, x, Owning)
    BY <1>2 DEF At, On, Owning
  <1>4. guard = "runtime" => sold[x] = 0 /\ status[x] # "none"
    BY <1>1, <1>3 DEF IInv, RuntimeInv, RuntimeExit
  <1>5. guard = "patch" /\ x \notin Gaps => sold[x] = 0 /\ status[x] # "none"
    <2>1. At(c, x, {"check", "order", "settle"})
      BY <1>3 DEF At
    <2> QED
      BY <1>1, <1>3, <2>1 DEF IInv, PatchInv, PatchExit
  <1>6. caller[c].late => guard = "patch" /\ caller[c].blind /\ status[x] = "COMMITTED"
    BY <1>2 DEF IInv, LateInv, LateCall, TypeOK
  <1>7. ASSUME Accept(x)
        PROVE  /\ sold' \in [Exit -> 0..MaxOrders]
               /\ sold[x] = 0 => sold'[x] = 1
               /\ \A e \in Exit : e # x => sold'[e] = sold[e]
    BY <1>1, <1>7, ExitAssumption DEF Accept, IInv, TypeOK
  <1>8. CASE /\ Accept(x) \/ UNCHANGED sold
             /\ Go(c, IF guard = "runtime" THEN "commit" ELSE "settle")
             /\ UNCHANGED abandoned
    <2>1. /\ caller' \in [Caller -> {Idle} \cup Work]
          /\ caller'[c].step = IF guard = "runtime" THEN "commit" ELSE "settle"
          /\ caller'[c] # Idle
          /\ caller'[c].exit = x
          /\ caller'[c].late = caller[c].late
          /\ caller'[c].blind = caller[c].blind
          /\ \A d \in Caller : d # c => caller'[d] = caller[d]
      BY <1>2, <1>8, Went DEF IInv, Steps, RuntimeSteps, PatchSteps
    <2>2. TypeOK'
      BY <1>2, <1>7, <1>8, <2>1 DEF IInv, TypeOK, Work, Steps
    <2>3. RuntimeInv'
      <3> SUFFICES ASSUME guard = "runtime", NEW e \in Exit
                   PROVE  RuntimeExit(e)'
        BY <1>2 DEF RuntimeInv
      <3>1. RuntimeExit(e)
        BY DEF IInv, RuntimeInv
      <3>2. \A d \in Caller : At(d, e, Owning)' <=> At(d, e, Owning)
        BY <1>2, <2>1 DEF At, On, Owning
      <3>3. \A d \in Caller : At(d, e, {"order"})' => d # c /\ At(d, e, {"order"})
        BY <2>1 DEF At, On
      <3>4. e = x => \A d \in Caller : ~At(d, e, {"order"})'
        <4>1. \A d \in Caller : At(d, e, {"order"}) => At(d, e, Owning)
          BY DEF At, Owning
        <4> QED
          BY <1>3, <3>1, <3>3, <4>1 DEF RuntimeExit
      <3>5. e # x => sold'[e] = sold[e]
        BY <1>7, <1>8
      <3>6. e = x => sold'[e] \in {0, 1} /\ status'[e] # "none"
        BY <1>2, <1>4, <1>7, <1>8
      <3> QED
        BY <1>2, <3>1, <3>2, <3>3, <3>4, <3>5, <3>6 DEF RuntimeExit
    <2>4. PendingInv'
      BY <1>2, <1>8, <2>1 DEF IInv, PendingInv, PendingExit, At, On
    <2>5. PatchInv'
      <3> SUFFICES ASSUME guard = "patch", NEW e \in Exit, e \notin Gaps
                   PROVE  PatchExit(e)'
        BY <1>2, <1>8 DEF PatchInv, Gaps
      <3>1. PatchExit(e)
        BY DEF IInv, PatchInv, Gaps
      <3>2. \A d \in Caller : On(d, e)' <=> On(d, e)
        BY <1>2, <2>1 DEF On
      <3>3. \A d \in Caller : At(d, e, {"order"})' => d # c /\ At(d, e, {"order"})
        BY <2>1 DEF At, On
      <3>4. e = x => \A d \in Caller : ~At(d, e, {"order"})'
        BY <1>3, <3>1, <3>3 DEF PatchExit, At
      <3>5. \A d \in Caller : At(d, e, {"check", "order", "settle"})' => status[e] # "none"
        BY <1>5, <2>1, <3>1 DEF PatchExit, At, On
      <3>6. CASE e = x
        BY <1>2, <1>5, <1>7, <1>8, <2>1, <3>1, <3>2, <3>4, <3>5, <3>6 DEF PatchExit, At, On
      <3>7. CASE e # x
        <4>1. sold'[e] = sold[e]
          BY <1>7, <1>8, <3>7
        <4>2. \A d \in Caller, S \in SUBSET PatchSteps : At(d, e, S)' <=> At(d, e, S)
          BY <1>2, <2>1, <3>7 DEF At, On
        <4>3. {"settle"} \in SUBSET PatchSteps
          BY DEF PatchSteps
        <4> QED
          BY <1>2, <3>1, <3>2, <3>3, <3>5, <4>1, <4>2, <4>3 DEF PatchExit
      <3> QED
        BY <3>6, <3>7
    <2>6. LateInv'
      BY <1>2, <1>6, <2>1 DEF IInv, LateInv, LateCall
    <2> QED
      BY <2>2, <2>3, <2>4, <2>5, <2>6 DEF IInv
  <1>9. CASE guard = "runtime" /\ Go(c, "quarantine") /\ UNCHANGED <<sold, abandoned>>
    <2>1. /\ caller' \in [Caller -> {Idle} \cup Work]
          /\ caller'[c].step = "quarantine"
          /\ caller'[c] # Idle
          /\ caller'[c].exit = x
          /\ caller'[c].late = caller[c].late
          /\ \A d \in Caller : d # c => caller'[d] = caller[d]
      BY <1>2, <1>9, Went DEF IInv, Steps, RuntimeSteps
    <2>2. TypeOK'
      BY <1>2, <1>9, <2>1 DEF IInv, TypeOK, Work, Steps
    <2>3. RuntimeInv'
      BY <1>2, <1>9, <2>1 DEF IInv, RuntimeInv, RuntimeExit, At, On, Owning
    <2>4. PendingInv'
      BY <1>2, <1>9, <2>1 DEF IInv, PendingInv, PendingExit, At, On
    <2>5. LateInv'
      BY <1>2, <1>6, <1>9, <2>1 DEF IInv, LateInv, LateCall
    <2> QED
      BY <1>2, <1>9, <2>2, <2>3, <2>4, <2>5 DEF IInv, PatchInv, Gaps
  <1>10. CASE guard # "runtime" /\ Return(c) /\ UNCHANGED <<sold, abandoned>>
    BY <1>2, <1>10, EndingIsSafe DEF IInv, TypeOK
  <1>11. CASE /\ Accept(x) \/ UNCHANGED sold
              /\ Return(c)
              /\ abandoned' = abandoned \cup {x}
    <2>1. CASE UNCHANGED sold
      BY <1>2, <1>11, <2>1, EndingIsSafe DEF IInv, TypeOK
    <2>2. CASE Accept(x)
      <3>1. /\ caller' \in [Caller -> {Idle} \cup Work]
            /\ caller'[c] = Idle
            /\ \A d \in Caller : d # c => caller'[d] = caller[d]
        BY <1>11, Returned DEF IInv
      <3>2. TypeOK'
        BY <1>1, <1>2, <1>7, <1>11, <2>2, <3>1 DEF IInv, TypeOK, Work, Steps
      <3>3. RuntimeInv'
        <4> SUFFICES ASSUME guard = "runtime", NEW e \in Exit
                     PROVE  RuntimeExit(e)'
          BY <1>2 DEF RuntimeInv
        <4>1. RuntimeExit(e)
          BY DEF IInv, RuntimeInv
        <4>2. \A d \in Caller : At(d, e, Owning)' => d # c /\ At(d, e, Owning)
          BY <3>1 DEF At, On
        <4>3. \A d \in Caller : At(d, e, {"order"})' => At(d, e, {"order"}) /\ At(d, e, Owning)'
          BY <3>1 DEF At, On, Owning
        <4>4. e = x => \A d \in Caller : ~At(d, e, Owning)'
          BY <1>3, <4>1, <4>2 DEF RuntimeExit
        <4>5. e # x => sold'[e] = sold[e]
          BY <1>7, <2>2
        <4>6. e = x => sold'[e] = 1 /\ status'[e] # "none"
          BY <1>2, <1>4, <1>7, <2>2
        <4> QED
          BY <1>2, <4>1, <4>2, <4>3, <4>4, <4>5, <4>6 DEF RuntimeExit
      <3>4. PendingInv'
        BY <1>2, <1>11, <3>1 DEF IInv, PendingInv, PendingExit, At, On
      <3>5. PatchInv'
        <4> SUFFICES ASSUME guard = "patch", NEW e \in Exit, e \notin Gaps, e # x
                     PROVE  PatchExit(e)'
          BY <1>2, <1>11 DEF PatchInv, Gaps
        <4>1. PatchExit(e)
          BY DEF IInv, PatchInv, Gaps
        <4>2. sold'[e] = sold[e]
          BY <1>7, <2>2
        <4>3. \A d \in Caller, S \in SUBSET PatchSteps : At(d, e, S)' <=> At(d, e, S)
          BY <1>2, <3>1 DEF At, On
        <4>4. /\ {"settle"} \in SUBSET PatchSteps /\ {"order"} \in SUBSET PatchSteps
              /\ {"check", "order", "settle"} \in SUBSET PatchSteps
          BY DEF PatchSteps
        <4>5. \A d \in Caller : On(d, e)' => On(d, e)
          BY <3>1 DEF On
        <4> QED
          BY <1>2, <4>1, <4>2, <4>3, <4>4, <4>5 DEF PatchExit
      <3>6. LateInv'
        BY <1>2, <3>1 DEF IInv, LateInv, LateCall
      <3> QED
        BY <3>2, <3>3, <3>4, <3>5, <3>6 DEF IInv
    <2> QED
      BY <1>11, <2>1, <2>2
  <1> QED
    BY <1>8, <1>9, <1>10, <1>11 DEF Order, Refused

\* The owner of an exit, or a caller of the patch, marks its row and goes on or
\* ends; nothing is sold.  new is not PENDING, and COMMITTED in the patch.
LEMMA MarkingIsSafe ==
    ASSUME IInv, NEW c \in Caller, caller[c] # Idle,
           NEW new \in {"COMMITTED", "QUARANTINED"}, guard = "patch" => new = "COMMITTED",
           caller[c].step \in IF guard = "runtime" THEN {"commit", "quarantine"} ELSE {"settle"},
           status' = Marked(caller[c].exit, new),
           UNCHANGED <<guard, phantom, sold, overlapped, unguarded, abandoned>>,
           caller' \in [Caller -> {Idle} \cup Work],
           caller'[c] # Idle => /\ guard = "runtime"
                                /\ caller'[c].exit = caller[c].exit
                                /\ caller'[c].step \in {"clear", "flag"}
                                /\ caller'[c].late = caller[c].late,
           \A d \in Caller : d # c => caller'[d] = caller[d]
    PROVE  IInv'
  <1> DEFINE x == caller[c].exit
  <1>1. caller[c] \in Work /\ x \in Exit
    BY AtWork DEF IInv, Work
  <1>2. /\ status' \in [Exit -> {"none", "PENDING", "COMMITTED", "QUARANTINED"}]
        /\ status'[x] = IF status[x] = "none" THEN "none" ELSE new
        /\ \A e \in Exit : e # x => status'[e] = status[e]
    BY <1>1, MarkedTyped DEF IInv
  <1>3. TypeOK'
    BY <1>2 DEF IInv, TypeOK, Work, Steps
  <1>4. RuntimeInv'
    <2> SUFFICES ASSUME guard = "runtime", NEW e \in Exit
                 PROVE  RuntimeExit(e)'
      BY DEF RuntimeInv
    <2>1. RuntimeExit(e)
      BY DEF IInv, RuntimeInv
    <2>2. At(c, x, Owning)
      BY DEF At, On, Owning
    <2>3. \A d \in Caller : At(d, e, Owning)' => At(d, e, Owning)
      BY <2>2 DEF At, On
    <2>4. \A d \in Caller : At(d, e, {"order"})' => At(d, e, {"order"})
      BY DEF At, On
    <2>5. status'[e] = "none" <=> status[e] = "none"
      BY <1>2
    <2> QED
      BY <2>1, <2>3, <2>4, <2>5 DEF RuntimeExit
  <1>5. PendingInv'
    <2> SUFFICES ASSUME guard = "runtime", NEW e \in Exit, status'[e] = "PENDING",
                        e \notin abandoned
                 PROVE  \E d \in Caller : At(d, e, {"order", "commit", "quarantine"})'
      BY DEF PendingInv, PendingExit
    <2>1. e # x /\ status[e] = "PENDING"
      BY <1>2
    <2>2. PICK d \in Caller : At(d, e, {"order", "commit", "quarantine"})
      BY <2>1 DEF IInv, PendingInv, PendingExit
    <2>3. d # c
      BY <2>1, <2>2 DEF At, On
    <2> QED
      BY <2>2, <2>3 DEF At, On
  <1>6. PatchInv'
    <2> SUFFICES ASSUME guard = "patch", NEW e \in Exit, e \notin Gaps
                 PROVE  PatchExit(e)'
      BY DEF PatchInv, Gaps
    <2>1. PatchExit(e)
      BY DEF IInv, PatchInv, Gaps
    <2>2. caller'[c] = Idle
      OBVIOUS
    <2>3. \A d \in Caller : On(d, e)' => d # c /\ On(d, e) /\ caller'[d] = caller[d]
      BY <2>2 DEF On
    <2>4. status'[e] = "none" <=> status[e] = "none"
      BY <1>2
    <2>5. sold[e] = 1 => status'[e] = "COMMITTED" \/ \E d \in Caller : At(d, e, {"settle"})'
      <3>1. CASE e = x
        <4>1. At(c, e, {"check", "order", "settle"})
          BY <3>1 DEF At, On
        <4> QED
          BY <1>2, <2>1, <3>1, <4>1 DEF PatchExit
      <3>2. CASE e # x
        <4>1. status'[e] = status[e]
          BY <1>2, <3>2
        <4>2. \A d \in Caller : At(d, e, {"settle"}) => At(d, e, {"settle"})'
          BY <3>2 DEF At, On
        <4> QED
          BY <2>1, <4>1, <4>2 DEF PatchExit
      <3> QED
        BY <3>1, <3>2
    <2>6. \A d \in Caller, S \in SUBSET PatchSteps : At(d, e, S)' => At(d, e, S)
      BY <2>3 DEF At, On
    <2>7. {"order"} \in SUBSET PatchSteps /\ {"check", "order", "settle"} \in SUBSET PatchSteps
      BY DEF PatchSteps
    <2> QED
      BY <2>1, <2>3, <2>4, <2>5, <2>6, <2>7 DEF PatchExit
  <1>7. LateInv'
    <2>1. \A e \in Exit : /\ status'[e] = "none" <=> status[e] = "none"
                          /\ guard = "patch" /\ status[e] = "COMMITTED" => status'[e] = "COMMITTED"
      BY <1>2
    <2>2. guard = "runtime" => ~caller[c].late
      BY DEF IInv, LateInv, LateCall
    <2> QED
      BY <1>1, <2>1, <2>2 DEF IInv, LateInv, LateCall, TypeOK, Work
  <1> QED
    BY <1>3, <1>4, <1>5, <1>6, <1>7 DEF IInv

LEMMA MarkCommittedIsSafe ==
    ASSUME IInv, NEW c \in Caller, MarkCommitted(c)
    PROVE  IInv'
  <1>1. guard = "runtime"
    BY AtWork DEF IInv, TypeOK, MarkCommitted, Work, Steps, PatchSteps
  <1>2. /\ caller' \in [Caller -> {Idle} \cup Work]
        /\ caller'[c].step = "clear" /\ caller'[c].exit = caller[c].exit
        /\ caller'[c].late = caller[c].late
        /\ \A d \in Caller : d # c => caller'[d] = caller[d]
    BY <1>1, Went DEF MarkCommitted, IInv, Steps, RuntimeSteps
  <1> QED
    BY <1>1, <1>2, MarkingIsSafe DEF MarkCommitted, history

LEMMA MarkQuarantinedIsSafe ==
    ASSUME IInv, NEW c \in Caller, MarkQuarantined(c)
    PROVE  IInv'
  <1>1. guard = "runtime"
    BY AtWork DEF IInv, TypeOK, MarkQuarantined, Work, Steps, PatchSteps
  <1>2. /\ caller' \in [Caller -> {Idle} \cup Work]
        /\ caller'[c].step = "flag" /\ caller'[c].exit = caller[c].exit
        /\ caller'[c].late = caller[c].late
        /\ \A d \in Caller : d # c => caller'[d] = caller[d]
    BY <1>1, Went DEF MarkQuarantined, IInv, Steps, RuntimeSteps
  <1> QED
    BY <1>1, <1>2, MarkingIsSafe DEF MarkQuarantined, history

LEMMA SettlePatchIsSafe ==
    ASSUME IInv, NEW c \in Caller, SettlePatch(c)
    PROVE  IInv'
  <1>1. guard = "patch"
    BY AtWork DEF IInv, TypeOK, SettlePatch, Work, Steps, RuntimeSteps
  <1>2. CASE status' = Marked(caller[c].exit, "COMMITTED") /\ UNCHANGED unguarded
    BY <1>1, <1>2, Returned, MarkingIsSafe DEF SettlePatch, IInv
  <1>3. CASE UNCHANGED status /\ unguarded' = unguarded \cup {caller[c].exit}
    BY <1>1, <1>3, EndingIsSafe DEF SettlePatch, IInv, TypeOK
  <1> QED
    BY <1>2, <1>3 DEF SettlePatch

LEMMA PhantomIsSafe ==
    ASSUME IInv, NEW c \in Caller, ClearPhantom(c) \/ SetPhantom(c)
    PROVE  IInv'
  <1>1. caller[c] \in Work /\ caller[c].exit \in Exit
    BY AtWork DEF IInv, ClearPhantom, SetPhantom, Work
  <1>2. SymbolOf[caller[c].exit] \in Symbol
    BY <1>1, ExitAssumption
  <1>3. phantom' \subseteq Symbol
    BY <1>2 DEF IInv, TypeOK, ClearPhantom, SetPhantom
  <1> QED
    BY <1>3, EndingIsSafe DEF ClearPhantom, SetPhantom, history

LEMMA CrashIsSafe ==
    ASSUME IInv, NEW c \in Caller, Crash(c)
    PROVE  IInv'
  BY EndingIsSafe DEF Crash, IInv, TypeOK

-----------------------------------------------------------------------------
(* The theorems.                                                           *)

LEMMA NextIsSafe == IInv /\ [Next]_vars => IInv'
  <1> SUFFICES ASSUME IInv, [Next]_vars PROVE IInv'
    OBVIOUS
  <1>1. ASSUME NEW c \in Caller, Step(c) PROVE IInv'
    BY <1>1, CallIsSafe, SelectIsSafe, InsertIsSafe, InsertOrIgnoreIsSafe, CheckIsSafe,
       OrderIsSafe, MarkCommittedIsSafe, MarkQuarantinedIsSafe, PhantomIsSafe,
       SettlePatchIsSafe, CrashIsSafe
       DEF Step
  <1>2. CASE UNCHANGED vars
    BY <1>2 DEF vars, IInv, TypeOK, RuntimeInv, RuntimeExit, PendingInv, PendingExit,
                PatchInv, PatchExit, Gaps, LateInv, LateCall, At, On
  <1> QED
    BY <1>1, <1>2 DEF Next

LEMMA Invariance == Spec => []IInv
  BY InitIsSafe, NextIsSafe, PTL DEF Spec

\* Every variable keeps its type.
THEOREM WellTyped == Spec => []TypeOK
  <1>1. IInv => TypeOK
    BY DEF IInv
  <1> QED
    BY <1>1, Invariance, PTL

\* The runtime never lets an exit be sold twice, and the patch lets one only
\* when its calls overlapped, died, or went without an answer or the guard.
THEOREM ExitsSoldOnce == Spec => []OnlyGapsResell
  <1>1. IInv => OnlyGapsResell
    <2> SUFFICES ASSUME IInv, NEW e \in Exit, sold[e] > 1
                 PROVE  guard = "patch" /\ e \in Gaps
      BY DEF OnlyGapsResell
    <2>1. sold[e] \in Nat
      BY ExitAssumption DEF IInv, TypeOK
    <2>2. guard \in {"runtime", "patch"}
      BY DEF IInv, TypeOK
    <2>3. guard # "runtime"
      BY <2>1 DEF IInv, RuntimeInv, RuntimeExit
    <2> QED
      BY <2>1, <2>2, <2>3 DEF IInv, PatchInv, PatchExit
  <1> QED
    BY <1>1, Invariance, PTL

\* A call that begins after its exit was settled never reaches the broker,
\* unless the guard of the patch itself fails it.
THEOREM SettledIsSkipped == Spec => []CommittedIsSkipped
  <1>1. IInv => CommittedIsSkipped
    BY DEF IInv, LateInv, LateCall, CommittedIsSkipped
  <1> QED
    BY <1>1, Invariance, PTL

\* An exit that the runtime leaves PENDING, and will never let anyone sell
\* again, has a caller still at work on it, or one that died or got no answer.
THEOREM PendingHasAReason == Spec => []PendingIsExplained
  <1>1. IInv => PendingIsExplained
    BY DEF IInv, PendingInv, PendingExit, PendingIsExplained, Working, At, On
  <1> QED
    BY <1>1, Invariance, PTL
=============================================================================
