------------------------- MODULE HostedReceiptsProofs -------------------------
(***************************************************************************)
(* The receipts of the hosted service for any requests, handlers, sweeps,  *)
(* deployments and sequence of keys: what was answered is what is stored,  *)
(* what is signed verifies, what is reported as anchored is, and what is   *)
(* confirmed stays so.                                                     *)
(***************************************************************************)
EXTENDS HostedReceipts, SequenceTheorems, TLAPS

Task == [do : {"attach", "submit"}, envelope : Envelopes]

\* The background tasks left of a request: to store its receipt, then to
\* submit its trail.
Tasks ==
    {tasks \in Seq(Task) :
        /\ Len(tasks) <= 2
        /\ Len(tasks) = 2 => tasks[1].do = "attach" /\ tasks[2].do = "submit"}

Serving == [step : {"gate", "insert", "sign"}, req : Req]

TypeInv ==
    /\ deployment \in Deployments
    /\ row \in [Req -> Rows \cup {None}]
    /\ issued \in [Req -> Receipts \cup {None}]
    /\ handler \in [Handler -> {Idle} \cup Serving]
    /\ task \in [Req -> Tasks]
    /\ lost \subseteq Req
    /\ sweep \in [Cron -> SUBSET Req]
    /\ trails \in [Req -> {"unknown", "registered", "anchored"}]
    /\ now \in Nat
    /\ restarts \in Nat /\ restarts + 1 \in DOMAIN Keys

-----------------------------------------------------------------------------
(* The inductive invariant.                                                *)

\* Nothing was answered, and no trail sent, for a request.
Silent(r) == issued[r] = None /\ task[r] = <<>> /\ trails[r] = "unknown"

Signing(h, r) == handler[h].step = "sign" /\ handler[h].req = r

\* A request without a row, or about to be answered, is silent; one handler
\* answers it, and its row has no receipt and no stamp yet.
Answered(r) ==
    /\ row[r] = None => Silent(r)
    /\ \A h \in Handler : Signing(h, r) =>
          Silent(r) /\ row[r] # None /\ row[r].receipt = None /\ row[r].stamp = None
    /\ \A h, g \in Handler : Signing(h, r) /\ Signing(g, r) => h = g

Attaching(r) == task[r] # <<>> /\ Head(task[r]).do = "attach"

\* While tasks are left the trail is not sent; while the first is to store the
\* receipt, it will store the one that was answered, and nothing is there.
Tasked(r) ==
    /\ task[r] # <<>> => row[r] # None /\ trails[r] = "unknown"
    /\ Attaching(r) =>
          /\ row[r].receipt = None /\ row[r].stamp = None
          /\ issued[r] = Sign(Head(task[r]).envelope)

\* The columns of the trail.
Trailed(r) ==
    row[r] # None =>
        /\ row[r].block # None <=> row[r].precedence
        /\ row[r].trail => trails[r] # "unknown"
        /\ row[r].precedence => row[r].trail /\ trails[r] = "anchored"

Signed(receipt) ==
    receipt.bytes = receipt.hash /\ receipt.signature = <<receipt.verifier, receipt.hash>>

\* Receipts are signed, and the one stored is the one answered.
Receipted(r) ==
    /\ issued[r] # None => Signed(issued[r])
    /\ row[r] # None /\ row[r].receipt # None => Signed(row[r].receipt)
    /\ issued[r] # None =>
          \/ row[r].receipt = issued[r]
          \/ row[r].receipt = None /\ (r \in lost \/ Attaching(r))

Admitted == deployment.policy = "required" /\ deployment.importable => unsound = {}

Inv ==
    /\ TypeInv
    /\ Admitted
    /\ \A r \in Req : Answered(r) /\ Tasked(r) /\ Trailed(r) /\ Receipted(r)

-----------------------------------------------------------------------------
(* Operators.                                                              *)

LEMMA OutcomeIsOfOne ==
    ASSUME NEW policy, NEW importable, NEW outcome \in Outcomes(policy, importable)
    PROVE  \E att \in Attestation \cup {None}, keys \in BOOLEAN, fails \in BOOLEAN :
              outcome = Outcome(policy, importable, att, keys, fails)
  BY DEF Outcomes

\* Where an attestation is required and the gate can be imported, what is not
\* denied is allowed on a sound one.
LEMMA RequiredIsSound ==
    ASSUME NEW importable \in BOOLEAN, importable,
           NEW outcome \in Outcomes("required", importable), outcome[1] # "DENY"
    PROVE  outcome[2]
  <1>1. PICK att \in Attestation \cup {None}, keys \in BOOLEAN, fails \in BOOLEAN :
           outcome = Outcome("required", importable, att, keys, fails)
    BY OutcomeIsOfOne
  <1> DEFINE decision == Decision("required", importable, att, keys, fails)
  <1>2. outcome[1] = decision /\ outcome[2] = (decision = "ALLOW" /\ Sound(att, keys))
    BY <1>1 DEF Outcome
  <1>3. ~fails /\ Gate(att, keys, TRUE) # "DENY" /\ decision = Gate(att, keys, TRUE)
    BY <1>2 DEF Decision
  <1>4. att # None /\ keys /\ att.signed /\ att.blocking = 0
    BY <1>3 DEF Gate
  <1>5. att.verdict # "refuse" /\ att.binding # "other"
    BY <1>3, NoneAssumption DEF Gate
  <1>6. Sound(att, keys) /\ Gate(att, keys, TRUE) = "ALLOW"
    BY <1>3, <1>4, <1>5 DEF Sound, Gate
  <1> QED
    BY <1>2, <1>3, <1>6

LEMMA KeyIsOne == ASSUME TypeInv PROVE Key \in KeyRange
  BY DEF TypeInv, Key, KeyRange

\* What is signed is a receipt that verifies.
LEMMA SignSigns ==
    ASSUME TypeInv, NEW env \in Envelopes
    PROVE  Sign(env) \in Receipts /\ Signed(Sign(env)) /\ Sign(env) # None
  BY KeyIsOne, NoneAssumption DEF Sign, Receipts, Signed

\* Taking the first task leaves tasks, none of which stores a receipt.
LEMMA TasksRunOut ==
    ASSUME NEW tasks \in Tasks, tasks # <<>>
    PROVE  /\ Tail(tasks) \in Tasks
           /\ Head(tasks) \in Task
           /\ Tail(tasks) # <<>> => Head(tasks).do = "attach" /\ Head(Tail(tasks)).do = "submit"
  <1>1. tasks \in Seq(Task) /\ Len(tasks) \in {1, 2}
    <2>1. tasks \in Seq(Task) /\ Len(tasks) <= 2
      BY DEF Tasks
    <2>2. Len(tasks) \in Nat /\ Len(tasks) # 0
      BY <2>1, EmptySeq
    <2>3. \A n \in Nat : n # 0 /\ n <= 2 => n \in {1, 2}
      OBVIOUS
    <2> QED
      BY <2>1, <2>2, <2>3
  <1>2. Head(tasks) \in Task /\ Head(tasks) = tasks[1]
    BY <1>1, HeadTailProperties
  <1>3. Tail(tasks) \in Seq(Task) /\ Len(Tail(tasks)) = Len(tasks) - 1
    BY <1>1, HeadTailProperties
  <1>4. ASSUME Tail(tasks) # <<>>
        PROVE  Head(tasks).do = "attach" /\ Head(Tail(tasks)).do = "submit"
    <2>1. Len(tasks) = 2
      BY <1>1, <1>3, <1>4
    <2>2. Head(Tail(tasks)) = tasks[2]
      BY <1>1, <1>3, <2>1
    <2> QED
      BY <1>2, <2>1, <2>2 DEF Tasks
  <1> QED
    BY <1>1, <1>2, <1>3, <1>4 DEF Tasks

\* The tasks of an answer: to store the receipt if there is one, to submit the
\* trail if trails are on.
LEMMA TasksOfAnAnswer ==
    ASSUME NEW env \in Envelopes, NEW signed \in BOOLEAN, NEW submits \in BOOLEAN
    PROVE  LET attach == IF signed THEN <<[do |-> "attach", envelope |-> env]>> ELSE <<>>
               submit == IF submits THEN <<[do |-> "submit", envelope |-> env]>> ELSE <<>>
               tasks  == attach \o submit
           IN  /\ tasks \in Tasks
               /\ tasks # <<>> => Head(tasks).envelope = env
               /\ tasks # <<>> /\ Head(tasks).do = "attach" => signed
               /\ signed => tasks # <<>> /\ Head(tasks).do = "attach"
  <1> DEFINE a == [do |-> "attach", envelope |-> env]
             b == [do |-> "submit", envelope |-> env]
             attach == IF signed THEN <<a>> ELSE <<>>
             submit == IF submits THEN <<b>> ELSE <<>>
             tasks == attach \o submit
  <1>1. a \in Task /\ b \in Task /\ a.do = "attach" /\ b.do = "submit"
        /\ a.envelope = env /\ b.envelope = env
    BY DEF Task
  <1> HIDE DEF a, b
  <1>2. /\ attach \in Seq(Task) /\ Len(attach) = IF signed THEN 1 ELSE 0
        /\ signed => attach[1] = a
        /\ submit \in Seq(Task) /\ Len(submit) = IF submits THEN 1 ELSE 0
        /\ submits => submit[1] = b
    BY <1>1
  <1> HIDE DEF attach, submit
  <1>3. /\ tasks \in Seq(Task) /\ Len(tasks) = Len(attach) + Len(submit)
        /\ \A i \in 1 .. Len(attach) + Len(submit) :
              tasks[i] = IF i <= Len(attach) THEN attach[i] ELSE submit[i - Len(attach)]
    BY <1>2, ConcatProperties
  <1> HIDE DEF tasks
  <1>4. /\ signed => Len(tasks) >= 1 /\ tasks[1] = a
        /\ ~signed => Len(tasks) <= 1 /\ (Len(tasks) = 1 => tasks[1] = b)
        /\ Len(tasks) <= 2
        /\ Len(tasks) = 2 => tasks[1] = a /\ tasks[2] = b
    BY <1>2, <1>3
  <1>5. tasks \in Tasks
    BY <1>1, <1>3, <1>4 DEF Tasks
  <1>6. tasks # <<>> => Head(tasks) \in {a, b} /\ (Head(tasks) = a <=> signed)
    <2>1. tasks # <<>> => Len(tasks) \in {1, 2} /\ Head(tasks) = tasks[1]
      BY <1>3, <1>4, EmptySeq
    <2>2. a # b
      BY <1>1
    <2> QED
      BY <1>4, <2>1, <2>2
  <1>7. signed => tasks # <<>>
    BY <1>3, <1>4
  <1>8. /\ tasks \in Tasks
        /\ tasks # <<>> => Head(tasks).envelope = env
        /\ tasks # <<>> /\ Head(tasks).do = "attach" => signed
        /\ signed => tasks # <<>> /\ Head(tasks).do = "attach"
    BY <1>1, <1>5, <1>6, <1>7
  <1> QED
    BY <1>8 DEF tasks, attach, submit, a, b

-----------------------------------------------------------------------------
(* Steps.                                                                  *)

Safe(r) == Answered(r) /\ Tasked(r) /\ Trailed(r) /\ Receipted(r)

\* A request that a step does not touch.
LEMMA OthersStay ==
    ASSUME Inv, NEW q \in Req,
           row'[q] = row[q], issued'[q] = issued[q], task'[q] = task[q],
           trails'[q] = trails[q], restarts' = restarts, lost \subseteq lost',
           \A h \in Handler : Signing(h, q)' => Signing(h, q)
    PROVE  Safe(q)'
  <1>1. Answered(q) /\ Tasked(q) /\ Trailed(q) /\ Receipted(q)
    BY DEF Inv
  <1>2. Attaching(q)' <=> Attaching(q)
    BY DEF Attaching
  <1>3. Answered(q)'
    BY <1>1 DEF Answered, Silent
  <1>4. Tasked(q)'
    BY <1>1, <1>2 DEF Tasked, Sign, Key
  <1>5. Trailed(q)'
    BY <1>1 DEF Trailed
  <1>6. Receipted(q)'
    BY <1>1, <1>2 DEF Receipted, Signed
  <1> QED
    BY <1>3, <1>4, <1>5, <1>6 DEF Safe

\* A step of handlers and sweeps that makes nobody sign.
LEMMA StillIsSafe ==
    ASSUME Inv, UNCHANGED <<deployment, row, issued, task, lost, trails, restarts>>,
           now' \in Nat, sweep' \in [Cron -> SUBSET Req],
           handler' \in [Handler -> {Idle} \cup Serving],
           Admitted',
           \A h \in Handler, q \in Req : Signing(h, q)' => Signing(h, q)
    PROVE  Inv'
  <1>1. TypeInv'
    BY DEF Inv, TypeInv
  <1>2. ASSUME NEW q \in Req PROVE Safe(q)'
    BY OthersStay
  <1> QED
    BY <1>1, <1>2 DEF Inv, Safe

LEMMA HandlerMoves ==
    ASSUME TypeInv, NEW h \in Handler, NEW r \in Req,
           \/ Done(h)
           \/ Step(h, r, "gate")
           \/ Step(h, r, "insert")
    PROVE  /\ handler' \in [Handler -> {Idle} \cup Serving]
           /\ \A g \in Handler, q \in Req : Signing(g, q)' => Signing(g, q) /\ g # h
  <1>1. PICK place \in {Idle} \cup Serving :
           handler' = [handler EXCEPT ![h] = place] /\ place.step # "sign"
    <2>1. /\ [step |-> "gate", req |-> r] \in Serving
          /\ [step |-> "insert", req |-> r] \in Serving
          /\ Idle.step # "sign"
      BY DEF Serving, Idle
    <2> QED
      BY <2>1 DEF Done, Step
  <1> QED
    BY <1>1 DEF TypeInv, Signing

LEMMA TickIsSafe == ASSUME Inv, Tick PROVE Inv'
  <1>1. Admitted'
    BY DEF Tick, claims, Inv, Admitted
  <1> QED
    BY <1>1, StillIsSafe DEF Tick, claims, Inv, TypeInv, Signing

LEMMA ReceiveIsSafe ==
    ASSUME Inv, NEW h \in Handler, NEW r \in Req, Receive(h, r)
    PROVE  Inv'
  <1>1. /\ UNCHANGED <<deployment, row, issued, unsound, task, lost, sweep, trails, now, restarts>>
        /\ Step(h, r, "gate") \/ Step(h, r, "insert")
    BY DEF Receive
  <1>2. /\ handler' \in [Handler -> {Idle} \cup Serving]
        /\ \A g \in Handler, q \in Req : Signing(g, q)' => Signing(g, q)
    BY <1>1, HandlerMoves DEF Inv
  <1>3. Admitted'
    BY <1>1 DEF Inv, Admitted
  <1> QED
    BY <1>1, <1>2, <1>3, StillIsSafe DEF Inv, TypeInv

LEMMA ServedRequest ==
    ASSUME TypeInv, NEW h \in Handler, handler[h].step \in {"gate", "insert", "sign"}
    PROVE  handler[h].req \in Req
  BY DEF TypeInv, Idle, Serving

LEMMA AttestIsSafe ==
    ASSUME Inv, NEW h \in Handler, Attest(h)
    PROVE  Inv'
  <1>1. PICK r \in Req : r = handler[h].req
    BY ServedRequest DEF Attest, Inv
  <1>2. /\ UNCHANGED <<deployment, row, issued, task, lost, sweep, trails, now, restarts>>
        /\ Done(h) \/ Step(h, r, "insert")
    BY <1>1 DEF Attest
  <1>3. /\ handler' \in [Handler -> {Idle} \cup Serving]
        /\ \A g \in Handler, q \in Req : Signing(g, q)' => Signing(g, q)
    BY <1>2, HandlerMoves DEF Inv
  <1>4. Admitted'
    <2> SUFFICES ASSUME deployment.policy = "required", deployment.importable
                 PROVE  unsound' = {}
      BY <1>2 DEF Admitted
    <2>1. unsound = {}
      BY DEF Inv, Admitted
    <2>2. deployment.importable \in BOOLEAN
      BY DeploymentAssumption DEF Inv, TypeInv
    <2>3. PICK outcome \in Outcomes("required", deployment.importable) :
             IF outcome[1] = "DENY" THEN UNCHANGED unsound
             ELSE unsound' = IF outcome[2] THEN unsound ELSE unsound \cup {r}
      BY <1>1 DEF Attest
    <2> QED
      BY <2>1, <2>2, <2>3, RequiredIsSound
  <1> QED
    BY <1>2, <1>3, <1>4, StillIsSafe DEF Inv, TypeInv

LEMMA InsertIsSafe ==
    ASSUME Inv, NEW h \in Handler, Insert(h)
    PROVE  Inv'
  <1>1. PICK r \in Req : r = handler[h].req
    BY ServedRequest DEF Insert, Inv
  <1>2. UNCHANGED <<deployment, issued, unsound, task, lost, sweep, trails, tested, now, restarts>>
    BY DEF Insert
  <1>3. Admitted'
    BY <1>2 DEF Inv, Admitted
  <1>4. CASE Done(h) /\ UNCHANGED row
    BY <1>2, <1>3, <1>4, HandlerMoves, StillIsSafe DEF Inv, TypeInv
  <1>5. ASSUME row[r] = None,
               NEW actor \in {"", "payer"}, row' = [row EXCEPT ![r] = Row(actor)],
               Step(h, r, "sign") \/ Done(h)
        PROVE  Inv'
    <2>1. Row(actor) \in Rows /\ Row(actor) # None
      <3>1. Row(actor) \in Rows
        BY DEF Row, Rows, Inv, TypeInv
      <3> QED
        BY <3>1, NoneAssumption
    <2>2. /\ row' \in [Req -> Rows \cup {None}] /\ row'[r] = Row(actor)
          /\ \A q \in Req : q # r => row'[q] = row[q]
      BY <1>5, <2>1 DEF Inv, TypeInv
    <2>3. /\ handler' \in [Handler -> {Idle} \cup Serving]
          /\ \A g \in Handler, q \in Req :
                Signing(g, q)' => (g # h /\ Signing(g, q)) \/ (g = h /\ q = r)
      <3>1. [step |-> "sign", req |-> r] \in Serving /\ Idle.step = "idle"
        BY DEF Serving, Idle
      <3>2. CASE Step(h, r, "sign")
        BY <3>1, <3>2 DEF Step, Signing, Inv, TypeInv
      <3>3. CASE Done(h)
        BY <3>1, <3>3 DEF Done, Signing, Inv, TypeInv
      <3> QED
        BY <1>5, <3>2, <3>3
    <2>4. TypeInv'
      BY <1>2, <2>2, <2>3 DEF Inv, TypeInv
    <2>5. ASSUME NEW q \in Req, q # r PROVE Safe(q)'
      BY <1>2, <2>2, <2>3, <2>5, OthersStay
    <2>6. Safe(r)'
      <3>1. Silent(r) /\ \A g \in Handler : ~Signing(g, r)
        BY <1>5 DEF Inv, Answered
      <3>2. /\ Row(actor).receipt = None /\ Row(actor).stamp = None /\ Row(actor).block = None
            /\ Row(actor).trail = FALSE /\ Row(actor).precedence = FALSE
        BY DEF Row
      <3>3. Answered(r)'
        BY <1>2, <2>1, <2>2, <2>3, <3>1, <3>2 DEF Answered, Silent
      <3>4. Tasked(r)' /\ Trailed(r)' /\ Receipted(r)'
        BY <1>2, <2>1, <2>2, <3>1, <3>2 DEF Tasked, Trailed, Receipted, Silent, Attaching
      <3> QED
        BY <3>3, <3>4 DEF Safe
    <2> QED
      BY <1>3, <2>4, <2>5, <2>6 DEF Inv, Safe
  <1> QED
    BY <1>1, <1>4, <1>5 DEF Insert

LEMMA SignAndAnswerIsSafe ==
    ASSUME Inv, NEW h \in Handler, SignAndAnswer(h)
    PROVE  Inv'
  <1>1. PICK r \in Req : r = handler[h].req
    BY ServedRequest DEF SignAndAnswer, Inv
  <1>2. PICK env \in Envelopes :
           /\ issued' = [issued EXCEPT ![r] = IF Key = None THEN None ELSE Sign(env)]
           /\ task' = [task EXCEPT ![r] =
                 (IF Key = None THEN <<>> ELSE <<[do |-> "attach", envelope |-> env]>>)
                 \o (IF deployment.trails THEN <<[do |-> "submit", envelope |-> env]>> ELSE <<>>)]
    <2>1. Envelope(r, IF r \in Test THEN "tester" ELSE "payer", now) \in Envelopes
      BY DEF Envelope, Envelopes, Inv, TypeInv
    <2> QED
      BY <1>1, <2>1 DEF SignAndAnswer
  <1>3. /\ UNCHANGED <<deployment, row, unsound, lost, sweep, trails, now, restarts>>
        /\ Signing(h, r) /\ Done(h)
    BY <1>1 DEF SignAndAnswer, Signing
  <1>4. /\ handler' \in [Handler -> {Idle} \cup Serving]
        /\ \A g \in Handler, q \in Req : Signing(g, q)' => Signing(g, q) /\ g # h
    BY <1>3, HandlerMoves DEF Inv
  <1>5. PICK tasks \in Tasks :
           /\ task' = [task EXCEPT ![r] = tasks]
           /\ tasks # <<>> => Head(tasks).envelope = env
           /\ tasks # <<>> /\ Head(tasks).do = "attach" => Key # None
           /\ Key # None => tasks # <<>> /\ Head(tasks).do = "attach"
    <2> DEFINE signed  == Key # None
               submits == deployment.trails = TRUE
               attach  == IF signed THEN <<[do |-> "attach", envelope |-> env]>> ELSE <<>>
               submit  == IF submits THEN <<[do |-> "submit", envelope |-> env]>> ELSE <<>>
    <2>1. signed \in BOOLEAN /\ submits \in BOOLEAN
      OBVIOUS
    <2>2. task' = [task EXCEPT ![r] = attach \o submit]
      BY <1>2, DeploymentAssumption DEF Inv, TypeInv
    <2>3. /\ attach \o submit \in Tasks
          /\ attach \o submit # <<>> => Head(attach \o submit).envelope = env
          /\ attach \o submit # <<>> /\ Head(attach \o submit).do = "attach" => signed
          /\ signed => attach \o submit # <<>> /\ Head(attach \o submit).do = "attach"
      <3> HIDE DEF signed, submits
      <3> QED
        BY <2>1, TasksOfAnAnswer
    <2> HIDE DEF attach, submit
    <2> QED
      BY <2>2, <2>3
  <1>6. /\ issued' \in [Req -> Receipts \cup {None}]
        /\ issued'[r] = IF Key = None THEN None ELSE Sign(env)
        /\ \A q \in Req : q # r => issued'[q] = issued[q]
    BY <1>2, SignSigns DEF Inv, TypeInv
  <1>7. /\ task' \in [Req -> Tasks] /\ task'[r] = tasks
        /\ \A q \in Req : q # r => task'[q] = task[q]
    BY <1>5 DEF Inv, TypeInv
  <1>8. TypeInv' /\ Admitted'
    BY <1>3, <1>4, <1>6, <1>7 DEF Inv, TypeInv, Admitted
  <1>9. ASSUME NEW q \in Req, q # r PROVE Safe(q)'
    BY <1>3, <1>4, <1>6, <1>7, <1>9, OthersStay
  <1>10. Safe(r)'
    <2>1. Silent(r) /\ row[r] # None /\ row[r].receipt = None /\ row[r].stamp = None
      BY <1>3 DEF Inv, Answered
    <2>2. \A g \in Handler : ~Signing(g, r)'
      BY <1>3, <1>4 DEF Inv, Answered
    <2>3. Answered(r)'
      BY <1>3, <2>1, <2>2 DEF Answered
    <2>4. Attaching(r)' => issued'[r] = Sign(env) /\ Head(task'[r]).envelope = env
      BY <1>5, <1>6, <1>7 DEF Attaching
    <2>5. Tasked(r)'
      BY <1>3, <2>1, <2>4 DEF Tasked, Silent, Sign, Key
    <2>6. Trailed(r)'
      BY <1>3 DEF Inv, Trailed
    <2>7. issued'[r] # None => Signed(issued'[r]) /\ Attaching(r)'
      BY <1>5, <1>6, <1>7, SignSigns DEF Inv, Attaching
    <2>8. Receipted(r)'
      BY <1>3, <2>1, <2>7 DEF Receipted, Signed
    <2> QED
      BY <2>3, <2>5, <2>6, <2>8 DEF Safe
  <1> QED
    BY <1>8, <1>9, <1>10 DEF Inv, Safe

\* Taking the first task.
LEMMA BeginsTakes ==
    ASSUME Inv, NEW r \in Req, NEW do \in {"attach", "submit"}, Begins(r, do)
    PROVE  /\ task' \in [Req -> Tasks]
           /\ \A q \in Req : q # r => task'[q] = task[q]
           /\ task[r] # <<>> /\ Head(task[r]).do = do /\ Head(task[r]).envelope \in Envelopes
           /\ ~Attaching(r)'
           /\ do = "submit" => task'[r] = <<>>
           /\ row[r] # None /\ trails[r] = "unknown"
           /\ \A h \in Handler : ~Signing(h, r)
  <1>1. task[r] # <<>> /\ Head(task[r]).do = do /\ task' = [task EXCEPT ![r] = Tail(@)]
    BY DEF Begins
  <1>2. /\ Tail(task[r]) \in Tasks /\ Head(task[r]) \in Task
        /\ Tail(task[r]) # <<>> =>
              Head(task[r]).do = "attach" /\ Head(Tail(task[r])).do = "submit"
    BY <1>1, TasksRunOut DEF Inv, TypeInv
  <1>3. /\ task' \in [Req -> Tasks] /\ task'[r] = Tail(task[r])
        /\ \A q \in Req : q # r => task'[q] = task[q]
    BY <1>1, <1>2 DEF Inv, TypeInv
  <1>4. Head(task[r]).envelope \in Envelopes
    BY <1>2 DEF Task
  <1>5. ~Attaching(r)' /\ (do = "submit" => task'[r] = <<>>)
    BY <1>1, <1>2, <1>3 DEF Attaching
  <1>6. row[r] # None /\ trails[r] = "unknown" /\ \A h \in Handler : ~Signing(h, r)
    BY <1>1 DEF Inv, Tasked, Answered, Silent
  <1> QED
    BY <1>1, <1>3, <1>4, <1>5, <1>6

LEMMA AttachIsSafe ==
    ASSUME Inv, NEW r \in Req, Attach(r)
    PROVE  Inv'
  <1>1. /\ task' \in [Req -> Tasks]
        /\ \A q \in Req : q # r => task'[q] = task[q]
        /\ Attaching(r) /\ Head(task[r]).envelope \in Envelopes
        /\ ~Attaching(r)'
        /\ row[r] # None /\ trails[r] = "unknown"
        /\ \A h \in Handler : ~Signing(h, r)
    BY BeginsTakes DEF Attach, Attaching
  <1>2. UNCHANGED <<deployment, issued, unsound, handler, sweep, trails, now, restarts>>
    BY DEF Attach, claims
  <1>3. /\ row[r] \in Rows /\ row[r].receipt = None /\ row[r].stamp = None
        /\ issued[r] = Sign(Head(task[r]).envelope)
    BY <1>1 DEF Inv, TypeInv, Tasked
  <1>4. Trailed(r) /\ Receipted(r)
    BY DEF Inv
  <1>5. PICK new \in Rows :
           /\ row' = [row EXCEPT ![r] = new]
           /\ new.trail = row[r].trail /\ new.block = row[r].block
           /\ new.precedence = row[r].precedence /\ new.stamp = None
           /\ \/ new.receipt = issued[r] /\ lost' = lost
              \/ new.receipt = None /\ lost' = lost \cup {r}
    <2>1. CASE UNCHANGED row /\ lost' = lost \cup {r}
      BY <1>3, <2>1 DEF Inv, TypeInv
    <2>2. CASE /\ row' = [row EXCEPT ![r] = WithReceipt(@, Head(task[r]).envelope)]
               /\ UNCHANGED lost
      <3> DEFINE env == Head(task[r]).envelope
                 new == WithReceipt(row[r], env)
      <3>1. Sign(env) \in Receipts
        BY <1>1, SignSigns DEF Inv
      <3>2. /\ new \in Rows /\ new.receipt = Sign(env) /\ new.stamp = None
            /\ new.trail = row[r].trail /\ new.block = row[r].block
            /\ new.precedence = row[r].precedence
        <4> HIDE DEF env
        <4> QED
          BY <1>3, <3>1 DEF WithReceipt, Stamp, Rows
      <3>3. row' = [row EXCEPT ![r] = new]
        BY <2>2
      <3> HIDE DEF new
      <3> QED
        BY <1>3, <2>2, <3>2, <3>3
    <2> QED
      BY <2>1, <2>2 DEF Attach
  <1>6. /\ row' \in [Req -> Rows \cup {None}] /\ row'[r] = new
        /\ \A q \in Req : q # r => row'[q] = row[q]
    BY <1>5 DEF Inv, TypeInv
  <1>7. TypeInv' /\ Admitted'
    BY <1>1, <1>2, <1>5, <1>6 DEF Inv, TypeInv, Admitted
  <1>8. ASSUME NEW q \in Req, q # r PROVE Safe(q)'
    <2>1. lost \subseteq lost' /\ \A h \in Handler : Signing(h, q)' => Signing(h, q)
      BY <1>2, <1>5 DEF Signing
    <2> QED
      BY <1>1, <1>2, <1>6, <1>8, <2>1, OthersStay
  <1>9. Safe(r)'
    <2>1. new # None
      BY NoneAssumption
    <2>2. \A h \in Handler : ~Signing(h, r)'
      BY <1>1, <1>2 DEF Signing
    <2>3. Answered(r)'
      BY <1>6, <2>1, <2>2 DEF Answered
    <2>4. Tasked(r)'
      BY <1>1, <1>2, <1>6, <2>1 DEF Tasked
    <2>5. Trailed(r)'
      BY <1>1, <1>2, <1>4, <1>5, <1>6 DEF Trailed
    <2>6. Signed(issued[r])
      BY <1>1, <1>3, SignSigns DEF Inv
    <2>7. Receipted(r)'
      BY <1>2, <1>5, <1>6, <2>6 DEF Receipted, Signed
    <2> QED
      BY <2>3, <2>4, <2>5, <2>7 DEF Safe
  <1> QED
    BY <1>7, <1>8, <1>9 DEF Inv, Safe

LEMMA SubmitIsSafe ==
    ASSUME Inv, NEW r \in Req, Submit(r)
    PROVE  Inv'
  <1>1. /\ task' \in [Req -> Tasks]
        /\ \A q \in Req : q # r => task'[q] = task[q]
        /\ ~Attaching(r) /\ task'[r] = <<>>
        /\ row[r] # None /\ trails[r] = "unknown"
        /\ \A h \in Handler : ~Signing(h, r)
    BY BeginsTakes DEF Submit, Attaching
  <1>2. UNCHANGED <<deployment, issued, unsound, handler, lost, sweep, now, restarts>>
    BY DEF Submit, claims
  <1>3. row[r] \in Rows /\ Trailed(r) /\ Receipted(r)
    BY <1>1 DEF Inv, TypeInv
  <1>4. PICK new \in Rows, known \in {"unknown", "registered"} :
           /\ row' = [row EXCEPT ![r] = new]
           /\ trails' = [trails EXCEPT ![r] = known]
           /\ new.receipt = row[r].receipt /\ new.stamp = row[r].stamp
           /\ new.block = None /\ new.precedence = FALSE
           /\ new.trail => known = "registered"
    <2>1. row[r].trail = FALSE /\ row[r].block = None /\ row[r].precedence = FALSE
      BY <1>1, <1>3 DEF Trailed, Rows
    <2>2. /\ WithTrail(row[r]) \in Rows
          /\ WithTrail(row[r]).receipt = row[r].receipt /\ WithTrail(row[r]).stamp = row[r].stamp
          /\ WithTrail(row[r]).block = None /\ WithTrail(row[r]).precedence = FALSE
      BY <1>3 DEF WithTrail, Rows
    <2>3. CASE UNCHANGED <<row, trails>>
      BY <1>1, <1>3, <2>1, <2>3 DEF Inv, TypeInv
    <2>4. CASE trails' = [trails EXCEPT ![r] = "registered"] /\ UNCHANGED row
      BY <1>3, <2>1, <2>4 DEF Inv, TypeInv
    <2>5. CASE /\ trails' = [trails EXCEPT ![r] = "registered"]
               /\ row' = [row EXCEPT ![r] = WithTrail(@)]
      BY <2>2, <2>5
    <2> QED
      BY <2>3, <2>4, <2>5 DEF Submit
  <1>5. /\ row' \in [Req -> Rows \cup {None}] /\ row'[r] = new
        /\ \A q \in Req : q # r => row'[q] = row[q]
    BY <1>4 DEF Inv, TypeInv
  <1>6. /\ trails' \in [Req -> {"unknown", "registered", "anchored"}] /\ trails'[r] = known
        /\ \A q \in Req : q # r => trails'[q] = trails[q]
    BY <1>4 DEF Inv, TypeInv
  <1>7. TypeInv' /\ Admitted'
    BY <1>1, <1>2, <1>5, <1>6 DEF Inv, TypeInv, Admitted
  <1>8. ASSUME NEW q \in Req, q # r PROVE Safe(q)'
    <2>1. \A h \in Handler : Signing(h, q)' => Signing(h, q)
      BY <1>2 DEF Signing
    <2> QED
      BY <1>1, <1>2, <1>5, <1>6, <1>8, <2>1, OthersStay
  <1>9. Safe(r)'
    <2>1. new # None
      BY NoneAssumption
    <2>2. \A h \in Handler : ~Signing(h, r)'
      BY <1>1, <1>2 DEF Signing
    <2>3. Answered(r)'
      BY <1>5, <2>1, <2>2 DEF Answered
    <2>4. ~Attaching(r)' /\ Tasked(r)'
      BY <1>1 DEF Tasked, Attaching
    <2>5. Trailed(r)'
      BY <1>4, <1>5, <1>6 DEF Trailed
    <2>6. Receipted(r)'
      BY <1>1, <1>2, <1>3, <1>4, <1>5, <2>1 DEF Receipted, Signed
    <2> QED
      BY <2>3, <2>4, <2>5, <2>6 DEF Safe
  <1> QED
    BY <1>7, <1>8, <1>9 DEF Inv, Safe

LEMMA AnchorIsSafe ==
    ASSUME Inv, NEW r \in Req, Anchor(r)
    PROVE  Inv'
  <1>1. /\ trails[r] = "registered" /\ trails' = [trails EXCEPT ![r] = "anchored"]
        /\ UNCHANGED <<deployment, row, issued, unsound, handler, task, lost, sweep, now, restarts>>
    BY DEF Anchor, claims
  <1>2. /\ trails' \in [Req -> {"unknown", "registered", "anchored"}] /\ trails'[r] = "anchored"
        /\ \A q \in Req : q # r => trails'[q] = trails[q]
    BY <1>1 DEF Inv, TypeInv
  <1>3. TypeInv' /\ Admitted'
    BY <1>1, <1>2 DEF Inv, TypeInv, Admitted
  <1>4. ASSUME NEW q \in Req, q # r PROVE Safe(q)'
    <2>1. \A h \in Handler : Signing(h, q)' => Signing(h, q)
      BY <1>1 DEF Signing
    <2> QED
      BY <1>1, <1>2, <1>4, <2>1, OthersStay
  <1>5. Safe(r)'
    <2>1. Answered(r) /\ Tasked(r) /\ Trailed(r) /\ Receipted(r)
      BY DEF Inv
    <2>2. row[r] # None /\ task[r] = <<>> /\ \A h \in Handler : ~Signing(h, r)
      BY <1>1, <2>1 DEF Answered, Tasked, Silent
    <2>3. \A h \in Handler : ~Signing(h, r)'
      BY <1>1, <2>2 DEF Signing
    <2>4. Answered(r)' /\ Tasked(r)'
      BY <1>1, <2>2, <2>3 DEF Answered, Tasked, Attaching
    <2>5. Trailed(r)' /\ Receipted(r)'
      BY <1>1, <1>2, <2>1 DEF Trailed, Receipted, Signed, Attaching
    <2> QED
      BY <2>4, <2>5 DEF Safe
  <1> QED
    BY <1>3, <1>4, <1>5 DEF Inv, Safe

LEMMA SweepIsSafe ==
    ASSUME Inv, NEW c \in Cron, NEW r \in Req,
           StartSweep(c) \/ PollInVain(c, r) \/ SweepStamps(r)
    PROVE  Inv'
  <1>1. UNCHANGED <<deployment, row, issued, unsound, handler, task, lost, trails, now, restarts>>
    BY DEF StartSweep, PollInVain, SweepStamps, Stamp, claims
  <1>2. sweep' \in [Cron -> SUBSET Req]
    BY DEF StartSweep, Candidates, Unconfirmed, PollInVain, SweepStamps, Inv, TypeInv
  <1>3. Admitted'
    BY <1>1 DEF Inv, Admitted
  <1> QED
    BY <1>1, <1>2, <1>3, StillIsSafe DEF Inv, TypeInv, Signing

\* A row is confirmed: its trail, or its stamp.
LEMMA ConfirmsIsSafe ==
    ASSUME Inv, NEW r \in Req, NEW new \in Rows, row[r] # None,
           row' = [row EXCEPT ![r] = new],
           UNCHANGED <<deployment, issued, unsound, handler, task, lost, trails, now, restarts>>,
           sweep' \in [Cron -> SUBSET Req],
           new.receipt = row[r].receipt,
           ~Attaching(r), \A h \in Handler : ~Signing(h, r),
           new.block # None <=> new.precedence,
           new.trail => trails[r] # "unknown",
           new.precedence => new.trail /\ trails[r] = "anchored"
    PROVE  Inv'
  <1>1. /\ row' \in [Req -> Rows \cup {None}] /\ row'[r] = new /\ new # None
        /\ \A q \in Req : q # r => row'[q] = row[q]
    BY NoneAssumption DEF Inv, TypeInv
  <1>2. TypeInv' /\ Admitted'
    BY <1>1 DEF Inv, TypeInv, Admitted
  <1>3. \A h \in Handler, q \in Req : Signing(h, q)' <=> Signing(h, q)
    BY DEF Signing
  <1>4. ASSUME NEW q \in Req, q # r PROVE Safe(q)'
    BY <1>1, <1>3, <1>4, OthersStay
  <1>5. Safe(r)'
    <2>1. Answered(r) /\ Tasked(r) /\ Receipted(r)
      BY DEF Inv
    <2>2. ~Attaching(r)'
      BY DEF Attaching
    <2>3. Answered(r)'
      BY <1>1, <1>3 DEF Answered
    <2>4. Tasked(r)'
      BY <1>1, <2>1, <2>2 DEF Tasked
    <2>5. Trailed(r)'
      BY <1>1 DEF Trailed
    <2>6. Receipted(r)'
      BY <1>1, <2>1, <2>2 DEF Receipted, Signed
    <2> QED
      BY <2>3, <2>4, <2>5, <2>6 DEF Safe
  <1> QED
    BY <1>2, <1>4, <1>5 DEF Inv, Safe

\* What a poll writes.
LEMMA ConfirmedRow ==
    ASSUME Inv, NEW c \in Cron, NEW r \in Req, PollConfirms(c, r)
    PROVE  /\ row[r] # None /\ row[r] \in Rows
           /\ \E new \in Rows :
                 /\ row' = [row EXCEPT ![r] = new]
                 /\ new.receipt = row[r].receipt /\ new.stamp = row[r].stamp
                 /\ new.trail /\ new.block # None /\ new.precedence
  <1>1. Answered(r) /\ trails[r] = "anchored"
    BY DEF Inv, PollConfirms
  <1>2. row[r] # None /\ row[r] \in Rows
    BY <1>1 DEF Answered, Silent, Inv, TypeInv
  <1>3. PICK block \in {"time", "number"} :
           row' = [row EXCEPT ![r].trail = TRUE, ![r].block = block, ![r].precedence = TRUE]
    BY DEF PollConfirms
  <1> DEFINE new == [row[r] EXCEPT !.trail = TRUE, !.block = block, !.precedence = TRUE]
  <1>4. /\ new \in Rows /\ new.receipt = row[r].receipt /\ new.stamp = row[r].stamp
        /\ new.trail = TRUE /\ new.block = block /\ new.precedence = TRUE
    BY <1>2 DEF Rows
  <1>5. block # None
    BY NoneAssumption
  <1>6. row' = [row EXCEPT ![r] = new]
    BY <1>2, <1>3 DEF Inv, TypeInv
  <1> HIDE DEF new
  <1> QED
    BY <1>2, <1>4, <1>5, <1>6

LEMMA PollConfirmsIsSafe ==
    ASSUME Inv, NEW c \in Cron, NEW r \in Req, PollConfirms(c, r)
    PROVE  Inv'
  <1>1. PICK new \in Rows :
           /\ row' = [row EXCEPT ![r] = new]
           /\ new.receipt = row[r].receipt
           /\ new.trail /\ new.block # None /\ new.precedence
    BY ConfirmedRow
  <1>2. row[r] # None
    BY ConfirmedRow
  <1>3. /\ trails[r] = "anchored"
        /\ UNCHANGED <<deployment, issued, unsound, handler, task, lost, trails, now, restarts>>
        /\ sweep' \in [Cron -> SUBSET Req]
    BY DEF PollConfirms, claims, Inv, TypeInv
  <1>4. ~Attaching(r) /\ \A h \in Handler : ~Signing(h, r)
    BY <1>3 DEF Inv, Answered, Silent, Tasked, Attaching
  <1> QED
    BY <1>1, <1>2, <1>3, <1>4, ConfirmsIsSafe

\* What an upgrade writes.
LEMMA UpgradedRow ==
    ASSUME Inv, NEW r \in Req, SweepUpgrades(r)
    PROVE  /\ row[r] # None /\ row[r] \in Rows
           /\ \E new \in Rows :
                 /\ row' = [row EXCEPT ![r] = new]
                 /\ new.receipt = row[r].receipt /\ new.stamp = "confirmed"
                 /\ new.trail = row[r].trail /\ new.block = row[r].block
                 /\ new.precedence = row[r].precedence
  <1>1. row[r] # None /\ row[r] \in Rows
    BY DEF SweepUpgrades, Inv, TypeInv
  <1> DEFINE new == [row[r] EXCEPT !.stamp = "confirmed"]
  <1>2. /\ new \in Rows /\ new.receipt = row[r].receipt /\ new.stamp = "confirmed"
        /\ new.trail = row[r].trail /\ new.block = row[r].block
        /\ new.precedence = row[r].precedence
    BY <1>1 DEF Rows
  <1>3. row' = [row EXCEPT ![r] = new]
    BY <1>1 DEF SweepUpgrades, Inv, TypeInv
  <1> HIDE DEF new
  <1> QED
    BY <1>1, <1>2, <1>3

LEMMA SweepUpgradesIsSafe ==
    ASSUME Inv, NEW r \in Req, SweepUpgrades(r)
    PROVE  Inv'
  <1>1. PICK new \in Rows :
           /\ row' = [row EXCEPT ![r] = new]
           /\ new.receipt = row[r].receipt
           /\ new.trail = row[r].trail /\ new.block = row[r].block
           /\ new.precedence = row[r].precedence
    BY UpgradedRow
  <1>2. /\ row[r] # None /\ row[r].stamp = "submitted" /\ row[r].stamp # None
        /\ UNCHANGED <<deployment, issued, unsound, handler, task, lost, trails, now, restarts>>
        /\ sweep' \in [Cron -> SUBSET Req]
    BY NoneAssumption DEF SweepUpgrades, claims, Inv, TypeInv
  <1>3. ~Attaching(r) /\ \A h \in Handler : ~Signing(h, r)
    BY <1>2 DEF Inv, Answered, Tasked
  <1>4. Trailed(r)
    BY DEF Inv
  <1> QED
    BY <1>1, <1>2, <1>3, <1>4, ConfirmsIsSafe DEF Trailed

LEMMA RestartIsSafe ==
    ASSUME Inv, Restart
    PROVE  Inv'
  <1>1. /\ UNCHANGED <<deployment, row, issued, unsound, trails, now>>
        /\ restarts' = restarts + 1 /\ restarts + 1 < Len(Keys)
        /\ handler' = [h \in Handler |-> Idle]
        /\ task' = [r \in Req |-> <<>>]
        /\ sweep' = [c \in Cron |-> {}]
        /\ lost' = lost \cup {r \in Req : Attaching(r)}
    BY DEF Restart, Attaching
  <1>2. restarts' \in Nat /\ restarts' + 1 \in DOMAIN Keys
    <2>1. Keys \in Seq(KeyRange) /\ DOMAIN Keys = 1 .. Len(Keys) /\ Len(Keys) \in Nat
      BY KeysAssumption, LenProperties
    <2> QED
      BY <1>1, <2>1 DEF Inv, TypeInv
  <1>3. <<>> \in Tasks
    BY EmptySeq DEF Tasks
  <1>4. TypeInv' /\ Admitted'
    BY <1>1, <1>2, <1>3 DEF Inv, TypeInv, Admitted
  <1>5. ASSUME NEW q \in Req PROVE Safe(q)'
    <2>1. Answered(q) /\ Trailed(q) /\ Receipted(q)
      BY DEF Inv
    <2>2. \A h \in Handler : ~Signing(h, q)'
      BY <1>1 DEF Signing, Idle
    <2>3. task'[q] = <<>> /\ ~Attaching(q)'
      BY <1>1 DEF Attaching
    <2>4. Answered(q)' /\ Tasked(q)'
      BY <1>1, <2>1, <2>2, <2>3 DEF Answered, Tasked, Silent
    <2>5. Trailed(q)' /\ Receipted(q)'
      BY <1>1, <2>1 DEF Trailed, Receipted, Signed
    <2> QED
      BY <2>4, <2>5 DEF Safe
  <1> QED
    BY <1>4, <1>5 DEF Inv, Safe

-----------------------------------------------------------------------------
(* The theorems.                                                           *)

LEMMA InitIsSafe == Init => Inv
  <1> SUFFICES ASSUME Init PROVE Inv
    OBVIOUS
  <1>1. restarts = 0 /\ 1 \in DOMAIN Keys
    BY KeysAssumption, LenProperties, EmptySeq DEF Init
  <1>2. Key \in KeyRange
    BY <1>1 DEF Key, KeyRange
  <1>3. ASSUME NEW r \in Req
        PROVE  /\ LegacyRow(r) \in Rows /\ LegacyRow(r) # None
               /\ LegacyRow(r).receipt \in Receipts /\ Signed(LegacyRow(r).receipt)
               /\ LegacyRow(r).trail = FALSE /\ LegacyRow(r).block = None
               /\ LegacyRow(r).precedence = FALSE
    <2>1. Envelope(r, "payer", 0) \in Envelopes
      BY DEF Envelope, Envelopes
    <2>2. Sign(Envelope(r, "payer", 0)) \in Receipts /\ Signed(Sign(Envelope(r, "payer", 0)))
      BY <1>2, <2>1 DEF Sign, Receipts, Signed
    <2>3. Row("payer") \in Rows
      BY DEF Row, Rows, Init
    <2>4. LegacyRow(r) \in Rows /\ LegacyRow(r).receipt = Sign(Envelope(r, "payer", 0))
      BY <2>2, <2>3 DEF LegacyRow, Rows
    <2>5. /\ LegacyRow(r).trail = FALSE /\ LegacyRow(r).block = None
          /\ LegacyRow(r).precedence = FALSE
      BY DEF LegacyRow, Row
    <2> QED
      BY <2>2, <2>4, <2>5, NoneAssumption
  <1>4. <<>> \in Tasks
    BY EmptySeq DEF Tasks
  <1>5. \A r \in Req : row[r] \in {None, LegacyRow(r)}
    BY DEF Init
  <1>6. \A r \in Req : issued[r] = IF row[r] = None THEN None ELSE row[r].receipt
    BY DEF Init
  <1>7. TypeInv
    <2>1. row \in [Req -> Rows \cup {None}]
      BY <1>3, <1>5 DEF Init
    <2>2. issued \in [Req -> Receipts \cup {None}]
      BY <1>3, <1>5 DEF Init
    <2> QED
      BY <1>1, <1>4, <2>1, <2>2 DEF Init, TypeInv
  <1>8. ASSUME NEW r \in Req PROVE Answered(r) /\ Tasked(r) /\ Trailed(r) /\ Receipted(r)
    <2>1. /\ task[r] = <<>> /\ trails[r] = "unknown" /\ ~Attaching(r)
          /\ \A h \in Handler : ~Signing(h, r)
      BY DEF Init, Attaching, Signing, Idle
    <2>2. Answered(r) /\ Tasked(r)
      BY <1>6, <2>1 DEF Answered, Tasked, Silent
    <2>3. Trailed(r) /\ Receipted(r)
      BY <1>3, <1>5, <1>6, <2>1 DEF Trailed, Receipted
    <2> QED
      BY <2>2, <2>3
  <1> QED
    BY <1>7, <1>8 DEF Inv, Init, Admitted

LEMMA NextIsSafe == Inv /\ [Next]_vars => Inv'
  <1> SUFFICES ASSUME Inv, [Next]_vars PROVE Inv'
    OBVIOUS
  <1>1. ASSUME NEW h \in Handler, Serve(h) PROVE Inv'
    BY <1>1, ReceiveIsSafe, AttestIsSafe, InsertIsSafe, SignAndAnswerIsSafe DEF Serve
  <1>2. ASSUME NEW r \in Req, Attach(r) \/ Submit(r) \/ Anchor(r) \/ SweepUpgrades(r)
        PROVE  Inv'
    BY <1>2, AttachIsSafe, SubmitIsSafe, AnchorIsSafe, SweepUpgradesIsSafe
  <1>3. ASSUME NEW c \in Cron, NEW r \in Req, PollInVain(c, r) \/ PollConfirms(c, r)
        PROVE  Inv'
    BY <1>3, SweepIsSafe, PollConfirmsIsSafe
  <1>4. ASSUME UNCHANGED <<deployment, row, issued, unsound, handler, task, lost, trails,
                           now, restarts>>,
               sweep' \in [Cron -> SUBSET Req]
        PROVE  Inv'
    BY <1>4, StillIsSafe DEF Inv, TypeInv, Signing, Admitted
  <1>5. ASSUME NEW c \in Cron, StartSweep(c) PROVE Inv'
    BY <1>4, <1>5 DEF StartSweep, Candidates, Unconfirmed, claims, Inv, TypeInv
  <1>6. ASSUME NEW r \in Req, SweepStamps(r) PROVE Inv'
    BY <1>4, <1>6 DEF SweepStamps, Stamp, claims, Inv, TypeInv
  <1>7. CASE UNCHANGED vars
    BY <1>4, <1>7 DEF vars, Inv, TypeInv
  <1> QED
    BY <1>1, <1>2, <1>3, <1>5, <1>6, <1>7, TickIsSafe, RestartIsSafe DEF Next

LEMMA Invariance == Spec => []Inv
  BY InitIsSafe, NextIsSafe, PTL DEF Spec

\* Every reachable state of the hosted receipts is well typed.
THEOREM ReceiptsTyped == Spec => []TypeInv
  <1>1. Inv => TypeInv
    BY DEF Inv
  <1> QED
    BY <1>1, Invariance, PTL

\* The receipt an agent was answered with is the one stored with the row, or
\* still waits to be, or the task that would store it died.
THEOREM ReceiptsAreStored == Spec => []ReceiptIsStored
  <1>1. Inv => ReceiptIsStored
    BY DEF Inv, Receipted, Attaching, ReceiptIsStored
  <1> QED
    BY <1>1, Invariance, PTL

\* Every receipt answered, and every proof made on demand, passes the offline
\* verifier, whatever keys the restarts bring; a stored one fails its chain
\* check and nothing else.
THEOREM ReceiptsVerify == Spec => []ProofsVerify
  <1>1. Inv => ProofsVerify
    <2> SUFFICES ASSUME Inv, NEW r \in Req
                 PROVE  /\ issued[r] # None =>
                              ChainHolds(issued[r]) /\ AdmissionHolds(issued[r])
                        /\ row[r] # None /\ (row[r].receipt # None \/ Key # None) =>
                              /\ AdmissionHolds(Proof(r))
                              /\ ChainHolds(Proof(r)) <=> (row[r].receipt = None)
      BY DEF ProofsVerify
    <2>1. Receipted(r)
      BY DEF Inv
    <2>2. issued[r] # None => ChainHolds(issued[r]) /\ AdmissionHolds(issued[r])
      <3> SUFFICES ASSUME issued[r] # None PROVE ChainHolds(issued[r]) /\ AdmissionHolds(issued[r])
        OBVIOUS
      <3>1. issued[r].bytes \in Envelopes
        BY DEF Inv, TypeInv, Receipts
      <3> QED
        BY <2>1, <3>1, NoneAssumption DEF Receipted, Signed, ChainHolds, AdmissionHolds
    <2>3. CASE row[r] # None /\ row[r].receipt # None
      <3>1. row[r] \in Rows /\ row[r].receipt \in Receipts
        BY <2>3 DEF Inv, TypeInv, Rows
      <3>2. /\ Proof(r).bytes = None /\ Proof(r).hash = row[r].receipt.hash
            /\ Proof(r).verifier = row[r].receipt.verifier
            /\ Proof(r).signature = row[r].receipt.signature
        BY <2>3, <3>1 DEF Proof, Receipts
      <3> QED
        BY <2>1, <2>2, <2>3, <3>2 DEF Receipted, Signed, ChainHolds, AdmissionHolds
    <2>4. CASE row[r] # None /\ row[r].receipt = None
      <3> DEFINE env == Envelope(r, row[r].actor, row[r].at)
      <3>1. env \in Envelopes
        BY <2>4 DEF Envelope, Envelopes, Rows, Inv, TypeInv
      <3>2. Proof(r) = Sign(env)
        BY <2>4 DEF Proof
      <3>3. env # None
        BY <3>1, NoneAssumption
      <3> HIDE DEF env
      <3> QED
        BY <2>2, <2>4, <3>2, <3>3 DEF Sign, ChainHolds, AdmissionHolds
    <2> QED
      BY <2>2, <2>3, <2>4
  <1> QED
    BY <1>1, Invariance, PTL

\* A trail reported as submitted is known to its service, one reported as
\* confirmed is anchored, and status and order agree.
THEOREM AnchorsAreReal == Spec => []AnchorIsReal
  <1>1. Inv => AnchorIsReal
    <2> SUFFICES ASSUME Inv, NEW r \in Req, row[r] # None
                 PROVE  LET said == AnchorReport(r) IN
                        /\ said.status = "confirmed" <=> said.assertable
                        /\ said.status # "not_submitted" => row[r].stamp # None \/ trails[r] # "unknown"
                        /\ said.assertable => row[r].stamp = "confirmed" \/ trails[r] = "anchored"
      BY DEF AnchorIsReal
    <2>1. Trailed(r) /\ row[r] \in Rows
      BY DEF Inv, TypeInv
    <2>2. row[r].precedence \in BOOLEAN /\ row[r].trail \in BOOLEAN
      BY <2>1 DEF Rows
    <2>3. CASE Governance(r) # None /\ row[r].stamp # None
      BY <2>3 DEF AnchorReport, Report
    <2>4. CASE ~(Governance(r) # None /\ row[r].stamp # None) /\ Trail(r) # None
      <3>1. row[r].trail
        BY <2>4 DEF Trail
      <3>2. AnchorReport(r) = Report(row[r].block # None, row[r].precedence)
        BY <2>4 DEF AnchorReport
      <3> QED
        BY <2>1, <2>2, <3>1, <3>2 DEF Trailed, Report
    <2>5. CASE ~(Governance(r) # None /\ row[r].stamp # None) /\ Trail(r) = None
      <3>1. AnchorReport(r) = [status |-> "not_submitted", assertable |-> FALSE]
        BY <2>5 DEF AnchorReport
      <3> QED
        BY <3>1
    <2> QED
      BY <2>3, <2>4, <2>5
  <1> QED
    BY <1>1, Invariance, PTL

\* Where an attestation is required and the gate can be imported, no paid claim
\* reaches its row without one the gate found sound.
THEOREM AdmittedSoundly == Spec => []AdmittedWhenRequired
  <1>1. Inv => AdmittedWhenRequired
    BY DEF Inv, Admitted, AdmittedWhenRequired
  <1> QED
    BY <1>1, Invariance, PTL

\* A confirmed row stays confirmed, though sweeps overlap and write what they
\* read before an await.
THEOREM ConfirmationsStay == Spec => ConfirmedStays
  <1> DEFINE Kept(r) == row[r] # None =>
                            /\ row[r].block # None => row'[r].block # None /\ row'[r].precedence
                            /\ row[r].stamp = "confirmed" => row'[r].stamp = "confirmed"
  <1>1. Inv /\ [Next]_vars => [\A r \in Req : Kept(r)]_vars
    <2> SUFFICES ASSUME Inv, Next, NEW r \in Req, row[r] # None PROVE Kept(r)
      OBVIOUS
    <2>1. Trailed(r) /\ row[r] \in Rows
      BY DEF Inv, TypeInv
    <2>2. CASE row'[r] = row[r]
      BY <2>1, <2>2 DEF Trailed
    <2>3. ASSUME NEW h \in Handler, Insert(h) PROVE row'[r] = row[r]
      BY <2>3 DEF Insert, Inv, TypeInv
    <2>4. ASSUME NEW q \in Req, Attach(q) PROVE Kept(r)
      <3>1. CASE q # r
        BY <2>2, <2>4, <3>1 DEF Attach, Inv, TypeInv
      <3>2. CASE q = r
        <4>1. row[r].stamp = None /\ None # "confirmed"
          BY <2>4, <3>2, BeginsTakes, NoneAssumption DEF Attach, Inv, Tasked, Attaching, Begins
        <4>2. CASE row' = [row EXCEPT ![r] = WithReceipt(@, Head(task[r]).envelope)]
          <5>1. row'[r] = WithReceipt(row[r], Head(task[r]).envelope)
            BY <4>2 DEF Inv, TypeInv
          <5>2. row'[r].block = row[r].block /\ row'[r].precedence = row[r].precedence
            BY <2>1, <5>1 DEF WithReceipt, Rows
          <5> QED
            BY <2>1, <4>1, <5>2 DEF Trailed
        <4> QED
          BY <2>2, <2>4, <3>2, <4>2 DEF Attach
      <3> QED
        BY <3>1, <3>2
    <2>5. ASSUME NEW q \in Req, Submit(q) PROVE Kept(r)
      <3>1. CASE q # r
        BY <2>2, <2>5, <3>1 DEF Submit, Inv, TypeInv
      <3>2. CASE q = r
        <4>1. trails[r] = "unknown"
          BY <2>5, <3>2, BeginsTakes DEF Submit
        <4>2. row[r].block = None
          BY <2>1, <4>1 DEF Trailed
        <4>3. CASE row' = [row EXCEPT ![r] = WithTrail(@)]
          <5>1. row'[r] = WithTrail(row[r])
            BY <4>3 DEF Inv, TypeInv
          <5>2. row'[r].stamp = row[r].stamp
            BY <2>1, <5>1 DEF WithTrail, Rows
          <5> QED
            BY <4>2, <5>2
        <4> QED
          BY <2>2, <2>5, <3>2, <4>3 DEF Submit
      <3> QED
        BY <3>1, <3>2
    <2>6. ASSUME NEW c \in Cron, NEW q \in Req, PollConfirms(c, q) PROVE Kept(r)
      BY <2>2, <2>6, ConfirmedRow DEF Inv, TypeInv
    <2>7. ASSUME NEW q \in Req, SweepUpgrades(q) PROVE Kept(r)
      BY <2>1, <2>2, <2>7, UpgradedRow DEF Inv, TypeInv, Trailed
    <2>8. ASSUME \/ Tick \/ Restart
                 \/ \E h \in Handler :
                       (\E q \in Req : Receive(h, q)) \/ Attest(h) \/ SignAndAnswer(h)
                 \/ \E q \in Req : Anchor(q) \/ SweepStamps(q)
                 \/ \E c \in Cron : StartSweep(c) \/ \E q \in Req : PollInVain(c, q)
          PROVE  row' = row
      BY <2>8 DEF Tick, Restart, Receive, Attest, SignAndAnswer, Anchor, SweepStamps, Stamp,
                  StartSweep, PollInVain
    <2> QED
      BY <2>2, <2>3, <2>4, <2>5, <2>6, <2>7, <2>8 DEF Next, Serve
  <1> QED
    BY <1>1, Invariance, PTL DEF Spec, ConfirmedStays
=============================================================================
