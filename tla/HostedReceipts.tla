---------------------------- MODULE HostedReceipts ----------------------------
(***************************************************************************)
(* The receipts of the hosted service: a claim that wins its row is        *)
(* answered with a signed envelope, which background tasks then store with *)
(* the row and submit as a trail; cron sweeps ask later whether trails and *)
(* older calendar stamps are confirmed; GET proof serves the receipt.      *)
(*                                                                         *)
(*   claim: [gate] --> insert --> sign, answer --> attach --> submit       *)
(*   sweep: read the unconfirmed, oldest first --> poll each --> write     *)
(*                                                                         *)
(* Claims and settles race in HostedClaims; here a row never goes away and *)
(* its status plays no part.  Handlers and sweeps of several processes     *)
(* interleave at their store and network calls; a restart ends them all.   *)
(***************************************************************************)
EXTENDS Naturals, FiniteSets, Sequences

CONSTANTS
    Req,             \* stored request ids
    Test, Legacy,    \* those of /claim/test, and those stored with a stamp
    Handler, Cron,   \* claims, and sweeps, that can be under way at once
    Deployments,     \* the configurations considered
    Dead,            \* those whose trail will never be confirmed
    Keys,            \* the signing key before and after each restart
    SweepLimit,      \* rows a sweep reads
    TestLimit,       \* /claim/test calls a process allows
    MaxTime,         \* bound of the clock
    None

INSTANCE AttestationGate WITH Absent <- None

\* What is signed, what a receipt holds, and the columns of a row.
Envelopes == [request : Req, actor : {"", "payer", "tester"}, at : Nat]
KeyRange  == {Keys[i] : i \in DOMAIN Keys}
Receipts  == [bytes : Envelopes, hash : Envelopes,
              verifier : KeyRange, signature : KeyRange \X Envelopes]
Rows      == [at : Nat, actor : {"", "payer", "tester"}, receipt : Receipts \cup {None},
              stamp : {None, "submitted", "confirmed"}, trail : BOOLEAN,
              block : {None, "time", "number"}, precedence : BOOLEAN]

ASSUME DeploymentAssumption ==
    \A d \in Deployments : d.policy \in Policy /\ d.importable \in BOOLEAN
ASSUME KeysAssumption == Keys \in Seq(KeyRange) /\ Keys # <<>>
ASSUME NoneAssumption ==
    /\ None \notin Rows /\ None \notin Receipts /\ None \notin Envelopes
    /\ None \notin {"submitted", "confirmed", "time", "number", "refuse", "other"}

VARIABLES
    deployment,      \* [durable, trails, policy, importable]: the store,
                     \* MYCELIUM_ENABLED, the gate and whether it can be imported
    row,             \* Req -> its row
    issued,          \* Req -> the receipt its PROCEED answer carried
    unsound,         \* the paid claims let in without a sound attestation
    handler,         \* Handler -> the claim it serves
    task,            \* Req -> the background tasks left to do
    lost,            \* requests whose background tasks died
    sweep,           \* Cron -> the rows a sweep has still to poll
    trails,          \* Req -> what the trail service knows of it
    tested,          \* /claim/test calls of this process
    now, restarts

vars == <<deployment, row, issued, unsound, handler, task, lost, sweep, trails,
          tested, now, restarts>>
claims == <<issued, unsound, handler, tested>>

Key == Keys[restarts + 1]

Envelope(r, actor, at) == [request |-> r, actor |-> actor, at |-> at]

\* Mutant: the published key is put into the receipt, whatever key signs.
SignPublished(env) ==
    [bytes |-> env, hash |-> env, verifier |-> Keys[1], signature |-> <<Key, env>>]

\* A receipt, with the key derived from the one that signs.  A signature is
\* what it proves: which key signed what; its random bytes are left out.
Sign(env) ==
    [bytes |-> env, hash |-> env, verifier |-> Key, signature |-> <<Key, env>>]

\* Mutant: calendar submission is on again.
Stamped(env) == "submitted"

\* Calendar submission is disabled.
Stamp(env) == None

Row(actor) ==
    [at |-> now, actor |-> actor, receipt |-> None, stamp |-> None,
     trail |-> FALSE, block |-> None, precedence |-> FALSE]

\* Rows written before calendar submission was disabled.
LegacyRow(r) ==
    [Row("payer") EXCEPT !.receipt = Sign(Envelope(r, "payer", 0)), !.stamp = "submitted"]

Idle == [step |-> "idle"]

Init ==
    /\ deployment \in Deployments
    /\ now = 0 /\ restarts = 0 /\ tested = 0
    /\ row = [r \in Req |-> IF r \in Legacy /\ deployment.durable THEN LegacyRow(r) ELSE None]
    /\ issued = [r \in Req |-> IF row[r] = None THEN None ELSE row[r].receipt]
    /\ unsound = {} /\ lost = {}
    /\ handler = [h \in Handler |-> Idle]
    /\ task = [r \in Req |-> <<>>]
    /\ sweep = [c \in Cron |-> {}]
    /\ trails = [r \in Req |-> "unknown"]

Tick ==
    /\ now < MaxTime
    /\ now' = now + 1
    /\ UNCHANGED <<deployment, row, claims, task, lost, sweep, trails, restarts>>

-----------------------------------------------------------------------------
(* POST /claim and POST /claim/test.                                       *)

Step(h, r, step) == handler' = [handler EXCEPT ![h] = [step |-> step, req |-> r]]
Done(h) == handler' = [handler EXCEPT ![h] = Idle]

\* A test call is counted before anything else is done for it.  Claims of a
\* legacy request are left out: they find its row and change nothing.
Receive(h, r) ==
    /\ handler[h] = Idle /\ r \notin Legacy
    /\ \/ /\ r \notin Test
          /\ Step(h, r, "gate")
          /\ UNCHANGED tested
       \/ /\ r \in Test /\ tested < TestLimit
          /\ tested' = tested + 1
          /\ Step(h, r, "insert")
    /\ UNCHANGED <<deployment, row, issued, unsound, task, lost, sweep, trails, now, restarts>>

\* The answers of the attestation service are awaited, then decided on.
Attest(h) ==
    LET r == handler[h].req IN
    /\ handler[h].step = "gate"
    /\ \E outcome \in Outcomes(deployment.policy, deployment.importable) :
          IF outcome[1] = "DENY" THEN Done(h) /\ UNCHANGED unsound
          ELSE /\ Step(h, r, "insert")
               /\ unsound' = IF outcome[2] THEN unsound ELSE unsound \cup {r}
    /\ UNCHANGED <<deployment, row, issued, task, lost, sweep, trails, tested, now, restarts>>

\* get and claim: a row is found or inserted; the insert may be taken for
\* lost although it was committed, and the claim answered PENDING.
Insert(h) ==
    LET r == handler[h].req IN
    /\ handler[h].step = "insert"
    /\ IF row[r] # None THEN Done(h) /\ UNCHANGED row
       ELSE /\ row' = [row EXCEPT ![r] = Row(IF r \in Test THEN "" ELSE "payer")]
            /\ Step(h, r, "sign") \/ Done(h)
    /\ UNCHANGED <<deployment, issued, unsound, task, lost, sweep, trails, tested, now, restarts>>

\* The envelope takes the time of signing, and for a test claim the caller
\* the row does not keep.  Without a key nothing is signed.
SignAndAnswer(h) ==
    LET r   == handler[h].req
        env == Envelope(r, IF r \in Test THEN "tester" ELSE "payer", now)
    IN
    /\ handler[h].step = "sign"
    /\ issued' = [issued EXCEPT ![r] = IF Key = None THEN None ELSE Sign(env)]
    /\ task' = [task EXCEPT ![r] =
           (IF Key = None THEN <<>> ELSE <<[do |-> "attach", envelope |-> env]>>)
           \o (IF deployment.trails THEN <<[do |-> "submit", envelope |-> env]>> ELSE <<>>)]
    /\ Done(h)
    /\ UNCHANGED <<deployment, row, unsound, lost, sweep, trails, tested, now, restarts>>

-----------------------------------------------------------------------------
(* Background tasks, one after the other.                                  *)

Begins(r, do) ==
    /\ task[r] # <<>> /\ Head(task[r]).do = do
    /\ task' = [task EXCEPT ![r] = Tail(@)]

\* attach_governance overwrites all the receipt's columns.
WithReceipt(old, env) == [old EXCEPT !.receipt = Sign(env), !.stamp = Stamp(env)]

\* SQLiteExecutionStore cannot store a receipt; a store that raises is logged.
Attach(r) ==
    /\ Begins(r, "attach")
    /\ \/ /\ deployment.durable
          /\ row' = [row EXCEPT ![r] = WithReceipt(@, Head(task[r]).envelope)]
          /\ UNCHANGED lost
       \/ UNCHANGED row /\ lost' = lost \cup {r}
    /\ UNCHANGED <<deployment, claims, sweep, trails, now, restarts>>

\* Mutant: the trail is stored as confirmed when it is submitted.
WithTrailConfirmed(old) == [old EXCEPT !.trail = TRUE, !.block = "time", !.precedence = TRUE]

\* update_anchor_mycelium at claim time.
WithTrail(old) == [old EXCEPT !.trail = TRUE, !.block = None, !.precedence = FALSE]

\* The trail is posted; it may be registered and the answer not reach the
\* task, and then nobody knows its id.
Submit(r) ==
    /\ Begins(r, "submit")
    /\ \/ UNCHANGED <<row, trails>>
       \/ /\ trails' = [trails EXCEPT ![r] = "registered"]
          /\ \/ UNCHANGED row
             \/ deployment.durable /\ row' = [row EXCEPT ![r] = WithTrail(@)]
    /\ UNCHANGED <<deployment, claims, lost, sweep, now, restarts>>

\* The trail service anchors what is registered, sooner or later or never.
Anchor(r) ==
    /\ trails[r] = "registered" /\ r \notin Dead
    /\ trails' = [trails EXCEPT ![r] = "anchored"]
    /\ UNCHANGED <<deployment, row, claims, task, lost, sweep, now, restarts>>

-----------------------------------------------------------------------------
(* The cron endpoints.                                                     *)

Unconfirmed == {r \in Req : row[r] # None /\ row[r].trail /\ row[r].block = None}

\* Mutant: newest first.
NewestFirst ==
    {S \in SUBSET Unconfirmed :
        /\ Cardinality(S) = IF Cardinality(Unconfirmed) < SweepLimit
                            THEN Cardinality(Unconfirmed) ELSE SweepLimit
        /\ \A r \in S, q \in Unconfirmed \ S : row[q].at <= row[r].at}

\* ORDER BY claimed_at LIMIT: the batches a query may return.
Candidates ==
    {S \in SUBSET Unconfirmed :
        /\ Cardinality(S) = IF Cardinality(Unconfirmed) < SweepLimit
                            THEN Cardinality(Unconfirmed) ELSE SweepLimit
        /\ \A r \in S, q \in Unconfirmed \ S : row[r].at <= row[q].at}

\* POST /sweep/anchor/mycelium.
StartSweep(c) ==
    /\ deployment.durable /\ deployment.trails
    /\ sweep[c] = {} /\ Unconfirmed # {}
    /\ \E batch \in Candidates : sweep' = [sweep EXCEPT ![c] = batch]
    /\ UNCHANGED <<deployment, row, claims, task, lost, trails, now, restarts>>

\* Mutant: a trail not found confirmed is written back as unconfirmed.
PollWritesBack(c, r) ==
    /\ r \in sweep[c]
    /\ sweep' = [sweep EXCEPT ![c] = @ \ {r}]
    /\ row' = [row EXCEPT ![r] = WithTrail(@)]
    /\ UNCHANGED <<deployment, claims, task, lost, trails, now, restarts>>

\* Neither request to the trail service finds it confirmed, or they fail.
PollInVain(c, r) ==
    /\ r \in sweep[c]
    /\ sweep' = [sweep EXCEPT ![c] = @ \ {r}]
    /\ UNCHANGED <<deployment, row, claims, task, lost, trails, now, restarts>>

\* The trail is written as confirmed whatever the row says by now: with the
\* block time of verify_chain, or what the trail itself names, which may be
\* the number of the block.  precedence compares no times.
PollConfirms(c, r) ==
    /\ r \in sweep[c] /\ trails[r] = "anchored"
    /\ sweep' = [sweep EXCEPT ![c] = @ \ {r}]
    /\ \E block \in {"time", "number"} :
          row' = [row EXCEPT ![r].trail = TRUE, ![r].block = block, ![r].precedence = TRUE]
    /\ UNCHANGED <<deployment, claims, task, lost, trails, now, restarts>>

\* POST /sweep/anchor builds an envelope from the row, and would store it
\* with its stamp: there is none.
SweepStamps(r) ==
    LET env == Envelope(r, row[r].actor, row[r].at) IN
    /\ row[r] # None /\ Key # None
    /\ row[r].receipt = None \/ row[r].stamp = None
    /\ row' = IF deployment.durable /\ Stamp(env) # None
              THEN [row EXCEPT ![r] = WithReceipt(@, env)] ELSE row
    /\ UNCHANGED <<deployment, claims, task, lost, sweep, trails, now, restarts>>

\* POST /sweep/anchor/upgrade, for a stamp the calendar has completed.
SweepUpgrades(r) ==
    /\ row[r] # None /\ row[r].stamp = "submitted"
    /\ row' = [row EXCEPT ![r].stamp = "confirmed"]
    /\ UNCHANGED <<deployment, claims, task, lost, sweep, trails, now, restarts>>

-----------------------------------------------------------------------------

\* The process ends and another starts, perhaps with another key.
Restart ==
    /\ restarts + 1 < Len(Keys)
    /\ restarts' = restarts + 1
    /\ handler' = [h \in Handler |-> Idle]
    /\ lost' = lost \cup {r \in Req : task[r] # <<>> /\ Head(task[r]).do = "attach"}
    /\ task' = [r \in Req |-> <<>>]
    /\ sweep' = [c \in Cron |-> {}]
    /\ tested' = 0
    /\ UNCHANGED <<deployment, row, issued, unsound, trails, now>>

Serve(h) ==
    \/ \E r \in Req : Receive(h, r)
    \/ Attest(h) \/ Insert(h) \/ SignAndAnswer(h)

Next ==
    \/ \E h \in Handler : Serve(h)
    \/ \E r \in Req : Attach(r) \/ Submit(r) \/ Anchor(r) \/ SweepStamps(r) \/ SweepUpgrades(r)
    \/ \E c \in Cron :
          \/ StartSweep(c)
          \/ \E r \in Req : PollInVain(c, r) \/ PollConfirms(c, r)
    \/ Tick
    \/ Restart

Spec == Init /\ [][Next]_vars

\* The cron calls the sweep again and again and its requests end; the trail
\* service anchors every trail it is going to anchor; asked again and again
\* about an anchored trail, it sometimes answers.
Fairness ==
    /\ WF_vars(\E c \in Cron : StartSweep(c))
    /\ WF_vars(\E c \in Cron, r \in Req : PollInVain(c, r) \/ PollConfirms(c, r))
    /\ WF_vars(\E r \in Req : Anchor(r))
    /\ \A r \in Req \ Legacy : SF_vars(\E c \in Cron : PollConfirms(c, r))

FairSpec == Spec /\ Fairness

-----------------------------------------------------------------------------
(* What GET anchor and GET proof serve, and what the offline verifier makes *)
(* of a receipt.                                                           *)

\* get_governance and get_mycelium_anchor.
Governance(r) == IF row[r].receipt = None THEN None ELSE row[r]
Trail(r)      == IF row[r].trail THEN row[r] ELSE None

Report(confirmed, assertable) ==
    [status |-> IF confirmed THEN "confirmed" ELSE "submitted", assertable |-> assertable]

\* The calendar stamp goes before the trail; a trail is confirmed by its block
\* and its order asserted by its precedence.
AnchorReport(r) ==
    IF Governance(r) # None /\ row[r].stamp # None
    THEN Report(row[r].stamp = "confirmed", row[r].stamp = "confirmed")
    ELSE IF Trail(r) # None THEN Report(row[r].block # None, row[r].precedence)
    ELSE [status |-> "not_submitted", assertable |-> FALSE]

\* Out of the store the canonical bytes come under another name than the
\* verifier looks for; a row without a receipt gets one signed now.
Proof(r) ==
    IF row[r].receipt # None THEN [row[r].receipt EXCEPT !.bytes = None]
    ELSE Sign(Envelope(r, row[r].actor, row[r].at))

ChainHolds(receipt)     == receipt.bytes # None /\ receipt.bytes = receipt.hash
AdmissionHolds(receipt) == receipt.signature = <<receipt.verifier, receipt.hash>>

-----------------------------------------------------------------------------
(* Properties.                                                             *)

\* "If store has governance data, return it": the receipt an agent was
\* answered with is the one stored with the row, or it still waits to be, or
\* the task that would store it died; sweeps never put another in its place.
\* The task signs again, so it is the same up to the bytes of a signature by
\* the same key of the same envelope.
ReceiptIsStored ==
    \A r \in Req : issued[r] # None =>
        \/ row[r].receipt = issued[r]
        \/ /\ row[r].receipt = None
           /\ r \in lost \/ (task[r] # <<>> /\ Head(task[r]).do = "attach")

\* "Offline verifiable": every receipt answered passes the verifier, and so
\* does a proof made on demand; one out of the store fails its chain check
\* only.
ProofsVerify ==
    \A r \in Req :
        /\ issued[r] # None => ChainHolds(issued[r]) /\ AdmissionHolds(issued[r])
        /\ row[r] # None /\ (row[r].receipt # None \/ Key # None) =>
              /\ AdmissionHolds(Proof(r))
              /\ ChainHolds(Proof(r)) <=> (row[r].receipt = None)

\* What GET anchor reports is so, whatever was lost on the way or swept twice:
\* a trail it calls submitted is known to its service, one it calls confirmed
\* or whose order it asserts is anchored, and it never says the one without
\* the other.
AnchorIsReal ==
    \A r \in Req : row[r] # None =>
        LET said == AnchorReport(r) IN
        /\ said.status = "confirmed" <=> said.assertable
        /\ said.status # "not_submitted" => row[r].stamp # None \/ trails[r] # "unknown"
        /\ said.assertable => row[r].stamp = "confirmed" \/ trails[r] = "anchored"

\* A confirmed row stays confirmed, though sweeps overlap and write what
\* they read before an await.
ConfirmedStays ==
    [][\A r \in Req : row[r] # None =>
          /\ row[r].block # None => row'[r].block # None /\ row'[r].precedence
          /\ row[r].stamp = "confirmed" => row'[r].stamp = "confirmed"]_vars

\* "DENY before COMMITTED write": where an attestation is required and the gate
\* can be imported, no paid claim gets as far as its row without one the gate
\* found sound.  Where it cannot be imported claims go on, and the promise that
\* a missing attestation is answered with 403 does not hold.
AdmittedWhenRequired ==
    deployment.policy = "required" /\ deployment.importable => unsound = {}

\* Older trails that are never confirmed, which the sweep reads every time.
Ahead(r) == {q \in Dead : /\ row[q] # None /\ row[q].trail /\ row[q].at <= row[r].at}

Stored(r) == row[r] # None /\ row[r].trail

\* "Safe to call repeatedly": a stored trail that gets anchored is confirmed
\* in time, unless as many trails that never are as a sweep reads are ahead
\* of it.
StoredTrailConfirms ==
    \A r \in Req :
        (Stored(r) /\ r \notin Dead)
            ~> /\ Stored(r)
               /\ row[r].block # None \/ Cardinality(Ahead(r)) >= SweepLimit
=============================================================================
