# SafeAgent: models, checks and proofs

SafeAgent stands between an agent and an irreversible action (a payment, an order, an
e-mail). A caller names the action with a stable `request_id`; the guard lets one attempt
execute it, remembers that attempt before it happens and answers every repetition from what
it remembered. Around that core the repository has a boundary of signed one-use permits, a
Stripe adapter of that boundary, a hosted claim service with signed receipts, a guard against
selling a position twice, a settlement-case workflow and a control run that compares what
agents claimed with what a broker recorded.

This directory holds TLA+ modules translated from that code, TLC configurations that check
them on small instances, and proofs that TLAPS checks for instances of every size.
`PROJECT.json` maps every definition to the source lines it stands for.

- [1. The system](#1-the-system)
- [2. Modules](#2-modules)
- [3. Runs](#3-runs)
- [4. Where the code and its documents disagree](#4-where-the-code-and-its-documents-disagree)
- [5. Proofs](#5-proofs)
- [6. What is not modelled, and the plan](#6-what-is-not-modelled-and-the-plan)
- [7. Running the checks](#7-running-the-checks)

Paths below are relative to `src/`.

## 1. The system

### 1.1 Inventory

| component | state it keeps | operations | hard behaviour | what makes it correct |
|---|---|---|---|---|
| **Settlement request registry** `settlement/settlement_requests.py` | the backend it chose; in memory, `_exec_receipts` and the submitted requests | `execute`, `submit` | several processes and threads on one request id; an effect that happens and is not recorded; a replay that must say what the first run said | an effect happens at most once; receipts agree; a claim is resolved unless its owner died |
| **SQLite execution store** `safeagent_exec_guard/sqlite_store.py` | table `execution_requests` (WAL), one connection per store | `claim`, `settle`, `get`, `count_stale_pending`, `sweep_stale_pending` | a failed statement leaves a transaction open; threads share one connection; stale snapshots | the primary key decides one winner; a claim is never released; an outcome is never rewritten |
| **Registry Postgres store** `safeagent_exec_guard/postgres_store.py` | table `execution_requests` | `insert_if_not_exists`, `complete`, `get` | a call that raises after it committed | as above |
| **SafeAgent Boundary** `safeagent_exec_guard/boundary.py` | `boundary_permits`, `boundary_events`; the authority's key | `issue`, `authorize`, `consume`, executor, `finalize`, `dispatch` | two workers on one permit; two tokens with one permit id; expiry; a crash at any point; a store locked after the effect | one use, of exactly what the token binds; row and journal agree |
| **Stripe gateway** `safeagent_exec_guard/stripe_gateway.py` | `stripe_operations`, `stripe_webhook_events` | `dispatch` (prepare, create, observe, decision), `reconcile`, webhook `process` | webhooks late, repeated, reordered, lost; reconcilers beside a dispatch; lost create responses | final verdicts are true; a replay creates what was signed; a correlation is not lost |
| **Hosted claim service** `safeagent/main.py`, `safeagent_exec_guard/pg_store.py`, `hosted_access.py` | table of claims in Postgres; settlement tokens held by agents | `POST /claim`, `/claim/test`, `/settle` | several servers; lost requests and answers; retries beside a request still served; agents and servers die | an action is executed at most once; what was answered as committed is stored |
| **Case settlement** `settlement/{models,state_machine,reconciliation,policy,gate,store,postgres_store}.py` | cases with their signals, state, outcome, settlement id; per-process registries | `ingest_outcome_signal`, `resolve_case`, auto-finalization, `attempt_settlement`, `submit`, the stores | whole-case writes without a version; signals replaced, blanked, after the fact | the state says what is in the case; an id stands for one case and outcome |
| **Control reconciliation engine** `control/v15/reconcile_v12*.py`, `bipartite_solver_reference.py`, `reference_model_v12.py` | evidence graph, assignments, dispositions, findings (in memory, one call) | `reconcile`, `reconcile_with_disposition` | results must not depend on the order of lists; a polynomial solver must equal an enumerating one; no record may vanish | the result is that of the reference model; each record is reported |
| **Exit duplicate guard** `safeagent_exec_guard/exit_duplicate_guard.py`, `exit_guard_patch.py` | `exit_claims`, `phantom_positions`; for the patch, table `orders` of the bot | `claim_exit`, `mark_committed`, `mark_quarantined`, `clear_phantom`; `exit_qty_guarded` | select and insert are two statements; a claim that fails goes on without the guard; a row still PENDING lets a second exit of the patch through; no answer from the broker | an exit is sold once; a settled one is skipped; a row left PENDING has a cause |
| **Governance receipts and Mycelium trail** `safeagent_governance.py`, `safeagent_exec_guard/mycelium_trail.py`, `safeagent/main.py` | receipt, stamp and trail columns beside a claim | issue with a claim, background storage and submission, three sweeps, `GET /claim/{id}/proof` and `/anchor`, the offline verifier | background tasks lost at a restart; overlapping sweeps that await between read and write; keys that change | an answered receipt is stored; proofs verify; a confirmation is real and stays |
| **Attestation gate** `safeagent_exec_guard/attestation_gate.py` | none | `gate`, before a paid claim | attestation, keys or the gate itself may be missing or fail | where one is required nothing passes without a sound attestation, as long as the gate can be imported |
| **Broker ingestion** `control/v15/ingestion_normalization.py`, `alpaca_api_adapter.py`, `alpaca_orders_parser.py`, `safeagent_db_adapter.py`, `safeagent_claims_parser.py` | none (one run) | reading claims, paging through orders, consolidation of records | the bot and the broker move while they are read; records of one order that repeat, progress or disagree | nothing vanishes and no disagreement is decided silently |
| **Control CLI** `control/v15/control_cli.py`, `output_validator_v12.py` | the stage of a run; three report files | one `reconcile` run | every stage can end it | a finding has a reason |
| Hosted payment server `safeagent_exec_guard/payment_server.py` | as the hosted service | earlier variant of it | | *not modelled: its claim and settle are within what `HostedClaims` allows* |
| Adapters and clients (`decorators.py`, `langchain.py`, `mcp_adapter.py`, `mcp_server.py`, `payment_client.py`, `adapters/`) | none | call `execute`, claim and settle | | *not modelled: the callers of the models stand for them* |
| Advisory oracle `settlement/ai_oracle.py` | none | answers a question | | *not modelled: changes nothing* |
| Evidence harness `evidence/` | sealed ledger of a crash test | append, seal, read back | | *not modelled: a test that drives the boundary* |
| Telemetry and transports `otel_exporter.py`, `cybersource_transport.py` | none | I/O | | *not modelled: pure I/O* |
| Demos, scripts, site | none | | | *not modelled* |

### 1.2 How they interact

    decorators, langchain, mcp ──execute──► registry ──► SQLite store | Postgres store | memory
                                              │
                        settlement workflow ──┘ submit ──► gate ──► case store

    agent ──HTTP──► hosted service ──► PgExecutionStore        (agent executes after PROCEED)

    authority ──signs token──► agent ──► boundary.dispatch ──► permit store, executor
                                             ▲
                        Stripe gateway ──────┘ dispatch wraps it; webhooks and
                                               reconcilers write its own store
    bot ──exit──► exit guard ──► broker           hosted service ──background──► trail service
     │                             │                     ▲
     ▼                             ▼                     └── cron sweeps, GET proof
    bot's table ─┐            broker's orders
                 └──► ingestion ──► reconcile ──► findings, reports

All of it meets in databases: there is no message queue and no lock outside them. Concurrency
comes from processes and threads on one store, from HTTP handlers of several servers, from
webhooks beside dispatches, from background tasks and cron sweeps, and from crashes between a
write and the action it announces. A control run is sequential, but the bot and the broker it
reads go on; in the reconciliation engine itself what is hard is that its result must not depend
on list order and that a derived algorithm must equal a definition.

## 2. Modules

One abstract specification says what every front-end of the guard promises. The detailed
modules are translations of the code; those marked **⊑** are shown to implement it.

| module | models | EXTENDS / INSTANCE |
|---|---|---|
| `ExecClaims` | the promise: CLAIMABLE → PENDING → COMMITTED, one effect while pending, settled *ok* only if it happened, nothing released | |
| `TwoPhaseClaim` **⊑** | `execute` over one SQLite connection per process: read, claim, run, settle; open transactions and stale snapshots; stale counts; crashes | `Claims == INSTANCE ExecClaims` |
| `SharedConnection` | the same call by threads of one process on *one* connection, statement by statement | |
| `RegistryBackends` | `execute` over Postgres and in memory, with the fall-back between them | |
| `Permits` **⊑** | the boundary: authority, gateway workers, permit store | `Claims == INSTANCE ExecClaims` with permits as requests |
| `StripeGateway` | the Stripe adapter, its reconcilers and webhooks | EXTENDS `Permits`: a dispatch composes the adapter's steps with the boundary's |
| `HostedClaims` **⊑** | servers and agents of the hosted service | `Claims == INSTANCE ExecClaims` |
| `SettlementCase` | cases, the gate, the registry's `submit`, durable and in-memory stores | |
| `TierMatching` | what one evidence tier decides: operators over maximum matchings (the enumerating reference solver) | |
| `KuhnSolver` | the polynomial solver, call by call, against `TierMatching` | EXTENDS `TierMatching` |
| `Reconciliation` | `reconcile`: tiers, conflict pass, sweep, classification, against the reference model | EXTENDS `TierMatching` |
| `AttestationGate` | what `gate` decides of an attestation and what `POST /claim` makes of it: operators, no state | |
| `HostedReceipts` | receipts, background tasks, trails, sweeps, restarts, the proof endpoint and the verifier | `INSTANCE AttestationGate` |
| `ExitGuard` | both guards of the exit side, with concurrent callers and crashes | |
| `Ingestion` | from rows to claims and from records to orders: operators, no state | |
| `ControlRun` | a control run from arguments to exit code, beside a bot and a broker that go on | EXTENDS `Ingestion` |
| `*Proofs` | theorems about all of these: `TwoPhaseClaimProofs`, `SharedConnectionProofs`, `BoundaryProofs` (the boundary and the Stripe adapter), `HostedClaimsProofs`, `HostedReceiptsProofs`, `ExitGuardProofs`, `SettlementProofs` (the registry's backends and the cases), `ControlProofs` (the engine, its solver and the run around it) | EXTEND the modules |
| `MC*` | values of the constants and symmetry for TLC | EXTEND the module |

A definition whose comment begins with *Mutant:* is a variant of the operator below it with a
plausible bug. No specification uses it; each shows that a property can be broken.

### 2.1 Correspondence of state and actions

**`TwoPhaseClaim`.** `db` is the committed table; `txn` and `view` are Python's implicit
transaction of each connection. `sqlite3` opens a transaction before an INSERT or UPDATE, and
when that statement fails with *database is locked* nobody closes it: the next SELECT then
pins a snapshot, which `view` is. `pc`, `cur`, `draft` and `out` are the call of `execute`;
`stale` marks rows older than `pending_ttl_seconds`. A statement with its commit is one step,
because SQLite admits one writer; statements that fail on the lock are separate actions, as
the code has a different path for each. `effects` and `abandoned` are history variables.

**`SharedConnection`.** The store opens its connection with `check_same_thread=False` and takes
no lock, so here a statement and its COMMIT are *two* steps, `work` is what the connection
sees and `disk` what is committed; COMMIT and ROLLBACK act on whatever transaction is open.

**`RegistryBackends`.** `backend` is chosen when a registry starts; every Postgres call may
raise unapplied or after its commit. `mem` is `_exec_receipts`.

**`Permits`.** `row` and `events` are the two tables, `call` and `pc` a dispatch. Each store
transaction is `BEGIN IMMEDIATE … COMMIT` on a connection of its own and so one step. A request
stands for the five fields that a permit binds; a valid signature is membership of `issued`.

**`StripeGateway`.** `op` and `journal` are the adapter's tables; `at`, `rec` and `hook` are
the dispatches, reconciles and webhook handlers under way. Stripe itself (`intent`, `sent`) is
external and modelled by what the adapter uses: one PaymentIntent per idempotency key, a status
that changes until it is final, one event per status. `processing` stands for the pending statuses
the adapter lists, `unlisted` for any that it does not, which it records as UNCERTAIN.

**`HostedClaims`.** `row` is the table, `handler` the request each server serves (a handler has
no await between its store calls, so a server serves one at a time), `agent` and `tokens` the
clients' side of the protocol. Requests and answers can be lost, and a retry can be served
beside the request it repeats.

**`SettlementCase`.** A durable store reads and writes whole cases, so each actor has a copy
(`loaded`) beside `stored`; with `InMemoryStore` both are one object and every change of a case
is made in both. The dictionary of signals is `says`, what each source says, and `place`, the
position of its entry: a later signal of a source keeps its place, and a round trip through
`sort_keys` (`Reload`) orders the places by source. `EndProcess` is an actor that ends. `hears`
says which sources report on a case; a case nobody reports on is not worked on, so that one run
can have two cases of one source each as well as one case of two. `requests` is each process's
registry, which answers a repeated request id with the settlement it was first answered with.

**`KuhnSolver`.** The recursion of `try_augment` is a call stack: `at` is the node of the innermost
call, `calls` the node and candidate of every call around it, `seen` the visited set. A step is one
candidate tried (`Displace`), a whole successful unwinding (`Augment`) or one failed call
(`Return`); candidates, nodes, pairs and claims come in sorted order, as in the code. The same
search, on `edges` and `holder`, serves the reference matching, the matching of what a forced pair
leaves (`TestPair`) and, with the sides exchanged, the search of a freed order (`TestClaim`). Both
early returns, for a graph without pairs and for an empty residual, are modelled.

**`Reconciliation`.** State is what the loops carry: the stage, the claims still to visit,
assignments, dispositions and findings. The order of the
input lists is the nondeterministic choice of the next claim. The reference model has no state:
`DecideTier` is one pass of its loop over the tiers, as pairs of a claim and an order that are
`forced` or one of `several`, with what is `left` and `free` for the next.

**`HostedReceipts`, `AttestationGate`.** `row` holds the governance columns, `handler` a claim
under way (gate, insert, sign), `task` the background tasks of a request in the order the
framework runs them, `sweep` the rows a sweep has read and not polled yet: between reading and
writing a row it awaits the trail service, so sweeps interleave per row. `Keys` lists the signing
key before and after each restart, and may hold none. A signature is the pair of key and
envelope, without the random bytes that make two signatures of one envelope differ: the task that
stores a receipt signs afresh (`safeagent_governance.py:69`, `:297`), so the stored receipt is the
answered one up to those. A receipt verifies if the key it names made it. A deployment also says
whether the gate and its HTTP client can be imported (`importable`). `issued`, `unsound` and `lost` are
history. The trail service and its chain are external: a trail is unknown, registered or
anchored. `Dead` are the trails it never anchors.

**`ExitGuard`.** `guard` says which of the two implementations is in use; `status` is the row of
an exit in its table; `caller` where each call of `claim_exit` … `clear_phantom` or of
`exit_qty_guarded` stands. Each SQL statement and the broker's order is one step. `sold` counts
accepted orders. Three sets are history: exits with calls that overlapped (`overlapped`), for which
a statement of the patch failed (`unguarded`), and of which a call that was to settle died or got
no answer (`abandoned`). Only the last excuses a row left PENDING; together (`Gaps`) they are the
exits the patch may sell twice. A broker's answer is a refusal (422) or any other, which both
callers take for done, whether the order was accepted or not.

**`Ingestion`, `ControlRun`.** `table` and `book` are the bot's rows and the broker's orders, and
the bot goes on inserting, sending and committing while a run is between its stages. A run reads
the claims in one query, then the orders page by page (`page` holds how many pages were read and
where the next one ends) or from a file, consolidates the records of one identity (`Clean`),
reconciles and reports. The engine is abstracted to the case of no competition for an order, as
competition is what `Reconciliation` models.

## 3. Runs

Twelve runs, all of which TLC completes without an error.

| run | instance | distinct states | shows |
|---|---|---|---|
| `two_phase` | 3 processes, 1 request | 104 k | `AtMostOnce`, `ReceiptsAgree`; the refinement `ImplementsClaims`; the liveness property `ClaimsResolve` |
| `shared_conn` | 2 threads, 2 requests, ≤ 2 effects of one request | 1.9 M | a second run of an action needs a rollback that erased its row (`OnlyRollbackDuplicates`); what is committed stays (`OutcomeIsFinal`) |
| `registry` | 2 threads of one process, 1 of another; 1 request; ≤ 2 effects | 28 k | only a process that fell back to memory duplicates; a pending row is explained; a replay that says *ok* of what did not happen has one of three reasons (`OkReplaysAreExplained`) |
| `permits` | 2 workers, 2 permit ids, 2 requests, 2 tokens, clock to 2, ttl 1 | 74 k | `OneUse`, `ExactBinding`, `JournalMatches`, refinement |
| `stripe` | 1 worker, 1 reconciler, 1 permit id, 2 requests, 2 tokens; 2 pending and 2 final statuses | 3.8 M | verdicts are true; decisions agree with the boundary's; only a replay creates without a consumed permit |
| `hosted` | 2 servers, 3 agents, 1 request | 13 k | `AtMostOnce`, `ResultIsOwners`, `AnsweredIsStored`, refinement |
| `receipts` | 1 paid, 1 test and 1 older request; 1 handler, 2 sweeps, 4 deployments, 2 restarts | 271 k | answered receipts are stored or their task is pending or dead; what a verifier accepts and what not; reported anchors are real; where an attestation is required and the gate importable, none is let through without; confirmations stay; a stored trail is confirmed in time unless starved (`StoredTrailConfirms`) |
| `exit_guard` | 3 callers, 2 exits of one symbol, ≤ 2 orders; both guards | 362 k | the runtime never sells twice, the patch only through a gap; a settled exit is skipped; a row the runtime leaves PENDING has a call still to mark it or one that died or got no answer |
| `settlement` | 2 actors; 2 cases of one source or 1 case of two; 2 outcomes, 2 request ids, 2 settlement ids; durable and in memory | 806 k | `StateMatchesSignals`; an id stands for one case and outcome, in every copy and in every registry's answers (`IdFixesOutcome`); a case is settled twice only if it was contested; a reload does not change what would be finalized |
| `kuhn` | every bipartite graph of 4 claims and 3 orders | 260 k | what the polynomial solver derives is exactly what enumeration derives |
| `reconcile` | 3 claims, 2 orders, 13 × 12 kinds of record, any visiting order | 393 k | the result is the reference model's; every record is reported |
| `control` | 3 requests, pages of 2, page limits 1 and 3, 2 windows; every file of ≤ 3 records of two orders | 7.7 M | findings *missing* and *unrecorded* have a reason; records that disagree are never merged silently, and their order does not matter |

### 3.1 Bounds, and why they are enough

- *One request id* in `two_phase`, `registry` and `hosted`: rows of different requests never
  meet in one statement. They do meet in one *transaction* of a shared connection, hence two in
  `shared_conn`, and in one table snapshot of `two_phase`, for which the proofs of section 5
  cover any number of requests.
- *Three processes or agents*: a winner, a loser that was under way, and one that comes after
  both. Two servers are enough for two handlers of the same request.
- *Two tokens for one permit id* with *two requests* is the smallest case where a permit could
  be used for something that another token binds. `MaxTime` and `MaxTtl` let a token expire
  before authorization and between authorization and consumption; in the Stripe runs time does
  not pass, since expiry is the boundary's and `permits` covers it.
- `MaxEffects` bounds what is explored where duplicates are possible; it is 2, the first
  duplicate.
- `MaxIds` bounds settlement ids; two let a case be settled twice or two copies differ. The
  threshold of 0.80 tells unanimity from anything else for up to four sources, so *two sources*
  give its two sides, agreement and tie. Two cases of *one source* each are enough for an id of
  one to turn up with the other, and two request ids for a registry to answer with either. Two
  cases of two sources, or three sources, exceed five minutes; `MCHearings` lists the two
  configurations explored.
- In `receipts` the one handler serves the three kinds of request in turn; what interleaves is
  the tasks and two sweeps. `SweepLimit` 1 (100 in the code) makes one dead trail enough to starve
  the next. `Keys` is a key, none, another key. `TestLimit` 1 lets a restart reset it.
- In `exit_guard` three callers are one that sells, one that overlaps it and one that comes
  after; two exits share a symbol, whose phantom flag the one clears and the other sets.
- In `control` three requests and pages of two give a full page, a page boundary inside an
  instant and an order that arrives between two pages; *three records* let two agree and a third
  disagree. Requests outside `Odd` have ordinary rows and orders.
- *Four claims, three orders* in `kuhn` allow an augmenting path of length five and claims that
  stay unmatched. *Three claims, two orders* in `reconcile` give a tie, a claim that is left
  over and an order in conflict in one input.
- `CHECK_DEADLOCK FALSE` appears where the system ends: no token left to dispatch, the engine or
  the control run done, every request served and swept at the last instant.

Symmetry is used for safety only (`two_phase`, which has a liveness property, does not).

### 3.2 Fairness

`TwoPhaseClaim` and `HostedReceipts` state fairness. In the first it is `WF_vars(Step(p))`, a call of `execute` that can take its
next statement takes it. `Step` includes the statements that fail on a lock, so no statement is
assumed to succeed; a new call, ageing and crashes have no fairness. That is what a thread of a
running Python process guarantees: it is scheduled in the end, and `execute_fn` returns or
raises (a function that never returns is a crash to the caller: its row stays PENDING).
Under it `ClaimsResolve` says that a PENDING row is settled unless its owner died or its settle
raised.

`HostedReceipts` assumes four things, each outside the service's own code or plain scheduling:
the cron calls `POST /sweep/anchor/mycelium` again and again ("every 5 minutes",
`safeagent/main.py:1377`); a sweep's requests end, answered or timed out; the trail service
anchors every trail it is going to anchor (`Dead` are the others); and asked again and again about
an anchored trail it sometimes answers, a strong fairness, as each single poll may fail. Nothing
is assumed of handlers, background tasks, restarts or the clock. Under it `StoredTrailConfirms`
says that a stored trail is confirmed in time, unless as many dead trails as a sweep reads are
older: the query takes the oldest first and never gives one up.

No other module promises progress: the boundary leaves a permit `DISPATCHED` after a crash, the
hosted service a row `PENDING` after a lost answer, both for an operator to reconcile.

## 4. Where the code and its documents disagree

The models follow the code. Where a document promises more, the property that is checked says
exactly how far the promise holds. The first three matter most:

1. *Threads on one SQLite connection.* `claim` calls `rollback()` on the shared connection when
   its INSERT finds the row (`safeagent_exec_guard/sqlite_store.py:133`). With two threads this
   discards the winner's uncommitted INSERT; the winner's `commit()` has nothing to commit and
   `claim` returns True. The row is gone and a later call runs the action again, against
   "At-most-once execution guard for ANY irreversible action"
   (`settlement/settlement_requests.py:158`). `OnlyRollbackDuplicates` shows that this is the only
   way, and `OutcomeIsFinal` that outcomes survive it.
2. *Replays of a Stripe create.* `reconcile` replays `create` for every operation without a
   PaymentIntent, also one that is only PREPARED (`safeagent_exec_guard/stripe_gateway.py:365`);
   `prepare` commits before the permit is consumed, so a PaymentIntent can exist under a permit
   that nobody consumed, against "Consumption happens before dispatch"
   (`docs/SAFEAGENT_BOUNDARY.md:20`). `OnlyReplayUnauthorized` shows that nothing else does it.
3. *Replays on Postgres* report `ok=True` for any completed row
   (`settlement/settlement_requests.py:192`), also one whose execution failed, against "returns
   the original receipt" (`:161`). `OkReplaysAreExplained` states the reasons.

Claims and permits:

- the store's docstring says that the sweeper resets a stale row to CLAIMABLE
  (`sqlite_store.py:31`); `sweep_stale_pending` changes nothing (`:280`, "fail-closed"), and the
  theorem `RowsOnlyAdvance` shows it;
- "An exception after consumption becomes `PENDING_RECONCILIATION`"
  (`docs/SAFEAGENT_BOUNDARY.md:21`): if `finalize` cannot get the write lock
  (`boundary.py:283`) the permit stays `DISPATCHED`; and the instant its validity is compared
  with is read before the store is locked (`boundary.py:353`), so it can expire while it waits;
- "only a retrieved PaymentIntent or verified webhook … produces a `CONFIRMED` Stripe
  observation" (`docs/SAFEAGENT_BOUNDARY.md:130`): the response of the create is recorded the
  same way (`stripe_gateway.py:341`), and one that says `succeeded` confirms;
- the hosted claim answers PENDING when the insert failed and no row exists
  (`pg_store.py:97`, `safeagent/main.py:743`, `:908`);
- in memory `execute` checks and stores without a lock (`settlement_requests.py:245`), so its
  docstring (`:158`) does not hold for threads; `OnlyMemoryDuplicates` excepts it.

Cases and reconciliation:

- "Exactly-once settlement gate" (`settlement/gate.py:14`) holds of the object it is given: two
  processes, or one that went on without saving, settle the stored case under two ids;
  `OnlyContestedSettlesTwice` shows that nothing else does;
- "immutable once final" (`settlement/models.py:34`): the last process to save a case
  overwrites it (`settlement/store.py:105`);
- on a tie the provisional winner is the first source in dictionary order, which reading the
  case back from SQLite changes (`settlement/reconciliation.py:107`, `store.py:35`);
  `FinalizesAlike` shows that no finalization depends on it;
- `reconcile` and `reconcile_with_disposition` take `match_tolerance`
  (`control/v15/reconcile_v12_classify.py:284`, `:293`) and do not use it;
- `fetch_all_orders` retrieves "EVERY order" (`control/v15/alpaca_api_adapter.py:124`), but a
  page filled by orders of one instant that were all seen ends the walk as complete (`:175`), and
  older ones are never read; `MissingIsExplained` has that case;
- normalization is "independent of input list order", but the fill time of a consolidated order
  is that of the first of its most advanced records (`ingestion_normalization.py:296`);
  `OrderIndependent` leaves only that out;
- one claim without a time zone makes `build_evidence_graph` raise and the run end with code 1;
- paging keeps the snapshot in which an order was first seen, and the three reports are written
  one after the other in place.

Exits:

- "Every subsequent call … returns SKIP immediately — before touching the broker"
  (`exit_guard_patch.py:16`) is so once the first call has settled; until then a call that finds
  the row PENDING goes on, and so does one whose claim raised. `OnlyGapsResell` and
  `CommittedIsSkipped` give the extent;
- the loser of two simultaneous `claim_exit` calls gets an `IntegrityError`, not `"SKIP"`
  (`exit_duplicate_guard.py:90`, `:103`);
- an exit whose caller died, or whose order got no answer, stays PENDING and is skipped for ever
  by the runtime, though it may not have been sold;
- `clear_phantom` clears the flag of the symbol whichever exit set it, and `mark_quarantined`
  sets status and flag in two transactions;
- `mark_committed` is for "after broker 200" (`exit_duplicate_guard.py:113`), but the documented
  usage calls it after every answer but 422 (`:39`), so an exit can be COMMITTED that no order
  was accepted for; the models let it.

Receipts:

- a stored proof is served with the key `canonical_bytes` (`pg_store.py:343`), while
  `verify_claim_receipt` reads `canonical_bytes_utf8` (`safeagent_governance.py:350`), so its chain
  check fails for every stored proof; the verifier's check of self-attestation looks for an
  `envelope` that no receipt has (`:366`). `ProofsVerify` says which checks hold;
- a proof made on demand is built from the row, with the row's time and actor, so it differs from
  the envelope the agent was answered with, and it states a pre-authorization for rows that were
  never answered PROCEED;
- the comment "so precedence check is strict" (`main.py:1142`) has no check: `outcome_ts_ms` is
  not used, and any confirmation sets `precedence`; the block time may be a block number;
- a sweep reads the 100 oldest unconfirmed trails, so that many dead ones starve the rest; a lost
  answer to a submission leaves a registered trail nobody asks about;
- "require_attestation=True: DENY before COMMITTED write" (`main.py:776`, and the docstring at
  `:745`): if the gate or its HTTP client cannot be imported, `POST /claim` notes the safety check
  as skipped and goes on, whatever is required (`:854`); every other failure denies (`:862`).
  `AdmittedWhenRequired` therefore asks for `importable`, and one deployment of `receipts` lacks
  it and lets claims through;
- the gate "requires `admission.verdict == "admit"`" (`attestation_gate.py:7`), but an attestation
  without a verdict, or without a binding, passes, and no freshness limit is given;
- the limit on test calls is a counter in memory and starts again with the process.

## 5. Proofs

TLAPS checks 58 listed theorems and the lemmas they rest on, in eight modules, for every value of
the constants. They assume only what the modules name: the blank is none of the data
(`NoneAssumption`); finitely many requests, so that a stale count is a number (`ReqAssumption`);
bounds that are naturals (`BoundsAssumption`); parameters that are functions of the right sets
(`ExitAssumption`, `HomeAssumption`, `ParamsAssumption`, `DeploymentAssumption`, `KeysAssumption`);
that there are finitely many signal sources, each a number for the order of the dictionary, and
that neither blank is an outcome (`SourceAssumption`, `SignalAssumption`); that claims and orders
are finite lists of records with numbers for identifiers and times (`DataAssumption`), and that the
solver numbers them (`SizeAssumption`); and of a control run that the bot has finitely many requests, a page holds an order at least and the ends
of a window are instants (`RunAssumption`), and that what a parser accepts of a file is an order
with a status of the table or the one outside it (`RecordAssumption`). `HostedClaims` assumes
nothing.

| module | theorem | says |
|---|---|---|
| `TwoPhaseClaimProofs` | `TypeCorrect` | `[]TypeOK` |
| | `ExecutedAtMostOnce` | `[]AtMostOnce` |
| | `OkReceiptsAreTrue` | `[]OkMeansEffect`, only proved |
| | `ReplaysAgree` | `[]ReceiptsAgree` |
| | `PendingHasACause` | `[]PendingIsExplained`, only proved |
| | `RowsOnlyAdvance` | `NeverReleased`, only proved |
| | `Implementation` | the processes implement `ExecClaims` |
| `SharedConnectionProofs` | `SharedTyped` | types |
| | `OnlyRollbacksDuplicate` | `[]OnlyRollbackDuplicates` |
| | `OutcomesAreFinal` | `OutcomeIsFinal` |
| `SettlementProofs` | `BackendsTyped` | types |
| | `OnlyMemoryRepeats` | `[]OnlyMemoryDuplicates` |
| | `PendingHasAnOwner` | `[]PendingIsExplained` |
| | `OkReplaysHaveAReason` | `[]OkReplaysAreExplained` |
| | `CaseStatesMatch` | `[]StateMatchesSignals` |
| | `IdsFixOutcomes` | `[]IdFixesOutcome` |
| | `OnlyContestedTwice` | `[]OnlyContestedSettlesTwice` |
| | `FinalizationIsStable` | `[]FinalizesAlike` |
| `BoundaryProofs` | `PermitsTyped` | `[]TypeOK` |
| | `PermitsUsedOnce` | `[]OneUse` |
| | `PermitsBindExactly` | `[]ExactBinding` |
| | `JournalsMatch` | `[]JournalMatches` |
| | `PermitsStayConsumed` | `NeverReopens`, only proved |
| | `PermitsAreClaims` | the boundary implements `ExecClaims` |
| | `StripeTypes` | types |
| | `StripeDispatchesAreClaims` | behind the adapter the boundary still implements `ExecClaims` |
| | `StripeUsesOnce` | `[](OneUse /\ ExactBinding)` |
| | `VerdictsAreTrue` | `[]VerdictIsTrue` |
| | `DecisionsAgree` | `[]DecisionAgrees` |
| | `OnlyReplaysUnauthorized` | `[]OnlyReplayUnauthorized` |
| `HostedClaimsProofs` | `HostedTyped` | `[]TypeOK` |
| | `HostedAtMostOnce` | `[]AtMostOnce` |
| | `HostedResults` | `[]ResultIsOwners` |
| | `HostedAnswers` | `[]AnsweredIsStored` |
| | `HostedAreClaims` | the service implements `ExecClaims` |
| `HostedReceiptsProofs` | `ReceiptsTyped` | types |
| | `ReceiptsAreStored` | `[]ReceiptIsStored` |
| | `ReceiptsVerify` | `[]ProofsVerify` |
| | `AnchorsAreReal` | `[]AnchorIsReal` |
| | `AdmittedSoundly` | `[]AdmittedWhenRequired` |
| | `ConfirmationsStay` | `ConfirmedStays` |
| `ExitGuardProofs` | `WellTyped` | `[]TypeOK` |
| | `ExitsSoldOnce` | `[]OnlyGapsResell` |
| | `SettledIsSkipped` | `[]CommittedIsSkipped` |
| | `PendingHasAReason` | `[]PendingIsExplained` |
| `ControlProofs` | `ForcingAnEdge` | an edge is in a maximum matching exactly if forcing it costs nothing |
| | `RemovingAClaim` | every maximum matching has a claim exactly if removing it costs one |
| | `SolverInvariant` | the invariant of searches, matchings and tests |
| | `PolynomialSolverIsExact` | `[]SolverIsExact` |
| | `ReconciliationInvariant` | types, and the invariant of the tiers and passes |
| | `DecisionsAreTheReferences` | `[]MatchesReference` |
| | `NoRecordDisappears` | `[]EveryRecordReported` |
| | `FileSafety` | the invariant of a run on a file |
| | `NothingIsLostSilently` | `[]NothingLostSilently` |
| | `HandedOnInAnyOrder` | `[]OrderIndependent` |
| | `ApiSafety` | the invariant of a run on the broker's orders |
| | `MissingHasAReason` | `[]MissingIsExplained` |
| | `UnrecordedHasAReason` | `[]UnrecordedIsExplained` |

Type invariants are proved and not spent a run's property on.

Each module follows the same argument. Types first: lemmas for the operators that several
actions share, then one step per action. Then an inductive invariant, since hardly any
of the safety properties is inductive alone. Then the theorems, and last the refinement, whose
steps need the invariant because the abstract actions have guards (an effect only while the
claim is PENDING and has had none; *ok* only after it).

- **`TwoPhaseClaim`.** At most one execution needs that a claim has *one owner*, whose row stays
  PENDING until it settles (`OwnersHold`) and that nothing happened before the owner runs
  (`NotYet`). Receipts are read from rows, and rows from snapshots that may be stale: whatever
  says *ok*, in a row, a snapshot or a draft, says so of an effect that happened (`OkIsTrue`),
  and a settled row is the same in every snapshot and conclusive receipt (`SettledIsFinal`). A
  stale snapshot is thus harmless: it can only be behind on rows that were not settled.
- **`Permits`.** `Calling` gives each dispatch a call. A dispatch that holds a permit finds its
  row DISPATCHED with its own token (`HolderRow`), is alone (`OneHolder`) and is for what the
  token binds (`Bound`); a permit not consumed, or whose executor has not been called, has done
  nothing (`Unused`). `OneUse`, `ExactBinding` and `JournalMatches` complete the invariant.
- **`HostedClaims`.** Ownership survives the agent: `owner` is who won a request, one agent at
  most (`OneOwner`), the only one to hold its token (`Tokens`). A granted agent owns a request
  not executed yet (`Grants`), a settling one has executed it (`Executions`), and so has the
  agent behind every settle under way (`Settles`); a missing row means nothing happened and a
  committed one that it did (`RowsTell`). All steps but two move each part of the state in
  a way that keeps this (`QuietSafe`); winning a claim and executing are shown on their own.

- **`StripeGateway`.** The proof is a composition. Every step of the adapter is a step of the
  boundary, leaves it alone, or gives a dispatch up (`BoundarySteps`), so the invariants and the
  refinement of the boundary carry over without being proved again. What is new is `Shape`
  (where the adapter stands in a dispatch goes with where the boundary does, and from `prepare`
  on there is an operation) and `Truthful`: whatever is on its way to the store says of a final
  status what is so. As a final status never changes (`IntentsStay`), late and repeated
  observations are harmless.
- **`SharedConnection`.** Each request keeps one owner and at most one effect until a rollback
  erases its row, and one without a row has no owner (`Kept`); what is committed on disk and
  settled is the same in what the connection sees (`Final`).
- **`RegistryBackends`.** Calls stand where their backend puts them (`Placed`), a Postgres row has
  one owner (`OneOwner`) and with it at most one effect (`Once`); `Pend` and `Told` relate rows and
  receipts to who completed them.
- **`HostedReceipts`.** An answered receipt is the row's, or its task is the next (`Answered`,
  `Tasked`); stored trails are known to their service and confirmed ones anchored (`Trailed`);
  every receipt names the key that signed it (`Receipted`); the gate's lemma `RequiredIsSound`
  gives `Admitted`, for deployments that require an attestation and can import the gate.
- **`ExitGuard`.** A runtime exit under way is PENDING and alone (`RuntimeExit`, `PendingExit`); a
  patched exit outside `Gaps` has one caller at most, who found what the row says (`PatchExit`); a
  call that began after settlement finds the row COMMITTED (`LateCall`).
- **`SettlementCase`.** `StateMatchesSignals` is a fact of each case (`Fits`), once the tallies are
  known to be finite and to change only as `Upsert` changes them. An id was issued for the case
  that has it (`Numbered`) and a new one is larger than all, so ids never meet (`Agree`); a registry
  answers with issued ids (`Registered`), and the copy settled under one stays (`Uncontested`). The count
  of settlements needs to know where a case is: in memory there is one object (`OneObject`); on a
  durable store a case that is not contested has one holder, and if an id was issued for it, it is
  settled where it is held, or in the store if nobody holds it (`Uncontested`). So `Attempt` issues
  a second id for contested cases only (`OnceEach`). For `FinalizesAlike`, four fifths of the votes
  leave no room for another outcome (`DecisiveIsAlone`), so places do not matter.
- **`KuhnSolver`.** While a search runs, its calls are an alternating path (`SearchInv`): each tries
  a candidate whose holder is the node of the next call, and the first node is held by nobody.
  Whatever else was visited is held, by nodes without a candidate outside. So an augmentation
  gives every call its candidate, nobody held before is dropped and the first node is added
  (`AugmentedIs`), and a failed search leaves a set that is *closed* (`Closed`): its members are
  held and their holders have no candidate elsewhere. The invariant (`MatchingInv`) keeps one closed
  set for all failed searches. No later path can enter it, for it would never get out, which is why
  one search per claim is enough. At the end every pair of any other matching can be charged to a
  pair of this one, by its order inside the closed set and by its claim outside
  (`ExhaustedIsMaximum`). The same charge shows that a claim whose freed order found no other is in
  every maximum matching (`NoMatchingWithout`); with `ForcingAnEdge` and `RemovingAClaim` the
  answers follow.
- **`Reconciliation`.** The reference decides a tier at once, the engine claim by claim, and reads
  dispositions that earlier visits wrote. What makes the order of visits irrelevant is a fact about
  maximum matchings: a forced claim has one partner and every maximum matching makes that pair
  (`ForcedPair`), so nobody else holds it (`ForcedOrderIsHeld`), and one tier decides a claim or an
  order once (`TierIsSound`). The invariant relates each moment to `Decide`: between tiers all is as
  the reference has it (`BetweenTiers`), within one it is so for the claims visited (`WithinTier`),
  then only what no tier decided can change (`AfterTiers`, `ConflictPass`, `Settled`). That a graph
  has a maximum matching, and that all have one size, are lemmas about finite sets. A by-product
  (`NothingIsContested`): the pass over contested orders that ends a tier
  (`control/v15/reconcile_v12.py:705`) never finds one.
- **`Ingestion`.** The groups of one identity partition the records, and are what the fields say
  they are (`IdentityIsOwn`, `GroupsAre`): records without a broker order id are told apart by
  their rank among identical ones. Both ways to choose a representative pick the least of a strict
  order on tuples, which a finite group has (`BeforeIsStrict`, `LeastExists`). `AgreedOrder` is
  then what a group without a finding hands on. For `OrderIndependent`, what a group hands on
  depends only on what its records say (`SameContent`, `SameView`): contradicting records that
  compare equal are equal (`SameFirst`), and the most advanced ones have one status
  (`SameStatus`). A permutation of the records maps groups to groups with the same content
  (`Rearranged`), one to one, so each view comes up as often (`HandedAlike`).
- **`ControlRun`.** The bot's rows only grow (`WorldGrows`), so what a run has read of them stays
  true (`ClaimsOk`), and an order is no earlier than its bar (`WorldOk`). The retrieval needs an
  invariant on what a page boundary may hide (`PagesOk`): an order of the window that was there
  when retrieval began is seen or lies where the next page ends or before, and what is seen lies
  no earlier. A page that is not full is all there is; one that is full and brings nothing new
  consists of orders of one instant, the one where it ends, and then what is unseen is crowded
  out (`PageKeeps`). Every order seen that has a quantity is handed on as the broker has it
  (`OrdersAreTheBrokers`), and an identifier or the tolerance then makes the match.

Every safety property that a run checks is proved. Only model-checked is liveness (`ClaimsResolve`,
`StoredTrailConfirms`), because ENABLED and fairness are beyond the prover; nor is it proved that
the solver and the engine end.

## 6. What is not modelled, and the plan

Left out of the models, by component:

- schema creation and migration, logging, metrics, and reads that nothing depends on
  (`audit_claims`, health and OpenAPI endpoints);
- the content of payloads, signatures and digests: a token is valid if it was signed, a payload
  is equal or not;
- in `StripeGateway`, validation that refuses before any state changes, and the verification of
  webhook signatures;
- in `Reconciliation`, evidence texts, timeliness and the computation of stable ids; symbol,
  side, quantity and time are one number with a tolerance;
- in `HostedClaims`, payment; receipts and anchors are `HostedReceipts`', where in turn the
  status of a row plays no part;
- in `HostedReceipts`, curve arithmetic, HTTP formats, and calendar stamps beyond whether one is
  confirmed (their submission is disabled in the code);
- in `ExitGuard`, `is_entry_blocked`, which always answers no, and the amount left of a position;
- in `ControlRun` and `Ingestion`, the grammars of timestamps, keys and files, severities and the
  contents of the reports, and windows whose bounds have no time zone.

Components without a module:

- `payment_server.py` is an earlier variant of the hosted service: its store and its claim and
  settle handlers make the same calls, so its steps are among those of `HostedClaims`;
- adapters and clients hold no state; processes, threads and agents of the models stand for them;
- the output validator compares two results and prints; the advisory oracle answers and changes
  nothing; telemetry and transports are I/O; demos, scripts and the site call the rest;
- the evidence harness drives the boundary to produce evidence of a crash test, which `Permits`
  has as steps.

The plan put the promise first, and all of it is written: `ExecClaims` and `TwoPhaseClaim`;
`SharedConnection` and `RegistryBackends`; `Permits` and `StripeGateway`; `HostedClaims`;
`SettlementCase`, `TierMatching`, `KuhnSolver`, `Reconciliation`; `ExitGuard`; `HostedReceipts` with
`AttestationGate`; `Ingestion` and `ControlRun`. What would come next:

- competition for orders in `ControlRun`, by composing it with `Reconciliation` instead of the
  abstraction of `ClaimFinding`; together they are too large for one run now.

## 7. Running the checks

    tlc -workers 2 -config two_phase.cfg MCTwoPhaseClaim
    tlapm TwoPhaseClaimProofs.tla

The longest runs, `stripe`, `settlement` and `control`, take about two minutes; most proof modules take about one,
and `ControlProofs` six.
