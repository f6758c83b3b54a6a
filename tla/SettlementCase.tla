---------------------------- MODULE SettlementCase ----------------------------
(***************************************************************************)
(* The settlement of cases: outcome signals are ingested into a case, the  *)
(* case is resolved and then settled through the gate, which gives it a    *)
(* settlement id.                                                          *)
(*                                                                         *)
(*   OPEN ----> RESOLVED_PROVISIONAL ----> FINAL ----> SETTLED             *)
(*      \          |                     /                                 *)
(*       `-> IN_RECONCILIATION ---------'                                  *)
(*                                                                         *)
(* A process works on a Case object of its own: SQLiteStore and            *)
(* PostgresStore read and write the whole case, with no version and no     *)
(* lock, and each process has a registry of the requests it has submitted. *)
(* With InMemoryStore there is one object and the callers, on one thread,  *)
(* share it.  sort_keys puts the signals of a stored case in the order of  *)
(* their sources.  Sources are numbers, for that order.                    *)
(***************************************************************************)
EXTENDS Naturals, Sequences, FiniteSets

CONSTANTS
    Actor,       \* processes (callers of one process if not durable)
    CaseId,
    Source,      \* the signal sources
    Hearings,    \* the ways sources are considered to report on cases
    Outcome,     \* usable outcomes
    SignalDurable, SignalMemory,   \* bounds: what signals say, by kind of store
    ReqId,       \* settlement request ids
    MaxIds,      \* bound on the settlement ids issued
    Unusable, Nothing

CaseType == [id : CaseId,
             state : {"OPEN", "RESOLVED_PROVISIONAL", "IN_RECONCILIATION", "FINAL", "SETTLED"},
             final : Outcome \cup {Nothing}, sid : Nat \cup {Nothing},
             says : [Source -> Outcome \cup {Unusable, Nothing}], place : [Source -> Nat]]

ASSUME BoundAssumption == MaxIds \in Nat
ASSUME SourceAssumption ==
    /\ Source \subseteq Nat /\ IsFiniteSet(Source)
    /\ Hearings \subseteq [CaseId -> SUBSET Source]
ASSUME SignalAssumption ==
    /\ SignalDurable \cup SignalMemory \subseteq Outcome \cup {Unusable}
    /\ Unusable \notin Outcome /\ Nothing \notin Outcome \cup {Unusable} \cup Nat \cup CaseType

VARIABLES
    hears,       \* CaseId -> the sources that report on it; a case without is not worked on
    durable,     \* the store is SQLite or Postgres; it is InMemoryStore otherwise
    stored,      \* CaseId -> the stored case, or Nothing
    loaded,      \* Actor -> the case it works on, or Nothing
    requests,    \* Actor -> ReqId -> settlement id its registry holds, or Nothing
    issued,      \* settlement ids issued so far, each with its case
    contested    \* history: the cases two processes have held at once, or one
                 \* has let go of unsaved

caseVars == <<hears, durable, stored, loaded, requests, issued, contested>>

Signal == IF durable THEN SignalDurable ELSE SignalMemory

\* A case has a final outcome, a settlement id, and signals: what each source
\* says, if it does, and its place in the dictionary, or 0.
NewCase(c) == [id |-> c, state |-> "OPEN", final |-> Nothing, sid |-> Nothing,
               says |-> [s \in Source |-> Nothing], place |-> [s \in Source |-> 0]]

CaseInit ==
    /\ hears    \in Hearings
    /\ durable  \in BOOLEAN
    /\ stored   = [c \in CaseId |-> Nothing]
    /\ loaded   = [a \in Actor |-> Nothing]
    /\ requests = [a \in Actor |-> [q \in ReqId |-> Nothing]]
    /\ issued   = <<>>
    /\ contested = {}

-----------------------------------------------------------------------------
(* Tallies.                                                                *)

Heard(k)    == {s \in Source : k.says[s] # Nothing}
Said(k)     == {s \in Heard(k) : k.says[s] # Unusable}
Tallied(k)  == {k.says[s] : s \in Said(k)}
Votes(k, o) == Cardinality({s \in Said(k) : k.says[s] = o})

\* max(tally, key=tally.get): of the outcomes with most votes, the one the
\* dictionary meets first.
Most(k)  == {o \in Tallied(k) : \A p \in Tallied(k) : Votes(k, p) <= Votes(k, o)}
First(k) == CHOOSE s \in Said(k) : /\ k.says[s] \in Most(k)
                                  /\ \A t \in Said(k) : k.place[t] < k.place[s] => k.says[t] \notin Most(k)
Winner(k) == IF Most(k) = {} THEN Nothing ELSE k.says[First(k)]

\* One signal per source, which keeps its place.
Upsert(k, src, o) ==
    [k EXCEPT !.says[src] = o, !.place[src] = IF src \in Heard(k) THEN @ ELSE Cardinality(Heard(k)) + 1]

\* What a stored case is when it is read back.
Reload(k) ==
    [k EXCEPT !.place = [s \in Source |->
        IF s \in Heard(k) THEN Cardinality({t \in Heard(k) : t <= s}) ELSE 0]]

-----------------------------------------------------------------------------
(* A caller changes the case it works on; a shared one is changed for all. *)

Change(a, k) ==
    IF durable
    THEN loaded' = [loaded EXCEPT ![a] = k] /\ UNCHANGED stored
    ELSE /\ stored' = [stored EXCEPT ![k.id] = k]
         /\ loaded' = [b \in Actor |-> IF loaded[b] # Nothing /\ loaded[b].id = k.id
                                       THEN k ELSE loaded[b]]

Read(c) == IF stored[c] = Nothing THEN NewCase(c)
           ELSE IF durable THEN Reload(stored[c]) ELSE stored[c]

\* The case that a leaves unsaved when it takes up another copy, or ends.
Dropped(a) == IF durable /\ loaded[a] # Nothing /\ loaded[a] # Read(loaded[a].id)
              THEN {loaded[a].id} ELSE {}

\* The cases that others hold copies of.
HeldElsewhere(a) == IF durable THEN {k.id : k \in {loaded[b] : b \in Actor \ {a}} \ {Nothing}}
                    ELSE {}

\* get_case, or a new case if there is none; the in-memory one is put at once.
Load(a, c) ==
    /\ hears[c] # {}
    /\ loaded' = [loaded EXCEPT ![a] = Read(c)]
    /\ stored' = IF durable THEN stored ELSE [stored EXCEPT ![c] = Read(c)]
    /\ contested' = contested \cup Dropped(a) \cup ({c} \cap HeldElsewhere(a))
    /\ UNCHANGED <<hears, durable, requests, issued>>

\* put_case writes the whole row over what is there.
Save(a) ==
    /\ durable /\ loaded[a] # Nothing
    /\ stored' = [stored EXCEPT ![loaded[a].id] = loaded[a]]
    /\ UNCHANGED <<hears, durable, loaded, requests, issued, contested>>

\* Mutant: a conflict moves only an open case.
IngestOpenOnly(a, src, o) ==
    /\ loaded[a] # Nothing /\ loaded[a].state \notin {"FINAL", "SETTLED"}
    /\ src \in hears[loaded[a].id]
    /\ LET k == Upsert(loaded[a], src, o) IN
       Change(a, CASE k.state # "OPEN" \/ Tallied(k) = {} -> k
                   [] Cardinality(Tallied(k)) = 1 -> [k EXCEPT !.state = "RESOLVED_PROVISIONAL"]
                   [] OTHER -> [k EXCEPT !.state = "IN_RECONCILIATION"])
    /\ UNCHANGED <<hears, durable, requests, issued, contested>>

\* ingest_signal: refused after finality; agreement resolves an open case,
\* conflict takes an open or resolved one to reconciliation, from which only
\* an explicit resolution leads out.
Ingest(a, src, o) ==
    /\ loaded[a] # Nothing /\ loaded[a].state \notin {"FINAL", "SETTLED"}
    /\ src \in hears[loaded[a].id]
    /\ LET k == Upsert(loaded[a], src, o) IN
       Change(a, CASE Cardinality(Tallied(k)) = 1 /\ k.state = "OPEN" ->
                        [k EXCEPT !.state = "RESOLVED_PROVISIONAL"]
                   [] Cardinality(Tallied(k)) > 1 /\ k.state \in {"OPEN", "RESOLVED_PROVISIONAL"} ->
                        [k EXCEPT !.state = "IN_RECONCILIATION"]
                   [] OTHER -> k)
    /\ UNCHANGED <<hears, durable, requests, issued, contested>>

\* Mutant: the state is not checked, only kept when it is settled.
ResolveAny(a, o) ==
    /\ loaded[a] # Nothing /\ loaded[a].state # "OPEN"
    /\ Change(a, [loaded[a] EXCEPT !.final = o, !.state = IF @ = "SETTLED" THEN @ ELSE "FINAL"])
    /\ UNCHANGED <<hears, durable, requests, issued, contested>>

\* resolve_reconciliation
Resolve(a, o) ==
    /\ loaded[a] # Nothing /\ loaded[a].state \in {"RESOLVED_PROVISIONAL", "IN_RECONCILIATION"}
    /\ Change(a, [loaded[a] EXCEPT !.final = o, !.state = "FINAL"])
    /\ UNCHANGED <<hears, durable, requests, issued, contested>>

\* Mutant: half of the votes will do.
DecisiveHalf(k) ==
    /\ Winner(k) # Nothing
    /\ 2 * Votes(k, Winner(k)) >= Cardinality(Said(k))

\* should_auto_finalize, at its threshold of 0.80.
Decisive(k) ==
    /\ Winner(k) # Nothing
    /\ 5 * Votes(k, Winner(k)) >= 4 * Cardinality(Said(k))

AutoFinalize(a) ==
    /\ loaded[a] # Nothing /\ Decisive(loaded[a])
    /\ Resolve(a, Winner(loaded[a]))

\* Mutant: a settled case is given a new id.
AttemptAgain(k, k2, ids) ==
    /\ k.state \in {"FINAL", "SETTLED"} /\ Len(issued) < MaxIds
    /\ ids = Append(issued, k.id)
    /\ k2  = [k EXCEPT !.state = "SETTLED", !.sid = Len(ids)]

\* attempt_settlement: k2 is the case after it, ids the ids issued after it.
Attempt(k, k2, ids) ==
    \/ /\ k.state = "SETTLED"
       /\ k2 = k /\ ids = issued
    \/ /\ k.state = "FINAL" /\ Len(issued) < MaxIds
       /\ ids = Append(issued, k.id)
       /\ k2  = [k EXCEPT !.state = "SETTLED", !.sid = Len(ids)]

\* SettlementRequestRegistry.submit: a request seen before is answered from
\* the registry, whatever case comes with it.
Submit(a, q) ==
    /\ loaded[a] # Nothing /\ requests[a][q] = Nothing
    /\ \E k2 \in {loaded[a], [loaded[a] EXCEPT !.state = "SETTLED", !.sid = Len(issued) + 1]},
          ids \in {issued, Append(issued, loaded[a].id)} :
          /\ Attempt(loaded[a], k2, ids)
          /\ Change(a, k2)
          /\ issued' = ids
          /\ requests' = [requests EXCEPT ![a][q] = k2.sid]
    /\ UNCHANGED <<hears, durable, contested>>

\* The process ends: what it has not saved is gone, and with InMemoryStore
\* everything is.
EndProcess(a) ==
    /\ durable
    /\ loaded'   = [loaded EXCEPT ![a] = Nothing]
    /\ requests' = [requests EXCEPT ![a] = [q \in ReqId |-> Nothing]]
    /\ contested' = contested \cup Dropped(a)
    /\ UNCHANGED <<hears, durable, stored, issued>>

CaseNext == \E a \in Actor :
    \/ \E c \in CaseId : Load(a, c)
    \/ \E src \in Source, o \in Signal : Ingest(a, src, o)
    \/ \E o \in Outcome : Resolve(a, o)
    \/ \E q \in ReqId : Submit(a, q)
    \/ AutoFinalize(a) \/ Save(a) \/ EndProcess(a)

CaseSpec == CaseInit /\ [][CaseNext]_caseVars

-----------------------------------------------------------------------------
(* Properties.                                                             *)

\* Every case there is, loaded or stored.
Cases == ({loaded[a] : a \in Actor} \cup {stored[c] : c \in CaseId}) \ {Nothing}

\* The state of a case says what is in it: an open one has heard nothing
\* usable and a provisionally resolved one no contradiction; only final and
\* settled ones have an outcome and only settled ones an id, although signals
\* are replaced, blanked and merged through the store.
StateMatchesSignals ==
    \A k \in Cases :
        /\ k.state = "OPEN" => Tallied(k) = {}
        /\ k.state = "RESOLVED_PROVISIONAL" => Cardinality(Tallied(k)) <= 1
        /\ k.final # Nothing <=> k.state \in {"FINAL", "SETTLED"}
        /\ k.sid # Nothing   <=> k.state = "SETTLED"

\* A settlement id stands for one case and one outcome, in every process and
\* in the store.  What a registry answers was issued, and the case it was
\* issued for still has that id, in a process or in the store, unless the case
\* is contested: else the id answered may be in no case any more.
IdFixesOutcome ==
    /\ \A j, k \in Cases : j.sid # Nothing /\ j.sid = k.sid => j.id = k.id /\ j.final = k.final
    /\ \A k \in Cases : k.sid # Nothing => issued[k.sid] = k.id
    /\ \A a \in Actor, q \in ReqId : requests[a][q] # Nothing =>
          /\ requests[a][q] \in DOMAIN issued
          /\ \/ issued[requests[a][q]] \in contested
             \/ \E k \in Cases : k.id = issued[requests[a][q]] /\ k.sid = requests[a][q]

\* A case is settled under two ids only if two processes have held it at once
\* or one has let go of it unsaved (the gate's "exactly once" is that of one
\* Case object): never where the callers share it in memory, and never where
\* each case has one process that saves it, however often that ends.
OnlyContestedSettlesTwice ==
    \A i, j \in DOMAIN issued : i # j /\ issued[i] = issued[j] => issued[i] \in contested

\* A case that would be finalized by itself would be given the same outcome
\* after a round trip through SQLite, which reorders its signals: the order
\* decides ties only, and the threshold excludes them.
FinalizesAlike == \A k \in Cases : Decisive(k) => Winner(k) = Winner(Reload(k))
=============================================================================
