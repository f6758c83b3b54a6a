------------------------------ MODULE ControlRun ------------------------------
(***************************************************************************)
(* control_cli.py reconcile, beside a bot that goes on trading.            *)
(*                                                                         *)
(*   bot:  row PENDING --> order at the broker --> row COMMITTED           *)
(*   run:  arguments --> claims --> orders --> reconcile --> reports --> 0 *)
(*                                                                         *)
(* and from every step to exit 1 or 2.  The claims are read from the bot's *)
(* table in one query.  The orders are the records of a file, or the       *)
(* broker's, read page by page from the latest back while the bot sends    *)
(* more, and only the claims of the same window are kept.  The bot and the *)
(* broker are external.  A request's id is its trade, so no two requests   *)
(* compete for an order (Reconciliation is about those that do).  What     *)
(* happens once the orders are read cannot reach the run any more and is   *)
(* left out.                                                               *)
(***************************************************************************)
EXTENDS Ingestion, SequencesExt

CONSTANTS
    Request,        \* what the bot may trade, as numbers
    Odd,            \* those whose row or order is not the usual one
    Keys,           \* the kinds of request ids in the table
    Record,         \* what a record of an orders file may say
    FileLength,     \* and how many it has
    MaxTime,
    Windows,        \* the windows tried, as pairs of their ends
    MaxPageSize,    \* orders of a page
    MaxPages        \* the limits on pages tried

Times   == 0..MaxTime

ASSUME RunAssumption ==
    /\ Request \subseteq Nat \ {0} /\ IsFiniteSet(Request) /\ Odd \subseteq Request
    /\ MaxTime \in Nat /\ FileLength \in Nat /\ MatchTolerance \in Nat /\ DefaultSource \in Nat
    /\ MaxPageSize \in Nat \ {0} /\ MaxPages \subseteq Nat /\ MaxPages # {}
    /\ Windows \subseteq Int \X Int

ASSUME RecordAssumption == \A r \in Record : OrderOf(r) \in OrderRecord

VARIABLES
    now,
    table,       \* Request -> its row of the bot's table, or of a claims file
    log,         \* the lines of the bot's log, if the run is given it
    book,        \* Request -> its order at the broker
    window,      \* the arguments of the run: its mode and window
    step,        \* where the run stands
    kept,        \* Request -> the claim read, or NoClaim
    had,         \* what there was to read: the rows of the table when it was
                 \* read, the orders at the broker when retrieval began
    page,        \* the retrieval: pages read, and where the next one ends
    raw,         \* the order records read
    found        \* the findings

runVars == <<now, table, log, book, window, step, kept, had, page, raw, found>>
world == <<now, table, log, book>>

NoRow   == [status |-> "none"]
NoTable == [r \in Request |-> NoRow]
NoOrder == [status |-> "none", at |-> 0]
NoClaim == [boid |-> 0, trade |-> 0, at |-> 0, aware |-> FALSE, said |-> "none"]
Row(key, r, at) ==
    [status |-> "PENDING", key |-> key, lacks |-> {}, trade |-> r, bar |-> at, created |-> at,
     said |-> "SUCCESS", result |-> 0]
\* A file's records are any; the window of an --alpaca-api run may reach past
\* the present.
RunInit ==
    /\ now = 0
    /\ book = [r \in Request |-> NoOrder]
    /\ \/ /\ window \in {[api |-> TRUE, after |-> w[1], until |-> w[2]] : w \in Windows}
          /\ raw = <<>> /\ table = NoTable /\ log = {}
       \/ /\ window = [api |-> FALSE, after |-> 0, until |-> 0]
          /\ raw \in UNION {[1..n -> Record] : n \in 0..FileLength}
          /\ \E r \in Odd, k \in Keys \cup {"record"} : \E result \in {r, Unreadable} :
             \E lacks \in {{}, {"side"}, {"said"}} :
                table = [NoTable EXCEPT ![r] = [Row(k, r, 1) EXCEPT !.result = result, !.lacks = lacks]]
          /\ log \in {{}, {"ENTER"} \X Odd, {"ENTER", "SKIP"} \X Odd}
    /\ step = "arguments"
    /\ kept = [r \in Request |-> NoClaim]
    /\ had = [rows |-> {}, orders |-> {}]
    /\ page \in [read : {0}, limit : {Min(MaxPages)}, until : {window.until}]
    /\ found = {}

-----------------------------------------------------------------------------
(* The bot and the broker.                                                 *)

Tick == now < MaxTime /\ now' = now + 1 /\ UNCHANGED <<table, log, book>>

\* The guard inserts a row; the order's bar is the one being traded.
BotClaims(r, key) ==
    /\ table[r] = NoRow
    /\ table' = [table EXCEPT ![r] = Row(key, r, now)]
    /\ UNCHANGED <<now, log, book>>

\* The order of a request is sent once, at its bar or later; some are for an
\* amount of money and have no quantity.
BotSends(r, lacks) ==
    /\ table[r].status = "PENDING" /\ book[r] = NoOrder
    /\ book' = [book EXCEPT ![r] = [status |-> "new", at |-> now, lacks |-> lacks]]
    /\ UNCHANGED <<now, table, log>>

\* The row is committed with the broker's answer, which may not be readable.
BotCommits(r, result) ==
    /\ table[r].status = "PENDING" /\ book[r] # NoOrder
    /\ table' = [table EXCEPT ![r] = [@ EXCEPT !.status = "COMMITTED", !.result = result]]
    /\ UNCHANGED <<now, log, book>>

World ==
    /\ window.api /\ step \in {"claims", "orders", "pages"}
    /\ \/ Tick
       \/ \E r \in Request :
             \/ \E key \in (IF r \in Odd THEN Keys ELSE {"order"}) : BotClaims(r, key)
             \/ \E lacks \in (IF r \in Odd THEN {{}, {"trade"}} ELSE {{}}) : BotSends(r, lacks)
             \/ step = "claims" /\ \E result \in (IF r \in Odd THEN {Unreadable, r} ELSE {r}) : BotCommits(r, result)
    /\ UNCHANGED <<window, step, kept, had, page, raw, found>>

-----------------------------------------------------------------------------
(* The run.                                                                *)

End(exit) == step' = exit /\ UNCHANGED <<kept, had, page, raw, found>>

\* main: what is not a window, an instant or a file ends the run.
ParseArguments ==
    /\ step = "arguments"
    /\ End("claims") \/ End("exit 2")
    /\ UNCHANGED <<world, window>>

\* Mutant: the window's end is not in it.
InWindowExclusive(c) ==
    window.api => c.aware /\ window.after <= c.at /\ c.at < window.until

\* Both ends are in the window; instants without a time zone are not.
InWindow(c) ==
    window.api => c.aware /\ window.after <= c.at /\ c.at <= window.until

\* parse_safeagent_db and the filter; an unreadable database is exit 1, a
\* claims file of no known format exit 2.
ReadClaims ==
    /\ step = "claims"
    /\ \/ /\ kept' = [r \in Request |->
                 LET c == ClaimOf(table[r], Interpretation(log, table[r])) IN
                 IF table[r] # NoRow /\ IsClaim(table[r]) /\ InWindow(c) THEN c ELSE NoClaim]
          /\ had' = [had EXCEPT !.rows = {r \in Request : table[r] # NoRow}]
          /\ step' = "orders"
          /\ UNCHANGED <<page, raw, found>>
       \/ End("exit 1")
       \/ ~window.api /\ End("exit 2")
    /\ UNCHANGED <<world, window>>

\* The records of a file that lack nothing required, or exit 2.
ReadFile ==
    /\ step = "orders" /\ ~window.api
    /\ \/ /\ raw' = Accepted(FileRequires, raw)
          /\ step' = "reconcile"
          /\ UNCHANGED <<kept, had, page, found>>
       \/ End("exit 2")
    /\ UNCHANGED <<world, window>>

\* build_client
Connect ==
    /\ step = "orders" /\ window.api
    /\ \/ /\ step' = "pages"
          /\ had' = [had EXCEPT !.orders = {r \in Request : book[r] # NoOrder}]
          /\ \E limit \in MaxPages : page' = [page EXCEPT !.limit = limit]
          /\ UNCHANGED <<kept, raw, found>>
       \/ End("exit 1")
    /\ UNCHANGED <<world, window>>

\* What get_orders may answer: the latest orders of the window, as many as a
\* page holds, in any order where they share an instant.  External; both
\* ends are taken to be in the window.
Pages ==
    LET there == {r \in Request : book[r] # NoOrder /\ book[r].at \in window.after..page.until} IN
    {P \in SUBSET there :
        /\ Cardinality(P) = IF Cardinality(there) < MaxPageSize THEN Cardinality(there) ELSE MaxPageSize
        /\ \A r \in P, s \in there \ P : book[s].at <= book[r].at}

\* The record of an order as it stands.
Snapshot(r) ==
    [boid |-> r, cid |-> 0, trade |-> r, at |-> book[r].at, status |-> book[r].status,
     filled |-> 0, source |-> 0, lacks |-> book[r].lacks]

Seen == {raw[i].boid : i \in DOMAIN raw}

Earliest(S) == CHOOSE t \in Times : (\E r \in S : book[r].at = t) /\ \A r \in S : t <= book[r].at

\* The orders of a page that have not been seen.  Their ids differ, so their
\* order does not matter (OrderIndependent).
Records(S) == LET q == SetToSeq(S) IN [i \in DOMAIN q |-> Snapshot(q[i])]

\* Mutant: what the last page allowed was read is reconciled.
FetchPageAnyway ==
    /\ step = "pages"
    /\ \E P \in Pages :
          LET new  == {r \in P : r \notin Seen}
              last == Cardinality(P) < MaxPageSize \/ new = {}
          IN
          /\ raw' = raw \o Records(new)
          /\ step' = IF last \/ page.read + 1 = page.limit THEN "reconcile" ELSE "pages"
          /\ page' = [page EXCEPT !.read = @ + 1, !.until = IF last THEN @ ELSE Earliest(new)]
    /\ UNCHANGED <<kept, had, found, world, window>>

\* fetch_all_orders: a page that is not full, or that holds nothing new, is
\* the last; the next one ends at the earliest order of this one.  A walk
\* that the page limit cuts short is refused, and so is any error.
FetchPage ==
    /\ step = "pages"
    /\ \/ \E P \in Pages :
             LET new  == {r \in P : r \notin Seen}
                 last == Cardinality(P) < MaxPageSize \/ new = {}
             IN
             /\ raw' = raw \o Records(new)
             /\ step' = IF last THEN "reconcile" ELSE IF page.read + 1 = page.limit THEN "exit 1" ELSE "pages"
             /\ page' = [page EXCEPT !.read = @ + 1, !.until = IF last THEN @ ELSE Earliest(new)]
             /\ UNCHANGED <<kept, had, found>>
       \/ End("exit 1")
    /\ UNCHANGED <<world, window>>

\* The orders handed to the engine.
Normalized == Clean(IF window.api THEN Accepted(ApiRequires, raw) ELSE raw)
Orders == {c.order : c \in Normalized}

Claimed == {r \in Request : kept[r] # NoClaim}

\* What the engine says of a claim, and of an order.
ClaimFinding(r) ==
    LET c == kept[r] IN
    IF \E o \in Orders : Matches(c, o)
    THEN <<IF \E o \in Orders : Matches(c, o) /\ o.status \in {"filled", "partially_filled"}
           THEN "CONFIRMED" ELSE "UNCERTAIN", r>>
    ELSE <<IF c.said = "SUCCESS" THEN "MISSING_EXTERNALLY" ELSE "UNCERTAIN", r>>

\* The findings of the engine and those of the normalization, each with the
\* records it is about; severities and wording are left out.
BuildFindings(results) ==
    results \cup {<<IF c.verdict = "conflict" THEN "INGESTION_SOURCE_IDENTITY_CONFLICT"
                    ELSE "INGESTION_UNMAPPED_STATUS_UNRESOLVED", c.of>> :
                    c \in {d \in Normalized : d.verdict \in {"conflict", "unmapped"}}}

\* The engine subtracts the instant of every claim from that of every order:
\* one claim without a time zone ends the run.
Reconcile ==
    /\ step = "reconcile"
    /\ IF \E r \in Claimed : ~kept[r].aware /\ Orders # {} THEN End("exit 1")
       ELSE /\ found' = BuildFindings({ClaimFinding(r) : r \in Claimed}
                  \cup {<<"UNRECORDED_INTERNALLY", o.trade>> :
                           o \in {p \in Orders : \A r \in Claimed : ~Matches(kept[r], p)}})
            /\ step' = "reports"
            /\ UNCHANGED <<kept, had, page, raw>>
    /\ UNCHANGED <<world, window>>

\* The three reports are written in place, one after the other; what an error
\* leaves of them is left out.
Write ==
    /\ step = "reports"
    /\ End("exit 0") \/ End("exit 1")
    /\ UNCHANGED <<world, window>>

RunNext ==
    \/ World
    \/ ParseArguments \/ ReadClaims \/ ReadFile \/ Connect \/ FetchPage \/ Reconcile \/ Write

RunSpec == RunInit /\ [][RunNext]_runVars

-----------------------------------------------------------------------------
(* Properties.                                                             *)

\* A claim is left without an order only for a reason: its order was not at
\* the broker yet when retrieval began, lies outside the window, has no
\* quantity, is named by no identifier and too late for its bar, or is no
\* later than an instant whose other orders fill a page ("never ... silently
\* truncate and proceed").
MissingIsExplained ==
    step = "exit 0" /\ window.api =>
        \A r \in Claimed \cap had.orders :
            \/ \E o \in Orders : Matches(kept[r], o)
            \/ book[r].at \notin window.after..window.until
            \/ book[r].lacks # {}
            \/ kept[r].boid = 0 /\ book[r].at - kept[r].at > MatchTolerance
            \/ \E t \in book[r].at..MaxTime :
                  Cardinality({s \in Request \ {r} : book[s] # NoOrder /\ book[s].at = t}) >= MaxPageSize

\* An order is reported as unrecorded only if the table had no row for it when
\* it was read, or one that is no claim, that the window leaves out, or that
\* names no identifier and is too early.
UnrecordedIsExplained ==
    step = "exit 0" /\ window.api =>
        \A r \in had.rows : <<"UNRECORDED_INTERNALLY", r>> \in found =>
            \/ table[r].key # "order"
            \/ table[r].bar \notin window.after..window.until
            \/ kept[r].boid = 0 /\ book[r].at - table[r].bar > MatchTolerance

\* The records of one order are one order, and what they disagree about is in
\* a finding that names them all or no disagreement: the order handed on is as
\* advanced as any of them and knows the client id ("never silently
\* collapsed").
NothingLostSilently ==
    step = "reports" /\ ~window.api =>
        \A i \in DOMAIN raw :
            LET holding == {c \in Clean(raw) : i \in c.of} IN
            /\ Cardinality(holding) = 1
            /\ \A c \in holding :
                  /\ c.of = {i} \cup {j \in DOMAIN raw :
                          raw[i].boid # 0 /\ raw[j].boid = raw[i].boid /\ raw[j].source = raw[i].source}
                  /\ c.count = Cardinality(c.of)
                  /\ \/ \E f \in found : f[1] \in {"INGESTION_SOURCE_IDENTITY_CONFLICT",
                                              "INGESTION_UNMAPPED_STATUS_UNRESOLVED"} /\ f[2] = c.of
                     \/ /\ c.order.trade = raw[i].trade /\ c.order.at = raw[i].at
                        /\ raw[i].cid \in {0, c.order.cid}
                        /\ Rank(raw[i].status) <= Rank(c.order.status)
                        /\ raw[i].status \in Terminal => raw[i].status = c.order.status

\* What is handed on, told apart by content alone.  The fill time of a
\* progress is left out where its most advanced records give several.
Handed(records) ==
    LET view(c) ==
            LET fills == {records[i].filled : i \in {j \in c.of : records[j].status = c.order.status}} IN
            [order |-> IF c.verdict = "progress" /\ Cardinality(fills) > 1
                       THEN [c.order EXCEPT !.filled = 0] ELSE c.order,
             count |-> c.count, verdict |-> c.verdict]
        all == Clean(records)
    IN {[view |-> view(c), times |-> Cardinality({d \in all : view(d) = view(c)})] : c \in all}

\* The order of the records does not matter, but for such fill times
\* ("independent of input list order").
OrderIndependent ==
    step = "reconcile" /\ ~window.api =>
        \A p \in {q \in [DOMAIN raw -> DOMAIN raw] : IsInjective(q)} : Handed([i \in DOMAIN raw |-> raw[p[i]]]) = Handed(raw)
=============================================================================
