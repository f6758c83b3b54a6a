------------------------------- MODULE Ingestion -------------------------------
(***************************************************************************)
(* What reaches the reconciliation engine: the claims that are made of the *)
(* bot's rows, and the orders that are made of the broker's records, one   *)
(* per source identity.                                                    *)
(*                                                                         *)
(* Identifiers, sources and instants are numbers, and 0 is a missing one;  *)
(* symbol, side and quantity are one number, the trade.  A record lacks    *)
(* the fields that are absent or that no parser makes sense of.            *)
(***************************************************************************)
EXTENDS Integers, FiniteSets

CONSTANTS
    DefaultSource,    \* --source-account, or 0
    MatchTolerance         \* how far a claim and an order may be apart

-----------------------------------------------------------------------------
(* Broker records.                                                         *)

\* The statuses, as strings compare.  "held" is one no table lists.
Statuses == <<"accepted", "canceled", "cancelled", "expired", "filled", "held", "new",
              "partially_filled", "pending_new", "rejected">>
Terminal == {"filled", "rejected", "canceled", "cancelled", "expired"}
Unmapped == {"held"}

Place(s) == CHOOSE n \in DOMAIN Statuses : Statuses[n] = s
Rank(s)  == CASE s \in Terminal -> 2 [] s = "partially_filled" -> 1 [] OTHER -> 0

\* The fields a file has to give, and those the API's orders may be without.
FileRequires == {"trade", "status", "at"}
ApiRequires  == {"trade", "at"}

Accepts(required, record) == record.lacks \cap required = {}

OrderRecord == [boid : Nat, cid : Nat, trade : Nat, at : Nat, filled : Nat, source : Nat,
                status : {Statuses[n] : n \in DOMAIN Statuses}]

\* The order of an accepted record; an account it does not name is the one
\* the operator gave.
OrderOf(r) ==
    [boid |-> r.boid, cid |-> r.cid, trade |-> r.trade, at |-> r.at, status |-> r.status,
     filled |-> r.filled, source |-> IF r.source = 0 THEN DefaultSource ELSE r.source]

\* The orders of the accepted records, each in its record's place.
Accepted(required, records) ==
    [i \in {j \in DOMAIN records : Accepts(required, records[j])} |-> OrderOf(records[i])]

-----------------------------------------------------------------------------
(* Identity, and what a group of one identity says.                        *)

\* A broker order id identifies within its source; records without one are
\* identified by all they say, and identical ones are told apart by rank.
Identity(raw, i) ==
    IF raw[i].boid # 0
    THEN [source |-> raw[i].source, boid |-> raw[i].boid, like |-> 0, rank |-> 0]
    ELSE LET like == {j \in DOMAIN raw : raw[j] = raw[i]} IN
         [source |-> raw[i].source, boid |-> 0, like |-> CHOOSE j \in like : \A k \in like : j <= k,
          rank |-> Cardinality({j \in like : j < i})]

Groups(raw) ==
    {{j \in DOMAIN raw : Identity(raw, j) = Identity(raw, i)} : i \in DOMAIN raw}

\* Mutant: client ids are not compared.
DisagreeButCid(raw, G) ==
    \E i, j \in G : \/ raw[i].trade # raw[j].trade
                    \/ raw[i].at # raw[j].at

\* An immutable field disagrees.  A client id may become known.
Disagree(raw, G) ==
    \E i, j \in G : \/ raw[i].trade # raw[j].trade
                    \/ raw[i].at # raw[j].at
                    \/ raw[i].cid # raw[j].cid /\ raw[i].cid # 0 /\ raw[j].cid # 0

Verdict(raw, G) ==
    LET statuses == {raw[i].status : i \in G} IN
    CASE Cardinality({raw[i] : i \in G}) = 1 -> "duplicate"
      [] Disagree(raw, G) -> "conflict"
      [] Cardinality(statuses \cap Terminal) > 1 -> "conflict"
      [] Cardinality(statuses) > 1 /\ statuses \cap Unmapped # {} -> "unmapped"
      [] OTHER -> "progress"

Before(a, b) == \E k \in DOMAIN a : a[k] < b[k] /\ \A m \in 1..(k - 1) : a[m] = b[m]

Missing(x) == IF x = 0 THEN 1 ELSE 0

\* Of a contradiction, the first by content; "None" sorts after any digit.
Key(o) == <<-Rank(o.status), o.at, Place(o.status), Missing(o.filled), o.filled,
            Missing(o.cid), o.cid, o.trade>>

\* Mutant: the first of the list.
FirstOfList(raw, G) == CHOOSE i \in G : \A j \in G : i <= j

FirstByContent(raw, G) ==
    CHOOSE i \in G : \A j \in G : ~Before(Key(raw[j]), Key(raw[i]))

\* Of a progress, the most advanced, and the first of the list among equals.
MostAdvanced(raw, G) ==
    LET order(i) == <<-Rank(raw[i].status), -Place(raw[i].status), i>>
    IN CHOOSE i \in G : \A j \in G : ~Before(order(j), order(i))

Representative(raw, G) ==
    IF Verdict(raw, G) \in {"conflict", "unmapped"}
    THEN FirstByContent(raw, G) ELSE MostAdvanced(raw, G)

\* The client id of the others is carried over if they have one between them.
Enriched(raw, G) ==
    LET rep == raw[Representative(raw, G)]
        ids == {raw[i].cid : i \in G} \ {0}
    IN IF rep.cid = 0 /\ Cardinality(ids) = 1
       THEN [rep EXCEPT !.cid = CHOOSE c \in ids : TRUE] ELSE rep

\* normalize_ingested_orders: one order per identity, with how many records
\* it stands for, and whether a finding says that they disagree.
Clean(raw) ==
    {[order |-> Enriched(raw, G), of |-> G, count |-> Cardinality(G), verdict |-> Verdict(raw, G)] :
        G \in Groups(raw)}

-----------------------------------------------------------------------------
(* Claims.                                                                 *)

\* A row of the bot's table is a claim if its key is an order's and decodes
\* to a side and an instant: that of the bar or, without it, of the row,
\* which has no time zone.  Keys of exits name no side.  A record of a claims
\* file is one if it lacks nothing, what the caller made of it included.
IsClaim(row) ==
    \/ row.key \in {"order", "undated"} /\ row.lacks \cap {"side", "trade"} = {}
    \/ row.key = "record" /\ row.lacks = {}

Unreadable == -1

\* The broker's answer in the result column names the order if it can be
\* unwrapped to one that does; none, and one that cannot, name no order.
ResultOf(row) == IF row.result = Unreadable THEN 0 ELSE row.result

ClaimOf(row, said) ==
    [boid |-> ResultOf(row), trade |-> row.trade, at |-> IF row.key = "undated" THEN row.created ELSE row.bar,
     aware |-> row.key # "undated", said |-> IF row.key = "record" THEN row.said ELSE said]

\* What the bot's log says of a row: a SKIP line is believed first.
Interpretation(log, row) ==
    CASE <<"SKIP", row.trade>> \in log -> "SKIPPED"
      [] <<"SKIP", row.trade>> \notin log /\ <<"ENTER", row.trade>> \in log -> "SUCCESS"
      [] OTHER -> "UNKNOWN"

\* A claim with an identifier is matched by it, another by what was traded
\* and when.
Matches(claim, order) ==
    IF claim.boid # 0 THEN claim.boid = order.boid
    ELSE claim.trade = order.trade /\ claim.at - order.at \in -MatchTolerance..MatchTolerance
=============================================================================
