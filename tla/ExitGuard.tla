------------------------------- MODULE ExitGuard -------------------------------
(***************************************************************************)
(* The two guards against selling a position twice.  The runtime claims an *)
(* exit in a table of its own and has the outcome marked; the patch of the *)
(* bot puts the exit into the orders table and looks whether it is         *)
(* settled.                                                                *)
(*                                                                         *)
(*   runtime: select --none--> insert --> order --> commit --> clear       *)
(*              |found: SKIP      |taken: raises  \--> quarantine --> flag *)
(*   patch:   insert or ignore --> select --not COMMITTED--> order -->     *)
(*              settle                                                     *)
(*                                                                         *)
(* Callers are threads or processes of the bot; a caller can die at every  *)
(* step.  An exit is its key: symbol, quantity and time of entry.          *)
(***************************************************************************)
EXTENDS Naturals

CONSTANTS
    Caller,
    Exit, Symbol,
    SymbolOf,        \* Exit -> its symbol
    MaxOrders        \* bound on the orders accepted for one exit

ASSUME ExitAssumption == SymbolOf \in [Exit -> Symbol] /\ MaxOrders \in Nat

VARIABLES
    guard,       \* which of the two is in use
    status,      \* Exit -> the status of its row
    phantom,     \* the symbols flagged in phantom_positions
    caller,      \* Caller -> where it stands
    sold,        \* Exit -> the sell orders the broker accepted
    overlapped,  \* exits with a call begun while another was under way
    unguarded,   \* exits for which a statement of the patch failed
    abandoned    \* exits of which a call that was to settle died or got no answer

history == <<overlapped, unguarded, abandoned>>
vars    == <<guard, status, phantom, caller, sold, overlapped, unguarded, abandoned>>

Idle == [step |-> "idle"]

Init ==
    /\ guard \in {"runtime", "patch"}
    /\ status = [e \in Exit |-> "none"]
    /\ phantom = {}
    /\ caller = [c \in Caller |-> Idle]
    /\ sold = [e \in Exit |-> 0]
    /\ overlapped = {} /\ unguarded = {} /\ abandoned = {}

Working(e) == {c \in Caller : caller[c] # Idle /\ caller[c].exit = e}

Go(c, step) == caller' = [caller EXCEPT ![c].step = step]
Return(c)   == caller' = [caller EXCEPT ![c] = Idle]

-----------------------------------------------------------------------------
\* The bot wants to exit.  late: the exit was settled before the call.
Call(c, e) ==
    /\ caller[c] = Idle
    /\ caller' = [caller EXCEPT ![c] =
           [step |-> IF guard = "runtime" THEN "select" ELSE "ignore", exit |-> e,
            late |-> status[e] = "COMMITTED", blind |-> FALSE]]
    /\ overlapped' = IF Working(e) = {} THEN overlapped ELSE overlapped \cup {e}
    /\ UNCHANGED <<guard, status, phantom, sold, unguarded, abandoned>>

\* claim_exit, first statement: any row at all is a duplicate.
Select(c) ==
    /\ caller[c] # Idle /\ caller[c].step = "select"
    /\ IF status[caller[c].exit] = "none" THEN Go(c, "insert") ELSE Return(c)
    /\ UNCHANGED <<guard, status, phantom, sold, history>>

\* Mutant: INSERT OR REPLACE.
InsertReplace(c) ==
    /\ caller[c] # Idle /\ caller[c].step = "insert"
    /\ status' = [status EXCEPT ![caller[c].exit] = "PENDING"]
    /\ Go(c, "order")
    /\ UNCHANGED <<guard, phantom, sold, history>>

\* claim_exit, second statement: a row inserted since makes it raise, where
\* the caller was promised SKIP.
Insert(c) ==
    /\ caller[c] # Idle /\ caller[c].step = "insert"
    /\ IF status[caller[c].exit] = "none"
       THEN /\ status' = [status EXCEPT ![caller[c].exit] = "PENDING"]
            /\ Go(c, "order")
       ELSE Return(c) /\ UNCHANGED status
    /\ UNCHANGED <<guard, phantom, sold, history>>

\* exit_qty_guarded: INSERT OR IGNORE, then the status.  An error in either
\* lets the exit go on without the guard.
InsertOrIgnore(c) ==
    LET e == caller[c].exit IN
    /\ caller[c] # Idle /\ caller[c].step = "ignore"
    /\ \/ /\ status' = [status EXCEPT ![e] = IF @ = "none" THEN "PENDING" ELSE @]
          /\ Go(c, "check")
          /\ UNCHANGED unguarded
       \/ /\ caller' = [caller EXCEPT ![c].step = "order", ![c].blind = TRUE]
          /\ unguarded' = unguarded \cup {e}
          /\ UNCHANGED status
    /\ UNCHANGED <<guard, phantom, sold, overlapped, abandoned>>

\* Mutant: any row but a rejected one goes on.
CheckRejected(c) ==
    /\ caller[c] # Idle /\ caller[c].step = "check"
    /\ Go(c, "order")
    /\ UNCHANGED <<guard, status, phantom, sold, history>>

Check(c) ==
    LET e == caller[c].exit IN
    /\ caller[c] # Idle /\ caller[c].step = "check"
    /\ \/ /\ IF status[e] = "COMMITTED" THEN Return(c) ELSE Go(c, "order")
          /\ UNCHANGED unguarded
       \/ /\ caller' = [caller EXCEPT ![c].step = "order", ![c].blind = TRUE]
          /\ unguarded' = unguarded \cup {e}
    /\ UNCHANGED <<guard, status, phantom, sold, overlapped, abandoned>>

-----------------------------------------------------------------------------
(* The order.                                                              *)

Accept(e) == /\ sold[e] < MaxOrders
             /\ sold' = [sold EXCEPT ![e] = @ + 1]

\* Mutant: a refused exit is left as it is.
RefusedIgnored(c) == Return(c)

\* 422: the runtime has the exit quarantined; the patch returns False.
Refused(c) == IF guard = "runtime" THEN Go(c, "quarantine") ELSE Return(c)

\* The broker refuses, or answers otherwise, which counts as done whether the
\* order was accepted or not; or it gives no answer, and the order may have
\* been accepted: the call ends and its row stays PENDING.
Order(c) ==
    LET e == caller[c].exit IN
    /\ caller[c] # Idle /\ caller[c].step = "order"
    /\ \/ /\ Accept(e) \/ UNCHANGED sold
          /\ Go(c, IF guard = "runtime" THEN "commit" ELSE "settle")
          /\ UNCHANGED abandoned
       \/ Refused(c) /\ UNCHANGED <<sold, abandoned>>
       \/ /\ Accept(e) \/ UNCHANGED sold
          /\ Return(c)
          /\ abandoned' = abandoned \cup {e}
    /\ UNCHANGED <<guard, status, phantom, overlapped, unguarded>>

-----------------------------------------------------------------------------
(* The outcome.                                                            *)

\* _update_status overwrites whatever status is there.
Marked(e, new) == [status EXCEPT ![e] = IF @ = "none" THEN @ ELSE new]

MarkCommitted(c) ==
    /\ caller[c] # Idle /\ caller[c].step = "commit"
    /\ status' = Marked(caller[c].exit, "COMMITTED")
    /\ Go(c, "clear")
    /\ UNCHANGED <<guard, phantom, sold, history>>

\* The flag of the symbol goes, whichever exit had set it.
ClearPhantom(c) ==
    /\ caller[c] # Idle /\ caller[c].step = "clear"
    /\ phantom' = phantom \ {SymbolOf[caller[c].exit]}
    /\ Return(c)
    /\ UNCHANGED <<guard, status, sold, history>>

\* mark_quarantined: two transactions.
MarkQuarantined(c) ==
    /\ caller[c] # Idle /\ caller[c].step = "quarantine"
    /\ status' = Marked(caller[c].exit, "QUARANTINED")
    /\ Go(c, "flag")
    /\ UNCHANGED <<guard, phantom, sold, history>>

SetPhantom(c) ==
    /\ caller[c] # Idle /\ caller[c].step = "flag"
    /\ phantom' = phantom \cup {SymbolOf[caller[c].exit]}
    /\ Return(c)
    /\ UNCHANGED <<guard, status, sold, history>>

\* The patch settles; an error is logged and the exit reported as done.  A
\* claim that went on blind may have no row.
SettlePatch(c) ==
    LET e == caller[c].exit IN
    /\ caller[c] # Idle /\ caller[c].step = "settle"
    /\ \/ status' = Marked(e, "COMMITTED") /\ UNCHANGED unguarded
       \/ UNCHANGED status /\ unguarded' = unguarded \cup {e}
    /\ Return(c)
    /\ UNCHANGED <<guard, phantom, sold, overlapped, abandoned>>

\* A caller dies, or a statement of the runtime raises.
Crash(c) ==
    /\ caller[c] # Idle
    /\ abandoned' = IF caller[c].step \in {"order", "commit", "quarantine", "settle"}
                    THEN abandoned \cup {caller[c].exit} ELSE abandoned
    /\ Return(c)
    /\ UNCHANGED <<guard, status, phantom, sold, overlapped, unguarded>>

Step(c) ==
    \/ \E e \in Exit : Call(c, e)
    \/ Select(c) \/ Insert(c)
    \/ InsertOrIgnore(c) \/ Check(c)
    \/ Order(c)
    \/ MarkCommitted(c) \/ ClearPhantom(c)
    \/ MarkQuarantined(c) \/ SetPhantom(c)
    \/ SettlePatch(c)
    \/ Crash(c)

Next == \E c \in Caller : Step(c)

Spec == Init /\ [][Next]_vars

-----------------------------------------------------------------------------
(* Properties.                                                             *)

RuntimeSteps == {"select", "insert", "order", "commit", "clear", "quarantine", "flag"}
PatchSteps   == {"ignore", "check", "order", "settle"}

TypeOK ==
    /\ guard \in {"runtime", "patch"}
    /\ status \in [Exit -> {"none", "PENDING", "COMMITTED", "QUARANTINED"}]
    /\ phantom \subseteq Symbol
    /\ caller \in [Caller -> {Idle} \cup
                     [step : IF guard = "runtime" THEN RuntimeSteps ELSE PatchSteps,
                      exit : Exit, late : BOOLEAN, blind : BOOLEAN]]
    /\ sold \in [Exit -> 0..MaxOrders]
    /\ overlapped \subseteq Exit /\ unguarded \subseteq Exit /\ abandoned \subseteq Exit

Gaps == overlapped \cup unguarded \cup abandoned

\* "Exit-side exactly-once guard": the runtime never lets an exit be sold
\* twice; the patch does only for an exit whose calls overlapped, one of which
\* went without the guard, or died or got no answer on its way to settle.
OnlyGapsResell == \A e \in Exit : sold[e] > 1 => guard = "patch" /\ e \in Gaps

\* "Every subsequent call returns SKIP immediately - before touching the
\* broker": true of a call that begins after the exit was settled, unless the
\* guard itself failed.
CommittedIsSkipped ==
    \A c \in Caller : caller[c] # Idle /\ caller[c].late
        => caller[c].step \notin {"order", "commit", "settle"} \/ caller[c].blind

\* An exit the runtime leaves PENDING, which it will never let anyone sell
\* again, has a call that claimed it and is still to order or to mark it, or
\* had one that died or got no answer; that calls overlapped explains nothing.
PendingIsExplained ==
    \A e \in Exit : guard = "runtime" /\ status[e] = "PENDING" =>
        \/ \E c \in Working(e) : caller[c].step \in {"order", "commit", "quarantine"}
        \/ e \in abandoned
=============================================================================
