-------------------------- MODULE HostedClaimsProofs --------------------------
(***************************************************************************)
(* HostedClaims for any number of servers, agents and requests: an action  *)
(* is executed at most once, the stored result is the owner's, what was    *)
(* answered is stored, and the service implements ExecClaims.              *)
(***************************************************************************)
EXTENDS HostedClaims, TLAPS

-----------------------------------------------------------------------------
(* Types.                                                                  *)

AgentState == {Ready} \cup [step : {"claiming", "granted", "executed", "settling"}, req : Req]
HandlerState == Handler \cup {Idle}

LEMMA AgentTyped ==
    ASSUME TypeOK, NEW a \in Agent, agent[a].step # "ready"
    PROVE  /\ agent[a].req \in Req
           /\ agent[a].step \in {"claiming", "granted", "executed", "settling"}
           /\ agent[a] = [step |-> agent[a].step, req |-> agent[a].req]
  BY DEF TypeOK, Ready

LEMMA HandlerTyped ==
    ASSUME TypeOK, NEW s \in Server, handler[s].step # "idle"
    PROVE  /\ handler[s] \in Handler
           /\ handler[s].agent \in Agent
           /\ handler[s].req \in Req
  BY DEF TypeOK, Handler, Idle

LEMMA AtTyped ==
    ASSUME TypeOK, NEW a \in Agent, NEW r \in Req,
           NEW step \in {"claiming", "granted", "executed", "settling"}, At(a, step, r)
    PROVE  agent' \in [Agent -> AgentState]
  BY DEF TypeOK, At, AgentState

LEMMA StepTyped ==
    ASSUME TypeOK, NEW s \in Server, handler[s].step # "idle",
           NEW step \in {"insert", "reread", "update"}, Step(s, step)
    PROVE  /\ handler' \in [Server -> HandlerState]
           /\ handler'[s].step = step
           /\ handler'[s].agent = handler[s].agent
           /\ handler'[s].req = handler[s].req
           /\ \A t \in Server : t # s => handler'[t] = handler[t]
  <1>1. handler[s] \in Handler
    BY HandlerTyped
  <1>2. [handler[s] EXCEPT !.step = step] \in Handler
    BY <1>1 DEF Handler
  <1>3. /\ [handler[s] EXCEPT !.step = step].step = step
        /\ [handler[s] EXCEPT !.step = step].agent = handler[s].agent
        /\ [handler[s] EXCEPT !.step = step].req = handler[s].req
    BY <1>1 DEF Handler
  <1>4. /\ handler'[s] = [handler[s] EXCEPT !.step = step]
        /\ \A t \in Server : t # s => handler'[t] = handler[t]
    BY DEF Step, TypeOK
  <1>5. handler' \in [Server -> HandlerState]
    BY <1>2 DEF Step, TypeOK, HandlerState
  <1> QED
    BY <1>3, <1>4, <1>5

\* What an answer does: the server is idle, the agent has moved on or not, and
\* only PROCEED gives it a token.
Answered(s, status, next) ==
    LET a == handler[s].agent
        r == handler[s].req
    IN
    /\ handler'[s] = Idle
    /\ \A t \in Server : t # s => handler'[t] = handler[t]
    /\ answers' = answers \cup {<<r, status>>}
    /\ \/ /\ agent'[a] = next
          /\ \A b \in Agent : b # a => agent'[b] = agent[b]
          /\ tokens'[a] = IF status = "PROCEED" THEN tokens[a] \cup {r} ELSE tokens[a]
          /\ \A b \in Agent : b # a => tokens'[b] = tokens[b]
       \/ UNCHANGED <<agent, tokens>>

LEMMA AnswerTyped ==
    ASSUME TypeOK, NEW s \in Server, handler[s].step # "idle",
           NEW status \in Status, NEW next \in AgentState, Answer(s, status, next)
    PROVE  /\ handler' \in [Server -> HandlerState]
           /\ agent'   \in [Agent -> AgentState]
           /\ tokens'  \in [Agent -> SUBSET Req]
           /\ answers' \subseteq Req \X Status
           /\ Answered(s, status, next)
  <1> DEFINE a == handler[s].agent
             r == handler[s].req
  <1>1. a \in Agent /\ r \in Req
    BY HandlerTyped
  <1>2. /\ handler' \in [Server -> HandlerState]
        /\ handler'[s] = Idle
        /\ \A t \in Server : t # s => handler'[t] = handler[t]
    BY DEF Answer, TypeOK, HandlerState
  <1>3. answers' = answers \cup {<<r, status>>} /\ answers' \subseteq Req \X Status
    BY <1>1 DEF Answer, TypeOK
  <1>4. CASE UNCHANGED <<agent, tokens>>
    BY <1>2, <1>3, <1>4 DEF Answered, TypeOK, AgentState
  <1>5. CASE /\ agent'  = [agent EXCEPT ![a] = next]
             /\ tokens' = [tokens EXCEPT ![a] = IF status = "PROCEED" THEN @ \cup {r} ELSE @]
    <2>1. /\ agent' \in [Agent -> AgentState]
          /\ agent'[a] = next
          /\ \A b \in Agent : b # a => agent'[b] = agent[b]
      BY <1>1, <1>5 DEF TypeOK, AgentState
    <2>2. (IF status = "PROCEED" THEN tokens[a] \cup {r} ELSE tokens[a]) \in SUBSET Req
      BY <1>1 DEF TypeOK
    <2>3. /\ tokens' \in [Agent -> SUBSET Req]
          /\ tokens'[a] = IF status = "PROCEED" THEN tokens[a] \cup {r} ELSE tokens[a]
          /\ \A b \in Agent : b # a => tokens'[b] = tokens[b]
      BY <1>1, <1>5, <2>2 DEF TypeOK
    <2> QED
      BY <1>2, <1>3, <2>1, <2>3 DEF Answered
  <1> QED
    BY <1>4, <1>5 DEF Answer

LEMMA RaiseTyped ==
    ASSUME TypeOK, NEW s \in Server, Raise(s)
    PROVE  /\ handler' \in [Server -> HandlerState]
           /\ handler'[s] = Idle
           /\ \A t \in Server : t # s => handler'[t] = handler[t]
           /\ UNCHANGED <<agent, tokens, answers>>
  BY DEF Raise, TypeOK, HandlerState

LEMMA FoundTyped ==
    ASSUME TypeOK, NEW s \in Server, handler[s].step # "idle", Found(s)
    PROVE  /\ handler' \in [Server -> HandlerState]
           /\ agent'   \in [Agent -> AgentState]
           /\ tokens'  \in [Agent -> SUBSET Req]
           /\ answers' \subseteq Req \X Status
           /\ \/ row[handler[s].req].status = "COMMITTED" /\ Answered(s, "SKIP", Ready)
              \/ Answered(s, "PENDING", Ready)
  <1>1. Ready \in AgentState /\ "SKIP" \in Status /\ "PENDING" \in Status
    BY DEF AgentState, Status
  <1> QED
    BY <1>1, AnswerTyped DEF Found

LEMMA ClaimedRowTyped ==
    ASSUME TypeOK, NEW r \in Req, row' = [row EXCEPT ![r] = [status |-> "PENDING", by |-> {}]]
    PROVE  /\ row' \in [Req -> Row \cup {NoRow}]
           /\ row'[r] = [status |-> "PENDING", by |-> {}]
           /\ \A q \in Req : q # r => row'[q] = row[q]
  BY DEF TypeOK, Row

LEMMA RowTyped ==
    ASSUME TypeOK, NEW r \in Req
    PROVE  /\ row[r] = NoRow <=> row[r].status = "none"
           /\ row[r] = NoRow \/ row[r].status \in {"PENDING", "COMMITTED"}
           /\ row[r] # NoRow => row[r] \in Row
  BY DEF TypeOK, Row, NoRow

\* What UPDATE ... WHERE status = 'PENDING' leaves behind.
CommittedRow(s) ==
    LET r == handler[s].req IN
    /\ row[r].status = "PENDING" =>
          row'[r].status = "COMMITTED" /\ row'[r].by = {handler[s].agent}
    /\ row[r].status # "PENDING" => row'[r] = row[r]
    /\ \A q \in Req : q # r => row'[q] = row[q]

LEMMA UpdateTyped ==
    ASSUME TypeOK, NEW s \in Server, Update(s)
    PROVE  /\ row' \in [Req -> Row \cup {NoRow}]
           /\ handler' \in [Server -> HandlerState]
           /\ agent'   \in [Agent -> AgentState]
           /\ tokens'  \in [Agent -> SUBSET Req]
           /\ answers' \subseteq Req \X Status
           /\ \/ CommittedRow(s) /\ Answered(s, "committed", Ready)
              \/ (CommittedRow(s) \/ UNCHANGED row) /\ Raise(s)
  <1> DEFINE r == handler[s].req
             committed == [status |-> "COMMITTED", by |-> {handler[s].agent}]
             commit == row' = [row EXCEPT ![r] = IF @.status = "PENDING" THEN committed ELSE @]
  <1>1. handler[s].step # "idle" /\ r \in Req /\ handler[s].agent \in Agent
    BY HandlerTyped DEF Update
  <1>2. committed \in Row /\ committed.status = "COMMITTED" /\ committed.by = {handler[s].agent}
    BY <1>1 DEF Row
  <1>3. ASSUME commit PROVE row' \in [Req -> Row \cup {NoRow}] /\ CommittedRow(s)
    <2>1. row' = [row EXCEPT ![r] = IF row[r].status = "PENDING" THEN committed ELSE row[r]]
      BY <1>3
    <2> HIDE DEF commit, committed
    <2>2. (IF row[r].status = "PENDING" THEN committed ELSE row[r]) \in Row \cup {NoRow}
      BY <1>1, <1>2 DEF TypeOK
    <2> QED
      BY <1>1, <1>2, <2>1, <2>2 DEF TypeOK, CommittedRow
  <1>4. Ready \in AgentState /\ "committed" \in Status
    BY DEF AgentState, Status
  <1>5. \/ commit /\ Answer(s, "committed", Ready)
        \/ (commit \/ UNCHANGED row) /\ Raise(s)
    BY DEF Update
  <1> HIDE DEF commit
  <1>6. CASE commit /\ Answer(s, "committed", Ready)
    BY <1>1, <1>3, <1>4, <1>6, AnswerTyped
  <1>7. CASE (commit \/ UNCHANGED row) /\ Raise(s)
    BY <1>3, <1>7, RaiseTyped DEF TypeOK, AgentState
  <1> QED
    BY <1>5, <1>6, <1>7

LEMMA TypeInductive == TypeOK /\ [Next]_vars => TypeOK'
  <1> SUFFICES ASSUME TypeOK, [Next]_vars PROVE TypeOK'
    OBVIOUS
  <1>1. ASSUME NEW a \in Agent, NEW r \in Req, Claim(a, r) PROVE TypeOK'
    BY <1>1, AtTyped DEF Claim, TypeOK, AgentState
  <1>2. ASSUME NEW a \in Agent, Execute(a) PROVE TypeOK'
    <2>1. agent[a].req \in Req
      BY <1>2, AgentTyped DEF Execute
    <2> QED
      BY <1>2, <2>1, AtTyped DEF Execute, TypeOK, AgentState
  <1>3. ASSUME NEW a \in Agent, Settle(a) \/ TimeOut(a) \/ AgentCrash(a) PROVE TypeOK'
    <2>1. agent' \in [Agent -> AgentState]
      BY <1>3, AgentTyped, AtTyped DEF Settle, TimeOut, AgentCrash, TypeOK, AgentState
    <2>2. tokens' \in [Agent -> SUBSET Req]
      BY <1>3 DEF Settle, TimeOut, AgentCrash, TypeOK
    <2> QED
      BY <1>3, <2>1, <2>2 DEF Settle, TimeOut, AgentCrash, TypeOK, AgentState
  <1>4. ASSUME NEW s \in Server, NEW a \in Agent, Receive(s, a) PROVE TypeOK'
    <2>1. agent[a].req \in Req
      BY <1>4, AgentTyped DEF Receive
    <2> QED
      BY <1>4, <2>1 DEF Receive, TypeOK, Handler
  <1>5. ASSUME NEW s \in Server, Get(s) PROVE TypeOK'
    BY <1>5, FoundTyped, StepTyped, RaiseTyped DEF Get, TypeOK, AgentState, HandlerState
  <1>6. ASSUME NEW s \in Server, Insert(s) PROVE TypeOK'
    <2> DEFINE r == handler[s].req
    <2>1. handler[s].step # "idle" /\ r \in Req /\ handler[s].agent \in Agent
      BY <1>6, HandlerTyped DEF Insert
    <2>2. row' \in [Req -> Row \cup {NoRow}]
      BY <1>6, <2>1, ClaimedRowTyped DEF Insert, TypeOK
    <2>3. owner' \in [Req -> SUBSET Agent]
      BY <1>6, <2>1 DEF Insert, TypeOK
    <2>4. Granted(r) \in AgentState /\ "PROCEED" \in Status
      BY <2>1 DEF Granted, AgentState, Status
    <2>5. \/ Answer(s, "PROCEED", Granted(r))
          \/ Step(s, "reread") /\ UNCHANGED <<agent, tokens, answers>>
      BY <1>6 DEF Insert
    <2>6. /\ handler' \in [Server -> HandlerState]
          /\ agent'   \in [Agent -> AgentState]
          /\ tokens'  \in [Agent -> SUBSET Req]
          /\ answers' \subseteq Req \X Status
      <3>1. CASE Answer(s, "PROCEED", Granted(r))
        BY <2>1, <2>4, <3>1, AnswerTyped
      <3>2. CASE Step(s, "reread") /\ UNCHANGED <<agent, tokens, answers>>
        BY <2>1, <3>2, StepTyped DEF TypeOK, AgentState
      <3> QED
        BY <2>5, <3>1, <3>2
    <2>7. effects' \in [Req -> Nat]
      BY <1>6 DEF Insert, TypeOK
    <2> QED
      BY <2>2, <2>3, <2>6, <2>7 DEF TypeOK, AgentState, HandlerState
  <1>7. ASSUME NEW s \in Server, Reread(s) PROVE TypeOK'
    BY <1>7, FoundTyped, RaiseTyped DEF Reread, TypeOK, AgentState, HandlerState
  <1>8. ASSUME NEW s \in Server, SettleGet(s) PROVE TypeOK'
    <2>1. Ready \in AgentState /\ "already_committed" \in Status
      BY DEF AgentState, Status
    <2> QED
      BY <1>8, <2>1, AnswerTyped, StepTyped, RaiseTyped
      DEF SettleGet, TypeOK, AgentState, HandlerState
  <1>9. ASSUME NEW s \in Server, Update(s) PROVE TypeOK'
    BY <1>9, UpdateTyped DEF Update, TypeOK, AgentState, HandlerState
  <1>10. ASSUME NEW s \in Server, ServerCrash(s) PROVE TypeOK'
    BY <1>10, RaiseTyped DEF ServerCrash, TypeOK, AgentState, HandlerState
  <1>11. CASE UNCHANGED vars
    BY <1>11 DEF vars, TypeOK
  <1> QED
    BY <1>1, <1>2, <1>3, <1>4, <1>5, <1>6, <1>7, <1>8, <1>9, <1>10, <1>11 DEF Next, Serve

\* Rows, calls, agents, tokens and answers keep their types.
THEOREM HostedTyped == Spec => []TypeOK
  <1>1. Init => TypeOK
    BY DEF Init, TypeOK
  <1> QED
    BY <1>1, TypeInductive, PTL DEF Spec

-----------------------------------------------------------------------------
(* At most once.                                                           *)

Executing == {"executed", "settling"}
Settling  == {"settle_get", "update"}

\* A granted agent owns its request and nobody has executed it; one that is
\* past its execution has executed it.
Grants ==
    \A a \in Agent : agent[a].step = "granted" =>
        effects[agent[a].req] = 0 /\ a \in owner[agent[a].req]

Executions ==
    \A a \in Agent : agent[a].step \in Executing => effects[agent[a].req] = 1

\* One agent owns a request, and the holder of its token does.
OneOwner == \A r \in Req : \A a, b \in owner[r] : a = b

Tokens == \A a \in Agent : \A r \in tokens[a] : a \in owner[r]

\* A row stands for its request: without one nothing was won or executed, and
\* a committed one was executed.
RowsTell ==
    \A r \in Req :
        /\ row[r] = NoRow => effects[r] = 0 /\ owner[r] = {}
        /\ row[r].status = "COMMITTED" => effects[r] = 1

\* A settle under way comes from the owner, after its execution.
Settles ==
    \A s \in Server : handler[s].step \in Settling =>
        /\ handler[s].agent \in owner[handler[s].req]
        /\ effects[handler[s].req] = 1

SafetyInv ==
    /\ Grants /\ Executions /\ OneOwner /\ Tokens /\ RowsTell /\ Settles
    /\ AtMostOnce /\ ResultIsOwners /\ AnsweredIsStored

\* What the steps that neither execute nor win a claim do to each part of the
\* state.
AgentsMoved ==
    \A a \in Agent :
        /\ \/ agent'[a] = agent[a]
           \/ agent'[a].step \notin {"granted"} \cup Executing
           \/ /\ agent[a].step \in Executing
              /\ agent'[a].step \in Executing
              /\ agent'[a].req = agent[a].req
        /\ tokens'[a] \subseteq tokens[a]

HandlersMoved ==
    \A s \in Server : handler'[s].step \in Settling =>
        \/ /\ handler[s].step \in Settling
           /\ handler'[s].agent = handler[s].agent
           /\ handler'[s].req = handler[s].req
        \/ LET a == handler'[s].agent IN
           /\ a \in Agent
           /\ agent[a].step = "settling"
           /\ agent[a].req = handler'[s].req
           /\ handler'[s].req \in tokens[a]

RowsMoved ==
    \A r \in Req :
        \/ row'[r] = row[r]
        \/ row[r] = NoRow /\ row'[r].status = "PENDING" /\ row'[r].by = {}
        \/ /\ row[r].status = "PENDING" /\ row'[r].status = "COMMITTED"
           /\ row'[r].by \subseteq owner[r]
           /\ effects[r] = 1

Success == {"committed", "already_committed", "SKIP"}

AnswersMoved ==
    \A r \in Req, status \in Success : <<r, status>> \in answers' =>
        <<r, status>> \in answers \/ row'[r].status = "COMMITTED"

LEMMA QuietSafe ==
    ASSUME TypeOK, TypeOK', SafetyInv, AgentsMoved, HandlersMoved, RowsMoved, AnswersMoved,
           UNCHANGED <<effects, owner>>
    PROVE  SafetyInv'
  <1> USE DEF SafetyInv
  <1>1. Grants' /\ Executions'
    BY DEF Grants, Executions, AgentsMoved, Executing
  <1>2. OneOwner' /\ AtMostOnce'
    BY DEF OneOwner, AtMostOnce
  <1>3. Tokens'
    BY DEF Tokens, AgentsMoved
  <1>4. ASSUME NEW r \in Req
        PROVE  /\ row'[r] = NoRow => row[r] = NoRow
               /\ row'[r].status = "COMMITTED" => row[r].status = "COMMITTED" \/ effects[r] = 1
               /\ row[r].status = "COMMITTED" => row'[r].status = "COMMITTED"
               /\ row'[r].by \subseteq owner[r]
    <2>1. CASE row'[r] = row[r]
      BY <2>1 DEF ResultIsOwners
    <2>2. CASE row[r] = NoRow /\ row'[r].status = "PENDING" /\ row'[r].by = {}
      BY <2>2 DEF NoRow
    <2>3. CASE /\ row[r].status = "PENDING" /\ row'[r].status = "COMMITTED"
               /\ row'[r].by \subseteq owner[r]
               /\ effects[r] = 1
      BY <2>3 DEF NoRow
    <2> QED
      BY <2>1, <2>2, <2>3 DEF RowsMoved
  <1>5. RowsTell'
    BY <1>4 DEF RowsTell
  <1>6. ResultIsOwners'
    BY <1>4 DEF ResultIsOwners
  <1>7. AnsweredIsStored'
    BY <1>4 DEF AnsweredIsStored, AnswersMoved, Success
  <1>8. Settles'
    BY DEF Settles, HandlersMoved, Executions, Executing, Tokens
  <1> QED
    BY <1>1, <1>2, <1>3, <1>5, <1>6, <1>7, <1>8

\* An answer other than PROCEED, with a committed row behind a success.
LEMMA AnsweredQuiet ==
    ASSUME TypeOK, NEW s \in Server, handler[s].step # "idle",
           NEW status \in Status \ {"PROCEED"}, Answered(s, status, Ready),
           status \in Success => row'[handler[s].req].status = "COMMITTED"
    PROVE  AgentsMoved /\ HandlersMoved /\ AnswersMoved
  <1>1. handler[s].agent \in Agent
    BY HandlerTyped
  <1>2. AgentsMoved
    BY <1>1 DEF Answered, AgentsMoved, Ready, Executing
  <1>3. HandlersMoved
    BY DEF Answered, HandlersMoved, Idle, Settling
  <1>4. AnswersMoved
    BY DEF Answered, AnswersMoved
  <1> QED
    BY <1>2, <1>3, <1>4

LEMMA RaiseQuiet ==
    ASSUME TypeOK, NEW s \in Server, Raise(s)
    PROVE  AgentsMoved /\ HandlersMoved /\ AnswersMoved
  BY RaiseTyped DEF AgentsMoved, HandlersMoved, AnswersMoved, Idle, Settling

LEMMA StepQuiet ==
    ASSUME TypeOK, NEW s \in Server, handler[s].step # "idle",
           NEW step \in {"insert", "reread", "update"}, Step(s, step),
           step = "update" => handler[s].step \in Settling,
           UNCHANGED <<agent, tokens, answers>>
    PROVE  AgentsMoved /\ HandlersMoved /\ AnswersMoved
  <1>1. HandlersMoved
    BY StepTyped DEF HandlersMoved, Settling
  <1>2. AgentsMoved /\ AnswersMoved
    BY DEF AgentsMoved, AnswersMoved
  <1> QED
    BY <1>1, <1>2

LEMMA FoundQuiet ==
    ASSUME TypeOK, NEW s \in Server, handler[s].step # "idle", Found(s), UNCHANGED row
    PROVE  AgentsMoved /\ HandlersMoved /\ AnswersMoved
  <1>1. CASE row[handler[s].req].status = "COMMITTED" /\ Answered(s, "SKIP", Ready)
    BY <1>1, AnsweredQuiet DEF Status
  <1>2. CASE Answered(s, "PENDING", Ready)
    BY <1>2, AnsweredQuiet DEF Status, Success
  <1> QED
    BY <1>1, <1>2, FoundTyped

\* The agents' own steps, but for Execute, and the arrival of a request.
LEMMA AgentQuiet ==
    ASSUME TypeOK, NEW a \in Agent,
           (\E r \in Req : Claim(a, r)) \/ Settle(a) \/ TimeOut(a) \/ AgentCrash(a)
    PROVE  AgentsMoved /\ HandlersMoved /\ AnswersMoved /\ RowsMoved
  <1>1. /\ \A b \in Agent : b # a => agent'[b] = agent[b]
        /\ \/ agent'[a].step \notin {"granted"} \cup Executing
           \/ /\ agent[a].step \in Executing
              /\ agent'[a].step \in Executing
              /\ agent'[a].req = agent[a].req
    BY DEF Claim, Settle, TimeOut, AgentCrash, At, TypeOK, Ready, Executing
  <1>2. \A b \in Agent : tokens'[b] \subseteq tokens[b]
    BY DEF Claim, Settle, TimeOut, AgentCrash, TypeOK
  <1>3. UNCHANGED <<row, handler, answers>>
    BY DEF Claim, Settle, TimeOut, AgentCrash
  <1> QED
    BY <1>1, <1>2, <1>3 DEF AgentsMoved, HandlersMoved, AnswersMoved, RowsMoved

LEMMA ReceiveQuiet ==
    ASSUME TypeOK, NEW s \in Server, NEW a \in Agent, Receive(s, a)
    PROVE  AgentsMoved /\ HandlersMoved /\ AnswersMoved /\ RowsMoved
  <1>1. \A t \in Server : t # s => handler'[t] = handler[t]
    BY DEF Receive, TypeOK
  <1>2. \/ handler'[s].step = "get"
        \/ /\ handler'[s].agent = a /\ handler'[s].req = agent[a].req
           /\ agent[a].step = "settling" /\ agent[a].req \in tokens[a]
    BY DEF Receive, TypeOK
  <1>3. HandlersMoved
    BY <1>1, <1>2 DEF HandlersMoved, Settling
  <1>4. UNCHANGED <<row, agent, tokens, answers>>
    BY DEF Receive
  <1> QED
    BY <1>3, <1>4 DEF AgentsMoved, AnswersMoved, RowsMoved

\* The claim won: the row is inserted and the caller owns the request.
Won(s) ==
    LET a == handler[s].agent
        r == handler[s].req
    IN
    /\ row[r] = NoRow
    /\ row'[r] = [status |-> "PENDING", by |-> {}]
    /\ owner'[r] = owner[r] \cup {a}
    /\ \A q \in Req : q # r => row'[q] = row[q] /\ owner'[q] = owner[q]
    /\ Answered(s, "PROCEED", Granted(r))
    /\ UNCHANGED effects

\* The claim lost, or not known to be won.
Lost(s) ==
    LET r == handler[s].req IN
    /\ \/ /\ row[r] = NoRow
          /\ row'[r] = [status |-> "PENDING", by |-> {}]
          /\ \A q \in Req : q # r => row'[q] = row[q]
       \/ UNCHANGED row
    /\ Step(s, "reread")
    /\ UNCHANGED <<owner, agent, tokens, answers, effects>>

LEMMA InsertSteps ==
    ASSUME TypeOK, NEW s \in Server, Insert(s)
    PROVE  Won(s) \/ Lost(s)
  <1> DEFINE r == handler[s].req
             new == row' = [row EXCEPT ![r] = [status |-> "PENDING", by |-> {}]]
  <1>1. handler[s].step # "idle" /\ r \in Req /\ handler[s].agent \in Agent
    BY HandlerTyped DEF Insert
  <1>2. \/ /\ row[r] = NoRow /\ new
           /\ owner' = [owner EXCEPT ![r] = @ \cup {handler[s].agent}]
           /\ Answer(s, "PROCEED", Granted(r))
           /\ UNCHANGED effects
        \/ /\ (row[r] = NoRow /\ new) \/ UNCHANGED row
           /\ Step(s, "reread")
           /\ UNCHANGED <<owner, agent, tokens, answers, effects>>
    BY DEF Insert
  <1>3. new => /\ row'[r] = [status |-> "PENDING", by |-> {}]
               /\ \A q \in Req : q # r => row'[q] = row[q]
    BY <1>1, ClaimedRowTyped
  <1> HIDE DEF new
  <1>4. CASE /\ row[r] = NoRow /\ new
             /\ owner' = [owner EXCEPT ![r] = @ \cup {handler[s].agent}]
             /\ Answer(s, "PROCEED", Granted(r))
             /\ UNCHANGED effects
    <2>1. Granted(r) \in AgentState /\ "PROCEED" \in Status
      BY <1>1 DEF Granted, AgentState, Status
    <2>2. Answered(s, "PROCEED", Granted(r))
      BY <1>1, <1>4, <2>1, AnswerTyped
    <2>3. /\ owner'[r] = owner[r] \cup {handler[s].agent}
          /\ \A q \in Req : q # r => owner'[q] = owner[q]
      BY <1>1, <1>4 DEF TypeOK
    <2> QED
      BY <1>3, <1>4, <2>2, <2>3 DEF Won
  <1>5. CASE /\ (row[r] = NoRow /\ new) \/ UNCHANGED row
             /\ Step(s, "reread")
             /\ UNCHANGED <<owner, agent, tokens, answers, effects>>
    BY <1>3, <1>5 DEF Lost
  <1> QED
    BY <1>2, <1>4, <1>5

LEMMA WonSafe ==
    ASSUME TypeOK, TypeOK', SafetyInv, NEW s \in Server, handler[s].step # "idle", Won(s)
    PROVE  SafetyInv'
  <1> USE DEF SafetyInv
  <1> DEFINE a == handler[s].agent
             r == handler[s].req
  <1>1. a \in Agent /\ r \in Req
    BY HandlerTyped
  <1>2. effects[r] = 0 /\ owner[r] = {} /\ owner'[r] = {a} /\ UNCHANGED effects
    BY <1>1 DEF Won, RowsTell
  <1>3. \A q \in Req : q # r => row'[q] = row[q] /\ owner'[q] = owner[q]
    BY DEF Won
  <1>4. row'[r].status = "PENDING" /\ row'[r].by = {} /\ row[r].status = "none"
    BY DEF Won, NoRow
  <1>5. \/ /\ agent'[a].step = "granted" /\ agent'[a].req = r
           /\ \A b \in Agent : b # a => agent'[b] = agent[b]
           /\ tokens'[a] = tokens[a] \cup {r}
           /\ \A b \in Agent : b # a => tokens'[b] = tokens[b]
        \/ UNCHANGED <<agent, tokens>>
    BY DEF Won, Answered, Granted
  <1>6. \A b \in Agent, q \in Req : b \in owner[q] => q # r /\ b \in owner'[q]
    BY <1>2, <1>3
  <1>7. Grants'
    <2>1. ASSUME NEW b \in Agent, agent[b].step = "granted"
          PROVE  agent[b].req \in Req
      BY <2>1, AgentTyped
    <2> QED
      BY <1>1, <1>2, <1>5, <1>6, <2>1 DEF Grants
  <1>8. Executions'
    BY <1>2, <1>5 DEF Executions, Executing
  <1>9. OneOwner'
    BY <1>2, <1>3 DEF OneOwner
  <1>10. Tokens'
    <2>1. \A b \in Agent : \A q \in tokens[b] : b \in owner'[q]
      BY <1>6 DEF Tokens, TypeOK
    <2> QED
      BY <1>1, <1>2, <1>5, <2>1 DEF Tokens
  <1>11. RowsTell'
    BY <1>2, <1>3, <1>4 DEF RowsTell, NoRow
  <1>12. AtMostOnce'
    BY <1>2 DEF AtMostOnce
  <1>13. ResultIsOwners'
    BY <1>3, <1>4 DEF ResultIsOwners
  <1>14. AnsweredIsStored'
    <2>1. \A q \in Req, status \in Success :
              <<q, status>> \in answers' => <<q, status>> \in answers
      BY DEF Won, Answered, Success
    <2> QED
      BY <1>3, <1>4, <2>1 DEF AnsweredIsStored, Success
  <1>15. Settles'
    <2>1. ASSUME NEW t \in Server, handler'[t].step \in Settling
          PROVE  t # s /\ handler'[t] = handler[t]
      BY <2>1 DEF Won, Answered, Idle, Settling
    <2>2. ASSUME NEW t \in Server, handler[t].step \in Settling
          PROVE  handler[t].agent \in Agent /\ handler[t].req \in Req
      BY <2>2, HandlerTyped DEF Settling
    <2> QED
      BY <1>2, <1>6, <2>1, <2>2 DEF Settles
  <1> QED
    BY <1>7, <1>8, <1>9, <1>10, <1>11, <1>12, <1>13, <1>14, <1>15

\* Only the owner is granted, so nobody else can have executed or be granted
\* the same request.
LEMMA ExecuteSafe ==
    ASSUME TypeOK, TypeOK', SafetyInv, NEW a \in Agent, Execute(a)
    PROVE  SafetyInv'
  <1> USE DEF SafetyInv
  <1> DEFINE r == agent[a].req
  <1>1. r \in Req /\ agent[a].step = "granted" /\ effects[r] = 0 /\ a \in owner[r]
    BY AgentTyped DEF Execute, Grants
  <1>2. /\ effects'[r] = 1
        /\ \A q \in Req : q # r => effects'[q] = effects[q]
    BY <1>1 DEF Execute, TypeOK
  <1>3. /\ agent'[a].step = "executed" /\ agent'[a].req = r
        /\ \A b \in Agent : b # a => agent'[b] = agent[b]
        /\ UNCHANGED <<row, handler, tokens, owner, answers>>
    BY DEF Execute, At, TypeOK
  <1>4. ASSUME NEW b \in Agent, b # a, agent[b].step = "granted"
        PROVE  agent[b].req \in Req /\ agent[b].req # r
    BY <1>1, <1>4, AgentTyped DEF Grants, OneOwner
  <1>5. Grants'
    BY <1>2, <1>3, <1>4 DEF Grants
  <1>6. Executions'
    <2>1. ASSUME NEW b \in Agent, agent[b].step \in Executing
          PROVE  agent[b].req \in Req /\ agent[b].req # r
      <3>1. agent[b].step # "ready"
        BY <2>1 DEF Executing
      <3>2. effects[agent[b].req] = 1
        BY <2>1 DEF Executions
      <3>3. agent[b].req \in Req
        BY <3>1, AgentTyped
      <3>4. agent[b].req # r
        BY <1>1, <3>2
      <3> QED
        BY <3>3, <3>4
    <2> QED
      BY <1>2, <1>3, <2>1 DEF Executions, Executing
  <1>7. OneOwner' /\ Tokens' /\ ResultIsOwners' /\ AnsweredIsStored'
    BY <1>3 DEF OneOwner, Tokens, ResultIsOwners, AnsweredIsStored
  <1>8. RowsTell'
    BY <1>1, <1>2, <1>3 DEF RowsTell
  <1>9. AtMostOnce'
    BY <1>2 DEF AtMostOnce
  <1>10. Settles'
    <2>1. ASSUME NEW s \in Server, handler[s].step \in Settling
          PROVE  handler[s].req \in Req /\ handler[s].req # r
      BY <1>1, <2>1, HandlerTyped DEF Settles, Settling
    <2> QED
      BY <1>2, <1>3, <2>1 DEF Settles
  <1> QED
    BY <1>5, <1>6, <1>7, <1>8, <1>9, <1>10

LEMMA UpdateQuiet ==
    ASSUME TypeOK, SafetyInv, NEW s \in Server, Update(s)
    PROVE  AgentsMoved /\ HandlersMoved /\ AnswersMoved /\ RowsMoved
  <1> DEFINE a == handler[s].agent
             r == handler[s].req
  <1>1. /\ handler[s].step # "idle" /\ r \in Req /\ a \in Agent
        /\ a \in owner[r] /\ effects[r] = 1
    BY HandlerTyped DEF Update, SafetyInv, Settles, Settling
  <1>2. row[r].status \in {"PENDING", "COMMITTED"}
    BY <1>1, RowTyped DEF SafetyInv, RowsTell
  <1>3. ASSUME CommittedRow(s) PROVE RowsMoved /\ row'[r].status = "COMMITTED"
    BY <1>1, <1>2, <1>3 DEF CommittedRow, RowsMoved
  <1>4. CASE CommittedRow(s) /\ Answered(s, "committed", Ready)
    BY <1>1, <1>3, <1>4, AnsweredQuiet DEF Status
  <1>5. CASE (CommittedRow(s) \/ UNCHANGED row) /\ Raise(s)
    BY <1>3, <1>5, RaiseQuiet DEF RowsMoved
  <1> QED
    BY <1>4, <1>5, UpdateTyped

LEMMA SafetyInductive == TypeOK /\ SafetyInv /\ [Next]_vars => SafetyInv'
  <1> SUFFICES ASSUME TypeOK, SafetyInv, [Next]_vars PROVE SafetyInv'
    OBVIOUS
  <1>0. TypeOK'
    BY TypeInductive
  <1>1. ASSUME NEW a \in Agent,
               (\E r \in Req : Claim(a, r)) \/ Settle(a) \/ TimeOut(a) \/ AgentCrash(a)
        PROVE  SafetyInv'
    <2>1. UNCHANGED <<effects, owner>>
      BY <1>1 DEF Claim, Settle, TimeOut, AgentCrash
    <2> QED
      BY <1>0, <1>1, <2>1, AgentQuiet, QuietSafe
  <1>2. ASSUME NEW a \in Agent, Execute(a) PROVE SafetyInv'
    BY <1>0, <1>2, ExecuteSafe
  <1>3. ASSUME NEW s \in Server, NEW a \in Agent, Receive(s, a) PROVE SafetyInv'
    <2>1. UNCHANGED <<effects, owner>>
      BY <1>3 DEF Receive
    <2> QED
      BY <1>0, <1>3, <2>1, ReceiveQuiet, QuietSafe
  <1>4. ASSUME NEW s \in Server, Get(s) \/ Reread(s) \/ SettleGet(s) \/ ServerCrash(s)
        PROVE  SafetyInv'
    <2>1. handler[s].step # "idle" /\ UNCHANGED <<row, effects, owner>> /\ RowsMoved
      <3>1. UNCHANGED <<row, effects, owner>>
        BY <1>4 DEF Get, Reread, SettleGet, ServerCrash
      <3>2. handler[s] # Idle => handler[s].step # "idle"
        BY DEF TypeOK, Handler
      <3>3. handler[s].step # "idle"
        BY <1>4, <3>2 DEF Get, Reread, SettleGet, ServerCrash
      <3> QED
        BY <3>1, <3>3 DEF RowsMoved
    <2>2. \/ Found(s) \/ Raise(s)
          \/ Step(s, "insert") /\ UNCHANGED <<agent, tokens, answers>>
          \/ row[handler[s].req].status = "COMMITTED" /\ Answer(s, "already_committed", Ready)
          \/ /\ handler[s].step = "settle_get"
             /\ Step(s, "update") /\ UNCHANGED <<agent, tokens, answers>>
      BY <1>4 DEF Get, Reread, SettleGet, ServerCrash
    <2>3. CASE row[handler[s].req].status = "COMMITTED" /\ Answer(s, "already_committed", Ready)
      <3>1. Ready \in AgentState /\ "already_committed" \in Status \ {"PROCEED"}
        BY DEF AgentState, Status
      <3>2. AgentsMoved /\ HandlersMoved /\ AnswersMoved
        BY <2>1, <2>3, <3>1, AnswerTyped, AnsweredQuiet
      <3> QED
        BY <1>0, <2>1, <3>2, QuietSafe
    <2>4. CASE Step(s, "insert") /\ UNCHANGED <<agent, tokens, answers>>
      BY <1>0, <2>1, <2>4, StepQuiet, QuietSafe
    <2>5. CASE /\ handler[s].step = "settle_get"
               /\ Step(s, "update") /\ UNCHANGED <<agent, tokens, answers>>
      <3>1. handler[s].step \in Settling
        BY <2>5 DEF Settling
      <3> QED
        BY <1>0, <2>1, <2>5, <3>1, StepQuiet, QuietSafe
    <2>6. CASE Found(s) \/ Raise(s)
      BY <1>0, <2>1, <2>6, FoundQuiet, RaiseQuiet, QuietSafe
    <2> QED
      BY <2>2, <2>3, <2>4, <2>5, <2>6
  <1>5. ASSUME NEW s \in Server, Insert(s) PROVE SafetyInv'
    <2>1. handler[s].step # "idle"
      BY <1>5 DEF Insert
    <2>2. CASE Won(s)
      BY <1>0, <2>1, <2>2, WonSafe
    <2>3. CASE Lost(s)
      <3>1. RowsMoved /\ UNCHANGED <<effects, owner>>
        BY <2>3 DEF Lost, RowsMoved
      <3>2. AgentsMoved /\ HandlersMoved /\ AnswersMoved
        BY <2>1, <2>3, StepQuiet DEF Lost
      <3> QED
        BY <1>0, <3>1, <3>2, QuietSafe
    <2> QED
      BY <1>5, <2>2, <2>3, InsertSteps
  <1>6. ASSUME NEW s \in Server, Update(s) PROVE SafetyInv'
    <2>1. UNCHANGED <<effects, owner>>
      BY <1>6 DEF Update
    <2> QED
      BY <1>0, <1>6, <2>1, UpdateQuiet, QuietSafe
  <1>7. CASE UNCHANGED vars
    <2>1. AgentsMoved /\ HandlersMoved /\ AnswersMoved /\ RowsMoved /\ UNCHANGED <<effects, owner>>
      BY <1>7 DEF vars, AgentsMoved, HandlersMoved, AnswersMoved, RowsMoved
    <2> QED
      BY <1>0, <2>1, QuietSafe
  <1> QED
    BY <1>1, <1>2, <1>3, <1>4, <1>5, <1>6, <1>7 DEF Next, Serve

LEMMA SafetyHolds == Spec => []SafetyInv
  <1>1. Init => SafetyInv
    <2> SUFFICES ASSUME Init PROVE SafetyInv
      OBVIOUS
    <2>1. (\A a \in Agent : agent[a].step = "ready") /\ \A s \in Server : handler[s].step = "idle"
      BY DEF Init, Ready, Idle
    <2>2. Grants /\ Executions /\ Settles
      BY <2>1 DEF Grants, Executions, Settles, Executing, Settling
    <2>3. OneOwner /\ Tokens /\ RowsTell /\ AtMostOnce /\ ResultIsOwners
      BY DEF Init, OneOwner, Tokens, RowsTell, AtMostOnce, ResultIsOwners, NoRow
    <2>4. AnsweredIsStored
      BY DEF Init, AnsweredIsStored
    <2> QED
      BY <2>2, <2>3, <2>4 DEF SafetyInv
  <1> QED
    BY <1>1, HostedTyped, SafetyInductive, PTL DEF Spec

\* However many servers and agents race, lose answers, retry and die, an
\* action is executed at most once.
THEOREM HostedAtMostOnce == Spec => []AtMostOnce
  BY SafetyHolds, PTL DEF SafetyInv

\* The stored result is that of the agent whose claim was won: only it holds
\* the settlement token.
THEOREM HostedResults == Spec => []ResultIsOwners
  BY SafetyHolds, PTL DEF SafetyInv

\* What was answered as committed is committed, and stays so.
THEOREM HostedAnswers == Spec => []AnsweredIsStored
  BY SafetyHolds, PTL DEF SafetyInv

-----------------------------------------------------------------------------
(* Refinement.                                                             *)

\* The status and the verdict of a request as a claim.
StatusOf(r)  == IF row[r] = NoRow THEN "CLAIMABLE" ELSE row[r].status
VerdictOf(r) == IF row[r].status = "COMMITTED" THEN "ok" ELSE "none"

\* A row inserted, with or without its answer, is a claim.
LEMMA NewRowClaims ==
    ASSUME NEW r \in Req, row[r] = NoRow, row'[r] = [status |-> "PENDING", by |-> {}],
           \A q \in Req : q # r => row'[q] = row[q], UNCHANGED effects
    PROVE  Claims!ClaimsNext
  <1>1. /\ StatusOf(r) = "CLAIMABLE" /\ StatusOf(r)' = "PENDING"
        /\ VerdictOf(r) = "none" /\ VerdictOf(r)' = "none"
    BY DEF StatusOf, VerdictOf, NoRow
  <1>2. \A q \in Req : q # r => StatusOf(q)' = StatusOf(q) /\ VerdictOf(q)' = VerdictOf(q)
    BY DEF StatusOf, VerdictOf
  <1>3. Claims!Claim(r)
    BY <1>1, <1>2 DEF Claims!Claim, StatusOf, VerdictOf
  <1> QED
    BY <1>3 DEF Claims!ClaimsNext

\* A row committed by the owner's settle is a claim settled as ok.
LEMMA CommittedRowSettles ==
    ASSUME TypeOK, SafetyInv, NEW s \in Server, handler[s].step = "update",
           CommittedRow(s), row' \in [Req -> Row \cup {NoRow}], UNCHANGED effects
    PROVE  Claims!ClaimsNext \/ UNCHANGED Claims!avars
  <1>1. PICK r \in Req : r = handler[s].req
    BY HandlerTyped
  <1>2. effects[r] = 1
    BY <1>1 DEF SafetyInv, Settles, Settling
  <1>3. CASE row[r].status = "PENDING"
    <2>1. row[r] # NoRow /\ row'[r] # NoRow
          /\ row'[r].status = "COMMITTED"
      BY <1>1, <1>3 DEF CommittedRow, NoRow
    <2>2. StatusOf(r) = "PENDING" /\ StatusOf(r)' = "COMMITTED" /\ VerdictOf(r)' = "ok"
      BY <1>3, <2>1 DEF StatusOf, VerdictOf
    <2>3. \A q \in Req : q # r => StatusOf(q)' = StatusOf(q) /\ VerdictOf(q)' = VerdictOf(q)
      BY <1>1 DEF CommittedRow, StatusOf, VerdictOf
    <2>4. Claims!Settle(r, "ok")
      BY <1>2, <2>2, <2>3 DEF Claims!Settle, StatusOf, VerdictOf
    <2> QED
      BY <2>4 DEF Claims!ClaimsNext
  <1>4. CASE row[r].status # "PENDING"
    <2>1. \A q \in Req : row'[q] = row[q]
      BY <1>1, <1>4 DEF CommittedRow
    <2>2. row' = row
      BY <2>1 DEF TypeOK
    <2> QED
      BY <2>2 DEF Claims!avars
  <1> QED
    BY <1>3, <1>4

\* Every step of the service is a step of the abstract claims or a stutter:
\* the insert claims, the owner's execution is the effect, the update settles.
THEOREM HostedAreClaims == Spec => ImplementsClaims
  <1>1. Init => Claims!ClaimsInit
    BY DEF Init, Claims!ClaimsInit, NoRow
  <1>2. TypeOK /\ SafetyInv /\ [Next]_vars => [Claims!ClaimsNext]_Claims!avars
    <2> SUFFICES ASSUME TypeOK, SafetyInv, [Next]_vars
                 PROVE  Claims!ClaimsNext \/ UNCHANGED Claims!avars
      OBVIOUS
    <2>1. CASE UNCHANGED <<row, effects>>
      BY <2>1 DEF Claims!avars
    <2>2. ASSUME NEW a \in Agent, Execute(a) PROVE Claims!ClaimsNext
      <3>1. PICK r \in Req : r = agent[a].req
        BY <2>2, AgentTyped DEF Execute
      <3>2. effects[r] = 0 /\ owner[r] # {}
        BY <2>2, <3>1 DEF Execute, SafetyInv, Grants
      <3>3. StatusOf(r) = "PENDING"
        BY <3>2, RowTyped DEF SafetyInv, RowsTell, StatusOf
      <3>4. effects' = [effects EXCEPT ![r] = 1] /\ UNCHANGED row
        BY <2>2, <3>1, <3>2 DEF Execute, TypeOK
      <3>5. Claims!Effect(r)
        BY <3>2, <3>3, <3>4 DEF Claims!Effect, StatusOf
      <3> QED
        BY <3>5 DEF Claims!ClaimsNext
    <2>3. ASSUME NEW s \in Server, Insert(s)
          PROVE  Claims!ClaimsNext \/ UNCHANGED Claims!avars
      <3>1. handler[s].req \in Req
        BY <2>3, HandlerTyped DEF Insert
      <3> QED
        BY <2>1, <2>3, <3>1, InsertSteps, NewRowClaims DEF Won, Lost
    <2>4. ASSUME NEW s \in Server, Update(s)
          PROVE  Claims!ClaimsNext \/ UNCHANGED Claims!avars
      <3>1. CommittedRow(s) \/ UNCHANGED row
        BY <2>4, UpdateTyped
      <3>2. /\ handler[s].step = "update" /\ UNCHANGED effects
            /\ row' \in [Req -> Row \cup {NoRow}]
        BY <2>4, UpdateTyped DEF Update
      <3> QED
        BY <2>1, <3>1, <3>2, CommittedRowSettles
    <2> QED
      BY <2>1, <2>2, <2>3, <2>4
      DEF Next, Serve, vars, Claim, Settle, TimeOut, AgentCrash, Receive, Get, Reread,
          SettleGet, ServerCrash
  <1> QED
    BY <1>1, <1>2, HostedTyped, SafetyHolds, PTL
    DEF Spec, ImplementsClaims, Claims!ClaimsSpec
=============================================================================
