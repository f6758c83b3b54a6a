----------------------------- MODULE HostedClaims -----------------------------
(***************************************************************************)
(* The hosted claim service: server processes answer POST /claim and POST  *)
(* /settle over one PgExecutionStore, for agents that execute only after   *)
(* PROCEED and settle afterwards with the settlement token it carries.     *)
(*                                                                         *)
(*   claim:   get --none--> insert --won--> PROCEED                        *)
(*             |found        |not won                                      *)
(*             SKIP/PENDING  get --> SKIP/PENDING                          *)
(*   settle:  get --PENDING--> update --> committed                        *)
(*                                                                         *)
(* A handler makes no await between its store calls, so a server has one   *)
(* handler under way; other servers interleave at each store call.  Store  *)
(* calls fail before or after their commit, requests and answers are lost, *)
(* agents time out and retry, servers and agents die.  A request id is the *)
(* stored one, its tenant prefix included.                                 *)
(***************************************************************************)
EXTENDS Naturals

CONSTANTS
    Server,      \* processes of the service
    Agent,       \* the agents that call it
    Req          \* stored request ids

VARIABLES
    row,         \* Req -> its row of execution_requests
    handler,     \* Server -> the call it is serving
    agent,       \* Agent -> where it stands
    tokens,      \* Agent -> the requests whose settlement token it holds
    effects,     \* Req -> how often the action was executed
    owner,       \* Req -> the agents whose claim was won
    answers      \* the statuses answered, as pairs of request and status

vars == <<row, handler, agent, tokens, effects, owner, answers>>

NoRow   == [status |-> "none", by |-> {}]
Row     == [status : {"PENDING", "COMMITTED"}, by : SUBSET Agent]
Idle    == [step |-> "idle"]
Handler == [step : {"get", "insert", "reread", "settle_get", "update"},
            agent : Agent, req : Req]
Ready   == [step |-> "ready"]
Status  == {"PROCEED", "SKIP", "PENDING", "committed", "already_committed"}

TypeOK ==
    /\ row     \in [Req -> Row \cup {NoRow}]
    /\ handler \in [Server -> Handler \cup {Idle}]
    /\ agent   \in [Agent -> {Ready} \cup
                      [step : {"claiming", "granted", "executed", "settling"}, req : Req]]
    /\ tokens  \in [Agent -> SUBSET Req]
    /\ effects \in [Req -> Nat]
    /\ owner   \in [Req -> SUBSET Agent]
    /\ answers \subseteq Req \X Status

Init ==
    /\ row     = [r \in Req |-> NoRow]
    /\ handler = [s \in Server |-> Idle]
    /\ agent   = [a \in Agent |-> Ready]
    /\ tokens  = [a \in Agent |-> {}]
    /\ effects = [r \in Req |-> 0]
    /\ owner   = [r \in Req |-> {}]
    /\ answers = {}

-----------------------------------------------------------------------------
(* Agents: their side of the protocol.                                     *)

At(a, step, r) == agent' = [agent EXCEPT ![a] = [step |-> step, req |-> r]]

Claim(a, r) ==
    /\ agent[a] = Ready
    /\ At(a, "claiming", r)
    /\ UNCHANGED <<row, handler, tokens, effects, owner, answers>>

Execute(a) ==
    /\ agent[a].step = "granted"
    /\ effects' = [effects EXCEPT ![agent[a].req] = @ + 1]
    /\ At(a, "executed", agent[a].req)
    /\ UNCHANGED <<row, handler, tokens, owner, answers>>

Settle(a) ==
    /\ agent[a].step = "executed"
    /\ At(a, "settling", agent[a].req)
    /\ UNCHANGED <<row, handler, tokens, effects, owner, answers>>

\* An agent stops waiting: a claim is given up, a settle is sent again.  Its
\* request may still be served.
TimeOut(a) ==
    /\ \/ /\ agent[a].step = "claiming"
          /\ agent' = [agent EXCEPT ![a] = Ready]
       \/ /\ agent[a].step = "settling"
          /\ At(a, "executed", agent[a].req)
    /\ UNCHANGED <<row, handler, tokens, effects, owner, answers>>

\* An agent dies and starts over; it may have stored its tokens or not.
AgentCrash(a) ==
    /\ agent[a] # Ready
    /\ agent'  = [agent EXCEPT ![a] = Ready]
    /\ tokens' \in {tokens, [tokens EXCEPT ![a] = {}]}
    /\ UNCHANGED <<row, handler, effects, owner, answers>>

-----------------------------------------------------------------------------
(* Servers.                                                                *)

Step(s, step) == handler' = [handler EXCEPT ![s] = [@ EXCEPT !.step = step]]

Waits(a, step, r) == agent[a] = [step |-> step, req |-> r]

\* The handler answers.  The answer reaches the agent if it still waits and
\* nothing is lost; what the agent does with it is next.
Answer(s, status, next) ==
    LET a == handler[s].agent
        r == handler[s].req
        step == IF status \in {"PROCEED", "SKIP", "PENDING"} THEN "claiming" ELSE "settling"
    IN
    /\ handler' = [handler EXCEPT ![s] = Idle]
    /\ answers' = answers \cup {<<r, status>>}
    /\ \/ /\ Waits(a, step, r)
          /\ agent'  = [agent EXCEPT ![a] = next]
          /\ tokens' = [tokens EXCEPT ![a] = IF status = "PROCEED" THEN @ \cup {r} ELSE @]
       \/ UNCHANGED <<agent, tokens>>

\* The handler raises: an error status, on which the agent may retry.
Raise(s) ==
    /\ handler' = [handler EXCEPT ![s] = Idle]
    /\ UNCHANGED <<agent, tokens, answers>>

\* A request arrives, perhaps a retry of one that is still being served.
Receive(s, a) ==
    LET r == agent[a].req IN
    /\ handler[s] = Idle
    /\ \/ agent[a].step = "claiming"
          /\ handler' = [handler EXCEPT ![s] = [step |-> "get", agent |-> a, req |-> r]]
       \/ agent[a].step = "settling" /\ r \in tokens[a]
          /\ handler' = [handler EXCEPT ![s] = [step |-> "settle_get", agent |-> a, req |-> r]]
    /\ UNCHANGED <<row, agent, tokens, effects, owner, answers>>

\* What a row found means for a claim.
Found(s) ==
    IF row[handler[s].req].status = "COMMITTED"
    THEN Answer(s, "SKIP", Ready) ELSE Answer(s, "PENDING", Ready)

Get(s) ==
    LET r == handler[s].req IN
    /\ handler[s].step = "get"
    /\ \/ row[r] # NoRow /\ Found(s)
       \/ row[r] = NoRow /\ Step(s, "insert") /\ UNCHANGED <<agent, tokens, answers>>
       \/ Raise(s)
    /\ UNCHANGED <<row, effects, owner>>

Granted(r) == [step |-> "granted", req |-> r]

\* Mutant: ON CONFLICT DO UPDATE.
InsertUpsert(s) ==
    LET r == handler[s].req IN
    /\ handler[s].step = "insert"
    /\ row'   = [row EXCEPT ![r] = [status |-> "PENDING", by |-> {}]]
    /\ owner' = [owner EXCEPT ![r] = @ \cup {handler[s].agent}]
    /\ Answer(s, "PROCEED", Granted(r))
    /\ UNCHANGED effects

\* Mutant: a claim that raised is answered PROCEED.
InsertFailOpen(s) ==
    LET r == handler[s].req IN
    /\ handler[s].step = "insert"
    /\ \/ /\ row[r] = NoRow
          /\ row' = [row EXCEPT ![r] = [status |-> "PENDING", by |-> {}]]
          /\ owner' = [owner EXCEPT ![r] = @ \cup {handler[s].agent}]
       \/ UNCHANGED <<row, owner>>
    /\ Answer(s, "PROCEED", Granted(r))
    /\ UNCHANGED effects

\* PgExecutionStore.claim: the primary key lets one insert in.  Any exception
\* is a lost claim, whether the row was there, the database was not, or the
\* insert was committed and its acknowledgement lost.
Insert(s) ==
    LET r   == handler[s].req
        new == row' = [row EXCEPT ![r] = [status |-> "PENDING", by |-> {}]]
    IN
    /\ handler[s].step = "insert"
    /\ \/ /\ row[r] = NoRow /\ new
          /\ owner' = [owner EXCEPT ![r] = @ \cup {handler[s].agent}]
          /\ Answer(s, "PROCEED", Granted(r))
       \/ /\ (row[r] = NoRow /\ new) \/ UNCHANGED row
          /\ Step(s, "reread")
          /\ UNCHANGED <<owner, agent, tokens, answers>>
    /\ UNCHANGED effects

\* No row at all is answered PENDING too.
Reread(s) ==
    /\ handler[s].step = "reread"
    /\ Found(s) \/ Raise(s)
    /\ UNCHANGED <<row, effects, owner>>

SettleGet(s) ==
    LET r == handler[s].req IN
    /\ handler[s].step = "settle_get"
    /\ \/ row[r].status = "COMMITTED" /\ Answer(s, "already_committed", Ready)
       \/ row[r].status = "PENDING" /\ Step(s, "update") /\ UNCHANGED <<agent, tokens, answers>>
       \/ Raise(s)                              \* also when there is no row
    /\ UNCHANGED <<row, effects, owner>>

\* Mutant: the answer is sent although the store raised.
UpdateOptimistic(s) ==
    /\ handler[s].step = "update"
    /\ Answer(s, "committed", Ready)
    /\ UNCHANGED <<row, effects, owner>>

\* UPDATE ... WHERE status = 'PENDING'; the answer does not say whether a row
\* matched.
Update(s) ==
    LET r == handler[s].req
        commit == row' = [row EXCEPT ![r] =
                      IF @.status = "PENDING"
                      THEN [status |-> "COMMITTED", by |-> {handler[s].agent}] ELSE @]
    IN
    /\ handler[s].step = "update"
    /\ \/ commit /\ Answer(s, "committed", Ready)
       \/ (commit \/ UNCHANGED row) /\ Raise(s)
    /\ UNCHANGED <<effects, owner>>

ServerCrash(s) ==
    /\ handler[s] # Idle
    /\ Raise(s)
    /\ UNCHANGED <<row, effects, owner>>

Serve(s) ==
    \/ Get(s) \/ Insert(s) \/ Reread(s) \/ SettleGet(s) \/ Update(s) \/ ServerCrash(s)

Next ==
    \/ \E a \in Agent :
          \/ \E r \in Req : Claim(a, r)
          \/ Execute(a) \/ Settle(a) \/ TimeOut(a) \/ AgentCrash(a)
    \/ \E s \in Server :
          \/ \E a \in Agent : Receive(s, a)
          \/ Serve(s)

Spec == Init /\ [][Next]_vars

-----------------------------------------------------------------------------
(* Properties.                                                             *)

\* PROCEED is earned once: whatever is lost, retried or restarted, an action
\* is executed at most once ("claim-before-execute").
AtMostOnce == \A r \in Req : effects[r] <= 1

\* The stored result is that of the agent whose claim was won.
ResultIsOwners ==
    \A r \in Req : row[r].by \subseteq owner[r]

\* A settle answered with success, and a claim answered SKIP, have a committed
\* row behind them.
AnsweredIsStored ==
    \A r \in Req :
        (\E a \in {"committed", "already_committed", "SKIP"} : <<r, a>> \in answers)
            => row[r].status = "COMMITTED"

\* The service is a set of claims: a claim is won when its row is inserted
\* and settled when it is committed.
Claims == INSTANCE ExecClaims WITH
    status  <- [r \in Req |-> IF row[r] = NoRow THEN "CLAIMABLE" ELSE row[r].status],
    verdict <- [r \in Req |-> IF row[r].status = "COMMITTED" THEN "ok" ELSE "none"]

ImplementsClaims == Claims!ClaimsSpec
=============================================================================
