CONSTANTS
    q1 = q1
    q2 = q2
    Worker = {w1}
    Permit = {p1}
    Request = {q1, q2}
    Reconciler = {o1}
    Params = {"a", "b"}
    ParamsOf <- MCParamsOf
    MaxTime = 0
    MaxTtl = 1
    MaxTokens = 2
SPECIFICATION StripeSpec
INVARIANTS VerdictIsTrue OnlyReplayUnauthorized DecisionAgrees
SYMMETRY Symmetry
CHECK_DEADLOCK FALSE
