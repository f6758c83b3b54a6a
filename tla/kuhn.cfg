CONSTANTS
    NClaims = 4
    NOrders = 3
SPECIFICATION KuhnSpec
INVARIANTS SolverIsExact
CHECK_DEADLOCK FALSE
