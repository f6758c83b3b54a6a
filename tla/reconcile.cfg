CONSTANTS
    Claim = {c1, c2, c3}
    Order = {o1, o2}
    ClaimData <- MCClaimData
    OrderData <- MCOrderData
    Tolerance = 1
    None = None
SPECIFICATION Spec
INVARIANTS MatchesReference EveryRecordReported
SYMMETRY Symmetry
CHECK_DEADLOCK FALSE
