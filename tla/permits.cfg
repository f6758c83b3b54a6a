CONSTANTS
    Worker = {w1, w2}
    Permit = {p1, p2}
    Request = {q1, q2}
    MaxTime = 2
    MaxTtl = 1
    MaxTokens = 2
SPECIFICATION Spec
INVARIANTS OneUse ExactBinding JournalMatches
PROPERTIES ImplementsClaims
SYMMETRY Symmetry
CHECK_DEADLOCK FALSE
