CONSTANTS
    Caller = {c1, c2, c3}
    Exit = {e1, e2}
    spy = spy
    Symbol = {spy}
    SymbolOf <- MCSymbolOf
    MaxOrders = 2
SPECIFICATION Spec
INVARIANTS OnlyGapsResell CommittedIsSkipped PendingIsExplained
SYMMETRY Symmetry
