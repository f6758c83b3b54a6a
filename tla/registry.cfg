CONSTANTS
    None = None
    p1 = p1
    p2 = p2
    t1 = t1
    t2 = t2
    t3 = t3
    Proc = {p1, p2}
    Thread = {t1, t2, t3}
    Home <- MCHome
    Req = {r1}
    MaxEffects = 2
SPECIFICATION Spec
INVARIANTS OnlyMemoryDuplicates PendingIsExplained OkReplaysAreExplained
SYMMETRY Symmetry
