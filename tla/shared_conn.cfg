CONSTANTS
    None = None
    Thread = {t1, t2}
    Req = {r1, r2}
    MaxEffects = 2
SPECIFICATION Spec
INVARIANTS OnlyRollbackDuplicates
PROPERTIES OutcomeIsFinal
SYMMETRY Symmetry
