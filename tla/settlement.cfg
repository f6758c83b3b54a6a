CONSTANTS
    a1 = a1  a2 = a2  c1 = c1  c2 = c2  yes = yes  no = no
    Actor = {a1, a2}
    CaseId = {c1, c2}
    Source = {1, 2}
    Hearings <- MCHearings
    Outcome = {yes, no}
    SignalDurable = {yes, no}
    SignalMemory = {yes, no, Unusable}
    ReqId = {q1, q2}
    MaxIds = 2
    Unusable = Unusable
    Nothing = Nothing
SPECIFICATION CaseSpec
INVARIANTS StateMatchesSignals OnlyContestedSettlesTwice IdFixesOutcome FinalizesAlike
SYMMETRY Symmetry
