CONSTANTS
    Server = {s1, s2}
    Agent = {a1, a2, a3}
    Req = {r1}
SPECIFICATION Spec
INVARIANTS AtMostOnce ResultIsOwners AnsweredIsStored
PROPERTIES ImplementsClaims
SYMMETRY Symmetry
