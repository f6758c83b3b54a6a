CONSTANTS
    None = None
    Proc = {p1, p2, p3}
    Req = {r1}
SPECIFICATION FairSpec
INVARIANTS AtMostOnce ReceiptsAgree
PROPERTIES ImplementsClaims ClaimsResolve
