CONSTANTS
    None = None
    k1 = k1
    k2 = k2
    Req = {paid, test, legacy}
    Test = {test}
    Legacy = {legacy}
    Dead = {test}
    Handler = {h1}
    Cron = {c1, c2}
    Deployments <- MCDeployments
    Keys <- MCKeys
    SweepLimit = 1
    TestLimit = 1
    MaxTime = 1
SPECIFICATION FairSpec
INVARIANTS ReceiptIsStored ProofsVerify AnchorIsReal AdmittedWhenRequired
PROPERTIES ConfirmedStays StoredTrailConfirms
CHECK_DEADLOCK FALSE
