SPECIFICATION FairSpec
CONSTANTS
    Request = {r1, r2}
    Dispatch = {d1}
    Key = {k1, k2}
    Scope = {s1, s2}
    Mortal = {r1, r2}
    MaxVersion = 2
    NoKey = NoKey
    NoScope = NoScope
    NoDispatch = NoDispatch
INVARIANTS
    TypeOK
    RevocationStopsDelivery
    ReadsLeaveEvidence
PROPERTIES
    ImplementsOneUse
    AnswersAreApproved
    ImplementsFairOneUse
