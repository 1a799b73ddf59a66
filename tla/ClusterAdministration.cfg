SPECIFICATION Spec
CONSTANTS
    Request = {r1, r2}
    Peer = {p1, p2, p3, p4}
    Self = p1
    ClusterId = {a, b}
    Offered = {"initialize", "unseal", "seal", "remove", "restore"}
    Mortal = {}
    MaxOutside = 1
SYMMETRY Symmetry
CHECK_DEADLOCK FALSE
INVARIANTS
    TypeOK
    EvidencePrecedesEffect
PROPERTIES
    UnracedActsOnReviewed
    ImplementsAuditedMutation
