SPECIFICATION Spec
CONSTANTS
    Request = {r1}
    Peer = {p1, p2, p3, p4}
    Self = p1
    ClusterId = {a}
    Offered = {"initialize", "unseal"}
    Mortal = {}
    MaxOutside = 0
CHECK_DEADLOCK FALSE
INVARIANTS
    FailedMeansNotDone
