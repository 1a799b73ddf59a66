SPECIFICATION FairSpec
CONSTANTS
    Request = {r1}
    Peer = {p1, p2, p3, p4}
    Self = p1
    ClusterId = {a, b}
    Offered = {"initialize", "join", "unseal", "reset", "seal", "remove",
               "restore", "force", "download", "health", "capabilities", "state"}
    Mortal = {r1}
    MaxOutside = 2
CHECK_DEADLOCK FALSE
PROPERTIES
    RequestsConclude
