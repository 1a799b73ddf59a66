SPECIFICATION Spec
CONSTANTS
    Cred = {c1, c2}
    Request = {r1, r2}
    Legacy = {}
    Ssh = {c1, c2}
    FormStatus = {}
    Mortal = {r1, r2}
    Expiring = {}
    Offered = {"create", "edit", "update", "delete"}
    MaxVersion = 2
SYMMETRY Symmetry
CHECK_DEADLOCK FALSE
INVARIANTS
    NoSilentResidue
PROPERTIES
    LiveNeverRegresses
