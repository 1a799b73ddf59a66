SPECIFICATION Spec
CONSTANTS
    Cred = {c1}
    Request = {r1, r2}
    Legacy = {}
    Ssh = {c1}
    FormStatus = {}
    Mortal = {r1, r2}
    Expiring = {}
    Offered = {"create", "rotate", "stage", "promote", "discard"}
    MaxVersion = 3
SYMMETRY Symmetry
CHECK_DEADLOCK FALSE
INVARIANTS
    TypeOK
    ServedVersionsSurvive
    StagedCandidateSurvives
    KeyIdentityMatchesPointer
