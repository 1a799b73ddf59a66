SPECIFICATION FairSpec
CONSTANTS
    Cred = {c1}
    Request = {r1, r2}
    Legacy = {}
    Ssh = {c1}
    FormStatus = {"retired"}
    Mortal = {r1, r2}
    Expiring = {c1}
    Offered = {"create", "rotate", "edit", "delete"}
    MaxVersion = 2
CHECK_DEADLOCK FALSE
PROPERTIES
    RequestsFinish
    CheckAndSetHeals
