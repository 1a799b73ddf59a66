SPECIFICATION Spec
CONSTANTS
    Cred = {c1}
    Request = {r1}
    Legacy = {c1}
    Ssh = {}
    FormStatus = {}
    Mortal = {}
    Expiring = {}
    Offered = {"stage"}
    MaxVersion = 2
CHECK_DEADLOCK FALSE
INVARIANTS
    StagingKeepsConsumersServed
