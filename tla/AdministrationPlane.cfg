CONSTANTS
    Request = {"r1", "r2"}
    Mortal = {"r2"}
    MaxOutside = 1
    Mount = {"kv.a", "kv_a", "sys"}
    Reserved = {"sys"}
    KVMount = "kv.a"
    Param <- MCParam
    EngineType = {"kv2", "transit"}
    AuthMount = {"jwt", "login"}
    AuthType = {"jwt", "approle"}
    Login = "jwt"
    LoginType = "jwt"
    Caller <- MCCaller
    Workloads <- MCWorkloads
SPECIFICATION FairSpec
INVARIANTS TypeOK EvidencePrecedesEffect
PROPERTIES UnracedActsOnReviewed ImplementsAuditedMutation RequestsConclude
CHECK_DEADLOCK FALSE
