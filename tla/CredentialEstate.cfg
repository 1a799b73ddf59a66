CONSTANTS
    Worker = {"w1", "w2", "w3"}
    Mortal = {"w2"}
    Workloads <- MCWorkloads
    Prefix = {"default", "a"}
    DefaultPrefix = "default"
    Cred = {"c1", "c2", "c3"}
    Target = {"s0", "s1", "s2"}
    Field = {"role", "secret"}
SPECIFICATION FairSpec
INVARIANTS TypeOK PrefixCoherent MemoIsCommitted ProjectionCurrent RowHasMaterial
    DeletedStaysDeleted ServiceShared ImportedOnce IdentityCurrent RotationsSurvive
PROPERTIES RequestsConclude ImportsComplete
CHECK_DEADLOCK FALSE
