CONSTANTS
    Worker = {"w1", "w2", "w3"}
    Mortal = {}
    Workloads <- MCWorkloads
    Prefix = {"default", "a"}
    DefaultPrefix = "default"
    Cred = {"c1", "c2", "c3"}
    Target = {"s0", "s1", "s2"}
    Field = {"role", "secret"}
SPECIFICATION Spec
INVARIANT DefaultWithoutRow
CHECK_DEADLOCK FALSE
