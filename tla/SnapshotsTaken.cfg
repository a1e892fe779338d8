SPECIFICATION Spec
CONSTANTS
    r1 = r1
    r2 = r2
    v1 = v1
    v2 = v2
    t1 = t1
    t2 = t2
    Calls = {c1, c2}
    Requests = {r1, r2}
    Volumes = {v1, v2}
    Targets = {}
    Ids = {s1, s2}
    None = None
    Source <- OwnVolumes
    Listed = {}
    RestoreFrom <- NoTargets
    ClaimNamespace = "default"
    NewRepository = FALSE
    Faults = {"call", "slow", "timeout", "restart"}
    MaxFaults = 1
SYMMETRY SymmetricOwn
CHECK_DEADLOCK FALSE
INVARIANTS TypeOK LiveHandlesInRepo DeletedIsGone NothingLeftBehind
