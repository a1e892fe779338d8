SPECIFICATION Spec
CONSTANTS
    r1 = r1
    r2 = r2
    v1 = v1
    v2 = v2
    t1 = t1
    t2 = t2
    Calls = {c1, c2}
    Requests = {r1}
    Volumes = {v1}
    Targets = {t1}
    Ids = {s1}
    None = None
    Source <- OneRequest
    Listed = {r1}
    RestoreFrom <- OneTarget
    ClaimNamespace = "apps"
    NewRepository = TRUE
    Faults = {"job", "slow"}
    MaxFaults = 1
SYMMETRY Symmetric
CHECK_DEADLOCK FALSE
INVARIANTS RestoredIsComplete NothingLeftBehind
