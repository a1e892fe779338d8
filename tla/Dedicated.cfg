SPECIFICATION Spec
CONSTANTS
    GiB = 1
    Volumes = {v1, v2}
    Shared = {}
    Annotated = {v1}
    FromSnapshot = {v2}
    ReqCap <- Size200
    ClassCapGiB = 500
    InstanceType = 0
    Slots = 1
    Suffixes = {s1}
    PrivateLan = TRUE
    Cidr <- TwoAddresses
    Calls = {c1, c2}
    None = None
    CloudErrors = TRUE
    Timeouts = TRUE
    Restarts = TRUE
INVARIANTS PendingIPsExclusive NoDuplicateCreate
CHECK_DEADLOCK FALSE
