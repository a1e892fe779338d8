SPECIFICATION Spec
CONSTANTS
    GiB = 1
    Volumes = {v1, v2}
    Shared = {v1, v2}
    Annotated = {}
    FromSnapshot = {}
    ReqCap <- Size200
    ClassCapGiB = 500
    InstanceType = 0
    Slots = 1
    Suffixes = {s1, s2}
    PrivateLan = FALSE
    Cidr <- TwoAddresses
    Calls = {c1, c2}
    None = None
    CloudErrors = FALSE
    Timeouts = FALSE
    Restarts = FALSE
SYMMETRY Symmetric
INVARIANTS BoundInstanceKept
CHECK_DEADLOCK FALSE
