SPECIFICATION Spec
CONSTANTS
    GiB = 1
    Volumes = {v1}
    Shared = {v1}
    Annotated = {}
    FromSnapshot = {}
    ReqCap <- Size200
    ClassCapGiB = 500
    InstanceType = 0
    Slots = 1
    Suffixes = {s1, s2}
    PrivateLan = FALSE
    Cidr <- TwoAddresses
    Calls = {c1, c2, c3}
    None = None
    CloudErrors = FALSE
    Timeouts = TRUE
    Restarts = TRUE
SYMMETRY Symmetric
INVARIANTS NamesExclusive ReadyWithoutRootSquash BoundHasSourcePath 
CHECK_DEADLOCK FALSE
