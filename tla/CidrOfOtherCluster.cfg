SPECIFICATION Spec
CONSTANTS
    std = std
    shrd = shrd
    own = own
    n1 = n1
    n2 = n2
    z1 = z1
    z2 = z2
    userBlock = userBlock
    Nodes = {a, b}
    IPs = {i1, i2}
    Reporting = {a}
    Templates = {std, shrd}
    Custom = {own}
    KindOf <- Kinds
    UserParams <- Given
    OwnNetwork = n1
    OwnZone = z1
    FirstNetwork = n2
    CommonPrivate = common
    Lans <- SomeLans
    HatobaModes = {TRUE}
    CidrBlkRcmd = TRUE
    PrivateIPReg = TRUE
    CfgSnapRepo = FALSE
    Buckets = {b1, b2}
    Incomplete = Incomplete
    None = None
    Faults = {}
    MaxFaults = 0
    MaxChanges = 1
INVARIANTS CidrOfOwnNetwork
