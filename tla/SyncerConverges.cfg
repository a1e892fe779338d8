SPECIFICATION FairSpec
CONSTANTS
    Addresses = {a1, a2}
    Zones = {z1}
    Instances = {}
    RestoreClstID = FALSE
    None = None
    CloudErrors = TRUE
    Restarts = TRUE
    IPsReturn = TRUE
    OperatorEdits = TRUE
    MaxChanges = 2
PROPERTIES Converges
