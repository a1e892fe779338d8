SPECIFICATION Spec
CONSTANTS
    Addresses = {a1, a2, a3}
    Zones = {z1, z2}
    Instances = {i1, i2}
    RestoreClstID = TRUE
    None = None
    CloudErrors = TRUE
    Restarts = TRUE
    IPsReturn = FALSE
    OperatorEdits = FALSE
    MaxChanges = 4
SYMMETRY Symmetric
INVARIANTS TypeOK OneEditAtATime DoneMeansGranted
PROPERTIES RestorationCompletes
