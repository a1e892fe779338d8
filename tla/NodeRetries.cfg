SPECIFICATION FairSpec
CONSTANTS
    Handlers = {h1, h2}
    Paths = {p1, p2}
    Impatient = {p2}
    None = None
    Faults = {"call", "timeout", "restart"}
    MaxFaults = 3
CHECK_DEADLOCK FALSE
INVARIANTS TypeOK PatientCallsSafe
PROPERTIES RetriesSucceed
