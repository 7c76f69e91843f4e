SPECIFICATION Spec
CONSTANTS
    Clients = {c1, c2}
    Times = {"inside", "outside"}
    Faults = {}
    MaxKeys = 2
INVARIANTS
    InstalledIsVerified
