SPECIFICATION FairSpec
CONSTANTS
    Clients = {c1}
    Times = {"inside", "outside"}
    Faults = {"crash", "torn", "bus"}
    MaxKeys = 4
INVARIANTS
    CertKept
    ProvisionedHasCert
    FullMeansTimeSet
PROPERTIES
    OnlyForward
    TakesEffect
