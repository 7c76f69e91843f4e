SPECIFICATION Spec
CONSTANTS
    Clients = {c1, c2}
    Users = {root, u}
    Secrets = {summit, other}
    Permissions = {p}
    Default = root
    DefaultSecret = summit
    Multiple = FALSE
    MaxUsers = 1
    SessionTimeout = 1
    RetryTimes = 2
    RetryWindow = 1
    TamperTimeout = 1
    Faults = {"save"}
    Requests = {"login", "add", "password", "permission", "delete"}
    Given = {other}
    MaxTime = 1
    None = None
SYMMETRY ClientSymmetry
INVARIANTS
    OneSessionEach
    UsersBounded
    AccountsKept
PROPERTIES
    TamperedWait
CHECK_DEADLOCK FALSE
