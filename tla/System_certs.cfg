SPECIFICATION Spec
CONSTANTS
    Parts = {"files"}
    Ports = {"a", "b"}
    PortLists <- ListsOfPorts
    MaxFwJobs = 2
    MaxFwRequests = 3
    MaxFwFaults = 1
    SourceLists <- ListsOfSources
    MaxNtpJobs = 2
    MaxNtpRequests = 2
    MaxNtpFaults = 1
    Units = {"stunnel", "journal"}
    Flagged = {"journal"}
    MaxUnitJobs = 2
    MaxUnitRequests = 3
    MaxUnitFaults = 2
    Profiles = {"a", "shipped"}
    ReservedProfiles = {"shipped"}
    Certs = {"c"}
    Installed = {"shipped", "settings"}
    Uploads <- ArchivesSent
    Passwords = {"", "p", "p$"}
    NeedQuotes = {"p$"}
    MaxFileJobs = 2
    MaxFileRequests = 2
    MaxFileFaults = 0
    FipsModes = {"fips", "unset"}
    MaxPowerJobs = 2
    MaxPowerRequests = 3
    SuppLevels = {"info", "debug"}
    DriverLevels = {"off", "on"}
    Values = {"x", "y"}
    Zones = {"", "utc"}
    Dates = {"", "now"}
    SisoModes = {0, 1}
    DriverDefault = 0
    MaxLevelJobs = 2
    MaxSettingRequests = 3
    MaxSettingFaults = 2
    RouteRequests = {r1, r2, r3}
    AskedPaths <- PathsAsked
INVARIANTS
    CertsImported
CHECK_DEADLOCK FALSE
