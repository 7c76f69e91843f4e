SPECIFICATION Spec
CONSTANTS
    Parts = {"firewall", "ntp", "units", "files", "power", "store", "dbus", "device", "routes"}
    Ports = {"a", "b"}
    PortLists <- ListsOfPorts
    MaxFwJobs = 2
    MaxFwRequests = 3
    MaxFwFaults = 2
    SourceLists <- ListsOfSources
    MaxNtpJobs = 2
    MaxNtpRequests = 2
    MaxNtpFaults = 1
    Units = {"stunnel", "journal"}
    Flagged = {"journal"}
    MaxUnitJobs = 2
    MaxUnitRequests = 3
    MaxUnitFaults = 2
    Profiles = {"a", "shipped"}
    ReservedProfiles = {"shipped"}
    Certs = {"c"}
    Installed = {"shipped", "settings"}
    Uploads <- ArchivesSent
    Passwords = {"", "p", "p$"}
    NeedQuotes = {"p$"}
    MaxFileJobs = 2
    MaxFileRequests = 3
    MaxFileFaults = 1
    FipsModes = {"fips", "unset"}
    MaxPowerJobs = 2
    MaxPowerRequests = 3
    SuppLevels = {"info", "debug"}
    DriverLevels = {"off", "on"}
    Values = {"x", "y"}
    Zones = {"", "utc"}
    Dates = {"", "now"}
    SisoModes = {0, 1}
    DriverDefault = 0
    MaxLevelJobs = 2
    MaxSettingRequests = 3
    MaxSettingFaults = 2
    RouteRequests = {r1, r2, r3}
    AskedPaths <- PathsAsked
INVARIANTS
    ListedIsForwarded
    SourcesAsAsked
    AskedIsSo
    ImportIsWhole
    ExportIsCurrent
    PowerIsAccepted
    SettingsSurvive
    AnsweredIsDone
    EveryRouteFound
CHECK_DEADLOCK FALSE
