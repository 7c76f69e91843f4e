SPECIFICATION StatusFairSpec
CONSTANTS
    Devices = {"wlan0", "eth0", "usb0", "wlan1"}
    Wifi = {"wlan0", "wlan1"}
    Unmanaged = {"usb0"}
    AccessPoints <- Heard
    Beacon <- Announced
    Stored <- StoredProfiles
    Connected <- Online
    MaxPaths = 4
    MaxActivations = 2
    MaxEvents = 1
    Clients <- Both
    Readers = {"r"}
    Requests <- AskedOf
    Enquiries <- AllEnquiries
    Reserved = {"factory"}
    MaxRequests = 2
    MaxPolls = 1
INVARIANTS
    RefusedUnchanged
    StatusOneMoment
    SecuredNotOpen
PROPERTIES
    ProfilesKept
    RequestsEnd
CHECK_DEADLOCK FALSE
