------------------------------- MODULE MCSystem -------------------------------
(* What the program manages on its system.  The parts share no state, so one moves at a time. *)
EXTENDS Firewall, LazyRoutes, NtpSources, ServiceUnits, SystemFiles, SystemPower, SystemSettings

CONSTANT Parts     \* those that are looked at
VARIABLE part

ListsOfPorts == {<<>>, <<"a">>, <<"b", "a">>}
ListsOfSources == {<<>>, <<"a">>, <<"b">>, <<"b", "a">>}
NewProfile(pw) == Entry("a", Plain("new"), pw)
NewCert(pw) == Entry("c", Plain("new"), pw)
ArchivesSent == {NotZip, Packed({NewProfile("p"), NewCert("p")}), Packed({NewProfile("q")}),
                 Packed({Entry("a", Plain("link"), ""), Entry("shipped", Plain("new"), "")})}

(* Paths of the two groups that suspend, of one that does not, and those of plugins. *)
PathsAsked == {<<"system", "power">>, <<"system", "version">>, <<"system", "certificateProvisioning">>,
               <<"datetime", "">>, <<"network", "status">>, <<"bluetooth", "">>}

system == <<firewall, ntp, units, files, power, settingVars, routing, part>>

(* The parts that stay are in one state. *)
Init ==
    /\ part \in Parts
    /\ FirewallInit /\ NtpInit /\ UnitsInit /\ FilesInit /\ PowerInit /\ SettingsInit /\ RoutesInit
    /\ part # "ntp" => sources = <<>>
    /\ part # "units" => \A u \in Units : unitState[u] = "inactive"
    /\ part # "power" => modemUpdates /\ fipsMode = "fips"
    /\ part # "dbus" => supplicant = "info" /\ driver = "off"
    /\ part # "device" => scan = {}

OthersStay(others) == UNCHANGED <<others, part>>
FirewallPart == part = "firewall" /\ FirewallNext /\ OthersStay(<<ntp, units, files, power, settingVars, routing>>)
NtpPart == part = "ntp" /\ NtpNext /\ OthersStay(<<firewall, units, files, power, settingVars, routing>>)
UnitsPart == part = "units" /\ UnitsNext /\ OthersStay(<<firewall, ntp, files, power, settingVars, routing>>)
(* Bound: requests overlap, but the last one is alone, which is what the properties are about. *)
FilesPart == part = "files" /\ FilesNext /\ (fileRequests' = MaxFileRequests => Len(fileJobs') <= 1)
             /\ OthersStay(<<firewall, ntp, units, power, settingVars, routing>>)
PowerPart == part = "power" /\ PowerNext /\ OthersStay(<<firewall, ntp, units, files, settingVars, routing>>)
StorePart == part = "store" /\ StoreNext /\ OthersStay(<<firewall, ntp, units, files, power, routing>>)
DbusPart == part = "dbus" /\ DbusNext /\ OthersStay(<<firewall, ntp, units, files, power, routing>>)
DevicePart == part = "device" /\ DeviceNext /\ OthersStay(<<firewall, ntp, units, files, power, routing>>)
RoutesPart == part = "routes" /\ RoutesNext /\ OthersStay(<<firewall, ntp, units, files, power, settingVars>>)

Next == FirewallPart \/ NtpPart \/ UnitsPart \/ FilesPart \/ PowerPart \/ StorePart \/ DbusPart \/ DevicePart
        \/ RoutesPart
Spec == Init /\ [][Next]_system
===============================================================================
