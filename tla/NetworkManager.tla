---------------------------- MODULE NetworkManager ----------------------------
(***************************************************************************)
(* NetworkManager as services/network_manager_service.py sees it.  A       *)
(* method of that class is one D-Bus call: it suspends, and NetworkManager *)
(* does what is asked and replies, or replies with an error, which is      *)
(* raised.  An object that is gone is such an error.                       *)
(*                                                                         *)
(* A profile is a function from the keys it has to their values.  Paths of *)
(* profiles and of activations are numbered and never used again.          *)
(***************************************************************************)
EXTENDS Integers, FiniteSets, Sequences, TLC

CONSTANTS
    Devices,           \* the network interfaces, "wlan1" is the virtual one
    Wifi,              \* those that are Wi-Fi
    Unmanaged,         \* those NetworkManager leaves alone
    AccessPoints,      \* the access points in reach
    Stored,            \* the profiles there are at the start, a sequence
    Connected,         \* the activations there are at the start, a sequence
    MaxPaths,          \* bound: profiles ever added, those of the start included
    MaxActivations,    \* bound: activations ever made
    MaxEvents          \* bound: steps of NetworkManager that nobody asked for

ASSUME DevicesAssumption == Wifi \subseteq Devices /\ Unmanaged \subseteq Devices /\ "wlan1" \in Devices
ASSUME BoundsAssumption == {MaxPaths, MaxActivations, MaxEvents} \subseteq Nat

VARIABLES
    profiles,          \* path -> profile, Deleted when there is none any more
    activations,       \* active connection -> [path, dev, state]
    present,           \* the devices there are
    radio, asked,      \* WirelessEnabled, and what it was last set to
    seen,              \* the access points of the last scan
    events

nm == <<profiles, activations, present, radio, asked, seen, events>>

(* The settings of a profile that the service tells apart, by section. *)
SectionKeys ==
    [connection |-> {"id", "uuid", "type", "iface"},
     wireless |-> {"ssid"},
     security |-> {"keymgmt"}]
Sections == DOMAIN SectionKeys
Keys == UNION {SectionKeys[s] : s \in Sections}

IsDictionary(s) == DOMAIN s \subseteq Keys /\ s \in [DOMAIN s -> STRING]
Deleted == [k \in {} |-> ""]
Named(s) == {t \in Sections : DOMAIN s \cap SectionKeys[t] # {}}
Only(s, keys) == [k \in DOMAIN s \cap keys |-> s[k]]
Over(s, under) == [k \in DOMAIN s \cup DOMAIN under |-> IF k \in DOMAIN s THEN s[k] ELSE under[k]]

(* prepare_new_connection_data, then dict.update: a section that is given replaces *)
(* the section there was, the other sections stay.                                 *)
Merged(old, new) ==
    LET kept == DOMAIN old \ UNION {SectionKeys[t] : t \in Named(new)}
    IN  [k \in kept \cup DOMAIN new |-> IF k \in DOMAIN new THEN new[k] ELSE old[k]]

Paths == 1..Len(profiles)
Exists(p) == profiles[p] # Deleted
PathsOf(uuid) == {p \in Paths : Exists(p) /\ profiles[p]["uuid"] = uuid}
Complete(s) == {"id", "uuid", "type"} \subseteq DOMAIN s

(* What NetworkManager starts with: profiles with a UUID of their own each, and activations of them. *)
ASSUME StoredAssumption ==
    /\ Len(Stored) \in Nat /\ Stored = [p \in 1..Len(Stored) |-> Stored[p]]
    /\ \A p \in DOMAIN Stored : IsDictionary(Stored[p]) /\ Complete(Stored[p])
    /\ \A p, q \in DOMAIN Stored : Stored[p]["uuid"] = Stored[q]["uuid"] => p = q
States == {"activating", "activated", "deactivating", "gone"}
ASSUME ConnectedAssumption == Connected \in Seq([path : DOMAIN Stored, dev : Devices, state : States])

ActivePaths == 1..Len(activations)
Alive(a) == activations[a].state # "gone"
Of(p) == {a \in ActivePaths : Alive(a) /\ activations[a].path = p}
On(d) == {a \in ActivePaths : Alive(a) /\ activations[a].dev = d}

(* The state of a device follows from the connection that is active on it. *)
DeviceState(d) ==
    IF d \in Unmanaged THEN "unmanaged"
    ELSE IF On(d) = {} THEN "disconnected"
    ELSE activations[CHOOSE a \in On(d) : TRUE].state

End(ended, log) ==
    [a \in DOMAIN log |-> IF a \in ended THEN [log[a] EXCEPT !.state = "gone"] ELSE log[a]]

NMInit ==
    /\ profiles = Stored /\ activations = Connected
    /\ present = Devices \ {"wlan1"}
    /\ radio = TRUE /\ asked = TRUE
    /\ seen = AccessPoints
    /\ events = 0

-----------------------------------------------------------------------------
(* The calls that change something: when they are accepted, and what they do. *)

(* AddConnection makes a UUID when none is given. *)
Added(s) == Over(s, [uuid |-> "made"])
MayAdd(s) == Complete(Added(s)) /\ PathsOf(Added(s)["uuid"]) = {} /\ Len(profiles) < MaxPaths
AddConnection(s) ==
    /\ profiles' = Append(profiles, Added(s))
    /\ UNCHANGED <<activations, present, radio, asked, seen, events>>

MayUpdate(p, s) == Exists(p) /\ Complete(s) /\ s["uuid"] = profiles[p]["uuid"]
UpdateConnection(p, s) ==
    /\ profiles' = [profiles EXCEPT ![p] = s]
    /\ UNCHANGED <<activations, present, radio, asked, seen, events>>

(* A profile that is deleted is also deactivated. *)
DeleteConnection(p) ==
    /\ profiles' = [profiles EXCEPT ![p] = Deleted]
    /\ activations' = End(Of(p), activations)
    /\ UNCHANGED <<present, radio, asked, seen, events>>

(* The new activation takes the place of the one on the device. *)
MayActivate(p, d) == Exists(p) /\ d \in present \ Unmanaged /\ Len(activations) < MaxActivations
ActivateConnection(p, d) ==
    /\ activations' = Append(End(On(d) \cup Of(p), activations), [path |-> p, dev |-> d, state |-> "activating"])
    /\ UNCHANGED <<profiles, present, radio, asked, seen, events>>

DeactivateConnection(a) ==
    /\ activations' = [activations EXCEPT ![a].state = "deactivating"]
    /\ UNCHANGED <<profiles, present, radio, asked, seen, events>>

-----------------------------------------------------------------------------
(* What NetworkManager and the kernel do by themselves. *)
Activated ==
    /\ \E a \in ActivePaths :
          /\ activations[a].state = "activating"
          /\ activations' = [activations EXCEPT ![a].state = "activated"]
    /\ UNCHANGED <<profiles, present, radio, asked, seen, events>>

Deactivated ==
    /\ \E a \in ActivePaths :
          /\ activations[a].state = "deactivating"
          /\ activations' = End({a}, activations)
    /\ UNCHANGED <<profiles, present, radio, asked, seen, events>>

(* An activation fails, or a connection is lost. *)
Dropped ==
    /\ events < MaxEvents /\ events' = events + 1
    /\ \E a \in ActivePaths : Alive(a) /\ activations' = End({a}, activations)
    /\ UNCHANGED <<profiles, present, radio, asked, seen>>

RadioFollows ==
    /\ radio # asked /\ radio' = asked
    /\ activations' = IF asked THEN activations ELSE End(UNION {On(d) : d \in Wifi}, activations)
    /\ UNCHANGED <<profiles, present, asked, seen, events>>

(* A scan finds an access point, or one is too old to be kept. *)
Scanned ==
    /\ events < MaxEvents /\ events' = events + 1
    /\ \E ap \in AccessPoints : seen' = IF ap \in seen THEN seen \ {ap} ELSE seen \cup {ap}
    /\ UNCHANGED <<profiles, activations, present, radio, asked>>

NMNext == Activated \/ Deactivated \/ Dropped \/ RadioFollows \/ Scanned
=============================================================================
