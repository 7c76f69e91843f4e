----------------------------- MODULE MCBluetooth -----------------------------
(* The Bluetooth plugin.  Its parts share no state here, so one moves at a time. *)
EXTENDS Bluetooth, VspConnection, BleServers

VARIABLE part

Put(prop, v) == [Unset EXCEPT ![prop] = v]
Puts == {Put("powered", "on"), [Put("powered", "off") EXCEPT !.discoverable = "off"],
         [Put("powered", "on") EXCEPT !.transportFilter = "le", !.discovering = "on"]}

plugin == <<bluetooth, vsp, servers, part>>

Init == part \in {"service", "vsp", "servers"} /\ BtInit /\ VspInit /\ ServersInit

ServiceNext == part = "service" /\ BtNext /\ UNCHANGED <<vsp, servers, part>>
SerialNext == part = "vsp" /\ VspNext /\ UNCHANGED <<bluetooth, servers, part>>
TellNext == part = "servers" /\ ServersNext /\ UNCHANGED <<bluetooth, vsp, part>>
Next == ServiceNext \/ SerialNext \/ TellNext

Spec == Init /\ [][Next]_plugin /\ VspFairness /\ ServersFairness
SafeSpec == Init /\ [][Next]_plugin

(* The servers of the plugin, that of a serial port and that of the BLE manager: one that *)
(* is listed serves its device, one that was stopped is over.                             *)
ServersRight == PortsServe /\ StoppedIsOver

(* Neither a request to the serial port nor the event loop waits for ever. *)
NobodyWaitsForever == VspAnswered /\ LoopComesBack
=============================================================================
