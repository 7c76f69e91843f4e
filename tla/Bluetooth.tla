------------------------------- MODULE Bluetooth -------------------------------
(***************************************************************************)
(* The Bluetooth service: the controller and its devices, what was         *)
(* commanded of them, and how it is commanded again after the controller   *)
(* was reset.  The BLE manager connects devices and is told when they do.  *)
(*                                                                         *)
(* A job is a request or the callback of a signal of BlueZ; its stages are *)
(* the calls that it still has to await.  What the program sends between   *)
(* two awaits BlueZ takes in that order, so a call belongs to the step     *)
(* that sends it where the order matters.                                  *)
(***************************************************************************)
EXTENDS Integers, FiniteSets, Sequences, SequencesExt, Lists

CONSTANTS
    BtDevices,         \* the devices, by address
    AdapterRequests,   \* what is put to the controller
    MaxJobs,           \* bound: requests and callbacks at a time
    MaxPuts,           \* bound: requests
    MaxBtEvents,       \* bound: changes BlueZ makes by itself
    MaxObjects         \* bound: Device objects ever made

AdapterStages == <<"powered", "transportFilter", "discoverable", "discovering">>
Unset == [s \in ToSet(AdapterStages) |-> "unset"]
AllOff == [s \in ToSet(AdapterStages) |-> "off"]
Names == {"controller0", "controller1"}

ASSUME BluetoothAssumption ==
    /\ {MaxJobs, MaxPuts, MaxBtEvents, MaxObjects} \subseteq Nat
    /\ AdapterRequests \subseteq [ToSet(AdapterStages) -> STRING]

VARIABLES
    known,             \* _controller_addresses has controller0
    heard,             \* register_controller_callbacks: "no", "flagged" or "set"
    path,              \* what BlueZ calls the controller, "none" without one
    actual,            \* its properties
    link,              \* device -> "absent", "known" or "connected"
    paired,            \* the devices that are paired
    states,            \* _controller_states: what was put, by friendly name
    devices,           \* device_properties_uuids: "none", "entry", "connect" or "disconnect"
    toRestore,         \* _devices_to_restore
    scheduled, restored, \* how often a device was put there, and restored
    jobs,              \* the requests and callbacks that are not over
    puts,              \* requests so far
    bt,                \* the BLE managers made; the last one is BluetoothBlePlugin.bt
    objects,           \* the Device objects: their device, and whether they hear it
    managed,           \* BtMgr.devices: device -> number of its Device object, or 0
    asked,             \* what the callbacks of Device objects ask BlueZ, in order
    events,            \* changes of BlueZ so far
    lost               \* BlueZ refused the last call that set the power, or that the controller came was not heard

service == <<known, heard, states, devices, toRestore, scheduled, restored>>
world == <<path, actual, link, paired, events, lost>>
manager == <<bt, objects, managed, asked>>
bluetooth == <<service, world, manager, jobs, puts>>

BtInit ==
    /\ known = FALSE /\ heard = "no" /\ path = "hci0" /\ actual = AllOff
    /\ link = [d \in BtDevices |-> "known"] /\ paired = {}
    /\ states = [n \in Names |-> Unset] /\ devices = [d \in BtDevices |-> "none"]
    /\ toRestore = {} /\ scheduled = [d \in BtDevices |-> 0] /\ restored = [d \in BtDevices |-> 0]
    /\ jobs = <<>> /\ puts = 0 /\ bt = 0 /\ objects = <<>> /\ managed = [d \in BtDevices |-> 0] /\ asked = <<>>
    /\ events = 0 /\ lost = FALSE

Job(op, d, at, todo, data) == [op |-> op, dev |-> d, path |-> at, todo |-> todo, data |-> data]
Begins(job) == Len(jobs) < MaxJobs /\ jobs' = Append(jobs, job)
At(t, stage) == Head(jobs[t].todo) = stage
Goes(t, todo) == jobs' = IF todo = <<>> THEN RemoveAt(jobs, t) ELSE [jobs EXCEPT ![t].todo = todo]
Advances(t) == Goes(t, Tail(jobs[t].todo))
Ends(t) == Goes(t, <<>>)

-----------------------------------------------------------------------------
(* setup, when the routes are loaded: discover_controllers names those BlueZ has then. *)
Setup ==
    /\ ~known /\ path # "none" /\ known' = TRUE
    /\ UNCHANGED <<heard, states, devices, toRestore, scheduled, restored, world, manager, jobs, puts>>

(* handle_put begins with register_controller_callbacks, of which the flag comes first. *)
ToRegister == IF heard = "no" THEN <<"register">> ELSE <<>>
PutBegins(op, d, todo, data) ==
    /\ puts < MaxPuts /\ puts' = puts + 1
    /\ Begins(Job(op, d, "none", ToRegister \o <<"remap", "introspect">> \o todo, data))
    /\ heard' = IF heard = "no" THEN "flagged" ELSE heard
    /\ UNCHANGED <<known, states, devices, toRestore, scheduled, restored, world, manager>>

HandlePutController(data) == PutBegins("put", "", <<>>, data)

RegisterControllerCallbacks(t) ==
    /\ At(t, "register") /\ Advances(t)
    /\ heard' \in {"set", "flagged"}
    /\ UNCHANGED <<known, states, devices, toRestore, scheduled, restored, world, manager>>

(* Without a controller of that address the answer is 404. *)
GetRemappedController(t) ==
    /\ At(t, "remap")
    /\ IF ~known \/ path = "none" THEN Ends(t)
       ELSE jobs' = [jobs EXCEPT ![t].path = path, ![t].todo = Tail(@)]
    /\ UNCHANGED <<service, world, manager>>

(* CACHED_ADAPTER_PROPS of a request are cached before they are set. *)
Remembered(state, data) ==
    [s \in DOMAIN state |-> IF s # "transportFilter" /\ data[s] # "unset" THEN data[s] ELSE state[s]]

(* When it is powered off nothing else is switched off as well. *)
Wanted(data) ==
    IF data.powered # "off" THEN data
    ELSE [s \in DOMAIN data |-> IF s \in {"discoverable", "discovering"} /\ data[s] = "off" THEN "unset" ELSE data[s]]
ToCall(data) == Filtered(AdapterStages, {s \in DOMAIN data : Wanted(data)[s] # "unset"})

(* What BlueZ makes of a call: a controller that is off cannot be made discoverable. *)
Effect(stage, v) == IF stage = "powered" /\ v = "off" THEN AllOff ELSE [actual EXCEPT ![stage] = v]
Refused(stage, v) == stage \in {"discoverable", "discovering"} /\ v = "on" /\ actual.powered = "off"

(* controller_restore goes on with the devices, whether the controller took it all or not. *)
CommandedDevices == {d \in BtDevices : devices[d] # "none"}
Scheduled(t) ==
    IF jobs[t].op = "restore"
    THEN /\ toRestore' = toRestore \cup CommandedDevices
         /\ scheduled' = [d \in BtDevices |-> scheduled[d] + IF d \in CommandedDevices \ toRestore THEN 1 ELSE 0]
    ELSE UNCHANGED <<toRestore, scheduled>>

(* The name that set_adapter_properties is given: controller_restore gives it the path. *)
Given(t) == IF jobs[t].op = "restore" /\ jobs[t].path = "hci1" THEN "controller1" ELSE "controller0"

(* One call of set_adapter_properties for job t, which has these left and this data. *)
Performs(t, todo, data, state) ==
    LET stage == Head(todo)
        v == data[stage]
        ok == jobs[t].path = path /\ ~Refused(stage, v)
    IN  \/ /\ ok
           /\ actual' = Effect(stage, v)
           /\ states' = IF stage = "transportFilter" THEN [state EXCEPT ![Given(t)].transportFilter = v] ELSE state
           /\ jobs' = IF Len(todo) = 1 THEN RemoveAt(jobs, t) ELSE [jobs EXCEPT ![t].todo = Tail(todo), ![t].data = data]
           /\ IF Len(todo) = 1 THEN Scheduled(t) ELSE UNCHANGED <<toRestore, scheduled>>
           /\ lost' = (lost /\ stage # "powered") /\ UNCHANGED events
        \/ /\ IF ok THEN events < MaxBtEvents /\ events' = events + 1 ELSE UNCHANGED events
           /\ lost' = (lost \/ (ok /\ stage = "powered"))
           /\ Ends(t) /\ Scheduled(t) /\ states' = state
           /\ UNCHANGED actual

(* Mutant of StateOf: it is looked up by the path. *)
StateByPath(t) == states[Given(t)]

(* remapped_controller_to_friendly_name finds the name by the address of the controller. *)
StateOf(t) == states["controller0"]

(* A request and a restore read what they are to set when they have the controller.  It *)
(* raises if the controller has gone meanwhile.                                         *)
Introspected(t) ==
    /\ At(t, "introspect") /\ jobs[t].op \in {"put", "restore"}
    /\ LET data == IF jobs[t].op = "put" THEN jobs[t].data ELSE StateOf(t)
           state == IF jobs[t].op = "put" THEN [states EXCEPT !["controller0"] = Remembered(@, data)] ELSE states
       IN  IF jobs[t].path # path THEN Ends(t) /\ UNCHANGED <<actual, events, lost, states, toRestore, scheduled>>
           ELSE IF ToCall(data) = <<>>
           THEN Ends(t) /\ Scheduled(t) /\ states' = state /\ UNCHANGED <<actual, events, lost>>
           ELSE Performs(t, ToCall(data), data, state)
    /\ UNCHANGED <<known, heard, devices, restored, path, link, paired, manager>>

SetAdapterProperties(t) ==
    /\ \E s \in ToSet(AdapterStages) : At(t, s)
    /\ Performs(t, jobs[t].todo, jobs[t].data, states)
    /\ UNCHANGED <<known, heard, devices, restored, path, link, paired, manager>>

-----------------------------------------------------------------------------
(* Device requests: a device BlueZ does not have is answered with an error. *)
HandlePutDevice(d, want) == PutBegins(want, d, <<"find">>, Unset)

DeviceOps == {"connect", "disconnect", "pair", "unpair"}
GetControllerObj(t) ==
    /\ At(t, "introspect") /\ jobs[t].op \in DeviceOps
    /\ IF jobs[t].path = path THEN Advances(t) ELSE Ends(t)
    /\ UNCHANGED <<service, world, manager>>

Calls(op) == CASE op = "connect" -> <<"getConnected">> [] op = "disconnect" -> <<"callDisconnect">>
               [] op = "pair" -> <<"callPair">> [] op = "unpair" -> <<"callRemoveDevice">>
               [] OTHER -> <<>>

(* Of what is put to a device, whether it is connected is cached. *)
Cached(d, op) == IF op \in {"connect", "disconnect"} THEN op ELSE IF devices[d] = "none" THEN "entry" ELSE devices[d]
FindDeviceOf(t) ==
    /\ At(t, "find")
    /\ LET d == jobs[t].dev
           op == IF jobs[t].op = "device restore" THEN devices[d] ELSE jobs[t].op
       IN  IF link[d] = "absent" THEN Ends(t) /\ UNCHANGED devices
           ELSE Goes(t, Calls(op)) /\ devices' = [devices EXCEPT ![d] = Cached(d, op)]
    /\ UNCHANGED <<known, heard, states, toRestore, scheduled, restored, world, manager>>

(* The callbacks of Device objects ask whether the device is connected. *)
Hearing(ds) == {k \in DOMAIN objects : objects[k].dev \in ds /\ objects[k].signal}
Asks(ds, what) == Filtered([k \in DOMAIN objects |-> [obj |-> k, what |-> what]],
                           {[obj |-> k, what |-> what] : k \in Hearing(ds)})

(* Mutant of DisconnectHeard: properties_changed passes only ServicesResolved on. *)
DisconnectHeardNot(d) == asked

DisconnectHeard(d) == IF link[d] = "connected" THEN asked \o Asks({d}, "callback") ELSE asked
Drops(d, to) == link' = [link EXCEPT ![d] = to] /\ asked' = DisconnectHeard(d)

(* Device.disconnect, and remove_device_method, after which the plugins are told. *)
CallDisconnect(t) ==
    /\ At(t, "callDisconnect") /\ Ends(t)
    /\ LET d == jobs[t].dev IN
          \/ link[d] = "connected" /\ Drops(d, "known")
          \/ UNCHANGED <<link, asked>>
    /\ UNCHANGED <<service, path, actual, paired, events, lost, bt, objects, managed>>

RemoveDeviceMethod(t) ==
    /\ At(t, "callRemoveDevice") /\ Ends(t)
    /\ LET d == jobs[t].dev IN
          \/ link[d] # "absent" /\ Drops(d, "absent") /\ paired' = paired \ {d}
          \/ UNCHANGED <<link, asked, paired>>
    /\ UNCHANGED <<service, path, actual, events, lost, bt, objects, managed>>

(* PAIR_TIMEOUT_SECONDS, or the agent's RequestPasskey raising, ends a pairing. *)
CallPair(t) ==
    /\ At(t, "callPair") /\ Ends(t)
    /\ \/ link[jobs[t].dev] # "absent" /\ paired' = paired \cup {jobs[t].dev}
       \/ UNCHANGED paired
    /\ UNCHANGED <<service, path, actual, link, events, lost, manager>>

(* It is connected by the BLE manager, which is made if there is none yet. *)
ToMake == IF bt = 0 THEN <<"initialize">> ELSE <<>>
GetConnected(t) ==
    /\ At(t, "getConnected")
    /\ IF link[jobs[t].dev] = "known" THEN Goes(t, ToMake \o <<"create", "callConnect">>) ELSE Ends(t)
    /\ UNCHANGED <<service, world, manager>>

(* bt_init_ex: it powers hci0 on, whatever was commanded.  Without a manager BlueZ is   *)
(* asked to connect the device.                                                         *)
Initialize(t) ==
    /\ At(t, "initialize")
    /\ \/ /\ path = "hci0"
          /\ bt' = bt + 1 /\ actual' = [actual EXCEPT !.powered = "on"] /\ Advances(t)
       \/ Goes(t, <<"callConnect">>) /\ UNCHANGED <<bt, actual>>
    /\ UNCHANGED <<service, path, link, paired, events, lost, objects, managed, asked>>

(* The Device object hears the properties of its device before it connects it. *)
CreateDevice(t) ==
    /\ At(t, "create")
    /\ IF link[jobs[t].dev] = "absent" THEN Ends(t) /\ UNCHANGED objects
       ELSE /\ Len(objects) < MaxObjects /\ Advances(t)
            /\ objects' = Append(objects, [dev |-> jobs[t].dev, signal |-> TRUE])
    /\ UNCHANGED <<service, world, bt, managed, asked>>

CallConnect(t) ==
    /\ At(t, "callConnect") /\ Ends(t)
    /\ \/ link[jobs[t].dev] = "known" /\ actual.powered = "on" /\ link' = [link EXCEPT ![jobs[t].dev] = "connected"]
       \/ UNCHANGED link
    /\ UNCHANGED <<service, path, actual, paired, events, lost, manager>>

(* bleConnect and bleDisconnect: the latter calls the coroutine of disconnect without   *)
(* awaiting it, so that only purge does something.                                      *)
BleConnect(d) ==
    /\ known /\ puts < MaxPuts /\ puts' = puts + 1
    /\ Begins(Job("ble", d, path, ToMake \o <<"create", "callConnect">>, Unset))
    /\ UNCHANGED <<service, world, manager>>

BleDisconnect(d) ==
    /\ managed[d] # 0 /\ puts < MaxPuts /\ puts' = puts + 1
    /\ Begins(Job("ble", d, path, <<"callRemoveDevice">>, Unset))
    /\ UNCHANGED <<service, world, manager>>

(* is_connected is asked once for ServicesResolved, and again in mgr_connection_callback. *)
PropertiesChanged ==
    /\ asked # <<>> /\ Head(asked).what = "resolved"
    /\ asked' = IF link[objects[Head(asked).obj].dev] = "connected"
                THEN Append(Tail(asked), [Head(asked) EXCEPT !.what = "callback"]) ELSE Tail(asked)
    /\ UNCHANGED <<service, world, jobs, bt, objects, managed>>

MgrConnectionCallback ==
    /\ asked # <<>> /\ Head(asked).what = "callback" /\ asked' = Tail(asked)
    /\ LET k == Head(asked).obj
           d == objects[k].dev
       IN  IF link[d] = "connected"
           THEN managed' = [managed EXCEPT ![d] = k] /\ UNCHANGED objects
           ELSE managed' = [managed EXCEPT ![d] = 0] /\ objects' = [objects EXCEPT ![k].signal = FALSE]
    /\ UNCHANGED <<service, world, jobs, bt>>

-----------------------------------------------------------------------------
(* Signals of BlueZ.  A controller that goes takes its devices with it. *)
ControllerGone ==
    /\ path # "none" /\ events < MaxBtEvents /\ events' = events + 1
    /\ path' = "none" /\ actual' = AllOff /\ paired' = {}
    /\ link' = [d \in BtDevices |-> "absent"]
    /\ asked' = asked \o Asks({d \in BtDevices : link[d] = "connected"}, "callback")
    /\ UNCHANGED <<service, jobs, lost, bt, objects, managed>>

(* interface_added_cb, if it is heard, starts controller_restore or device_restore. *)
Heard(job) == IF heard = "set" THEN Begins(job) ELSE UNCHANGED jobs

InterfaceAddedController ==
    /\ path = "none" /\ path' \in {"hci0", "hci1"}
    /\ Heard(Job("restore", "", path', <<"name", "introspect">>, Unset))
    /\ lost' = (heard # "set")
    /\ UNCHANGED <<service, actual, link, paired, events, manager>>

InterfaceAddedDevice(d) ==
    /\ path # "none" /\ link[d] = "absent" /\ link' = [link EXCEPT ![d] = "known"]
    /\ Heard(Job("device restore", d, path, <<"address">>, Unset))
    /\ UNCHANGED <<service, path, actual, paired, events, lost, manager>>

RemappedControllerToFriendlyName(t) ==
    /\ At(t, "name")
    /\ IF jobs[t].path = path THEN Advances(t) ELSE Ends(t)
    /\ UNCHANGED <<service, world, manager>>

(* device_restore: when the device has told its address it is restored if it has to be. *)
Popped(d) == toRestore \ {d}
DeviceRestore(t) ==
    /\ At(t, "address")
    /\ LET d == jobs[t].dev IN
          IF link[d] # "absent" /\ d \in toRestore
          THEN /\ toRestore' = Popped(d) /\ restored' = [restored EXCEPT ![d] = @ + 1]
               /\ Goes(t, <<"name", "find">>)
          ELSE Ends(t) /\ UNCHANGED <<toRestore, restored>>
    /\ UNCHANGED <<known, heard, states, devices, scheduled, world, manager>>

(* A device goes out of reach, comes back by itself, or is forgotten by BlueZ. *)
LinkLost(d) ==
    /\ link[d] = "connected" /\ events < MaxBtEvents /\ events' = events + 1
    /\ Drops(d, "known")
    /\ UNCHANGED <<service, path, actual, paired, lost, jobs, bt, objects, managed>>

LinkResolved(d) ==
    /\ link[d] = "connected" /\ events < MaxBtEvents /\ events' = events + 1
    /\ asked' = asked \o Asks({d}, "resolved")
    /\ UNCHANGED <<service, path, actual, link, paired, lost, jobs, bt, objects, managed>>

DeviceForgotten(d) ==
    /\ link[d] = "known" /\ d \notin paired /\ events < MaxBtEvents /\ events' = events + 1
    /\ link' = [link EXCEPT ![d] = "absent"]
    /\ UNCHANGED <<service, path, actual, paired, lost, jobs, manager>>

-----------------------------------------------------------------------------
BtRequest ==
    \/ Setup
    \/ \E data \in AdapterRequests : HandlePutController(data)
    \/ \E d \in BtDevices : \/ \E want \in DeviceOps : HandlePutDevice(d, want)
                            \/ BleConnect(d) \/ BleDisconnect(d)

BtStep(t) ==
    \/ RegisterControllerCallbacks(t) \/ GetRemappedController(t) \/ Introspected(t) \/ SetAdapterProperties(t)
    \/ GetControllerObj(t) \/ FindDeviceOf(t) \/ CallDisconnect(t) \/ RemoveDeviceMethod(t) \/ CallPair(t)
    \/ GetConnected(t) \/ Initialize(t) \/ CreateDevice(t) \/ CallConnect(t)
    \/ RemappedControllerToFriendlyName(t) \/ DeviceRestore(t)

BtSignal ==
    \/ PropertiesChanged \/ MgrConnectionCallback \/ ControllerGone \/ InterfaceAddedController
    \/ \E d \in BtDevices : InterfaceAddedDevice(d) \/ LinkLost(d) \/ LinkResolved(d) \/ DeviceForgotten(d)

BtNext == BtRequest \/ (UNCHANGED puts /\ (BtSignal \/ \E t \in DOMAIN jobs : BtStep(t)))
BtSpec == BtInit /\ [][BtNext]_bluetooth

-----------------------------------------------------------------------------
BtQuiet == jobs = <<>>

(* After any requests and resets the controller is powered as was commanded last, once  *)
(* all of them are over, unless BlueZ refused the last call that was to set its power   *)
(* or nobody heard it come; a BLE manager, when one was made, may have powered it on.    *)
PowerRestored ==
    (BtQuiet /\ path # "none" /\ ~lost /\ states["controller0"].powered # "unset") =>
        \/ actual.powered = states["controller0"].powered
        \/ bt > 0 /\ actual.powered = "on"

(* However often a device comes and goes while it is restored, it is restored once for  *)
(* each time that it was to be.                                                         *)
RestoredOnce ==
    \A d \in BtDevices : restored[d] + (IF d \in toRestore THEN 1 ELSE 0) <= scheduled[d]

(* Its power is restored as commanded, and no device more often than it was to be. *)
RestoredRight == PowerRestored /\ RestoredOnce

(* A device that the BLE manager has, by an object that hears it, is connected, once    *)
(* the questions under way are answered.                                                *)
ManagedIsConnected ==
    \A d \in BtDevices :
        (managed[d] # 0 /\ objects[managed[d]].signal /\ asked = <<>>) => link[d] = "connected"

(* "Attempts to re-establish previously commanded controller state" of the devices too: *)
(* of a device that is there nothing is left to restore when all callbacks are over.    *)
DevicesRestored ==
    BtQuiet => \A d \in toRestore : path = "none" \/ link[d] = "absent"
=============================================================================
