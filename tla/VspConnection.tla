---------------------------- MODULE VspConnection ----------------------------
(***************************************************************************)
(* The virtual serial port of the Bluetooth plugin: gattConnect opens a    *)
(* TCP server whose client writes to one GATT characteristic of a device   *)
(* and is told what another one reads.                                     *)
(*                                                                         *)
(* A coroutine is what it has still to await: a request, or the callback   *)
(* of a signal, of which there may be several at once.  BlueZ answers when *)
(* it likes, or not at all; only the two commands have a timeout, which    *)
(* starts when their device has been looked up.                            *)
(***************************************************************************)
EXTENDS Integers, FiniteSets, Sequences, SequencesExt, TLC

CONSTANTS
    VspDevices,        \* the devices, by address
    VspPorts,          \* the TCP ports asked for
    TcpClients,        \* TCP connections ever made to one of the ports
    WriteSize,         \* vspWriteChrSize
    AuthFailureUnpair, \* the parameter of that name
    MaxConnections,    \* bound: VspConnection objects ever made
    MaxCoroutines,     \* bound: requests and callbacks ever started
    MaxVspEvents,      \* bound: changes BlueZ makes by itself
    MaxBytes           \* bound: bytes a TCP client sends

ASSUME VspAssumption ==
    /\ "none" \notin VspDevices \cup TcpClients
    /\ WriteSize \in Nat \ {0} /\ AuthFailureUnpair \in BOOLEAN
    /\ {MaxConnections, MaxCoroutines, MaxVspEvents, MaxBytes} \subseteq Nat

VARIABLES
    hci,               \* the name of the controller now, "none" without one
    there, resolved,   \* the devices BlueZ has, and those whose services it has
    conns,             \* the VspConnection objects, in the order they were made
    table,             \* device -> its number in VspConnectionPlugin.vsp_connections, or 0
    co,                \* the coroutines
    tcp,               \* TCP client -> the coroutine that serves it
    told,              \* changes of BlueZ so far
    looking            \* the commands whose controller and device are still being looked up

vsp == <<hci, there, resolved, conns, table, co, tcp, told, looking>>

NoPath == <<"none", "none">>
DevicePaths == VspDevices \X {"hci0", "hci1"}
PathOf(d) == <<d, hci>>
HasServices(path) == path[2] = hci /\ path[1] \in resolved

NewConnection(d, port, path) ==
    [dev |-> d, port |-> port, path |-> path, read |-> NoPath, write |-> NoPath,
     readProp |-> NoPath, devProp |-> NoPath, watched |-> [p \in DevicePaths |-> 0], waiting |-> FALSE,
     server |-> "none", client |-> "none", connected |-> FALSE, rx |-> <<>>, sent |-> <<>>, crowded |-> FALSE]

Over == [op |-> "over", dev |-> "", conn |-> 0, todo |-> <<>>, resolved |-> FALSE]
NotYet == [conn |-> 0, phase |-> "new", heard |-> 0, chunk |-> <<>>]

VspInit ==
    /\ hci = "hci0" /\ there = VspDevices /\ resolved = VspDevices
    /\ conns = <<>> /\ table = [d \in VspDevices |-> 0]
    /\ co = <<>> /\ told = 0 /\ looking = {}
    /\ tcp = [c \in TcpClients |-> NotYet]

Doing(t, stage) == co[t].todo # <<>> /\ Head(co[t].todo) = stage
Continue(t) == IF Len(co[t].todo) = 1 THEN Over ELSE [co[t] EXCEPT !.todo = Tail(@)]
Step(t, r) == co' = [co EXCEPT ![t] = r]
Start(op, d, k, todo) == [op |-> op, dev |-> d, conn |-> k, todo |-> todo, resolved |-> FALSE]
Starts(rs) == Len(co) + Len(rs) <= MaxCoroutines /\ co' = co \o rs

bluez == <<hci, there, resolved, told, looking>>

-----------------------------------------------------------------------------
(* handle_put.  Before a command runs its device is looked up, by calls to BlueZ that *)
(* nothing limits: that may fail, and may never end.                                   *)
Commands == {"gattConnect", "gattDisconnect"}
VspCommand(op, d) ==
    /\ hci # "none" /\ Len(co) + Cardinality(looking) < MaxCoroutines
    /\ looking' = looking \cup {<<op, d>>}
    /\ UNCHANGED <<hci, there, resolved, told, conns, table, co, tcp>>

LookedUp(op, d) == <<op, d>> \in looking /\ looking' = looking \ {<<op, d>>}

(* The lookup raises, or a port is there already, or there is none to close. *)
TurnedDown(op, d) ==
    /\ LookedUp(op, d)
    /\ UNCHANGED <<hci, there, resolved, told, conns, table, co, tcp>>

(* gattConnect.  A command for a device BlueZ does not have is passed on without one. *)
GattConnect(d, port) ==
    /\ LookedUp("gattConnect", d)
    /\ table[d] = 0 /\ Len(conns) < MaxConnections
    /\ conns' = Append(conns, NewConnection(d, port, IF d \in there THEN PathOf(d) ELSE NoPath))
    /\ Starts(<<Start("gattConnect", d, Len(conns'), <<"find", "notify", "serve", "watch">>)>>)
    /\ UNCHANGED <<hci, there, resolved, told, table, tcp>>

(* create_vsp_service takes the first service with the UUIDs that were asked for, of *)
(* any device when it has none.                                                      *)
VspServices(c) == {p \in {PathOf(d) : d \in resolved} : c.path \in {NoPath, p}}

CreateVspService(t) ==
    /\ Doing(t, "find")
    /\ LET k == co[t].conn IN
          IF VspServices(conns[k]) = {}
          THEN /\ Step(t, IF co[t].op = "gattConnect" THEN Over ELSE Continue(t))
               /\ UNCHANGED conns
          ELSE \E p \in VspServices(conns[k]) :
                  /\ conns' = [conns EXCEPT ![k].read = p, ![k].write = p]
                  /\ Step(t, Continue(t))
    /\ UNCHANGED <<bluez, table, tcp>>

(* start_client: the property is listened to only if it is not listened to yet. *)
Subscribed(c) == [c EXCEPT !.readProp = IF @ = NoPath THEN c.read ELSE @]

(* After it the callback of ServicesResolved goes on if gatt_only_reconnect waits. *)
Notified(t, k, c, ok) ==
    CASE co[t].op = "gattConnect" -> /\ Step(t, IF ok THEN Continue(t) ELSE Over)
                                     /\ conns' = [conns EXCEPT ![k] = c]
      [] co[t].op = "signal" /\ c.waiting -> /\ Step(t, [co[t] EXCEPT !.op = "restore", !.todo = <<"find", "notify">>])
                                             /\ conns' = [conns EXCEPT ![k] = [c EXCEPT !.waiting = FALSE]]
      [] OTHER -> /\ Step(t, Continue(t))
                  /\ conns' = [conns EXCEPT ![k] = c]

StartClient(t) ==
    /\ Doing(t, "notify")
    /\ LET k == co[t].conn
           c == conns[k]
       IN  \/ HasServices(c.read) /\ Notified(t, k, Subscribed(c), TRUE)
           \/ Notified(t, k, c, FALSE)
    /\ UNCHANGED <<bluez, table, tcp>>

Listening(port) == {k \in DOMAIN conns : conns[k].server = "listening" /\ conns[k].port = port}

(* asyncio.start_server raises if the port is in use. *)
StartServer(t) ==
    /\ Doing(t, "serve")
    /\ LET k == co[t].conn IN
          IF Listening(conns[k].port) # {} THEN Step(t, Over) /\ UNCHANGED conns
          ELSE Step(t, Continue(t)) /\ conns' = [conns EXCEPT ![k].server = "listening"]
    /\ UNCHANGED <<bluez, table, tcp>>

Watching(c, path) == [c EXCEPT !.devProp = path, !.watched[path] = @ + 1]

(* Without a device, or when it has gone, this raises and the server stays. *)
WatchDevice(t) ==
    /\ Doing(t, "watch")
    /\ LET k == co[t].conn IN
          IF conns[k].path[1] \in there /\ conns[k].path[2] = hci
          THEN /\ conns' = [conns EXCEPT ![k] = Watching(@, @.path)]
               /\ table' = [table EXCEPT ![co[t].dev] = k]
          ELSE UNCHANGED <<conns, table>>
    /\ Step(t, Over)
    /\ UNCHANGED <<bluez, tcp>>

-----------------------------------------------------------------------------

(* vsp_close, as far as it goes without waiting: it forgets the connection first. *)
Forget(d) == [table EXCEPT ![d] = 0]
Unwatched(c) ==
    LET fewer == IF c.devProp = NoPath THEN c.watched ELSE [c.watched EXCEPT ![c.devProp] = @ - 1] IN
    [c EXCEPT !.connected = FALSE, !.write = NoPath, !.devProp = NoPath, !.watched = fewer]
ServerClosed(c) == [c EXCEPT !.readProp = NoPath, !.server = "closed"]
Stopped(c) == IF c.read = NoPath THEN ServerClosed(Unwatched(c)) ELSE Unwatched(c)
CloseStages(c) == IF c.read = NoPath THEN <<>> ELSE <<"stopNotify">>

GattDisconnect(d) ==
    /\ LookedUp("gattDisconnect", d)
    /\ table[d] # 0
    /\ LET k == table[d] IN
          /\ conns' = [conns EXCEPT ![k] = Stopped(@)]
          /\ Starts(IF CloseStages(conns[k]) = <<>> THEN <<>>
                    ELSE <<Start("gattDisconnect", d, k, CloseStages(conns[k]))>>)
    /\ table' = Forget(d)
    /\ UNCHANGED <<hci, there, resolved, told, tcp>>

(* stop_client, and after it the server is closed; what fails is passed over. *)
StopClient(t) ==
    /\ Doing(t, "stopNotify")
    /\ conns' = [conns EXCEPT ![co[t].conn] = ServerClosed([@ EXCEPT !.read = NoPath])]
    /\ Step(t, Over)
    /\ UNCHANGED <<bluez, table, tcp>>

(* remove_device_method: a request unpairs the device, or the callback does.  The *)
(* plugin is told after BlueZ has removed it.                                      *)
Unpair(d) ==
    /\ d \in there
    /\ Starts(<<Start("unpair", d, 0, <<"remove">>)>>)
    /\ UNCHANGED <<bluez, conns, table, tcp>>

DeviceRemovedNotify(t) ==
    /\ Doing(t, "remove")
    /\ LET d == co[t].dev
           k == table[d]
       IN  IF d \notin there \/ k = 0
           THEN Step(t, Over) /\ UNCHANGED <<conns, table>>
           ELSE /\ conns' = [conns EXCEPT ![k] = Stopped(@)]
                /\ table' = Forget(d)
                /\ Step(t, IF CloseStages(conns[k]) = <<>> THEN Over
                           ELSE [co[t] EXCEPT !.conn = k, !.todo = CloseStages(conns[k])])
    /\ there' = there \ {co[t].dev} /\ resolved' = resolved \ {co[t].dev}
    /\ UNCHANGED <<hci, tcp, told, looking>>

(* Those that asyncio.wait_for ends after 5 s, wherever they are. *)
TimedOut(t) ==
    /\ co[t].todo # <<>> /\ co[t].op \in Commands
    /\ Step(t, Over)
    /\ UNCHANGED <<bluez, conns, table, tcp>>

-----------------------------------------------------------------------------
(* Signals.  device_prop_changed_cb runs once for each time it was registered on the *)
(* path: the registrations of interfaces that were replaced are never undone.         *)
Handlers(k, path) == conns[k].watched[path]
Callbacks(op, d, todo) ==
    FlattenSeq([k \in DOMAIN conns |-> [i \in 1..Handlers(k, PathOf(d)) |-> Start(op, d, k, todo)]])

(* stop_client(False) does not wait. *)
Unsubscribed(path) ==
    [k \in DOMAIN conns |-> IF Handlers(k, path) > 0 THEN [conns[k] EXCEPT !.readProp = NoPath] ELSE conns[k]]

Event == told < MaxVspEvents /\ told' = told + 1

(* The device disconnects, perhaps because its authentication failed. *)
DeviceDisconnects(d) ==
    /\ d \in resolved /\ Event
    /\ resolved' = resolved \ {d}
    /\ conns' = Unsubscribed(PathOf(d))
    /\ \/ UNCHANGED co
       \/ AuthFailureUnpair /\ Starts(Callbacks("unpair", d, <<"remove">>))
    /\ UNCHANGED <<hci, there, table, tcp, looking>>

(* It connects and its services are resolved. *)
ServicesResolved(d) ==
    /\ d \in there \ resolved /\ Event
    /\ resolved' = resolved \cup {d}
    /\ Starts(Callbacks("signal", d, <<"notify">>))
    /\ UNCHANGED <<hci, there, conns, table, tcp, looking>>

(* The controller is reset.  ControllerRemovedNotify only makes the coroutines of      *)
(* gatt_only_disconnect and awaits none; whether the devices disconnect first varies.  *)
ControllerRemoved ==
    /\ hci # "none" /\ Event
    /\ hci' = "none" /\ there' = {} /\ resolved' = {}
    /\ \/ UNCHANGED conns
       \/ conns' = [k \in DOMAIN conns |->
                       IF \E d \in resolved : Handlers(k, PathOf(d)) > 0
                       THEN [conns[k] EXCEPT !.readProp = NoPath] ELSE conns[k]]
    /\ UNCHANGED <<table, co, tcp, looking>>

ControllerAdded ==
    /\ hci = "none" /\ hci' \in {"hci0", "hci1"}
    /\ UNCHANGED <<there, resolved, conns, table, co, tcp, told, looking>>

(* DeviceAddedNotify, for a device whose state is to be restored. *)
DeviceAdded(d) ==
    /\ hci # "none" /\ d \notin there
    /\ there' = there \cup {d}
    /\ \/ UNCHANGED co
       \/ table[d] # 0 /\ Starts(<<Start("restore", d, table[d], <<"lookup", "rewatch">>)>>)
    /\ UNCHANGED <<hci, resolved, conns, table, tcp, told, looking>>

(* gatt_only_reconnect looks for the device, and keeps whether its services were there. *)
FindDevice(t) ==
    /\ Doing(t, "lookup")
    /\ LET d == co[t].dev IN
          IF d \notin there THEN Step(t, Over) /\ UNCHANGED conns
          ELSE /\ Step(t, [Continue(t) EXCEPT !.resolved = d \in resolved])
               /\ conns' = [conns EXCEPT ![co[t].conn].path = PathOf(d)]
    /\ UNCHANGED <<bluez, table, tcp>>

Rewatch(t) ==
    /\ Doing(t, "rewatch")
    /\ LET k == co[t].conn
           c == Watching(conns[k], conns[k].path)
       IN  IF ~(co[t].dev \in there /\ conns[k].path = PathOf(co[t].dev)) THEN Step(t, Over) /\ UNCHANGED conns
           ELSE IF co[t].resolved
           THEN Step(t, [co[t] EXCEPT !.todo = <<"find", "notify">>]) /\ conns' = [conns EXCEPT ![k] = c]
           ELSE Step(t, Over) /\ conns' = [conns EXCEPT ![k] = [c EXCEPT !.waiting = TRUE]]
    /\ UNCHANGED <<bluez, table, tcp>>

-----------------------------------------------------------------------------
(* client_connected_callback.  A TCP client arrives; if there is one already it is the *)
(* new one that is closed.                                                             *)
Phase(c, phase) == tcp' = [tcp EXCEPT ![c].phase = phase]
Serving(k, c) == conns' = [conns EXCEPT ![k].client = c, ![k].connected = TRUE]

ClientConnects(c) ==
    /\ tcp[c].phase = "new"
    /\ \E k \in DOMAIN conns :
          /\ conns[k].server = "listening"
          /\ IF conns[k].client # "none"
             THEN /\ tcp' = [tcp EXCEPT ![c].conn = k, ![c].phase = "turned away"]
                  /\ conns' = [conns EXCEPT ![k].connected = FALSE, ![k].crowded = TRUE]
             ELSE /\ tcp' = [tcp EXCEPT ![c].conn = k, ![c].phase = "reading"]
                  /\ Serving(k, c)
    /\ UNCHANGED <<bluez, table, co>>

(* Its closed writer is kept as the one to write to, until draining it raises. *)
TurnedAway(c) ==
    /\ tcp[c].phase = "turned away"
    /\ Serving(tcp[c].conn, c) /\ Phase(c, "raising")
    /\ UNCHANGED <<bluez, table, co>>

Raising(c) ==
    /\ tcp[c].phase = "raising"
    /\ conns' = [conns EXCEPT ![tcp[c].conn].connected = FALSE]
    /\ Phase(c, "ending")
    /\ UNCHANGED <<bluez, table, co>>

(* Up to WriteSize bytes are read, when the client sends some; when it hangs up none    *)
(* are, and the flag is cleared.  What is sent then was taken before the call to BlueZ. *)
Loop(rx, connected) ==
    IF Len(rx) >= WriteSize THEN "sending" ELSE IF connected THEN "reading" ELSE "ending"
Chunk(rx) == IF Len(rx) >= WriteSize THEN SubSeq(rx, 1, WriteSize) ELSE <<>>
HasRead(c, heard, rx, connected) ==
    tcp' = [tcp EXCEPT ![c] = [@ EXCEPT !.heard = heard, !.phase = Loop(rx, connected), !.chunk = Chunk(rx)]]

ReadSome(c) ==
    /\ tcp[c].phase = "reading"
    /\ \E n \in 1..WriteSize :
          LET k == tcp[c].conn
              rx == conns[k].rx \o [i \in 1..n |-> <<c, tcp[c].heard + i>>]
          IN  /\ tcp[c].heard + n <= MaxBytes
              /\ conns' = [conns EXCEPT ![k].rx = rx]
              /\ HasRead(c, tcp[c].heard + n, rx, conns[k].connected)
    /\ UNCHANGED <<bluez, table, co>>

ReadEnd(c) ==
    /\ tcp[c].phase = "reading"
    /\ conns' = [conns EXCEPT ![tcp[c].conn].connected = FALSE]
    /\ HasRead(c, tcp[c].heard, conns[tcp[c].conn].rx, FALSE)
    /\ UNCHANGED <<bluez, table, co>>

(* Mutant of Taken: one byte too few leaves the buffer. *)
TakenShort(c, chunk, ok) ==
    [c EXCEPT !.rx = SubSeq(@, WriteSize, Len(@)), !.sent = IF ok THEN @ \o chunk ELSE @]

(* gatt_send_data: the chunk leaves the buffer whether it could be sent or not. *)
Taken(c, chunk, ok) ==
    [c EXCEPT !.rx = SubSeq(@, WriteSize + 1, Len(@)), !.sent = IF ok THEN @ \o chunk ELSE @]

GattSendData(c) ==
    /\ tcp[c].phase = "sending"
    /\ LET k == tcp[c].conn
       IN  /\ \/ HasServices(conns[k].write) /\ conns' = [conns EXCEPT ![k] = Taken(@, tcp[c].chunk, TRUE)]
              \/ conns' = [conns EXCEPT ![k] = Taken(@, tcp[c].chunk, FALSE)]
           /\ Phase(c, IF conns[k].connected THEN "reading" ELSE "ending")
    /\ UNCHANGED <<bluez, table, co>>

(* The end of the coroutine: the writer is closed, and no client is left, whoever it was. *)
ClientGone(c) ==
    /\ tcp[c].phase = "ending"
    /\ conns' = [conns EXCEPT ![tcp[c].conn].client = "none"]
    /\ tcp' = [tcp EXCEPT ![c] = [NotYet EXCEPT !.phase = "gone"]]
    /\ UNCHANGED <<bluez, table, co>>

-----------------------------------------------------------------------------
VspRequest ==
    \E d \in VspDevices :
        \/ \E op \in Commands : VspCommand(op, d) \/ TurnedDown(op, d)
        \/ \E port \in VspPorts : GattConnect(d, port)
        \/ GattDisconnect(d) \/ Unpair(d)

CoroutineStep(t) ==
    \/ CreateVspService(t) \/ StartClient(t) \/ StartServer(t) \/ WatchDevice(t)
    \/ StopClient(t) \/ DeviceRemovedNotify(t) \/ FindDevice(t) \/ Rewatch(t)

BluezStep ==
    \/ \E d \in VspDevices : DeviceDisconnects(d) \/ ServicesResolved(d) \/ DeviceAdded(d)
    \/ ControllerRemoved \/ ControllerAdded

TcpStep(c) ==
    \/ ClientConnects(c) \/ TurnedAway(c) \/ Raising(c)
    \/ ReadSome(c) \/ ReadEnd(c) \/ GattSendData(c) \/ ClientGone(c)

VspNext ==
    \/ VspRequest \/ BluezStep
    \/ \E t \in DOMAIN co : CoroutineStep(t) \/ TimedOut(t)
    \/ \E c \in TcpClients : TcpStep(c)

(* The event loop runs the timers; BlueZ need not answer. *)
VspFairness == \A t \in 1..MaxCoroutines : WF_vsp(t \in DOMAIN co /\ TimedOut(t))
VspSpec == VspInit /\ [][VspNext]_vsp /\ VspFairness

-----------------------------------------------------------------------------
(* Type invariant.  The buffer holds less than two chunks while no client was turned    *)
(* away; after that several coroutines may read into it.                                 *)
VspTypeOK ==
    /\ \A d \in VspDevices : table[d] \in 0..Len(conns)
    /\ \A k \in DOMAIN conns : conns[k].client \in TcpClients \cup {"none"}
    /\ \A k \in DOMAIN conns : ~conns[k].crowded => Len(conns[k].rx) < 2 * WriteSize
    /\ \A t \in DOMAIN co : co[t].conn \in 0..Len(conns)
    /\ resolved \subseteq there

(* A connection that is listed has its server up on the port that is told, watches its *)
(* device and writes to no other one, whatever requests, resets and timeouts overlap.  *)
ListedServes ==
    \A d \in VspDevices : table[d] # 0 =>
        LET c == conns[table[d]] IN
        /\ c.dev = d /\ c.server = "listening" /\ c.devProp # NoPath
        /\ c.write[1] \in {d, "none"}

PortsServe == VspTypeOK /\ ListedServes

(* As long as no client was turned away, a byte of a client is written to the device at *)
(* most once and after those that it sent before.                                        *)
SentOnce ==
    \A k \in DOMAIN conns : ~conns[k].crowded =>
        \A i, j \in DOMAIN conns[k].sent :
            (i < j /\ conns[k].sent[i][1] = conns[k].sent[j][1]) => conns[k].sent[i][2] < conns[k].sent[j][2]

(* Once their device has been looked up, gattConnect and gattDisconnect are answered   *)
(* even if BlueZ never answers again; the lookup itself may take for ever.             *)
Commanded(t) == t \in DOMAIN co /\ co[t].op \in Commands
VspAnswered == \A t \in 1..MaxCoroutines : Commanded(t) ~> ~Commanded(t)
=============================================================================
