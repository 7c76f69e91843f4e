---------------------------- MODULE Bluetooth_proof ----------------------------
(***************************************************************************)
(* The Bluetooth plugin, part by part: what is restored after a reset, for *)
(* any requests, devices and resets; that a serial port which is listed is *)
(* served and sends what it is given; and that a server which was stopped  *)
(* is over.                                                                *)
(***************************************************************************)
EXTENDS Lists_proof, MCBluetooth, FiniteSetTheorems

-----------------------------------------------------------------------------
(***************************************************************************)
(* The TCP server of the BLE plugin.  Only its thread holds a client, and  *)
(* only a thread that runs has the socket open; the server is forgotten    *)
(* when its thread has been joined.                                        *)
(***************************************************************************)
ThreadAlive == thread["ble"] \notin {"none", "over"}
ServersInv ==
    /\ {"ble"} \subseteq DOMAIN thread /\ {"ble"} \subseteq DOMAIN held
    /\ {"ble"} \subseteq DOMAIN sock /\ {"ble"} \subseteq DOMAIN server
    /\ held["ble"] => thread["ble"] \in {"recv", "leaving"}
    /\ sock["ble"] = "open" => ThreadAlive
    /\ ThreadAlive => server["ble"] \/ stray

LEMMA ServersStart == ServersInit => ServersInv
BY DEF ServersInit, ServersInv, Servers, ThreadAlive

LEMMA ServersLoopStep ==
    ASSUME ServersInv, LoopStep
    PROVE  ServersInv'
<1>1. CASE ReaderJoined \/ TrySend \/ LoopSent \/ CloseTcpConnection
  BY <1>1 DEF ReaderJoined, TrySend, LoopSent, CloseTcpConnection, ServersInv, ThreadAlive, tcpVars
<1>2. CASE StopTcpServer
  BY <1>2 DEF StopTcpServer, ServersInv, ThreadAlive
<1>3. CASE Disconnected
  BY <1>3 DEF Disconnected, Joined, ServersInv, ThreadAlive
<1> QED BY <1>1, <1>2, <1>3 DEF LoopStep

LEMMA ServersThreadStep ==
    ASSUME ServersInv, NEW s \in Servers, Accept(s) \/ ThreadStep(s) \/ HangsUp(s)
    PROVE  ServersInv'
<1> USE DEF ServersInv, ThreadAlive, ThreadAt
<1>1. CASE Accept(s) \/ HangsUp(s)
  BY <1>1 DEF Accept, HangsUp
<1>2. CASE StoreClient(s) \/ RecvClient(s)
  BY <1>2 DEF StoreClient, RecvClient
<1>3. CASE LeaveClient(s)
  BY <1>3 DEF LeaveClient
<1>4. CASE AcceptFails(s)
  BY <1>4 DEF AcceptFails, Wakes
<1> QED BY <1>1, <1>2, <1>3, <1>4 DEF ThreadStep

LEMMA ServersStep == ServersInv /\ [ServersNext]_servers => ServersInv'
<1> SUFFICES ASSUME ServersInv, [ServersNext]_servers
             PROVE  ServersInv'
  OBVIOUS
<1>1. CASE UNCHANGED servers
  BY <1>1 DEF servers, tcpVars, ServersInv, ThreadAlive
<1>2. CASE BleStartServer
  BY <1>2 DEF BleStartServer, StartTcpServer, ServersInv, ThreadAlive
<1>3. CASE HidConnect
  BY <1>3 DEF HidConnect, StartTcpServer, ServersInv, ThreadAlive
<1>4. CASE HidDisconnect \/ BleStopServer \/ BroadcastBleNotification
  BY <1>4 DEF HidDisconnect, BleStopServer, BroadcastBleNotification, ServersInv, ThreadAlive
<1>5. ASSUME NEW w \in Listeners, OnWebsocket(w) \/ SendText(w) \/ WebsocketSink(w)
      PROVE  ServersInv'
  BY <1>5 DEF OnWebsocket, SendText, WebsocketSink, tcpVars, ServersInv, ThreadAlive
<1>6. CASE BarcodeRead \/ ReaderStep \/ Unplugged \/ UdevEvent
  BY <1>6 DEF BarcodeRead, ReaderStep, BarcodeLock, BarcodeSent, ReaderStops, Unplugged, UdevEvent, ServersInv, ThreadAlive
<1> QED BY <1>1, <1>2, <1>3, <1>4, <1>5, <1>6, ServersLoopStep, ServersThreadStep DEF ServersNext

(* When bleStopServer was answered the thread of the server has ended and its client *)
(* was let go, for any clients, notifications and starts, unless a start failed.      *)
THEOREM ServerStops == ServersSpec => []StoppedIsOver
<1>1. ServersInv => StoppedIsOver
  BY DEF ServersInv, ThreadAlive, StoppedIsOver
<1> QED BY <1>1, ServersStart, ServersStep, PTL DEF ServersSpec

-----------------------------------------------------------------------------
(***************************************************************************)
(* The controller and its devices.                                         *)
(***************************************************************************)
Props == {"powered", "transportFilter", "discoverable", "discovering"}
Text == STRING \cup {"unset", "on", "off"}
Settings == [Props -> Text]
Hci == {"none", "hci0", "hci1"}
Common == {"register", "remap", "introspect", "name"}
PutStages == Common \cup (Props \ {"powered"})
DeviceStages == Common \cup {"address", "find", "initialize", "create", "callConnect", "getConnected",
                             "callDisconnect", "callPair", "callRemoveDevice"}
(* What is left to do; the controller is not the last thing looked up. *)
Todos(S) == {todo \in Seq(S) : todo # <<>> /\ todo[Len(todo)] # "remap"}
PutJobs ==
    [op : {"put", "restore"}, dev : {""}, path : Hci, todo : Todos(PutStages), data : Settings]
DeviceJobs ==
    [op : DeviceOps \cup {"device restore", "ble"}, dev : BtDevices, path : Hci,
     todo : Todos(DeviceStages), data : Settings]
BtJobs == PutJobs \cup DeviceJobs

BtTyped ==
    /\ path \in Hci /\ actual \in Settings /\ states \in [Names -> Settings]
    /\ link \in [BtDevices -> {"absent", "known", "connected"}]
    /\ bt \in Nat /\ managed \in [BtDevices -> Nat]
    /\ objects \in Seq([dev : BtDevices, signal : BOOLEAN])
    /\ asked \in Seq([obj : Nat, what : {"callback", "resolved"}])
    /\ toRestore \subseteq BtDevices
    /\ scheduled \in [BtDevices -> Nat] /\ restored \in [BtDevices -> Nat]

(* The controller is powered as was commanded, or a restoration has not yet read what *)
(* it is to restore: it will command it again, in the step that reads it.             *)
Restoring(job, p) == job.op = "restore" /\ job.path = p /\ job.todo \in {<<"name", "introspect">>, <<"introspect">>}
PowerGood ==
    (path # "none" /\ ~lost /\ states["controller0"].powered # "unset") =>
        \/ actual.powered = states["controller0"].powered
        \/ bt > 0 /\ actual.powered = "on"
        \/ \E t \in 1 .. Len(jobs) : Restoring(jobs[t], path)

(* A managed device is connected, or the callback of its object, which will remove it *)
(* when it finds that it is not, is under way.                                         *)
Answered(k) == link[objects[k].dev] = "connected" \/ \E i \in 1 .. Len(asked) : asked[i] = [obj |-> k, what |-> "callback"]
ManagedGood ==
    /\ \A i \in 1 .. Len(asked) : asked[i].obj \in 1 .. Len(objects)
    /\ \A d \in BtDevices : managed[d] # 0 =>
          /\ managed[d] \in 1 .. Len(objects) /\ objects[managed[d]].dev = d
          /\ objects[managed[d]].signal => Answered(managed[d])

BtInv == jobs \in Seq(BtJobs) /\ BtTyped /\ PowerGood /\ RestoredOnce /\ ManagedGood

-----------------------------------------------------------------------------
LEMMA StagesAre == ToSet(AdapterStages) = Props /\ AdapterStages \in Seq(Props) /\ Len(AdapterStages) = 4
BY DEF ToSet, AdapterStages, Props

LEMMA SettingsAre ==
    /\ Unset \in Settings /\ AllOff \in Settings /\ AllOff.powered = "off"
    /\ \A data \in AdapterRequests : data \in Settings
<1>1. Unset \in Settings /\ AllOff \in Settings /\ AllOff.powered = "off"
  BY StagesAre DEF Unset, AllOff, Settings, Text, Props
<1>2. ASSUME NEW data \in AdapterRequests
      PROVE  data \in Settings
  BY StagesAre, BluetoothAssumption DEF Settings, Text
<1> QED BY <1>1, <1>2

(* Power comes first of what is called, if it is put, and nowhere else. *)
LEMMA CallsAre ==
    ASSUME NEW data \in Settings
    PROVE  /\ ToCall(data) \in Seq(Props) /\ Len(ToCall(data)) \in Nat
           /\ data.powered # "unset" => ToCall(data) # <<>> /\ Head(ToCall(data)) = "powered"
           /\ \A i \in 1 .. Len(ToCall(data)) : ToCall(data)[i] = "powered" => i = 1 /\ data.powered # "unset"
<1> DEFINE keep == {s \in DOMAIN data : Wanted(data)[s] # "unset"}
           list == ToCall(data)
<1>1. list = Filtered(AdapterStages, keep)
  BY DEF ToCall
<1>2. AdapterStages[1] = "powered" /\ Len(AdapterStages) = 4 /\ \A i \in 2 .. 4 : AdapterStages[i] # AdapterStages[1]
  BY DEF AdapterStages
<1>3. "powered" \in keep <=> data.powered # "unset"
  BY DEF Wanted, Settings, Props
<1> HIDE DEF keep, list
<1>4. list \in Seq(Props) /\ Len(list) \in Nat
  BY <1>1, StagesAre, FilteredIs, LenProperties
<1>5. /\ "powered" \in keep => list # <<>> /\ list[1] = "powered"
      /\ \A i \in 1 .. Len(list) : list[i] = "powered" => i = 1 /\ "powered" \in keep
  BY <1>1, <1>2, StagesAre, FilteredFirst
<1>6. list # <<>> => Head(list) = list[1]
  BY <1>4, HeadTailProperties
<1> QED BY <1>3, <1>4, <1>5, <1>6 DEF list

-----------------------------------------------------------------------------
(* The requests: the others stay when one begins, goes on or ends. *)
Same(i) == \E j \in 1 .. Len(jobs') : jobs'[j] = jobs[i]
OthersStay(t) == jobs' \in Seq(BtJobs) /\ \A i \in 1 .. Len(jobs) : i # t => Same(i)
AllStay == jobs' \in Seq(BtJobs) /\ \A i \in 1 .. Len(jobs) : Same(i)

LEMMA JobEnds ==
    ASSUME jobs \in Seq(BtJobs), NEW t \in 1 .. Len(jobs), jobs' = RemoveAt(jobs, t)
    PROVE  OthersStay(t)
<1>1. Len(jobs) \in Nat
  BY LenProperties
<1>2. /\ jobs' \in Seq(BtJobs) /\ Len(jobs') = Len(jobs) - 1
      /\ \A i \in 1 .. Len(jobs) - 1 : jobs'[i] = jobs[IF i < t THEN i ELSE i + 1]
  BY Removed
<1>3. ASSUME NEW i \in 1 .. Len(jobs), i # t
      PROVE  Same(i)
  <2>1. CASE i < t
    <3>1. i \in 1 .. Len(jobs')
      BY <1>1, <1>2, <2>1
    <3> QED BY <1>2, <2>1, <3>1 DEF Same
  <2>2. CASE i > t
    <3>1. i - 1 \in 1 .. Len(jobs') /\ ~(i - 1 < t) /\ (i - 1) + 1 = i
      BY <1>1, <1>2, <2>2
    <3> QED BY <1>2, <3>1 DEF Same
  <2> QED BY <1>3, <2>1, <2>2
<1> QED BY <1>2, <1>3 DEF OthersStay

LEMMA JobChanges ==
    ASSUME jobs \in Seq(BtJobs), NEW t \in 1 .. Len(jobs), NEW job \in BtJobs, jobs' = [jobs EXCEPT ![t] = job]
    PROVE  OthersStay(t) /\ Len(jobs') = Len(jobs) /\ jobs'[t] = job
<1>1. /\ jobs' \in Seq(BtJobs) /\ Len(jobs') = Len(jobs) /\ jobs'[t] = job
      /\ \A i \in 1 .. Len(jobs) : i # t => jobs'[i] = jobs[i]
  BY ExceptSeq
<1> QED BY <1>1 DEF OthersStay, Same

LEMMA JobBegins ==
    ASSUME jobs \in Seq(BtJobs), NEW job \in BtJobs, Begins(job)
    PROVE  AllStay /\ \E j \in 1 .. Len(jobs') : jobs'[j] = job
<1>1. /\ jobs' \in Seq(BtJobs) /\ Len(jobs') = Len(jobs) + 1 /\ jobs'[Len(jobs) + 1] = job
      /\ \A i \in 1 .. Len(jobs) : jobs'[i] = jobs[i]
  BY AppendProperties DEF Begins
<1>2. Len(jobs) \in Nat
  BY LenProperties
<1>3. Len(jobs) + 1 \in 1 .. Len(jobs') /\ \A i \in 1 .. Len(jobs) : i \in 1 .. Len(jobs')
  BY <1>1, <1>2
<1> QED BY <1>1, <1>3 DEF AllStay, Same

LEMMA JobGoes ==
    ASSUME jobs \in Seq(BtJobs), NEW t \in 1 .. Len(jobs), NEW todo,
           todo = <<>> \/ [jobs[t] EXCEPT !.todo = todo] \in BtJobs, Goes(t, todo)
    PROVE  OthersStay(t) /\ (todo # <<>> => t \in 1 .. Len(jobs') /\ jobs'[t] = [jobs[t] EXCEPT !.todo = todo])
<1>1. CASE todo = <<>>
  BY <1>1, JobEnds DEF Goes
<1>2. CASE todo # <<>>
  <2>1. jobs' = [jobs EXCEPT ![t] = [jobs[t] EXCEPT !.todo = todo]]
    BY <1>2 DEF Goes
  <2> QED BY <1>2, <2>1, JobChanges
<1> QED BY <1>1, <1>2

LEMMA TodoTail ==
    ASSUME NEW S, NEW todo \in Todos(S)
    PROVE  /\ todo \in Seq(S) /\ todo # <<>> /\ Head(todo) \in S
           /\ Tail(todo) # <<>> => Tail(todo) \in Todos(S)
           /\ Head(todo) = "remap" => Tail(todo) # <<>>
           /\ Tail(todo) = <<>> => Len(todo) = 1
<1>1. todo \in Seq(S) /\ todo # <<>> /\ todo[Len(todo)] # "remap"
  BY DEF Todos
<1>2. /\ Head(todo) \in S /\ Head(todo) = todo[1] /\ Tail(todo) \in Seq(S) /\ Len(Tail(todo)) = Len(todo) - 1
      /\ \A i \in 1 .. Len(Tail(todo)) : Tail(todo)[i] = todo[i + 1]
  BY <1>1, HeadTailProperties
<1>3. Len(todo) \in Nat /\ (Tail(todo) = <<>> <=> Len(Tail(todo)) = 0)
  BY <1>1, <1>2, LenProperties, EmptySeq
<1>4. Tail(todo) # <<>> => Len(todo) - 1 \in 1 .. Len(Tail(todo)) /\ (Len(todo) - 1) + 1 = Len(todo)
  BY <1>2, <1>3, <1>1
<1>5. Tail(todo) # <<>> => Tail(todo)[Len(Tail(todo))] = todo[Len(todo)]
  BY <1>2, <1>4
<1>6. Head(todo) = "remap" => Len(todo) # 1
  BY <1>1, <1>2
<1>7. Tail(todo) = <<>> => Len(todo) = 1
  BY <1>2, <1>3
<1> QED BY <1>1, <1>2, <1>5, <1>6, <1>7 DEF Todos

LEMMA TodoOf ==
    ASSUME NEW S, NEW todo \in Seq(S), todo # <<>>, "remap" \notin S
    PROVE  todo \in Todos(S)
<1>1. Len(todo) \in 1 .. Len(todo)
  BY LenProperties, EmptySeq
<1>2. todo[Len(todo)] \in S
  BY <1>1, ElementOfSeq
<1> QED BY <1>2 DEF Todos

LEMMA JobIs ==
    ASSUME jobs \in Seq(BtJobs), NEW t \in 1 .. Len(jobs)
    PROVE  /\ jobs[t] \in BtJobs /\ jobs[t].todo # <<>> /\ jobs[t].path \in Hci
           /\ IF jobs[t].op \in {"put", "restore"}
              THEN jobs[t] \in PutJobs /\ jobs[t].todo \in Todos(PutStages) /\ Head(jobs[t].todo) \in PutStages
              ELSE /\ jobs[t] \in DeviceJobs /\ jobs[t].todo \in Todos(DeviceStages)
                   /\ Head(jobs[t].todo) \in DeviceStages /\ jobs[t].dev \in BtDevices
<1>1. jobs[t] \in BtJobs
  BY ElementOfSeq
<1>2. CASE jobs[t] \in PutJobs
  <2>1. jobs[t].op \in {"put", "restore"} /\ jobs[t].todo \in Todos(PutStages) /\ jobs[t].path \in Hci
    BY <1>2 DEF PutJobs
  <2> QED BY <1>1, <1>2, <2>1, TodoTail
<1>3. CASE jobs[t] \in DeviceJobs
  <2>1. /\ jobs[t].op \in DeviceOps \cup {"device restore", "ble"} /\ jobs[t].todo \in Todos(DeviceStages)
        /\ jobs[t].path \in Hci /\ jobs[t].dev \in BtDevices
    BY <1>3 DEF DeviceJobs
  <2>2. jobs[t].op \notin {"put", "restore"}
    BY <2>1 DEF DeviceOps
  <2> QED BY <1>1, <1>3, <2>1, <2>2, TodoTail
<1> QED BY <1>1, <1>2, <1>3 DEF BtJobs

LEMMA PutJobIs ==
    ASSUME NEW job \in PutJobs, NEW todo \in Todos(PutStages)
    PROVE  [job EXCEPT !.todo = todo] \in BtJobs
BY DEF PutJobs, BtJobs

LEMMA DeviceJobIs ==
    ASSUME NEW job \in DeviceJobs, NEW todo \in Todos(DeviceStages)
    PROVE  [job EXCEPT !.todo = todo] \in BtJobs
BY DEF DeviceJobs, BtJobs

LEMMA JobShortens ==
    ASSUME jobs \in Seq(BtJobs), NEW t \in 1 .. Len(jobs)
    PROVE  Tail(jobs[t].todo) = <<>> \/ [jobs[t] EXCEPT !.todo = Tail(jobs[t].todo)] \in BtJobs
<1>1. CASE jobs[t].op \in {"put", "restore"}
  BY <1>1, JobIs, TodoTail, PutJobIs
<1>2. CASE jobs[t].op \notin {"put", "restore"}
  BY <1>2, JobIs, TodoTail, DeviceJobIs
<1> QED BY <1>1, <1>2

LEMMA JobAdvances ==
    ASSUME jobs \in Seq(BtJobs), NEW t \in 1 .. Len(jobs), Advances(t)
    PROVE  /\ OthersStay(t)
           /\ Tail(jobs[t].todo) # <<>> =>
                t \in 1 .. Len(jobs') /\ jobs'[t] = [jobs[t] EXCEPT !.todo = Tail(jobs[t].todo)]
BY JobShortens, JobGoes DEF Advances

LEMMA JobOver ==
    ASSUME jobs \in Seq(BtJobs), NEW t \in 1 .. Len(jobs), Ends(t)
    PROVE  OthersStay(t)
BY JobGoes DEF Ends

(* A request at another stage than a restoration that has read nothing is none. *)
LEMMA NotRestoring ==
    ASSUME NEW t, jobs[t].op # "restore" \/ Head(jobs[t].todo) \notin {"name", "introspect"}
    PROVE  ~Restoring(jobs[t], path)
BY DEF Restoring

-----------------------------------------------------------------------------
(* What a step leaves alone. *)
LEMMA RestoredStays ==
    ASSUME RestoredOnce, UNCHANGED <<toRestore, scheduled, restored>>
    PROVE  RestoredOnce'
BY DEF RestoredOnce

LEMMA ManagedStays ==
    ASSUME ManagedGood, UNCHANGED <<link, managed, objects, asked>>
    PROVE  ManagedGood'
BY DEF ManagedGood, Answered

LEMMA PowerStays ==
    ASSUME PowerGood, path' = path, lost => lost', states'["controller0"].powered = states["controller0"].powered,
           actual'.powered = actual.powered, bt' = bt,
           \A i \in 1 .. Len(jobs) : Restoring(jobs[i], path) => Same(i)
    PROVE  PowerGood'
<1> SUFFICES ASSUME path # "none", ~lost, states["controller0"].powered # "unset",
                    actual.powered # states["controller0"].powered, ~(bt > 0 /\ actual.powered = "on")
             PROVE  \E t \in 1 .. Len(jobs') : Restoring(jobs'[t], path')
  BY DEF PowerGood
<1>1. PICK t \in 1 .. Len(jobs) : Restoring(jobs[t], path)
  BY DEF PowerGood
<1>2. PICK j \in 1 .. Len(jobs') : jobs'[j] = jobs[t]
  BY <1>1 DEF Same
<1> QED BY <1>1, <1>2 DEF Restoring

LEMMA Aside ==
    ASSUME BtInv, jobs' \in Seq(BtJobs), \A i \in 1 .. Len(jobs) : Restoring(jobs[i], path) => Same(i),
           UNCHANGED <<path, actual, states, link, bt, managed, objects, asked, toRestore, scheduled, restored, lost>>
    PROVE  BtInv'
<1>1. BtTyped'
  BY DEF BtInv, BtTyped
<1>2. PowerGood'
  BY PowerStays DEF BtInv
<1>3. RestoredOnce' /\ ManagedGood'
  BY RestoredStays, ManagedStays DEF BtInv
<1> QED BY <1>1, <1>2, <1>3 DEF BtInv

LEMMA AsideOthers ==
    ASSUME BtInv, NEW t \in 1 .. Len(jobs), OthersStay(t), ~Restoring(jobs[t], path),
           UNCHANGED <<path, actual, states, link, bt, managed, objects, asked, toRestore, scheduled, restored, lost>>
    PROVE  BtInv'
BY Aside DEF OthersStay

LEMMA AsideAll ==
    ASSUME BtInv, AllStay,
           UNCHANGED <<path, actual, states, link, bt, managed, objects, asked, toRestore, scheduled, restored, lost>>
    PROVE  BtInv'
BY Aside DEF AllStay

-----------------------------------------------------------------------------
(* What the Device objects ask. *)
Questions == [obj : Nat, what : {"callback", "resolved"}]

LEMMA AsksAre ==
    ASSUME BtTyped, NEW ds, NEW what \in {"callback", "resolved"}
    PROVE  /\ Asks(ds, what) \in Seq(Questions)
           /\ \A i \in 1 .. Len(Asks(ds, what)) : Asks(ds, what)[i].obj \in 1 .. Len(objects)
           /\ \A k \in Hearing(ds) : \E i \in 1 .. Len(Asks(ds, what)) : Asks(ds, what)[i] = [obj |-> k, what |-> what]
<1> DEFINE all == [k \in DOMAIN objects |-> [obj |-> k, what |-> what]]
           keep == {[obj |-> k, what |-> what] : k \in Hearing(ds)}
           list == Asks(ds, what)
<1>1. Len(objects) \in Nat /\ DOMAIN objects = 1 .. Len(objects)
  BY LenProperties DEF BtTyped
<1>2. /\ all \in Seq(Questions) /\ Len(all) = Len(objects)
      /\ \A k \in 1 .. Len(objects) : all[k] = [obj |-> k, what |-> what]
  <2>1. all = [k \in 1 .. Len(objects) |-> [obj |-> k, what |-> what]]
    BY <1>1
  <2>2. \A k \in 1 .. Len(objects) : [obj |-> k, what |-> what] \in Questions
    BY <1>1 DEF Questions
  <2> QED BY <1>1, <2>1, <2>2
<1>3. list = Filtered(all, keep)
  BY DEF Asks
<1>4. Hearing(ds) \subseteq 1 .. Len(objects)
  BY <1>1 DEF Hearing
<1>5. \A k \in Hearing(ds) : [obj |-> k, what |-> what] \in keep
  OBVIOUS
<1> HIDE DEF all, keep, list
<1>6. /\ list \in Seq(Questions)
      /\ \A i \in 1 .. Len(list) : list[i] \in keep /\ \E j \in 1 .. Len(all) : all[j] = list[i]
      /\ \A j \in 1 .. Len(all) : all[j] \in keep => \E i \in 1 .. Len(list) : list[i] = all[j]
  BY <1>2, <1>3, FilteredIs
<1>7. ASSUME NEW i \in 1 .. Len(list)
      PROVE  list[i].obj \in 1 .. Len(objects)
  <2>1. PICK j \in 1 .. Len(all) : all[j] = list[i]
    BY <1>6
  <2>2. j \in 1 .. Len(objects) /\ list[i] = [obj |-> j, what |-> what]
    BY <1>2, <2>1
  <2> QED BY <2>2
<1>8. ASSUME NEW k \in Hearing(ds)
      PROVE  \E i \in 1 .. Len(list) : list[i] = [obj |-> k, what |-> what]
  <2>1. k \in 1 .. Len(all) /\ all[k] = [obj |-> k, what |-> what] /\ all[k] \in keep
    BY <1>2, <1>4, <1>5
  <2> QED BY <1>6, <2>1
<1> QED BY <1>6, <1>7, <1>8 DEF list

(* When devices drop their Device objects ask of it, those that hear them. *)
LEMMA ManagedAsks ==
    ASSUME BtTyped, ManagedGood, NEW ds, NEW what \in {"callback", "resolved"}, asked' = asked \o Asks(ds, what),
           \A d \in BtDevices : link[d] = "connected" => link'[d] = "connected" \/ (what = "callback" /\ d \in ds),
           UNCHANGED <<managed, objects>>
    PROVE  ManagedGood' /\ asked' \in Seq(Questions)
<1> DEFINE more == Asks(ds, what)
           m == Len(asked)
           n == Len(more)
<1>1. more \in Seq(Questions) /\ asked \in Seq(Questions) /\ \A i \in 1 .. n : more[i].obj \in 1 .. Len(objects)
  BY AsksAre DEF BtTyped, Questions
<1>2. \A k \in Hearing(ds) : \E i \in 1 .. n : more[i] = [obj |-> k, what |-> what]
  BY AsksAre
<1> HIDE DEF more
<1>3. m \in Nat /\ n \in Nat
  BY <1>1, LenProperties
<1>4. /\ asked' \in Seq(Questions) /\ Len(asked') = m + n
      /\ \A i \in 1 .. m + n : asked'[i] = IF i <= m THEN asked[i] ELSE more[i - m]
  BY <1>1, ConcatProperties DEF more
<1> HIDE DEF m, n
<1>5. /\ \A i \in 1 .. m : i \in 1 .. Len(asked') /\ asked'[i] = asked[i]
      /\ \A i \in 1 .. n : m + i \in 1 .. Len(asked') /\ asked'[m + i] = more[i]
  <2>1. ASSUME NEW i \in 1 .. m
        PROVE  i \in 1 .. Len(asked') /\ asked'[i] = asked[i]
    BY <1>3, <1>4
  <2>2. ASSUME NEW i \in 1 .. n
        PROVE  m + i \in 1 .. Len(asked') /\ asked'[m + i] = more[i]
    <3>1. m + i \in 1 .. m + n /\ ~(m + i <= m) /\ (m + i) - m = i
      BY <1>3
    <3> QED BY <1>4, <3>1
  <2> QED BY <2>1, <2>2
<1>6. ASSUME NEW i \in 1 .. Len(asked')
      PROVE  asked'[i].obj \in 1 .. Len(objects')
  <2>1. CASE i <= m
    <3>1. i \in 1 .. m /\ asked'[i] = asked[i]
      BY <1>3, <1>4, <2>1
    <3> QED BY <3>1 DEF ManagedGood, m
  <2>2. CASE i > m
    <3>1. i - m \in 1 .. n /\ asked'[i] = more[i - m]
      BY <1>3, <1>4, <2>2
    <3> QED BY <1>1, <3>1
  <2> QED BY <1>3, <1>4, <2>1, <2>2
<1>7. ASSUME NEW d \in BtDevices, managed[d] # 0, objects[managed[d]].signal
      PROVE  Answered(managed[d])'
  <2> DEFINE k == managed[d]
  <2>1. k \in 1 .. Len(objects) /\ objects[k].dev = d /\ Answered(k)
    BY <1>7 DEF ManagedGood
  <2>2. CASE link[d] = "connected"
    <3>1. CASE link'[d] = "connected"
      BY <2>1, <3>1 DEF Answered
    <3>2. CASE what = "callback" /\ d \in ds
      <4>1. k \in Hearing(ds)
        BY <1>7, <2>1, <3>2, LenProperties DEF Hearing, BtTyped
      <4> QED BY <1>2, <1>5, <3>2, <4>1 DEF Answered
    <3> QED BY <2>2, <3>1, <3>2
  <2>3. CASE \E i \in 1 .. Len(asked) : asked[i] = [obj |-> k, what |-> "callback"]
    BY <1>5, <2>3 DEF Answered, m
  <2> QED BY <2>1, <2>2, <2>3 DEF Answered
<1>8. ASSUME NEW d \in BtDevices, managed'[d] # 0
      PROVE  /\ managed'[d] \in 1 .. Len(objects') /\ objects'[managed'[d]].dev = d
             /\ objects'[managed'[d]].signal => Answered(managed[d])'
  BY <1>7, <1>8 DEF ManagedGood
<1> QED BY <1>4, <1>6, <1>8 DEF ManagedGood

LEMMA ManagedLinks ==
    ASSUME ManagedGood, \A d \in BtDevices : link[d] = "connected" => link'[d] = "connected",
           UNCHANGED <<managed, objects, asked>>
    PROVE  ManagedGood'
<1>1. ASSUME NEW d \in BtDevices, managed[d] # 0, objects[managed[d]].signal
      PROVE  Answered(managed[d])'
  BY <1>1 DEF ManagedGood, Answered
<1> QED BY <1>1 DEF ManagedGood

LEMMA ManagedDrops ==
    ASSUME BtTyped, ManagedGood, NEW d \in BtDevices, NEW to \in {"absent", "known"}, Drops(d, to), UNCHANGED <<managed, objects>>
    PROVE  /\ ManagedGood' /\ asked' \in Seq(Questions)
           /\ link' \in [BtDevices -> {"absent", "known", "connected"}]
<1>1. link' \in [BtDevices -> {"absent", "known", "connected"}] /\ \A e \in BtDevices : e # d => link'[e] = link[e]
  BY DEF Drops, BtTyped
<1>2. CASE link[d] = "connected"
  <2>1. asked' = asked \o Asks({d}, "callback")
    BY <1>2 DEF Drops, DisconnectHeard
  <2> QED BY <1>1, <2>1, ManagedAsks
<1>3. CASE link[d] # "connected"
  <2>1. asked' = asked
    BY <1>3 DEF Drops, DisconnectHeard
  <2> QED BY <1>1, <1>3, <2>1, ManagedLinks DEF BtTyped, Questions
<1> QED BY <1>2, <1>3

(* What the head of the list asked is answered, and the others wait. *)
LEMMA AskedTail ==
    ASSUME BtTyped, asked # <<>>
    PROVE  /\ Head(asked) \in Questions /\ Head(asked) = asked[1] /\ 1 \in 1 .. Len(asked)
           /\ Tail(asked) \in Seq(Questions) /\ Len(Tail(asked)) = Len(asked) - 1 /\ Len(asked) \in Nat \ {0}
           /\ \A i \in 1 .. Len(asked) : i # 1 => i - 1 \in 1 .. Len(Tail(asked)) /\ Tail(asked)[i - 1] = asked[i]
           /\ \A i \in 1 .. Len(Tail(asked)) : i + 1 \in 1 .. Len(asked) /\ Tail(asked)[i] = asked[i + 1]
<1>1. asked \in Seq(Questions)
  BY DEF BtTyped, Questions
<1>2. /\ Head(asked) \in Questions /\ Head(asked) = asked[1] /\ Len(asked) \in Nat \ {0}
      /\ Tail(asked) \in Seq(Questions) /\ Len(Tail(asked)) = Len(asked) - 1
      /\ \A i \in 1 .. Len(Tail(asked)) : Tail(asked)[i] = asked[i + 1]
  BY <1>1, HeadTailProperties, EmptySeq, LenProperties
<1> DEFINE n == Len(asked)
<1> HIDE DEF n
<1>3. n \in Nat \ {0} /\ Len(Tail(asked)) = n - 1
  BY <1>2 DEF n
<1>4. ASSUME NEW i \in 1 .. n, i # 1
      PROVE  i - 1 \in 1 .. n - 1 /\ (i - 1) + 1 = i
  BY <1>3, <1>4
<1>5. \A i \in 1 .. n - 1 : i + 1 \in 1 .. n
  BY <1>3
<1> QED BY <1>2, <1>3, <1>4, <1>5 DEF n

LEMMA ObjectsAre ==
    ASSUME BtTyped, NEW k \in 1 .. Len(objects)
    PROVE  objects[k] \in [dev : BtDevices, signal : BOOLEAN] /\ objects[k].dev \in BtDevices
<1>1. objects \in Seq([dev : BtDevices, signal : BOOLEAN])
  BY DEF BtTyped
<1>2. objects[k] \in [dev : BtDevices, signal : BOOLEAN]
  BY <1>1, ElementOfSeq
<1> QED BY <1>2

LEMMA ManagedResolved ==
    ASSUME BtTyped, ManagedGood, PropertiesChanged
    PROVE  ManagedGood' /\ asked' \in Seq(Questions)
<1> DEFINE x == [Head(asked) EXCEPT !.what = "callback"]
           rest == Tail(asked)
<1>1. /\ asked # <<>> /\ Head(asked).what = "resolved" /\ asked' \in {rest, Append(rest, x)}
      /\ UNCHANGED <<link, managed, objects>>
  BY DEF PropertiesChanged, world
<1>2. /\ rest \in Seq(Questions) /\ x \in Questions /\ x.obj = asked[1].obj
  BY <1>1, AskedTail DEF Questions
<1>3. /\ asked' \in Seq(Questions) /\ Len(asked') \in {Len(rest), Len(rest) + 1}
      /\ \A i \in 1 .. Len(rest) : i \in 1 .. Len(asked') /\ asked'[i] = rest[i]
      /\ \A i \in 1 .. Len(asked') : i \in 1 .. Len(rest) \/ asked'[i] = x
  <2>1. CASE asked' = rest
    BY <1>2, <2>1
  <2>2. CASE asked' = Append(rest, x)
    <3>1. /\ asked' \in Seq(Questions) /\ Len(asked') = Len(rest) + 1 /\ Len(rest) \in Nat
          /\ \A i \in 1 .. Len(rest) : asked'[i] = rest[i] /\ asked'[Len(rest) + 1] = x
      BY <1>2, <2>2, AppendProperties, LenProperties
    <3>2. \A i \in 1 .. Len(asked') : i \in 1 .. Len(rest) \/ i = Len(rest) + 1
      BY <3>1
    <3>3. \A i \in 1 .. Len(rest) : i \in 1 .. Len(asked')
      BY <3>1
    <3>4. asked'[Len(rest) + 1] = x
      BY <1>2, <2>2, AppendProperties
    <3> QED BY <3>1, <3>2, <3>3, <3>4
  <2> QED BY <1>1, <2>1, <2>2
<1>4. ASSUME NEW i \in 1 .. Len(asked')
      PROVE  asked'[i].obj \in 1 .. Len(objects')
  <2>1. CASE asked'[i] = x
    BY <1>1, <1>2, <2>1, AskedTail DEF ManagedGood
  <2>2. CASE i \in 1 .. Len(rest)
    <3>1. i + 1 \in 1 .. Len(asked) /\ asked'[i] = asked[i + 1]
      BY <1>1, <1>3, <2>2, AskedTail
    <3> QED BY <1>1, <3>1 DEF ManagedGood
  <2> QED BY <1>3, <2>1, <2>2
<1>5. ASSUME NEW d \in BtDevices, managed[d] # 0, objects[managed[d]].signal
      PROVE  Answered(managed[d])'
  <2>1. CASE link[objects[managed[d]].dev] = "connected"
    BY <1>1, <2>1 DEF Answered
  <2>2. CASE \E i \in 1 .. Len(asked) : asked[i] = [obj |-> managed[d], what |-> "callback"]
    <3>1. PICK i \in 1 .. Len(asked) : asked[i] = [obj |-> managed[d], what |-> "callback"]
      BY <2>2
    <3>2. i # 1
      BY <1>1, <3>1, AskedTail
    <3>3. i - 1 \in 1 .. Len(rest) /\ rest[i - 1] = asked[i]
      BY <1>1, <3>2, AskedTail
    <3> QED BY <1>1, <1>3, <3>1, <3>3 DEF Answered
  <2> QED BY <1>5, <2>1, <2>2 DEF ManagedGood, Answered
<1> QED BY <1>1, <1>3, <1>4, <1>5 DEF ManagedGood

LEMMA ManagedAnswers ==
    ASSUME BtTyped, ManagedGood, MgrConnectionCallback
    PROVE  /\ ManagedGood' /\ asked' \in Seq(Questions) /\ managed' \in [BtDevices -> Nat]
           /\ objects' \in Seq([dev : BtDevices, signal : BOOLEAN])
<1> DEFINE k == Head(asked).obj
           d == objects[k].dev
           dropped == [objects[k] EXCEPT !.signal = FALSE]
<1>1. /\ asked # <<>> /\ asked' = Tail(asked) /\ UNCHANGED link
      /\ IF link[d] = "connected"
         THEN managed' = [managed EXCEPT ![d] = k] /\ UNCHANGED objects
         ELSE managed' = [managed EXCEPT ![d] = 0] /\ objects' = [objects EXCEPT ![k] = dropped]
  BY DEF MgrConnectionCallback, world
<1>2. k \in 1 .. Len(objects) /\ k \in Nat /\ asked[1].obj = k
  BY <1>1, AskedTail DEF ManagedGood, Questions
<1>3. d \in BtDevices /\ objects[k] \in [dev : BtDevices, signal : BOOLEAN]
  BY <1>2, ObjectsAre
<1>4. dropped \in [dev : BtDevices, signal : BOOLEAN] /\ dropped.dev = d /\ ~dropped.signal
  BY <1>3
<1>5. /\ objects' \in Seq([dev : BtDevices, signal : BOOLEAN]) /\ Len(objects') = Len(objects)
      /\ objects'[k].dev = d /\ \A i \in 1 .. Len(objects) : i # k => objects'[i] = objects[i]
  <2>1. CASE link[d] = "connected"
    BY <1>1, <2>1 DEF BtTyped
  <2>2. CASE link[d] # "connected"
    <3>1. objects \in Seq([dev : BtDevices, signal : BOOLEAN]) /\ objects' = [objects EXCEPT ![k] = dropped]
      BY <1>1, <2>2 DEF BtTyped
    <3> HIDE DEF dropped, k, d
    <3>2. /\ objects' \in Seq([dev : BtDevices, signal : BOOLEAN]) /\ Len(objects') = Len(objects) /\ objects'[k] = dropped
          /\ \A i \in 1 .. Len(objects) : i # k => objects'[i] = objects[i]
      BY <1>2, <1>4, <3>1, ExceptSeq
    <3> QED BY <1>4, <3>2
  <2> QED BY <2>1, <2>2
<1>6. managed' \in [BtDevices -> Nat] /\ managed'[d] \in {0, k} /\ \A e \in BtDevices : e # d => managed'[e] = managed[e]
  <2>1. managed \in [BtDevices -> Nat] /\ managed' \in {[managed EXCEPT ![d] = k], [managed EXCEPT ![d] = 0]}
    BY <1>1 DEF BtTyped
  <2> HIDE DEF k, d
  <2> QED BY <1>2, <1>3, <2>1
<1>7. managed'[d] # 0 => link'[d] = "connected"
  BY <1>1, <1>3 DEF BtTyped
<1> HIDE DEF k, d, dropped
<1>8. ASSUME NEW i \in 1 .. Len(asked')
      PROVE  asked'[i].obj \in 1 .. Len(objects')
  <2>1. i + 1 \in 1 .. Len(asked) /\ asked'[i] = asked[i + 1]
    BY <1>1, AskedTail
  <2> QED BY <1>5, <2>1 DEF ManagedGood
<1>9. ASSUME NEW e \in BtDevices, managed'[e] # 0
      PROVE  /\ managed'[e] \in 1 .. Len(objects') /\ objects'[managed'[e]].dev = e
             /\ objects'[managed'[e]].signal => Answered(managed[e])'
  <2>1. CASE e = d
    BY <1>2, <1>5, <1>6, <1>7, <1>9, <2>1 DEF Answered
  <2>2. CASE e # d
    <3> DEFINE l == managed[e]
    <3>1. managed'[e] = l /\ l \in 1 .. Len(objects) /\ objects[l].dev = e /\ (objects[l].signal => Answered(l))
      BY <1>6, <1>9, <2>2 DEF ManagedGood
    <3>2. l # k
      BY <2>2, <3>1 DEF d
    <3>3. objects'[l] = objects[l] /\ l \in 1 .. Len(objects')
      BY <1>5, <3>1, <3>2
    <3>4. ASSUME NEW i \in 1 .. Len(asked), asked[i] = [obj |-> l, what |-> "callback"]
          PROVE  \E j \in 1 .. Len(asked') : asked'[j] = [obj |-> l, what |-> "callback"]
      <4>1. i # 1
        BY <1>2, <3>2, <3>4
      <4> QED BY SMTT(60), <1>1, <3>4, <4>1, AskedTail
    <3> QED BY <1>1, <3>1, <3>3, <3>4 DEF Answered
  <2> QED BY <2>1, <2>2
<1> QED BY <1>1, <1>5, <1>6, <1>8, <1>9, AskedTail DEF ManagedGood

LEMMA ManagedCreates ==
    ASSUME BtTyped, ManagedGood, NEW x \in [dev : BtDevices, signal : BOOLEAN], objects' = Append(objects, x),
           UNCHANGED <<link, managed, asked>>
    PROVE  ManagedGood' /\ objects' \in Seq([dev : BtDevices, signal : BOOLEAN])
<1>1. /\ objects' \in Seq([dev : BtDevices, signal : BOOLEAN]) /\ Len(objects') = Len(objects) + 1
      /\ \A i \in 1 .. Len(objects) : objects'[i] = objects[i]
  BY AppendProperties DEF BtTyped
<1>2. \A i \in 1 .. Len(objects) : i \in 1 .. Len(objects')
  BY <1>1, LenProperties DEF BtTyped
<1>3. \A k \in 1 .. Len(objects) : Answered(k) => Answered(k)'
  BY <1>1 DEF Answered
<1>4. ASSUME NEW d \in BtDevices, managed'[d] # 0
      PROVE  /\ managed'[d] \in 1 .. Len(objects') /\ objects'[managed'[d]].dev = d
             /\ objects'[managed'[d]].signal => Answered(managed[d])'
  BY <1>1, <1>2, <1>3, <1>4 DEF ManagedGood
<1> QED BY <1>1, <1>2, <1>4 DEF ManagedGood

-----------------------------------------------------------------------------
(* Requests, and the steps that concern neither the controller nor a connection. *)
LEMMA BtStart == BtInit => BtInv
<1> SUFFICES ASSUME BtInit
             PROVE  BtInv
  OBVIOUS
<1>1. BtTyped
  BY SettingsAre DEF BtInit, BtTyped, Hci, Names
<1>2. PowerGood /\ RestoredOnce /\ ManagedGood
  BY DEF BtInit, PowerGood, RestoredOnce, ManagedGood, Unset, AdapterStages, ToSet, Names
<1>3. jobs \in Seq(BtJobs)
  BY DEF BtInit
<1> QED BY <1>1, <1>2, <1>3 DEF BtInv

LEMMA TodoAfter ==
    ASSUME NEW S, NEW first \in Seq(S), NEW last \in Todos(S)
    PROVE  first \o last \in Todos(S)
<1> DEFINE all == first \o last
           m == Len(first)
           n == Len(last)
<1>1. last \in Seq(S) /\ last # <<>> /\ last[n] # "remap"
  BY DEF Todos
<1>2. m \in Nat /\ n \in Nat \ {0}
  BY <1>1, LenProperties, EmptySeq
<1>3. /\ all \in Seq(S) /\ Len(all) = m + n
      /\ \A i \in 1 .. m + n : all[i] = IF i <= m THEN first[i] ELSE last[i - m]
  BY <1>1, ConcatProperties
<1> HIDE DEF all, m, n
<1>4. m + n \in 1 .. m + n /\ ~(m + n <= m) /\ (m + n) - m = n
  BY <1>2
<1>5. all # <<>>
  BY <1>2, <1>3, EmptySeq
<1>6. all[m + n] = last[n]
  BY <1>3, <1>4
<1> QED BY <1>1, <1>3, <1>5, <1>6 DEF all, Todos

LEMMA PutTodo ==
    ASSUME NEW S, {"register", "remap", "introspect"} \subseteq S,
           NEW todo, todo = <<>> \/ (todo = <<"find">> /\ "find" \in S)
    PROVE  ToRegister \o <<"remap", "introspect">> \o todo \in Todos(S)
<1>1. ToRegister \in Seq(S)
  BY DEF ToRegister
<1>2. <<"remap", "introspect">> \in Todos(S)
  BY DEF Todos
<1>3. ToRegister \o <<"remap", "introspect">> \in Todos(S)
  BY <1>1, <1>2, TodoAfter
<1>4. CASE todo = <<>>
  BY <1>3, <1>4, ConcatEmptySeq DEF Todos
<1>5. CASE todo = <<"find">> /\ "find" \in S
  <2>1. todo \in Todos(S)
    BY <1>5 DEF Todos
  <2> QED BY <1>3, <2>1, TodoAfter DEF Todos
<1> QED BY <1>4, <1>5

LEMMA MakeTodo ==
    /\ ToMake \o <<"create", "callConnect">> \in Todos(DeviceStages)
    /\ <<"callConnect">> \in Todos(DeviceStages) /\ <<"callRemoveDevice">> \in Todos(DeviceStages)
    /\ <<"name", "find">> \in Todos(DeviceStages) /\ <<"address">> \in Todos(DeviceStages)
<1>1. ToMake \in Seq(DeviceStages)
  <2>1. "initialize" \in DeviceStages
    BY DEF DeviceStages
  <2> QED BY <2>1 DEF ToMake
<1>2. <<"create", "callConnect">> \in Todos(DeviceStages)
  BY DEF Todos, DeviceStages
<1>3. <<"callConnect">> \in Todos(DeviceStages) /\ <<"callRemoveDevice">> \in Todos(DeviceStages)
  BY DEF Todos, DeviceStages
<1>4. <<"name", "find">> \in Todos(DeviceStages) /\ <<"address">> \in Todos(DeviceStages)
  BY DEF Todos, DeviceStages, Common
<1> QED BY <1>1, <1>2, <1>3, <1>4, TodoAfter

LEMMA BtPuts ==
    ASSUME BtInv, NEW op, NEW d, NEW todo, NEW data, PutBegins(op, d, todo, data),
           Job(op, d, "none", ToRegister \o <<"remap", "introspect">> \o todo, data) \in BtJobs
    PROVE  BtInv'
<1>1. AllStay
  BY JobBegins DEF PutBegins, BtInv
<1> QED BY <1>1, AsideAll DEF PutBegins, world, manager

LEMMA BtRequests == BtInv /\ BtRequest => BtInv'
<1> SUFFICES ASSUME BtInv, BtRequest
             PROVE  BtInv'
  OBVIOUS
<1>1. CASE Setup
  BY <1>1, Aside DEF Setup, world, manager, Same, BtInv
<1>2. ASSUME NEW data \in AdapterRequests, HandlePutController(data)
      PROVE  BtInv'
  <2>1. {"register", "remap", "introspect"} \subseteq PutStages
    BY DEF PutStages, Common
  <2>2. ToRegister \o <<"remap", "introspect">> \o <<>> \in Todos(PutStages)
    BY <2>1, PutTodo
  <2>3. Job("put", "", "none", ToRegister \o <<"remap", "introspect">> \o <<>>, data) \in PutJobs
    BY <2>2, SettingsAre DEF Job, PutJobs, Hci
  <2> QED BY <1>2, <2>3, BtPuts DEF HandlePutController, BtJobs
<1>3. ASSUME NEW d \in BtDevices, NEW want \in DeviceOps, HandlePutDevice(d, want)
      PROVE  BtInv'
  <2>1. ToRegister \o <<"remap", "introspect">> \o <<"find">> \in Todos(DeviceStages)
    BY PutTodo DEF DeviceStages, Common
  <2>2. Job(want, d, "none", ToRegister \o <<"remap", "introspect">> \o <<"find">>, Unset) \in DeviceJobs
    BY <2>1, SettingsAre DEF Job, DeviceJobs, Hci
  <2> QED BY <1>3, <2>2, BtPuts DEF HandlePutDevice, BtJobs
<1>4. ASSUME NEW d \in BtDevices, NEW todo, todo \in {ToMake \o <<"create", "callConnect">>, <<"callRemoveDevice">>},
             Begins(Job("ble", d, path, todo, Unset)), UNCHANGED <<service, world, manager>>
      PROVE  BtInv'
  <2>1. todo \in Todos(DeviceStages)
    BY <1>4, MakeTodo
  <2>2. Job("ble", d, path, todo, Unset) \in BtJobs
    BY <2>1, SettingsAre DEF Job, DeviceJobs, BtJobs, BtInv, BtTyped
  <2>3. AllStay
    BY <1>4, <2>2, JobBegins DEF BtInv
  <2> QED BY <1>4, <2>3, AsideAll DEF service, world, manager
<1>5. ASSUME NEW d \in BtDevices, BleConnect(d) \/ BleDisconnect(d)
      PROVE  BtInv'
  BY <1>4, <1>5 DEF BleConnect, BleDisconnect
<1> QED BY <1>1, <1>2, <1>3, <1>5 DEF BtRequest

LEMMA BtLookups ==
    ASSUME BtInv, NEW t \in 1 .. Len(jobs),
           \/ RegisterControllerCallbacks(t) \/ GetRemappedController(t) \/ GetControllerObj(t)
           \/ FindDeviceOf(t) \/ CallPair(t) \/ GetConnected(t)
    PROVE  BtInv'
<1> USE DEF At
<1>0. jobs \in Seq(BtJobs)
  BY DEF BtInv
<1>1. CASE RegisterControllerCallbacks(t)
  <2>1. ~Restoring(jobs[t], path)
    BY <1>1, NotRestoring DEF RegisterControllerCallbacks
  <2> QED BY <1>0, <1>1, <2>1, JobAdvances, AsideOthers DEF RegisterControllerCallbacks, world, manager
<1>2. CASE GetRemappedController(t)
  <2>1. ~Restoring(jobs[t], path)
    BY <1>2, NotRestoring DEF GetRemappedController
  <2>2. CASE Ends(t)
    BY <1>0, <1>2, <2>1, <2>2, JobOver, AsideOthers DEF GetRemappedController, service, world, manager
  <2>3. CASE ~Ends(t)
    <3> DEFINE job == [jobs[t] EXCEPT !.path = path, !.todo = Tail(jobs[t].todo)]
    <3>1. jobs' = [jobs EXCEPT ![t] = job]
      BY <1>2, <2>3 DEF GetRemappedController
    <3>2. path \in Hci /\ Tail(jobs[t].todo) # <<>>
      BY <1>0, <1>2, JobIs, TodoTail DEF GetRemappedController, BtInv, BtTyped
    <3>3. job \in BtJobs
      <4>1. CASE jobs[t].op \in {"put", "restore"}
        <5>1. jobs[t] \in PutJobs /\ Tail(jobs[t].todo) \in Todos(PutStages)
          BY <1>0, <3>2, <4>1, JobIs, TodoTail
        <5> QED BY <3>2, <5>1 DEF PutJobs, BtJobs
      <4>2. CASE jobs[t].op \notin {"put", "restore"}
        <5>1. jobs[t] \in DeviceJobs /\ Tail(jobs[t].todo) \in Todos(DeviceStages)
          BY <1>0, <3>2, <4>2, JobIs, TodoTail
        <5> QED BY <3>2, <5>1 DEF DeviceJobs, BtJobs
      <4> QED BY <4>1, <4>2
    <3> HIDE DEF job
    <3>4. OthersStay(t)
      BY <1>0, <3>1, <3>3, JobChanges
    <3> QED BY <1>2, <2>1, <3>4, AsideOthers DEF GetRemappedController, service, world, manager
  <2> QED BY <2>2, <2>3
<1>3. CASE GetControllerObj(t)
  <2>1. ~Restoring(jobs[t], path)
    BY <1>3, NotRestoring DEF GetControllerObj, DeviceOps
  <2>2. OthersStay(t)
    BY <1>0, <1>3, JobAdvances, JobOver DEF GetControllerObj
  <2> QED BY <1>3, <2>1, <2>2, AsideOthers DEF GetControllerObj, service, world, manager
<1>4. CASE FindDeviceOf(t)
  <2>1. ~Restoring(jobs[t], path)
    BY <1>4, NotRestoring DEF FindDeviceOf
  <2>2. jobs[t] \in DeviceJobs
    BY <1>0, <1>4, JobIs DEF FindDeviceOf, PutStages, Common, Props
  <2>3. ASSUME NEW op
        PROVE  Calls(op) \in {<<>>} \cup Todos(DeviceStages)
    BY DEF Calls, Todos, DeviceStages, Common
  <2>4. OthersStay(t)
    BY <1>0, <1>4, <2>2, <2>3, DeviceJobIs, JobGoes, JobOver DEF FindDeviceOf
  <2> QED BY <1>4, <2>1, <2>4, AsideOthers DEF FindDeviceOf, world, manager
<1>5. CASE CallPair(t)
  <2>1. ~Restoring(jobs[t], path)
    BY <1>5, NotRestoring DEF CallPair
  <2> QED BY <1>0, <1>5, <2>1, JobOver, AsideOthers DEF CallPair, service, manager
<1>6. CASE GetConnected(t)
  <2>1. ~Restoring(jobs[t], path)
    BY <1>6, NotRestoring DEF GetConnected
  <2>2. jobs[t] \in DeviceJobs
    BY <1>0, <1>6, JobIs DEF GetConnected, PutStages, Common, Props
  <2>3. ToMake \o <<"create", "callConnect">> \in Todos(DeviceStages)
    BY MakeTodo
  <2>4. OthersStay(t)
    BY <1>0, <1>6, <2>2, <2>3, DeviceJobIs, JobGoes, JobOver DEF GetConnected
  <2> QED BY <1>6, <2>1, <2>4, AsideOthers DEF GetConnected, service, world, manager
<1> QED BY <1>1, <1>2, <1>3, <1>4, <1>5, <1>6

-----------------------------------------------------------------------------
(* The calls to the controller. *)
LEMMA RememberedIs ==
    ASSUME NEW state \in Settings, NEW data \in Settings
    PROVE  /\ Remembered(state, data) \in Settings
           /\ Remembered(state, data).powered = IF data.powered # "unset" THEN data.powered ELSE state.powered
BY DEF Remembered, Settings, Props

LEMMA ScheduledKeeps ==
    ASSUME BtTyped, RestoredOnce, NEW t, Scheduled(t) \/ UNCHANGED <<toRestore, scheduled>>, UNCHANGED restored
    PROVE  RestoredOnce' /\ toRestore' \subseteq BtDevices /\ scheduled' \in [BtDevices -> Nat]
<1>1. CASE UNCHANGED <<toRestore, scheduled>>
  BY <1>1 DEF RestoredOnce, BtTyped
<1>2. CASE jobs[t].op = "restore" /\ Scheduled(t)
  <2> DEFINE back == CommandedDevices
  <2>1. /\ toRestore' = toRestore \cup back
        /\ scheduled' = [d \in BtDevices |-> scheduled[d] + IF d \in back \ toRestore THEN 1 ELSE 0]
    BY <1>2 DEF Scheduled
  <2>2. back \subseteq BtDevices
    BY DEF CommandedDevices
  <2> HIDE DEF back
  <2>3. scheduled' \in [BtDevices -> Nat]
    BY <2>1 DEF BtTyped
  <2>4. ASSUME NEW d \in BtDevices
        PROVE  restored'[d] + (IF d \in toRestore' THEN 1 ELSE 0) <= scheduled'[d]
    <3>1. /\ restored[d] \in Nat /\ scheduled[d] \in Nat /\ restored'[d] = restored[d]
          /\ restored[d] + (IF d \in toRestore THEN 1 ELSE 0) <= scheduled[d]
      BY DEF BtTyped, RestoredOnce
    <3>2. scheduled'[d] = scheduled[d] + IF d \in back \ toRestore THEN 1 ELSE 0
      BY <2>1
    <3> QED BY <2>1, <3>1, <3>2
  <2> QED BY <2>1, <2>2, <2>3, <2>4 DEF RestoredOnce, BtTyped
<1>3. CASE jobs[t].op # "restore" /\ Scheduled(t)
  BY <1>1, <1>3 DEF Scheduled
<1> QED BY <1>1, <1>2, <1>3

LEMMA StatesSet ==
    ASSUME NEW state \in [Names -> Settings], NEW n \in Names, NEW v \in Text
    PROVE  /\ [state EXCEPT ![n].transportFilter = v] \in [Names -> Settings]
           /\ [state EXCEPT ![n].transportFilter = v]["controller0"].powered = state["controller0"].powered
<1> DEFINE set == [state[n] EXCEPT !.transportFilter = v]
<1>1. set \in Settings /\ set.powered = state[n].powered
  <2>1. state[n] \in Settings
    OBVIOUS
  <2> QED BY <2>1 DEF Settings, Props
<1>2. "controller0" \in Names
  BY DEF Names
<1> HIDE DEF set
<1>3. [state EXCEPT ![n] = set] \in [Names -> Settings]
  BY <1>1
<1>4. [state EXCEPT ![n] = set]["controller0"].powered = state["controller0"].powered
  BY <1>1, <1>2
<1> QED BY <1>3, <1>4 DEF set

LEMMA EffectIs ==
    ASSUME BtTyped, NEW stage \in Props, NEW v \in Text
    PROVE  /\ Effect(stage, v) \in Settings
           /\ Effect(stage, v).powered = IF stage = "powered" THEN v ELSE actual.powered
<1>1. actual \in Settings
  BY DEF BtTyped
<1>2. CASE stage = "powered" /\ v = "off"
  BY <1>2, SettingsAre DEF Effect
<1>3. CASE ~(stage = "powered" /\ v = "off")
  <2>1. Effect(stage, v) = [actual EXCEPT ![stage] = v]
    BY <1>3 DEF Effect
  <2> QED BY <1>1, <2>1 DEF Settings, Props
<1> QED BY <1>2, <1>3

(* The job goes on with what is left to call, which does not power the controller. *)
LEMMA PerformsJob ==
    ASSUME BtInv, NEW t \in 1 .. Len(jobs), jobs[t] \in PutJobs, NEW data \in Settings, NEW todo,
           Len(todo) = 1 \/ Tail(todo) \in Todos(PutStages), NEW state, Performs(t, todo, data, state)
    PROVE  OthersStay(t)
<1>1. jobs \in Seq(BtJobs)
  BY DEF BtInv
<1>2. CASE Ends(t)
  BY <1>1, <1>2, JobOver
<1>3. CASE jobs' = RemoveAt(jobs, t)
  BY <1>1, <1>3, JobEnds
<1>4. CASE Len(todo) # 1 /\ jobs' = [jobs EXCEPT ![t].todo = Tail(todo), ![t].data = data]
  <2> DEFINE job == [jobs[t] EXCEPT !.todo = Tail(todo), !.data = data]
  <2>1. Tail(todo) \in Todos(PutStages)
    BY <1>4
  <2>2. job \in BtJobs
    BY <2>1 DEF PutJobs, BtJobs
  <2>3. jobs' = [jobs EXCEPT ![t] = job]
    BY <1>4
  <2> HIDE DEF job
  <2> QED BY <1>1, <2>2, <2>3, JobChanges
<1> QED BY <1>2, <1>3, <1>4 DEF Performs

LEMMA CallsTail ==
    ASSUME NEW todo \in Seq(Props), todo # <<>>, \A i \in 1 .. Len(todo) : todo[i] = "powered" => i = 1
    PROVE  Len(todo) = 1 \/ Tail(todo) \in Todos(PutStages)
<1> DEFINE rest == Tail(todo)
           others == Props \ {"powered"}
<1>1. rest \in Seq(Props) /\ Len(rest) = Len(todo) - 1 /\ \A i \in 1 .. Len(rest) : rest[i] = todo[i + 1]
  BY HeadTailProperties
<1>2. Len(todo) \in Nat \ {0}
  BY LenProperties, EmptySeq
<1>3. ASSUME NEW i \in 1 .. Len(rest)
      PROVE  rest[i] \in others
  <2>1. i + 1 \in 1 .. Len(todo) /\ i + 1 # 1
    BY <1>1, <1>2
  <2>2. todo[i + 1] \in Props /\ todo[i + 1] # "powered"
    BY <2>1, ElementOfSeq
  <2> QED BY <1>1, <2>2
<1> HIDE DEF rest
<1>4. rest \in Seq(others)
  <2>1. Len(rest) \in Nat /\ rest = [i \in 1 .. Len(rest) |-> rest[i]]
    BY <1>1, LenProperties
  <2> HIDE DEF others
  <2>2. [i \in 1 .. Len(rest) |-> rest[i]] \in Seq(others)
    BY <1>3, <2>1
  <2> QED BY <2>1, <2>2
<1>5. Len(todo) # 1 => rest # <<>>
  BY <1>1, <1>2, EmptySeq
<1>6. rest # <<>> => rest \in Todos(others)
  <2>1. "remap" \notin others
    BY DEF Props
  <2> QED BY <1>4, <2>1, TodoOf
<1>7. others \subseteq PutStages
  BY DEF PutStages
<1> HIDE DEF others
<1>8. rest \in Seq(PutStages)
  BY <1>4, <1>7, SeqMonotonic
<1> QED BY <1>5, <1>6, <1>8 DEF Todos, rest

(* A call to the controller either powers it as the state that is then commanded says, *)
(* or concerns neither, and then no restoration is taken back by it.                     *)
LEMMA PerformsKeeps ==
    ASSUME BtInv, NEW t \in 1 .. Len(jobs), jobs[t] \in PutJobs, NEW data \in Settings, NEW todo, Head(todo) \in Props,
           Len(todo) = 1 \/ Tail(todo) \in Todos(PutStages),
           NEW state \in [Names -> Settings], Performs(t, todo, data, state),
           UNCHANGED <<restored, path, link, bt, objects, managed, asked>>,
           \/ Head(todo) = "powered" /\ jobs[t].path = path /\ state["controller0"].powered = data.powered
           \/ /\ Head(todo) # "powered" /\ state["controller0"].powered = states["controller0"].powered
              /\ ~Restoring(jobs[t], path) \/ state["controller0"].powered = "unset"
    PROVE  BtInv'
<1> DEFINE stage == Head(todo)
           v == data[stage]
           commanded == state["controller0"].powered
<1>1. stage \in Props /\ v \in Text
  BY DEF Settings
<1>2. OthersStay(t)
  BY PerformsJob
<1>3. BtTyped /\ PowerGood /\ RestoredOnce /\ ManagedGood
  BY DEF BtInv
<1>4. RestoredOnce' /\ toRestore' \subseteq BtDevices /\ scheduled' \in [BtDevices -> Nat]
  <2>1. Scheduled(t) \/ UNCHANGED <<toRestore, scheduled>>
    BY DEF Performs
  <2> QED BY <1>3, <2>1, ScheduledKeeps
<1>5. ManagedGood'
  BY <1>3, ManagedStays
<1>6. states' \in [Names -> Settings] /\ states'["controller0"].powered = commanded
  <2>1. states' = state \/ (stage = "transportFilter" /\ states' = [state EXCEPT ![Given(t)].transportFilter = v])
    BY DEF Performs
  <2>2. Given(t) \in Names
    BY DEF Given, Names
  <2> DEFINE n == Given(t)
  <2> HIDE DEF v, n
  <2>3. /\ [state EXCEPT ![n].transportFilter = v] \in [Names -> Settings]
        /\ [state EXCEPT ![n].transportFilter = v]["controller0"].powered = state["controller0"].powered
    <3>1. n \in Names /\ v \in Text
      BY <1>1, <2>2 DEF n
    <3> QED BY <3>1, StatesSet
  <2>4. states' = state \/ states' = [state EXCEPT ![n].transportFilter = v]
    BY <2>1 DEF n
  <2> QED BY <2>3, <2>4
<1>7. /\ actual' \in Settings
      /\ stage # "powered" => actual'.powered = actual.powered /\ (lost => lost')
      /\ stage = "powered" => actual'.powered = v \/ lost' \/ jobs[t].path # path
  <2> DEFINE ok == jobs[t].path = path /\ ~Refused(stage, v)
  <2>1. CASE actual' = Effect(stage, v) /\ lost' = (lost /\ stage # "powered")
    BY <1>1, <1>3, <2>1, EffectIs
  <2>2. CASE actual' = actual /\ lost' = (lost \/ (ok /\ stage = "powered"))
    BY <1>3, <2>2 DEF Refused, BtTyped
  <2> QED BY <2>1, <2>2 DEF Performs
<1>8. PowerGood'
  <2>1. CASE stage = "powered" /\ jobs[t].path = path /\ commanded = data.powered
    BY <1>6, <1>7, <2>1 DEF PowerGood
  <2>2. CASE stage # "powered" /\ commanded = states["controller0"].powered /\ commanded = "unset"
    BY <1>6, <2>2 DEF PowerGood
  <2>3. CASE stage # "powered" /\ commanded = states["controller0"].powered /\ ~Restoring(jobs[t], path)
    <3>1. \A i \in 1 .. Len(jobs) : Restoring(jobs[i], path) => Same(i)
      BY <1>2, <2>3 DEF OthersStay
    <3> QED BY <1>3, <1>6, <1>7, <2>3, <3>1, PowerStays
  <2> QED BY <2>1, <2>2, <2>3
<1>9. BtTyped'
  BY <1>3, <1>4, <1>6, <1>7 DEF BtTyped
<1> QED BY <1>2, <1>4, <1>5, <1>8, <1>9 DEF BtInv, OthersStay

(* A request commands what it was asked, a restoration what was commanded last. *)
LEMMA BtIntrospects ==
    ASSUME BtInv, NEW t \in 1 .. Len(jobs), Introspected(t)
    PROVE  BtInv'
<1> DEFINE data == IF jobs[t].op = "put" THEN jobs[t].data ELSE StateOf(t)
           state == IF jobs[t].op = "put" THEN [states EXCEPT !["controller0"] = Remembered(@, data)] ELSE states
           todo == ToCall(data)
<1>1. /\ jobs[t] \in PutJobs /\ jobs[t].op \in {"put", "restore"} /\ jobs \in Seq(BtJobs)
      /\ states \in [Names -> Settings] /\ "controller0" \in Names
  BY JobIs DEF Introspected, BtInv, BtTyped, Names
<1>2. data \in Settings
  BY <1>1 DEF PutJobs, StateOf
<1>3. /\ state \in [Names -> Settings]
      /\ state["controller0"].powered = IF data.powered # "unset" THEN data.powered ELSE states["controller0"].powered
  <2>1. CASE jobs[t].op = "put"
    <3> DEFINE new == Remembered(states["controller0"], data)
    <3>1. new \in Settings /\ new.powered = IF data.powered # "unset" THEN data.powered ELSE states["controller0"].powered
      BY <1>1, <1>2, RememberedIs
    <3>2. state = [states EXCEPT !["controller0"] = new]
      BY <2>1
    <3> HIDE DEF new, state, data
    <3> QED BY <1>1, <3>1, <3>2
  <2>2. CASE jobs[t].op # "put"
    BY <1>1, <2>2 DEF StateOf
  <2> QED BY <2>1, <2>2
<1>4. /\ data.powered # "unset" \/ ~Restoring(jobs[t], path) \/ states["controller0"].powered = "unset"
      /\ UNCHANGED <<restored, path, link, bt, objects, managed, asked>>
      /\ IF jobs[t].path # path THEN Ends(t) /\ UNCHANGED <<actual, events, lost, states, toRestore, scheduled>>
         ELSE IF todo = <<>>
         THEN Ends(t) /\ Scheduled(t) /\ states' = state /\ UNCHANGED <<actual, events, lost>>
         ELSE Performs(t, todo, data, state)
  <2>1. data.powered # "unset" \/ ~Restoring(jobs[t], path) \/ states["controller0"].powered = "unset"
    BY <1>1 DEF Restoring, StateOf
  <2> QED BY <2>1 DEF Introspected, manager
<1>5. /\ todo \in Seq(Props)
      /\ data.powered # "unset" => todo # <<>> /\ Head(todo) = "powered"
      /\ \A i \in 1 .. Len(todo) : todo[i] = "powered" => i = 1 /\ data.powered # "unset"
  BY <1>2, CallsAre
<1> HIDE DEF data, state, todo
<1>6. CASE jobs[t].path # path
  <2>1. OthersStay(t) /\ ~Restoring(jobs[t], path)
    BY <1>1, <1>4, <1>6, JobOver DEF Restoring
  <2> QED BY <1>4, <1>6, <2>1, AsideOthers
<1>7. CASE jobs[t].path = path /\ todo = <<>>
  <2>1. /\ OthersStay(t) /\ states' = state /\ UNCHANGED <<actual, lost>> /\ Scheduled(t)
        /\ state["controller0"].powered = states["controller0"].powered
        /\ ~Restoring(jobs[t], path) \/ states["controller0"].powered = "unset"
    BY <1>1, <1>3, <1>4, <1>5, <1>7, JobOver
  <2>2. RestoredOnce' /\ toRestore' \subseteq BtDevices /\ scheduled' \in [BtDevices -> Nat] /\ ManagedGood'
    BY <1>4, <2>1, ScheduledKeeps, ManagedStays DEF BtInv
  <2>3. PowerGood'
    <3>1. CASE states["controller0"].powered = "unset"
      BY <2>1, <3>1 DEF PowerGood
    <3>2. CASE ~Restoring(jobs[t], path)
      BY <1>4, <2>1, <3>2, PowerStays DEF OthersStay, BtInv
    <3> QED BY <2>1, <3>1, <3>2
  <2>4. BtTyped'
    BY <1>3, <1>4, <2>1, <2>2 DEF BtTyped, BtInv
  <2> QED BY <2>1, <2>2, <2>3, <2>4 DEF BtInv, OthersStay
<1>8. CASE jobs[t].path = path /\ todo # <<>>
  <2>1. Performs(t, todo, data, state)
    BY <1>4, <1>8
  <2>4. Head(todo) \in Props /\ Head(todo) = todo[1] /\ 1 \in 1 .. Len(todo) /\ (Len(todo) = 1 \/ Tail(todo) \in Todos(PutStages))
    BY <1>5, <1>8, CallsTail, HeadTailProperties, EmptySeq
  <2>2. CASE data.powered # "unset"
    BY <1>1, <1>2, <1>3, <1>4, <1>5, <1>8, <2>4, <2>1, <2>2, PerformsKeeps
  <2>3. CASE data.powered = "unset"
    <3>1. Head(todo) # "powered"
      BY <1>5, <1>8, <2>4, <2>3
    <3>2. /\ state["controller0"].powered = states["controller0"].powered
          /\ ~Restoring(jobs[t], path) \/ state["controller0"].powered = "unset"
      BY <1>3, <1>4, <2>3
    <3> QED BY <1>1, <1>2, <1>3, <1>4, <1>5, <1>8, <2>4, <2>1, <3>1, <3>2, PerformsKeeps
  <2> QED BY <2>2, <2>3
<1> QED BY <1>6, <1>7, <1>8

LEMMA BtSets ==
    ASSUME BtInv, NEW t \in 1 .. Len(jobs), SetAdapterProperties(t)
    PROVE  BtInv'
<1>1. jobs \in Seq(BtJobs) /\ BtTyped
  BY DEF BtInv
<1>2. Head(jobs[t].todo) \in Props
  BY StagesAre DEF SetAdapterProperties, At
<1>3. jobs[t] \in PutJobs /\ jobs[t].todo \in Todos(PutStages)
  BY <1>1, <1>2, JobIs DEF DeviceStages, Common, Props
<1>4. /\ Len(jobs[t].todo) = 1 \/ Tail(jobs[t].todo) \in Todos(PutStages)
      /\ jobs[t].data \in Settings /\ Head(jobs[t].todo) # "powered" /\ states \in [Names -> Settings]
  <2>1. Len(jobs[t].todo) = 1 \/ Tail(jobs[t].todo) \in Todos(PutStages)
    BY <1>3, TodoTail
  <2>2. Head(jobs[t].todo) \in PutStages
    BY <1>3, TodoTail
  <2>3. Head(jobs[t].todo) # "powered"
    BY <2>2 DEF PutStages, Common, Props
  <2>4. jobs[t].data \in Settings /\ states \in [Names -> Settings]
    BY <1>1, <1>3 DEF PutJobs, BtTyped
  <2> QED BY <2>1, <2>3, <2>4
<1>5. ~Restoring(jobs[t], path)
  BY <1>2, NotRestoring DEF Props
<1>6. /\ Performs(t, jobs[t].todo, jobs[t].data, states)
      /\ UNCHANGED <<restored, path, link, bt, objects, managed, asked>>
  BY DEF SetAdapterProperties, manager
<1> QED BY <1>2, <1>3, <1>4, <1>5, <1>6, PerformsKeeps

-----------------------------------------------------------------------------
(* The calls to a device, and what BlueZ makes of them. *)
LEMMA Linked ==
    ASSUME BtInv, jobs' \in Seq(BtJobs), \A i \in 1 .. Len(jobs) : Restoring(jobs[i], path) => Same(i),
           ManagedGood', link' \in [BtDevices -> {"absent", "known", "connected"}], asked' \in Seq(Questions),
           UNCHANGED <<path, actual, states, bt, managed, objects, toRestore, scheduled, restored, lost>>
    PROVE  BtInv'
<1>1. BtTyped'
  BY DEF BtInv, BtTyped, Questions
<1>2. PowerGood'
  BY PowerStays DEF BtInv
<1>3. RestoredOnce'
  BY RestoredStays DEF BtInv
<1> QED BY <1>1, <1>2, <1>3 DEF BtInv

LEMMA LinkSet ==
    ASSUME BtTyped, NEW d \in BtDevices, NEW to \in {"absent", "known", "connected"}, link' = [link EXCEPT ![d] = to]
    PROVE  /\ link' \in [BtDevices -> {"absent", "known", "connected"}] /\ link'[d] = to
           /\ \A e \in BtDevices : e # d => link'[e] = link[e]
BY DEF BtTyped

LEMMA BtCalls ==
    ASSUME BtInv, NEW t \in 1 .. Len(jobs), CallDisconnect(t) \/ RemoveDeviceMethod(t) \/ CallConnect(t)
    PROVE  BtInv'
<1> DEFINE d == jobs[t].dev
<1>1. jobs \in Seq(BtJobs) /\ BtTyped /\ ManagedGood
  BY DEF BtInv
<1>2. Head(jobs[t].todo) \in {"callDisconnect", "callRemoveDevice", "callConnect"} /\ Ends(t)
  BY DEF CallDisconnect, RemoveDeviceMethod, CallConnect, At
<1>3. d \in BtDevices /\ OthersStay(t) /\ ~Restoring(jobs[t], path)
  BY <1>1, <1>2, JobIs, JobOver, NotRestoring DEF PutStages, Common, Props
<1> HIDE DEF d
<1>4. ManagedGood' /\ link' \in [BtDevices -> {"absent", "known", "connected"}] /\ asked' \in Seq(Questions)
  <2>1. CASE (Drops(d, "known") \/ Drops(d, "absent")) /\ UNCHANGED <<managed, objects>>
    BY <1>1, <1>3, <2>1, ManagedDrops
  <2>2. CASE UNCHANGED <<link, asked, managed, objects>>
    BY <1>1, <2>2, ManagedStays DEF BtTyped, Questions
  <2>3. CASE link[d] = "known" /\ link' = [link EXCEPT ![d] = "connected"] /\ UNCHANGED <<asked, managed, objects>>
    <3>1. link' \in [BtDevices -> {"absent", "known", "connected"}] /\ \A e \in BtDevices : link[e] = "connected" => link'[e] = "connected"
      BY <1>1, <1>3, <2>3, LinkSet
    <3> QED BY <1>1, <2>3, <3>1, ManagedLinks DEF BtTyped, Questions
  <2> QED BY <2>1, <2>2, <2>3 DEF CallDisconnect, RemoveDeviceMethod, CallConnect, manager, d
<1>5. UNCHANGED <<path, actual, states, bt, managed, objects, toRestore, scheduled, restored, lost>>
  BY DEF CallDisconnect, RemoveDeviceMethod, CallConnect, service, manager
<1> QED BY <1>3, <1>4, <1>5, Linked DEF OthersStay

LEMMA BtManages ==
    ASSUME BtInv, NEW t \in 1 .. Len(jobs), Initialize(t) \/ CreateDevice(t)
    PROVE  BtInv'
<1>1. jobs \in Seq(BtJobs) /\ BtTyped /\ ManagedGood /\ RestoredOnce /\ PowerGood
  BY DEF BtInv
<1>2. Head(jobs[t].todo) \in {"initialize", "create"}
  BY DEF Initialize, CreateDevice, At
<1>3. jobs[t] \in DeviceJobs /\ jobs[t].dev \in BtDevices /\ ~Restoring(jobs[t], path)
  BY <1>1, <1>2, JobIs, NotRestoring DEF PutStages, Common, Props
<1>4. CASE Initialize(t)
  <2>1. OthersStay(t)
    <3>1. CASE Advances(t)
      BY <1>1, <3>1, JobAdvances
    <3>2. CASE Goes(t, <<"callConnect">>)
      BY <1>1, <1>3, <3>2, MakeTodo, DeviceJobIs, JobGoes
    <3> QED BY <1>4, <3>1, <3>2 DEF Initialize
  <2>2. UNCHANGED <<path, states, link, objects, managed, asked, toRestore, scheduled, restored, lost>>
    BY <1>4 DEF Initialize, service
  <2>3. CASE UNCHANGED <<bt, actual>>
    BY <1>3, <2>1, <2>2, <2>3, AsideOthers
  <2>4. CASE bt' = bt + 1 /\ actual' = [actual EXCEPT !.powered = "on"]
    <3>1. actual' \in Settings /\ actual'.powered = "on" /\ bt' \in Nat /\ bt' > 0
      <4>1. actual \in Settings /\ bt \in Nat
        BY <1>1 DEF BtTyped
      <4>2. bt' \in Nat /\ bt' > 0
        BY <2>4, <4>1
      <4>3. actual' \in Settings /\ actual'.powered = "on"
        BY <2>4, <4>1 DEF Settings, Text, Props
      <4> QED BY <4>2, <4>3
    <3>2. BtTyped'
      BY <1>1, <2>2, <3>1 DEF BtTyped
    <3>3. PowerGood'
      BY <3>1 DEF PowerGood
    <3>4. RestoredOnce' /\ ManagedGood'
      BY <1>1, <2>2, RestoredStays, ManagedStays
    <3> QED BY <2>1, <3>2, <3>3, <3>4 DEF BtInv, OthersStay
  <2> QED BY <1>4, <2>3, <2>4 DEF Initialize
<1>5. CASE CreateDevice(t)
  <2> DEFINE x == [dev |-> jobs[t].dev, signal |-> TRUE]
  <2>1. OthersStay(t)
    BY <1>1, <1>5, JobAdvances, JobOver DEF CreateDevice
  <2>2. UNCHANGED <<path, actual, states, link, bt, managed, asked, toRestore, scheduled, restored, lost>>
    BY <1>5 DEF CreateDevice, service, world
  <2>3. CASE UNCHANGED objects
    BY <1>3, <2>1, <2>2, <2>3, AsideOthers
  <2>4. CASE objects' = Append(objects, x)
    <3>1. x \in [dev : BtDevices, signal : BOOLEAN]
      BY <1>3
    <3> HIDE DEF x
    <3>2. ManagedGood' /\ objects' \in Seq([dev : BtDevices, signal : BOOLEAN])
      BY <1>1, <2>2, <2>4, <3>1, ManagedCreates
    <3>3. BtTyped'
      BY <1>1, <2>2, <3>2 DEF BtTyped
    <3>4. PowerGood'
      BY <1>1, <1>3, <2>1, <2>2, PowerStays DEF OthersStay
    <3> QED BY <1>1, <2>1, <2>2, <3>2, <3>3, <3>4, RestoredStays DEF BtInv, OthersStay
  <2> QED BY <1>5, <2>3, <2>4 DEF CreateDevice
<1> QED BY <1>4, <1>5

(* A restoration that was under way for the controller and has found its name is still one. *)
LEMMA BtNames ==
    ASSUME BtInv, NEW t \in 1 .. Len(jobs), RemappedControllerToFriendlyName(t)
    PROVE  BtInv'
<1>1. jobs \in Seq(BtJobs) /\ BtTyped /\ ManagedGood /\ RestoredOnce /\ PowerGood
  BY DEF BtInv
<1>2. /\ IF jobs[t].path = path THEN Advances(t) ELSE Ends(t)
      /\ UNCHANGED <<path, actual, states, link, bt, managed, objects, asked, toRestore, scheduled, restored, lost>>
  BY DEF RemappedControllerToFriendlyName, service, world, manager
<1>3. OthersStay(t)
  BY <1>1, <1>2, JobAdvances, JobOver
<1>4. CASE ~Restoring(jobs[t], path)
  BY <1>2, <1>3, <1>4, AsideOthers
<1>5. CASE Restoring(jobs[t], path)
  <2>1. jobs[t].path = path /\ jobs[t].todo = <<"name", "introspect">>
    <3>1. Head(jobs[t].todo) = "name"
      BY DEF RemappedControllerToFriendlyName, At
    <3> QED BY <1>5, <3>1 DEF Restoring
  <2>2. Tail(jobs[t].todo) = <<"introspect">>
    BY <2>1
  <2>3. t \in 1 .. Len(jobs') /\ jobs'[t] = [jobs[t] EXCEPT !.todo = <<"introspect">>]
    <3>1. Advances(t) /\ Tail(jobs[t].todo) # <<>>
      BY <1>2, <2>1, <2>2
    <3>2. t \in 1 .. Len(jobs') /\ jobs'[t] = [jobs[t] EXCEPT !.todo = Tail(jobs[t].todo)]
      BY <1>1, <3>1, JobAdvances
    <3> QED BY <2>2, <3>2
  <2>4. Restoring(jobs'[t], path)
    <3>1. jobs[t] \in BtJobs
      BY <1>1, JobIs
    <3> QED BY <1>5, <2>3, <3>1 DEF Restoring, BtJobs, PutJobs, DeviceJobs
  <2>5. PowerGood'
    BY <1>2, <2>3, <2>4 DEF PowerGood
  <2>6. BtTyped' /\ RestoredOnce' /\ ManagedGood'
    BY <1>1, <1>2, RestoredStays, ManagedStays DEF BtTyped
  <2> QED BY <1>3, <2>5, <2>6 DEF BtInv, OthersStay
<1> QED BY <1>4, <1>5

(* A device is restored once for each time that it was put among those to be restored. *)
LEMMA BtRestores ==
    ASSUME BtInv, NEW t \in 1 .. Len(jobs), DeviceRestore(t)
    PROVE  BtInv'
<1> DEFINE d == jobs[t].dev
<1>1. jobs \in Seq(BtJobs) /\ BtTyped /\ ManagedGood /\ RestoredOnce /\ PowerGood
  BY DEF BtInv
<1>2. Head(jobs[t].todo) = "address"
  BY DEF DeviceRestore, At
<1>3. jobs[t] \in DeviceJobs /\ d \in BtDevices /\ ~Restoring(jobs[t], path)
  BY <1>1, <1>2, JobIs, NotRestoring DEF PutStages, Common, Props
<1>4. UNCHANGED <<path, actual, states, link, bt, managed, objects, asked, scheduled, lost>>
  BY DEF DeviceRestore, world, manager
<1>5. CASE Ends(t) /\ UNCHANGED <<toRestore, restored>>
  BY <1>1, <1>3, <1>4, <1>5, JobOver, AsideOthers
<1>6. CASE /\ d \in toRestore /\ toRestore' = Popped(d) /\ restored' = [restored EXCEPT ![d] = @ + 1]
           /\ Goes(t, <<"name", "find">>)
  <2>1. OthersStay(t)
    BY <1>1, <1>3, <1>6, MakeTodo, DeviceJobIs, JobGoes
  <2>2. restored \in [BtDevices -> Nat] /\ scheduled \in [BtDevices -> Nat]
    BY <1>1 DEF BtTyped
  <2> HIDE DEF d
  <2>3. restored' \in [BtDevices -> Nat] /\ toRestore' \subseteq BtDevices
    BY <1>1, <1>3, <1>6, <2>2 DEF BtTyped, Popped
  <2>4. ASSUME NEW e \in BtDevices
        PROVE  restored'[e] + (IF e \in toRestore' THEN 1 ELSE 0) <= scheduled'[e]
    <3>1. /\ restored[e] \in Nat /\ scheduled[e] \in Nat /\ scheduled'[e] = scheduled[e]
          /\ restored[e] + (IF e \in toRestore THEN 1 ELSE 0) <= scheduled[e]
      BY <1>1, <1>4, <2>2 DEF RestoredOnce
    <3>2. CASE e = d
      <4>1. restored'[e] = restored[e] + 1 /\ e \in toRestore /\ e \notin toRestore'
        BY <1>3, <1>6, <2>2, <3>2 DEF Popped
      <4> QED BY <3>1, <4>1
    <3>3. CASE e # d
      <4>1. restored'[e] = restored[e] /\ (e \in toRestore' <=> e \in toRestore)
        BY <1>3, <1>6, <2>2, <3>3 DEF Popped
      <4> QED BY <3>1, <4>1
    <3> QED BY <3>2, <3>3
  <2>5. BtTyped'
    BY <1>1, <1>4, <2>3 DEF BtTyped
  <2>6. PowerGood' /\ ManagedGood'
    BY <1>1, <1>3, <1>4, <2>1, PowerStays, ManagedStays DEF OthersStay
  <2> QED BY <2>1, <2>4, <2>5, <2>6 DEF BtInv, RestoredOnce, OthersStay
<1> QED BY <1>5, <1>6 DEF DeviceRestore

-----------------------------------------------------------------------------
(* The signals of BlueZ. *)
LEMMA BtHears ==
    ASSUME BtInv, NEW job \in BtJobs, Heard(job)
    PROVE  AllStay /\ (heard = "set" => \E j \in 1 .. Len(jobs') : jobs'[j] = job)
<1>1. CASE heard = "set"
  BY <1>1, JobBegins DEF Heard, BtInv
<1>2. CASE heard # "set"
  BY <1>2 DEF Heard, BtInv, AllStay, Same
<1> QED BY <1>1, <1>2

LEMMA BtController ==
    ASSUME BtInv, ControllerGone \/ InterfaceAddedController
    PROVE  BtInv'
<1>1. jobs \in Seq(BtJobs) /\ BtTyped /\ ManagedGood /\ RestoredOnce /\ PowerGood
  BY DEF BtInv
<1>2. CASE ControllerGone
  <2> DEFINE ds == {d \in BtDevices : link[d] = "connected"}
  <2>1. /\ path' = "none" /\ actual' = AllOff /\ link' = [d \in BtDevices |-> "absent"]
        /\ asked' = asked \o Asks(ds, "callback")
        /\ UNCHANGED <<states, jobs, lost, bt, objects, managed, toRestore, scheduled, restored>>
    BY <1>2 DEF ControllerGone, service
  <2>2. \A d \in BtDevices : link[d] = "connected" => d \in ds
    OBVIOUS
  <2> HIDE DEF ds
  <2>3. ManagedGood' /\ asked' \in Seq(Questions)
    BY <1>1, <2>1, <2>2, ManagedAsks
  <2>4. BtTyped'
    BY <1>1, <2>1, <2>3, SettingsAre DEF BtTyped, Questions, Hci
  <2>5. PowerGood' /\ RestoredOnce' /\ jobs' \in Seq(BtJobs)
    BY <1>1, <2>1, RestoredStays DEF PowerGood
  <2> QED BY <2>3, <2>4, <2>5 DEF BtInv
<1>3. CASE InterfaceAddedController
  <2> DEFINE job == Job("restore", "", path', <<"name", "introspect">>, Unset)
  <2>1. /\ path' \in {"hci0", "hci1"} /\ Heard(job) /\ lost' = (heard # "set")
        /\ UNCHANGED <<actual, states, link, bt, managed, objects, asked, toRestore, scheduled, restored>>
    BY <1>3 DEF InterfaceAddedController, service, manager
  <2>2. job \in BtJobs /\ Restoring(job, path')
    <3>1. <<"name", "introspect">> \in Todos(PutStages)
      BY DEF Todos, PutStages, Common
    <3>2. job \in PutJobs
      BY <2>1, <3>1, SettingsAre DEF Job, PutJobs, Hci
    <3> QED BY <3>2 DEF BtJobs, Job, Restoring
  <2> HIDE DEF job
  <2>3. AllStay /\ (heard = "set" => \E j \in 1 .. Len(jobs') : jobs'[j] = job)
    BY <2>1, <2>2, BtHears
  <2>4. PowerGood'
    <3>1. CASE heard = "set"
      BY <2>2, <2>3, <3>1 DEF PowerGood
    <3>2. CASE heard # "set"
      BY <2>1, <3>2 DEF PowerGood
    <3> QED BY <3>1, <3>2
  <2>5. BtTyped' /\ RestoredOnce' /\ ManagedGood'
    BY <1>1, <2>1, RestoredStays, ManagedStays DEF BtTyped, Hci
  <2> QED BY <2>3, <2>4, <2>5 DEF BtInv, AllStay
<1> QED BY <1>2, <1>3

LEMMA BtDevice ==
    ASSUME BtInv, NEW d \in BtDevices, InterfaceAddedDevice(d) \/ LinkLost(d) \/ LinkResolved(d) \/ DeviceForgotten(d)
    PROVE  BtInv'
<1>1. jobs \in Seq(BtJobs) /\ BtTyped /\ ManagedGood
  BY DEF BtInv
<1>2. AllStay
  <2>1. CASE InterfaceAddedDevice(d)
    <3> DEFINE job == Job("device restore", d, path, <<"address">>, Unset)
    <3>1. job \in BtJobs
      BY <1>1, MakeTodo, SettingsAre DEF Job, DeviceJobs, BtJobs, BtTyped
    <3> HIDE DEF job
    <3> QED BY <2>1, <3>1, BtHears DEF InterfaceAddedDevice, job
  <2>2. CASE UNCHANGED jobs
    BY <1>1, <2>2 DEF AllStay, Same
  <2> QED BY <2>1, <2>2 DEF LinkLost, LinkResolved, DeviceForgotten
<1>3. UNCHANGED <<path, actual, states, bt, managed, objects, toRestore, scheduled, restored, lost>>
  BY DEF InterfaceAddedDevice, LinkLost, LinkResolved, DeviceForgotten, service, manager
<1>4. ManagedGood' /\ link' \in [BtDevices -> {"absent", "known", "connected"}] /\ asked' \in Seq(Questions)
  <2>1. CASE Drops(d, "known")
    BY <1>1, <1>3, <2>1, ManagedDrops
  <2>2. CASE asked' = asked \o Asks({d}, "resolved") /\ UNCHANGED link
    BY <1>1, <1>3, <2>2, ManagedAsks DEF BtTyped
  <2>3. CASE link[d] # "connected" /\ UNCHANGED asked /\ (link' = [link EXCEPT ![d] = "known"] \/ link' = [link EXCEPT ![d] = "absent"])
    <3>1. link' \in [BtDevices -> {"absent", "known", "connected"}] /\ \A e \in BtDevices : link[e] = "connected" => link'[e] = "connected"
      BY <1>1, <2>3, LinkSet
    <3> QED BY <1>1, <1>3, <2>3, <3>1, ManagedLinks DEF BtTyped, Questions
  <2> QED BY <2>1, <2>2, <2>3 DEF InterfaceAddedDevice, LinkLost, LinkResolved, DeviceForgotten, manager
<1> QED BY <1>1, <1>2, <1>3, <1>4, Linked DEF AllStay

LEMMA BtCallbacks ==
    ASSUME BtInv, PropertiesChanged \/ MgrConnectionCallback
    PROVE  BtInv'
<1>1. jobs \in Seq(BtJobs) /\ BtTyped /\ ManagedGood /\ RestoredOnce /\ PowerGood
  BY DEF BtInv
<1>2. UNCHANGED <<path, actual, states, jobs, link, bt, toRestore, scheduled, restored, lost>>
  BY DEF PropertiesChanged, MgrConnectionCallback, service, world
<1>3. ManagedGood' /\ asked' \in Seq(Questions) /\ managed' \in [BtDevices -> Nat] /\ objects' \in Seq([dev : BtDevices, signal : BOOLEAN])
  <2>1. CASE PropertiesChanged
    BY <1>1, <2>1, ManagedResolved DEF PropertiesChanged, BtTyped
  <2>2. CASE MgrConnectionCallback
    BY <1>1, <2>2, ManagedAnswers
  <2> QED BY <2>1, <2>2
<1>4. BtTyped'
  BY <1>1, <1>2, <1>3 DEF BtTyped, Questions
<1>5. PowerGood' /\ RestoredOnce'
  BY <1>1, <1>2, PowerStays, RestoredStays DEF Same
<1> QED BY <1>1, <1>2, <1>3, <1>4, <1>5 DEF BtInv

LEMMA BtPreserves ==
    ASSUME BtInv, [BtNext]_bluetooth
    PROVE  BtInv'
<1>1. CASE UNCHANGED bluetooth
  BY <1>1, Aside DEF bluetooth, service, world, manager, BtInv, Same
<1>2. ASSUME NEW t \in 1 .. Len(jobs), BtStep(t)
      PROVE  BtInv'
  BY <1>2, BtLookups, BtIntrospects, BtSets, BtCalls, BtManages, BtNames, BtRestores DEF BtStep
<1>3. DOMAIN jobs = 1 .. Len(jobs)
  BY LenProperties DEF BtInv
<1>4. CASE BtSignal
  BY <1>4, BtCallbacks, BtController, BtDevice DEF BtSignal
<1> QED BY <1>1, <1>2, <1>3, <1>4, BtRequests DEF BtNext

LEMMA BtAlways == BtSpec => []BtInv
BY BtStart, BtPreserves, PTL DEF BtSpec

(* When all requests and callbacks are over, a controller that is there is powered as    *)
(* was commanded last, for any requests and resets, unless BlueZ refused the last call    *)
(* that was to set its power, nobody heard it come, or a BLE manager had powered it on    *)
(* (controller_restore, set_adapter_properties, bt_init_ex); and no device is restored    *)
(* more often than it was to be (device_restore).                                         *)
THEOREM StateIsRestored == BtSpec => []RestoredRight
<1>1. BtInv => RestoredRight
  <2> SUFFICES ASSUME BtInv
               PROVE  RestoredRight
    OBVIOUS
  <2>1. jobs = <<>> => ~\E t \in 1 .. Len(jobs) : Restoring(jobs[t], path)
    OBVIOUS
  <2> QED BY <2>1 DEF BtInv, RestoredRight, PowerRestored, BtQuiet, PowerGood
<1> QED BY <1>1, BtAlways, PTL

(* A device that the BLE manager has is connected once the questions that its objects *)
(* asked are answered, in whatever order links are lost and found again.                *)
THEOREM ManagedAreConnected == BtSpec => []ManagedIsConnected
<1>1. BtInv => ManagedIsConnected
  <2> SUFFICES ASSUME BtInv
               PROVE  ManagedIsConnected
    OBVIOUS
  <2>1. asked = <<>> => ~\E i \in 1 .. Len(asked) : TRUE
    OBVIOUS
  <2> QED BY <2>1 DEF BtInv, ManagedIsConnected, ManagedGood, Answered
<1> QED BY <1>1, BtAlways, PTL

-----------------------------------------------------------------------------
(***************************************************************************)
(* The virtual serial port: the connections and the coroutines about them, *)
(* and the bytes of the TCP clients.                                        *)
(***************************************************************************)
Phases == {"new", "turned away", "reading", "sending", "raising", "ending", "gone"}
ConnectTodos == {<<"find", "notify", "serve", "watch">>, <<"notify", "serve", "watch">>, <<"serve", "watch">>, <<"watch">>}
RestoreTodos == {<<"lookup", "rewatch">>, <<"rewatch">>, <<"find", "notify">>, <<"notify">>}
VspTodos == ConnectTodos \cup RestoreTodos \cup {<<>>, <<"stopNotify">>, <<"remove">>}
AnyPath == DevicePaths \cup {NoPath}
Bytes == Seq(TcpClients \X Nat)
ConnSet ==
    [dev : VspDevices, port : VspPorts, path : AnyPath, read : AnyPath, write : AnyPath,
     readProp : AnyPath, devProp : AnyPath, watched : [DevicePaths -> Nat], waiting : BOOLEAN,
     server : {"none", "listening", "closed"}, client : TcpClients \cup {"none"}, connected : BOOLEAN,
     rx : Bytes, sent : Bytes, crowded : BOOLEAN]
CoSet ==
    [op : {"over", "gattConnect", "gattDisconnect", "unpair", "signal", "restore"}, dev : VspDevices \cup {""},
     conn : Nat, todo : VspTodos, resolved : BOOLEAN]
TcpSet == [conn : Nat, phase : Phases, heard : Nat, chunk : Bytes]


VspTyped ==
    /\ hci \in {"none", "hci0", "hci1"} /\ there \subseteq VspDevices /\ resolved \subseteq there
    /\ there # {} => hci # "none"
    /\ conns \in Seq(ConnSet) /\ table \in [VspDevices -> Nat]

(* A connection has the path of its device, and writes to no other; it counts the        *)
(* registrations of its callback, by path.                                                *)
ConnGood(c) ==
    /\ c.path # NoPath => c.path[1] = c.dev /\ c.write[1] \in {c.dev, "none"}
    /\ c.devProp # NoPath => c.watched[c.devProp] > 0
    /\ \A p \in DevicePaths : c.watched[p] > 0 => p[1] = c.dev
    /\ c.waiting => c.path # NoPath
ConnsGood == \A k \in 1 .. Len(conns) : ConnGood(conns[k])
(* A connection that is listed has its server up and watches its device. *)
TableGood ==
    \A d \in VspDevices : table[d] # 0 =>
        /\ table[d] \in 1 .. Len(conns)
        /\ LET c == conns[table[d]] IN c.dev = d /\ c.server = "listening" /\ c.devProp # NoPath /\ c.path # NoPath


(* A coroutine finds the connection that it is about.  One that connects or closes it has *)
(* it to itself: it is not listed, and nobody else connects or closes it meanwhile.        *)
Listed(tb, k) == \E d \in VspDevices : tb[d] = k
Of(r, cs) == r.conn \in 1 .. Len(cs) /\ r.dev = cs[r.conn].dev
Connecting(r) == r.op = "gattConnect" /\ r.todo # <<>>
Closing(r) == r.todo = <<"stopNotify">>
CoGood(r, cs, tb) ==
    \/ r = Over
    \/ /\ r.op = "gattConnect" /\ r.todo \in ConnectTodos /\ Of(r, cs) /\ ~Listed(tb, r.conn)
       /\ r.todo = <<"watch">> => cs[r.conn].server = "listening"
    \/ r.op \in {"gattDisconnect", "unpair"} /\ r.todo = <<"stopNotify">> /\ r.conn \in 1 .. Len(cs) /\ ~Listed(tb, r.conn)
    \/ r.op = "unpair" /\ r.todo = <<"remove">> /\ r.conn \in 0 .. Len(cs) /\ r.dev \in VspDevices
    \/ r.op = "signal" /\ r.todo = <<"notify">> /\ Of(r, cs)
    \/ r.op = "restore" /\ r.todo \in RestoreTodos /\ Of(r, cs) /\ cs[r.conn].path # NoPath
Apart(q, r) == Connecting(q) /\ q.conn = r.conn => ~Closing(r) /\ ~Connecting(r)
CosGood ==
    /\ co \in Seq(CoSet)
    /\ \A t \in 1 .. Len(co) : CoGood(co[t], conns, table)
    /\ \A t, u \in 1 .. Len(co) : t # u => Apart(co[t], co[u])


(* The bytes of the TCP clients.  While no client was turned away a connection has one at *)
(* a time, and what that one sends was taken from the head of the buffer.                  *)
Upon(c, k) == tcp[c].conn = k /\ tcp[c].phase \notin {"new", "gone"}
Ordered(s) == \A i, j \in 1 .. Len(s) : i < j /\ s[i][1] = s[j][1] => s[i][2] < s[j][2]
Before(s, r) == \A i \in 1 .. Len(s), j \in 1 .. Len(r) : s[i][1] = r[j][1] => s[i][2] < r[j][2]
Uttered(s, u) == \A i \in 1 .. Len(s) : u[s[i][1]].phase # "new" /\ (u[s[i][1]].phase = "gone" \/ s[i][2] <= u[s[i][1]].heard)
BytesGood(e, u) ==
    /\ Ordered(e.sent) /\ Ordered(e.rx) /\ Before(e.sent, e.rx) /\ Uttered(e.sent, u) /\ Uttered(e.rx, u)
    /\ Len(e.rx) < 2 * WriteSize
Single(c, k) ==
    /\ conns[k].client = c /\ tcp[c].phase # "turned away"
    /\ tcp[c].phase = "sending" <=> Len(conns[k].rx) >= WriteSize
    /\ tcp[c].phase = "sending" => tcp[c].chunk = SubSeq(conns[k].rx, 1, WriteSize)
TcpGood ==
    /\ tcp \in [TcpClients -> TcpSet]
    /\ \A c \in TcpClients : tcp[c].phase = "new" => tcp[c].heard = 0
    /\ \A c \in TcpClients : tcp[c].phase \notin {"new", "gone"} => tcp[c].conn \in 1 .. Len(conns)
    /\ \A k \in 1 .. Len(conns) : ~conns[k].crowded =>
          /\ BytesGood(conns[k], tcp)
          /\ \A c \in TcpClients : Upon(c, k) => Single(c, k)
          /\ (\A c \in TcpClients : ~Upon(c, k)) => Len(conns[k].rx) < WriteSize
VspInv == VspTyped /\ ConnsGood /\ TableGood /\ CosGood /\ TcpGood

(* What a step leaves to those that rely on a connection. *)
HoldsTo(c, e) ==
    /\ e.dev = c.dev /\ e.server = c.server
    /\ c.devProp # NoPath => e.devProp # NoPath
    /\ c.path # NoPath => e.path # NoPath
SameData(c, e) == e.rx = c.rx /\ e.sent = c.sent /\ e.client = c.client /\ e.crowded = c.crowded

LEMMA ConnIs ==
    ASSUME VspTyped, NEW k \in 1 .. Len(conns)
    PROVE  conns[k] \in ConnSet /\ Len(conns) \in Nat /\ DOMAIN conns = 1 .. Len(conns)
<1>1. conns \in Seq(ConnSet)
  BY DEF VspTyped
<1> QED BY <1>1, ElementOfSeq, LenProperties

LEMMA ConnChanges ==
    ASSUME VspTyped, NEW k \in 1 .. Len(conns), NEW c \in ConnSet, conns' = [conns EXCEPT ![k] = c]
    PROVE  /\ conns' \in Seq(ConnSet) /\ Len(conns') = Len(conns) /\ conns'[k] = c
           /\ \A j \in 1 .. Len(conns) : j # k => conns'[j] = conns[j]
<1>1. conns \in Seq(ConnSet)
  BY DEF VspTyped
<1> QED BY <1>1, ExceptSeq

LEMMA OverIs ==
    /\ Over \in CoSet /\ ~Connecting(Over) /\ ~Closing(Over) /\ Over.conn = 0 /\ Over.todo = <<>>
    /\ \A cs, tb : CoGood(Over, cs, tb)
<1>1. Over.op = "over" /\ Over.conn = 0 /\ Over.todo = <<>> /\ Over \in CoSet
  BY DEF Over, CoSet, VspTodos
<1>2. <<>> # <<"stopNotify">>
  OBVIOUS
<1> QED BY <1>1, <1>2 DEF CoGood, Connecting, Closing

(* What a coroutine is about, by what it has to await. *)
LEMMA CoFacts ==
    ASSUME NEW r, NEW cs, NEW tb, CoGood(r, cs, tb), Len(cs) \in Nat
    PROVE  /\ r.conn \in 0 .. Len(cs)
           /\ r.op = "gattConnect" => Connecting(r)
           /\ Connecting(r) => /\ r.todo \in ConnectTodos /\ Of(r, cs) /\ ~Listed(tb, r.conn)
                               /\ r.todo = <<"watch">> => cs[r.conn].server = "listening"
           /\ Closing(r) => r.op \in {"gattDisconnect", "unpair"} /\ r.conn \in 1 .. Len(cs) /\ ~Listed(tb, r.conn)
           /\ r.op = "signal" => r.todo = <<"notify">> /\ Of(r, cs)
           /\ r.op = "restore" => r.todo \in RestoreTodos /\ Of(r, cs) /\ cs[r.conn].path # NoPath
           /\ r.todo = <<"remove">> => r.op = "unpair" /\ r.dev \in VspDevices
<1>1. CASE r = Over
  <2>1. r.op = "over" /\ r.conn = 0 /\ r.todo = <<>>
    BY <1>1 DEF Over
  <2>2. <<>> # <<"remove">>
    OBVIOUS
  <2> QED BY <1>1, <2>1, <2>2, OverIs DEF Connecting
<1>2. CASE /\ r.op = "gattConnect" /\ r.todo \in ConnectTodos /\ Of(r, cs) /\ ~Listed(tb, r.conn)
           /\ r.todo = <<"watch">> => cs[r.conn].server = "listening"
  <2>1. r.todo # <<>> /\ r.todo # <<"stopNotify">> /\ r.todo # <<"remove">>
    BY <1>2 DEF ConnectTodos
  <2> QED BY <1>2, <2>1 DEF Connecting, Closing, Of
<1>3. CASE r.op \in {"gattDisconnect", "unpair"} /\ r.todo = <<"stopNotify">> /\ r.conn \in 1 .. Len(cs) /\ ~Listed(tb, r.conn)
  <2>1. r.todo # <<"remove">> /\ r.conn \in 0 .. Len(cs)
    BY <1>3
  <2> QED BY <1>3, <2>1 DEF Connecting, Closing
<1>4. CASE r.op = "unpair" /\ r.todo = <<"remove">> /\ r.conn \in 0 .. Len(cs) /\ r.dev \in VspDevices
  BY <1>4 DEF Connecting, Closing
<1>5. CASE r.op = "signal" /\ r.todo = <<"notify">> /\ Of(r, cs)
  BY <1>5 DEF Connecting, Closing, Of
<1>6. CASE r.op = "restore" /\ r.todo \in RestoreTodos /\ Of(r, cs) /\ cs[r.conn].path # NoPath
  <2>1. r.todo # <<"stopNotify">> /\ r.todo # <<"remove">> /\ r.conn \in 0 .. Len(cs)
    BY <1>6 DEF RestoreTodos, Of
  <2> QED BY <1>6, <2>1 DEF Connecting, Closing
<1> QED BY <1>1, <1>2, <1>3, <1>4, <1>5, <1>6 DEF CoGood

LEMMA WatchFacts ==
    ASSUME NEW r, NEW cs, NEW tb, CoGood(r, cs, tb), Len(cs) \in Nat, r.todo = <<"watch">>
    PROVE  Connecting(r) /\ Of(r, cs) /\ ~Listed(tb, r.conn) /\ cs[r.conn].server = "listening"
<1>1. <<"watch">> \notin RestoreTodos \cup {<<>>, <<"stopNotify">>, <<"remove">>, <<"notify">>}
  BY DEF RestoreTodos
<1>2. Over.todo = <<>>
  BY DEF Over
<1>3. r.op = "gattConnect"
  BY <1>1, <1>2 DEF CoGood
<1> QED BY <1>3, CoFacts

LEMMA CoKeeps ==
    ASSUME NEW r, NEW cs, NEW ds, NEW tb, NEW ub, CoGood(r, cs, tb), Len(cs) \in Nat, Len(ds) \in Nat, Len(cs) <= Len(ds),
           \A k \in 1 .. Len(cs) : ds[k].dev = cs[k].dev /\ (cs[k].path # NoPath => ds[k].path # NoPath),
           r.todo = <<"watch">> => ds[r.conn].server = cs[r.conn].server,
           (Connecting(r) \/ Closing(r)) /\ ~Listed(tb, r.conn) => ~Listed(ub, r.conn)
    PROVE  CoGood(r, ds, ub)
<1>1. \A k \in 1 .. Len(cs) : k \in 1 .. Len(ds)
  OBVIOUS
<1>2. \A k \in 0 .. Len(cs) : k \in 0 .. Len(ds)
  OBVIOUS
<1>3. ASSUME Of(r, cs)
      PROVE  Of(r, ds)
  BY <1>1, <1>3 DEF Of
<1>4. CASE r = Over
  BY <1>4 DEF CoGood
<1>5. CASE /\ r.op = "gattConnect" /\ r.todo \in ConnectTodos /\ Of(r, cs) /\ ~Listed(tb, r.conn)
           /\ r.todo = <<"watch">> => cs[r.conn].server = "listening"
  <2>1. r.todo # <<>>
    <3>1. <<>> \notin ConnectTodos
      BY DEF ConnectTodos
    <3> QED BY <1>5, <3>1
  <2>2. Connecting(r)
    BY <1>5, <2>1 DEF Connecting
  <2>3. Of(r, ds) /\ ~Listed(ub, r.conn)
    BY <1>3, <1>5, <2>2
  <2>4. r.todo = <<"watch">> => ds[r.conn].server = "listening"
    BY <1>5
  <2> QED BY <1>5, <2>3, <2>4 DEF CoGood
<1>6. CASE r.op \in {"gattDisconnect", "unpair"} /\ r.todo = <<"stopNotify">> /\ r.conn \in 1 .. Len(cs) /\ ~Listed(tb, r.conn)
  BY <1>1, <1>6 DEF CoGood, Closing
<1>7. CASE r.op = "unpair" /\ r.todo = <<"remove">> /\ r.conn \in 0 .. Len(cs) /\ r.dev \in VspDevices
  BY <1>2, <1>7 DEF CoGood
<1>8. CASE r.op = "signal" /\ r.todo = <<"notify">> /\ Of(r, cs)
  BY <1>3, <1>8 DEF CoGood
<1>9. CASE r.op = "restore" /\ r.todo \in RestoreTodos /\ Of(r, cs) /\ cs[r.conn].path # NoPath
  BY <1>3, <1>9 DEF CoGood, Of
<1> QED BY <1>4, <1>5, <1>6, <1>7, <1>8, <1>9 DEF CoGood

(* The bytes are not concerned when connections change otherwise, or are made. *)
LEMMA TcpKeeps ==
    ASSUME VspTyped, TcpGood, tcp' = tcp, Len(conns') \in Nat, Len(conns) <= Len(conns'),
           \A k \in 1 .. Len(conns) : SameData(conns[k], conns'[k]),
           \A k \in 1 .. Len(conns') : k \notin 1 .. Len(conns) => conns'[k].rx = <<>> /\ conns'[k].sent = <<>>
    PROVE  TcpGood'
<1>1. WriteSize \in Nat \ {0} /\ Len(conns) \in Nat
  BY VspAssumption, LenProperties DEF VspTyped
<1>2. tcp' \in [TcpClients -> TcpSet] /\ \A c \in TcpClients : tcp'[c].phase = "new" => tcp'[c].heard = 0
  BY DEF TcpGood
<1>3. ASSUME NEW c \in TcpClients, tcp'[c].phase \notin {"new", "gone"}
      PROVE  tcp'[c].conn \in 1 .. Len(conns')
  BY <1>1, <1>3 DEF TcpGood
<1>4. ASSUME NEW k \in 1 .. Len(conns'), ~conns'[k].crowded
      PROVE  /\ BytesGood(conns'[k], tcp')
             /\ \A c \in TcpClients : Upon(c, k)' => Single(c, k)'
             /\ (\A c \in TcpClients : ~Upon(c, k)') => Len(conns'[k].rx) < WriteSize
  <2>1. CASE k \in 1 .. Len(conns)
    <3>1. /\ conns'[k].rx = conns[k].rx /\ conns'[k].sent = conns[k].sent /\ conns'[k].client = conns[k].client
          /\ ~conns[k].crowded
      BY <1>4, <2>1 DEF SameData
    <3>2. \A c \in TcpClients : (Upon(c, k)' <=> Upon(c, k)) /\ (Single(c, k) => Single(c, k)')
      BY <3>1 DEF Upon, Single
    <3>3. BytesGood(conns[k], tcp)
      BY <2>1, <3>1 DEF TcpGood
    <3>4. BytesGood(conns'[k], tcp')
      BY <3>1, <3>3 DEF BytesGood
    <3> QED BY <2>1, <3>1, <3>2, <3>4 DEF TcpGood
  <2>2. CASE k \notin 1 .. Len(conns)
    <3>1. conns'[k].rx = <<>> /\ conns'[k].sent = <<>>
      BY <2>2
    <3>2. \A c \in TcpClients : ~Upon(c, k)'
      BY <2>2 DEF Upon, TcpGood
    <3>3. BytesGood(conns'[k], tcp')
      BY <1>1, <3>1 DEF BytesGood, Ordered, Before, Uttered
    <3> QED BY <1>1, <3>1, <3>2, <3>3
  <2> QED BY <2>1, <2>2
<1> QED BY <1>2, <1>3, <1>4 DEF TcpGood

(* A step after which every connection is as good for those that rely on it. *)
LEMMA SteadyControl ==
    ASSUME VspInv, Len(conns') = Len(conns), table' = table,
           \A k \in 1 .. Len(conns) : HoldsTo(conns[k], conns'[k]) /\ ConnGood(conns'[k])
    PROVE  ConnsGood' /\ TableGood' /\ \A u \in 1 .. Len(co) : CoGood(co[u], conns', table')
<1>1. Len(conns) \in Nat /\ VspTyped /\ TcpGood /\ TableGood /\ CosGood
  BY LenProperties DEF VspInv, VspTyped
<1>2. ConnsGood'
  BY DEF ConnsGood
<1>3. TableGood'
  <2>1. ASSUME NEW d \in VspDevices, table'[d] # 0
        PROVE  /\ table'[d] \in 1 .. Len(conns')
               /\ LET c == conns'[table'[d]] IN c.dev = d /\ c.server = "listening" /\ c.devProp # NoPath /\ c.path # NoPath
    BY <1>1, <2>1 DEF TableGood, HoldsTo
  <2> QED BY <2>1 DEF TableGood
<1>4. ASSUME NEW u \in 1 .. Len(co)
      PROVE  CoGood(co[u], conns', table')
  <2>1. CoGood(co[u], conns, table)
    BY <1>1 DEF CosGood
  <2>2. \A k \in 1 .. Len(conns) : conns'[k].dev = conns[k].dev /\ (conns[k].path # NoPath => conns'[k].path # NoPath)
    BY DEF HoldsTo
  <2>3. co[u].todo = <<"watch">> => conns'[co[u].conn].server = conns[co[u].conn].server
    <3>1. co[u].todo = <<"watch">> => Of(co[u], conns)
      BY <1>1, <2>1, WatchFacts
    <3> QED BY <3>1 DEF HoldsTo, Of
  <2> QED BY <1>1, <2>1, <2>2, <2>3, CoKeeps
<1> QED BY <1>2, <1>3, <1>4

LEMMA Steady ==
    ASSUME VspInv, Len(conns') = Len(conns), table' = table, tcp' = tcp,
           \A k \in 1 .. Len(conns) :
              HoldsTo(conns[k], conns'[k]) /\ ConnGood(conns'[k]) /\ SameData(conns[k], conns'[k])
    PROVE  ConnsGood' /\ TableGood' /\ TcpGood' /\ \A u \in 1 .. Len(co) : CoGood(co[u], conns', table')
<1>1. Len(conns) \in Nat /\ VspTyped /\ TcpGood
  BY LenProperties DEF VspInv, VspTyped
<1>2. TcpGood'
  BY <1>1, TcpKeeps
<1> QED BY <1>2, SteadyControl

LEMMA CoIs ==
    ASSUME CosGood, NEW t \in 1 .. Len(co)
    PROVE  co[t] \in CoSet /\ CoGood(co[t], conns, table) /\ Len(co) \in Nat /\ DOMAIN co = 1 .. Len(co)
<1>1. co \in Seq(CoSet) /\ CoGood(co[t], conns, table)
  BY DEF CosGood
<1> QED BY <1>1, ElementOfSeq, LenProperties

(* What a coroutine has before it and after it, by where it is. *)
LEMMA CoAt ==
    ASSUME CosGood, Len(conns) \in Nat, NEW t \in 1 .. Len(co), NEW stage, Doing(t, stage)
    PROVE  /\ stage = "find" => \/ co[t].op = "gattConnect" /\ co[t].todo = <<"find", "notify", "serve", "watch">>
                                \/ co[t].op = "restore" /\ co[t].todo = <<"find", "notify">>
           /\ stage = "notify" => \/ co[t].op = "gattConnect" /\ co[t].todo = <<"notify", "serve", "watch">>
                                  \/ co[t].op \in {"signal", "restore"} /\ co[t].todo = <<"notify">>
           /\ stage = "serve" => co[t].op = "gattConnect" /\ co[t].todo = <<"serve", "watch">>
           /\ stage = "watch" => co[t].op = "gattConnect" /\ co[t].todo = <<"watch">>
           /\ stage = "stopNotify" => Closing(co[t])
           /\ stage = "remove" => co[t].todo = <<"remove">>
           /\ stage = "lookup" => co[t].op = "restore" /\ co[t].todo = <<"lookup", "rewatch">>
           /\ stage = "rewatch" => co[t].op = "restore" /\ co[t].todo = <<"rewatch">>
<1> DEFINE r == co[t]
<1>1. CoGood(r, conns, table) /\ Head(r.todo) = stage /\ r.todo # <<>>
  BY CoIs DEF Doing
<1> HIDE DEF r
<1>2. CASE r = Over
  BY <1>1, <1>2, OverIs
<1>3. CASE r.op = "gattConnect" /\ r.todo \in ConnectTodos
  <2>1. CASE r.todo = <<"find", "notify", "serve", "watch">>
    <3>1. stage = "find"
      BY <1>1, <2>1
    <3> QED BY <1>3, <2>1, <3>1 DEF r
  <2>2. CASE r.todo = <<"notify", "serve", "watch">>
    <3>1. stage = "notify"
      BY <1>1, <2>2
    <3> QED BY <1>3, <2>2, <3>1 DEF r
  <2>3. CASE r.todo = <<"serve", "watch">>
    <3>1. stage = "serve"
      BY <1>1, <2>3
    <3> QED BY <1>3, <2>3, <3>1 DEF r
  <2>4. CASE r.todo = <<"watch">>
    <3>1. stage = "watch"
      BY <1>1, <2>4
    <3> QED BY <1>3, <2>4, <3>1 DEF r
  <2> QED BY <1>3, <2>1, <2>2, <2>3, <2>4 DEF ConnectTodos
<1>4. CASE r.todo = <<"stopNotify">>
  <2>1. stage = "stopNotify"
    BY <1>1, <1>4
  <2> QED BY <1>4, <2>1 DEF r, Closing
<1>5. CASE r.todo = <<"remove">>
  <2>1. stage = "remove"
    BY <1>1, <1>5
  <2> QED BY <1>5, <2>1 DEF r
<1>6. CASE r.op = "signal" /\ r.todo = <<"notify">>
  <2>1. stage = "notify"
    BY <1>1, <1>6
  <2> QED BY <1>6, <2>1 DEF r
<1>7. CASE r.op = "restore" /\ r.todo \in RestoreTodos
  <2>1. CASE r.todo = <<"lookup", "rewatch">>
    <3>1. stage = "lookup"
      BY <1>1, <2>1
    <3> QED BY <1>7, <2>1, <3>1 DEF r
  <2>2. CASE r.todo = <<"rewatch">>
    <3>1. stage = "rewatch"
      BY <1>1, <2>2
    <3> QED BY <1>7, <2>2, <3>1 DEF r
  <2>3. CASE r.todo = <<"find", "notify">>
    <3>1. stage = "find"
      BY <1>1, <2>3
    <3> QED BY <1>7, <2>3, <3>1 DEF r
  <2>4. CASE r.todo = <<"notify">>
    <3>1. stage = "notify"
      BY <1>1, <2>4
    <3> QED BY <1>7, <2>4, <3>1 DEF r
  <2> QED BY <1>7, <2>1, <2>2, <2>3, <2>4 DEF RestoreTodos
<1> QED BY <1>1, <1>2, <1>3, <1>4, <1>5, <1>6, <1>7 DEF CoGood

(* One coroutine goes on: it connects no other connection than before, and closes none that *)
(* another one connects.                                                                      *)
LEMMA CoTurns ==
    ASSUME CosGood, NEW t \in 1 .. Len(co), NEW r \in CoSet, co' = [co EXCEPT ![t] = r],
           \A u \in 1 .. Len(co) : u # t => CoGood(co[u], conns', table'), CoGood(r, conns', table'),
           Connecting(r) => Connecting(co[t]) /\ r.conn = co[t].conn,
           Closing(r) => \A u \in 1 .. Len(co) : Connecting(co[u]) => co[u].conn # r.conn
    PROVE  CosGood'
<1>1. /\ co' \in Seq(CoSet) /\ Len(co') = Len(co) /\ co'[t] = r
      /\ \A u \in 1 .. Len(co) : u # t => co'[u] = co[u]
  <2>1. co \in Seq(CoSet)
    BY DEF CosGood
  <2> QED BY <2>1, ExceptSeq
<1>2. \A u \in 1 .. Len(co') : CoGood(co'[u], conns', table')
  BY <1>1
<1>3. \A u, v \in 1 .. Len(co) : u # v => Apart(co[u], co[v])
  BY DEF CosGood
<1>4. ASSUME NEW u \in 1 .. Len(co'), NEW v \in 1 .. Len(co'), u # v
      PROVE  Apart(co'[u], co'[v])
  <2>1. CASE u # t /\ v # t
    BY <1>1, <1>3, <1>4, <2>1
  <2>2. CASE u = t
    <3>1. v # t /\ co'[v] = co[v] /\ co'[u] = r /\ Apart(co[t], co[v])
      BY <1>1, <1>3, <1>4, <2>2
    <3> QED BY <3>1 DEF Apart
  <2>3. CASE v = t
    <3>1. u # t /\ co'[u] = co[u] /\ co'[v] = r /\ Apart(co[u], co[t])
      BY <1>1, <1>3, <1>4, <2>3
    <3> QED BY <1>1, <3>1 DEF Apart
  <2> QED BY <2>1, <2>2, <2>3
<1> QED BY <1>1, <1>2, <1>4 DEF CosGood

LEMMA CoEnds ==
    ASSUME CosGood, NEW t \in 1 .. Len(co), co' = [co EXCEPT ![t] = Over],
           \A u \in 1 .. Len(co) : u # t => CoGood(co[u], conns', table')
    PROVE  CosGood'
BY OverIs, CoTurns

LEMMA CoStays ==
    ASSUME CosGood, co' = co, \A u \in 1 .. Len(co) : CoGood(co[u], conns', table')
    PROVE  CosGood'
BY DEF CosGood

(* Coroutines start: several only if they neither connect nor close. *)
LEMMA CoStarts ==
    ASSUME CosGood, NEW rs \in Seq(CoSet), co' = co \o rs, \A u \in 1 .. Len(co) : CoGood(co[u], conns', table'),
           \A i \in 1 .. Len(rs) :
              /\ CoGood(rs[i], conns', table')
              /\ Connecting(rs[i]) => Len(rs) = 1 /\ \A u \in 1 .. Len(co) : co[u].conn # rs[i].conn
              /\ Closing(rs[i]) => Len(rs) = 1 /\ \A u \in 1 .. Len(co) : Connecting(co[u]) => co[u].conn # rs[i].conn
    PROVE  CosGood'
<1> DEFINE m == Len(co)
           n == Len(rs)
<1>1. co \in Seq(CoSet) /\ m \in Nat /\ n \in Nat
  BY LenProperties DEF CosGood
<1>2. /\ co' \in Seq(CoSet) /\ Len(co') = m + n
      /\ \A i \in 1 .. m + n : co'[i] = IF i <= m THEN co[i] ELSE rs[i - m]
  BY <1>1, ConcatProperties
<1>3. \A u, v \in 1 .. m : u # v => Apart(co[u], co[v])
  BY DEF CosGood
<1> HIDE DEF m, n
<1>4. ASSUME NEW i \in 1 .. m + n
      PROVE  (i \in 1 .. m /\ co'[i] = co[i]) \/ (i \notin 1 .. m /\ i - m \in 1 .. n /\ co'[i] = rs[i - m])
  BY <1>1, <1>2
<1>5. \A i \in 1 .. Len(co') : CoGood(co'[i], conns', table')
  BY <1>2, <1>4 DEF m, n
<1>6. ASSUME NEW i \in 1 .. m + n, NEW j \in 1 .. m + n, i # j
      PROVE  Apart(co'[i], co'[j])
  <2>1. CASE i \in 1 .. m /\ j \in 1 .. m
    BY <1>3, <1>4, <1>6, <2>1
  <2>2. CASE i \in 1 .. m /\ j \notin 1 .. m
    <3>1. co'[i] = co[i] /\ j - m \in 1 .. n /\ co'[j] = rs[j - m]
      BY <1>4, <2>2
    <3> QED BY <2>2, <3>1 DEF Apart, m, n
  <2>3. CASE i \notin 1 .. m /\ j \in 1 .. m
    <3>1. co'[j] = co[j] /\ i - m \in 1 .. n /\ co'[i] = rs[i - m]
      BY <1>4, <2>3
    <3> QED BY <2>3, <3>1 DEF Apart, m, n
  <2>4. CASE i \notin 1 .. m /\ j \notin 1 .. m
    <3>1. i - m \in 1 .. n /\ co'[i] = rs[i - m] /\ j - m \in 1 .. n
      BY <1>4, <2>4
    <3>2. n = 1 => i = j
      BY <1>1, <3>1
    <3>3. Connecting(rs[i - m]) => n = 1
      BY <3>1 DEF n
    <3>4. ~Connecting(co'[i])
      BY <1>6, <3>1, <3>2, <3>3
    <3> QED BY <3>4 DEF Apart
  <2> QED BY <2>1, <2>2, <2>3, <2>4
<1> QED BY <1>2, <1>5, <1>6 DEF CosGood

LEMMA CoStartsOne ==
    ASSUME CosGood, NEW r \in CoSet, co' = co \o <<r>>, \A u \in 1 .. Len(co) : CoGood(co[u], conns', table'),
           CoGood(r, conns', table'),
           Connecting(r) => \A u \in 1 .. Len(co) : co[u].conn # r.conn,
           Closing(r) => \A u \in 1 .. Len(co) : Connecting(co[u]) => co[u].conn # r.conn
    PROVE  CosGood'
<1> DEFINE rs == <<r>>
<1>1. rs \in Seq(CoSet) /\ Len(rs) = 1 /\ \A i \in 1 .. Len(rs) : rs[i] = r
  OBVIOUS
<1>2. co' = co \o rs
  OBVIOUS
<1> HIDE DEF rs
<1> QED BY <1>1, <1>2, CoStarts

-----------------------------------------------------------------------------
(* Steps of the coroutines that leave the connections to those that rely on them. *)
LEMMA VspBasics ==
    ASSUME VspInv
    PROVE  /\ VspTyped /\ ConnsGood /\ TableGood /\ CosGood /\ TcpGood
           /\ Len(conns) \in Nat /\ DOMAIN conns = 1 .. Len(conns) /\ Len(co) \in Nat /\ DOMAIN co = 1 .. Len(co)
           /\ \A t \in 1 .. Len(co) : co[t] \in CoSet /\ CoGood(co[t], conns, table)
           /\ \A k \in 1 .. Len(conns) : conns[k] \in ConnSet /\ ConnGood(conns[k])
<1>1. VspTyped /\ ConnsGood /\ TableGood /\ CosGood /\ TcpGood
  BY DEF VspInv
<1>2. conns \in Seq(ConnSet) /\ co \in Seq(CoSet)
  BY <1>1 DEF VspTyped, CosGood
<1>3. Len(conns) \in Nat /\ DOMAIN conns = 1 .. Len(conns) /\ Len(co) \in Nat /\ DOMAIN co = 1 .. Len(co)
  BY <1>2, LenProperties
<1> QED BY <1>1, <1>3, CoIs, ConnIs DEF ConnsGood

(* The devices that BlueZ has, by their paths. *)
LEMMA PathsAre ==
    ASSUME VspTyped
    PROVE  /\ \A d \in there : PathOf(d) \in DevicePaths /\ d \in VspDevices
           /\ \A d \in VspDevices : PathOf(d) # NoPath /\ PathOf(d)[1] = d /\ d # "none"
           /\ NoPath \notin DevicePaths /\ NoPath[1] = "none"
           /\ \A p \in DevicePaths : p[1] \in VspDevices
BY VspAssumption DEF VspTyped, PathOf, DevicePaths, NoPath

(* A connection changes that is as good for those that rely on it. *)
LEMMA SteadyOne ==
    ASSUME VspInv, NEW k \in 1 .. Len(conns), NEW c \in ConnSet, conns' = [conns EXCEPT ![k] = c],
           table' = table, tcp' = tcp, HoldsTo(conns[k], c), ConnGood(c), SameData(conns[k], c)
    PROVE  /\ conns' \in Seq(ConnSet) /\ Len(conns') = Len(conns) /\ conns'[k] = c
           /\ ConnsGood' /\ TableGood' /\ TcpGood' /\ \A u \in 1 .. Len(co) : CoGood(co[u], conns', table')
<1>1. /\ conns' \in Seq(ConnSet) /\ Len(conns') = Len(conns) /\ conns'[k] = c
      /\ \A j \in 1 .. Len(conns) : j # k => conns'[j] = conns[j]
  BY VspBasics, ConnChanges
<1>2. ASSUME NEW j \in 1 .. Len(conns)
      PROVE  HoldsTo(conns[j], conns'[j]) /\ ConnGood(conns'[j]) /\ SameData(conns[j], conns'[j])
  <2>1. CASE j = k
    BY <1>1, <2>1
  <2>2. CASE j # k
    BY <1>1, <2>2, VspBasics DEF HoldsTo, SameData
  <2> QED BY <2>1, <2>2
<1> QED BY <1>1, <1>2, Steady

LEMMA SteadyNone ==
    ASSUME VspInv, UNCHANGED <<conns, table, tcp>>
    PROVE  /\ ConnsGood' /\ TableGood' /\ TcpGood' /\ \A u \in 1 .. Len(co) : CoGood(co[u], conns', table')
<1>1. \A j \in 1 .. Len(conns) : HoldsTo(conns[j], conns'[j]) /\ ConnGood(conns'[j]) /\ SameData(conns[j], conns'[j])
  BY VspBasics DEF HoldsTo, SameData
<1> QED BY <1>1, Steady

LEMMA TodosAre ==
    /\ \A todo \in {<<"notify", "serve", "watch">>, <<"serve", "watch">>} : todo \in ConnectTodos /\ todo # <<"watch">>
    /\ <<"watch">> \in ConnectTodos /\ <<"find", "notify", "serve", "watch">> \in ConnectTodos
    /\ {<<"notify">>, <<"find", "notify">>, <<"rewatch">>, <<"lookup", "rewatch">>} \subseteq RestoreTodos
    /\ <<>> \notin ConnectTodos \cup RestoreTodos /\ <<"stopNotify">> \notin ConnectTodos \cup RestoreTodos
<1>1. <<"notify", "serve", "watch">> # <<"watch">> /\ <<"serve", "watch">> # <<"watch">>
  OBVIOUS
<1> QED BY <1>1 DEF ConnectTodos, RestoreTodos

LEMMA CoNext ==
    ASSUME NEW r \in CoSet, NEW cs, NEW tb, CoGood(r, cs, tb), Len(cs) \in Nat, NEW todo,
           \/ r.op = "gattConnect" /\ todo \in ConnectTodos /\ (todo = <<"watch">> => cs[r.conn].server = "listening")
           \/ r.op = "restore" /\ todo \in RestoreTodos
    PROVE  LET q == [r EXCEPT !.todo = todo] IN
              /\ q \in CoSet /\ CoGood(q, cs, tb) /\ ~Closing(q) /\ q.conn = r.conn
              /\ Connecting(q) => Connecting(r)
<1> DEFINE q == [r EXCEPT !.todo = todo]
<1>1. todo \in VspTodos
  BY DEF VspTodos
<1>2. q \in CoSet /\ q.op = r.op /\ q.conn = r.conn /\ q.dev = r.dev /\ q.todo = todo
  <2> HIDE DEF VspTodos
  <2> QED BY <1>1 DEF CoSet
<1> HIDE DEF q
<1>3. CASE r.op = "gattConnect" /\ todo \in ConnectTodos /\ (todo = <<"watch">> => cs[r.conn].server = "listening")
  <2>1. Connecting(r) /\ Of(r, cs) /\ ~Listed(tb, r.conn)
    BY <1>3, CoFacts
  <2>2. CoGood(q, cs, tb)
    BY <1>2, <1>3, <2>1 DEF CoGood, Of
  <2> QED BY <1>2, <1>3, <2>1, <2>2, TodosAre DEF q, Closing
<1>4. CASE r.op = "restore" /\ todo \in RestoreTodos
  <2>1. Of(r, cs) /\ cs[r.conn].path # NoPath
    BY <1>4, CoFacts
  <2>2. CoGood(q, cs, tb)
    BY <1>2, <1>4, <2>1 DEF CoGood, Of
  <2> QED BY <1>2, <1>4, <2>2, TodosAre DEF q, Closing, Connecting
<1> QED BY <1>3, <1>4

LEMMA CoGoesOn ==
    ASSUME VspInv, NEW t \in 1 .. Len(co), NEW todo, co' = [co EXCEPT ![t] = [co[t] EXCEPT !.todo = todo]],
           \A u \in 1 .. Len(co) : CoGood(co[u], conns', table'), Len(conns') \in Nat,
           \/ co[t].op = "gattConnect" /\ todo \in ConnectTodos
              /\ (todo = <<"watch">> => conns'[co[t].conn].server = "listening")
           \/ co[t].op = "restore" /\ todo \in RestoreTodos
    PROVE  CosGood'
<1> DEFINE q == [co[t] EXCEPT !.todo = todo]
           r == co[t]
<1>1. r \in CoSet /\ CoGood(r, conns', table') /\ CosGood
  BY VspBasics
<1>2. /\ q \in CoSet /\ CoGood(q, conns', table') /\ ~Closing(q) /\ q.conn = co[t].conn
      /\ Connecting(q) => Connecting(co[t])
  <2>1. \/ r.op = "gattConnect" /\ todo \in ConnectTodos /\ (todo = <<"watch">> => conns'[r.conn].server = "listening")
        \/ r.op = "restore" /\ todo \in RestoreTodos
    OBVIOUS
  <2> DEFINE cs == conns'
             tb == table'
  <2>2. q = [r EXCEPT !.todo = todo] /\ CoGood(r, cs, tb) /\ Len(cs) \in Nat
    BY <1>1
  <2> HIDE DEF r, q, cs, tb
  <2>3. q \in CoSet /\ CoGood(q, cs, tb) /\ ~Closing(q) /\ q.conn = r.conn /\ (Connecting(q) => Connecting(r))
    BY <1>1, <2>1, <2>2, CoNext DEF cs
  <2> QED BY <2>3 DEF r, cs, tb
<1>3. co' = [co EXCEPT ![t] = q]
  OBVIOUS
<1> HIDE DEF q
<1> QED BY <1>1, <1>2, <1>3, CoTurns

LEMMA VspTypedKeeps ==
    ASSUME VspTyped, UNCHANGED <<hci, there, resolved>>, conns' \in Seq(ConnSet), table' \in [VspDevices -> Nat]
    PROVE  VspTyped'
BY DEF VspTyped

LEMMA VspTypedStays ==
    ASSUME VspTyped, UNCHANGED bluez, conns' \in Seq(ConnSet), table' \in [VspDevices -> Nat]
    PROVE  VspTyped'
BY DEF VspTyped, bluez

(* A coroutine looks for the service: one that was listed before keeps its device. *)
LEMMA StepCreates ==
    ASSUME VspInv, NEW t \in 1 .. Len(co), CreateVspService(t)
    PROVE  VspInv'
<1> DEFINE k == co[t].conn
           c == conns[k]
           q == Continue(t)
<1>1. /\ Doing(t, "find") /\ UNCHANGED <<bluez, table, tcp>>
      /\ co' = [co EXCEPT ![t] = Over] \/ co' = [co EXCEPT ![t] = q]
      /\ conns' = conns \/ \E p \in VspServices(c) : conns' = [conns EXCEPT ![k].read = p, ![k].write = p]
  BY DEF CreateVspService, Step
<1>2. CoGood(co[t], conns, table) /\ co[t] \in CoSet /\ k \in 1 .. Len(conns) /\ co[t].dev = c.dev /\ c \in ConnSet /\ ConnGood(c)
  <2>1. co[t].op \in {"gattConnect", "restore"}
    BY <1>1, CoAt, VspBasics
  <2>2. Of(co[t], conns)
    BY <2>1, CoFacts, VspBasics
  <2> QED BY <2>2, VspBasics DEF Of
<1>3. /\ conns' \in Seq(ConnSet) /\ Len(conns') = Len(conns) /\ ConnsGood' /\ TableGood' /\ TcpGood'
      /\ \A u \in 1 .. Len(co) : CoGood(co[u], conns', table')
  <2>1. CASE conns' = conns
    BY <1>1, <2>1, SteadyNone, VspBasics DEF VspTyped
  <2>2. CASE \E p \in VspServices(c) : conns' = [conns EXCEPT ![k].read = p, ![k].write = p]
    <3>1. PICK p \in VspServices(c) : conns' = [conns EXCEPT ![k].read = p, ![k].write = p]
      BY <2>2
    <3> DEFINE e == [c EXCEPT !.read = p, !.write = p]
    <3>2. p \in DevicePaths /\ c.path \in {NoPath, p}
      BY VspBasics, PathsAre DEF VspServices, VspTyped
    <3>3. e \in ConnSet /\ HoldsTo(c, e) /\ SameData(c, e)
      BY <1>2, <3>2 DEF ConnSet, AnyPath, HoldsTo, SameData
    <3>4. ConnGood(e)
      BY <1>2, <3>2 DEF ConnSet, ConnGood
    <3>5. conns' = [conns EXCEPT ![k] = e]
      BY <3>1
    <3> HIDE DEF e, c, k
    <3> QED BY <1>1, <1>2, <3>3, <3>4, <3>5, SteadyOne DEF c
  <2> QED BY <1>1, <2>1, <2>2
<1>4. CASE co' = [co EXCEPT ![t] = Over]
  <2>1. CosGood'
    BY <1>3, <1>4, CoEnds, VspBasics
  <2> QED BY <1>1, <1>3, <2>1, VspTypedStays, VspBasics DEF VspInv, VspTyped
<1>5. CASE co' = [co EXCEPT ![t] = q]
  <2>1. \E todo : /\ q = [co[t] EXCEPT !.todo = todo]
                  /\ \/ co[t].op = "gattConnect" /\ todo \in ConnectTodos /\ todo # <<"watch">>
                     \/ co[t].op = "restore" /\ todo \in RestoreTodos
    <3>1. CASE co[t].op = "gattConnect" /\ co[t].todo = <<"find", "notify", "serve", "watch">>
      <4>1. q = [co[t] EXCEPT !.todo = <<"notify", "serve", "watch">>]
        BY <3>1 DEF Continue
      <4> QED BY <3>1, <4>1, TodosAre
    <3>2. CASE co[t].op = "restore" /\ co[t].todo = <<"find", "notify">>
      <4>1. q = [co[t] EXCEPT !.todo = <<"notify">>]
        BY <3>2 DEF Continue
      <4> QED BY <3>2, <4>1, TodosAre
    <3> QED BY <1>1, <3>1, <3>2, CoAt, VspBasics
  <2> HIDE DEF q
  <2>2. CosGood'
    BY <1>3, <1>5, <2>1, VspBasics, CoGoesOn
  <2> QED BY <1>1, <1>3, <2>2, VspTypedStays, VspBasics DEF VspInv, VspTyped
<1> QED BY <1>1, <1>4, <1>5

(* What is listed after a step was listed before, and is not the connection that changes, *)
(* or it is that connection and may be.                                                     *)
Relisted(tb, ub, k, c) ==
    \A d \in VspDevices : ub[d] # 0 =>
        \/ ub[d] = tb[d] /\ ub[d] # k
        \/ ub[d] = k /\ c.dev = d /\ c.server = "listening" /\ c.devProp # NoPath /\ c.path # NoPath

(* A connection changes as far as nobody relies on it, or is listed or forgotten. *)
LEMMA OneChanges ==
    ASSUME VspInv, NEW k \in 1 .. Len(conns), NEW c \in ConnSet, conns' = [conns EXCEPT ![k] = c], tcp' = tcp,
           c.dev = conns[k].dev, conns[k].path # NoPath => c.path # NoPath, ConnGood(c), SameData(conns[k], c),
           Relisted(table, table', k, c)
    PROVE  /\ conns' \in Seq(ConnSet) /\ Len(conns') = Len(conns) /\ conns'[k] = c
           /\ ConnsGood' /\ TableGood' /\ TcpGood'
           /\ \A u \in 1 .. Len(co) :
                 /\ co[u].todo = <<"watch">> /\ co[u].conn = k => c.server = conns[k].server
                 /\ (Connecting(co[u]) \/ Closing(co[u])) /\ ~Listed(table, co[u].conn) => ~Listed(table', co[u].conn)
                 => CoGood(co[u], conns', table')
<1>1. /\ conns' \in Seq(ConnSet) /\ Len(conns') = Len(conns) /\ conns'[k] = c
      /\ \A j \in 1 .. Len(conns) : j # k => conns'[j] = conns[j]
  BY VspBasics, ConnChanges
<1>2. ConnsGood'
  BY <1>1, VspBasics DEF ConnsGood
<1>3. TableGood'
  <2>1. ASSUME NEW d \in VspDevices, table'[d] # 0
        PROVE  /\ table'[d] \in 1 .. Len(conns')
               /\ LET e == conns'[table'[d]] IN e.dev = d /\ e.server = "listening" /\ e.devProp # NoPath /\ e.path # NoPath
    <3>1. CASE table'[d] = table[d] /\ table'[d] # k
      BY <1>1, <2>1, <3>1, VspBasics DEF TableGood
    <3>2. CASE table'[d] = k /\ c.dev = d /\ c.server = "listening" /\ c.devProp # NoPath /\ c.path # NoPath
      BY <1>1, <3>2
    <3> QED BY <2>1, <3>1, <3>2 DEF Relisted
  <2> QED BY <2>1 DEF TableGood
<1>4. TcpGood'
  <2>1. \A j \in 1 .. Len(conns) : SameData(conns[j], conns'[j])
    BY <1>1 DEF SameData
  <2> QED BY <1>1, <2>1, TcpKeeps, VspBasics
<1>5. ASSUME NEW u \in 1 .. Len(co), co[u].todo = <<"watch">> /\ co[u].conn = k => c.server = conns[k].server,
             (Connecting(co[u]) \/ Closing(co[u])) /\ ~Listed(table, co[u].conn) => ~Listed(table', co[u].conn)
      PROVE  CoGood(co[u], conns', table')
  <2>1. CoGood(co[u], conns, table) /\ Len(conns) \in Nat
    BY VspBasics
  <2>2. \A j \in 1 .. Len(conns) : conns'[j].dev = conns[j].dev /\ (conns[j].path # NoPath => conns'[j].path # NoPath)
    BY <1>1
  <2>3. co[u].todo = <<"watch">> => conns'[co[u].conn].server = conns[co[u].conn].server
    <3>1. co[u].todo = <<"watch">> => Of(co[u], conns)
      BY <2>1, WatchFacts
    <3> QED BY <1>1, <1>5, <3>1 DEF Of
  <2>4. Len(conns') \in Nat /\ Len(conns) <= Len(conns')
    BY <1>1, <2>1
  <2>5. (Connecting(co[u]) \/ Closing(co[u])) /\ ~Listed(table, co[u].conn) => ~Listed(table', co[u].conn)
    BY <1>5
  <2> QED BY <2>1, <2>2, <2>3, <2>4, <2>5, CoKeeps
<1> QED BY <1>1, <1>2, <1>3, <1>4, <1>5

(* It changes and is not listed. *)
LEMMA UnlistedOne ==
    ASSUME VspInv, NEW k \in 1 .. Len(conns), NEW c \in ConnSet, conns' = [conns EXCEPT ![k] = c], tcp' = tcp,
           table' = table, ~Listed(table, k),
           c.dev = conns[k].dev, conns[k].path # NoPath => c.path # NoPath, ConnGood(c), SameData(conns[k], c),
           \A u \in 1 .. Len(co) : co[u].todo = <<"watch">> => co[u].conn # k
    PROVE  /\ conns' \in Seq(ConnSet) /\ Len(conns') = Len(conns) /\ conns'[k] = c
           /\ ConnsGood' /\ TableGood' /\ TcpGood' /\ \A u \in 1 .. Len(co) : CoGood(co[u], conns', table')
<1>1. Relisted(table, table', k, c)
  BY DEF Listed, Relisted
<1> QED BY <1>1, OneChanges

(* What a coroutine connects, no other one connects or closes. *)
LEMMA Alone ==
    ASSUME VspInv, NEW t \in 1 .. Len(co), NEW u \in 1 .. Len(co), u # t, co[u].conn = co[t].conn
    PROVE  /\ Connecting(co[t]) => ~Closing(co[u]) /\ ~Connecting(co[u]) /\ co[u].todo # <<"watch">>
           /\ Closing(co[t]) => ~Connecting(co[u]) /\ co[u].todo # <<"watch">>
<1>1. Apart(co[t], co[u]) /\ Apart(co[u], co[t])
  BY VspBasics DEF CosGood
<1>2. co[u].todo = <<"watch">> => Connecting(co[u])
  BY VspBasics, WatchFacts
<1> QED BY <1>1, <1>2 DEF Apart

LEMMA WatchingIs ==
    ASSUME NEW c \in ConnSet, ConnGood(c), NEW way \in DevicePaths, way[1] = c.dev
    PROVE  LET e == Watching(c, way) IN
              /\ e \in ConnSet /\ e.dev = c.dev /\ e.path = c.path /\ SameData(c, e) /\ e.server = c.server
              /\ e.devProp = way /\ ConnGood(e)
<1> DEFINE w == [c.watched EXCEPT ![way] = @ + 1]
           e == [c EXCEPT !.devProp = way, !.watched = w]
<1>1. c.watched \in [DevicePaths -> Nat] /\ way \in AnyPath
  BY DEF ConnSet, AnyPath
<1>2. w \in [DevicePaths -> Nat] /\ w[way] > 0 /\ \A p \in DevicePaths : p # way => w[p] = c.watched[p]
  BY <1>1
<1>3. Watching(c, way) = e
  BY DEF Watching
<1> HIDE DEF w
<1>4. e \in ConnSet
  <2> HIDE DEF AnyPath
  <2> QED BY <1>1, <1>2 DEF ConnSet
<1>5. /\ e.dev = c.dev /\ e.path = c.path /\ SameData(c, e) /\ e.server = c.server /\ e.devProp = way
      /\ e.watched = w /\ e.write = c.write /\ e.waiting = c.waiting
  BY DEF ConnSet, SameData
<1> HIDE DEF e
<1>6. ConnGood(e)
  BY <1>2, <1>5 DEF ConnGood
<1> QED BY <1>3, <1>4, <1>5, <1>6

LEMMA StepServes ==
    ASSUME VspInv, NEW t \in 1 .. Len(co), StartServer(t)
    PROVE  VspInv'
<1> DEFINE k == co[t].conn
           c == conns[k]
           e == [c EXCEPT !.server = "listening"]
           q == Continue(t)
<1>1. /\ Doing(t, "serve") /\ UNCHANGED <<bluez, table, tcp>>
      /\ \/ co' = [co EXCEPT ![t] = Over] /\ conns' = conns
         \/ co' = [co EXCEPT ![t] = q] /\ conns' = [conns EXCEPT ![k] = e]
  BY DEF StartServer, Step
<1>2. co[t].op = "gattConnect" /\ co[t].todo = <<"serve", "watch">>
  BY <1>1, CoAt, VspBasics
<1>3. Connecting(co[t]) /\ ~Listed(table, k) /\ k \in 1 .. Len(conns) /\ c \in ConnSet /\ ConnGood(c)
  <2>1. Connecting(co[t]) /\ Of(co[t], conns) /\ ~Listed(table, k)
    BY <1>2, CoFacts, VspBasics
  <2> QED BY <2>1, VspBasics DEF Of
<1>4. CASE co' = [co EXCEPT ![t] = Over] /\ conns' = conns
  <2>1. ConnsGood' /\ TableGood' /\ TcpGood' /\ \A u \in 1 .. Len(co) : CoGood(co[u], conns', table')
    BY <1>1, <1>4, SteadyNone
  <2>2. CosGood'
    BY <1>4, <2>1, CoEnds, VspBasics
  <2> QED BY <1>1, <1>4, <2>1, <2>2, VspTypedStays, VspBasics DEF VspInv, VspTyped
<1>5. CASE co' = [co EXCEPT ![t] = q] /\ conns' = [conns EXCEPT ![k] = e]
  <2>1. e \in ConnSet /\ e.dev = c.dev /\ e.path = c.path /\ SameData(c, e) /\ e.server = "listening"
    BY <1>3 DEF ConnSet, SameData
  <2>2. ConnGood(e)
    BY <1>3 DEF ConnSet, ConnGood
  <2>3. \A u \in 1 .. Len(co) : co[u].todo = <<"watch">> => co[u].conn # k
    <3>1. <<"serve", "watch">> # <<"watch">>
      OBVIOUS
    <3> QED BY <1>2, <1>3, <3>1, Alone
  <2>4. q = [co[t] EXCEPT !.todo = <<"watch">>]
    BY <1>2 DEF Continue
  <2> HIDE DEF e, q
  <2>5. /\ conns' \in Seq(ConnSet) /\ Len(conns') = Len(conns) /\ conns'[k] = e
        /\ ConnsGood' /\ TableGood' /\ TcpGood' /\ \A u \in 1 .. Len(co) : CoGood(co[u], conns', table')
    BY <1>1, <1>3, <1>5, <2>1, <2>2, <2>3, UnlistedOne
  <2>6. CosGood'
    <3>1. \E todo : /\ q = [co[t] EXCEPT !.todo = todo]
                    /\ todo \in ConnectTodos /\ (todo = <<"watch">> => conns'[co[t].conn].server = "listening")
      BY <2>1, <2>4, <2>5, TodosAre
    <3> QED BY <1>2, <1>5, <2>5, <3>1, CoGoesOn, VspBasics
  <2> QED BY <1>1, <2>5, <2>6, VspTypedStays, VspBasics DEF VspInv, VspTyped
<1> QED BY <1>1, <1>4, <1>5

LEMMA StepWatches ==
    ASSUME VspInv, NEW t \in 1 .. Len(co), WatchDevice(t)
    PROVE  VspInv'
<1> DEFINE k == co[t].conn
           c == conns[k]
           e == Watching(c, c.path)
           d == co[t].dev
<1>1. /\ Doing(t, "watch") /\ UNCHANGED <<bluez, tcp>> /\ co' = [co EXCEPT ![t] = Over]
      /\ \/ conns' = conns /\ table' = table
         \/ c.path[1] \in there /\ c.path[2] = hci /\ conns' = [conns EXCEPT ![k] = e] /\ table' = [table EXCEPT ![d] = k]
  BY DEF WatchDevice, Step
<1>2. co[t].op = "gattConnect" /\ co[t].todo = <<"watch">>
  BY <1>1, CoAt, VspBasics
<1>3. /\ Connecting(co[t]) /\ ~Listed(table, k) /\ k \in 1 .. Len(conns) /\ c \in ConnSet /\ ConnGood(c)
      /\ c.server = "listening" /\ c.dev = d /\ d \in VspDevices
  <2>1. Connecting(co[t]) /\ Of(co[t], conns) /\ ~Listed(table, k) /\ c.server = "listening"
    BY <1>2, WatchFacts, VspBasics
  <2> QED BY <2>1, VspBasics DEF Of, ConnSet
<1>4. CASE conns' = conns /\ table' = table
  <2>1. ConnsGood' /\ TableGood' /\ TcpGood' /\ \A u \in 1 .. Len(co) : CoGood(co[u], conns', table')
    BY <1>1, <1>4, SteadyNone
  <2>2. CosGood'
    BY <1>1, <2>1, CoEnds, VspBasics
  <2> QED BY <1>1, <1>4, <2>1, <2>2, VspTypedStays, VspBasics DEF VspInv, VspTyped
<1>5. CASE c.path[1] \in there /\ c.path[2] = hci /\ conns' = [conns EXCEPT ![k] = e] /\ table' = [table EXCEPT ![d] = k]
  <2>1. c.path # NoPath /\ c.path \in DevicePaths
    <3>1. c.path[1] # "none"
      BY <1>5, VspAssumption, VspBasics DEF VspTyped
    <3> QED BY <1>3, <3>1 DEF NoPath, ConnSet, AnyPath
  <2>2. /\ e \in ConnSet /\ e.dev = c.dev /\ e.path = c.path /\ SameData(c, e) /\ e.server = c.server
        /\ e.devProp = c.path /\ ConnGood(e)
    <3>1. c.path[1] = c.dev
      BY <1>3, <2>1 DEF ConnGood
    <3> QED BY <1>3, <2>1, <3>1, WatchingIs
  <2> HIDE DEF e
  <2>4. table \in [VspDevices -> Nat] /\ table' \in [VspDevices -> Nat]
    BY <1>3, <1>5, VspBasics DEF VspTyped
  <2>5. \A a \in VspDevices : table'[a] = IF a = d THEN k ELSE table[a]
    BY <1>3, <1>5, <2>4
  <2>6. \A a \in VspDevices : table[a] # k
    BY <1>3 DEF Listed
  <2>7. Relisted(table, table', k, e)
    BY <1>3, <2>1, <2>2, <2>5, <2>6 DEF Relisted
  <2>8. \A j : Listed(table', j) => Listed(table, j) \/ j = k
    BY <2>5 DEF Listed
  <2>9. /\ conns' \in Seq(ConnSet) /\ Len(conns') = Len(conns)
        /\ ConnsGood' /\ TableGood' /\ TcpGood'
        /\ \A u \in 1 .. Len(co) : u # t => CoGood(co[u], conns', table')
    <3>1. \A u \in 1 .. Len(co) : u # t /\ (Connecting(co[u]) \/ Closing(co[u])) => co[u].conn # k
      BY <1>3, Alone
    <3>2. conns' = [conns EXCEPT ![k] = e] /\ tcp' = tcp /\ k \in 1 .. Len(conns)
      BY <1>1, <1>3, <1>5
    <3>3. e \in ConnSet /\ e.dev = conns[k].dev /\ e.path = conns[k].path /\ SameData(conns[k], e) /\ e.server = conns[k].server /\ ConnGood(e)
      BY <2>2
    <3> HIDE DEF k
    <3>4. /\ conns' \in Seq(ConnSet) /\ Len(conns') = Len(conns)
          /\ ConnsGood' /\ TableGood' /\ TcpGood'
          /\ \A u \in 1 .. Len(co) :
                /\ co[u].todo = <<"watch">> /\ co[u].conn = k => e.server = conns[k].server
                /\ (Connecting(co[u]) \/ Closing(co[u])) /\ ~Listed(table, co[u].conn) => ~Listed(table', co[u].conn)
                => CoGood(co[u], conns', table')
      BY ZenonT(60), <2>7, <3>2, <3>3, OneChanges
    <3> QED BY <2>8, <3>1, <3>3, <3>4
  <2>10. CosGood'
    BY <1>1, <2>9, CoEnds, VspBasics
  <2> QED BY <1>1, <2>4, <2>9, <2>10, VspTypedStays, VspBasics DEF VspInv, VspTyped
<1> QED BY <1>1, <1>4, <1>5

(* Closing a connection, as far as it goes at once. *)
LEMMA StoppedIs ==
    ASSUME NEW c \in ConnSet, ConnGood(c)
    PROVE  LET e == Stopped(c) IN e \in ConnSet /\ e.dev = c.dev /\ e.path = c.path /\ SameData(c, e) /\ ConnGood(e)
<1> DEFINE w == IF c.devProp = NoPath THEN c.watched ELSE [c.watched EXCEPT ![c.devProp] = @ - 1]
           u == [c EXCEPT !.connected = FALSE, !.write = NoPath, !.devProp = NoPath, !.watched = w]
           v == [u EXCEPT !.readProp = NoPath, !.server = "closed"]
<1>1. c.watched \in [DevicePaths -> Nat] /\ c.devProp \in AnyPath /\ NoPath \in AnyPath
  BY DEF ConnSet, AnyPath
<1>2. w \in [DevicePaths -> Nat] /\ \A p \in DevicePaths : w[p] > 0 => c.watched[p] > 0
  <2>1. CASE c.devProp = NoPath
    BY <1>1, <2>1
  <2>2. CASE c.devProp # NoPath
    <3>1. c.devProp \in DevicePaths /\ c.watched[c.devProp] > 0 /\ w = [c.watched EXCEPT ![c.devProp] = @ - 1]
      BY <1>1, <2>2 DEF AnyPath, ConnGood
    <3> QED BY <1>1, <3>1
  <2> QED BY <2>1, <2>2
<1>3. Unwatched(c) = u
  BY DEF Unwatched
<1>4. Stopped(c) = v \/ Stopped(c) = u
  BY <1>3 DEF Stopped, ServerClosed
<1> HIDE DEF w
<1>5. /\ u \in ConnSet /\ u.dev = c.dev /\ u.path = c.path /\ SameData(c, u)
      /\ u.devProp = NoPath /\ u.watched = w /\ u.write = NoPath /\ u.waiting = c.waiting
  <2> HIDE DEF AnyPath
  <2> QED BY <1>1, <1>2 DEF ConnSet, SameData
<1> HIDE DEF u
<1>6. /\ v \in ConnSet /\ v.dev = u.dev /\ v.path = u.path /\ SameData(u, v)
      /\ v.devProp = u.devProp /\ v.watched = u.watched /\ v.write = u.write /\ v.waiting = u.waiting
  <2> HIDE DEF AnyPath
  <2> QED BY <1>1, <1>5 DEF ConnSet, SameData
<1> HIDE DEF v
<1>7. ConnGood(u)
  BY <1>2, <1>5 DEF ConnGood, NoPath
<1>8. ConnGood(v)
  BY <1>6, <1>7 DEF ConnGood
<1> QED BY <1>4, <1>5, <1>6, <1>7, <1>8 DEF SameData

(* A connection is forgotten and stopped: nobody connects it. *)
LEMMA Unlists ==
    ASSUME VspInv, NEW d \in VspDevices, table[d] # 0, tcp' = tcp, table' = Forget(d),
           conns' = [conns EXCEPT ![table[d]] = Stopped(@)]
    PROVE  LET k == table[d] IN
              /\ k \in 1 .. Len(conns) /\ conns[k] \in ConnSet /\ conns[k].dev = d
              /\ conns' \in Seq(ConnSet) /\ Len(conns') = Len(conns) /\ table' \in [VspDevices -> Nat]
              /\ ConnsGood' /\ TableGood' /\ TcpGood' /\ \A u \in 1 .. Len(co) : CoGood(co[u], conns', table')
              /\ ~Listed(table', k) /\ \A u \in 1 .. Len(co) : Connecting(co[u]) => co[u].conn # k
<1> DEFINE k == table[d]
           c == conns[k]
           e == Stopped(c)
<1>1. table \in [VspDevices -> Nat] /\ k \in 1 .. Len(conns) /\ c.dev = d
  BY VspBasics DEF VspTyped, TableGood
<1>2. c \in ConnSet /\ ConnGood(c)
  BY <1>1, VspBasics
<1>3. e \in ConnSet /\ e.dev = c.dev /\ e.path = c.path /\ SameData(c, e) /\ ConnGood(e)
  BY <1>2, StoppedIs
<1>4. conns' = [conns EXCEPT ![k] = e]
  OBVIOUS
<1>5. table' \in [VspDevices -> Nat] /\ \A a \in VspDevices : table'[a] = IF a = d THEN 0 ELSE table[a]
  BY <1>1 DEF Forget
<1>6. \A a \in VspDevices : a # d => table[a] # k
  <2>1. ASSUME NEW a \in VspDevices, table[a] = k
        PROVE  a = d
    BY <1>1, <2>1, VspBasics DEF TableGood
  <2> QED BY <2>1
<1>7. Listed(table, k) /\ ~Listed(table', k) /\ \A j \in 1 .. Len(conns) : Listed(table', j) => Listed(table, j)
  BY <1>1, <1>5, <1>6 DEF Listed
<1>8. \A u \in 1 .. Len(co) : Connecting(co[u]) => co[u].conn # k
  BY <1>7, CoFacts, VspBasics
<1>9. Relisted(table, table', k, e)
  BY <1>1, <1>5, <1>6 DEF Relisted
<1> HIDE DEF e, k
<1>10. /\ conns' \in Seq(ConnSet) /\ Len(conns') = Len(conns)
       /\ ConnsGood' /\ TableGood' /\ TcpGood'
       /\ \A u \in 1 .. Len(co) :
             /\ co[u].todo = <<"watch">> /\ co[u].conn = k => e.server = conns[k].server
             /\ (Connecting(co[u]) \/ Closing(co[u])) /\ ~Listed(table, co[u].conn) => ~Listed(table', co[u].conn)
             => CoGood(co[u], conns', table')
  BY ZenonT(60), <1>1, <1>3, <1>4, <1>9, OneChanges
<1>11. ASSUME NEW u \in 1 .. Len(co)
       PROVE  CoGood(co[u], conns', table')
  <2>1. co[u].todo = <<"watch">> => co[u].conn # k
    BY <1>8, WatchFacts, VspBasics
  <2>2. Connecting(co[u]) \/ Closing(co[u]) => co[u].conn \in 1 .. Len(conns)
    BY CoFacts, VspBasics DEF Of
  <2> QED BY <1>7, <1>10, <2>1, <2>2
<1> QED BY <1>1, <1>2, <1>5, <1>7, <1>8, <1>10, <1>11 DEF k

LEMMA StepDisconnects ==
    ASSUME VspInv, NEW d \in VspDevices, GattDisconnect(d)
    PROVE  VspInv'
<1> DEFINE k == table[d]
           r == Start("gattDisconnect", d, k, <<"stopNotify">>)
<1>1. /\ UNCHANGED <<hci, there, resolved, tcp>> /\ table[d] # 0 /\ table' = Forget(d) /\ conns' = [conns EXCEPT ![k] = Stopped(@)]
      /\ co' = co \o <<>> \/ co' = co \o <<r>>
  BY DEF GattDisconnect, Starts, CloseStages
<1>2. /\ k \in 1 .. Len(conns)
      /\ conns' \in Seq(ConnSet) /\ Len(conns') = Len(conns) /\ table' \in [VspDevices -> Nat]
      /\ ConnsGood' /\ TableGood' /\ TcpGood' /\ \A u \in 1 .. Len(co) : CoGood(co[u], conns', table')
      /\ ~Listed(table', k) /\ \A u \in 1 .. Len(co) : Connecting(co[u]) => co[u].conn # k
  BY <1>1, Unlists
<1>3. CosGood'
  <2>1. CASE co' = co \o <<>>
    <3> DEFINE rs == <<>>
    <3>1. rs \in Seq(CoSet) /\ 1 .. Len(rs) = {}
      OBVIOUS
    <3>2. co' = co \o rs
      BY <2>1
    <3> HIDE DEF rs
    <3> QED BY <1>2, <3>1, <3>2, CoStarts, VspBasics
  <2>2. CASE co' = co \o <<r>>
    <3>1. r \in CoSet
      <4>1. k \in Nat /\ <<"stopNotify">> \in VspTodos
        BY <1>2, VspBasics DEF VspTodos
      <4> HIDE DEF k, VspTodos
      <4> QED BY <4>1 DEF Start, CoSet
    <3>2. r.op = "gattDisconnect" /\ r.conn = k /\ r.todo = <<"stopNotify">>
      BY DEF Start
    <3>3. CoGood(r, conns', table') /\ ~Connecting(r)
      BY <1>2, <3>2 DEF CoGood, Connecting
    <3> HIDE DEF r
    <3> QED BY <1>2, <2>2, <3>1, <3>2, <3>3, CoStartsOne, VspBasics
  <2> QED BY <1>1, <2>1, <2>2
<1> QED BY <1>1, <1>2, <1>3, VspTypedKeeps, VspBasics DEF VspInv, VspTyped

LEMMA StepStops ==
    ASSUME VspInv, NEW t \in 1 .. Len(co), StopClient(t)
    PROVE  VspInv'
<1> DEFINE k == co[t].conn
           c == conns[k]
           e == ServerClosed([c EXCEPT !.read = NoPath])
<1>1. /\ Doing(t, "stopNotify") /\ UNCHANGED <<bluez, table, tcp>> /\ co' = [co EXCEPT ![t] = Over]
      /\ conns' = [conns EXCEPT ![k] = e]
  BY DEF StopClient, Step
<1>2. Closing(co[t])
  BY <1>1, CoAt, VspBasics
<1>3. k \in 1 .. Len(conns) /\ ~Listed(table, k) /\ c \in ConnSet /\ ConnGood(c)
  BY <1>2, CoFacts, VspBasics
<1>4. e \in ConnSet /\ e.dev = c.dev /\ e.path = c.path /\ SameData(c, e)
  BY <1>3 DEF ServerClosed, ConnSet, SameData, AnyPath
<1>5. ConnGood(e)
  BY <1>3 DEF ServerClosed, ConnSet, ConnGood
<1>6. \A u \in 1 .. Len(co) : co[u].todo = <<"watch">> => co[u].conn # k
  <2>1. co[t].todo # <<"watch">>
    BY <1>2 DEF Closing
  <2> QED BY <1>2, <2>1, Alone
<1> HIDE DEF e
<1>7. /\ conns' \in Seq(ConnSet) /\ Len(conns') = Len(conns)
      /\ ConnsGood' /\ TableGood' /\ TcpGood' /\ \A u \in 1 .. Len(co) : CoGood(co[u], conns', table')
  BY <1>1, <1>3, <1>4, <1>5, <1>6, UnlistedOne
<1>8. CosGood'
  BY <1>1, <1>7, CoEnds, VspBasics
<1> QED BY <1>1, <1>7, <1>8, VspTypedStays, VspBasics DEF VspInv, VspTyped

LEMMA StepTimesOut ==
    ASSUME VspInv, NEW t \in 1 .. Len(co), TimedOut(t)
    PROVE  VspInv'
<1>1. UNCHANGED <<bluez, conns, table, tcp>> /\ co' = [co EXCEPT ![t] = Over]
  BY DEF TimedOut, Step
<1>2. ConnsGood' /\ TableGood' /\ TcpGood' /\ \A u \in 1 .. Len(co) : CoGood(co[u], conns', table')
  BY <1>1, SteadyNone
<1>3. CosGood'
  BY <1>1, <1>2, CoEnds, VspBasics
<1> QED BY <1>1, <1>2, <1>3, VspTypedStays, VspBasics DEF VspInv, VspTyped

LEMMA StepUnpairs ==
    ASSUME VspInv, NEW d \in VspDevices, Unpair(d)
    PROVE  VspInv'
<1> DEFINE r == Start("unpair", d, 0, <<"remove">>)
<1>1. UNCHANGED <<bluez, conns, table, tcp>> /\ co' = co \o <<r>>
  BY DEF Unpair, Starts
<1>2. ConnsGood' /\ TableGood' /\ TcpGood' /\ \A u \in 1 .. Len(co) : CoGood(co[u], conns', table')
  BY <1>1, SteadyNone
<1>3. r \in CoSet /\ r.op = "unpair" /\ r.conn = 0 /\ r.dev = d /\ r.todo = <<"remove">>
  BY DEF Start, CoSet, VspTodos
<1> HIDE DEF r
<1>4. CoGood(r, conns', table') /\ ~Connecting(r) /\ ~Closing(r)
  BY <1>1, <1>3, VspBasics DEF CoGood, Connecting, Closing
<1>5. CosGood'
  BY <1>1, <1>2, <1>3, <1>4, CoStartsOne, VspBasics
<1> QED BY <1>1, <1>2, <1>5, VspTypedStays, VspBasics DEF VspInv, VspTyped

LEMMA StepRemoves ==
    ASSUME VspInv, NEW t \in 1 .. Len(co), DeviceRemovedNotify(t)
    PROVE  VspInv'
<1> DEFINE d == co[t].dev
           k == table[d]
           r == [co[t] EXCEPT !.conn = k, !.todo = <<"stopNotify">>]
<1>1. /\ Doing(t, "remove") /\ there' = there \ {d} /\ resolved' = resolved \ {d} /\ UNCHANGED <<hci, tcp, told>>
      /\ \/ co' = [co EXCEPT ![t] = Over] /\ UNCHANGED <<conns, table>>
         \/ /\ k # 0 /\ conns' = [conns EXCEPT ![k] = Stopped(@)] /\ table' = Forget(d)
            /\ co' = [co EXCEPT ![t] = Over] \/ co' = [co EXCEPT ![t] = r]
  BY DEF DeviceRemovedNotify, Step, CloseStages
<1>2. co[t].todo = <<"remove">>
  BY <1>1, CoAt, VspBasics
<1>3. co[t].op = "unpair" /\ d \in VspDevices
  BY <1>2, CoFacts, VspBasics
<1>4. ASSUME conns' \in Seq(ConnSet), table' \in [VspDevices -> Nat]
      PROVE  VspTyped'
  BY <1>1, <1>4, VspBasics DEF VspTyped
<1>5. CASE co' = [co EXCEPT ![t] = Over] /\ UNCHANGED <<conns, table>>
  <2>1. ConnsGood' /\ TableGood' /\ TcpGood' /\ \A u \in 1 .. Len(co) : CoGood(co[u], conns', table')
    BY <1>1, <1>5, SteadyNone
  <2>2. CosGood'
    BY <1>5, <2>1, CoEnds, VspBasics
  <2> QED BY <1>4, <1>5, <2>1, <2>2, VspBasics DEF VspInv, VspTyped
<1>6. CASE /\ k # 0 /\ conns' = [conns EXCEPT ![k] = Stopped(@)] /\ table' = Forget(d)
           /\ co' = [co EXCEPT ![t] = Over] \/ co' = [co EXCEPT ![t] = r]
  <2>1. /\ k \in 1 .. Len(conns)
        /\ conns' \in Seq(ConnSet) /\ Len(conns') = Len(conns) /\ table' \in [VspDevices -> Nat]
        /\ ConnsGood' /\ TableGood' /\ TcpGood' /\ \A u \in 1 .. Len(co) : CoGood(co[u], conns', table')
        /\ ~Listed(table', k) /\ \A u \in 1 .. Len(co) : Connecting(co[u]) => co[u].conn # k
    BY <1>1, <1>3, <1>6, Unlists
  <2>2. CosGood'
    <3>1. CASE co' = [co EXCEPT ![t] = Over]
      BY <2>1, <3>1, CoEnds, VspBasics
    <3>2. CASE co' = [co EXCEPT ![t] = r]
      <4>1. co[t] \in CoSet /\ k \in Nat
        BY <2>1, VspBasics
      <4>2. <<"stopNotify">> \in VspTodos
        BY DEF VspTodos
      <4>3. r \in CoSet /\ r.op = "unpair" /\ r.conn = k /\ r.todo = <<"stopNotify">>
        <5> HIDE DEF VspTodos
        <5> QED BY <1>3, <4>1, <4>2 DEF CoSet
      <4> HIDE DEF r, k
      <4>4. CoGood(r, conns', table') /\ ~Connecting(r)
        BY <2>1, <4>3 DEF CoGood, Connecting
      <4> QED BY <2>1, <3>2, <4>3, <4>4, CoTurns, VspBasics
    <3> QED BY <1>6, <3>1, <3>2
  <2> QED BY <1>4, <2>1, <2>2 DEF VspInv
<1> QED BY <1>1, <1>5, <1>6

(* A client listens to the property, or the request for it fails. *)
LEMMA SubscribedIs ==
    ASSUME NEW c \in ConnSet, ConnGood(c), NEW e \in {c, Subscribed(c)}
    PROVE  /\ e \in ConnSet /\ HoldsTo(c, e) /\ SameData(c, e) /\ ConnGood(e) /\ e.waiting = c.waiting
           /\ LET f == [e EXCEPT !.waiting = FALSE] IN f \in ConnSet /\ HoldsTo(c, f) /\ SameData(c, f) /\ ConnGood(f)
<1> DEFINE w == IF c.readProp = NoPath THEN c.read ELSE c.readProp
           g == [c EXCEPT !.readProp = w]
           f == [e EXCEPT !.waiting = FALSE]
<1>1. w \in AnyPath
  BY DEF ConnSet
<1>2. e = c \/ e = g
  BY DEF Subscribed
<1> HIDE DEF w
<1>3. g \in ConnSet /\ HoldsTo(c, g) /\ SameData(c, g) /\ g.waiting = c.waiting
  <2> HIDE DEF AnyPath
  <2> QED BY <1>1 DEF ConnSet, HoldsTo, SameData
<1>4. ConnGood(g)
  BY DEF ConnSet, ConnGood
<1>5. e \in ConnSet /\ HoldsTo(c, e) /\ SameData(c, e) /\ ConnGood(e) /\ e.waiting = c.waiting
  BY <1>2, <1>3, <1>4 DEF HoldsTo, SameData
<1>6. f \in ConnSet /\ HoldsTo(e, f) /\ SameData(e, f)
  <2> HIDE DEF AnyPath
  <2> QED BY <1>5 DEF ConnSet, HoldsTo, SameData
<1>7. ConnGood(f)
  BY <1>5 DEF ConnSet, ConnGood
<1> QED BY <1>5, <1>6, <1>7 DEF HoldsTo, SameData

LEMMA StepNotifies ==
    ASSUME VspInv, NEW t \in 1 .. Len(co), StartClient(t)
    PROVE  VspInv'
<1> DEFINE k == co[t].conn
           c == conns[k]
           q == Continue(t)
           r == [co[t] EXCEPT !.op = "restore", !.todo = <<"find", "notify">>]
<1>1. Doing(t, "notify") /\ UNCHANGED <<bluez, table, tcp>>
  BY DEF StartClient
<1>2. \/ co[t].op = "gattConnect" /\ co[t].todo = <<"notify", "serve", "watch">>
      \/ co[t].op \in {"signal", "restore"} /\ co[t].todo = <<"notify">>
  BY <1>1, CoAt, VspBasics
<1>3. \E e \in {c, Subscribed(c)} :
         \/ /\ conns' = [conns EXCEPT ![k] = e]
            /\ co' = [co EXCEPT ![t] = Over] \/ co' = [co EXCEPT ![t] = q]
         \/ /\ conns' = [conns EXCEPT ![k] = [e EXCEPT !.waiting = FALSE]] /\ e.waiting
            /\ co[t].op = "signal" /\ co' = [co EXCEPT ![t] = r]
  <2> HIDE DEF q, r, k
  <2>1. \E e \in {c, Subscribed(c)}, ok \in BOOLEAN : Notified(t, k, e, ok)
    BY DEF StartClient, k
  <2>2. ASSUME NEW e, NEW ok \in BOOLEAN, Notified(t, k, e, ok)
        PROVE  \/ /\ conns' = [conns EXCEPT ![k] = e]
                  /\ co' = [co EXCEPT ![t] = Over] \/ co' = [co EXCEPT ![t] = q]
               \/ /\ conns' = [conns EXCEPT ![k] = [e EXCEPT !.waiting = FALSE]] /\ e.waiting
                  /\ co[t].op = "signal" /\ co' = [co EXCEPT ![t] = r]
    BY <2>2 DEF Notified, Step, q, r
  <2> QED BY <2>1, <2>2
<1>4. CoGood(co[t], conns, table) /\ co[t] \in CoSet /\ k \in 1 .. Len(conns) /\ co[t].dev = c.dev /\ c \in ConnSet /\ ConnGood(c)
  <2>1. Of(co[t], conns)
    BY <1>2, CoFacts, VspBasics
  <2> QED BY <2>1, VspBasics DEF Of
<1>5. PICK e \in {c, Subscribed(c)} :
         \/ /\ conns' = [conns EXCEPT ![k] = e]
            /\ co' = [co EXCEPT ![t] = Over] \/ co' = [co EXCEPT ![t] = q]
         \/ /\ conns' = [conns EXCEPT ![k] = [e EXCEPT !.waiting = FALSE]] /\ e.waiting
            /\ co[t].op = "signal" /\ co' = [co EXCEPT ![t] = r]
  BY <1>3
<1> DEFINE f == [e EXCEPT !.waiting = FALSE]
<1>6. /\ e \in ConnSet /\ HoldsTo(c, e) /\ SameData(c, e) /\ ConnGood(e) /\ e.waiting = c.waiting
      /\ f \in ConnSet /\ HoldsTo(c, f) /\ SameData(c, f) /\ ConnGood(f)
  BY <1>4, SubscribedIs
<1>7. CASE /\ conns' = [conns EXCEPT ![k] = e]
           /\ co' = [co EXCEPT ![t] = Over] \/ co' = [co EXCEPT ![t] = q]
  <2>1. /\ conns' \in Seq(ConnSet) /\ Len(conns') = Len(conns)
        /\ ConnsGood' /\ TableGood' /\ TcpGood' /\ \A u \in 1 .. Len(co) : CoGood(co[u], conns', table')
    <3> HIDE DEF c, k, f, q
    <3> QED BY <1>1, <1>4, <1>6, <1>7, SteadyOne DEF c
  <2>2. CosGood'
    <3>1. CASE co' = [co EXCEPT ![t] = Over]
      BY <2>1, <3>1, CoEnds, VspBasics
    <3>2. CASE co' = [co EXCEPT ![t] = q]
      <4>1. CASE co[t].op = "gattConnect" /\ co[t].todo = <<"notify", "serve", "watch">>
        <5>1. q = [co[t] EXCEPT !.todo = <<"serve", "watch">>]
          BY <4>1 DEF Continue
        <5> HIDE DEF q
        <5>2. \E todo : q = [co[t] EXCEPT !.todo = todo] /\ todo \in ConnectTodos /\ todo # <<"watch">>
          BY <5>1, TodosAre
        <5> QED BY <2>1, <3>2, <4>1, <5>2, CoGoesOn, VspBasics
      <4>2. CASE co[t].todo = <<"notify">>
        <5>1. q = Over
          BY <4>2 DEF Continue
        <5> HIDE DEF q
        <5> QED BY <2>1, <3>2, <5>1, CoEnds, VspBasics
      <4> QED BY <1>2, <4>1, <4>2
    <3> QED BY <1>7, <3>1, <3>2
  <2> QED BY <1>1, <2>1, <2>2, VspTypedStays, VspBasics DEF VspInv, VspTyped
<1>8. CASE conns' = [conns EXCEPT ![k] = f] /\ e.waiting /\ co[t].op = "signal" /\ co' = [co EXCEPT ![t] = r]
  <2>1. /\ conns' \in Seq(ConnSet) /\ Len(conns') = Len(conns) /\ conns'[k] = f
        /\ ConnsGood' /\ TableGood' /\ TcpGood' /\ \A u \in 1 .. Len(co) : CoGood(co[u], conns', table')
    <3> HIDE DEF c, k, f, r
    <3> QED BY <1>1, <1>4, <1>6, <1>8, SteadyOne DEF c
  <2>2. f.dev = c.dev /\ f.path # NoPath
    BY <1>4, <1>6, <1>8 DEF HoldsTo, ConnGood
  <2>3. <<"find", "notify">> \in VspTodos /\ <<"find", "notify">> \in RestoreTodos /\ <<"find", "notify">> # <<"stopNotify">>
    BY DEF VspTodos, RestoreTodos
  <2>4. r \in CoSet /\ r.op = "restore" /\ r.conn = k /\ r.dev = co[t].dev /\ r.todo = <<"find", "notify">>
    <3> HIDE DEF VspTodos, k
    <3> QED BY <1>4, <2>3 DEF CoSet, k
  <2> HIDE DEF r, k, c, f
  <2>5. Of(r, conns') /\ conns'[r.conn].path # NoPath
    BY <1>4, <2>1, <2>2, <2>4 DEF Of
  <2>6. CoGood(r, conns', table') /\ ~Connecting(r) /\ ~Closing(r)
    BY <2>3, <2>4, <2>5 DEF CoGood, Connecting, Closing
  <2>7. CosGood'
    BY <1>8, <2>1, <2>4, <2>6, CoTurns, VspBasics
  <2> QED BY <1>1, <2>1, <2>7, VspTypedStays, VspBasics DEF VspInv, VspTyped
<1> QED BY <1>5, <1>7, <1>8

(* gatt_only_reconnect finds the device and has its callback registered again. *)
LEMMA StepFinds ==
    ASSUME VspInv, NEW t \in 1 .. Len(co), FindDevice(t)
    PROVE  VspInv'
<1> DEFINE k == co[t].conn
           c == conns[k]
           d == co[t].dev
           e == [c EXCEPT !.path = PathOf(d)]
           r == [Continue(t) EXCEPT !.resolved = d \in resolved]
<1>1. /\ Doing(t, "lookup") /\ UNCHANGED <<bluez, table, tcp>>
      /\ \/ co' = [co EXCEPT ![t] = Over] /\ conns' = conns
         \/ d \in there /\ co' = [co EXCEPT ![t] = r] /\ conns' = [conns EXCEPT ![k] = e]
  BY DEF FindDevice, Step
<1>2. co[t].op = "restore" /\ co[t].todo = <<"lookup", "rewatch">>
  BY <1>1, CoAt, VspBasics
<1>3. co[t] \in CoSet /\ k \in 1 .. Len(conns) /\ d = c.dev /\ c.path # NoPath /\ c \in ConnSet /\ ConnGood(c)
  <2>1. Of(co[t], conns) /\ c.path # NoPath
    BY <1>2, CoFacts, VspBasics
  <2> QED BY <2>1, VspBasics DEF Of
<1>4. CASE co' = [co EXCEPT ![t] = Over] /\ conns' = conns
  <2>1. ConnsGood' /\ TableGood' /\ TcpGood' /\ \A u \in 1 .. Len(co) : CoGood(co[u], conns', table')
    BY <1>1, <1>4, SteadyNone
  <2>2. CosGood'
    BY <1>4, <2>1, CoEnds, VspBasics
  <2> QED BY <1>1, <1>4, <2>1, <2>2, VspTypedStays, VspBasics DEF VspInv, VspTyped
<1>5. CASE d \in there /\ co' = [co EXCEPT ![t] = r] /\ conns' = [conns EXCEPT ![k] = e]
  <2>1. PathOf(d) \in AnyPath /\ PathOf(d) # NoPath /\ PathOf(d)[1] = d
    BY <1>5, PathsAre, VspBasics DEF AnyPath
  <2>2. e \in ConnSet /\ HoldsTo(c, e) /\ SameData(c, e) /\ e.dev = d /\ e.path # NoPath
    <3> HIDE DEF AnyPath, d
    <3> QED BY <1>3, <2>1 DEF ConnSet, HoldsTo, SameData
  <2>3. ConnGood(e)
    <3> HIDE DEF d
    <3> QED BY <1>3, <2>1 DEF ConnSet, ConnGood
  <2>4. <<"rewatch">> \in VspTodos /\ <<"rewatch">> \in RestoreTodos /\ <<"rewatch">> # <<"stopNotify">>
    BY DEF VspTodos, RestoreTodos
  <2>5. Continue(t) = [co[t] EXCEPT !.todo = <<"rewatch">>]
    BY <1>2 DEF Continue
  <2>6. r \in CoSet /\ r.op = "restore" /\ r.conn = k /\ r.dev = d /\ r.todo = <<"rewatch">>
    <3> DEFINE b == d \in resolved
               q == [co[t] EXCEPT !.todo = <<"rewatch">>]
    <3>1. b \in BOOLEAN
      OBVIOUS
    <3>2. r = [q EXCEPT !.resolved = b]
      BY <2>5
    <3> HIDE DEF VspTodos, k, b, r
    <3>3. q \in CoSet /\ q.op = "restore" /\ q.conn = k /\ q.dev = d /\ q.todo = <<"rewatch">>
      BY <1>2, <1>3, <2>4 DEF CoSet, k
    <3> HIDE DEF q
    <3> QED BY <3>1, <3>2, <3>3 DEF CoSet
  <2> HIDE DEF r, e
  <2>7. /\ conns' \in Seq(ConnSet) /\ Len(conns') = Len(conns) /\ conns'[k] = e
        /\ ConnsGood' /\ TableGood' /\ TcpGood' /\ \A u \in 1 .. Len(co) : CoGood(co[u], conns', table')
    <3> HIDE DEF c, k, d
    <3> QED BY <1>1, <1>3, <1>5, <2>2, <2>3, SteadyOne DEF c
  <2>8. Of(r, conns') /\ conns'[r.conn].path # NoPath
    BY <1>3, <2>2, <2>6, <2>7 DEF Of
  <2>9. CoGood(r, conns', table') /\ ~Connecting(r) /\ ~Closing(r)
    BY <2>4, <2>6, <2>8 DEF CoGood, Connecting, Closing
  <2>10. CosGood'
    BY <1>5, <2>6, <2>7, <2>9, CoTurns, VspBasics
  <2> QED BY <1>1, <2>7, <2>10, VspTypedStays, VspBasics DEF VspInv, VspTyped
<1> QED BY <1>1, <1>4, <1>5

LEMMA StepRewatches ==
    ASSUME VspInv, NEW t \in 1 .. Len(co), Rewatch(t)
    PROVE  VspInv'
<1> DEFINE k == co[t].conn
           c == conns[k]
           d == co[t].dev
           e == Watching(c, c.path)
           f == [e EXCEPT !.waiting = TRUE]
           q == [co[t] EXCEPT !.todo = <<"find", "notify">>]
<1>1. /\ Doing(t, "rewatch") /\ UNCHANGED <<bluez, table, tcp>>
      /\ \/ co' = [co EXCEPT ![t] = Over] /\ conns' = conns
         \/ /\ d \in there /\ c.path = PathOf(d)
            /\ \/ co' = [co EXCEPT ![t] = q] /\ conns' = [conns EXCEPT ![k] = e]
               \/ co' = [co EXCEPT ![t] = Over] /\ conns' = [conns EXCEPT ![k] = f]
  BY DEF Rewatch, Step
<1>2. co[t].op = "restore" /\ co[t].todo = <<"rewatch">>
  BY <1>1, CoAt, VspBasics
<1>3. co[t] \in CoSet /\ k \in 1 .. Len(conns) /\ d = c.dev /\ c.path # NoPath /\ c \in ConnSet /\ ConnGood(c)
  <2>1. Of(co[t], conns) /\ c.path # NoPath
    BY <1>2, CoFacts, VspBasics
  <2> QED BY <2>1, VspBasics DEF Of
<1>4. CASE co' = [co EXCEPT ![t] = Over] /\ conns' = conns
  <2>1. ConnsGood' /\ TableGood' /\ TcpGood' /\ \A u \in 1 .. Len(co) : CoGood(co[u], conns', table')
    BY <1>1, <1>4, SteadyNone
  <2>2. CosGood'
    BY <1>4, <2>1, CoEnds, VspBasics
  <2> QED BY <1>1, <1>4, <2>1, <2>2, VspTypedStays, VspBasics DEF VspInv, VspTyped
<1>5. CASE /\ d \in there /\ c.path = PathOf(d)
           /\ \/ co' = [co EXCEPT ![t] = q] /\ conns' = [conns EXCEPT ![k] = e]
              \/ co' = [co EXCEPT ![t] = Over] /\ conns' = [conns EXCEPT ![k] = f]
  <2>1. c.path \in DevicePaths /\ c.path[1] = c.dev
    BY <1>3, <1>5, PathsAre, VspBasics
  <2>2. /\ e \in ConnSet /\ e.dev = c.dev /\ e.path = c.path /\ SameData(c, e) /\ e.server = c.server
        /\ e.devProp = c.path /\ ConnGood(e)
    BY <1>3, <2>1, WatchingIs
  <2> HIDE DEF e
  <2>3. HoldsTo(c, e)
    BY <1>3, <2>2 DEF HoldsTo
  <2>4. f \in ConnSet /\ HoldsTo(e, f) /\ SameData(e, f)
    <3> HIDE DEF AnyPath
    <3> QED BY <2>2 DEF ConnSet, HoldsTo, SameData
  <2>5. ConnGood(f)
    BY <1>3, <2>2 DEF ConnSet, ConnGood
  <2> HIDE DEF f
  <2>6. HoldsTo(c, f) /\ SameData(c, f)
    BY <2>2, <2>3, <2>4 DEF HoldsTo, SameData
  <2>7. CASE co' = [co EXCEPT ![t] = q] /\ conns' = [conns EXCEPT ![k] = e]
    <3>1. /\ conns' \in Seq(ConnSet) /\ Len(conns') = Len(conns)
          /\ ConnsGood' /\ TableGood' /\ TcpGood' /\ \A u \in 1 .. Len(co) : CoGood(co[u], conns', table')
      <4> HIDE DEF c, k, q, d
      <4> QED BY <1>1, <1>3, <2>2, <2>3, <2>7, SteadyOne DEF c
    <3>2. \E todo : q = [co[t] EXCEPT !.todo = todo] /\ todo \in RestoreTodos
      BY TodosAre
    <3> HIDE DEF q
    <3>3. CosGood'
      BY <1>2, <2>7, <3>1, <3>2, CoGoesOn, VspBasics
    <3> QED BY <1>1, <3>1, <3>3, VspTypedStays, VspBasics DEF VspInv, VspTyped
  <2>8. CASE co' = [co EXCEPT ![t] = Over] /\ conns' = [conns EXCEPT ![k] = f]
    <3>1. /\ conns' \in Seq(ConnSet) /\ Len(conns') = Len(conns)
          /\ ConnsGood' /\ TableGood' /\ TcpGood' /\ \A u \in 1 .. Len(co) : CoGood(co[u], conns', table')
      <4> HIDE DEF c, k, d
      <4> QED BY <1>1, <1>3, <2>4, <2>5, <2>6, <2>8, SteadyOne DEF c
    <3>2. CosGood'
      BY <2>8, <3>1, CoEnds, VspBasics
    <3> QED BY <1>1, <3>1, <3>2, VspTypedStays, VspBasics DEF VspInv, VspTyped
  <2> QED BY <1>5, <2>7, <2>8
<1> QED BY <1>1, <1>4, <1>5

-----------------------------------------------------------------------------
(* Requests, and what BlueZ changes by itself. *)
LEMMA NewIs ==
    ASSUME NEW d \in VspDevices, NEW port \in VspPorts, NEW way \in AnyPath, way # NoPath => way[1] = d
    PROVE  LET c == NewConnection(d, port, way) IN
              c \in ConnSet /\ ConnGood(c) /\ c.dev = d /\ c.rx = <<>> /\ c.sent = <<>>
<1> DEFINE w == [p \in DevicePaths |-> 0]
           c == [dev |-> d, port |-> port, path |-> way, read |-> NoPath, write |-> NoPath,
                 readProp |-> NoPath, devProp |-> NoPath, watched |-> w, waiting |-> FALSE,
                 server |-> "none", client |-> "none", connected |-> FALSE, rx |-> <<>>, sent |-> <<>>, crowded |-> FALSE]
<1>1. w \in [DevicePaths -> Nat] /\ \A p \in DevicePaths : w[p] = 0
  OBVIOUS
<1>2. NewConnection(d, port, way) = c
  BY DEF NewConnection
<1>3. NoPath \in AnyPath /\ <<>> \in Bytes
  BY DEF AnyPath, Bytes
<1>4. /\ c.dev = d /\ c.path = way /\ c.write = NoPath /\ c.devProp = NoPath /\ c.watched = w /\ c.waiting = FALSE
      /\ c.rx = <<>> /\ c.sent = <<>>
  OBVIOUS
<1> HIDE DEF w
<1>5. c \in ConnSet
  <2> HIDE DEF AnyPath, Bytes
  <2> QED BY <1>1, <1>3 DEF ConnSet
<1> HIDE DEF c
<1>6. ConnGood(c)
  BY <1>1, <1>4 DEF ConnGood, NoPath
<1> QED BY <1>2, <1>4, <1>5, <1>6

LEMMA StepConnects ==
    ASSUME VspInv, NEW d \in VspDevices, NEW port \in VspPorts, GattConnect(d, port)
    PROVE  VspInv'
<1> DEFINE n == NewConnection(d, port, IF d \in there THEN PathOf(d) ELSE NoPath)
           r == Start("gattConnect", d, Len(conns'), <<"find", "notify", "serve", "watch">>)
<1>1. table[d] = 0 /\ conns' = Append(conns, n) /\ co' = co \o <<r>> /\ UNCHANGED <<hci, there, resolved, table, tcp>>
  BY DEF GattConnect, Starts
<1>2. n \in ConnSet /\ ConnGood(n) /\ n.dev = d /\ n.rx = <<>> /\ n.sent = <<>>
  <2> DEFINE way == IF d \in there THEN PathOf(d) ELSE NoPath
  <2>1. way \in AnyPath /\ (way # NoPath => way[1] = d)
    BY PathsAre, VspBasics DEF AnyPath
  <2> HIDE DEF way
  <2> QED BY <2>1, NewIs DEF way
<1>3. Len(conns) \in Nat /\ conns \in Seq(ConnSet) /\ table \in [VspDevices -> Nat]
  BY VspBasics DEF VspTyped
<1> HIDE DEF n
<1>4. /\ conns' \in Seq(ConnSet) /\ Len(conns') = Len(conns) + 1 /\ conns'[Len(conns) + 1] = n
      /\ \A k \in 1 .. Len(conns) : conns'[k] = conns[k]
  BY <1>1, <1>2, <1>3, AppendProperties
<1>5. ASSUME NEW k \in 1 .. Len(conns')
      PROVE  (k \in 1 .. Len(conns) /\ conns'[k] = conns[k]) \/ (k \notin 1 .. Len(conns) /\ conns'[k] = n)
  BY <1>3, <1>4
<1>6. ConnsGood'
  BY <1>2, <1>5, VspBasics DEF ConnsGood
<1>7. TableGood'
  <2>1. ASSUME NEW a \in VspDevices, table'[a] # 0
        PROVE  /\ table'[a] \in 1 .. Len(conns')
               /\ LET e == conns'[table'[a]] IN e.dev = a /\ e.server = "listening" /\ e.devProp # NoPath /\ e.path # NoPath
    BY <1>1, <1>3, <1>4, <2>1, VspBasics DEF TableGood
  <2> QED BY <2>1 DEF TableGood
<1>8. TcpGood'
  <2>1. \A k \in 1 .. Len(conns) : SameData(conns[k], conns'[k])
    BY <1>4 DEF SameData
  <2>2. \A k \in 1 .. Len(conns') : k \notin 1 .. Len(conns) => conns'[k].rx = <<>> /\ conns'[k].sent = <<>>
    BY <1>2, <1>5
  <2>3. Len(conns') \in Nat /\ Len(conns) <= Len(conns')
    BY <1>3, <1>4
  <2> QED BY <1>1, <2>1, <2>2, <2>3, TcpKeeps, VspBasics
<1>9. ASSUME NEW u \in 1 .. Len(co)
      PROVE  CoGood(co[u], conns', table') /\ co[u].conn # Len(conns')
  <2>1. CoGood(co[u], conns, table) /\ Len(conns) \in Nat /\ Len(conns') \in Nat /\ Len(conns) <= Len(conns')
    BY <1>3, <1>4, VspBasics
  <2>2. \A k \in 1 .. Len(conns) : conns'[k].dev = conns[k].dev /\ (conns[k].path # NoPath => conns'[k].path # NoPath)
    BY <1>4
  <2>3. co[u].conn \in 0 .. Len(conns)
    BY <2>1, CoFacts
  <2>4. co[u].todo = <<"watch">> => conns'[co[u].conn].server = conns[co[u].conn].server
    <3>1. co[u].todo = <<"watch">> => Of(co[u], conns)
      BY <2>1, WatchFacts
    <3> QED BY <1>4, <3>1 DEF Of
  <2>5. CoGood(co[u], conns', table')
    BY <1>1, <2>1, <2>2, <2>4, CoKeeps
  <2> QED BY <1>3, <1>4, <2>3, <2>5
<1>10. /\ r.op = "gattConnect" /\ r.dev = d /\ r.conn = Len(conns') /\ r.todo = <<"find", "notify", "serve", "watch">>
       /\ r \in CoSet
  <2>1. Len(conns') \in Nat /\ r.todo \in VspTodos
    BY <1>3, <1>4 DEF Start, VspTodos, ConnectTodos
  <2> HIDE DEF VspTodos
  <2> QED BY <2>1 DEF Start, CoSet
<1> HIDE DEF r
<1>11. CoGood(r, conns', table') /\ ~Closing(r)
  <2>1. Of(r, conns')
    BY <1>2, <1>3, <1>4, <1>10 DEF Of
  <2>2. ~Listed(table', r.conn)
    BY <1>1, <1>3, <1>4, <1>10, VspBasics DEF Listed, TableGood
  <2>3. r.todo # <<"watch">> /\ r.todo # <<"stopNotify">> /\ r.todo \in ConnectTodos
    BY <1>10 DEF ConnectTodos
  <2> QED BY <1>10, <2>1, <2>2, <2>3 DEF CoGood, Closing
<1>12. CosGood'
  BY <1>1, <1>9, <1>10, <1>11, CoStartsOne, VspBasics
<1> QED BY <1>1, <1>3, <1>4, <1>6, <1>7, <1>8, <1>12, VspTypedKeeps, VspBasics DEF VspInv

(* Some connections no longer listen to their property. *)
LEMMA Unheard ==
    ASSUME VspInv, UNCHANGED <<table, tcp>>, conns' = [k \in 1 .. Len(conns) |-> conns'[k]],
           \A k \in 1 .. Len(conns) : conns'[k] = conns[k] \/ conns'[k] = [conns[k] EXCEPT !.readProp = NoPath]
    PROVE  /\ conns' \in Seq(ConnSet) /\ Len(conns') = Len(conns)
           /\ ConnsGood' /\ TableGood' /\ TcpGood' /\ \A u \in 1 .. Len(co) : CoGood(co[u], conns', table')
<1>1. ASSUME NEW k \in 1 .. Len(conns)
      PROVE  conns'[k] \in ConnSet /\ HoldsTo(conns[k], conns'[k]) /\ ConnGood(conns'[k]) /\ SameData(conns[k], conns'[k])
  <2> DEFINE c == conns[k]
             e == [c EXCEPT !.readProp = NoPath]
  <2>1. c \in ConnSet /\ ConnGood(c) /\ NoPath \in AnyPath
    BY VspBasics DEF AnyPath
  <2>2. conns'[k] = c \/ conns'[k] = e
    OBVIOUS
  <2> HIDE DEF c
  <2>3. e \in ConnSet /\ HoldsTo(c, e) /\ SameData(c, e)
    <3> HIDE DEF AnyPath
    <3> QED BY <2>1 DEF ConnSet, HoldsTo, SameData
  <2>4. ConnGood(e)
    BY <2>1 DEF ConnSet, ConnGood
  <2>5. HoldsTo(c, c) /\ SameData(c, c)
    BY DEF HoldsTo, SameData
  <2> HIDE DEF e
  <2> QED BY <2>1, <2>2, <2>3, <2>4, <2>5 DEF c
<1>2. Len(conns) \in Nat
  BY VspBasics
<1>3. conns' \in Seq(ConnSet) /\ Len(conns') = Len(conns)
  <2> DEFINE m == Len(conns)
  <2> HIDE DEF m
  <2>1. m \in Nat /\ conns' = [k \in 1 .. m |-> conns'[k]] /\ \A k \in 1 .. m : conns'[k] \in ConnSet
    BY <1>1, <1>2 DEF m
  <2>2. conns' \in [1 .. m -> ConnSet]
    BY <2>1
  <2> QED BY <2>1, <2>2 DEF m
<1> QED BY <1>1, <1>3, Steady

(* The callbacks of a signal, each for a connection of the device. *)
CallbacksOf(op, d, todo) == {Start(op, d, k, todo) : k \in {j \in 1 .. Len(conns) : conns[j].dev = d}}

LEMMA CallbacksAre ==
    ASSUME VspInv, NEW d \in there, NEW op, NEW todo
    PROVE  Callbacks(op, d, todo) \in Seq(CallbacksOf(op, d, todo))
<1> DEFINE S == CallbacksOf(op, d, todo)
           Inner(k) == [i \in 1 .. Handlers(k, PathOf(d)) |-> Start(op, d, k, todo)]
           lists == [k \in DOMAIN conns |-> Inner(k)]
<1>1. PathOf(d) \in DevicePaths /\ PathOf(d)[1] = d
  BY PathsAre, VspBasics
<1>2. ASSUME NEW k \in 1 .. Len(conns)
      PROVE  Inner(k) \in Seq(S)
  <2> DEFINE w == Handlers(k, PathOf(d))
             r == Start(op, d, k, todo)
  <2>1. w \in Nat /\ (w > 0 => conns[k].dev = d)
    <3>1. conns[k] \in ConnSet /\ ConnGood(conns[k])
      BY VspBasics
    <3> QED BY <1>1, <3>1 DEF Handlers, ConnGood, ConnSet
  <2>2. w > 0 => r \in S
    BY <2>1 DEF CallbacksOf
  <2> HIDE DEF w, r, S
  <2>3. [i \in 1 .. w |-> r] \in [1 .. w -> S]
    BY <2>1, <2>2
  <2>4. [i \in 1 .. w |-> r] \in Seq(S)
    BY <2>1, <2>3
  <2> QED BY <2>4 DEF w, r
<1>3. DOMAIN conns = 1 .. Len(conns) /\ Len(conns) \in Nat
  BY VspBasics
<1> HIDE DEF S, Inner
<1>4. lists = [k \in 1 .. Len(conns) |-> Inner(k)]
  BY <1>3
<1>5. Len(lists) = Len(conns) /\ \A i \in 1 .. Len(lists) : lists[i] \in Seq(S)
  <2> DEFINE m == Len(conns)
             T == Seq(S)
  <2> HIDE DEF m, T
  <2>1. m \in Nat /\ lists = [k \in 1 .. m |-> Inner(k)] /\ \A k \in 1 .. m : Inner(k) \in T
    BY <1>2, <1>3, <1>4 DEF m, T
  <2> HIDE DEF lists
  <2>2. lists \in [1 .. m -> T]
    BY <2>1
  <2>3. Len(lists) = m
    BY <2>1, <2>2
  <2> QED BY <2>1, <2>3 DEF m, T
<1>6. Callbacks(op, d, todo) = FlattenSeq(lists)
  BY DEF Callbacks, Inner
<1>7. lists = <<>> \/ Len(lists) > 0
  <2> DEFINE m == Len(conns)
  <2> HIDE DEF m
  <2>1. m \in Nat /\ lists = [k \in 1 .. m |-> Inner(k)]
    BY <1>3, <1>4 DEF m
  <2>2. CASE m = 0
    <3> HIDE DEF lists
    <3>1. lists = [k \in 1 .. 0 |-> Inner(k)]
      BY <2>1, <2>2
    <3> QED BY <3>1
  <2>3. CASE m > 0
    BY <1>5, <2>3 DEF m
  <2> QED BY <2>1, <2>2, <2>3
<1> HIDE DEF lists
<1>8. FlattenSeq(lists) \in Seq(S)
  BY <1>3, <1>5, <1>7, FlattenedIs
<1> QED BY <1>6, <1>8 DEF S

LEMMA CallbacksStart ==
    ASSUME VspInv, NEW d \in there, NEW op, NEW todo, co' = co \o Callbacks(op, d, todo),
           \/ op = "signal" /\ todo = <<"notify">>
           \/ op = "unpair" /\ todo = <<"remove">>,
           Len(conns') = Len(conns), \A k \in 1 .. Len(conns) : conns'[k].dev = conns[k].dev,
           \A u \in 1 .. Len(co) : CoGood(co[u], conns', table')
    PROVE  CosGood'
<1> DEFINE rs == Callbacks(op, d, todo)
           S == CallbacksOf(op, d, todo)
<1>1. rs \in Seq(S) /\ \A r \in S : \E k \in 1 .. Len(conns) : r = Start(op, d, k, todo) /\ conns[k].dev = d
  <2>1. rs \in Seq(S)
    BY CallbacksAre
  <2> QED BY <2>1 DEF CallbacksOf
<1> HIDE DEF rs, S
<1>2. todo \in VspTodos /\ todo # <<"stopNotify">> /\ op # "gattConnect"
  BY DEF VspTodos, RestoreTodos
<1>3. op \in {"over", "gattConnect", "gattDisconnect", "unpair", "signal", "restore"} /\ d \in VspDevices /\ Len(conns) \in Nat
  BY VspBasics, PathsAre
<1>4. ASSUME NEW r \in S
      PROVE  r \in CoSet /\ CoGood(r, conns', table') /\ ~Connecting(r) /\ ~Closing(r)
  <2>1. PICK k \in 1 .. Len(conns) : r = Start(op, d, k, todo) /\ conns[k].dev = d
    BY <1>1
  <2>2. r = [op |-> op, dev |-> d, conn |-> k, todo |-> todo, resolved |-> FALSE]
    BY <2>1 DEF Start
  <2>3. r \in CoSet
    <3>1. k \in Nat
      BY <1>3
    <3> HIDE DEF VspTodos
    <3> QED BY <1>2, <1>3, <2>2, <3>1 DEF CoSet
  <2>4. r.op = op /\ r.dev = d /\ r.conn = k /\ r.todo = todo
    BY <2>2
  <2>5. Of(r, conns') /\ r.conn \in 0 .. Len(conns')
    BY <1>3, <2>1, <2>4 DEF Of
  <2> QED BY <1>2, <1>3, <2>3, <2>4, <2>5 DEF CoGood, Connecting, Closing
<1>5. rs \in Seq(CoSet)
  BY <1>1, <1>4, SeqMonotonic
<1>6. \A i \in 1 .. Len(rs) : rs[i] \in S
  BY <1>1, ElementOfSeq
<1>7. \A i \in 1 .. Len(rs) : CoGood(rs[i], conns', table') /\ ~Connecting(rs[i]) /\ ~Closing(rs[i])
  BY <1>4, <1>6
<1>8. co' = co \o rs
  BY DEF rs
<1> QED BY <1>5, <1>7, <1>8, CoStarts, VspBasics

LEMMA StepResolves ==
    ASSUME VspInv, NEW d \in VspDevices, ServicesResolved(d)
    PROVE  VspInv'
<1>1. /\ d \in there /\ resolved' = resolved \cup {d} /\ co' = co \o Callbacks("signal", d, <<"notify">>)
      /\ UNCHANGED <<hci, there, conns, table, tcp>>
  BY DEF ServicesResolved, Starts
<1>2. ConnsGood' /\ TableGood' /\ TcpGood' /\ \A u \in 1 .. Len(co) : CoGood(co[u], conns', table')
  BY <1>1, SteadyNone
<1>3. CosGood'
  BY <1>1, <1>2, CallbacksStart
<1>4. VspTyped'
  BY <1>1, VspBasics DEF VspTyped
<1> QED BY <1>2, <1>3, <1>4 DEF VspInv

LEMMA StepDeviceDisconnects ==
    ASSUME VspInv, NEW d \in VspDevices, DeviceDisconnects(d)
    PROVE  VspInv'
<1>1. /\ d \in resolved /\ resolved' = resolved \ {d} /\ conns' = Unsubscribed(PathOf(d))
      /\ co' = co \/ co' = co \o Callbacks("unpair", d, <<"remove">>)
      /\ UNCHANGED <<hci, there, table, tcp>>
  BY DEF DeviceDisconnects, Starts
<1>2. d \in there /\ DOMAIN conns = 1 .. Len(conns)
  BY <1>1, VspBasics DEF VspTyped
<1>3. /\ conns' = [k \in 1 .. Len(conns) |-> conns'[k]]
      /\ \A k \in 1 .. Len(conns) : conns'[k] = conns[k] \/ conns'[k] = [conns[k] EXCEPT !.readProp = NoPath]
  BY <1>1, <1>2 DEF Unsubscribed
<1>4. /\ conns' \in Seq(ConnSet) /\ Len(conns') = Len(conns)
      /\ ConnsGood' /\ TableGood' /\ TcpGood' /\ \A u \in 1 .. Len(co) : CoGood(co[u], conns', table')
  BY <1>1, <1>3, Unheard
<1>5. \A k \in 1 .. Len(conns) : conns'[k].dev = conns[k].dev
  <2>1. ASSUME NEW k \in 1 .. Len(conns)
        PROVE  conns'[k].dev = conns[k].dev
    <3>1. conns[k] \in ConnSet
      BY VspBasics
    <3>2. [conns[k] EXCEPT !.readProp = NoPath].dev = conns[k].dev
      BY <3>1 DEF ConnSet
    <3> QED BY <1>3, <3>2
  <2> QED BY <2>1
<1>6. CosGood'
  <2>1. CASE co' = co
    BY <1>4, <2>1, CoStays, VspBasics
  <2>2. CASE co' = co \o Callbacks("unpair", d, <<"remove">>)
    BY <1>2, <1>4, <1>5, <2>2, CallbacksStart
  <2> QED BY <1>1, <2>1, <2>2
<1>7. VspTyped'
  BY <1>1, <1>4, VspBasics DEF VspTyped
<1> QED BY <1>4, <1>6, <1>7 DEF VspInv

LEMMA StepControllerRemoved ==
    ASSUME VspInv, ControllerRemoved
    PROVE  VspInv'
<1>1. hci' = "none" /\ there' = {} /\ resolved' = {} /\ UNCHANGED <<table, co, tcp>>
  BY DEF ControllerRemoved
<1>2. /\ conns' \in Seq(ConnSet) /\ Len(conns') = Len(conns)
      /\ ConnsGood' /\ TableGood' /\ TcpGood' /\ \A u \in 1 .. Len(co) : CoGood(co[u], conns', table')
  <2>1. CASE UNCHANGED conns
    BY <1>1, <2>1, SteadyNone, VspBasics DEF VspTyped
  <2>2. CASE conns' = [k \in DOMAIN conns |-> IF \E d \in resolved : Handlers(k, PathOf(d)) > 0
                                               THEN [conns[k] EXCEPT !.readProp = NoPath] ELSE conns[k]]
    <3>1. DOMAIN conns = 1 .. Len(conns)
      BY VspBasics
    <3>2. /\ conns' = [k \in 1 .. Len(conns) |-> conns'[k]]
          /\ \A k \in 1 .. Len(conns) : conns'[k] = conns[k] \/ conns'[k] = [conns[k] EXCEPT !.readProp = NoPath]
      BY <2>2, <3>1
    <3> QED BY <1>1, <3>2, Unheard
  <2> QED BY <2>1, <2>2 DEF ControllerRemoved
<1>3. CosGood'
  BY <1>1, <1>2, CoStays, VspBasics
<1>4. VspTyped'
  BY <1>1, <1>2, VspBasics DEF VspTyped
<1> QED BY <1>2, <1>3, <1>4 DEF VspInv

LEMMA StepControllerAdded ==
    ASSUME VspInv, ControllerAdded
    PROVE  VspInv'
<1>1. hci' \in {"hci0", "hci1"} /\ UNCHANGED <<there, resolved, conns, table, co, tcp>>
  BY DEF ControllerAdded
<1>2. ConnsGood' /\ TableGood' /\ TcpGood' /\ \A u \in 1 .. Len(co) : CoGood(co[u], conns', table')
  BY <1>1, SteadyNone
<1>3. CosGood'
  BY <1>1, <1>2, CoStays, VspBasics
<1>4. VspTyped'
  BY <1>1, VspBasics DEF VspTyped
<1> QED BY <1>2, <1>3, <1>4 DEF VspInv

LEMMA StepDeviceAdded ==
    ASSUME VspInv, NEW d \in VspDevices, DeviceAdded(d)
    PROVE  VspInv'
<1> DEFINE r == Start("restore", d, table[d], <<"lookup", "rewatch">>)
<1>1. /\ hci # "none" /\ there' = there \cup {d} /\ UNCHANGED <<hci, resolved, conns, table, tcp, told>>
      /\ co' = co \/ (table[d] # 0 /\ co' = co \o <<r>>)
  BY DEF DeviceAdded, Starts
<1>2. ConnsGood' /\ TableGood' /\ TcpGood' /\ \A u \in 1 .. Len(co) : CoGood(co[u], conns', table')
  BY <1>1, SteadyNone
<1>3. CosGood'
  <2>1. CASE co' = co
    BY <1>2, <2>1, CoStays, VspBasics
  <2>2. CASE table[d] # 0 /\ co' = co \o <<r>>
    <3>1. table[d] \in 1 .. Len(conns) /\ conns[table[d]].dev = d /\ conns[table[d]].path # NoPath
      BY <2>2, VspBasics DEF TableGood
    <3>2. /\ r.op = "restore" /\ r.dev = d /\ r.conn = table[d] /\ r.todo = <<"lookup", "rewatch">>
          /\ r \in CoSet
      <4>1. table[d] \in Nat /\ <<"lookup", "rewatch">> \in VspTodos
        BY <3>1, VspBasics DEF VspTodos, RestoreTodos
      <4> DEFINE k == table[d]
      <4> HIDE DEF VspTodos, k
      <4> QED BY <4>1 DEF Start, CoSet, k
    <3> HIDE DEF r
    <3>3. Of(r, conns') /\ conns'[r.conn].path # NoPath
      BY <1>1, <3>1, <3>2 DEF Of
    <3>4. r.todo \in RestoreTodos /\ r.todo # <<"stopNotify">>
      BY <3>2 DEF RestoreTodos
    <3>5. CoGood(r, conns', table') /\ ~Connecting(r) /\ ~Closing(r)
      BY <3>2, <3>3, <3>4 DEF CoGood, Connecting, Closing
    <3> QED BY <1>2, <2>2, <3>2, <3>5, CoStartsOne, VspBasics
  <2> QED BY <1>1, <2>1, <2>2
<1>4. VspTyped'
  BY <1>1, VspBasics DEF VspTyped
<1> QED BY <1>2, <1>3, <1>4 DEF VspInv

-----------------------------------------------------------------------------
(* The steps of the TCP clients: the control is not concerned. *)
SameControl(c, e) ==
    /\ e.dev = c.dev /\ e.path = c.path /\ e.write = c.write /\ e.devProp = c.devProp /\ e.watched = c.watched
    /\ e.waiting = c.waiting /\ e.server = c.server

LEMMA ControlStays ==
    ASSUME VspInv, NEW k \in 1 .. Len(conns), NEW e \in ConnSet, conns' = [conns EXCEPT ![k] = e],
           UNCHANGED <<bluez, table, co>>, SameControl(conns[k], e), TcpGood'
    PROVE  VspInv'
<1>1. /\ conns' \in Seq(ConnSet) /\ Len(conns') = Len(conns) /\ conns'[k] = e
      /\ \A j \in 1 .. Len(conns) : j # k => conns'[j] = conns[j]
  BY VspBasics, ConnChanges
<1>2. ASSUME NEW j \in 1 .. Len(conns)
      PROVE  HoldsTo(conns[j], conns'[j]) /\ ConnGood(conns'[j])
  <2>1. ConnGood(conns[j])
    BY VspBasics
  <2>2. CASE j = k
    BY <1>1, <2>1, <2>2 DEF HoldsTo, ConnGood, SameControl
  <2>3. CASE j # k
    BY <1>1, <2>1, <2>3 DEF HoldsTo
  <2> QED BY <2>2, <2>3
<1>3. ConnsGood' /\ TableGood' /\ \A u \in 1 .. Len(co) : CoGood(co[u], conns', table')
  BY <1>1, <1>2, SteadyControl
<1>4. CosGood'
  BY <1>3, CoStays, VspBasics
<1> QED BY <1>1, <1>3, <1>4, VspTypedStays, VspBasics DEF VspInv, VspTyped

(* A client is alone with a connection from which nobody was turned away. *)
LEMMA OnlyClient ==
    ASSUME VspInv, NEW k \in 1 .. Len(conns), ~conns[k].crowded
    PROVE  /\ \A c \in TcpClients : Upon(c, k) => Single(c, k) /\ \A a \in TcpClients : a # c => ~Upon(a, k)
           /\ conns[k].client = "none" => \A a \in TcpClients : ~Upon(a, k)
           /\ BytesGood(conns[k], tcp)
           /\ (\A a \in TcpClients : ~Upon(a, k)) => Len(conns[k].rx) < WriteSize
<1>1. TcpGood
  BY VspBasics
<1>2. \A c \in TcpClients : Upon(c, k) => Single(c, k)
  BY <1>1 DEF TcpGood
<1>3. \A c \in TcpClients : Upon(c, k) => conns[k].client = c
  BY <1>2 DEF Single
<1>4. "none" \notin TcpClients
  BY VspAssumption
<1>5. BytesGood(conns[k], tcp) /\ ((\A a \in TcpClients : ~Upon(a, k)) => Len(conns[k].rx) < WriteSize)
  BY <1>1 DEF TcpGood
<1> QED BY <1>2, <1>3, <1>4, <1>5

(* What the connection of a client looks like when the client has made a step. *)
Served(e, c, x) ==
    IF x.phase = "gone" THEN Len(e.rx) < WriteSize
    ELSE /\ e.client = c /\ x.phase # "turned away"
         /\ x.phase = "sending" <=> Len(e.rx) >= WriteSize
         /\ x.phase = "sending" => x.chunk = SubSeq(e.rx, 1, WriteSize)

Sole(c, k) == \A a \in TcpClients : a # c => ~Upon(a, k)

LEMMA UtteredStays ==
    ASSUME TcpGood, NEW c \in TcpClients, NEW x, tcp' = [tcp EXCEPT ![c] = x], tcp[c].phase # "gone", x.phase # "new",
           x.phase = "gone" \/ (x.heard \in Nat /\ tcp[c].heard <= x.heard),
           NEW s \in Bytes, Uttered(s, tcp)
    PROVE  Uttered(s, tcp')
<1>1. tcp \in [TcpClients -> TcpSet] /\ tcp'[c] = x /\ \A a \in TcpClients : a # c => tcp'[a] = tcp[a]
  BY DEF TcpGood
<1>2. tcp[c].heard \in Nat
  BY <1>1 DEF TcpSet
<1>3. ASSUME NEW i \in 1 .. Len(s)
      PROVE  /\ tcp'[s[i][1]].phase # "new"
             /\ tcp'[s[i][1]].phase = "gone" \/ s[i][2] <= tcp'[s[i][1]].heard
  <2> DEFINE a == s[i][1]
             b == s[i][2]
  <2>1. a \in TcpClients /\ b \in Nat
    <3>1. s[i] \in TcpClients \X Nat
      BY ElementOfSeq DEF Bytes
    <3> QED BY <3>1
  <2>2. tcp[a].phase # "new" /\ (tcp[a].phase = "gone" \/ b <= tcp[a].heard)
    BY DEF Uttered
  <2> HIDE DEF a, b
  <2>3. CASE a = c
    <3>1. b <= tcp[c].heard
      BY <2>2, <2>3
    <3> QED BY <1>1, <1>2, <2>1, <2>3, <3>1 DEF a, b
  <2>4. CASE a # c
    BY <1>1, <2>1, <2>2, <2>4 DEF a, b
  <2> QED BY <2>3, <2>4
<1> QED BY <1>3 DEF Uttered

(* One client makes a step at its connection. *)
MovesOn(c, k, e, x) ==
    /\ tcp[c].phase = "new" \/ Upon(c, k)
    /\ x.phase # "new" /\ (x.phase # "gone" => x.conn = k) /\ (x.phase = "gone" \/ tcp[c].heard <= x.heard)
    /\ conns[k].crowded => e.crowded
    /\ ~e.crowded => Served(e, c, x) /\ Sole(c, k)

LEMMA ClientSteps ==
    ASSUME VspInv, NEW k \in 1 .. Len(conns), NEW e \in ConnSet, conns' = [conns EXCEPT ![k] = e],
           NEW c \in TcpClients, NEW x \in TcpSet, tcp' = [tcp EXCEPT ![c] = x],
           MovesOn(c, k, e, x), ~e.crowded => BytesGood(e, tcp')
    PROVE  TcpGood'
<1>1. /\ Len(conns') = Len(conns) /\ conns'[k] = e
      /\ \A j \in 1 .. Len(conns) : j # k => conns'[j] = conns[j]
  BY VspBasics, ConnChanges
<1>7. /\ tcp[c].phase = "new" \/ Upon(c, k)
      /\ x.phase # "new" /\ (x.phase # "gone" => x.conn = k) /\ (x.phase = "gone" \/ tcp[c].heard <= x.heard)
      /\ conns[k].crowded => e.crowded
      /\ ~e.crowded => Served(e, c, x) /\ Sole(c, k)
  BY DEF MovesOn
<1>2. TcpGood
  BY VspBasics
<1>3. /\ tcp \in [TcpClients -> TcpSet] /\ tcp' \in [TcpClients -> TcpSet] /\ tcp'[c] = x
      /\ \A a \in TcpClients : a # c => tcp'[a] = tcp[a]
  BY <1>2 DEF TcpGood
<1>4. \A a \in TcpClients : tcp'[a].phase = "new" => tcp'[a].heard = 0
  BY <1>2, <1>3, <1>7 DEF TcpGood
<1>5. ASSUME NEW a \in TcpClients, tcp'[a].phase \notin {"new", "gone"}
      PROVE  tcp'[a].conn \in 1 .. Len(conns')
  <2>1. CASE a = c
    BY <1>1, <1>3, <1>5, <1>7, <2>1
  <2>2. CASE a # c
    BY <1>1, <1>2, <1>3, <1>5, <2>2 DEF TcpGood
  <2> QED BY <2>1, <2>2
<1>6. ASSUME NEW j \in 1 .. Len(conns'), ~conns'[j].crowded
      PROVE  /\ BytesGood(conns'[j], tcp')
             /\ \A a \in TcpClients : Upon(a, j)' => Single(a, j)'
             /\ (\A a \in TcpClients : ~Upon(a, j)') => Len(conns'[j].rx) < WriteSize
  <2>1. CASE j = k
    <3>1. conns'[j] = e /\ ~e.crowded
      BY <1>1, <1>6, <2>1
    <3>2. BytesGood(e, tcp') /\ Served(e, c, x) /\ \A a \in TcpClients : a # c => ~Upon(a, j)
      BY <1>7, <2>1, <3>1 DEF Sole
    <3>3. \A a \in TcpClients : a # c => ~Upon(a, j)'
      BY <1>3, <3>2 DEF Upon
    <3>4. CASE x.phase = "gone"
      <4>1. ~Upon(c, j)' /\ Len(e.rx) < WriteSize
        BY <1>3, <3>2, <3>4 DEF Upon, Served
      <4> QED BY <3>1, <3>2, <3>3, <4>1
    <3>5. CASE x.phase # "gone"
      <4>1. Upon(c, j)' /\ Single(c, j)'
        BY <1>3, <1>7, <2>1, <3>1, <3>2, <3>5 DEF Upon, Served, Single
      <4> QED BY <3>1, <3>2, <3>3, <4>1
    <3> QED BY <3>4, <3>5
  <2>2. CASE j # k
    <3>1. j \in 1 .. Len(conns) /\ conns'[j] = conns[j]
      BY <1>1, <2>2
    <3>2. ~Upon(c, j) /\ ~Upon(c, j)'
      BY <1>3, <1>7, <2>2 DEF Upon
    <3>3. \A a \in TcpClients : (Upon(a, j)' <=> Upon(a, j)) /\ (a # c /\ Single(a, j) => Single(a, j)')
      BY <1>3, <3>1, <3>2 DEF Upon, Single
    <3>4. BytesGood(conns[j], tcp) /\ conns[j] \in ConnSet
      BY <1>2, <1>6, <3>1, VspBasics DEF TcpGood
    <3>5. BytesGood(conns[j], tcp')
      <4>1. conns[j].rx \in Bytes /\ conns[j].sent \in Bytes
        BY <3>4 DEF ConnSet
      <4>2. x.heard \in Nat /\ tcp[c].phase # "gone"
        BY <1>3, <1>7 DEF TcpSet, Upon
      <4>3. Uttered(conns[j].rx, tcp') /\ Uttered(conns[j].sent, tcp')
        BY <1>2, <1>7, <3>4, <4>1, <4>2, UtteredStays DEF BytesGood
      <4> QED BY <3>4, <4>3 DEF BytesGood
    <3> QED BY <1>2, <1>6, <3>1, <3>2, <3>3, <3>5 DEF TcpGood
  <2> QED BY <2>1, <2>2
<1> QED BY <1>3, <1>4, <1>5, <1>6 DEF TcpGood

LEMMA StepClientConnects ==
    ASSUME VspInv, NEW c \in TcpClients, ClientConnects(c)
    PROVE  VspInv'
<1>1. PICK k \in DOMAIN conns :
         /\ conns[k].server = "listening"
         /\ IF conns[k].client # "none"
            THEN /\ tcp' = [tcp EXCEPT ![c].conn = k, ![c].phase = "turned away"]
                 /\ conns' = [conns EXCEPT ![k].connected = FALSE, ![k].crowded = TRUE]
            ELSE /\ tcp' = [tcp EXCEPT ![c].conn = k, ![c].phase = "reading"]
                 /\ Serving(k, c)
  BY DEF ClientConnects
<1>2. tcp[c].phase = "new" /\ UNCHANGED <<bluez, table, co>>
  BY DEF ClientConnects
<1> DEFINE d == conns[k]
           y == tcp[c]
<1>3. k \in 1 .. Len(conns) /\ d \in ConnSet /\ y \in TcpSet /\ tcp \in [TcpClients -> TcpSet] /\ TcpGood
  BY VspBasics DEF TcpGood
<1>4. y.heard = 0 /\ k \in Nat
  BY <1>2, <1>3, VspBasics DEF TcpGood
<1>5. CASE d.client # "none"
  <2> DEFINE e == [d EXCEPT !.connected = FALSE, !.crowded = TRUE]
             x == [y EXCEPT !.conn = k, !.phase = "turned away"]
  <2>1. conns' = [conns EXCEPT ![k] = e] /\ tcp' = [tcp EXCEPT ![c] = x]
    BY <1>1, <1>5
  <2>2. e \in ConnSet /\ SameControl(d, e) /\ e.crowded
    <3> HIDE DEF d, AnyPath
    <3> QED BY <1>3 DEF ConnSet, SameControl
  <2>3. x \in TcpSet /\ x.phase = "turned away" /\ x.conn = k /\ x.heard = y.heard
    <3> HIDE DEF y
    <3> QED BY <1>3, <1>4 DEF TcpSet, Phases
  <2> HIDE DEF e, x
  <2>4. TcpGood'
    <3>1. MovesOn(c, k, e, x)
      <4>1. tcp[c].heard <= x.heard
        <5>1. tcp[c].heard = 0 /\ x.heard = 0
          BY <1>4, <2>3
        <5> HIDE DEF y
        <5> QED BY <5>1
      <4>2. x.phase # "new" /\ x.phase # "gone"
        BY <2>3
      <4> QED BY <1>2, <2>2, <2>3, <4>1, <4>2 DEF MovesOn
    <3> QED BY <1>3, <2>1, <2>2, <2>3, <3>1, ClientSteps
  <2> QED BY <1>2, <1>3, <2>1, <2>2, <2>4, ControlStays
<1>6. CASE d.client = "none"
  <2> DEFINE e == [d EXCEPT !.client = c, !.connected = TRUE]
             x == [y EXCEPT !.conn = k, !.phase = "reading"]
  <2>1. conns' = [conns EXCEPT ![k] = e] /\ tcp' = [tcp EXCEPT ![c] = x]
    BY <1>1, <1>6 DEF Serving
  <2>2. /\ e \in ConnSet /\ SameControl(d, e) /\ e.crowded = d.crowded /\ e.client = c
        /\ e.rx = d.rx /\ e.sent = d.sent
    <3> HIDE DEF d, AnyPath
    <3> QED BY <1>3 DEF ConnSet, SameControl
  <2>3. x \in TcpSet /\ x.phase = "reading" /\ x.conn = k /\ x.heard = y.heard
    <3> HIDE DEF y
    <3> QED BY <1>3, <1>4 DEF TcpSet, Phases
  <2> HIDE DEF e, x
  <2>4. ASSUME ~e.crowded
        PROVE  BytesGood(e, tcp') /\ Served(e, c, x) /\ Sole(c, k)
    <3>1. BytesGood(d, tcp) /\ Len(d.rx) < WriteSize /\ \A a \in TcpClients : ~Upon(a, k)
      BY <1>3, <1>6, <2>2, <2>4, OnlyClient
    <3>2. d.rx \in Bytes /\ d.sent \in Bytes
      BY <1>3 DEF ConnSet
    <3>3. Uttered(d.rx, tcp') /\ Uttered(d.sent, tcp')
      <4>1. y.phase # "gone" /\ x.phase # "new" /\ x.heard \in Nat /\ y.heard <= x.heard
        BY <1>2, <1>4, <2>3
      <4> QED BY <1>3, <2>1, <3>1, <3>2, <4>1, UtteredStays DEF BytesGood
    <3>4. BytesGood(e, tcp')
      BY <2>2, <3>1, <3>3 DEF BytesGood
    <3>5. Len(d.rx) \in Nat /\ WriteSize \in Nat
      BY <3>2, VspAssumption, LenProperties DEF Bytes
    <3>6. Served(e, c, x)
      BY <2>2, <2>3, <3>1, <3>5 DEF Served
    <3> QED BY <3>1, <3>4, <3>6 DEF Sole
  <2>5. TcpGood'
    <3>1. MovesOn(c, k, e, x)
      BY <1>2, <1>4, <2>2, <2>3, <2>4 DEF MovesOn
    <3> QED BY <1>3, <2>1, <2>2, <2>3, <2>4, <3>1, ClientSteps
  <2> QED BY <1>2, <1>3, <2>1, <2>2, <2>5, ControlStays
<1> QED BY <1>5, <1>6

(* A client upon a connection makes a step: what it finds. *)
LEMMA UponIt ==
    ASSUME VspInv, NEW c \in TcpClients, tcp[c].phase \notin {"new", "gone"}
    PROVE  LET k == tcp[c].conn
               d == conns[k]
           IN  /\ k \in 1 .. Len(conns) /\ d \in ConnSet /\ Upon(c, k) /\ tcp[c] \in TcpSet /\ tcp \in [TcpClients -> TcpSet] /\ TcpGood
               /\ d.rx \in Bytes /\ d.sent \in Bytes /\ Len(d.rx) \in Nat /\ WriteSize \in Nat \ {0}
               /\ ~d.crowded => BytesGood(d, tcp) /\ Single(c, k) /\ Sole(c, k)
<1> DEFINE k == tcp[c].conn
           d == conns[k]
<1>1. TcpGood /\ tcp \in [TcpClients -> TcpSet] /\ tcp[c] \in TcpSet /\ k \in 1 .. Len(conns)
  BY VspBasics DEF TcpGood
<1>2. d \in ConnSet /\ Upon(c, k)
  BY <1>1, VspBasics DEF Upon
<1>3. d.rx \in Bytes /\ d.sent \in Bytes
  BY <1>2 DEF ConnSet
<1>4. Len(d.rx) \in Nat /\ WriteSize \in Nat \ {0}
  BY <1>3, VspAssumption, LenProperties DEF Bytes
<1>5. ~d.crowded => BytesGood(d, tcp) /\ Single(c, k) /\ Sole(c, k)
  BY <1>1, <1>2, OnlyClient DEF Sole
<1> QED BY <1>1, <1>2, <1>3, <1>4, <1>5

(* It makes a step that leaves the bytes alone. *)
LEMMA QuietStep ==
    ASSUME VspInv, NEW c \in TcpClients, tcp[c].phase \notin {"new", "gone"}, NEW e \in ConnSet, NEW x \in TcpSet,
           conns' = [conns EXCEPT ![tcp[c].conn] = e], tcp' = [tcp EXCEPT ![c] = x], UNCHANGED <<bluez, table, co>>,
           SameControl(conns[tcp[c].conn], e),
           e.rx = conns[tcp[c].conn].rx, e.sent = conns[tcp[c].conn].sent, e.crowded = conns[tcp[c].conn].crowded,
           x.phase # "new", x.phase # "gone" => x.conn = tcp[c].conn,
           x.phase = "gone" \/ x.heard = tcp[c].heard,
           ~e.crowded => Served(e, c, x)
    PROVE  VspInv'
<1> DEFINE k == tcp[c].conn
           d == conns[k]
<1>1. /\ k \in 1 .. Len(conns) /\ d \in ConnSet /\ Upon(c, k) /\ tcp[c] \in TcpSet /\ tcp \in [TcpClients -> TcpSet] /\ TcpGood
      /\ d.rx \in Bytes /\ d.sent \in Bytes
      /\ ~d.crowded => BytesGood(d, tcp) /\ Single(c, k) /\ Sole(c, k)
  BY UponIt
<1>2. x.heard \in Nat /\ tcp[c].heard \in Nat /\ (x.phase = "gone" \/ tcp[c].heard <= x.heard)
  BY <1>1 DEF TcpSet
<1>3. ASSUME ~e.crowded
      PROVE  BytesGood(e, tcp')
  <2>1. BytesGood(d, tcp)
    BY <1>1, <1>3
  <2>2. Uttered(d.rx, tcp') /\ Uttered(d.sent, tcp')
    BY <1>1, <1>2, <2>1, UtteredStays DEF BytesGood
  <2> QED BY <2>1, <2>2 DEF BytesGood
<1>4. TcpGood'
  <2>1. MovesOn(c, k, e, x)
    BY <1>1, <1>2 DEF MovesOn
  <2>2. conns' = [conns EXCEPT ![k] = e]
    OBVIOUS
  <2> HIDE DEF k, d
  <2> QED BY <1>1, <1>3, <2>1, <2>2, ClientSteps
<1>5. SameControl(conns[k], e) /\ conns' = [conns EXCEPT ![k] = e]
  OBVIOUS
<1> HIDE DEF k
<1> QED BY <1>1, <1>4, <1>5, ControlStays

LEMMA StepTurnedAway ==
    ASSUME VspInv, NEW c \in TcpClients, TurnedAway(c)
    PROVE  VspInv'
<1> DEFINE k == tcp[c].conn
           d == conns[k]
           y == tcp[c]
           e == [d EXCEPT !.client = c, !.connected = TRUE]
           x == [y EXCEPT !.phase = "raising"]
<1>1. /\ y.phase = "turned away" /\ UNCHANGED <<bluez, table, co>>
      /\ conns' = [conns EXCEPT ![k] = e] /\ tcp' = [tcp EXCEPT ![c] = x]
  BY DEF TurnedAway, Serving, Phase
<1>2. /\ d \in ConnSet /\ y \in TcpSet
      /\ ~d.crowded => Single(c, k)
  BY <1>1, UponIt
<1>3. d.crowded
  BY <1>1, <1>2 DEF Single, ConnSet
<1>4. e \in ConnSet /\ SameControl(d, e) /\ e.crowded = d.crowded /\ e.rx = d.rx /\ e.sent = d.sent
  <2> HIDE DEF d, AnyPath
  <2> QED BY <1>2 DEF ConnSet, SameControl
<1>5. x \in TcpSet /\ x.phase = "raising" /\ x.conn = y.conn /\ x.heard = y.heard
  <2> HIDE DEF y
  <2> QED BY <1>2 DEF TcpSet, Phases
<1> HIDE DEF e, x
<1> QED BY <1>1, <1>3, <1>4, <1>5, QuietStep

LEMMA StepRaising ==
    ASSUME VspInv, NEW c \in TcpClients, Raising(c)
    PROVE  VspInv'
<1> DEFINE k == tcp[c].conn
           d == conns[k]
           y == tcp[c]
           e == [d EXCEPT !.connected = FALSE]
           x == [y EXCEPT !.phase = "ending"]
<1>1. /\ y.phase = "raising" /\ UNCHANGED <<bluez, table, co>>
      /\ conns' = [conns EXCEPT ![k] = e] /\ tcp' = [tcp EXCEPT ![c] = x]
  BY DEF Raising, Phase
<1>2. /\ d \in ConnSet /\ y \in TcpSet /\ Len(d.rx) \in Nat /\ WriteSize \in Nat
      /\ ~d.crowded => Single(c, k)
  BY <1>1, UponIt
<1>3. e \in ConnSet /\ SameControl(d, e) /\ e.crowded = d.crowded /\ e.rx = d.rx /\ e.sent = d.sent /\ e.client = d.client
  <2> HIDE DEF d, AnyPath
  <2> QED BY <1>2 DEF ConnSet, SameControl
<1>4. x \in TcpSet /\ x.phase = "ending" /\ x.conn = y.conn /\ x.heard = y.heard
  <2> HIDE DEF y
  <2> QED BY <1>2 DEF TcpSet, Phases
<1> HIDE DEF e, x
<1>5. ~e.crowded => Served(e, c, x)
  BY <1>1, <1>2, <1>3, <1>4 DEF Single, Served
<1> QED BY <1>1, <1>3, <1>4, <1>5, QuietStep

LEMMA StepReadEnds ==
    ASSUME VspInv, NEW c \in TcpClients, ReadEnd(c)
    PROVE  VspInv'
<1> DEFINE k == tcp[c].conn
           d == conns[k]
           y == tcp[c]
           e == [d EXCEPT !.connected = FALSE]
           x == [y EXCEPT !.heard = y.heard, !.phase = Loop(d.rx, FALSE), !.chunk = Chunk(d.rx)]
<1>1. /\ y.phase = "reading" /\ UNCHANGED <<bluez, table, co>>
      /\ conns' = [conns EXCEPT ![k] = e] /\ tcp' = [tcp EXCEPT ![c] = x]
  BY DEF ReadEnd, HasRead
<1>2. /\ d \in ConnSet /\ y \in TcpSet /\ d.rx \in Bytes /\ Len(d.rx) \in Nat /\ WriteSize \in Nat \ {0}
      /\ ~d.crowded => Single(c, k)
  BY <1>1, UponIt
<1>3. e \in ConnSet /\ SameControl(d, e) /\ e.crowded = d.crowded /\ e.rx = d.rx /\ e.sent = d.sent /\ e.client = d.client
  <2> HIDE DEF d, AnyPath
  <2> QED BY <1>2 DEF ConnSet, SameControl
<1>4. x \in TcpSet /\ x.phase = Loop(d.rx, FALSE) /\ x.conn = y.conn /\ x.heard = y.heard
  <2>1. Loop(d.rx, FALSE) \in {"sending", "ending"} /\ Chunk(d.rx) \in Bytes
    <3>1. Chunk(d.rx) \in Bytes
      BY <1>2, SubSeqProperties DEF Chunk, Bytes
    <3> QED BY <3>1 DEF Loop
  <2> DEFINE phase == Loop(d.rx, FALSE)
             chunk == Chunk(d.rx)
  <2>2. phase \in Phases /\ chunk \in Bytes
    BY <2>1 DEF Phases
  <2>3. x = [y EXCEPT !.heard = y.heard, !.phase = phase, !.chunk = chunk]
    OBVIOUS
  <2> HIDE DEF x, y, phase, chunk, Phases
  <2>4. x \in TcpSet /\ x.phase = phase /\ x.conn = y.conn /\ x.heard = y.heard
    BY <1>2, <2>2, <2>3 DEF TcpSet
  <2> QED BY <2>4 DEF phase
<1>5. x.phase = "sending" \/ x.phase = "ending"
  BY <1>4 DEF Loop
<1> HIDE DEF e, x
<1>6. ~e.crowded => Served(e, c, x)
  BY <1>1, <1>2, <1>3, <1>4 DEF Single, Served, Loop
<1> QED BY <1>1, <1>3, <1>4, <1>5, <1>6, QuietStep

LEMMA StepGone ==
    ASSUME VspInv, NEW c \in TcpClients, ClientGone(c)
    PROVE  VspInv'
<1> DEFINE k == tcp[c].conn
           d == conns[k]
           y == tcp[c]
           e == [d EXCEPT !.client = "none"]
           x == [NotYet EXCEPT !.phase = "gone"]
<1>1. /\ y.phase = "ending" /\ UNCHANGED <<bluez, table, co>>
      /\ conns' = [conns EXCEPT ![k] = e] /\ tcp' = [tcp EXCEPT ![c] = x]
  BY DEF ClientGone
<1>2. /\ d \in ConnSet /\ Len(d.rx) \in Nat /\ WriteSize \in Nat
      /\ ~d.crowded => Single(c, k)
  BY <1>1, UponIt
<1>3. e \in ConnSet /\ SameControl(d, e) /\ e.crowded = d.crowded /\ e.rx = d.rx /\ e.sent = d.sent
  <2> HIDE DEF d, AnyPath
  <2> QED BY <1>2 DEF ConnSet, SameControl
<1>4. x \in TcpSet /\ x.phase = "gone"
  <2>1. <<>> \in Bytes
    BY DEF Bytes
  <2> HIDE DEF Bytes
  <2> QED BY <2>1 DEF TcpSet, NotYet, Phases
<1> HIDE DEF e, x
<1>5. ~e.crowded => Served(e, c, x)
  BY <1>1, <1>2, <1>3, <1>4 DEF Single, Served
<1> QED BY <1>1, <1>3, <1>4, <1>5, QuietStep

(* What a client has sent comes after what it sent before. *)
Further(s, c, h, n) == s \o [i \in 1 .. n |-> <<c, h + i>>]

LEMMA AppendedBytes ==
    ASSUME NEW c \in TcpClients, NEW h \in Nat, NEW n \in Nat, NEW s \in Bytes
    PROVE  LET t == Further(s, c, h, n)
           IN  /\ t \in Bytes /\ Len(t) = Len(s) + n
               /\ \A i \in 1 .. Len(t) : \/ i \in 1 .. Len(s) /\ t[i] = s[i]
                                         \/ i - Len(s) \in 1 .. n /\ t[i][1] = c /\ t[i][2] = h + (i - Len(s))
<1> DEFINE more == [i \in 1 .. n |-> <<c, h + i>>]
           t == s \o more
           T == TcpClients \X Nat
<1>1. more \in Seq(T) /\ Len(more) = n
  <2>1. \A i \in 1 .. n : <<c, h + i>> \in T
    OBVIOUS
  <2> HIDE DEF T
  <2>2. more \in [1 .. n -> T]
    BY <2>1
  <2> HIDE DEF more
  <2> QED BY <2>2
<1>2. s \in Seq(T) /\ Len(s) \in Nat
  BY LenProperties DEF Bytes
<1>3. \A i \in 1 .. n : more[i][1] = c /\ more[i][2] = h + i
  OBVIOUS
<1> HIDE DEF more
<1>4. t \in Seq(T) /\ Len(t) = Len(s) + n /\ \A i \in 1 .. Len(s) + n : t[i] = IF i <= Len(s) THEN s[i] ELSE more[i - Len(s)]
  <2> HIDE DEF T
  <2> QED BY <1>1, <1>2, ConcatProperties
<1>5. ASSUME NEW i \in 1 .. Len(t)
      PROVE  \/ i \in 1 .. Len(s) /\ t[i] = s[i]
             \/ i - Len(s) \in 1 .. n /\ t[i][1] = c /\ t[i][2] = h + (i - Len(s))
  <2> DEFINE l == Len(s)
  <2> HIDE DEF T, t, l
  <2>1. l \in Nat /\ i \in 1 .. l + n /\ t[i] = IF i <= l THEN s[i] ELSE more[i - l]
    BY <1>2, <1>4 DEF l
  <2>2. CASE i <= l
    BY <2>1, <2>2 DEF l
  <2>3. CASE ~(i <= l)
    <3>1. i - l \in 1 .. n /\ t[i] = more[i - l]
      BY <2>1, <2>3
    <3> QED BY <1>3, <3>1 DEF l
  <2> QED BY <2>2, <2>3
<1>6. Further(s, c, h, n) = t
  BY DEF Further, more
<1> HIDE DEF t
<1> QED BY <1>4, <1>5, <1>6 DEF Bytes

LEMMA ByteIs ==
    ASSUME NEW s \in Bytes, NEW i \in 1 .. Len(s)
    PROVE  s[i] \in TcpClients \X Nat /\ s[i][1] \in TcpClients /\ s[i][2] \in Nat /\ Len(s) \in Nat
<1>1. s[i] \in TcpClients \X Nat /\ Len(s) \in Nat
  BY ElementOfSeq, LenProperties DEF Bytes
<1> QED BY <1>1

(* A client is heard further. *)
LEMMA HeardBytes ==
    ASSUME VspInv, NEW c \in TcpClients, tcp[c].phase \notin {"new", "gone"}, NEW n \in Nat, NEW s \in Bytes, NEW p \in Bytes,
           NEW x, x.heard = tcp[c].heard + n, x.phase \notin {"new", "gone"}, tcp' = [tcp EXCEPT ![c] = x],
           Ordered(s), Ordered(p), Before(p, s), Uttered(s, tcp), Uttered(p, tcp)
    PROVE  LET t == Further(s, c, tcp[c].heard, n) IN
              Ordered(t) /\ Before(p, t) /\ Uttered(t, tcp') /\ Uttered(p, tcp')
<1> DEFINE h == tcp[c].heard
           t == Further(s, c, h, n)
<1>1. TcpGood /\ tcp \in [TcpClients -> TcpSet] /\ h \in Nat
  BY UponIt DEF TcpSet
<1>2. /\ t \in Bytes /\ Len(t) = Len(s) + n
      /\ \A i \in 1 .. Len(t) : \/ i \in 1 .. Len(s) /\ t[i] = s[i]
                                \/ i - Len(s) \in 1 .. n /\ t[i][1] = c /\ t[i][2] = h + (i - Len(s))
  BY SMTT(60), <1>1, AppendedBytes
<1>3. Len(s) \in Nat
  BY LenProperties DEF Bytes
<1>4. \A i \in 1 .. Len(s) : s[i][1] = c => s[i][2] <= h
  BY DEF Uttered
<1>5. \A i \in 1 .. Len(p) : p[i][1] = c => p[i][2] <= h
  BY DEF Uttered
<1>7. Uttered(s, tcp') /\ Uttered(p, tcp')
  <2>1. x.heard \in Nat /\ tcp[c].heard <= x.heard
    BY <1>1
  <2> QED BY <1>1, <2>1, UtteredStays
<1> HIDE DEF t, h
<1>8. Ordered(t)
  <2>1. ASSUME NEW i \in 1 .. Len(t), NEW j \in 1 .. Len(t), i < j, t[i][1] = t[j][1]
        PROVE  t[i][2] < t[j][2]
    <3>1. CASE j \in 1 .. Len(s) /\ t[j] = s[j]
      <4>1. i \in 1 .. Len(s) /\ t[i] = s[i]
        BY <1>2, <1>3, <2>1, <3>1
      <4> QED BY <2>1, <3>1, <4>1 DEF Ordered
    <3>2. CASE j - Len(s) \in 1 .. n /\ t[j][1] = c /\ t[j][2] = h + (j - Len(s))
      <4>1. CASE i \in 1 .. Len(s) /\ t[i] = s[i]
        <5>1. s[i][2] \in Nat /\ s[i][2] <= h
          BY <1>4, <2>1, <3>2, <4>1, ByteIs
        <5> QED BY <1>1, <1>3, <3>2, <4>1, <5>1
      <4>2. CASE i - Len(s) \in 1 .. n /\ t[i][1] = c /\ t[i][2] = h + (i - Len(s))
        BY <1>1, <1>3, <2>1, <3>2, <4>2
      <4> QED BY <1>2, <4>1, <4>2
    <3> QED BY <1>2, <3>1, <3>2
  <2> QED BY <2>1 DEF Ordered
<1>9. Before(p, t)
  <2>1. ASSUME NEW i \in 1 .. Len(p), NEW j \in 1 .. Len(t), p[i][1] = t[j][1]
        PROVE  p[i][2] < t[j][2]
    <3>1. CASE j \in 1 .. Len(s) /\ t[j] = s[j]
      BY <2>1, <3>1 DEF Before
    <3>2. CASE j - Len(s) \in 1 .. n /\ t[j][1] = c /\ t[j][2] = h + (j - Len(s))
      <4>1. p[i][2] \in Nat /\ p[i][2] <= h
        BY <1>5, <2>1, <3>2, ByteIs
      <4> QED BY <1>1, <1>3, <3>2, <4>1
    <3> QED BY <1>2, <3>1, <3>2
  <2> QED BY <2>1 DEF Before
<1>10. Uttered(t, tcp')
  <2>1. ASSUME NEW i \in 1 .. Len(t)
        PROVE  /\ tcp'[t[i][1]].phase # "new"
               /\ tcp'[t[i][1]].phase = "gone" \/ t[i][2] <= tcp'[t[i][1]].heard
    <3>1. CASE i \in 1 .. Len(s) /\ t[i] = s[i]
      BY <1>7, <3>1 DEF Uttered
    <3>2. CASE i - Len(s) \in 1 .. n /\ t[i][1] = c /\ t[i][2] = h + (i - Len(s))
      <4>1. tcp'[c] = x /\ t[i][2] <= h + n
        BY <1>1, <1>3, <3>2
      <4> QED BY <3>2, <4>1 DEF h
    <3> QED BY <1>2, <3>1, <3>2
  <2> QED BY <2>1 DEF Uttered
<1> QED BY <1>7, <1>8, <1>9, <1>10 DEF t, h

LEMMA StepReads ==
    ASSUME VspInv, NEW c \in TcpClients, ReadSome(c)
    PROVE  VspInv'
<1> DEFINE k == tcp[c].conn
           d == conns[k]
           y == tcp[c]
           Rx(n) == Further(d.rx, c, y.heard, n)
<1>1. /\ y.phase = "reading" /\ UNCHANGED <<bluez, table, co>>
      /\ \E n \in 1 .. WriteSize :
            /\ conns' = [conns EXCEPT ![k].rx = Rx(n)]
            /\ HasRead(c, y.heard + n, Rx(n), d.connected)
  BY DEF ReadSome, Further
<1>2. PICK n \in 1 .. WriteSize :
         /\ conns' = [conns EXCEPT ![k].rx = Rx(n)]
         /\ HasRead(c, y.heard + n, Rx(n), d.connected)
  BY <1>1
<1> DEFINE rx == Rx(n)
           e == [d EXCEPT !.rx = rx]
           x == [y EXCEPT !.heard = y.heard + n, !.phase = Loop(rx, d.connected), !.chunk = Chunk(rx)]
<1>3. conns' = [conns EXCEPT ![k] = e] /\ tcp' = [tcp EXCEPT ![c] = x]
  BY <1>2 DEF HasRead
<1>4. /\ k \in 1 .. Len(conns) /\ d \in ConnSet /\ Upon(c, k) /\ y \in TcpSet /\ TcpGood
      /\ d.rx \in Bytes /\ d.sent \in Bytes /\ Len(d.rx) \in Nat /\ WriteSize \in Nat \ {0}
      /\ ~d.crowded => BytesGood(d, tcp) /\ Single(c, k) /\ Sole(c, k)
  BY <1>1, UponIt
<1>5. y.heard \in Nat /\ n \in Nat
  BY <1>4 DEF TcpSet
<1>6. rx \in Bytes /\ Len(rx) = Len(d.rx) + n
  <2> HIDE DEF d, y
  <2> QED BY <1>4, <1>5, AppendedBytes
<1> HIDE DEF rx
<1>7. /\ e \in ConnSet /\ SameControl(d, e) /\ e.crowded = d.crowded /\ e.rx = rx /\ e.sent = d.sent /\ e.client = d.client
  <2> HIDE DEF d, AnyPath, Bytes
  <2> QED BY <1>4, <1>6 DEF ConnSet, SameControl
<1> DEFINE phase == Loop(rx, d.connected)
           chunk == Chunk(rx)
<1>8. phase \in {"sending", "reading", "ending"} /\ (phase = "sending" <=> Len(rx) >= WriteSize)
  BY DEF Loop
<1>9. /\ chunk \in Bytes /\ (phase = "sending" => chunk = SubSeq(rx, 1, WriteSize))
  <2>1. Len(rx) >= WriteSize => SubSeq(rx, 1, WriteSize) \in Bytes
    <3>1. Len(rx) >= WriteSize => \A i \in 1 .. WriteSize : rx[i] \in TcpClients \X Nat
      BY <1>4, <1>6, ByteIs
    <3> QED BY <1>4, <3>1, SubSeqProperties DEF Bytes
  <2>2. <<>> \in Bytes
    BY DEF Bytes
  <2> QED BY <1>8, <2>1, <2>2 DEF Chunk
<1>10. x \in TcpSet /\ x.phase = phase /\ x.conn = k /\ x.heard = y.heard + n /\ x.chunk = chunk
  <2>1. phase \in Phases /\ y.heard + n \in Nat
    <3>1. phase \in Phases
      BY <1>8 DEF Phases
    <3> QED BY <1>5, <3>1
  <2> DEFINE upTo == y.heard + n
  <2>2. x = [y EXCEPT !.heard = upTo, !.phase = phase, !.chunk = chunk] /\ k = y.conn
    OBVIOUS
  <2> HIDE DEF x, y, phase, chunk, upTo, k, Phases, Bytes
  <2>3. upTo \in Nat
    BY <2>1 DEF upTo
  <2>4. x \in TcpSet /\ x.phase = phase /\ x.conn = y.conn /\ x.heard = upTo /\ x.chunk = chunk
    BY <1>4, <1>9, <2>1, <2>2, <2>3 DEF TcpSet
  <2> QED BY <2>2, <2>4 DEF upTo
<1> HIDE DEF x, e, phase, chunk
<1>11. x.phase # "new" /\ x.phase # "gone" /\ x.phase # "turned away"
  BY <1>8, <1>10
<1>12. MovesOn(c, k, e, x)
  <2>1. y.heard <= x.heard
    <3> DEFINE upTo == y.heard
    <3> HIDE DEF upTo
    <3>1. upTo \in Nat /\ n \in Nat /\ x.heard = upTo + n
      BY <1>5, <1>10 DEF upTo
    <3> QED BY <3>1 DEF upTo
  <2>2. ~e.crowded => Served(e, c, x)
    BY <1>4, <1>7, <1>8, <1>9, <1>10, <1>11 DEF Served, Single
  <2> QED BY <1>4, <1>7, <1>10, <1>11, <2>1, <2>2 DEF MovesOn
<1>13. ASSUME ~e.crowded
       PROVE  BytesGood(e, tcp')
  <2>1. BytesGood(d, tcp) /\ Single(c, k)
    BY <1>4, <1>7, <1>13
  <2>2. Len(d.rx) < WriteSize
    <3>1. y.phase # "sending"
      BY <1>1
    <3>2. ~(Len(d.rx) >= WriteSize)
      BY <2>1, <3>1 DEF Single
    <3> DEFINE l == Len(d.rx)
    <3>3. l \in Nat /\ WriteSize \in Nat /\ ~(l >= WriteSize)
      BY <1>4, <3>2
    <3> HIDE DEF l
    <3>4. l < WriteSize
      BY <3>3
    <3> QED BY <3>4 DEF l
  <2>3. Ordered(rx) /\ Before(d.sent, rx) /\ Uttered(rx, tcp') /\ Uttered(d.sent, tcp')
    <3> DEFINE s == d.rx
               p == d.sent
    <3>1. /\ s \in Bytes /\ p \in Bytes
          /\ Ordered(s) /\ Ordered(p) /\ Before(p, s) /\ Uttered(s, tcp) /\ Uttered(p, tcp)
      BY <1>4, <2>1 DEF BytesGood
    <3>2. x.heard = tcp[c].heard + n /\ x.phase \notin {"new", "gone"} /\ tcp[c].phase \notin {"new", "gone"}
      BY <1>1, <1>10, <1>11
    <3>3. rx = Further(s, c, tcp[c].heard, n)
      BY DEF rx
    <3> HIDE DEF s, p
    <3>4. Ordered(rx) /\ Before(p, rx) /\ Uttered(rx, tcp') /\ Uttered(p, tcp')
      BY <1>3, <1>5, <3>1, <3>2, <3>3, HeardBytes
    <3> QED BY <3>4 DEF p
  <2> QED BY SMTT(60), <1>4, <1>6, <1>7, <2>1, <2>2, <2>3 DEF BytesGood
<1> HIDE DEF k, d
<1>14. TcpGood'
  BY <1>3, <1>4, <1>7, <1>10, <1>12, <1>13, ClientSteps
<1> QED BY <1>1, <1>3, <1>4, <1>7, <1>14, ControlStays DEF d

(* The head of the buffer is sent. *)
LEMMA SentBytes ==
    ASSUME NEW s \in Bytes, NEW p \in Bytes, NEW m \in Nat, m <= Len(s), NEW u,
           Ordered(s), Ordered(p), Before(p, s), Uttered(s, u), Uttered(p, u)
    PROVE  LET a == SubSeq(s, 1, m)
               b == SubSeq(s, m + 1, Len(s))
           IN  /\ Len(b) = Len(s) - m
               /\ Ordered(p \o a) /\ Ordered(b) /\ Before(p \o a, b) /\ Before(p, b) /\ Uttered(p \o a, u) /\ Uttered(b, u)
<1> DEFINE a == SubSeq(s, 1, m)
           b == SubSeq(s, m + 1, Len(s))
           t == p \o a
           T == TcpClients \X Nat
<1>1. Len(s) \in Nat /\ Len(p) \in Nat /\ p \in Seq(T) /\ \A i \in 1 .. Len(s) : s[i] \in T
  BY ByteIs, LenProperties DEF Bytes
<1>2. a \in Seq(T) /\ Len(a) = m /\ \A i \in 1 .. m : a[i] = s[i]
  <2> HIDE DEF T
  <2>1. \A i \in 1 .. m : s[i] \in T
    BY <1>1
  <2>2. a \in Seq(T) /\ Len(a) = (IF 1 <= m THEN m - 1 + 1 ELSE 0) /\ \A i \in 1 .. m - 1 + 1 : a[i] = s[1 + i - 1]
    BY <2>1, SubSeqProperties
  <2> HIDE DEF a
  <2>3. m - 1 + 1 = m /\ \A i \in 1 .. m : 1 + i - 1 = i
    OBVIOUS
  <2> QED BY <2>2, <2>3
<1>3. Len(b) = Len(s) - m /\ \A i \in 1 .. Len(s) - m : b[i] = s[m + i]
  <2> DEFINE l == Len(s)
  <2> HIDE DEF T
  <2>1. \A i \in m + 1 .. l : s[i] \in T
    BY <1>1
  <2>2. Len(b) = (IF m + 1 <= l THEN l - (m + 1) + 1 ELSE 0) /\ \A i \in 1 .. l - (m + 1) + 1 : b[i] = s[(m + 1) + i - 1]
    <3> HIDE DEF l
    <3> QED BY <1>1, <2>1, SubSeqProperties DEF l
  <2> HIDE DEF b, l
  <2>3. l \in Nat /\ m <= l /\ l - (m + 1) + 1 = l - m
    BY <1>1 DEF l
  <2>4. Len(b) = l - m
    BY <2>2, <2>3
  <2>5. ASSUME NEW i \in 1 .. l - m
        PROVE  b[i] = s[m + i]
    <3>1. i \in 1 .. l - (m + 1) + 1 /\ (m + 1) + i - 1 = m + i
      BY <2>3
    <3> QED BY <2>2, <3>1
  <2> QED BY <2>4, <2>5 DEF l
<1> HIDE DEF a, b, T
<1>4. Len(t) = Len(p) + m /\ \A i \in 1 .. Len(p) + m : t[i] = IF i <= Len(p) THEN p[i] ELSE a[i - Len(p)]
  BY <1>1, <1>2, ConcatProperties
<1> HIDE DEF t
<1>5. ASSUME NEW i \in 1 .. Len(t)
      PROVE  \/ i \in 1 .. Len(p) /\ t[i] = p[i]
             \/ i - Len(p) \in 1 .. m /\ t[i] = s[i - Len(p)] /\ ~(i <= Len(p))
  <2>1. CASE i <= Len(p)
    BY <1>1, <1>4, <2>1
  <2>2. CASE ~(i <= Len(p))
    <3>1. i - Len(p) \in 1 .. m /\ t[i] = a[i - Len(p)]
      BY <1>1, <1>4, <2>2
    <3> QED BY <1>2, <2>2, <3>1
  <2> QED BY <2>1, <2>2
<1>6. ASSUME NEW i \in 1 .. Len(b)
      PROVE  m + i \in 1 .. Len(s) /\ b[i] = s[m + i]
  BY <1>1, <1>3
<1>7. Ordered(t)
  <2>1. ASSUME NEW i \in 1 .. Len(t), NEW j \in 1 .. Len(t), i < j, t[i][1] = t[j][1]
        PROVE  t[i][2] < t[j][2]
    <3>1. CASE j \in 1 .. Len(p) /\ t[j] = p[j]
      <4>1. i \in 1 .. Len(p) /\ t[i] = p[i]
        BY <1>1, <1>4, <2>1, <3>1
      <4> QED BY <2>1, <3>1, <4>1 DEF Ordered
    <3>2. CASE j - Len(p) \in 1 .. m /\ t[j] = s[j - Len(p)]
      <4>1. j - Len(p) \in 1 .. Len(s)
        BY <1>1, <3>2
      <4>2. CASE i \in 1 .. Len(p) /\ t[i] = p[i]
        BY <2>1, <3>2, <4>1, <4>2 DEF Before
      <4>3. CASE i - Len(p) \in 1 .. m /\ t[i] = s[i - Len(p)]
        <5>1. i - Len(p) \in 1 .. Len(s) /\ i - Len(p) < j - Len(p)
          BY <1>1, <1>4, <2>1, <4>3
        <5> QED BY <2>1, <3>2, <4>1, <4>3, <5>1 DEF Ordered
      <4> QED BY <1>5, <4>2, <4>3
    <3> QED BY <1>5, <3>1, <3>2
  <2> QED BY <2>1 DEF Ordered
<1>8. Ordered(b)
  <2>1. ASSUME NEW i \in 1 .. Len(b), NEW j \in 1 .. Len(b), i < j, b[i][1] = b[j][1]
        PROVE  b[i][2] < b[j][2]
    <3>1. m + i < m + j
      BY <1>1, <1>3, <2>1
    <3> QED BY <1>6, <2>1, <3>1 DEF Ordered
  <2> QED BY <2>1 DEF Ordered
<1>9. Before(t, b)
  <2>1. ASSUME NEW i \in 1 .. Len(t), NEW j \in 1 .. Len(b), t[i][1] = b[j][1]
        PROVE  t[i][2] < b[j][2]
    <3>1. m + j \in 1 .. Len(s) /\ b[j] = s[m + j]
      BY <1>6
    <3>2. CASE i \in 1 .. Len(p) /\ t[i] = p[i]
      BY <2>1, <3>1, <3>2 DEF Before
    <3>3. CASE i - Len(p) \in 1 .. m /\ t[i] = s[i - Len(p)]
      <4>1. i - Len(p) \in 1 .. Len(s) /\ i - Len(p) < m + j
        BY <1>1, <1>3, <3>3
      <4> QED BY <2>1, <3>1, <3>3, <4>1 DEF Ordered
    <3> QED BY <1>5, <3>2, <3>3
  <2> QED BY <2>1 DEF Before
<1>10. Before(p, b)
  <2>1. ASSUME NEW i \in 1 .. Len(p), NEW j \in 1 .. Len(b), p[i][1] = b[j][1]
        PROVE  p[i][2] < b[j][2]
    BY <1>6, <2>1 DEF Before
  <2> QED BY <2>1 DEF Before
<1>11. Uttered(t, u)
  <2>1. ASSUME NEW i \in 1 .. Len(t)
        PROVE  u[t[i][1]].phase # "new" /\ (u[t[i][1]].phase = "gone" \/ t[i][2] <= u[t[i][1]].heard)
    <3>1. CASE i \in 1 .. Len(p) /\ t[i] = p[i]
      BY <3>1 DEF Uttered
    <3>2. CASE i - Len(p) \in 1 .. m /\ t[i] = s[i - Len(p)]
      <4>1. i - Len(p) \in 1 .. Len(s)
        BY <1>1, <3>2
      <4> QED BY <3>2, <4>1 DEF Uttered
    <3> QED BY <1>5, <3>1, <3>2
  <2> QED BY <2>1 DEF Uttered
<1>12. Uttered(b, u)
  BY <1>6 DEF Uttered
<1> QED BY <1>3, <1>7, <1>8, <1>9, <1>10, <1>11, <1>12 DEF t, a, b

LEMMA StepSends ==
    ASSUME VspInv, NEW c \in TcpClients, GattSendData(c)
    PROVE  VspInv'
<1> DEFINE k == tcp[c].conn
           d == conns[k]
           y == tcp[c]
           rx == SubSeq(d.rx, WriteSize + 1, Len(d.rx))
           phase == IF d.connected THEN "reading" ELSE "ending"
           x == [y EXCEPT !.phase = phase]
<1>1. /\ y.phase = "sending" /\ UNCHANGED <<bluez, table, co>> /\ tcp' = [tcp EXCEPT ![c] = x]
      /\ \/ conns' = [conns EXCEPT ![k] = Taken(d, y.chunk, TRUE)]
         \/ conns' = [conns EXCEPT ![k] = Taken(d, y.chunk, FALSE)]
  BY DEF GattSendData, Phase
<1>2. /\ k \in 1 .. Len(conns) /\ d \in ConnSet /\ Upon(c, k) /\ y \in TcpSet /\ TcpGood
      /\ d.rx \in Bytes /\ d.sent \in Bytes /\ Len(d.rx) \in Nat /\ WriteSize \in Nat \ {0}
      /\ ~d.crowded => BytesGood(d, tcp) /\ Single(c, k) /\ Sole(c, k)
  BY <1>1, UponIt
<1>3. y.chunk \in Bytes /\ y.heard \in Nat
  BY <1>2 DEF TcpSet
<1>4. rx \in Bytes
  <2> DEFINE s == d.rx
  <2>1. \A i \in WriteSize + 1 .. Len(s) : s[i] \in TcpClients \X Nat
    BY <1>2, ByteIs
  <2>2. s \in Bytes /\ Len(s) \in Nat /\ WriteSize \in Nat
    BY <1>2
  <2> HIDE DEF s
  <2> QED BY <2>1, <2>2, SubSeqProperties DEF Bytes, s
<1> DEFINE Sent(ok) == IF ok THEN d.sent \o y.chunk ELSE d.sent
<1>5. PICK ok \in BOOLEAN : conns' = [conns EXCEPT ![k] = Taken(d, y.chunk, ok)]
  BY <1>1
<1> DEFINE sent == Sent(ok)
           e == [d EXCEPT !.rx = rx, !.sent = sent]
<1>6. conns' = [conns EXCEPT ![k] = e]
  BY <1>5 DEF Taken
<1>7. sent \in Bytes /\ (sent = d.sent \/ sent = d.sent \o y.chunk)
  BY <1>2, <1>3, ConcatProperties DEF Bytes
<1> HIDE DEF rx, sent
<1>8. /\ e \in ConnSet /\ SameControl(d, e) /\ e.crowded = d.crowded /\ e.rx = rx /\ e.sent = sent /\ e.client = d.client
  <2> HIDE DEF d, AnyPath, Bytes
  <2> QED BY <1>2, <1>4, <1>7 DEF ConnSet, SameControl
<1>9. phase = "reading" \/ phase = "ending"
  OBVIOUS
<1>10. x \in TcpSet /\ x.phase = phase /\ x.conn = y.conn /\ x.heard = y.heard
  <2>1. phase \in Phases
    BY <1>9 DEF Phases
  <2> HIDE DEF y, phase, Phases, Bytes
  <2> QED BY <1>2, <2>1 DEF TcpSet
<1>11. x.phase # "new" /\ x.phase # "gone" /\ x.phase # "turned away" /\ x.phase # "sending"
  BY <1>9, <1>10
<1> HIDE DEF x, e, phase
<1>12. ASSUME ~e.crowded
       PROVE  BytesGood(e, tcp') /\ Served(e, c, x) /\ Sole(c, k)
  <2> DEFINE s == d.rx
             p == d.sent
  <2>1. BytesGood(d, tcp) /\ Single(c, k) /\ Sole(c, k)
    BY <1>2, <1>8, <1>12
  <2>2. d.client = c /\ Len(s) >= WriteSize /\ y.chunk = SubSeq(s, 1, WriteSize)
    BY <1>1, <2>1 DEF Single
  <2>3. Len(s) < 2 * WriteSize
    BY <2>1 DEF BytesGood
  <2>4. /\ s \in Bytes /\ p \in Bytes
        /\ Ordered(s) /\ Ordered(p) /\ Before(p, s) /\ Uttered(s, tcp) /\ Uttered(p, tcp)
    BY <1>2, <2>1 DEF BytesGood
  <2>5. Uttered(s, tcp') /\ Uttered(p, tcp')
    <3>1. tcp[c].phase # "gone" /\ x.phase # "new" /\ x.heard \in Nat /\ tcp[c].heard <= x.heard
      <4>1. tcp[c].phase # "gone" /\ x.phase # "new"
        BY <1>1, <1>11
      <4>2. x.heard = tcp[c].heard /\ tcp[c].heard \in Nat
        BY <1>3, <1>10
      <4> DEFINE upTo == tcp[c].heard
      <4>3. x.heard = upTo /\ upTo \in Nat
        BY <4>2
      <4> HIDE DEF upTo
      <4> QED BY <4>1, <4>3 DEF upTo
    <3> HIDE DEF s, p
    <3> QED BY <1>1, <1>2, <2>4, <3>1, UtteredStays
  <2>6. /\ Len(rx) = Len(s) - WriteSize
        /\ Ordered(p \o y.chunk) /\ Ordered(rx) /\ Before(p \o y.chunk, rx) /\ Before(p, rx)
        /\ Uttered(p \o y.chunk, tcp') /\ Uttered(rx, tcp')
    <3> DEFINE a == y.chunk
               u == tcp'
               m == WriteSize
    <3>1. m \in Nat /\ m <= Len(s) /\ Uttered(s, u) /\ Uttered(p, u)
      BY <1>2, <2>2, <2>5
    <3>2. a = SubSeq(s, 1, m) /\ rx = SubSeq(s, m + 1, Len(s))
      BY <2>2 DEF rx
    <3> HIDE DEF s, p, a, u, m
    <3>3. /\ Len(rx) = Len(s) - m
          /\ Ordered(p \o a) /\ Ordered(rx) /\ Before(p \o a, rx) /\ Before(p, rx)
          /\ Uttered(p \o a, u) /\ Uttered(rx, u)
      BY <2>4, <3>1, <3>2, SentBytes
    <3> QED BY <3>3 DEF a, u, m
  <2>7. Len(rx) < WriteSize /\ Len(rx) < 2 * WriteSize /\ ~(Len(rx) >= WriteSize)
    <3> DEFINE l == Len(s)
    <3>1. l \in Nat /\ WriteSize \in Nat \ {0} /\ l < 2 * WriteSize /\ l >= WriteSize /\ Len(rx) = l - WriteSize
      BY <1>2, <2>2, <2>3, <2>6
    <3> HIDE DEF l
    <3> QED BY <3>1
  <2>8. Ordered(sent) /\ Before(sent, rx) /\ Uttered(sent, tcp')
    <3>1. CASE sent = p
      BY <2>4, <2>5, <2>6, <3>1
    <3>2. CASE sent = p \o y.chunk
      BY <2>6, <3>2
    <3> QED BY <1>7, <3>1, <3>2
  <2>9. BytesGood(e, tcp')
    BY <1>8, <2>6, <2>7, <2>8 DEF BytesGood
  <2>10. Served(e, c, x)
    BY <1>8, <1>11, <2>2, <2>7 DEF Served
  <2> QED BY <2>1, <2>9, <2>10
<1>13. MovesOn(c, k, e, x)
  <2>1. x.conn = k /\ y.heard <= x.heard
    BY <1>3, <1>10
  <2> QED BY <1>2, <1>8, <1>11, <1>12, <2>1 DEF MovesOn
<1> HIDE DEF k, d
<1>14. TcpGood'
  BY <1>1, <1>2, <1>6, <1>8, <1>10, <1>12, <1>13, ClientSteps
<1> QED BY <1>1, <1>2, <1>6, <1>8, <1>14, ControlStays DEF d

-----------------------------------------------------------------------------
LEMMA VspInitially == VspInit => VspInv
<1> SUFFICES ASSUME VspInit
             PROVE  VspInv
  OBVIOUS
<1>1. /\ hci = "hci0" /\ there = VspDevices /\ resolved = VspDevices /\ conns = <<>> /\ co = <<>>
      /\ table = [d \in VspDevices |-> 0] /\ tcp = [c \in TcpClients |-> NotYet]
  BY DEF VspInit
<1>2. 1 .. Len(conns) = {} /\ 1 .. Len(co) = {}
  BY <1>1
<1>3. VspTyped
  BY <1>1 DEF VspTyped
<1>4. ConnsGood /\ TableGood
  BY <1>1, <1>2 DEF ConnsGood, TableGood
<1>5. CosGood
  BY <1>1, <1>2 DEF CosGood
<1>6. TcpGood
  <2>1. NotYet \in TcpSet /\ NotYet.phase = "new" /\ NotYet.heard = 0
    <3>1. <<>> \in Bytes
      BY DEF Bytes
    <3> HIDE DEF Bytes
    <3> QED BY <3>1 DEF NotYet, TcpSet, Phases
  <2> QED BY <1>1, <1>2, <2>1 DEF TcpGood
<1> QED BY <1>3, <1>4, <1>5, <1>6 DEF VspInv

(* Nothing changes but the commands that are being looked up. *)
LEMMA StepLooks ==
    ASSUME VspInv, UNCHANGED <<hci, there, resolved, conns, table, co, tcp>>
    PROVE  VspInv'
<1>1. ConnsGood' /\ TableGood' /\ TcpGood' /\ \A u \in 1 .. Len(co) : CoGood(co[u], conns', table')
  BY SteadyNone
<1>2. CosGood'
  BY <1>1, CoStays, VspBasics
<1>3. VspTyped'
  BY VspBasics DEF VspTyped
<1> QED BY <1>1, <1>2, <1>3 DEF VspInv

LEMMA VspSteps == VspInv /\ [VspNext]_vsp => VspInv'
<1> SUFFICES ASSUME VspInv, [VspNext]_vsp
             PROVE  VspInv'
  OBVIOUS
<1>1. CASE UNCHANGED vsp
  BY <1>1, StepLooks DEF vsp
<1>2. CASE VspRequest
  <2>1. ASSUME NEW d \in VspDevices, NEW op \in Commands, VspCommand(op, d) \/ TurnedDown(op, d)
        PROVE  VspInv'
    BY <2>1, StepLooks DEF VspCommand, TurnedDown
  <2> QED BY <1>2, <2>1, StepConnects, StepDisconnects, StepUnpairs DEF VspRequest
<1>3. CASE BluezStep
  BY <1>3, StepDeviceDisconnects, StepResolves, StepDeviceAdded, StepControllerRemoved, StepControllerAdded DEF BluezStep
<1>4. CASE \E t \in DOMAIN co : CoroutineStep(t) \/ TimedOut(t)
  <2>1. PICK t \in 1 .. Len(co) : CoroutineStep(t) \/ TimedOut(t)
    BY <1>4, VspBasics
  <2> QED BY <2>1, StepCreates, StepNotifies, StepServes, StepWatches, StepStops, StepRemoves, StepFinds, StepRewatches,
             StepTimesOut DEF CoroutineStep
<1>5. CASE \E c \in TcpClients : TcpStep(c)
  BY <1>5, StepClientConnects, StepTurnedAway, StepRaising, StepReads, StepReadEnds, StepSends, StepGone DEF TcpStep
<1> QED BY <1>1, <1>2, <1>3, <1>4, <1>5 DEF VspNext

LEMMA VspAlways == VspSpec => []VspInv
BY VspInitially, VspSteps, PTL DEF VspSpec

(* A virtual serial port that is listed for a device has its server up, watches that     *)
(* device and writes to no other, whatever requests, callbacks, resets of the controller *)
(* and timeouts overlap: gattConnect, vsp_close, device_prop_changed_cb.                  *)
THEOREM ListedPortsServe == VspSpec => []PortsServe
<1>1. VspInv => PortsServe
  <2> SUFFICES ASSUME VspInv
               PROVE  PortsServe
    OBVIOUS
  <2>1. ASSUME NEW d \in VspDevices
        PROVE  table[d] \in 0 .. Len(conns)
    <3>1. table[d] \in Nat
      BY VspBasics DEF VspTyped
    <3> QED BY <3>1, VspBasics DEF TableGood
  <2>2. ASSUME NEW k \in DOMAIN conns
        PROVE  /\ conns[k].client \in TcpClients \cup {"none"}
               /\ ~conns[k].crowded => Len(conns[k].rx) < 2 * WriteSize
    <3>1. k \in 1 .. Len(conns) /\ conns[k] \in ConnSet
      BY VspBasics
    <3>2. conns[k].client \in TcpClients \cup {"none"}
      BY <3>1 DEF ConnSet
    <3>3. ~conns[k].crowded => BytesGood(conns[k], tcp)
      BY <3>1, OnlyClient
    <3> QED BY <3>2, <3>3 DEF BytesGood
  <2>3. ASSUME NEW t \in DOMAIN co
        PROVE  co[t].conn \in 0 .. Len(conns)
    BY CoFacts, VspBasics
  <2>4. resolved \subseteq there
    BY VspBasics DEF VspTyped
  <2>5. ListedServes
    <3>1. ASSUME NEW d \in VspDevices, table[d] # 0
          PROVE  LET c == conns[table[d]] IN
                 /\ c.dev = d /\ c.server = "listening" /\ c.devProp # NoPath
                 /\ c.write[1] \in {d, "none"}
      <4>1. /\ table[d] \in 1 .. Len(conns)
            /\ LET c == conns[table[d]] IN c.dev = d /\ c.server = "listening" /\ c.devProp # NoPath /\ c.path # NoPath
        BY <3>1, VspBasics DEF TableGood
      <4>2. ConnGood(conns[table[d]])
        BY <4>1, VspBasics
      <4> QED BY <4>1, <4>2 DEF ConnGood
    <3> QED BY <3>1 DEF ListedServes
  <2> QED BY <2>1, <2>2, <2>3, <2>4, <2>5 DEF PortsServe, VspTypeOK
<1> QED BY <1>1, VspAlways, PTL

(* As long as no client was turned away from a port, the bytes of a client are written to *)
(* the device at most once each and in their order: client_connected_callback and          *)
(* gatt_send_data.                                                                          *)
THEOREM BytesInOrder == VspSpec => []SentOnce
<1>1. VspInv => SentOnce
  <2> SUFFICES ASSUME VspInv, NEW k \in DOMAIN conns, ~conns[k].crowded,
                      NEW i \in DOMAIN conns[k].sent, NEW j \in DOMAIN conns[k].sent,
                      i < j, conns[k].sent[i][1] = conns[k].sent[j][1]
               PROVE  conns[k].sent[i][2] < conns[k].sent[j][2]
    BY DEF SentOnce
  <2>1. k \in 1 .. Len(conns) /\ conns[k] \in ConnSet
    BY VspBasics
  <2>2. Ordered(conns[k].sent)
    BY <2>1, OnlyClient DEF BytesGood
  <2>3. conns[k].sent \in Bytes
    BY <2>1 DEF ConnSet
  <2>4. DOMAIN conns[k].sent = 1 .. Len(conns[k].sent)
    BY <2>3, LenProperties DEF Bytes
  <2> QED BY <2>2, <2>4 DEF Ordered
<1> QED BY <1>1, VspAlways, PTL

-----------------------------------------------------------------------------
(* The parts of the plugin together, each moving by itself: a serial port that is listed *)
(* serves its device (gatt_connect, vsp_close), and a TCP server that was stopped is      *)
(* over (stop_tcp_server), whatever the other parts do.                                   *)
THEOREM ServersStayRight == Spec => []ServersRight
<1>1. Init => VspInit /\ ServersInit
  BY DEF Init
<1>2. [Next]_plugin => [VspNext]_vsp /\ [ServersNext]_servers
  BY DEF Next, ServiceNext, SerialNext, TellNext, plugin
<1>3. Spec => VspSpec /\ ServersSpec
  BY <1>1, <1>2, PTL DEF Spec, VspSpec, ServersSpec
<1>4. PortsServe /\ StoppedIsOver => ServersRight
  BY DEF ServersRight
<1> QED BY <1>3, <1>4, ListedPortsServe, ServerStops, PTL
=============================================================================
