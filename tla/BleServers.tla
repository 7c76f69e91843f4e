------------------------------ MODULE BleServers ------------------------------
(***************************************************************************)
(* The servers that tell what Bluetooth devices send: the TCP server of    *)
(* the BLE plugin, that of a barcode scanner, and the web sockets.         *)
(*                                                                         *)
(* A TCP server has a thread of its own, a scanner another one that reads  *)
(* barcodes.  The event loop sends to the client of a server and stops it, *)
(* and stands still meanwhile; a lock protects the client.                 *)
(***************************************************************************)
EXTENDS Integers, Sequences, FiniteSets

CONSTANTS
    Listeners,         \* the web sockets
    MaxBroadcasts,     \* bound: notifications of BLE devices and barcodes
    MaxClients,        \* bound: TCP clients that connect
    MaxStarts          \* bound: servers started

ASSUME ServersAssumption == {MaxBroadcasts, MaxClients, MaxStarts} \subseteq Nat

Servers == {"ble", "scanner"}

VARIABLES
    server,            \* BluetoothBlePlugin._server or an entry of hid_connections: there is one
    sock,              \* its listening socket: "none", "open" or "closed"
    thread,            \* bluetooth_tcp_server_thread or hid_tcp_server_thread, where it is
    peer,              \* the accepted client: "none", "up", or "down" when no more will come
    held,              \* _tcp_connection is that client
    lock,              \* who has _tcp_lock: "free", "loop" or "reader"
    loop,              \* the event loop: "free", or what it is in the middle of, and for whom
    reader,            \* barcode_scanner_read_thread
    stopping,          \* _terminate_read_thread, and the byte in the pipe
    mine,              \* the thread HidBarcodeScanner.thread is: it is used for both
    listeners,         \* web socket -> its queue of messages
    socket,            \* web socket -> "new", "open" or "gone"
    stray,             \* bleStartServer failed after its thread was started
    sentSoFar, clients, starts

tcpVars == <<server, sock, thread, peer, held, lock, loop, reader, stopping, mine, stray>>
wsVars == <<listeners, socket>>
counts == <<sentSoFar, clients, starts>>
servers == <<tcpVars, wsVars, counts>>

LoopFree == [doing |-> "nothing", s |-> "ble"]

ServersInit ==
    /\ server = [s \in Servers |-> FALSE] /\ sock = [s \in Servers |-> "none"]
    /\ thread = [s \in Servers |-> "none"] /\ peer = [s \in Servers |-> "none"]
    /\ held = [s \in Servers |-> FALSE] /\ lock = [s \in Servers |-> "free"]
    /\ loop = LoopFree /\ reader = "none" /\ stopping = FALSE /\ mine = "server" /\ stray = FALSE
    /\ listeners = [w \in Listeners |-> <<>>] /\ socket = [w \in Listeners |-> "new"]
    /\ sentSoFar = 0 /\ clients = 0 /\ starts = 0

LoopDoes(doing, s) == loop' = [doing |-> doing, s |-> s]

-----------------------------------------------------------------------------
(* Commands.  A server is bound, and its thread runs before the command goes on. *)
StartTcpServer(s) ==
    /\ loop = LoopFree /\ ~server[s] /\ sock[s] # "open" /\ thread[s] \in {"none", "over"} /\ starts < MaxStarts
    /\ starts' = starts + 1
    /\ sock' = [sock EXCEPT ![s] = "open"] /\ thread' = [thread EXCEPT ![s] = "accept"]

(* bleStartServer then initializes the manager; when that raises the server is forgotten. *)
BleStartServer ==
    /\ StartTcpServer("ble")
    /\ \/ server' = [server EXCEPT !["ble"] = TRUE] /\ UNCHANGED stray
       \/ stray' = TRUE /\ UNCHANGED server
    /\ UNCHANGED <<peer, held, lock, loop, reader, stopping, mine, wsVars, sentSoFar, clients>>

HidConnect ==
    /\ StartTcpServer("scanner")
    /\ server' = [server EXCEPT !["scanner"] = TRUE]
    /\ reader' = "reading" /\ stopping' = FALSE /\ mine' = "server"
    /\ UNCHANGED <<peer, held, lock, loop, stray, wsVars, sentSoFar, clients>>

(* hidDisconnect ends the reader first and waits for it. *)
HidDisconnect ==
    /\ loop = LoopFree /\ server["scanner"]
    /\ stopping' = TRUE /\ LoopDoes("joining reader", "scanner")
    /\ UNCHANGED <<server, sock, thread, peer, held, lock, reader, mine, stray, wsVars, counts>>

ReaderJoined ==
    /\ loop.doing = "joining reader" /\ (reader = "over" \/ mine = "reader")
    /\ LoopDoes("closing client", "scanner")
    /\ UNCHANGED <<server, sock, thread, peer, held, lock, reader, stopping, mine, stray, wsVars, counts>>

BleStopServer ==
    /\ loop = LoopFree /\ server["ble"]
    /\ LoopDoes("closing client", "ble")
    /\ UNCHANGED <<server, sock, thread, peer, held, lock, reader, stopping, mine, stray, wsVars, counts>>

(* stop_tcp_server takes no lock: a client that was accepted is not known here before *)
(* the thread has stored it.                                                          *)
CloseTcpConnection ==
    /\ loop.doing = "closing client"
    /\ peer' = [peer EXCEPT ![loop.s] = IF held[loop.s] THEN "down" ELSE @]
    /\ LoopDoes("closing socket", loop.s)
    /\ UNCHANGED <<server, sock, thread, held, lock, reader, stopping, mine, stray, wsVars, counts>>

StopTcpServer ==
    /\ loop.doing = "closing socket"
    /\ sock' = [sock EXCEPT ![loop.s] = "closed"]
    /\ LoopDoes("joining", loop.s)
    /\ UNCHANGED <<server, thread, peer, held, lock, reader, stopping, mine, stray, wsVars, counts>>

(* Mutant of Joined: the thread is not waited for. *)
JoinedAtOnce(s) == TRUE

Joined(s) == IF s = "scanner" /\ mine = "reader" THEN reader = "over" ELSE thread[s] = "over"
Disconnected ==
    /\ loop.doing = "joining" /\ Joined(loop.s)
    /\ server' = [server EXCEPT ![loop.s] = FALSE] /\ loop' = LoopFree
    /\ UNCHANGED <<sock, thread, peer, held, lock, reader, stopping, mine, stray, wsVars, counts>>

-----------------------------------------------------------------------------
(* broadcast_ble_notification: to the TCP client, then to the web sockets. *)
Queued == listeners' = [w \in Listeners |-> IF socket[w] = "open" THEN Append(listeners[w], sentSoFar') ELSE listeners[w]]

BroadcastBleNotification ==
    /\ loop = LoopFree /\ sentSoFar < MaxBroadcasts /\ sentSoFar' = sentSoFar + 1
    /\ IF server["ble"]
       THEN LoopDoes("sending", "ble") /\ UNCHANGED listeners
       ELSE Queued /\ UNCHANGED loop
    /\ UNCHANGED <<server, sock, thread, peer, held, lock, reader, stopping, mine, stray, socket, clients, starts>>

(* tcp_connection_try_send: sendall may wait for the client to read. *)
TrySend ==
    /\ loop.doing = "sending" /\ lock["ble"] = "free"
    /\ lock' = [lock EXCEPT !["ble"] = "loop"]
    /\ UNCHANGED <<server, sock, thread, peer, held, loop, reader, stopping, mine, stray, wsVars, counts>>

LoopSent ==
    /\ loop.doing = "sending" /\ lock["ble"] = "loop"
    /\ lock' = [lock EXCEPT !["ble"] = "free"] /\ loop' = LoopFree
    /\ listeners' = [w \in Listeners |-> IF socket[w] = "open" THEN Append(listeners[w], sentSoFar) ELSE listeners[w]]
    /\ UNCHANGED <<server, sock, thread, peer, held, reader, stopping, mine, stray, socket, counts>>

(* on_websocket, and the sink that finds out that the web socket was closed. *)
OnWebsocket(w) ==
    /\ loop = LoopFree /\ socket[w] = "new"
    /\ socket' = [socket EXCEPT ![w] = "open"]
    /\ UNCHANGED <<tcpVars, listeners, counts>>

SendText(w) ==
    /\ loop = LoopFree /\ socket[w] = "open" /\ listeners[w] # <<>>
    /\ listeners' = [listeners EXCEPT ![w] = Tail(@)]
    /\ UNCHANGED <<tcpVars, socket, counts>>

WebsocketSink(w) ==
    /\ loop = LoopFree /\ socket[w] = "open"
    /\ socket' = [socket EXCEPT ![w] = "gone"] /\ listeners' = [listeners EXCEPT ![w] = <<>>]
    /\ UNCHANGED <<tcpVars, counts>>

-----------------------------------------------------------------------------
(* The thread of a server. *)
ThreadAt(s, where) == thread' = [thread EXCEPT ![s] = where]

Accept(s) ==
    /\ thread[s] = "accept" /\ sock[s] = "open" /\ clients < MaxClients /\ clients' = clients + 1
    /\ ThreadAt(s, "accepted") /\ peer' = [peer EXCEPT ![s] = "up"]
    /\ UNCHANGED <<server, sock, held, lock, loop, reader, stopping, mine, stray, wsVars, sentSoFar, starts>>

StoreClient(s) ==
    /\ thread[s] = "accepted" /\ lock[s] = "free"
    /\ ThreadAt(s, "recv") /\ held' = [held EXCEPT ![s] = TRUE]
    /\ UNCHANGED <<server, sock, peer, lock, loop, reader, stopping, mine, stray, wsVars, counts>>

RecvClient(s) ==
    /\ thread[s] = "recv" /\ peer[s] = "down"
    /\ ThreadAt(s, "leaving")
    /\ UNCHANGED <<server, sock, peer, held, lock, loop, reader, stopping, mine, stray, wsVars, counts>>

LeaveClient(s) ==
    /\ thread[s] = "leaving" /\ lock[s] = "free"
    /\ ThreadAt(s, "accept") /\ held' = [held EXCEPT ![s] = FALSE] /\ peer' = [peer EXCEPT ![s] = "none"]
    /\ UNCHANGED <<server, sock, lock, loop, reader, stopping, mine, stray, wsVars, counts>>

(* Mutant of Wakes: without SOCK_TIMEOUT accept() never returns. *)
WakesNot(s) == FALSE

(* After SOCK_TIMEOUT accept() is tried again, and finds that the socket is closed. *)
Wakes(s) == sock[s] = "closed"
AcceptFails(s) ==
    /\ thread[s] = "accept" /\ Wakes(s)
    /\ ThreadAt(s, "over")
    /\ UNCHANGED <<server, sock, peer, held, lock, loop, reader, stopping, mine, stray, wsVars, counts>>

(* The client: it hangs up. *)
HangsUp(s) ==
    /\ peer[s] = "up" /\ peer' = [peer EXCEPT ![s] = "down"]
    /\ UNCHANGED <<server, sock, thread, held, lock, loop, reader, stopping, mine, stray, wsVars, counts>>

-----------------------------------------------------------------------------
(* barcode_scanner_read_thread: it waits for a key or for the pipe. *)
BarcodeRead ==
    /\ reader = "reading" /\ ~stopping /\ sentSoFar < MaxBroadcasts /\ sentSoFar' = sentSoFar + 1
    /\ reader' = "sending"
    /\ UNCHANGED <<server, sock, thread, peer, held, lock, loop, stopping, mine, stray, wsVars, clients, starts>>

BarcodeLock ==
    /\ reader = "sending" /\ lock["scanner"] = "free"
    /\ reader' = "locked" /\ lock' = [lock EXCEPT !["scanner"] = "reader"]
    /\ UNCHANGED <<server, sock, thread, peer, held, loop, stopping, mine, stray, wsVars, counts>>

BarcodeSent ==
    /\ reader = "locked" /\ lock' = [lock EXCEPT !["scanner"] = "free"]
    /\ reader' = IF stopping THEN "over" ELSE "reading"
    /\ UNCHANGED <<server, sock, thread, peer, held, loop, stopping, mine, stray, wsVars, counts>>

ReaderStops ==
    /\ reader = "reading" /\ stopping
    /\ reader' = "over"
    /\ UNCHANGED <<server, sock, thread, peer, held, lock, loop, stopping, mine, stray, wsVars, counts>>

(* The scanner is unplugged; when it is back udev_event starts a reader in its place. *)
Unplugged ==
    /\ reader = "reading" /\ reader' = "over"
    /\ UNCHANGED <<server, sock, thread, peer, held, lock, loop, stopping, mine, stray, wsVars, counts>>

UdevEvent ==
    /\ reader = "over" /\ ~stopping
    /\ reader' = "reading" /\ mine' = "reader"
    /\ UNCHANGED <<server, sock, thread, peer, held, lock, loop, stopping, stray, wsVars, counts>>

-----------------------------------------------------------------------------
LoopStep ==
    \/ ReaderJoined \/ CloseTcpConnection \/ StopTcpServer \/ Disconnected \/ TrySend \/ LoopSent
ThreadStep(s) == StoreClient(s) \/ RecvClient(s) \/ LeaveClient(s) \/ AcceptFails(s)
ReaderStep == BarcodeLock \/ BarcodeSent \/ ReaderStops

ServersNext ==
    \/ BleStartServer \/ HidConnect \/ HidDisconnect \/ BleStopServer \/ BroadcastBleNotification \/ LoopStep
    \/ \E w \in Listeners : OnWebsocket(w) \/ SendText(w) \/ WebsocketSink(w)
    \/ \E s \in Servers : Accept(s) \/ ThreadStep(s) \/ HangsUp(s)
    \/ BarcodeRead \/ ReaderStep \/ Unplugged \/ UdevEvent

(* Threads run, and a client that is waited for hangs up (or reads) some day. *)
ServersFairness ==
    /\ WF_servers(LoopStep) /\ WF_servers(ReaderStep)
    /\ \A s \in Servers : WF_servers(ThreadStep(s)) /\ WF_servers(HangsUp(s))
ServersSpec == ServersInit /\ [][ServersNext]_servers /\ ServersFairness

-----------------------------------------------------------------------------
(* When bleStopServer is answered the thread of the server has ended and its client    *)
(* was let go, so that the next one can be started, unless a start failed half-way.    *)
StoppedIsOver ==
    (~server["ble"] /\ ~stray) => thread["ble"] \in {"none", "over"} /\ ~held["ble"] /\ sock["ble"] # "open"

(* The event loop, which all of the program runs in, comes back from every command and *)
(* from every notification it sends, as long as the TCP clients hang up in the end.    *)
LoopComesBack == []<>(loop = LoopFree)
=============================================================================
