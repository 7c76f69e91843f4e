------------------------------ MODULE ATDataMode ------------------------------
(***************************************************************************)
(* The data mode of the AT interface: the listeners of the state machine   *)
(* (fsm.py) and the three services that collect a payload with them,       *)
(* ConnectionService (AT+CIPSEND), HTTPService (AT+HTTPEXE) and            *)
(* ATFilesService (AT+FILESUP, AT+FWSEND), with the IP connections         *)
(* themselves (Dialer).                                                    *)
(*                                                                         *)
(* A command that waits for its payload stays the current command; every   *)
(* chunk goes to the listeners and the command is executed again.  phase   *)
(* tells where that is:                                                    *)
(*   "idle"   no command                                                   *)
(*   "run"    execute is to be called; nothing else runs before it returns *)
(*            or suspends                                                  *)
(*   "data"   execute returned (False, ""): waiting for a chunk            *)
(*   "dial"   AT+CIPSTART awaits its connection                            *)
(*   "store"  AT+FILESUP awaits the file operations                        *)
(* Every byte is the pair of the command it was typed for and its position. *)
(* The host sends commands one at a time (ATCommandFSM has the other ones). *)
(***************************************************************************)
EXTENDS Integers, Sequences, SequencesExt

CONSTANTS
    Ids,           \* the connections
    Kinds,         \* the commands the host uses
    Lengths,       \* the lengths of payloads
    BufferSize,    \* FILE_STREAMING_BUFFER_SIZE
    Escapes,       \* the commands the host may leave with +++
    Faults,        \* what may go wrong: see below
    MaxCommands,   \* bound on the commands
    MaxTyped       \* bound on the bytes typed for a command

PayloadKinds == {"cipsend", "httpexe", "filesup", "fwsend"}
AllKinds == PayloadKinds \cup {"cipstart", "cipclose", "cipssl", "httpconf"}

(*   "lost"     the peer closes a connection while a payload is collected     *)
(*   "early"    the peer closes it before AT+CIPSTART has seen it is there    *)
(*   "slowudp"  a datagram endpoint is there only after the next command      *)
(*   "refused"  an HTTP request fails                                         *)
(*   "chunk"    the update refuses a part of AT+FWSEND, or its cancellation   *)
(*   "wide"     the payload of AT+HTTPEXE holds characters beyond ASCII       *)
(*   "stopped"  the firmware update ends while a payload is collected         *)
(*   "binary"   the payload holds bytes that are not UTF-8                    *)
AllFaults == {"lost", "early", "slowudp", "refused", "chunk", "wide", "stopped", "binary"}

ASSUME BoundsAssumption == MaxCommands \in Nat /\ MaxTyped \in Nat /\ BufferSize \in Nat \ {0}
ASSUME DataSetsAssumption ==
    /\ Kinds \subseteq AllKinds /\ Escapes \subseteq PayloadKinds /\ Faults \subseteq AllFaults
    /\ Lengths \subseteq Nat

VARIABLES
    conns,       \* connection -> connected, type, ssl context set, protocol there, endpoints being made
    data,        \* owner of a payload -> its buffer, busy, listener index
    listeners,   \* the state machine's listeners: a sequence of owners
    escape, count,      \* service -> escape seen; its count of plus signs
    iterations,  \* FWUpdateSendCommand.ITERATIONS
    updating,    \* the update service reports Updating
    phase, command, typed,   \* the current command, and how much has been typed for it
    handed,      \* the bytes a command has handed over
    reply,       \* the last answer
    stale        \* the services that a failed command left with a part of its payload

dataMode == <<conns, data, listeners, escape, count, iterations, updating, phase, command, typed,
          handed, reply, stale>>
modes == <<data, listeners, escape, count, iterations>>

Services == {"cip", "http", "files"}
Cip(i) == <<"cip", i>>
Http   == <<"http", 0>>
Files  == <<"files", 0>>
Owners == {Cip(i) : i \in Ids} \cup {Http, Files}
Service(o) == o[1]

(* Who collects the payload of the current command. *)
Owner == CASE command.kind = "cipsend" -> Cip(command.id)
           [] command.kind = "httpexe" -> Http
           [] OTHER -> Files

NoEndpoint == [connected |-> FALSE, type |-> "", ssl |-> FALSE, protocol |-> FALSE, pending |-> 0]
NoPayload  == [buffer |-> <<>>, garbled |-> FALSE, busy |-> FALSE, listener |-> -1]

DataInit ==
    /\ conns = [i \in Ids |-> NoEndpoint]
    /\ data = [o \in Owners |-> NoPayload]
    /\ listeners = <<>>
    /\ escape = [s \in Services |-> FALSE] /\ count = [s \in Services |-> 0]
    /\ iterations = 0 /\ updating = FALSE
    /\ phase = "idle" /\ typed = 0
    /\ command = [kind |-> "none", id |-> 0, length |-> 0, n |-> 0]
    /\ handed = [n |-> 0, bytes |-> <<>>]
    /\ reply = [kind |-> "none", length |-> 0, n |-> 0, result |-> "none"]
    /\ stale = {}

-----------------------------------------------------------------------------
(* deregister_listener: del self._listeners[id], which counts from the end when *)
(* id is negative and raises when there is no such entry.                       *)
Present(l) == l \in (-Len(listeners))..(Len(listeners) - 1)
Without(l) == RemoveAt(listeners, IF l >= 0 THEN l + 1 ELSE Len(listeners) + l + 1)

(* b[:k] *)
Upto(b, k) == SubSeq(b, 1, IF k < 0 THEN Len(b) + k ELSE IF k < Len(b) THEN k ELSE Len(b))

(* The escape count after a chunk that ends in a plus sign or not, and comes *)
(* within escape_delay of the chunk before or not.                           *)
Count(c, plus, quick) ==
    IF ~plus THEN 0 ELSE IF ~quick THEN 1 ELSE IF c = 0 THEN 0 ELSE (c + 1) % 3

Third(c, plus, quick) == plus /\ quick /\ c = 2

(* What is typed for HTTP becomes a string, and http.client writes a byte of Latin-1 for  *)
(* each of its characters: one beyond ASCII, typed as two bytes, becomes another byte,    *)
(* number 0 here.  Its two bytes count as one in typed.                                   *)
Characters(chunk) == IF chunk.wide THEN <<<<command.n, 0>>>> ELSE chunk.bytes

(* One listener is called.  That of a connection decodes its whole buffer after *)
(* it has grown; that of HTTP decodes the chunk before, and keeps and counts    *)
(* characters; that of the files never raises.  A second call for the same      *)
(* service comes at once.                                                       *)
Called(s, o, chunk) ==
    LET garbled == ~chunk.text \/ (Service(o) = "cip" /\ s.data[o].garbled)
        raises  == garbled /\ o # Files
        plus    == chunk.plus /\ ~garbled
        quick   == chunk.quick \/ Service(o) \in s.called
        c       == s.count[Service(o)]
        kept    == IF o = Http /\ raises THEN s.data[o]
                   ELSE [s.data[o] EXCEPT !.buffer = @ \o (IF o = Http THEN Characters(chunk) ELSE chunk.bytes),
                                          !.garbled = garbled /\ Service(o) = "cip"]
    IN  IF s.raised THEN s
        ELSE IF raises THEN [s EXCEPT !.data[o] = kept, !.raised = TRUE]
        ELSE [s EXCEPT !.data[o] = kept,
                       !.called = @ \cup {Service(o)},
                       !.count[Service(o)] = Count(c, plus, quick),
                       !.escape[Service(o)] = @ \/ Third(c, plus, quick)]

(* The listeners are called in turn. *)
Told(chunk) ==
    LET after[k \in 0..Len(listeners)] ==
          IF k = 0 THEN [data |-> data, count |-> count, escape |-> escape, called |-> {}, raised |-> FALSE]
          ELSE Called(after[k - 1], listeners[k], chunk)
    IN  after[Len(listeners)]

(* on_input_received in process_command: the listeners are told and execute is called  *)
(* again; an exception of a listener ends the task before that.                        *)
Chunk(size, plus, quick, text, wide) ==
    /\ phase = "data"
    /\ typed + size <= MaxTyped
    /\ LET bytes == [j \in 1..size |-> <<command.n, typed + j>>]
           chunk == [bytes |-> bytes, plus |-> plus, quick |-> quick, text |-> text, wide |-> wide]
           after == Told(chunk)
       IN  /\ data' = after.data /\ count' = after.count /\ escape' = after.escape
           /\ phase' = IF after.raised THEN phase ELSE "run"
    /\ typed' = typed + size
    /\ UNCHANGED <<conns, listeners, iterations, updating, command, handed, reply, stale>>

-----------------------------------------------------------------------------
Finish(result) ==
    /\ phase' = "idle"
    /\ reply' = [kind |-> command.kind, length |-> command.length, n |-> command.n,
                 result |-> result]

HandOver(bytes) ==
    handed' = [n |-> command.n,
               bytes |-> (IF handed.n = command.n THEN handed.bytes ELSE <<>>) \o bytes]

(* The checks before a payload is collected: is_connection_busy, get_update_status. *)
Ready ==
    /\ command.kind = "cipsend" => conns[command.id].connected
    /\ command.kind = "fwsend" => updating

Executes(kinds) == phase = "run" /\ command.kind \in kinds

NotReady ==
    /\ Executes(PayloadKinds) /\ ~Ready
    /\ Finish("ERROR")
    /\ UNCHANGED <<conns, modes, updating, command, typed, handed, stale>>

(* Mutant of Escaped: the listener stays registered. *)
EscapedKeepsListener ==
    /\ Executes(PayloadKinds) /\ Ready /\ escape[Service(Owner)]
    /\ escape' = [escape EXCEPT ![Service(Owner)] = FALSE]
    /\ data' = [data EXCEPT ![Owner] = [NoPayload EXCEPT !.listener = data[Owner].listener]]
    /\ Finish("ESCAPED")
    /\ UNCHANGED <<conns, listeners, count, iterations, updating, command, typed, handed, stale>>

(* The payload was escaped from. *)
Escaped ==
    /\ Executes(PayloadKinds) /\ Ready /\ escape[Service(Owner)]
    /\ LET l == data[Owner].listener
       IN  /\ listeners' = IF Present(l) THEN Without(l) ELSE listeners
           /\ data' = [data EXCEPT ![Owner] =
                         [NoPayload EXCEPT !.listener = IF Owner = Http /\ Present(l) THEN -1 ELSE l]]
           /\ Finish(IF Present(l) THEN "ESCAPED" ELSE "ERROR")
    /\ escape' = [escape EXCEPT ![Service(Owner)] = FALSE]
    /\ UNCHANGED <<conns, count, iterations, updating, command, typed, handed, stale>>

(* length_remaining of AT+FWSEND, length of the others. *)
Remaining == command.length - (IF command.kind = "fwsend" THEN iterations * BufferSize ELSE 0)

Collected ==
    /\ Executes(PayloadKinds) /\ Ready /\ ~escape[Service(Owner)]
    /\ Len(data[Owner].buffer) >= Remaining

(* HTTPService deregisters only a listener it has; the others always do. *)
Deregisters == Owner = Http => data[Http].listener # -1

(* All is there, but deregister_listener raises; the buffer is cut by then. *)
CollectedRaises ==
    /\ Collected /\ Deregisters /\ ~Present(data[Owner].listener)
    /\ data' = [data EXCEPT ![Owner].buffer = Upto(@, Remaining)]
    /\ Finish("ERROR")
    /\ UNCHANGED <<conns, listeners, escape, count, iterations, updating, command, typed, handed, stale>>

Deregistered ==
    /\ Collected
    /\ IF Deregisters
       THEN Present(data[Owner].listener) /\ listeners' = Without(data[Owner].listener)
       ELSE UNCHANGED listeners
    /\ UNCHANGED <<conns, escape, count, command, typed>>

(* Mutant of Emptied: the buffer is not cleared. *)
EmptiedKeeps(o) ==
    [data[o] EXCEPT !.busy = FALSE, !.listener = IF o = Http THEN -1 ELSE data[o].listener]

(* The owner after its payload has gone: HTTPService forgets its listener's index. *)
Emptied(o) == [NoPayload EXCEPT !.listener = IF o = Http THEN -1 ELSE data[o].listener]

(* send_data: without a protocol the write raises, and the buffer keeps the payload. *)
SendWritten ==
    /\ command.kind = "cipsend" /\ Deregistered
    /\ \/ /\ conns[command.id].protocol
          /\ HandOver(Upto(data[Owner].buffer, Remaining))
          /\ data' = [data EXCEPT ![Owner] = Emptied(Owner)]
          /\ Finish("OK")
       \/ /\ ~conns[command.id].protocol
          /\ data' = [data EXCEPT ![Owner].buffer = Upto(@, Remaining), ![Owner].busy = FALSE]
          /\ Finish("ERROR")
          /\ UNCHANGED handed
    /\ UNCHANGED <<iterations, updating, stale>>

(* execute_http_transaction.  When the request fails, as with a character that Latin-1 does   *)
(* not have, the body stays, whether it was sent or not; an answer that is not text comes too *)
(* late for that.                                                                             *)
HttpRequested ==
    /\ command.kind = "httpexe" /\ Deregistered
    /\ HandOver(Upto(data[Http].buffer, Remaining))
    /\ data' = [data EXCEPT ![Http] = Emptied(Http)]
    /\ Finish("OK") \/ ("refused" \in Faults /\ Finish("ERROR"))
    /\ UNCHANGED <<iterations, updating, stale>>

Wide(bytes) == \E j \in 1..Len(bytes) : bytes[j][2] = 0
HttpFails ==
    /\ command.kind = "httpexe" /\ Deregistered
    /\ \/ "refused" \in Faults /\ HandOver(Upto(data[Http].buffer, Remaining))
       \/ "refused" \in Faults /\ UNCHANGED handed
       \/ Wide(Upto(data[Http].buffer, Remaining)) /\ UNCHANGED handed
    /\ data' = [data EXCEPT ![Http].buffer = Upto(@, Remaining), ![Http].listener = -1]
    /\ stale' = stale \cup {"http"}
    /\ Finish("ERROR")
    /\ UNCHANGED <<iterations, updating>>

(* AT+FILESUP has its payload and awaits the file operations. *)
FileCollected ==
    /\ command.kind = "filesup" /\ Deregistered
    /\ HandOver(Upto(data[Files].buffer, Remaining))
    /\ data' = [data EXCEPT ![Files] = Emptied(Files)]
    /\ phase' = "store"
    /\ UNCHANGED <<iterations, updating, reply, stale>>

FileStored ==
    /\ phase = "store"
    /\ \E result \in {"OK", "ERROR"} : Finish(result)
    /\ UNCHANGED <<conns, modes, updating, command, typed, handed, stale>>

(* AT+FWSEND has the rest: it is sent to the update, which is then cancelled. *)
LastPartSent ==
    /\ command.kind = "fwsend" /\ Deregistered
    /\ HandOver(Upto(data[Files].buffer, Remaining))
    /\ data' = [data EXCEPT ![Files] = Emptied(Files)]
    /\ iterations' = 0
    /\ \/ updating' = FALSE /\ Finish("OK")
       \/ "chunk" \in Faults /\ UNCHANGED updating /\ Finish("ERROR")
    /\ UNCHANGED stale

(* It is not taken: ITERATIONS keeps what was sent before. *)
LastPartRefused ==
    /\ "chunk" \in Faults
    /\ command.kind = "fwsend" /\ Deregistered
    /\ data' = [data EXCEPT ![Files] = Emptied(Files)]
    /\ stale' = IF iterations = 0 THEN stale ELSE stale \cup {"files"}
    /\ Finish("ERROR")
    /\ UNCHANGED <<iterations, updating, handed>>

(* There is a full buffer, and there is more to come. *)
PartReady ==
    /\ Executes({"fwsend"}) /\ Ready /\ ~escape["files"]
    /\ Len(data[Files].buffer) \in BufferSize..(Remaining - 1)
    /\ data' = [data EXCEPT ![Files].buffer = SubSeq(@, BufferSize + 1, Len(@))]
    /\ UNCHANGED <<conns, listeners, escape, count, updating, command, typed>>

PartSent ==
    /\ PartReady
    /\ HandOver(Upto(data[Files].buffer, BufferSize))
    /\ iterations' = iterations + 1
    /\ phase' = "data"
    /\ UNCHANGED <<reply, stale>>

(* It is not taken: the command ends, its listener stays. *)
PartRefused ==
    /\ "chunk" \in Faults
    /\ PartReady
    /\ Finish("ERROR")
    /\ stale' = stale \cup {"files"}
    /\ UNCHANGED <<iterations, handed>>

Listening(o) == IF o = Http THEN data[o].listener # -1 ELSE data[o].busy

(* Mutant of Registered: the listener is not added. *)
RegisteredNot(o) ==
    /\ data' = [data EXCEPT ![o].busy = TRUE, ![o].listener = Len(listeners)]
    /\ UNCHANGED listeners

(* register_listener *)
Registered(o) ==
    /\ data' = [data EXCEPT ![o].busy = TRUE, ![o].listener = Len(listeners)]
    /\ listeners' = Append(listeners, o)

(* There is not enough yet: a listener is registered, once, and execute returns. *)
Waits ==
    /\ Executes(PayloadKinds) /\ Ready /\ ~escape[Service(Owner)]
    /\ Len(data[Owner].buffer) < Remaining
    /\ command.kind = "fwsend" => Len(data[Owner].buffer) < BufferSize
    /\ IF Listening(Owner) THEN UNCHANGED <<data, listeners>> ELSE Registered(Owner)
    /\ phase' = "data"
    /\ UNCHANGED <<conns, escape, count, iterations, updating, command, typed, handed, reply, stale>>

-----------------------------------------------------------------------------

(* close_connection: hangup, and everything of the connection is reset. *)
Closed(c) == [NoEndpoint EXCEPT !.pending = c.pending]

Close ==
    /\ Executes({"cipclose"})
    /\ IF conns[command.id].connected
       THEN /\ conns' = [conns EXCEPT ![command.id] = Closed(conns[command.id])]
            /\ data' = [data EXCEPT ![Cip(command.id)] = NoPayload]
            /\ Finish("OK")
       ELSE Finish("ERROR") /\ UNCHANGED <<conns, data>>
    /\ UNCHANGED <<listeners, escape, count, iterations, updating, command, typed, handed, stale>>

(* configure_cip_ssl; it may raise. *)
ConfigureSsl ==
    /\ Executes({"cipssl"})
    /\ \E ok \in BOOLEAN :
          /\ conns' = [conns EXCEPT ![command.id].ssl = ok]
          /\ Finish(IF ok THEN "OK" ELSE "ERROR")
    /\ UNCHANGED <<modes, updating, command, typed, handed, stale>>

(* configure_http_transaction: everything is cleared first, the listener unregistered or not. *)
ConfigureHttp ==
    /\ Executes({"httpconf"})
    /\ data' = [data EXCEPT ![Http] = NoPayload]
    /\ Finish("OK")
    /\ UNCHANGED <<conns, listeners, escape, count, iterations, updating, command, typed, handed, stale>>

(* start_connection up to its await.  A datagram endpoint is made by a task of its *)
(* own; a stream is refused by the blocking connect, or its connection is awaited. *)
Start ==
    /\ Executes({"cipstart"})
    /\ LET i == command.id
       IN  \/ /\ conns[i].connected
              /\ Finish("ERROR") /\ UNCHANGED conns
           \/ /\ ~conns[i].connected
              /\ conns' = [conns EXCEPT ![i].type = "udp", ![i].connected = TRUE, ![i].pending = @ + 1]
              /\ Finish("OK")
           \/ /\ ~conns[i].connected
              /\ \E type \in {"tcp", "ssl"} : conns' = [conns EXCEPT ![i].type = type]
              /\ \/ Finish("ERROR")
                 \/ phase' = "dial" /\ UNCHANGED reply
    /\ UNCHANGED <<modes, updating, command, typed, handed, stale>>

(* connection_made of a stream; create_connection raises for ssl without a context. *)
StreamMade ==
    /\ phase = "dial" /\ ~conns[command.id].protocol
    /\ conns[command.id].type = "ssl" => conns[command.id].ssl
    /\ conns' = [conns EXCEPT ![command.id].protocol = TRUE]
    /\ UNCHANGED <<modes, updating, phase, command, typed, handed, reply, stale>>

(* The await returns: the connection is there, whatever has happened to it since. *)
Dialled ==
    /\ phase = "dial" /\ conns[command.id].protocol
    /\ conns' = [conns EXCEPT ![command.id].connected = TRUE]
    /\ Finish("OK")
    /\ UNCHANGED <<modes, updating, command, typed, handed, stale>>

DialledLost ==
    /\ "early" \in Faults
    /\ phase = "dial" /\ conns[command.id].protocol
    /\ conns' = [conns EXCEPT ![command.id].connected = TRUE, ![command.id].protocol = FALSE]
    /\ Finish("OK")
    /\ UNCHANGED <<modes, updating, command, typed, handed, stale>>

DialFails ==
    /\ phase = "dial" /\ ~conns[command.id].protocol
    /\ conns' = [conns EXCEPT ![command.id].connected = FALSE]
    /\ Finish("ERROR")
    /\ UNCHANGED <<modes, updating, command, typed, handed, stale>>

(* create_datagram_endpoint ends, with an endpoint or without. *)
DatagramMade(i) ==
    /\ phase # "run" /\ conns[i].pending > 0
    /\ \E made \in BOOLEAN :
          conns' = [conns EXCEPT ![i].pending = @ - 1, ![i].protocol = @ \/ made]
    /\ UNCHANGED <<modes, updating, phase, command, typed, handed, reply, stale>>

(* connection_lost of a stream: the connection is closed, its listener is not removed. *)
Lost(i) ==
    /\ phase # "run"
    /\ phase = "data" => "lost" \in Faults
    /\ conns[i].connected /\ conns[i].protocol /\ conns[i].type # "udp"
    /\ conns' = [conns EXCEPT ![i] = Closed(conns[i])]
    /\ data' = [data EXCEPT ![Cip(i)] = NoPayload]
    /\ UNCHANGED <<listeners, escape, count, iterations, updating, phase, command, typed,
                   handed, reply, stale>>

(* AT+FWRUN starts an update; the update ends. *)
Updating ==
    /\ phase \in IF "stopped" \in Faults THEN {"idle", "data"} ELSE {"idle"}
    /\ phase = "data" => updating
    /\ "fwsend" \in Kinds
    /\ updating' = ~updating
    /\ UNCHANGED <<conns, modes, phase, command, typed, handed, reply, stale>>

(* The host sends its next command. *)
HostCommand ==
    /\ phase = "idle" /\ command.n < MaxCommands
    /\ "slowudp" \notin Faults => \A i \in Ids : conns[i].pending = 0
    /\ \E kind \in Kinds, id \in Ids, length \in Lengths :
          /\ kind \in {"httpexe", "filesup", "fwsend", "httpconf"} => \A i \in Ids : id <= i
          /\ kind \notin PayloadKinds => \A l \in Lengths : length <= l
          /\ command' = [kind |-> kind, id |-> id, length |-> length, n |-> command.n + 1]
    /\ phase' = "run" /\ typed' = 0
    /\ UNCHANGED <<conns, modes, updating, handed, reply, stale>>

(* The host types a part of the payload, or of +++. *)
HostTypes ==
    \E size \in 1..2, plus, quick, text, wide \in BOOLEAN :
        /\ plus => text /\ command.kind \in Escapes
        /\ quick => plus
        /\ ~text => "binary" \in Faults
        /\ wide => "wide" \in Faults /\ command.kind = "httpexe" /\ text /\ ~plus /\ size = 1
        /\ Chunk(size, plus, quick, text, wide)

Execute ==
    \/ NotReady \/ Escaped \/ CollectedRaises \/ SendWritten \/ HttpRequested \/ HttpFails \/ FileCollected
    \/ LastPartSent \/ LastPartRefused \/ PartSent \/ PartRefused \/ Waits
    \/ Close \/ ConfigureSsl \/ ConfigureHttp \/ Start
Loop == FileStored \/ StreamMade \/ Dialled \/ DialledLost \/ DialFails
Environment == \E i \in Ids : DatagramMade(i) \/ Lost(i)

DataNext == HostCommand \/ HostTypes \/ Execute \/ Loop \/ Environment \/ Updating

DataSpec == DataInit /\ [][DataNext]_dataMode

(* The event loop runs what is ready; a host that was prompted sends its payload. *)
FairDataSpec == DataSpec /\ WF_dataMode(Execute) /\ WF_dataMode(Loop) /\ WF_dataMode(HostTypes)

-----------------------------------------------------------------------------
(***************************************************************************)
(* Properties.                                                             *)
(***************************************************************************)
Bytes == (1..MaxCommands) \X (0..MaxTyped)
DataResults == {"none", "OK", "ERROR", "ESCAPED"}

(* The variables hold values the code gives them. *)
ModeTypeOK ==
    /\ conns \in [Ids -> [connected : BOOLEAN, type : {"", "udp", "tcp", "ssl"}, ssl : BOOLEAN,
                          protocol : BOOLEAN, pending : 0..MaxCommands]]
    /\ data \in [Owners -> [buffer : Seq(Bytes), garbled : BOOLEAN, busy : BOOLEAN,
                            listener : Nat \cup {-1}]]
    /\ listeners \in Seq(Owners)
    /\ escape \in [Services -> BOOLEAN] /\ count \in [Services -> 0..2]
    /\ iterations \in Nat /\ updating \in BOOLEAN
    /\ phase \in {"idle", "run", "data", "dial", "store"}
    /\ command.kind \in Kinds \cup {"none"} /\ command.n \in 0..MaxCommands /\ typed \in 0..MaxTyped
    /\ handed.bytes \in Seq(Bytes) /\ reply.result \in DataResults
DataTypeOK == ModeTypeOK /\ stale \subseteq Services

(* The listeners are those of the command that is collecting a payload: it has one,  *)
(* once, and when no payload is collected there is none.                             *)
DataModeListens ==
    /\ phase = "data" => listeners = <<Owner>>
    /\ phase \in {"idle", "dial", "store"} => listeners = <<>>

(* What is written to a connection, sent in a request, stored in a file or passed to *)
(* the update was typed for that very command, in that order, and nothing twice; only *)
(* a character beyond ASCII is another byte in a request.                             *)
PayloadIntact ==
    \A j \in 1..Len(handed.bytes) : handed.bytes[j] \in {<<handed.n, j>>, <<handed.n, 0>>}

(* A payload command answered with OK has handed over as many bytes as it announced. *)
AllDelivered ==
    phase = "idle" /\ reply.result = "OK" /\ reply.kind \in PayloadKinds =>
        handed.n = reply.n /\ Len(handed.bytes) = reply.length

(* A command the host has left with +++ has handed nothing over. *)
EscapedSendsNothing ==
    reply.result = "ESCAPED" /\ reply.kind # "fwsend" => handed.n # reply.n

(* The three together: every command hands over its own payload, all of it or nothing, *)
(* until one fails and leaves a part of its payload or of its count behind.            *)
TransfersRight == stale = {} => PayloadIntact /\ AllDelivered /\ EscapedSendsNothing

(* A closed connection has no endpoint that would go on reporting data. *)
ClosedIsClosed ==
    \A i \in Ids : conns[i].protocol =>
        conns[i].connected \/ (phase = "dial" /\ command.id = i)

(* Every command is answered in the end, once the payload it was prompted for comes. *)
DataModeEnds == []<>(phase = "idle")

(* transfer_in_process says whether a transfer is in process. *)
TransferIsReal ==
    data[Files].busy => phase # "idle" /\ command.kind \in {"filesup", "fwsend"}

(* Nothing is left over between two commands: no listener, no transfer, no open endpoint;  *)
(* with the type invariant.  The exception is an AT+FWSEND that the update refused a part. *)
NothingLeftOver ==
    "files" \notin stale => DataTypeOK /\ DataModeListens /\ TransferIsReal /\ ClosedIsClosed
=============================================================================
