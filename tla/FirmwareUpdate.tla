---------------------------- MODULE FirmwareUpdate ----------------------------
(***************************************************************************)
(* The firmware update service of summit-rcm                               *)
(* (services/firmware_update_service.py) and its three front ends: the AT  *)
(* commands +FWRUN and +FWSEND, the v2 REST resource and the legacy REST   *)
(* resource.  The AT commands use the singleton FirmwareUpdateService, the *)
(* two REST resources the singleton RESTFirmwareUpdateService: two service *)
(* objects that share one event loop and one descriptor table.             *)
(*                                                                         *)
(* Everything between two awaits is one action.  A request is a task; it   *)
(* suspends while its body is read (legacy), while the boot side is asked  *)
(* of a subprocess (every start) and between the chunks of an upload.      *)
(***************************************************************************)
EXTENDS Integers

CONSTANTS
    Tasks,          \* the asyncio tasks that may serve requests
    FDs,            \* descriptors the kernel may hand out
    Urls, Images,   \* non-empty values of the request parameters
    None,           \* a missing or empty parameter; a free descriptor; no reader
    Faults,         \* which external calls may fail
    PrepareErrors   \* what prepare_fw_update returns when it fails

ASSUME FDsAssumption     == FDs \subseteq Nat \ {0}
ASSUME ErrorsAssumption  == PrepareErrors \subseteq {-1, 0}
ASSUME FaultsAssumption  == Faults \subseteq {"side", "ipc", "reopen", "prepare", "popen"}

VARIABLES
    svc,        \* the attributes of the two service objects
    fds,        \* the descriptor table: None, or the service and use of the socket
    readers,    \* the event loop's readers: the service whose handler is called
    task,       \* where each request is suspended, and its parameters
    handed      \* swupdate has been handed a whole update, or one that it refuses

vars == <<svc, fds, readers, task, handed>>

Services == {"at", "rest"}
Apis     == {"at", "v2", "legacy"}
Service(api) == IF api = "at" THEN "at" ELSE "rest"

NoFd     == -1
Statuses == {"Updated", "Fail", "NotUpdating", "Updating"}
Verdicts == {"Updated", "Fail"}
Owners   == Services \X {"progress", "client"}

ASSUME NoneAssumption == None \notin Urls \cup Images \cup Services \cup Owners

ServiceState ==
    [status : Statuses, url : Urls \cup {None}, image : Images \cup {None},
     clientFd : FDs \cup {NoFd, 0}, msgFd : FDs \cup {NoFd}, inProgress : BOOLEAN]

TaskState ==
    [pc : {"idle", "media", "side", "upload"}, api : Apis, url : Urls \cup {None}]

(* The attributes a service is constructed with, and returns to when it stops. *)
Reset(st) == [status |-> st, url |-> None, image |-> None,
              clientFd |-> NoFd, msgFd |-> NoFd, inProgress |-> FALSE]

IdleTask == [pc |-> "idle", api |-> "at", url |-> None]

Init ==
    /\ svc = [s \in Services |-> Reset("NotUpdating")]
    /\ fds = [f \in FDs |-> None]
    /\ readers = [f \in FDs |-> None]
    /\ task = [t \in Tasks |-> IdleTask]
    /\ handed = [s \in Services |-> FALSE]

-----------------------------------------------------------------------------
(***************************************************************************)
(* The methods, as operators on what one call can touch: v, the service's  *)
(* attributes, and the two tables.                                         *)
(***************************************************************************)
Here(s) == [v |-> svc[s], fds |-> fds, readers |-> readers]

Becomes(s, k) ==
    /\ svc' = [svc EXCEPT ![s] = k.v]
    /\ fds' = k.fds
    /\ readers' = k.readers

Close(table, closing) == [f \in FDs |-> IF f \in closing THEN None ELSE table[f]]

(* The kernel hands out the lowest free descriptor. *)
Free(table) ==
    {f \in FDs : table[f] = None /\ \A g \in FDs : table[g] = None => f <= g}

(* Mutants of Stop: update_in_progress is not cleared; remove_reader is missing; *)
(* swclient_fd is not reset.                                                    *)
StopStaysInProgress(k) ==
    IF k.v.msgFd = NoFd THEN k
    ELSE [v       |-> [Reset(k.v.status) EXCEPT !.inProgress = k.v.inProgress],
          fds     |-> Close(k.fds, {k.v.clientFd, k.v.msgFd}),
          readers |-> [k.readers EXCEPT ![k.v.msgFd] = None]]
StopKeepsReader(k) ==
    [v |-> Reset(k.v.status), fds |-> Close(k.fds, {k.v.clientFd, k.v.msgFd}), readers |-> k.readers]
StopKeepsClient(k) ==
    IF k.v.msgFd = NoFd THEN k
    ELSE [v       |-> [Reset(k.v.status) EXCEPT !.clientFd = k.v.clientFd],
          fds     |-> Close(k.fds, {k.v.clientFd, k.v.msgFd}),
          readers |-> [k.readers EXCEPT ![k.v.msgFd] = None]]

(* stop_progress_monitor: remove_reader(-1) raises, and then the descriptor *)
(* that was just closed, the url and the image are kept.                    *)
StopRaises(k) == k.v.msgFd = NoFd
Stop(k) ==
    IF StopRaises(k)
    THEN [k EXCEPT !.v.inProgress = FALSE, !.fds = Close(k.fds, {k.v.clientFd})]
    ELSE [v       |-> Reset(k.v.status),
          fds     |-> Close(k.fds, {k.v.clientFd, k.v.msgFd}),
          readers |-> [k.readers EXCEPT ![k.v.msgFd] = None]]

(* cancel_update: the status is only set when the stop did not raise. *)
CancelUpdate(k) ==
    IF StopRaises(k) THEN Stop(k) ELSE [Stop(k) EXCEPT !.v.status = "NotUpdating"]

(* Mutant of OpenIpc: the channel is opened again although it is open. *)
OpenIpcAlways(s, k, fault) ==
    {[k EXCEPT !.v.msgFd = f, !.fds[f] = <<s, "progress">>] : f \in Free(k.fds)}

(* open_ipc: the outcomes of a call; an open channel is kept. *)
OpenIpc(s, k, fault) ==
    IF k.v.msgFd # NoFd THEN {k}
    ELSE {[k EXCEPT !.v.msgFd = f, !.fds[f] = <<s, "progress">>] :
             f \in Free(k.fds)}
         \cup (IF fault \in Faults \/ Free(k.fds) = {} THEN {k} ELSE {})

(* The url and image are forgotten. *)
Cleared(k) == [k EXCEPT !.v = [@ EXCEPT !.url = None, !.image = None]]

(* The branch of start_update without a URL: the outcomes of prepare_fw_update. *)
Prepared(s, k) ==
    {[k EXCEPT !.v.clientFd = f, !.fds[f] = <<s, "client">>] :
        f \in Free(k.fds)}
PrepareFailed(k) ==
    IF "prepare" \in Faults \/ Free(k.fds) = {}
    THEN {Cleared([k EXCEPT !.v.clientFd = e]) : e \in PrepareErrors}
    ELSE {}

(* start_progress_monitor and the last line of start_update. *)
Monitor(s, k) ==
    [v |-> [k.v EXCEPT !.inProgress = TRUE, !.status = "Updating"],
     fds |-> k.fds, readers |-> [k.readers EXCEPT ![k.v.msgFd] = s]]

(* start_update after its await: the states in which it may return, and those *)
(* in which it may raise.                                                    *)
Opened(s, k)  == {o \in OpenIpc(s, k, "ipc") : o.v.msgFd # NoFd}
Refused(s, k) == {o \in OpenIpc(s, k, "ipc") : o.v.msgFd = NoFd}

Returns(s, k) ==
    UNION {{Monitor(s, p) : p \in IF o.v.url # None THEN {o} ELSE Prepared(s, o)} :
              o \in Opened(s, k)}

Raises(s, k) ==
    {Cleared(o) : o \in Refused(s, k)}
    \cup UNION {IF o.v.url = None THEN PrepareFailed(o)
                ELSE {c \in {o} : "popen" \in Faults} : o \in Opened(s, k)}

-----------------------------------------------------------------------------
(***************************************************************************)
(* Starting an update.                                                     *)
(***************************************************************************)
(* What a front end does with an exception: legacy cancels, the others reply. *)
AfterRaise(api, k) == IF api = "legacy" THEN CancelUpdate(k) ELSE k

(* What was handed to swupdate stays so as long as the update is in progress. *)
HandedOver(s, more) == handed' = [handed EXCEPT ![s] = svc'[s].inProgress /\ (@ \/ more)]

Done(t) == task' = [task EXCEPT ![t] = IdleTask]

(* start_update up to its await. *)
BeginStart(t, api, u, i) ==
    LET s == Service(api)
        v == [svc[s] EXCEPT !.url = IF u # None THEN u ELSE @,
                            !.image = IF i # None THEN i ELSE @]
        k == [Here(s) EXCEPT !.v = v]
    IN  IF k.v.image = None
        THEN /\ Becomes(s, AfterRaise(api, Cleared(k)))
             /\ Done(t)
        ELSE /\ Becomes(s, k)
             /\ task' = [task EXCEPT ![t] = [pc |-> "side", api |-> api, url |-> u]]

AtFree == \A t \in Tasks : task[t].api = "at" => task[t].pc = "idle"

(* AT+FWRUN=1,<image>[,<url>]: the AT interface runs one command at a time. *)
AtRun(t) ==
    /\ task[t].pc = "idle"
    /\ AtFree
    /\ \E u \in Urls \cup {None}, i \in Images : BeginStart(t, "at", u, i)
    /\ HandedOver("at", FALSE)

(* PUT /api/v2/system/update with status 5: no check for an update in progress. *)
V2Put(t) ==
    /\ task[t].pc = "idle"
    /\ \E u \in Urls \cup {None}, i \in Images \cup {None} : BeginStart(t, "v2", u, i)
    /\ HandedOver("rest", FALSE)

(* POST /firmware: the busy check comes before the body is read... *)
LegacyPost(t) ==
    /\ task[t].pc = "idle"
    /\ ~svc["rest"].inProgress
    /\ task' = [task EXCEPT ![t] = [IdleTask EXCEPT !.pc = "media", !.api = "legacy"]]
    /\ UNCHANGED <<svc, fds, readers, handed>>

(* ...and is not repeated when it has been. *)
LegacyMedia(t) ==
    /\ task[t].pc = "media"
    /\ \/ \E u \in Urls \cup {None}, i \in Images \cup {None} : BeginStart(t, "legacy", u, i)
       \/ Done(t) /\ UNCHANGED <<svc, fds, readers>>      \* "Invalid URL"
    /\ HandedOver("rest", FALSE)

(* The boot side is known: the rest of start_update.  The script that is given a URL may get *)
(* to hand the update over.                                                                  *)
SideKnown(t) ==
    LET api == task[t].api
        s == Service(api)
    IN  /\ task[t].pc = "side"
        /\ \/ \E k \in Returns(s, Here(s)) : Becomes(s, k) /\ \E over \in BOOLEAN : HandedOver(s, over /\ k.v.url # None)
           \/ \E k \in Raises(s, Here(s)) : Becomes(s, AfterRaise(api, k)) /\ HandedOver(s, FALSE)
        /\ Done(t)

(* get_running_mode_for_update raises: url and image keep the request's values. *)
SideFails(t) ==
    LET api == task[t].api
        s == Service(api)
    IN  /\ task[t].pc = "side"
        /\ "side" \in Faults
        /\ Becomes(s, AfterRaise(api, Here(s)))
        /\ HandedOver(s, FALSE)
        /\ Done(t)

-----------------------------------------------------------------------------
(***************************************************************************)
(* Cancelling, uploading, progress events.                                 *)
(***************************************************************************)
(* AT+FWRUN=0, PUT with status 2, DELETE /firmware. *)
Cancel(api) ==
    /\ api = "at" => AtFree
    /\ Becomes(Service(api), CancelUpdate(Here(Service(api))))
    /\ HandedOver(Service(api), FALSE)
    /\ UNCHANGED task

(* AT+FWSEND with a whole chunk read: handle_update_file_chunk, and after the *)
(* last chunk cancel_update.  A chunk that is refused or is not the last one  *)
(* changes nothing here.                                                      *)
AtSendLast ==
    /\ AtFree
    /\ svc["at"].status = "Updating"
    /\ svc["at"].clientFd >= 0
    /\ Becomes("at", CancelUpdate(Here("at")))
    /\ HandedOver("at", FALSE)
    /\ UNCHANGED task

(* PUT /firmware or POST updateFile: handle_update_file_upload_stream. *)
UploadBegin(t) ==
    /\ task[t].pc = "idle"
    /\ svc["rest"].clientFd >= 0
    /\ task' = [task EXCEPT ![t] = [IdleTask EXCEPT !.pc = "upload", !.api = "v2"]]
    /\ UNCHANGED <<svc, fds, readers, handed>>

(* A chunk is written to whatever swclient_fd is by then; the upload ends when *)
(* the stream does, when there is no descriptor, or when swupdate refuses it.  *)
(* The client may have sent a whole image, or not.                             *)
UploadEnd(t) ==
    /\ task[t].pc = "upload"
    /\ Done(t)
    /\ \/ svc["rest"].clientFd \in FDs /\ svc["rest"].inProgress /\ handed' = [handed EXCEPT !["rest"] = TRUE]
       \/ UNCHANGED handed
    /\ UNCHANGED <<svc, fds, readers>>

(* progress_event_handler: a message on the channel a reader is registered for. *)
Watched(s, f) == readers[f] = s /\ fds[f] = <<s, "progress">>

(* Mutant of Verdict: the monitor is not stopped after the result. *)
VerdictKeepsMonitor(s, verdict) ==
    /\ \E f \in FDs : Watched(s, f)
    /\ svc[s].inProgress
    /\ Becomes(s, [Here(s) EXCEPT !.v.status = verdict])
    /\ HandedOver(s, FALSE)
    /\ UNCHANGED task

Verdict(s, verdict) ==
    /\ \E f \in FDs : Watched(s, f)
    /\ svc[s].inProgress
    /\ Becomes(s, Stop([Here(s) EXCEPT !.v.status = verdict]))
    /\ HandedOver(s, FALSE)
    /\ UNCHANGED task

(* Mutant of Reopen: the reader is not added again. *)
ReopenUnwatched(s) ==
    LET m == svc[s].msgFd
        closed == [v |-> [svc[s] EXCEPT !.msgFd = NoFd], fds |-> [fds EXCEPT ![m] = None],
                   readers |-> [readers EXCEPT ![m] = None]]
    IN  /\ \E f \in FDs : Watched(s, f)
        /\ svc[s].inProgress
        /\ m # NoFd
        /\ \E k \in OpenIpc(s, closed, "reopen") : Becomes(s, k)
        /\ UNCHANGED <<task, handed>>

(* An empty message: the channel is closed and opened again.  When it cannot *)
(* be opened, add_reader(-1) raises and nothing watches the update any more. *)
Reopen(s) ==
    LET m == svc[s].msgFd
        closed == [v |-> [svc[s] EXCEPT !.msgFd = NoFd], fds |-> [fds EXCEPT ![m] = None],
                   readers |-> [readers EXCEPT ![m] = None]]
    IN  /\ \E f \in FDs : Watched(s, f)
        /\ svc[s].inProgress
        /\ m # NoFd
        /\ \E k \in OpenIpc(s, closed, "reopen") :
              Becomes(s, IF k.v.msgFd = NoFd THEN k
                         ELSE [k EXCEPT !.readers[k.v.msgFd] = s])
        /\ UNCHANGED <<task, handed>>

Request == \/ \E t \in Tasks : AtRun(t) \/ V2Put(t) \/ LegacyPost(t) \/ UploadBegin(t)
           \/ \E api \in Apis : Cancel(api)
           \/ AtSendLast
Resume  == \E t \in Tasks : LegacyMedia(t) \/ SideKnown(t) \/ SideFails(t) \/ UploadEnd(t)
Event   == \E s \in Services : Reopen(s) \/ \E v \in Verdicts : Verdict(s, v)

Next == Request \/ Resume \/ Event

Spec == Init /\ [][Next]_vars

(* Environment assumption: on a channel that stays watched, swupdate reports  *)
(* the result of an update that it has been handed.  Nothing is assumed of an *)
(* update whose image no client uploads.                                      *)
Reports(s) == handed[s] /\ \E v \in Verdicts : Verdict(s, v)
FairSpec == Spec /\ \A s \in Services : WF_vars(Reports(s))

-----------------------------------------------------------------------------
(***************************************************************************)
(* Properties.                                                             *)
(***************************************************************************)
(* Every attribute, descriptor, reader and task has a value the code gives it. *)
TypeOK ==
    /\ svc \in [Services -> ServiceState]
    /\ fds \in [FDs -> Owners \cup {None}]
    /\ readers \in [FDs -> Services \cup {None}]
    /\ task \in [Tasks -> TaskState]
    /\ handed \in [Services -> BOOLEAN]

(* An update in progress reports "Updating", whatever has failed: no path through *)
(* a failing start, a second start, a failing cancel or a lost channel leaves     *)
(* update_in_progress set with another status.                                    *)
ProgressIsReported == \A s \in Services : svc[s].inProgress => svc[s].status = "Updating"

(* A handler on the event loop belongs to an update in progress, and to the channel *)
(* its service holds: stopping, reopening and starting again (also from the other   *)
(* service) never leave a handler behind on a descriptor the service has given up.  *)
HandlersBelong ==
    \A s \in Services, f \in FDs :
        readers[f] = s => svc[s].msgFd = f /\ svc[s].inProgress

(* No progress channel is leaked: an open one is the one its service holds, across *)
(* the starts that fail after open_ipc and the second starts.                      *)
NoChannelLeak ==
    \A s \in Services, f \in FDs : fds[f] = <<s, "progress">> => svc[s].msgFd = f

(* As long as a lost channel can be reopened: "Updating" is reported exactly while *)
(* an update is in progress, and then its channel is open and watched.             *)
UpdatingIsWatched ==
    \A s \in Services :
        /\ svc[s].status = "Updating" <=> svc[s].inProgress
        /\ svc[s].inProgress => svc[s].msgFd \in FDs /\ Watched(s, svc[s].msgFd)

(* As long as a lost channel can be reopened: a service only holds descriptors that *)
(* are open and its own, so no chunk and no close ever hits the other service's.    *)
OwnDescriptors ==
    \A s \in Services :
        /\ svc[s].msgFd \in FDs => fds[svc[s].msgFd] = <<s, "progress">>
        /\ svc[s].clientFd \in FDs => fds[svc[s].clientFd] = <<s, "client">>

(* "Latch success & failure messages, ignoring all others" (line 247): a verdict is *)
(* never replaced by the other one; a start or a cancel must come between.          *)
VerdictLatched ==
    [][\A s \in Services :
         svc[s].status \in Verdicts => svc'[s].status \notin Verdicts \ {svc[s].status}]_vars

(* "just assume update started unless/until a failure or completion occurs" (lines  *)
(* 166-168): as long as a lost channel can be reopened, the assumed status does not *)
(* outlive an update that swupdate was handed, whatever starts, cancels and failing *)
(* starts come meanwhile.  One that is never uploaded is reported until it is       *)
(* cancelled.                                                                       *)
StatusSettles ==
    \A s \in Services : svc[s].status = "Updating" /\ handed[s] ~> svc[s].status # "Updating"

(* As long as a lost channel can be reopened, both, with the type invariant. *)
ChannelHeld == TypeOK /\ UpdatingIsWatched /\ OwnDescriptors
=============================================================================
