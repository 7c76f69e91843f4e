------------------------- MODULE FirmwareUpdate_proof -------------------------
(***************************************************************************)
(* Proofs about FirmwareUpdate.  The methods are operators on a call record *)
(* (attributes, descriptor table, readers); one lemma per method says what  *)
(* it preserves of such a record, and the theorems follow action by action. *)
(***************************************************************************)
EXTENDS FirmwareUpdate, WellFoundedInduction, TLAPS

Calls == [v : ServiceState, fds : [FDs -> Owners \cup {None}],
          readers : [FDs -> Services \cup {None}]]

-----------------------------------------------------------------------------
(* What the methods return is well typed. *)
LEMMA HereType == ASSUME TypeOK, NEW s \in Services PROVE Here(s) \in Calls
BY DEF TypeOK, Here, Calls

LEMMA CloseType ==
    ASSUME NEW table \in [FDs -> Owners \cup {None}], NEW closing
    PROVE  Close(table, closing) \in [FDs -> Owners \cup {None}]
BY DEF Close

LEMMA ResetType == ASSUME NEW st \in Statuses PROVE Reset(st) \in ServiceState
BY DEF Reset, ServiceState

LEMMA StopType == ASSUME NEW k \in Calls PROVE Stop(k) \in Calls
<1>1. k.v \in ServiceState /\ k.v.status \in Statuses
  BY DEF Calls, ServiceState
<1>2. CASE StopRaises(k)
  <2>1. Close(k.fds, {k.v.clientFd}) \in [FDs -> Owners \cup {None}]
    BY CloseType DEF Calls
  <2>2. [k.v EXCEPT !.inProgress = FALSE] \in ServiceState
    BY <1>1 DEF ServiceState
  <2> QED BY <1>2, <2>1, <2>2 DEF Stop, Calls
<1>3. CASE ~StopRaises(k)
  <2>1. Close(k.fds, {k.v.clientFd, k.v.msgFd}) \in [FDs -> Owners \cup {None}]
    BY CloseType DEF Calls
  <2>2. Reset(k.v.status) \in ServiceState
    BY <1>1, ResetType
  <2>3. [k.readers EXCEPT ![k.v.msgFd] = None] \in [FDs -> Services \cup {None}]
    BY DEF Calls
  <2> QED BY <1>3, <2>1, <2>2, <2>3 DEF Stop, Calls
<1> QED BY <1>2, <1>3

LEMMA CancelType == ASSUME NEW k \in Calls PROVE CancelUpdate(k) \in Calls
<1>1. Stop(k) \in Calls
  BY StopType
<1>2. [Stop(k).v EXCEPT !.status = "NotUpdating"] \in ServiceState
  BY <1>1 DEF Calls, ServiceState, Statuses
<1> QED BY <1>1, <1>2 DEF CancelUpdate, Calls

LEMMA AfterRaiseType == ASSUME NEW k \in Calls, NEW api PROVE AfterRaise(api, k) \in Calls
BY CancelType DEF AfterRaise

LEMMA FreeType == ASSUME NEW table PROVE Free(table) \subseteq FDs
BY DEF Free

LEMMA OpenIpcType ==
    ASSUME NEW s \in Services, NEW k \in Calls, NEW fault, NEW o \in OpenIpc(s, k, fault)
    PROVE  /\ o \in Calls
           /\ o.v = [k.v EXCEPT !.msgFd = o.v.msgFd]
           /\ o.readers = k.readers
<1>1. CASE o = k
  BY <1>1 DEF Calls, ServiceState
<1>2. ASSUME NEW f \in Free(k.fds), o = [k EXCEPT !.v.msgFd = f, !.fds[f] = <<s, "progress">>]
      PROVE  /\ o \in Calls
             /\ o.v = [k.v EXCEPT !.msgFd = o.v.msgFd]
             /\ o.readers = k.readers
  <2>1. f \in FDs
    BY FreeType
  <2>2. <<s, "progress">> \in Owners
    BY DEF Owners
  <2>3. o.v = [k.v EXCEPT !.msgFd = f] /\ o.v \in ServiceState
    BY <1>2, <2>1 DEF Calls, ServiceState
  <2>4. [k.fds EXCEPT ![f] = <<s, "progress">>] \in [FDs -> Owners \cup {None}]
    BY <2>1, <2>2 DEF Calls
  <2>5. o = [v |-> o.v, fds |-> [k.fds EXCEPT ![f] = <<s, "progress">>], readers |-> k.readers]
    BY <1>2, <2>3 DEF Calls
  <2>6. o.v.msgFd = f
    BY <2>3 DEF Calls, ServiceState
  <2>7. o \in Calls
    BY <2>3, <2>4, <2>5 DEF Calls
  <2>8. o.readers = k.readers
    BY <2>5
  <2> QED BY <2>3, <2>6, <2>7, <2>8
<1> QED BY <1>1, <1>2 DEF OpenIpc

-----------------------------------------------------------------------------
(* The invariant.  The status of an update in progress and the handlers on the *)
(* loop are tied together: a handler is only removed by a stop, which also     *)
(* clears update_in_progress, and only added with the status "Updating".       *)
IInv == TypeOK /\ ProgressIsReported /\ HandlersBelong

(* The same of a call record of service s; a call leaves the handlers of the *)
(* other service alone or removes them.                                      *)
HandlersOk(s, k) ==
    /\ k \in Calls
    /\ \A f \in FDs : k.readers[f] = s => k.v.msgFd = f /\ k.v.inProgress
    /\ \A f \in FDs : k.readers[f] \in {s, None, readers[f]}

Sound(s, k) ==
    /\ HandlersOk(s, k)
    /\ k.v.inProgress => k.v.status = "Updating"

(* No verdict is recorded. *)
NoVerdict(s, k) == k.v.status \in {svc[s].status, "Updating", "NotUpdating"}

LEMMA NoFdType == NoFd \notin FDs
BY FDsAssumption DEF NoFd

LEMMA HereSound == ASSUME IInv, NEW s \in Services PROVE Sound(s, Here(s)) /\ NoVerdict(s, Here(s))
<1>1. Here(s) \in Calls
  BY HereType DEF IInv
<1>2. Here(s).v = svc[s] /\ Here(s).readers = readers
  BY DEF Here
<1> QED BY <1>1, <1>2 DEF IInv, ProgressIsReported, HandlersBelong, Sound, HandlersOk, NoVerdict

LEMMA StopSound ==
    ASSUME NEW s \in Services, NEW k, HandlersOk(s, k)
    PROVE  /\ Sound(s, Stop(k))
           /\ Stop(k).v.status = k.v.status
<1>1. k \in Calls /\ Stop(k) \in Calls
  BY StopType DEF HandlersOk
<1>2. CASE StopRaises(k)
  <2>1. Stop(k).readers = k.readers /\ Stop(k).v = [k.v EXCEPT !.inProgress = FALSE]
    BY <1>1, <1>2 DEF Stop, Calls
  <2>2. Stop(k).v.inProgress = FALSE /\ Stop(k).v.status = k.v.status
    BY <1>1, <2>1 DEF Calls, ServiceState
  <2>3. \A f \in FDs : k.readers[f] # s
    BY <1>2, NoFdType DEF StopRaises, HandlersOk
  <2> QED BY <1>1, <2>1, <2>2, <2>3 DEF Sound, HandlersOk
<1>3. CASE ~StopRaises(k)
  <2>1. /\ Stop(k).v = Reset(k.v.status)
        /\ Stop(k).readers = [k.readers EXCEPT ![k.v.msgFd] = None]
    BY <1>3 DEF Stop
  <2>2. Stop(k).v.inProgress = FALSE /\ Stop(k).v.status = k.v.status
    BY <2>1 DEF Reset
  <2>3. k.readers \in [FDs -> Services \cup {None}]
    BY <1>1 DEF Calls
  <2>4. \A f \in FDs : Stop(k).readers[f] # s
    BY <2>1, <2>3, NoneAssumption DEF HandlersOk
  <2>5. \A f \in FDs : Stop(k).readers[f] \in {s, None, readers[f]}
    BY <2>1, <2>3 DEF HandlersOk
  <2> QED BY <1>1, <2>2, <2>4, <2>5 DEF Sound, HandlersOk
<1> QED BY <1>2, <1>3

LEMMA CancelSound ==
    ASSUME NEW s \in Services, NEW k, HandlersOk(s, k)
    PROVE  /\ Sound(s, CancelUpdate(k))
           /\ CancelUpdate(k).v.status \in {k.v.status, "NotUpdating"}
<1>1. Sound(s, Stop(k)) /\ Stop(k).v.status = k.v.status
  BY StopSound
<1>2. CASE StopRaises(k)
  BY <1>1, <1>2 DEF CancelUpdate
<1>3. CASE ~StopRaises(k)
  <2>1. CancelUpdate(k) = [Stop(k) EXCEPT !.v = [Stop(k).v EXCEPT !.status = "NotUpdating"]]
    BY <1>3 DEF CancelUpdate
  <2>2. k \in Calls
    BY DEF HandlersOk
  <2>3. CancelUpdate(k) \in Calls /\ Stop(k) \in Calls
    BY <2>2, CancelType, StopType
  <2>4. CancelUpdate(k).readers = Stop(k).readers
    BY <2>1, <2>3 DEF Calls
  <2>5. CancelUpdate(k).v = [Stop(k).v EXCEPT !.status = "NotUpdating"]
    BY <2>1, <2>3 DEF Calls
  <2>6. /\ CancelUpdate(k).v.status = "NotUpdating"
        /\ CancelUpdate(k).v.inProgress = Stop(k).v.inProgress
        /\ CancelUpdate(k).v.msgFd = Stop(k).v.msgFd
    BY <2>3, <2>5 DEF Calls, ServiceState
  <2>7. Stop(k).v.inProgress = FALSE
    BY <1>3 DEF Stop, Reset
  <2> QED BY <1>1, <2>3, <2>4, <2>6, <2>7 DEF Sound, HandlersOk
<1> QED BY <1>2, <1>3

LEMMA AfterRaiseSound ==
    ASSUME NEW s \in Services, NEW k, NEW api, Sound(s, k), NoVerdict(s, k)
    PROVE  Sound(s, AfterRaise(api, k)) /\ NoVerdict(s, AfterRaise(api, k))
BY CancelSound DEF AfterRaise, Sound, NoVerdict

(* A change of url, image or swclient_fd concerns none of this. *)
LEMMA SameHandlers ==
    ASSUME NEW s \in Services, NEW k, NEW o \in Calls, Sound(s, k), NoVerdict(s, k),
           o.readers = k.readers, o.v.msgFd = k.v.msgFd,
           o.v.inProgress = k.v.inProgress, o.v.status = k.v.status
    PROVE  Sound(s, o) /\ NoVerdict(s, o)
BY DEF Sound, HandlersOk, NoVerdict

(* open_ipc only changes msg_fd when there is no channel, hence no handler. *)
LEMMA OpenIpcSound ==
    ASSUME NEW s \in Services, NEW k, NEW fault, NEW o \in OpenIpc(s, k, fault),
           HandlersOk(s, k)
    PROVE  /\ HandlersOk(s, o)
           /\ o.v.inProgress = k.v.inProgress
           /\ o.v.status = k.v.status
<1>1. k \in Calls
  BY DEF HandlersOk
<1>2. o \in Calls /\ o.v = [k.v EXCEPT !.msgFd = o.v.msgFd] /\ o.readers = k.readers
  BY <1>1, OpenIpcType
<1>3. o.v.inProgress = k.v.inProgress /\ o.v.status = k.v.status
  BY <1>1, <1>2 DEF Calls, ServiceState
<1>4. CASE k.v.msgFd = NoFd
  <2>1. \A f \in FDs : k.readers[f] # s
    BY <1>4, NoFdType DEF HandlersOk
  <2> QED BY <1>2, <1>3, <2>1 DEF HandlersOk
<1>5. CASE k.v.msgFd # NoFd
  <2>1. o = k
    BY <1>5 DEF OpenIpc
  <2> QED BY <2>1
<1> QED BY <1>3, <1>4, <1>5

LEMMA PreparedType ==
    ASSUME NEW s \in Services, NEW k \in Calls, NEW o \in Prepared(s, k)
    PROVE  /\ o \in Calls
           /\ o.readers = k.readers
           /\ o.v.msgFd = k.v.msgFd
           /\ o.v.inProgress = k.v.inProgress
           /\ o.v.status = k.v.status
<1>1. PICK f \in Free(k.fds) : o = [k EXCEPT !.v.clientFd = f, !.fds[f] = <<s, "client">>]
  BY DEF Prepared
<1>2. f \in FDs /\ <<s, "client">> \in Owners
  BY FreeType DEF Owners
<1>3. o.v = [k.v EXCEPT !.clientFd = f] /\ o.v \in ServiceState
  BY <1>1, <1>2 DEF Calls, ServiceState
<1>4. [k.fds EXCEPT ![f] = <<s, "client">>] \in [FDs -> Owners \cup {None}]
  BY <1>2 DEF Calls
<1>5. o = [v |-> o.v, fds |-> [k.fds EXCEPT ![f] = <<s, "client">>], readers |-> k.readers]
  BY <1>1, <1>3 DEF Calls
<1>6. o \in Calls /\ o.readers = k.readers
  BY <1>3, <1>4, <1>5 DEF Calls
<1> QED BY <1>3, <1>6 DEF Calls, ServiceState

LEMMA MonitorSound ==
    ASSUME NEW s \in Services, NEW k, HandlersOk(s, k), k.v.msgFd # NoFd
    PROVE  Sound(s, Monitor(s, k)) /\ Monitor(s, k).v.status = "Updating"
<1>1. k \in Calls /\ k.v.msgFd \in FDs
  BY DEF HandlersOk, Calls, ServiceState
<1>2. /\ Monitor(s, k).v = [k.v EXCEPT !.inProgress = TRUE, !.status = "Updating"]
      /\ Monitor(s, k).readers = [k.readers EXCEPT ![k.v.msgFd] = s]
      /\ Monitor(s, k) = [v |-> Monitor(s, k).v, fds |-> k.fds, readers |-> Monitor(s, k).readers]
  BY DEF Monitor
<1>3. /\ Monitor(s, k).v \in ServiceState
      /\ Monitor(s, k).v.inProgress = TRUE
      /\ Monitor(s, k).v.status = "Updating"
      /\ Monitor(s, k).v.msgFd = k.v.msgFd
  BY <1>1, <1>2 DEF Calls, ServiceState, Statuses
<1>4. Monitor(s, k).readers \in [FDs -> Services \cup {None}]
  BY <1>1, <1>2 DEF Calls
<1>5. Monitor(s, k) \in Calls
  BY <1>1, <1>2, <1>3, <1>4 DEF Calls
<1>6. k.readers \in [FDs -> Services \cup {None}]
  BY <1>1 DEF Calls
<1>7. \A f \in FDs : Monitor(s, k).readers[f] = IF f = k.v.msgFd THEN s ELSE k.readers[f]
  BY <1>1, <1>2, <1>6
<1> QED BY <1>1, <1>3, <1>5, <1>7 DEF Sound, HandlersOk

LEMMA ReturnsSound ==
    ASSUME NEW s \in Services, NEW k, Sound(s, k), NEW o \in Returns(s, k)
    PROVE  Sound(s, o) /\ NoVerdict(s, o)
<1>1. PICK c \in OpenIpc(s, k, "ipc") :
         /\ c.v.msgFd # NoFd
         /\ \/ o = Monitor(s, c)
            \/ \E p \in Prepared(s, c) : o = Monitor(s, p)
  <2>1. PICK c \in Opened(s, k) :
          o \in {Monitor(s, p) : p \in IF c.v.url # None THEN {c} ELSE Prepared(s, c)}
    BY DEF Returns
  <2> QED BY <2>1 DEF Opened
<1>2. HandlersOk(s, c) /\ c \in Calls
  BY OpenIpcSound DEF Sound, HandlersOk
<1>3. CASE o = Monitor(s, c)
  BY <1>1, <1>2, <1>3, MonitorSound DEF NoVerdict
<1>4. ASSUME NEW p \in Prepared(s, c), o = Monitor(s, p)
      PROVE  Sound(s, o) /\ NoVerdict(s, o)
  <2>1. HandlersOk(s, p) /\ p.v.msgFd # NoFd
    BY <1>1, <1>2, PreparedType DEF HandlersOk
  <2> QED BY <1>4, <2>1, MonitorSound DEF NoVerdict
<1> QED BY <1>1, <1>3, <1>4

LEMMA ClearedSound ==
    ASSUME NEW s \in Services, NEW k, Sound(s, k), NoVerdict(s, k)
    PROVE  Sound(s, Cleared(k)) /\ NoVerdict(s, Cleared(k))
<1>1. k \in Calls
  BY DEF Sound, HandlersOk
<1>2. [k.v EXCEPT !.url = None, !.image = None] \in ServiceState
  BY <1>1 DEF Calls, ServiceState
<1>3. Cleared(k).v = [k.v EXCEPT !.url = None, !.image = None] /\ Cleared(k).readers = k.readers
  BY <1>1 DEF Cleared, Calls
<1>4. Cleared(k) \in Calls
  BY <1>1, <1>2 DEF Cleared, Calls
<1>5. /\ Cleared(k).v.msgFd = k.v.msgFd
      /\ Cleared(k).v.inProgress = k.v.inProgress
      /\ Cleared(k).v.status = k.v.status
  BY <1>1, <1>3 DEF Calls, ServiceState
<1> QED BY <1>3, <1>4, <1>5, SameHandlers

LEMMA PrepareFailedSound ==
    ASSUME NEW s \in Services, NEW k, Sound(s, k), NoVerdict(s, k), NEW o \in PrepareFailed(k)
    PROVE  Sound(s, o) /\ NoVerdict(s, o)
<1>1. PICK e \in PrepareErrors : o = Cleared([k EXCEPT !.v.clientFd = e])
  BY DEF PrepareFailed
<1>2. DEFINE c == [k EXCEPT !.v.clientFd = e]
<1>3. e \in {NoFd, 0} /\ k \in Calls
  BY ErrorsAssumption DEF NoFd, Sound, HandlersOk
<1>4. c.v = [k.v EXCEPT !.clientFd = e] /\ c.readers = k.readers /\ c.fds = k.fds
  BY <1>3 DEF Calls
<1>5. /\ c.v \in ServiceState
      /\ c.v.msgFd = k.v.msgFd
      /\ c.v.inProgress = k.v.inProgress
      /\ c.v.status = k.v.status
  BY <1>3, <1>4 DEF Calls, ServiceState
<1>6. c \in Calls
  BY <1>3, <1>4, <1>5 DEF Calls
<1>7. Sound(s, c) /\ NoVerdict(s, c)
  BY <1>4, <1>5, <1>6, SameHandlers
<1> QED BY <1>1, <1>7, ClearedSound

LEMMA RaisesSound ==
    ASSUME NEW s \in Services, NEW k, Sound(s, k), NoVerdict(s, k), NEW o \in Raises(s, k)
    PROVE  Sound(s, o) /\ NoVerdict(s, o)
<1>1. \E c \in OpenIpc(s, k, "ipc") : o = c \/ o = Cleared(c) \/ o \in PrepareFailed(c)
  <2>1. CASE o \in {Cleared(c) : c \in Refused(s, k)}
    BY <2>1 DEF Refused
  <2>2. ASSUME NEW c \in Opened(s, k),
               o \in IF c.v.url = None THEN PrepareFailed(c) ELSE {d \in {c} : "popen" \in Faults}
        PROVE  o = c \/ o \in PrepareFailed(c)
    BY <2>2
  <2>3. \/ o \in {Cleared(c) : c \in Refused(s, k)}
        \/ \E c \in Opened(s, k) :
              o \in IF c.v.url = None THEN PrepareFailed(c) ELSE {d \in {c} : "popen" \in Faults}
    BY DEF Raises
  <2> QED BY <2>1, <2>2, <2>3 DEF Opened
<1>2. \A c \in OpenIpc(s, k, "ipc") : Sound(s, c) /\ NoVerdict(s, c)
  BY OpenIpcSound DEF Sound, NoVerdict
<1> QED BY <1>1, <1>2, ClearedSound, PrepareFailedSound

-----------------------------------------------------------------------------
(* The steps.  Each action leaves a sound record to Becomes; what has been handed over stays typed. *)
HandedTyped == handed' \in [Services -> BOOLEAN]

LEMMA HandedOverTyped ==
    ASSUME handed \in [Services -> BOOLEAN], NEW s \in Services, NEW more, HandedOver(s, more)
    PROVE  HandedTyped
BY DEF HandedOver, HandedTyped

LEMMA HandedStep == ASSUME TypeOK, [Next]_vars PROVE HandedTyped
<1>1. handed \in [Services -> BOOLEAN] /\ "at" \in Services /\ "rest" \in Services
      /\ \A api : Service(api) \in Services
  BY DEF TypeOK, Services, Service
<1>2. ASSUME UNCHANGED handed PROVE HandedTyped
  BY <1>1, <1>2 DEF HandedTyped
<1>3. ASSUME NEW s \in Services, NEW more, HandedOver(s, more) PROVE HandedTyped
  BY <1>1, <1>3, HandedOverTyped
<1>4. ASSUME NEW t \in Tasks, SideKnown(t) PROVE HandedTyped
  <2> DEFINE s == Service(task[t].api)
  <2>1. \E more : HandedOver(s, more)
    BY <1>4 DEF SideKnown
  <2> QED BY <1>1, <1>3, <2>1
<1>5. ASSUME NEW t \in Tasks, UploadEnd(t) PROVE HandedTyped
  BY <1>1, <1>5 DEF UploadEnd, HandedTyped
<1>6. CASE Request
  BY <1>1, <1>2, <1>3, <1>6 DEF Request, AtRun, V2Put, LegacyPost, UploadBegin, Cancel, AtSendLast
<1>7. CASE Resume
  BY <1>1, <1>3, <1>4, <1>5, <1>7 DEF Resume, LegacyMedia, SideFails
<1>8. CASE Event
  BY <1>2, <1>3, <1>8 DEF Event, Reopen, Verdict
<1> QED BY <1>2, <1>6, <1>7, <1>8 DEF Next, vars

LEMMA BecomesStep ==
    ASSUME IInv, HandedTyped, NEW s \in Services, NEW k, Sound(s, k), Becomes(s, k),
           task' \in [Tasks -> TaskState]
    PROVE  IInv'
<1> USE DEF IInv, Becomes
<1>1. k \in Calls /\ svc \in [Services -> ServiceState]
  BY DEF Sound, HandlersOk, TypeOK
<1>2. TypeOK'
  BY <1>1 DEF TypeOK, HandedTyped, Calls
<1>3. svc'[s] = k.v /\ \A r \in Services \ {s} : svc'[r] = svc[r]
  BY <1>1
<1>4. ProgressIsReported'
  BY <1>3 DEF ProgressIsReported, Sound
<1>5. HandlersBelong'
  <2>1. SUFFICES ASSUME NEW r \in Services, NEW f \in FDs, k.readers[f] = r
                 PROVE  svc'[r].msgFd = f /\ svc'[r].inProgress
    BY DEF HandlersBelong
  <2>2. CASE r = s
    BY <1>3, <2>1, <2>2 DEF Sound, HandlersOk
  <2>3. CASE r # s
    <3>1. readers[f] = r
      BY <2>1, <2>3, NoneAssumption DEF Sound, HandlersOk
    <3> QED BY <1>3, <2>3, <3>1 DEF HandlersBelong
  <2> QED BY <2>2, <2>3
<1> QED BY <1>2, <1>4, <1>5

(* The same with the requirement that no verdict is recorded. *)
Latches ==
    \A s \in Services :
        svc[s].status \in Verdicts => svc'[s].status \notin Verdicts \ {svc[s].status}

LEMMA BecomesLatches ==
    ASSUME IInv, NEW s \in Services, NEW k, NoVerdict(s, k), Becomes(s, k)
    PROVE  Latches
<1>1. svc \in [Services -> ServiceState]
  BY DEF IInv, TypeOK
<1>2. svc'[s] = k.v /\ \A r \in Services \ {s} : svc'[r] = svc[r]
  BY <1>1 DEF Becomes
<1> QED BY <1>2 DEF Latches, NoVerdict, Verdicts

(* Latches and IInv' together: what every step has to show. *)
LEMMA SoundStep ==
    ASSUME IInv, HandedTyped, NEW s \in Services, NEW k, Sound(s, k), NoVerdict(s, k), Becomes(s, k),
           task' \in [Tasks -> TaskState]
    PROVE  IInv' /\ Latches
BY BecomesStep, BecomesLatches

LEMMA UnchangedStep ==
    ASSUME IInv, HandedTyped, UNCHANGED <<svc, fds, readers>>, task' \in [Tasks -> TaskState]
    PROVE  IInv' /\ Latches
<1>1. TypeOK'
  BY DEF IInv, TypeOK, HandedTyped
<1>2. ProgressIsReported' /\ HandlersBelong'
  BY DEF IInv, ProgressIsReported, HandlersBelong
<1>3. Latches
  BY DEF Latches
<1> QED BY <1>1, <1>2, <1>3 DEF IInv

LEMMA IdleTaskType == IdleTask \in TaskState
BY DEF IdleTask, TaskState, Apis

LEMMA DoneType == ASSUME IInv, NEW t \in Tasks, Done(t) PROVE task' \in [Tasks -> TaskState]
BY IdleTaskType DEF IInv, TypeOK, Done

LEMMA ServiceType == ASSUME NEW api PROVE Service(api) \in Services
BY DEF Service, Services

LEMMA BeginStartStep ==
    ASSUME IInv, HandedTyped, NEW t \in Tasks, NEW api \in Apis, NEW u \in Urls \cup {None},
           NEW i \in Images \cup {None}, BeginStart(t, api, u, i)
    PROVE  IInv' /\ Latches
<1> DEFINE s == Service(api)
           v == [svc[s] EXCEPT !.url = IF u # None THEN u ELSE @,
                               !.image = IF i # None THEN i ELSE @]
           k == [Here(s) EXCEPT !.v = v]
<1>1. s \in Services
  BY ServiceType
<1>2. Sound(s, Here(s)) /\ NoVerdict(s, Here(s)) /\ Here(s) \in Calls /\ svc[s] \in ServiceState
  BY <1>1, HereSound, HereType DEF IInv, TypeOK
<1>3. /\ v \in ServiceState
      /\ v.msgFd = svc[s].msgFd
      /\ v.inProgress = svc[s].inProgress
      /\ v.status = svc[s].status
  BY <1>2 DEF ServiceState
<1>4. k \in Calls /\ k.v = v /\ k.readers = readers /\ Here(s).readers = readers /\ Here(s).v = svc[s]
  BY <1>2, <1>3 DEF Here, Calls
<1>5. Sound(s, k) /\ NoVerdict(s, k)
  BY <1>1, <1>2, <1>3, <1>4, SameHandlers
<1>7. CASE k.v.image = None
  <2>1. Becomes(s, AfterRaise(api, Cleared(k))) /\ Done(t)
    BY <1>7 DEF BeginStart
  <2>2. Sound(s, AfterRaise(api, Cleared(k))) /\ NoVerdict(s, AfterRaise(api, Cleared(k)))
    BY <1>1, <1>5, ClearedSound, AfterRaiseSound
  <2> QED BY <1>1, <2>1, <2>2, DoneType, SoundStep
<1>8. CASE k.v.image # None
  <2>1. /\ Becomes(s, k)
        /\ task' = [task EXCEPT ![t] = [pc |-> "side", api |-> api, url |-> u]]
    BY <1>8 DEF BeginStart
  <2>2. task' \in [Tasks -> TaskState]
    BY <2>1 DEF IInv, TypeOK, TaskState
  <2> QED BY <1>1, <1>5, <2>1, <2>2, SoundStep
<1> QED BY <1>7, <1>8

LEMMA ReopenStep ==
    ASSUME IInv, HandedTyped, NEW s \in Services, Reopen(s)
    PROVE  IInv' /\ Latches
<1> DEFINE m == svc[s].msgFd
           closed == [v |-> [svc[s] EXCEPT !.msgFd = NoFd], fds |-> [fds EXCEPT ![m] = None],
                      readers |-> [readers EXCEPT ![m] = None]]
<1>1. svc[s].inProgress /\ m # NoFd /\ task' = task
  BY DEF Reopen
<1>2. PICK k \in OpenIpc(s, closed, "reopen") :
        Becomes(s, IF k.v.msgFd = NoFd THEN k ELSE [k EXCEPT !.readers[k.v.msgFd] = s])
  BY DEF Reopen
<1>3. /\ Sound(s, Here(s)) /\ Here(s) \in Calls /\ svc[s] \in ServiceState
      /\ m \in FDs /\ svc[s].status = "Updating"
      /\ fds \in [FDs -> Owners \cup {None}] /\ readers \in [FDs -> Services \cup {None}]
  BY <1>1, HereSound, HereType DEF IInv, TypeOK, ServiceState, ProgressIsReported
<1>4. /\ closed.v = [svc[s] EXCEPT !.msgFd = NoFd]
      /\ closed.fds = [fds EXCEPT ![m] = None]
      /\ closed.readers = [readers EXCEPT ![m] = None]
  OBVIOUS
<1>5. /\ closed.v \in ServiceState
      /\ closed.v.msgFd = NoFd
      /\ closed.v.inProgress = TRUE
      /\ closed.v.status = "Updating"
  BY <1>1, <1>3, <1>4 DEF ServiceState
<1>6. closed \in Calls
  BY <1>3, <1>4, <1>5 DEF Calls
<1>7. \A f \in FDs : closed.readers[f] # s /\ closed.readers[f] \in {s, None, readers[f]}
  BY <1>3, <1>4, NoneAssumption DEF IInv, HandlersBelong
<1> HIDE DEF closed
<1>8. HandlersOk(s, closed)
  BY <1>6, <1>7 DEF HandlersOk
<1>9. HandlersOk(s, k) /\ k.v.inProgress = TRUE /\ k.v.status = "Updating" /\ k \in Calls
  BY <1>5, <1>8, OpenIpcSound DEF HandlersOk
<1>10. task' \in [Tasks -> TaskState]
  BY <1>1 DEF IInv, TypeOK
<1>11. CASE k.v.msgFd = NoFd
  <2>1. Sound(s, k) /\ NoVerdict(s, k)
    BY <1>9 DEF Sound, NoVerdict
  <2> QED BY <1>2, <1>10, <1>11, <2>1, SoundStep
<1>12. CASE k.v.msgFd # NoFd
  <2> DEFINE w == [k EXCEPT !.readers[k.v.msgFd] = s]
  <2>1. k.v.msgFd \in FDs /\ k.readers \in [FDs -> Services \cup {None}]
    BY <1>9, <1>12 DEF Calls, ServiceState
  <2>2. w.v = k.v /\ w.fds = k.fds /\ w.readers = [k.readers EXCEPT ![k.v.msgFd] = s]
    BY <1>9 DEF Calls
  <2>3. w \in Calls
    BY <1>9, <2>1, <2>2 DEF Calls
  <2>4. \A f \in FDs : w.readers[f] = IF f = k.v.msgFd THEN s ELSE k.readers[f]
    BY <2>1, <2>2
  <2>5. Sound(s, w) /\ NoVerdict(s, w)
    BY <1>9, <2>2, <2>3, <2>4 DEF Sound, HandlersOk, NoVerdict
  <2> QED BY <1>2, <1>10, <1>12, <2>5, SoundStep
<1> QED BY <1>11, <1>12

(* The one step that records a verdict: it needs an update in progress, which *)
(* reports "Updating".                                                        *)
LEMMA VerdictStep ==
    ASSUME IInv, HandedTyped, NEW s \in Services, NEW verdict \in Verdicts, Verdict(s, verdict)
    PROVE  IInv' /\ Latches
<1> DEFINE v == [svc[s] EXCEPT !.status = verdict]
           k == [Here(s) EXCEPT !.v.status = verdict]
<1>1. svc[s].inProgress /\ Becomes(s, Stop(k)) /\ task' = task
  BY DEF Verdict
<1>2. Sound(s, Here(s)) /\ Here(s) \in Calls /\ svc \in [Services -> ServiceState]
  BY HereSound, HereType DEF IInv, TypeOK
<1>3. k = [v |-> v, fds |-> fds, readers |-> readers] /\ Here(s).v = svc[s] /\ Here(s).readers = readers
  BY DEF Here
<1>4. /\ v \in ServiceState
      /\ v.msgFd = svc[s].msgFd
      /\ v.inProgress = svc[s].inProgress
  BY <1>2 DEF ServiceState, Statuses, Verdicts
<1>5. k \in Calls
  BY <1>3, <1>4 DEF IInv, TypeOK, Calls
<1>6. HandlersOk(s, k)
  BY ZenonT(60), <1>2, <1>3, <1>4, <1>5 DEF Sound, HandlersOk
<1>7. Sound(s, Stop(k))
  BY <1>6, StopSound
<1>8. IInv'
  BY <1>1, <1>7, BecomesStep DEF IInv, TypeOK
<1>9. svc[s].status = "Updating"
  BY <1>1 DEF IInv, ProgressIsReported
<1>10. \A r \in Services \ {s} : svc'[r] = svc[r]
  BY <1>1, <1>2 DEF Becomes
<1>11. Latches
  BY <1>9, <1>10 DEF Latches, Verdicts
<1> QED BY <1>8, <1>11

LEMMA CancelStep ==
    ASSUME IInv, HandedTyped, NEW s \in Services, Becomes(s, CancelUpdate(Here(s))), UNCHANGED task
    PROVE  IInv' /\ Latches
<1>1. Sound(s, Here(s)) /\ NoVerdict(s, Here(s))
  BY HereSound
<1>2. Sound(s, CancelUpdate(Here(s))) /\ NoVerdict(s, CancelUpdate(Here(s)))
  BY <1>1, CancelSound DEF Sound, NoVerdict
<1> QED BY <1>2, SoundStep DEF IInv, TypeOK

LEMMA SideStep ==
    ASSUME IInv, HandedTyped, NEW t \in Tasks, SideKnown(t) \/ SideFails(t)
    PROVE  IInv' /\ Latches
<1> DEFINE api == task[t].api
           s == Service(api)
<1>1. s \in Services /\ Done(t)
  BY ServiceType DEF SideKnown, SideFails
<1>2. Sound(s, Here(s)) /\ NoVerdict(s, Here(s)) /\ task' \in [Tasks -> TaskState]
  BY <1>1, HereSound, DoneType
<1>3. ASSUME NEW k \in Returns(s, Here(s)), Becomes(s, k)
      PROVE  IInv' /\ Latches
  BY <1>1, <1>2, <1>3, ReturnsSound, SoundStep
<1>4. ASSUME NEW k \in Raises(s, Here(s)), Becomes(s, AfterRaise(api, k))
      PROVE  IInv' /\ Latches
  <2>1. Sound(s, AfterRaise(api, k)) /\ NoVerdict(s, AfterRaise(api, k))
    BY <1>1, <1>2, RaisesSound, AfterRaiseSound
  <2> QED BY <1>1, <1>2, <1>4, <2>1, SoundStep
<1>5. ASSUME Becomes(s, AfterRaise(api, Here(s)))
      PROVE  IInv' /\ Latches
  <2>1. Sound(s, AfterRaise(api, Here(s))) /\ NoVerdict(s, AfterRaise(api, Here(s)))
    BY <1>1, <1>2, AfterRaiseSound
  <2> QED BY <1>1, <1>2, <1>5, <2>1, SoundStep
<1> QED BY <1>3, <1>4, <1>5 DEF SideKnown, SideFails

LEMMA InitIInv == Init => IInv
<1> SUFFICES ASSUME Init PROVE IInv
  OBVIOUS
<1>1. TypeOK
  BY ResetType, IdleTaskType DEF Init, TypeOK, Statuses
<1>2. ProgressIsReported
  BY DEF Init, ProgressIsReported, Reset
<1>3. HandlersBelong
  BY NoneAssumption DEF Init, HandlersBelong
<1> QED BY <1>1, <1>2, <1>3 DEF IInv

LEMMA NextStep == ASSUME IInv, [Next]_vars PROVE IInv' /\ Latches
<1>0. HandedTyped
  BY HandedStep DEF IInv
<1> USE <1>0
<1>1. CASE UNCHANGED vars
  BY <1>1, UnchangedStep DEF vars, IInv, TypeOK
<1>2. ASSUME NEW t \in Tasks, AtRun(t) PROVE IInv' /\ Latches
  BY <1>2, BeginStartStep DEF AtRun, Apis
<1>3. ASSUME NEW t \in Tasks, V2Put(t) PROVE IInv' /\ Latches
  BY <1>3, BeginStartStep DEF V2Put, Apis
<1>4. ASSUME NEW t \in Tasks, LegacyPost(t) \/ UploadBegin(t) PROVE IInv' /\ Latches
  <2>1. /\ [IdleTask EXCEPT !.pc = "media", !.api = "legacy"] \in TaskState
        /\ [IdleTask EXCEPT !.pc = "upload", !.api = "v2"] \in TaskState
    BY DEF TaskState, IdleTask, Apis
  <2>2. task \in [Tasks -> TaskState]
    BY DEF IInv, TypeOK
  <2>3. task' \in [Tasks -> TaskState]
    BY <1>4, <2>1, <2>2 DEF LegacyPost, UploadBegin
  <2> QED BY <1>4, <2>3, UnchangedStep DEF LegacyPost, UploadBegin
<1>5. ASSUME NEW t \in Tasks, LegacyMedia(t) PROVE IInv' /\ Latches
  <2>1. CASE Done(t) /\ UNCHANGED <<svc, fds, readers>>
    BY <2>1, DoneType, UnchangedStep
  <2>2. CASE \E u \in Urls \cup {None}, i \in Images \cup {None} : BeginStart(t, "legacy", u, i)
    BY <2>2, BeginStartStep DEF Apis
  <2> QED BY <1>5, <2>1, <2>2 DEF LegacyMedia
<1>6. ASSUME NEW t \in Tasks, SideKnown(t) \/ SideFails(t) PROVE IInv' /\ Latches
  BY <1>6, SideStep
<1>7. ASSUME NEW t \in Tasks, UploadEnd(t) PROVE IInv' /\ Latches
  BY <1>7, DoneType, UnchangedStep DEF UploadEnd
<1>8. ASSUME NEW api \in Apis, Cancel(api) PROVE IInv' /\ Latches
  BY <1>8, ServiceType, CancelStep DEF Cancel
<1>9. ASSUME AtSendLast PROVE IInv' /\ Latches
  BY <1>9, CancelStep DEF AtSendLast, Services
<1>10. ASSUME NEW s \in Services, Reopen(s) PROVE IInv' /\ Latches
  BY <1>10, ReopenStep
<1>11. ASSUME NEW s \in Services, NEW v \in Verdicts, Verdict(s, v) PROVE IInv' /\ Latches
  BY <1>11, VerdictStep
<1> QED BY <1>1, <1>2, <1>3, <1>4, <1>5, <1>6, <1>7, <1>8, <1>9, <1>10, <1>11
        DEF Next, Request, Resume, Event

LEMMA Invariance == Spec => []IInv
<1>1. Init => IInv
  BY InitIInv
<1>2. IInv /\ [Next]_vars => IInv'
  BY NextStep
<1> QED BY <1>1, <1>2, PTL DEF Spec

-----------------------------------------------------------------------------
(* Whatever fails and in whatever order requests and events come, every attribute *)
(* and table of the two services stays well typed.                                *)
THEOREM Typing == Spec => []TypeOK
<1>1. IInv => TypeOK
  BY DEF IInv
<1> QED BY <1>1, Invariance, PTL

(* An update in progress is always reported as "Updating" (start_update, *)
(* stop_progress_monitor and all their failures).                        *)
THEOREM ProgressReported == Spec => []ProgressIsReported
<1>1. IInv => ProgressIsReported
  BY DEF IInv
<1> QED BY <1>1, Invariance, PTL

(* No handler is left on the event loop for a descriptor that its service has *)
(* given up, or without an update in progress.                                *)
THEOREM NoStrayHandler == Spec => []HandlersBelong
<1>1. IInv => HandlersBelong
  BY DEF IInv
<1> QED BY <1>1, Invariance, PTL

(* progress_event_handler never replaces a result that has been latched. *)
THEOREM ResultLatched == Spec => VerdictLatched
<1>1. IInv /\ [Next]_vars => Latches
  BY NextStep
<1>2. IInv /\ [Next]_vars =>
        [\A s \in Services :
           svc[s].status \in Verdicts => svc'[s].status \notin Verdicts \ {svc[s].status}]_vars
  BY <1>1 DEF Latches
<1> QED BY <1>2, Invariance, PTL DEF Spec, VerdictLatched

-----------------------------------------------------------------------------
(* The channels.  In the call record of service s an open progress channel of s is *)
(* the one that s holds; a call only opens sockets of s, and closes any.           *)
Held(s, k) ==
    /\ k \in Calls
    /\ \A f \in FDs :
         /\ k.fds[f] = <<s, "progress">> => k.v.msgFd = f
         /\ k.fds[f] \in {<<s, "progress">>, <<s, "client">>, None, fds[f]}

LEMMA HereHeld == ASSUME TypeOK, NoChannelLeak, NEW s \in Services PROVE Held(s, Here(s))
<1>1. Here(s) \in Calls
  BY HereType
<1> QED BY <1>1 DEF Here, Held, NoChannelLeak

(* Closing what a service holds, or anything else. *)
LEMMA ClosedHeld ==
    ASSUME NEW s \in Services, NEW k, NEW o \in Calls, NEW closing, Held(s, k),
           o.fds = Close(k.fds, closing), o.v.msgFd = k.v.msgFd \/ k.v.msgFd \in closing \cup {NoFd}
    PROVE  Held(s, o)
<1>1. \A f \in FDs : o.fds[f] = IF f \in closing THEN None ELSE k.fds[f]
  BY DEF Close
<1>2. <<s, "progress">> # None
  BY NoneAssumption DEF Owners
<1> QED BY <1>1, <1>2, NoFdType DEF Held

LEMMA StopHeld == ASSUME NEW s \in Services, NEW k, Held(s, k) PROVE Held(s, Stop(k))
<1>1. k \in Calls /\ Stop(k) \in Calls
  BY StopType DEF Held
<1>2. CASE StopRaises(k)
  <2>1. Stop(k).fds = Close(k.fds, {k.v.clientFd})
    BY <1>1, <1>2 DEF Stop, Calls
  <2> QED BY <1>1, <1>2, <2>1, ClosedHeld DEF StopRaises
<1>3. CASE ~StopRaises(k)
  <2>1. Stop(k).fds = Close(k.fds, {k.v.clientFd, k.v.msgFd})
    BY <1>3 DEF Stop
  <2> QED BY <1>1, <2>1, ClosedHeld
<1> QED BY <1>2, <1>3

(* What changes neither msg_fd nor the table. *)
LEMMA SameHeld ==
    ASSUME NEW s \in Services, NEW k, NEW o \in Calls, Held(s, k), o.fds = k.fds, o.v.msgFd = k.v.msgFd
    PROVE  Held(s, o)
BY DEF Held

LEMMA CancelHeld == ASSUME NEW s \in Services, NEW k, Held(s, k) PROVE Held(s, CancelUpdate(k))
<1>1. Held(s, Stop(k)) /\ Stop(k) \in Calls /\ CancelUpdate(k) \in Calls
  BY StopHeld, StopType, CancelType DEF Held
<1>2. CASE StopRaises(k)
  BY <1>1, <1>2 DEF CancelUpdate
<1>3. CASE ~StopRaises(k)
  <2>1. CancelUpdate(k) = [Stop(k) EXCEPT !.v = [Stop(k).v EXCEPT !.status = "NotUpdating"]]
    BY <1>3 DEF CancelUpdate
  <2>2. /\ CancelUpdate(k).fds = Stop(k).fds
        /\ CancelUpdate(k).v = [Stop(k).v EXCEPT !.status = "NotUpdating"]
    BY <1>1, <2>1 DEF Calls
  <2>3. CancelUpdate(k).v.msgFd = Stop(k).v.msgFd
    BY <1>1, <2>2 DEF Calls, ServiceState
  <2> QED BY <1>1, <2>2, <2>3, SameHeld
<1> QED BY <1>2, <1>3

LEMMA AfterRaiseHeld ==
    ASSUME NEW s \in Services, NEW k, NEW api, Held(s, k)
    PROVE  Held(s, AfterRaise(api, k))
BY CancelHeld DEF AfterRaise

(* A socket on a free descriptor: a progress channel only when none is held. *)
LEMMA OpenIpcHeld ==
    ASSUME NEW s \in Services, NEW k, NEW fault, NEW o \in OpenIpc(s, k, fault), Held(s, k)
    PROVE  Held(s, o)
<1>1. k \in Calls /\ o \in Calls
  BY OpenIpcType DEF Held
<1>2. CASE o = k
  BY <1>2
<1>3. ASSUME k.v.msgFd = NoFd,
             NEW f \in Free(k.fds), o = [k EXCEPT !.v.msgFd = f, !.fds[f] = <<s, "progress">>]
      PROVE  Held(s, o)
  <2>1. f \in FDs /\ k.fds \in [FDs -> Owners \cup {None}]
    BY <1>1, FreeType DEF Calls
  <2>2. o.fds = [k.fds EXCEPT ![f] = <<s, "progress">>] /\ o.v = [k.v EXCEPT !.msgFd = f]
    BY <1>1, <1>3 DEF Calls
  <2>3. o.v.msgFd = f
    BY <1>1, <2>2 DEF Calls, ServiceState
  <2>4. \A g \in FDs : k.fds[g] # <<s, "progress">>
    BY <1>3, NoFdType DEF Held
  <2> QED BY <1>1, <2>1, <2>2, <2>3, <2>4 DEF Held
<1> QED BY <1>2, <1>3 DEF OpenIpc

LEMMA PreparedHeld ==
    ASSUME NEW s \in Services, NEW k, NEW o \in Prepared(s, k), Held(s, k)
    PROVE  Held(s, o)
<1>1. PICK f \in Free(k.fds) : o = [k EXCEPT !.v.clientFd = f, !.fds[f] = <<s, "client">>]
  BY DEF Prepared
<1>2. k \in Calls /\ o \in Calls /\ o.v.msgFd = k.v.msgFd
  BY PreparedType DEF Held
<1>3. f \in FDs /\ k.fds \in [FDs -> Owners \cup {None}]
  BY <1>2, FreeType DEF Calls
<1>4. o.fds = [k.fds EXCEPT ![f] = <<s, "client">>]
  BY <1>1, <1>2 DEF Calls
<1>5. \A g \in FDs : o.fds[g] = IF g = f THEN <<s, "client">> ELSE k.fds[g]
  BY <1>3, <1>4
<1> QED BY <1>2, <1>5 DEF Held

LEMMA MonitorHeld ==
    ASSUME NEW s \in Services, NEW k, Held(s, k), k.v.msgFd # NoFd
    PROVE  Held(s, Monitor(s, k))
<1>1. k \in Calls /\ k.v.msgFd \in FDs
  BY DEF Held, Calls, ServiceState
<1>2. /\ Monitor(s, k).v = [k.v EXCEPT !.inProgress = TRUE, !.status = "Updating"]
      /\ Monitor(s, k).fds = k.fds
      /\ Monitor(s, k).readers = [k.readers EXCEPT ![k.v.msgFd] = s]
      /\ Monitor(s, k) = [v |-> Monitor(s, k).v, fds |-> k.fds, readers |-> Monitor(s, k).readers]
  BY DEF Monitor
<1>3. Monitor(s, k).v \in ServiceState /\ Monitor(s, k).v.msgFd = k.v.msgFd
  BY <1>1, <1>2 DEF Calls, ServiceState, Statuses
<1>4. Monitor(s, k).readers \in [FDs -> Services \cup {None}]
  BY <1>1, <1>2 DEF Calls
<1>5. Monitor(s, k) \in Calls
  BY <1>1, <1>2, <1>3, <1>4 DEF Calls
<1> QED BY <1>2, <1>3, <1>5, SameHeld

LEMMA ClearedHeld == ASSUME NEW s \in Services, NEW k, Held(s, k) PROVE Held(s, Cleared(k))
<1>1. k \in Calls
  BY DEF Held
<1>2. [k.v EXCEPT !.url = None, !.image = None] \in ServiceState
  BY <1>1 DEF Calls, ServiceState
<1>3. /\ Cleared(k).v = [k.v EXCEPT !.url = None, !.image = None]
      /\ Cleared(k).fds = k.fds /\ Cleared(k) \in Calls
  BY <1>1, <1>2 DEF Cleared, Calls
<1>4. Cleared(k).v.msgFd = k.v.msgFd
  BY <1>1, <1>3 DEF Calls, ServiceState
<1> QED BY <1>3, <1>4, SameHeld

LEMMA PrepareFailedHeld ==
    ASSUME NEW s \in Services, NEW k, Held(s, k), NEW o \in PrepareFailed(k)
    PROVE  Held(s, o)
<1>1. PICK e \in PrepareErrors : o = Cleared([k EXCEPT !.v.clientFd = e])
  BY DEF PrepareFailed
<1>2. DEFINE c == [k EXCEPT !.v.clientFd = e]
<1>3. e \in {NoFd, 0} /\ k \in Calls
  BY ErrorsAssumption DEF NoFd, Held
<1>4. c.v = [k.v EXCEPT !.clientFd = e] /\ c.readers = k.readers /\ c.fds = k.fds
  BY <1>3 DEF Calls
<1>5. c.v \in ServiceState /\ c.v.msgFd = k.v.msgFd
  BY <1>3, <1>4 DEF Calls, ServiceState
<1>6. c \in Calls
  BY <1>3, <1>4, <1>5 DEF Calls
<1>7. Held(s, c)
  BY <1>4, <1>5, <1>6, SameHeld
<1> QED BY <1>1, <1>7, ClearedHeld

(* The outcomes of start_update after its await. *)
LEMMA OutcomesHeld ==
    ASSUME NEW s \in Services, NEW k, Held(s, k), NEW o \in Returns(s, k) \cup Raises(s, k)
    PROVE  Held(s, o)
<1>1. \A c \in Opened(s, k) \cup Refused(s, k) : Held(s, c)
  BY OpenIpcHeld DEF Opened, Refused
<1>2. CASE o \in Returns(s, k)
  <2>1. PICK c \in Opened(s, k) :
          o \in {Monitor(s, p) : p \in IF c.v.url # None THEN {c} ELSE Prepared(s, c)}
    BY <1>2 DEF Returns
  <2>2. Held(s, c) /\ c.v.msgFd # NoFd /\ c \in Calls
    BY <1>1, <2>1 DEF Opened, Held
  <2>3. ASSUME NEW p \in Prepared(s, c)
        PROVE  Held(s, Monitor(s, p))
    BY <2>2, PreparedHeld, PreparedType, MonitorHeld
  <2> QED BY <2>1, <2>2, <2>3, MonitorHeld
<1>3. CASE o \in Raises(s, k)
  <2>1. ASSUME NEW c \in Opened(s, k),
               o \in IF c.v.url = None THEN PrepareFailed(c) ELSE {d \in {c} : "popen" \in Faults}
        PROVE  Held(s, o)
    BY <1>1, <2>1, PrepareFailedHeld
  <2>2. ASSUME NEW c \in Refused(s, k), o = Cleared(c)
        PROVE  Held(s, o)
    BY <1>1, <2>2, ClearedHeld
  <2> QED BY <1>3, <2>1, <2>2 DEF Raises
<1> QED BY <1>2, <1>3

(* A call leaves no channel of its service unheld, and opens none for the other. *)
LEMMA BecomesHeld ==
    ASSUME TypeOK, NoChannelLeak, NEW s \in Services, NEW k, Held(s, k), Becomes(s, k)
    PROVE  NoChannelLeak'
<1>1. svc'[s] = k.v /\ (\A r \in Services \ {s} : svc'[r] = svc[r]) /\ fds' = k.fds
  BY DEF Becomes, TypeOK
<1>2. SUFFICES ASSUME NEW r \in Services, NEW f \in FDs, k.fds[f] = <<r, "progress">>
               PROVE  svc'[r].msgFd = f
  BY <1>1 DEF NoChannelLeak
<1>3. CASE r = s
  BY <1>1, <1>2, <1>3 DEF Held
<1>4. CASE r # s
  <2>1. <<r, "progress">> # None /\ <<r, "progress">> # <<s, "progress">> /\ <<r, "progress">> # <<s, "client">>
    BY <1>4, NoneAssumption DEF Owners
  <2>2. fds[f] = <<r, "progress">>
    BY <1>2, <2>1 DEF Held
  <2> QED BY <1>1, <1>4, <2>2 DEF NoChannelLeak
<1> QED BY <1>3, <1>4

LEMMA BeginStartHeld ==
    ASSUME TypeOK, NoChannelLeak, NEW t, NEW api, NEW u \in Urls \cup {None},
           NEW i \in Images \cup {None}, BeginStart(t, api, u, i)
    PROVE  NoChannelLeak'
<1> DEFINE s == Service(api)
           v == [svc[s] EXCEPT !.url = IF u # None THEN u ELSE @,
                               !.image = IF i # None THEN i ELSE @]
           k == [Here(s) EXCEPT !.v = v]
<1>1. s \in Services
  BY ServiceType
<1>2. Held(s, Here(s)) /\ Here(s) \in Calls /\ svc[s] \in ServiceState
  BY <1>1, HereHeld, HereType DEF TypeOK
<1>3. v \in ServiceState /\ v.msgFd = svc[s].msgFd
  BY <1>2 DEF ServiceState
<1>4. k \in Calls /\ k.v = v /\ k.fds = fds /\ Here(s).fds = fds /\ Here(s).v = svc[s]
  BY <1>2, <1>3 DEF Here, Calls
<1>5. Held(s, k)
  BY <1>1, <1>2, <1>3, <1>4, SameHeld
<1>6. Becomes(s, AfterRaise(api, Cleared(k))) \/ Becomes(s, k)
  BY DEF BeginStart
<1>7. Held(s, AfterRaise(api, Cleared(k)))
  BY <1>1, <1>5, ClearedHeld, AfterRaiseHeld
<1> QED BY <1>1, <1>5, <1>6, <1>7, BecomesHeld

LEMMA ReopenHeld ==
    ASSUME TypeOK, NoChannelLeak, NEW s \in Services, Reopen(s)
    PROVE  NoChannelLeak'
<1> DEFINE m == svc[s].msgFd
           closed == [v |-> [svc[s] EXCEPT !.msgFd = NoFd], fds |-> [fds EXCEPT ![m] = None],
                      readers |-> [readers EXCEPT ![m] = None]]
<1>1. m # NoFd
  BY DEF Reopen
<1>2. PICK k \in OpenIpc(s, closed, "reopen") :
        Becomes(s, IF k.v.msgFd = NoFd THEN k ELSE [k EXCEPT !.readers[k.v.msgFd] = s])
  BY DEF Reopen
<1>3. /\ Held(s, Here(s)) /\ svc[s] \in ServiceState /\ m \in FDs
      /\ fds \in [FDs -> Owners \cup {None}] /\ readers \in [FDs -> Services \cup {None}]
  BY <1>1, HereHeld DEF TypeOK, ServiceState
<1>4. /\ closed.v = [svc[s] EXCEPT !.msgFd = NoFd]
      /\ closed.fds = [fds EXCEPT ![m] = None]
      /\ closed.readers = [readers EXCEPT ![m] = None]
  OBVIOUS
<1>5. closed.v \in ServiceState /\ closed.v.msgFd = NoFd
  BY <1>3, <1>4 DEF ServiceState
<1>6. closed \in Calls
  BY <1>3, <1>4, <1>5 DEF Calls
<1>7. \A f \in FDs : closed.fds[f] # <<s, "progress">> /\ closed.fds[f] \in {None, fds[f]}
  BY <1>3, <1>4, NoneAssumption DEF Owners, NoChannelLeak
<1> HIDE DEF closed
<1>8. Held(s, closed)
  BY <1>6, <1>7 DEF Held
<1>9. Held(s, k) /\ k \in Calls
  BY <1>2, <1>8, OpenIpcHeld DEF Held
<1>10. CASE k.v.msgFd = NoFd
  BY <1>2, <1>9, <1>10, BecomesHeld
<1>11. CASE k.v.msgFd # NoFd
  <2> DEFINE w == [k EXCEPT !.readers[k.v.msgFd] = s]
  <2>1. k.v.msgFd \in FDs /\ k.readers \in [FDs -> Services \cup {None}]
    BY <1>9, <1>11 DEF Calls, ServiceState
  <2>2. w.v = k.v /\ w.fds = k.fds /\ w.readers = [k.readers EXCEPT ![k.v.msgFd] = s]
    BY <1>9 DEF Calls
  <2>3. w \in Calls
    BY <1>9, <2>1, <2>2 DEF Calls
  <2>4. Held(s, w)
    BY <1>9, <2>2, <2>3, SameHeld
  <2> QED BY <1>2, <1>11, <2>4, BecomesHeld
<1> QED BY <1>10, <1>11

LEMMA VerdictHeld ==
    ASSUME TypeOK, NoChannelLeak, NEW s \in Services, NEW verdict \in Verdicts, Verdict(s, verdict)
    PROVE  NoChannelLeak'
<1> DEFINE v == [svc[s] EXCEPT !.status = verdict]
           k == [Here(s) EXCEPT !.v.status = verdict]
<1>1. Becomes(s, Stop(k)) /\ Held(s, Here(s)) /\ svc[s] \in ServiceState
  BY HereHeld DEF Verdict, TypeOK
<1>2. k = [v |-> v, fds |-> fds, readers |-> readers] /\ Here(s).v = svc[s] /\ Here(s).fds = fds
  BY DEF Here
<1>3. v \in ServiceState /\ v.msgFd = svc[s].msgFd
  BY <1>1 DEF ServiceState, Statuses, Verdicts
<1>4. k \in Calls
  BY <1>2, <1>3 DEF TypeOK, Calls
<1>5. Held(s, k)
  BY <1>1, <1>2, <1>3, <1>4, SameHeld
<1> QED BY <1>1, <1>5, StopHeld, BecomesHeld

LEMMA ChannelStep == ASSUME TypeOK, NoChannelLeak, [Next]_vars PROVE NoChannelLeak'
<1>1. ASSUME UNCHANGED <<svc, fds>> PROVE NoChannelLeak'
  BY <1>1 DEF NoChannelLeak
<1>2. ASSUME NEW t \in Tasks, AtRun(t) \/ V2Put(t) PROVE NoChannelLeak'
  BY <1>2, BeginStartHeld DEF AtRun, V2Put
<1>3. ASSUME NEW t \in Tasks, LegacyMedia(t) PROVE NoChannelLeak'
  BY <1>1, <1>3, BeginStartHeld DEF LegacyMedia
<1>4. ASSUME NEW s \in Services, Becomes(s, CancelUpdate(Here(s))) PROVE NoChannelLeak'
  BY <1>4, HereHeld, CancelHeld, BecomesHeld
<1>5. ASSUME NEW t \in Tasks, SideKnown(t) \/ SideFails(t) PROVE NoChannelLeak'
  <2> DEFINE api == task[t].api
             s == Service(api)
  <2>1. s \in Services /\ Held(s, Here(s))
    BY ServiceType, HereHeld
  <2>2. ASSUME NEW k \in Returns(s, Here(s)) \cup Raises(s, Here(s)) \cup {Here(s)},
               Becomes(s, k) \/ Becomes(s, AfterRaise(api, k))
        PROVE  NoChannelLeak'
    <3>1. Held(s, k) /\ Held(s, AfterRaise(api, k))
      BY <2>1, OutcomesHeld, AfterRaiseHeld
    <3> QED BY <2>1, <2>2, <3>1, BecomesHeld
  <2>3. CASE SideKnown(t)
    BY <2>2, <2>3 DEF SideKnown
  <2>4. CASE SideFails(t)
    BY <2>2, <2>4 DEF SideFails
  <2> QED BY <1>5, <2>3, <2>4
<1>6. ASSUME NEW t \in Tasks, LegacyPost(t) \/ UploadBegin(t) \/ UploadEnd(t) PROVE NoChannelLeak'
  BY <1>1, <1>6 DEF LegacyPost, UploadBegin, UploadEnd
<1>7. ASSUME NEW api \in Apis, Cancel(api) PROVE NoChannelLeak'
  BY <1>4, <1>7, ServiceType DEF Cancel
<1>8. CASE AtSendLast
  <2>1. "at" \in Services
    BY DEF Services
  <2> QED BY <1>4, <1>8, <2>1 DEF AtSendLast
<1>9. ASSUME NEW s \in Services, Reopen(s) PROVE NoChannelLeak'
  BY <1>9, ReopenHeld
<1>10. ASSUME NEW s \in Services, NEW v \in Verdicts, Verdict(s, v) PROVE NoChannelLeak'
  BY <1>10, VerdictHeld
<1> QED BY <1>1, <1>2, <1>3, <1>5, <1>6, <1>7, <1>8, <1>9, <1>10 DEF Next, Request, Resume, Event, vars

(* Starts that fail after open_ipc, second starts, cancels and lost channels, of two *)
(* services that share a descriptor table, never leave a progress channel open that   *)
(* its service does not hold.                                                         *)
THEOREM ChannelsHeld == Spec => []NoChannelLeak
<1>1. Init => NoChannelLeak
  BY NoneAssumption DEF Init, NoChannelLeak, Owners
<1>2. TypeOK /\ NoChannelLeak /\ [Next]_vars => NoChannelLeak'
  BY ChannelStep
<1> QED BY <1>1, <1>2, Typing, PTL DEF Spec

-----------------------------------------------------------------------------
(* Descriptors of a service's own.  In the call record of s: what s holds is open and  *)
(* its own, a client's socket goes with a channel, and an update in progress is        *)
(* watched; what belongs to the other service is left alone.                           *)
Others(s, k) ==
    \A f \in FDs, r \in Services \ {s} :
        /\ fds[f] \in {<<r, "progress">>, <<r, "client">>} => k.fds[f] = fds[f]
        /\ readers[f] = r => k.readers[f] = r /\ k.fds[f] = <<r, "progress">>

Sole(s, k) ==
    /\ k \in Calls
    /\ k.v.inProgress => k.v.msgFd \in FDs /\ k.readers[k.v.msgFd] = s
    /\ k.v.msgFd \in FDs => k.fds[k.v.msgFd] = <<s, "progress">>
    /\ k.v.clientFd \in FDs => k.fds[k.v.clientFd] = <<s, "client">> /\ k.v.msgFd # NoFd
    /\ Others(s, k)

(* The status says whether an update is in progress. *)
Told(k) == k.v.status = "Updating" <=> k.v.inProgress

(* With the invariants above, the one for ChannelHeld: a service without a channel has *)
(* no client's socket either, which is what makes a stop that raises harmless.         *)
NoLoneClient == \A s \in Services : svc[s].clientFd \in FDs => svc[s].msgFd # NoFd
OwnInv == IInv /\ UpdatingIsWatched /\ OwnDescriptors /\ NoLoneClient

LEMMA OwnersDiffer ==
    ASSUME NEW s \in Services, NEW r \in Services
    PROVE  /\ <<r, "progress">> # None /\ <<r, "client">> # None /\ <<r, "progress">> # <<s, "client">>
           /\ r # s => <<r, "progress">> # <<s, "progress">> /\ <<r, "client">> # <<s, "client">>
BY NoneAssumption DEF Owners

LEMMA HereSole ==
    ASSUME OwnInv, NEW s \in Services
    PROVE  Sole(s, Here(s)) /\ Told(Here(s))
<1>1. Here(s) \in Calls /\ Here(s).v = svc[s] /\ Here(s).fds = fds /\ Here(s).readers = readers
  BY HereType DEF OwnInv, IInv, Here
<1>2. Others(s, Here(s))
  BY <1>1 DEF Others, OwnInv, IInv, HandlersBelong, OwnDescriptors
<1> QED BY <1>1, <1>2 DEF Sole, Told, OwnInv, UpdatingIsWatched, OwnDescriptors, NoLoneClient, Watched

LEMMA SameOthers ==
    ASSUME NEW s, NEW k, NEW o, Others(s, k), o.fds = k.fds, o.readers = k.readers
    PROVE  Others(s, o)
BY DEF Others

(* What changes neither tables nor descriptors nor update_in_progress. *)
LEMMA SameSole ==
    ASSUME NEW s \in Services, NEW k, NEW o \in Calls, Sole(s, k), o.fds = k.fds, o.readers = k.readers,
           o.v.msgFd = k.v.msgFd, o.v.clientFd \in {k.v.clientFd, NoFd, 0}, o.v.inProgress = k.v.inProgress
    PROVE  Sole(s, o)
BY FDsAssumption DEF Sole, Others, NoFd

LEMMA StopSole ==
    ASSUME NEW s \in Services, NEW k, Sole(s, k)
    PROVE  Sole(s, Stop(k)) /\ Stop(k).v.inProgress = FALSE /\ Stop(k).v.status = k.v.status
<1>1. k \in Calls /\ Stop(k) \in Calls /\ k.fds \in [FDs -> Owners \cup {None}]
  BY StopType DEF Sole, Calls
<1>2. CASE StopRaises(k)
  <2>1. /\ Stop(k).readers = k.readers /\ Stop(k).v = [k.v EXCEPT !.inProgress = FALSE]
        /\ Stop(k).fds = Close(k.fds, {k.v.clientFd})
    BY <1>1, <1>2 DEF Stop, Calls
  <2>2. /\ Stop(k).v.inProgress = FALSE /\ Stop(k).v.status = k.v.status
        /\ Stop(k).v.msgFd = k.v.msgFd /\ Stop(k).v.clientFd = k.v.clientFd
    BY <1>1, <2>1 DEF Calls, ServiceState
  <2>3. k.v.clientFd \notin FDs
    BY <1>2 DEF StopRaises, Sole
  <2>4. Close(k.fds, {k.v.clientFd}) = k.fds
    BY <1>1, <2>3 DEF Close
  <2>5. Stop(k).fds = k.fds
    BY <2>1, <2>4
  <2>6. Others(s, Stop(k))
    BY <2>1, <2>5, SameOthers DEF Sole
  <2> QED BY <1>1, <2>2, <2>3, <2>5, <2>6 DEF Sole
<1>3. CASE ~StopRaises(k)
  <2>1. /\ Stop(k).v = Reset(k.v.status) /\ Stop(k).fds = Close(k.fds, {k.v.clientFd, k.v.msgFd})
        /\ Stop(k).readers = [k.readers EXCEPT ![k.v.msgFd] = None]
    BY <1>3 DEF Stop
  <2>2. /\ Stop(k).v.inProgress = FALSE /\ Stop(k).v.status = k.v.status
        /\ Stop(k).v.msgFd = NoFd /\ Stop(k).v.clientFd = NoFd
    BY <2>1 DEF Reset
  <2>3. \A f \in FDs : Stop(k).fds[f] = IF f \in {k.v.clientFd, k.v.msgFd} THEN None ELSE k.fds[f]
    BY <2>1 DEF Close
  <2>4. \A f \in FDs : Stop(k).readers[f] = IF f = k.v.msgFd THEN None ELSE k.readers[f]
    BY <1>1, <2>1 DEF Calls
  <2>5. \A f \in {k.v.clientFd, k.v.msgFd} \cap FDs : k.fds[f] \in {<<s, "progress">>, <<s, "client">>}
    BY DEF Sole
  <2>6. Others(s, Stop(k))
    <3> SUFFICES ASSUME NEW f \in FDs, NEW r \in Services \ {s}
                 PROVE  /\ fds[f] \in {<<r, "progress">>, <<r, "client">>} => Stop(k).fds[f] = fds[f]
                        /\ readers[f] = r => Stop(k).readers[f] = r /\ Stop(k).fds[f] = <<r, "progress">>
      BY DEF Others
    <3>1. k.fds[f] \in {<<r, "progress">>, <<r, "client">>} => f \notin {k.v.clientFd, k.v.msgFd}
      BY <2>5, OwnersDiffer
    <3> QED BY <2>3, <2>4, <3>1 DEF Sole, Others
  <2> QED BY <1>1, <2>2, <2>6, NoFdType DEF Sole
<1> QED BY <1>2, <1>3

LEMMA CancelSole ==
    ASSUME NEW s \in Services, NEW k, Sole(s, k), Told(k)
    PROVE  Sole(s, CancelUpdate(k)) /\ Told(CancelUpdate(k))
<1>1. /\ Sole(s, Stop(k)) /\ Stop(k).v.inProgress = FALSE /\ Stop(k).v.status = k.v.status
      /\ Stop(k) \in Calls /\ CancelUpdate(k) \in Calls
  BY StopSole, StopType, CancelType DEF Sole
<1>2. CASE StopRaises(k)
  <2>1. ~k.v.inProgress
    BY <1>2, NoFdType DEF StopRaises, Sole
  <2> QED BY <1>1, <1>2, <2>1 DEF CancelUpdate, Told
<1>3. CASE ~StopRaises(k)
  <2>1. CancelUpdate(k) = [Stop(k) EXCEPT !.v = [Stop(k).v EXCEPT !.status = "NotUpdating"]]
    BY <1>3 DEF CancelUpdate
  <2>2. /\ CancelUpdate(k).fds = Stop(k).fds /\ CancelUpdate(k).readers = Stop(k).readers
        /\ CancelUpdate(k).v = [Stop(k).v EXCEPT !.status = "NotUpdating"]
    BY <1>1, <2>1 DEF Calls
  <2>3. /\ CancelUpdate(k).v.msgFd = Stop(k).v.msgFd /\ CancelUpdate(k).v.clientFd = Stop(k).v.clientFd
        /\ CancelUpdate(k).v.inProgress = FALSE /\ CancelUpdate(k).v.status = "NotUpdating"
    BY <1>1, <2>2 DEF Calls, ServiceState
  <2> QED BY <1>1, <2>2, <2>3, SameSole DEF Told
<1> QED BY <1>2, <1>3

LEMMA AfterRaiseSole ==
    ASSUME NEW s \in Services, NEW k, NEW api, Sole(s, k), Told(k)
    PROVE  Sole(s, AfterRaise(api, k)) /\ Told(AfterRaise(api, k))
BY CancelSole DEF AfterRaise

LEMMA ClearedSole ==
    ASSUME NEW s \in Services, NEW k, Sole(s, k), Told(k)
    PROVE  Sole(s, Cleared(k)) /\ Told(Cleared(k))
<1>1. k \in Calls
  BY DEF Sole
<1>2. [k.v EXCEPT !.url = None, !.image = None] \in ServiceState
  BY <1>1 DEF Calls, ServiceState
<1>3. /\ Cleared(k).v = [k.v EXCEPT !.url = None, !.image = None]
      /\ Cleared(k).fds = k.fds /\ Cleared(k).readers = k.readers /\ Cleared(k) \in Calls
  BY <1>1, <1>2 DEF Cleared, Calls
<1>4. /\ Cleared(k).v.msgFd = k.v.msgFd /\ Cleared(k).v.clientFd = k.v.clientFd
      /\ Cleared(k).v.inProgress = k.v.inProgress /\ Cleared(k).v.status = k.v.status
  BY <1>1, <1>3 DEF Calls, ServiceState
<1> QED BY <1>3, <1>4, SameSole DEF Told

(* A call puts a socket of its own, and nothing else, on a free descriptor. *)
LEMMA NewSole ==
    ASSUME NEW s \in Services, NEW k, NEW o, NEW f \in Free(k.fds), NEW own, Others(s, k),
           \A g \in FDs : o.fds[g] = IF g = f THEN own ELSE k.fds[g],
           o.readers = k.readers
    PROVE  Others(s, o)
<1>1. SUFFICES ASSUME NEW g \in FDs, NEW r \in Services \ {s}
               PROVE  /\ fds[g] \in {<<r, "progress">>, <<r, "client">>} => o.fds[g] = fds[g]
                      /\ readers[g] = r => o.readers[g] = r /\ o.fds[g] = <<r, "progress">>
  BY DEF Others
<1>2. k.fds[f] = None
  BY DEF Free
<1>3. k.fds[g] \in {<<r, "progress">>, <<r, "client">>} => g # f
  BY <1>2, OwnersDiffer
<1> QED BY <1>3 DEF Others

LEMMA OpenIpcSole ==
    ASSUME NEW s \in Services, NEW k, NEW fault, NEW o \in OpenIpc(s, k, fault), Sole(s, k), Told(k)
    PROVE  Sole(s, o) /\ Told(o)
<1>1. k \in Calls /\ o \in Calls
  BY OpenIpcType DEF Sole
<1>2. CASE o = k
  BY <1>2
<1>3. ASSUME k.v.msgFd = NoFd,
             NEW f \in Free(k.fds), o = [k EXCEPT !.v.msgFd = f, !.fds[f] = <<s, "progress">>]
      PROVE  Sole(s, o) /\ Told(o)
  <2>1. /\ o.fds = [k.fds EXCEPT ![f] = <<s, "progress">>] /\ o.v = [k.v EXCEPT !.msgFd = f]
        /\ o.readers = k.readers
    BY <1>1, <1>3 DEF Calls
  <2>2. /\ o.v.msgFd = f /\ o.v.clientFd = k.v.clientFd
        /\ o.v.inProgress = k.v.inProgress /\ o.v.status = k.v.status
    BY <1>1, <2>1 DEF Calls, ServiceState
  <2>3. f \in FDs /\ \A g \in FDs : o.fds[g] = IF g = f THEN <<s, "progress">> ELSE k.fds[g]
    BY <1>1, <2>1, FreeType DEF Calls
  <2>4. Others(s, o)
    <3>1. Others(s, k) /\ o.readers = k.readers
      BY <2>1 DEF Sole
    <3> QED BY <2>3, <3>1, NewSole
  <2>5. ~k.v.inProgress /\ k.v.clientFd \notin FDs
    BY <1>3, NoFdType DEF Sole
  <2> QED BY <1>1, <2>2, <2>3, <2>4, <2>5 DEF Sole, Told
<1> QED BY <1>2, <1>3 DEF OpenIpc

LEMMA PreparedSole ==
    ASSUME NEW s \in Services, NEW k, NEW o \in Prepared(s, k), Sole(s, k), Told(k), k.v.msgFd # NoFd
    PROVE  Sole(s, o) /\ Told(o)
<1>1. PICK f \in Free(k.fds) : o = [k EXCEPT !.v.clientFd = f, !.fds[f] = <<s, "client">>]
  BY DEF Prepared
<1>2. /\ k \in Calls /\ o \in Calls /\ o.readers = k.readers /\ o.v.msgFd = k.v.msgFd
      /\ o.v.inProgress = k.v.inProgress /\ o.v.status = k.v.status
  BY PreparedType DEF Sole
<1>3. o.fds = [k.fds EXCEPT ![f] = <<s, "client">>] /\ o.v = [k.v EXCEPT !.clientFd = f]
  BY <1>1, <1>2 DEF Calls
<1>4. o.v.clientFd = f
  BY <1>2, <1>3 DEF Calls, ServiceState
<1>5. f \in FDs /\ k.fds[f] = None /\ \A g \in FDs : o.fds[g] = IF g = f THEN <<s, "client">> ELSE k.fds[g]
  BY <1>2, <1>3 DEF Free, Calls
<1>6. Others(s, o)
  BY <1>2, <1>5, NewSole DEF Sole
<1>7. <<s, "progress">> # None
  BY OwnersDiffer
<1> QED BY <1>2, <1>4, <1>5, <1>6, <1>7 DEF Sole, Told

LEMMA MonitorSole ==
    ASSUME NEW s \in Services, NEW k, Sole(s, k), k.v.msgFd # NoFd
    PROVE  Sole(s, Monitor(s, k)) /\ Told(Monitor(s, k))
<1>1. k \in Calls /\ k.v.msgFd \in FDs /\ k.readers \in [FDs -> Services \cup {None}]
  BY DEF Sole, Calls, ServiceState
<1>2. /\ Monitor(s, k).v = [k.v EXCEPT !.inProgress = TRUE, !.status = "Updating"]
      /\ Monitor(s, k).readers = [k.readers EXCEPT ![k.v.msgFd] = s]
      /\ Monitor(s, k).fds = k.fds
      /\ Monitor(s, k) = [v |-> Monitor(s, k).v, fds |-> k.fds, readers |-> Monitor(s, k).readers]
  BY DEF Monitor
<1>3. /\ Monitor(s, k).v \in ServiceState
      /\ Monitor(s, k).v.inProgress = TRUE
      /\ Monitor(s, k).v.status = "Updating"
      /\ Monitor(s, k).v.msgFd = k.v.msgFd
      /\ Monitor(s, k).v.clientFd = k.v.clientFd
  BY <1>1, <1>2 DEF Calls, ServiceState, Statuses
<1>4. \A f \in FDs : Monitor(s, k).readers[f] = IF f = k.v.msgFd THEN s ELSE k.readers[f]
  BY <1>1, <1>2
<1>5. Monitor(s, k).readers \in [FDs -> Services \cup {None}]
  BY <1>1, <1>2
<1>6. Monitor(s, k) \in Calls
  BY <1>1, <1>2, <1>3, <1>5 DEF Calls
<1>7. Others(s, Monitor(s, k))
  <2> SUFFICES ASSUME NEW f \in FDs, NEW r \in Services \ {s}
               PROVE  /\ fds[f] \in {<<r, "progress">>, <<r, "client">>} => Monitor(s, k).fds[f] = fds[f]
                      /\ readers[f] = r => Monitor(s, k).readers[f] = r /\ Monitor(s, k).fds[f] = <<r, "progress">>
    BY DEF Others
  <2>1. k.fds[f] = <<r, "progress">> => f # k.v.msgFd
    BY <1>1, OwnersDiffer DEF Sole
  <2> QED BY <1>2, <1>4, <2>1 DEF Sole, Others
<1> QED BY <1>1, <1>2, <1>3, <1>4, <1>6, <1>7 DEF Sole, Told

LEMMA PrepareFailedSole ==
    ASSUME NEW s \in Services, NEW k, Sole(s, k), Told(k), NEW o \in PrepareFailed(k)
    PROVE  Sole(s, o) /\ Told(o)
<1>1. PICK e \in PrepareErrors : o = Cleared([k EXCEPT !.v.clientFd = e])
  BY DEF PrepareFailed
<1>2. DEFINE c == [k EXCEPT !.v.clientFd = e]
<1>3. e \in {NoFd, 0} /\ k \in Calls
  BY ErrorsAssumption DEF NoFd, Sole
<1>4. c.v = [k.v EXCEPT !.clientFd = e] /\ c.readers = k.readers /\ c.fds = k.fds
  BY <1>3 DEF Calls
<1>5. /\ c.v \in ServiceState /\ c.v.msgFd = k.v.msgFd /\ c.v.clientFd = e
      /\ c.v.inProgress = k.v.inProgress /\ c.v.status = k.v.status
  BY <1>3, <1>4 DEF Calls, ServiceState
<1>6. c \in Calls
  BY <1>3, <1>4, <1>5 DEF Calls
<1> HIDE DEF c
<1>7. Sole(s, c) /\ Told(c)
  BY <1>3, <1>4, <1>5, <1>6, SameSole DEF Told
<1> QED BY <1>1, <1>7, ClearedSole DEF c

(* The outcomes of start_update after its await. *)
LEMMA OutcomesSole ==
    ASSUME NEW s \in Services, NEW k, Sole(s, k), Told(k), NEW o \in Returns(s, k) \cup Raises(s, k)
    PROVE  Sole(s, o) /\ Told(o)
<1>1. \A c \in Opened(s, k) \cup Refused(s, k) : Sole(s, c) /\ Told(c)
  BY OpenIpcSole DEF Opened, Refused
<1>2. CASE o \in Returns(s, k)
  <2>1. PICK c \in Opened(s, k) :
          o \in {Monitor(s, p) : p \in IF c.v.url # None THEN {c} ELSE Prepared(s, c)}
    BY <1>2 DEF Returns
  <2>2. Sole(s, c) /\ Told(c) /\ c.v.msgFd # NoFd /\ c \in Calls
    BY <1>1, <2>1 DEF Opened, Sole
  <2>3. ASSUME NEW p \in Prepared(s, c)
        PROVE  Sole(s, Monitor(s, p)) /\ Told(Monitor(s, p))
    BY <2>2, PreparedSole, PreparedType, MonitorSole
  <2> QED BY <2>1, <2>2, <2>3, MonitorSole
<1>3. CASE o \in Raises(s, k)
  <2>1. ASSUME NEW c \in Opened(s, k),
               o \in IF c.v.url = None THEN PrepareFailed(c) ELSE {d \in {c} : "popen" \in Faults}
        PROVE  Sole(s, o) /\ Told(o)
    BY <1>1, <2>1, PrepareFailedSole
  <2>2. ASSUME NEW c \in Refused(s, k), o = Cleared(c)
        PROVE  Sole(s, o) /\ Told(o)
    BY <1>1, <2>2, ClearedSole
  <2> QED BY <1>3, <2>1, <2>2 DEF Raises
<1> QED BY <1>2, <1>3

(* What is left of OwnInv when a step is known to keep IInv. *)
OwnRest == UpdatingIsWatched /\ OwnDescriptors /\ NoLoneClient

LEMMA BecomesOwn ==
    ASSUME OwnInv, NEW s \in Services, NEW k, Sole(s, k), Told(k), Becomes(s, k)
    PROVE  OwnRest'
<1>1. svc'[s] = k.v /\ (\A r \in Services \ {s} : svc'[r] = svc[r]) /\ fds' = k.fds /\ readers' = k.readers
  BY DEF Becomes, OwnInv, IInv, TypeOK
<1>2. SUFFICES ASSUME NEW r \in Services
               PROVE  /\ svc'[r].status = "Updating" <=> svc'[r].inProgress
                      /\ svc'[r].inProgress => svc'[r].msgFd \in FDs /\ k.readers[svc'[r].msgFd] = r
                      /\ svc'[r].msgFd \in FDs => k.fds[svc'[r].msgFd] = <<r, "progress">>
                      /\ svc'[r].clientFd \in FDs => /\ k.fds[svc'[r].clientFd] = <<r, "client">>
                                                     /\ svc'[r].msgFd # NoFd
  BY <1>1 DEF OwnRest, UpdatingIsWatched, OwnDescriptors, NoLoneClient, Watched
<1>3. CASE r = s
  BY <1>1, <1>3 DEF Sole, Told
<1>4. CASE r # s
  <2>1. svc'[r] = svc[r]
    BY <1>1, <1>4
  <2>2. /\ svc[r].status = "Updating" <=> svc[r].inProgress
        /\ svc[r].inProgress => svc[r].msgFd \in FDs /\ readers[svc[r].msgFd] = r
        /\ svc[r].msgFd \in FDs => fds[svc[r].msgFd] = <<r, "progress">>
        /\ svc[r].clientFd \in FDs => fds[svc[r].clientFd] = <<r, "client">> /\ svc[r].msgFd # NoFd
    BY DEF OwnInv, UpdatingIsWatched, OwnDescriptors, NoLoneClient, Watched
  <2>3. \A f \in FDs : /\ fds[f] \in {<<r, "progress">>, <<r, "client">>} => k.fds[f] = fds[f]
                       /\ readers[f] = r => k.readers[f] = r
    BY <1>4 DEF Sole, Others
  <2> QED BY <2>1, <2>2, <2>3
<1> QED BY <1>3, <1>4

LEMMA BeginStartOwn ==
    ASSUME OwnInv, NEW t, NEW api, NEW u \in Urls \cup {None},
           NEW i \in Images \cup {None}, BeginStart(t, api, u, i)
    PROVE  OwnRest'
<1> DEFINE s == Service(api)
           v == [svc[s] EXCEPT !.url = IF u # None THEN u ELSE @,
                               !.image = IF i # None THEN i ELSE @]
           k == [Here(s) EXCEPT !.v = v]
<1>1. s \in Services
  BY ServiceType
<1>2. Sole(s, Here(s)) /\ Told(Here(s)) /\ Here(s) \in Calls /\ svc[s] \in ServiceState
  BY <1>1, HereSole, HereType DEF OwnInv, IInv, TypeOK
<1>3. /\ v \in ServiceState /\ v.msgFd = svc[s].msgFd /\ v.clientFd = svc[s].clientFd
      /\ v.inProgress = svc[s].inProgress /\ v.status = svc[s].status
  BY <1>2 DEF ServiceState
<1>4. /\ k \in Calls /\ k.v = v /\ k.fds = Here(s).fds /\ k.readers = Here(s).readers
      /\ Here(s).v = svc[s]
  BY <1>2, <1>3 DEF Here, Calls
<1>5. Sole(s, k) /\ Told(k)
  BY ZenonT(60), <1>1, <1>2, <1>3, <1>4, SameSole DEF Told
<1>6. Becomes(s, AfterRaise(api, Cleared(k))) \/ Becomes(s, k)
  BY DEF BeginStart
<1>7. Sole(s, AfterRaise(api, Cleared(k))) /\ Told(AfterRaise(api, Cleared(k)))
  BY <1>1, <1>5, ClearedSole, AfterRaiseSole
<1> QED BY <1>1, <1>5, <1>6, <1>7, BecomesOwn

(* The lowest of some descriptors. *)
LEMMA Lowest ==
    ASSUME NEW S \in SUBSET FDs, S # {}
    PROVE  \E f \in S : \A g \in S : f <= g
<1> DEFINE less == {ss \in Nat \X Nat : ss[1] < ss[2]}
<1>1. IsWellFoundedOn(less, Nat) /\ S \subseteq Nat
  BY NatLessThanWellFounded, FDsAssumption DEF OpToRel
<1>2. PICK f \in S : \A g \in S : ~(<<g, f>> \in less)
  BY <1>1, WFMin
<1>3. ASSUME NEW g \in S PROVE f <= g
  <2>1. g < f => <<g, f>> \in less
    BY <1>1
  <2> QED BY <1>1, <1>2, <2>1
<1> QED BY <1>3

(* When nothing fails, the channel that was lost leaves a free descriptor for the new one. *)
LEMMA ReopenOwn ==
    ASSUME OwnInv, "reopen" \notin Faults, NEW s \in Services, Reopen(s)
    PROVE  OwnRest'
<1> DEFINE m == svc[s].msgFd
           closed == [v |-> [svc[s] EXCEPT !.msgFd = NoFd], fds |-> [fds EXCEPT ![m] = None],
                      readers |-> [readers EXCEPT ![m] = None]]
<1>1. svc[s].inProgress /\ m # NoFd
  BY DEF Reopen
<1>2. PICK k \in OpenIpc(s, closed, "reopen") :
        Becomes(s, IF k.v.msgFd = NoFd THEN k ELSE [k EXCEPT !.readers[k.v.msgFd] = s])
  BY DEF Reopen
<1>3. /\ Sole(s, Here(s)) /\ Told(Here(s)) /\ Here(s).v = svc[s] /\ Here(s).fds = fds
      /\ Here(s).readers = readers /\ svc[s] \in ServiceState /\ m \in FDs
      /\ fds \in [FDs -> Owners \cup {None}] /\ readers \in [FDs -> Services \cup {None}]
  BY <1>1, HereSole DEF OwnInv, IInv, TypeOK, ServiceState, Here
<1>4. /\ closed.v = [svc[s] EXCEPT !.msgFd = NoFd]
      /\ closed.fds = [fds EXCEPT ![m] = None]
      /\ closed.readers = [readers EXCEPT ![m] = None]
  OBVIOUS
<1>5. /\ closed.v \in ServiceState /\ closed.v.msgFd = NoFd /\ closed.v.clientFd = svc[s].clientFd
      /\ closed.v.inProgress = TRUE /\ closed.v.status = "Updating"
  BY <1>1, <1>3, <1>4 DEF ServiceState, Told
<1>6. closed \in Calls
  BY <1>3, <1>4, <1>5 DEF Calls
<1>7. \A f \in FDs : /\ closed.fds[f] = IF f = m THEN None ELSE fds[f]
                     /\ closed.readers[f] = IF f = m THEN None ELSE readers[f]
  BY <1>3, <1>4
<1> HIDE DEF closed
<1>8. fds[m] = <<s, "progress">> /\ (svc[s].clientFd \in FDs => fds[svc[s].clientFd] = <<s, "client">>)
  BY <1>3 DEF Sole
<1>9. Others(s, closed)
  <2> SUFFICES ASSUME NEW g \in FDs, NEW r \in Services \ {s}
               PROVE  /\ fds[g] \in {<<r, "progress">>, <<r, "client">>} => closed.fds[g] = fds[g]
                      /\ readers[g] = r => closed.readers[g] = r /\ closed.fds[g] = <<r, "progress">>
    BY DEF Others
  <2>1. fds[g] \in {<<r, "progress">>, <<r, "client">>} => g # m
    BY <1>8, OwnersDiffer
  <2>2. readers[g] = r => fds[g] = <<r, "progress">>
    BY <1>3 DEF Sole, Others
  <2> QED BY <1>7, <2>1, <2>2
<1>10. Free(closed.fds) # {}
  <2>1. PICK f \in {g \in FDs : closed.fds[g] = None} :
          \A g \in {h \in FDs : closed.fds[h] = None} : f <= g
    BY <1>3, <1>7, Lowest
  <2> QED BY <2>1 DEF Free
<1>11. PICK f \in Free(closed.fds) : k = [closed EXCEPT !.v.msgFd = f, !.fds[f] = <<s, "progress">>]
  BY <1>2, <1>5, <1>10 DEF OpenIpc
<1>12. f \in FDs /\ k \in Calls /\ f # NoFd /\ closed.fds[f] = None
  BY <1>2, <1>6, OpenIpcType, NoFdType DEF Free
<1>13. /\ k.fds = [closed.fds EXCEPT ![f] = <<s, "progress">>] /\ k.v = [closed.v EXCEPT !.msgFd = f]
       /\ k.readers = closed.readers
  BY <1>6, <1>11 DEF Calls
<1>14. /\ k.v.msgFd = f /\ k.v.clientFd = svc[s].clientFd
       /\ k.v.inProgress = TRUE /\ k.v.status = "Updating"
  BY <1>5, <1>13 DEF ServiceState
<1>15. \A g \in FDs : k.fds[g] = IF g = f THEN <<s, "progress">> ELSE closed.fds[g]
  BY <1>6, <1>12, <1>13 DEF Calls
<1>16. Others(s, k)
  <2> SUFFICES ASSUME NEW g \in FDs, NEW r \in Services \ {s}
               PROVE  /\ fds[g] \in {<<r, "progress">>, <<r, "client">>} => k.fds[g] = fds[g]
                      /\ readers[g] = r => k.readers[g] = r /\ k.fds[g] = <<r, "progress">>
    BY DEF Others
  <2>1. closed.fds[g] \in {<<r, "progress">>, <<r, "client">>} => g # f
    BY <1>12, OwnersDiffer
  <2>2. k.readers = closed.readers
    BY <1>13
  <2> QED BY <1>9, <1>15, <2>1, <2>2 DEF Others
<1> DEFINE w == [k EXCEPT !.readers[k.v.msgFd] = s]
<1>17. w.v = k.v /\ w.fds = k.fds /\ w.readers = [k.readers EXCEPT ![f] = s]
  BY <1>12, <1>14 DEF Calls
<1>18. w \in Calls /\ \A g \in FDs : w.readers[g] = IF g = f THEN s ELSE k.readers[g]
  BY <1>12, <1>17 DEF Calls
<1>19. Becomes(s, w)
  BY <1>2, <1>12, <1>14
<1> HIDE DEF w
<1>20. Others(s, w)
  <2> SUFFICES ASSUME NEW g \in FDs, NEW r \in Services \ {s}
               PROVE  /\ fds[g] \in {<<r, "progress">>, <<r, "client">>} => w.fds[g] = fds[g]
                      /\ readers[g] = r => w.readers[g] = r /\ w.fds[g] = <<r, "progress">>
    BY DEF Others
  <2>1. k.fds[g] = <<r, "progress">> => g # f
    BY <1>12, <1>15, OwnersDiffer
  <2> QED BY <1>16, <1>17, <1>18, <2>1 DEF Others
<1>21. svc[s].clientFd \in FDs => w.fds[svc[s].clientFd] = <<s, "client">>
  <2>1. SUFFICES ASSUME svc[s].clientFd \in FDs PROVE w.fds[svc[s].clientFd] = <<s, "client">>
    OBVIOUS
  <2>2. <<s, "client">> # None /\ <<s, "client">> # <<s, "progress">>
    BY OwnersDiffer
  <2>3. closed.fds[svc[s].clientFd] = <<s, "client">>
    BY <1>7, <1>8, <2>1, <2>2
  <2> QED BY <1>12, <1>15, <1>17, <2>1, <2>2, <2>3
<1>22. Sole(s, w) /\ Told(w)
  BY <1>12, <1>14, <1>15, <1>17, <1>18, <1>20, <1>21 DEF Sole, Told
<1> QED BY <1>19, <1>22, BecomesOwn

LEMMA VerdictOwn ==
    ASSUME OwnInv, NEW s \in Services, NEW verdict \in Verdicts, Verdict(s, verdict)
    PROVE  OwnRest'
<1> DEFINE v == [svc[s] EXCEPT !.status = verdict]
           k == [Here(s) EXCEPT !.v.status = verdict]
<1>1. Becomes(s, Stop(k)) /\ Sole(s, Here(s)) /\ svc[s] \in ServiceState
  BY HereSole DEF Verdict, OwnInv, IInv, TypeOK
<1>2. /\ k = [v |-> v, fds |-> fds, readers |-> readers]
      /\ Here(s).v = svc[s] /\ Here(s).fds = fds /\ Here(s).readers = readers
  BY DEF Here
<1>3. /\ v \in ServiceState /\ v.msgFd = svc[s].msgFd /\ v.clientFd = svc[s].clientFd
      /\ v.inProgress = svc[s].inProgress /\ v.status = verdict
  BY <1>1 DEF ServiceState, Statuses, Verdicts
<1>4. k \in Calls /\ k.v = v /\ k.fds = Here(s).fds /\ k.readers = Here(s).readers
  BY <1>2, <1>3 DEF OwnInv, IInv, TypeOK, Calls
<1> HIDE DEF k, v
<1>5. Sole(s, k)
  BY <1>1, <1>2, <1>3, <1>4, SameSole
<1>6. Sole(s, Stop(k)) /\ Told(Stop(k))
  BY <1>3, <1>4, <1>5, StopSole DEF Told, Verdicts
<1> QED BY <1>1, <1>6, BecomesOwn DEF k

LEMMA OwnStep == ASSUME "reopen" \notin Faults, OwnInv, [Next]_vars PROVE OwnInv'
<1>1. ASSUME UNCHANGED <<svc, fds, readers>> PROVE OwnRest'
  BY <1>1 DEF OwnRest, OwnInv, UpdatingIsWatched, OwnDescriptors, NoLoneClient, Watched
<1>2. ASSUME NEW t \in Tasks, AtRun(t) \/ V2Put(t) PROVE OwnRest'
  BY <1>2, BeginStartOwn DEF AtRun, V2Put
<1>3. ASSUME NEW t \in Tasks, LegacyMedia(t) PROVE OwnRest'
  BY <1>1, <1>3, BeginStartOwn DEF LegacyMedia
<1>4. ASSUME NEW s \in Services, Becomes(s, CancelUpdate(Here(s))) PROVE OwnRest'
  BY <1>4, HereSole, CancelSole, BecomesOwn
<1>5. ASSUME NEW t \in Tasks, SideKnown(t) \/ SideFails(t) PROVE OwnRest'
  <2> DEFINE api == task[t].api
             s == Service(api)
  <2>1. s \in Services /\ Sole(s, Here(s)) /\ Told(Here(s))
    BY ServiceType, HereSole
  <2>2. ASSUME NEW k \in Returns(s, Here(s)) \cup Raises(s, Here(s)) \cup {Here(s)},
               Becomes(s, k) \/ Becomes(s, AfterRaise(api, k))
        PROVE  OwnRest'
    <3>1. Sole(s, k) /\ Told(k) /\ Sole(s, AfterRaise(api, k)) /\ Told(AfterRaise(api, k))
      BY <2>1, OutcomesSole, AfterRaiseSole
    <3> QED BY <2>1, <2>2, <3>1, BecomesOwn
  <2>3. CASE SideKnown(t)
    BY <2>2, <2>3 DEF SideKnown
  <2>4. CASE SideFails(t)
    BY <2>2, <2>4 DEF SideFails
  <2> QED BY <1>5, <2>3, <2>4
<1>6. ASSUME NEW t \in Tasks, LegacyPost(t) \/ UploadBegin(t) \/ UploadEnd(t) PROVE OwnRest'
  BY <1>1, <1>6 DEF LegacyPost, UploadBegin, UploadEnd
<1>7. ASSUME NEW api \in Apis, Cancel(api) PROVE OwnRest'
  BY <1>4, <1>7, ServiceType DEF Cancel
<1>8. ASSUME AtSendLast PROVE OwnRest'
  <2>1. "at" \in Services
    BY DEF Services
  <2> QED BY <1>4, <1>8, <2>1 DEF AtSendLast
<1>9. ASSUME NEW s \in Services, Reopen(s) PROVE OwnRest'
  BY <1>9, ReopenOwn
<1>10. ASSUME NEW s \in Services, NEW v \in Verdicts, Verdict(s, v) PROVE OwnRest'
  BY <1>10, VerdictOwn
<1>11. OwnRest'
  BY <1>1, <1>2, <1>3, <1>5, <1>6, <1>7, <1>8, <1>9, <1>10 DEF Next, Request, Resume, Event, vars
<1>12. IInv'
  BY NextStep DEF OwnInv
<1> QED BY <1>11, <1>12 DEF OwnInv, OwnRest

LEMMA InitOwn == Init => OwnInv
<1> SUFFICES ASSUME Init PROVE OwnInv
  OBVIOUS
<1>1. \A s \in Services : svc[s] = Reset("NotUpdating")
  BY DEF Init
<1>2. OwnRest
  BY <1>1, NoFdType DEF OwnRest, UpdatingIsWatched, OwnDescriptors, NoLoneClient, Watched, Reset
<1> QED BY <1>2, InitIInv DEF OwnInv, OwnRest

(* While a lost channel can be reopened, an update that is reported is watched, and a *)
(* service only holds descriptors that are open and its own: no chunk, no close and no *)
(* handler of one front end ever hits the update of another, for any tasks and any      *)
(* other failures.                                                                      *)
THEOREM ChannelsOwned == ASSUME "reopen" \notin Faults PROVE Spec => []ChannelHeld
<1>1. OwnInv => ChannelHeld
  BY DEF OwnInv, IInv, ChannelHeld
<1>2. OwnInv /\ [Next]_vars => OwnInv'
  BY OwnStep
<1> QED BY <1>1, <1>2, InitOwn, PTL DEF Spec
=============================================================================
