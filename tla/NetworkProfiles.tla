---------------------------- MODULE NetworkProfiles ----------------------------
(***************************************************************************)
(* The operations on connection profiles of NetworkService, as the v2 and  *)
(* the legacy resources and the AT commands call them.                     *)
(*                                                                         *)
(* A request is a coroutine that suspends in every D-Bus call.  What it    *)
(* has still to do is a stack of stages; a stage is one call, or a scan:   *)
(* the list of the profiles and then the settings of each.  A method that  *)
(* calls another pushes the stages of that one.                            *)
(*                                                                         *)
(* ipv4, ipv6 and proxy are filled like the connection section, 802-1x     *)
(* like the wireless ones: they are left out.  So are bridges, which are   *)
(* activated without a device.                                             *)
(***************************************************************************)
EXTENDS NetworkManager

CONSTANTS
    Clients,           \* REST clients and the AT interface, one request each at a time
    Requests,          \* client -> the requests it makes
    Reserved,          \* the names of the factory profiles, RESERVED_NM_CONNECTIONS_DIR
    MaxRequests,       \* bound: requests ever made
    MaxPolls           \* looks for a change of activation before giving up, 5 in the code

ASSUME LimitsAssumption == MaxRequests \in Nat /\ MaxPolls \in Nat

(* A request has an operation and may name a profile; some bring settings. *)
Ops == {"get", "post", "put", "patch", "delete", "list", "plain", "save", "activate", "deactivate",
        "at activate", "at deactivate", "at create", "at update", "at delete"}
ASSUME RequestsAssumption ==
    \A c \in Clients : \A q \in Requests[c] :
        /\ {"op", "uuid", "id"} \subseteq DOMAIN q /\ DOMAIN q \subseteq {"op", "uuid", "id", "new", "act", "over"}
        /\ q.op \in Ops /\ {q.uuid, q.id} \subseteq STRING
        /\ "new" \in DOMAIN q => IsDictionary(q.new)
        /\ "act" \in DOMAIN q => q.act \in {"none", "on", "off"}
        /\ "over" \in DOMAIN q => q.over \in BOOLEAN

VARIABLES
    rq,                \* client -> its request
    defaults,          \* the NM_SETTING_*_DEFAULTS, which the answers are made of
    made               \* requests made so far

profileVars == <<rq, defaults, made>>

(* Where a request is: the stages left, and what it knows. *)
Idle == [op |-> "none", uuid |-> "", id |-> "", new |-> Deleted, act |-> "none", over |-> FALSE,
         todo |-> <<>>, listed |-> FALSE, scan |-> {}, exists |-> FALSE, path |-> 0, conn |-> 0, got |-> Deleted,
         polls |-> 0, sections |-> {}, entries |-> {}, answer |-> Deleted, wrote |-> FALSE, reply |-> "none"]

Init ==
    /\ NMInit
    /\ rq = [c \in Clients |-> Idle]
    /\ defaults = Deleted
    /\ made = 0

Busy(c) == rq[c].todo # <<>>
At(c, stage) == Busy(c) /\ Head(rq[c].todo) = stage
Is(c, r) == rq' = [rq EXCEPT ![c] = r]

Done(r) == [r EXCEPT !.todo = Tail(@), !.listed = FALSE, !.scan = {}]
Then(r, stages) == [Done(r) EXCEPT !.todo = stages \o @]
Stop(r, reply) == [r EXCEPT !.todo = <<>>, !.listed = FALSE, !.scan = {}, !.reply = reply]
Onward(r) == IF Len(r.todo) = 1 THEN Stop(r, "ok") ELSE Done(r)

-----------------------------------------------------------------------------
(* The methods, as the stages they go through. *)

(* get_connection_profile_settings, extended. *)
GetStages == <<"hasUuid", "path", "fill", "details", "isActive">>

ActivateStages == <<"hasUuid", "path", "settings", "device", "activate">>
DeactivateStages == <<"deactivate", "release">>

(* Mutant of UpdateStages: the profile is written before its name is looked at. *)
UpdateStagesLate(r) ==
      (IF r.uuid = "" THEN <<"uuidOfId">> ELSE <<>>)
   \o <<"path", "settings", "write">>
   \o (IF r.uuid # "" /\ r.act = "none" THEN <<"idOfUuid">> ELSE <<>>) \o GetStages

(* update_connection_profile: a factory profile is looked for by name, and only when *)
(* the request does not activate or deactivate.                                      *)
UpdateStages(r) ==
      (IF r.uuid = "" THEN <<"uuidOfId">> ELSE IF r.act = "none" THEN <<"idOfUuid">> ELSE <<>>)
   \o <<"path", "settings", "write">>
   \o (CASE r.act = "on" -> ActivateStages \o <<"poll">>
         [] r.act = "off" -> DeactivateStages \o <<"poll">>
         [] OTHER -> <<>>)
   \o GetStages

DeleteStages(r) ==
    (IF r.uuid = "" THEN <<"uuidOfId">> ELSE <<"idOfUuid">>) \o <<"hasUuid", "path", "delete">>

CreateStages(r) ==
      <<"hasNewId">>
   \o (IF "uuid" \in DOMAIN r.new THEN <<"hasNewUuid">> ELSE <<>>)
   \o <<"add", "readNew">> \o GetStages

Creating(r) ==
    IF "id" \notin DOMAIN r.new THEN Stop(r, "error")
    ELSE IF r.new["id"] \in Reserved THEN Stop(r, "reserved")
    ELSE Then(r, CreateStages(r))

(* What the handlers of the resources and commands do first. *)
GetByUuid == GetStages
GetById == <<"uuidOfId">> \o GetStages
Post == <<"freshId">>
PutByUuid == <<"existsUuid">>
PutById(r) == IF r.new["id"] # r.id THEN <<"freshId", "existsId">> ELSE <<"existsId">>
PatchByUuid(r) == UpdateStages(r)
PatchById(r) ==
    (IF "id" \in DOMAIN r.new /\ r.new["id"] # r.id THEN <<"freshId">> ELSE <<>>) \o UpdateStages(r)
DeleteByUuid(r) == DeleteStages(r)
DeleteById(r) == DeleteStages(r)
LegacyList == <<"list">>
LegacyGet == <<"plain", "isActive">>
LegacySave == <<"match">>
LegacyActivate(r) == IF r.op = "activate" THEN ActivateStages ELSE DeactivateStages
AtActivate == <<"nameOrUuid">>
AtModify(r) == IF r.op = "at create" THEN <<"create">> ELSE <<"nameOrUuid">>

Opening(r) ==
    CASE r.op = "get" -> IF r.uuid # "" THEN GetByUuid ELSE GetById
      [] r.op = "post" -> Post
      [] r.op = "put" -> IF r.uuid # "" THEN PutByUuid ELSE PutById(r)
      [] r.op = "patch" -> IF r.uuid # "" THEN PatchByUuid(r) ELSE PatchById(r)
      [] r.op = "delete" -> IF r.uuid # "" THEN DeleteByUuid(r) ELSE DeleteById(r)
      [] r.op = "list" -> LegacyList
      [] r.op = "plain" -> LegacyGet
      [] r.op = "save" -> LegacySave
      [] r.op \in {"activate", "deactivate"} -> LegacyActivate(r)
      [] r.op \in {"at activate", "at deactivate"} -> AtActivate
      [] OTHER -> AtModify(r)

(* v2 answers 400 to a UUID that contradicts the path, or that is given to POST. *)
Contradicts(r) ==
    /\ r.op \in {"post", "put", "patch"} /\ "uuid" \in DOMAIN r.new
    /\ r.op = "post" \/ (r.uuid # "" /\ r.new["uuid"] # r.uuid)

(* PUT completes the profile with what the path says. *)
Completed(r) ==
    IF r.op # "put" THEN r.new
    ELSE Over(r.new, IF r.uuid # "" THEN [uuid |-> r.uuid] ELSE [id |-> r.id])

Begin(c) ==
    /\ ~Busy(c) /\ made < MaxRequests /\ made' = made + 1
    /\ \E q \in Requests[c] :
          LET new == [x \in DOMAIN Idle |-> IF x \in DOMAIN q THEN q[x] ELSE Idle[x]]
              r == [new EXCEPT !.new = Completed(new)]
          IN  IF Contradicts(r) THEN Is(c, Stop(r, "bad"))
              ELSE IF r.op = "at create" THEN Is(c, Creating([r EXCEPT !.todo = <<"create">>]))
              ELSE Is(c, [r EXCEPT !.todo = Opening(r)])
    /\ UNCHANGED <<nm, defaults>>

-----------------------------------------------------------------------------
(* Scans.  get_all_connection_profiles leaves out what it cannot read and what *)
(* belongs to an unmanaged device; the other scans fail on a profile that is   *)
(* deleted while they run.                                                     *)
Strict == {"freshId", "existsId", "existsUuid", "hasNewId", "hasNewUuid", "hasUuid", "plain"}
Tolerant == {"uuidOfId", "idOfUuid", "nameOrUuid", "match", "list"}
Scanning(c) == Busy(c) /\ Head(rq[c].todo) \in Strict \cup Tolerant
First(scan) == CHOOSE p \in scan : \A q \in scan : p <= q
Listed(p) == Exists(p) /\ ("iface" \in DOMAIN profiles[p] => profiles[p]["iface"] \notin Unmanaged)

Matches(r, s) ==
    CASE Head(r.todo) \in {"uuidOfId", "existsId"} -> s["id"] = r.id
      [] Head(r.todo) = "nameOrUuid" -> s["id"] = r.uuid
      [] Head(r.todo) \in {"freshId", "hasNewId"} -> "id" \in DOMAIN r.new /\ s["id"] = r.new["id"]
      [] Head(r.todo) = "hasNewUuid" -> s["uuid"] = r.new["uuid"]
      [] Head(r.todo) = "match" -> s["id"] = r.new["id"] \/ (r.uuid # "" /\ s["uuid"] = r.uuid)
      [] Head(r.todo) = "list" -> FALSE
      [] OTHER -> s["uuid"] = r.uuid

(* Mutant of Guarded: deleting is not guarded. *)
GuardedUpdates(r) == r.op \in {"put", "patch"} /\ r.act = "none"

(* A factory profile is protected from what would change it. *)
Guarded(r) == r.op = "delete" \/ (r.op \in {"put", "patch"} /\ r.act = "none")

(* The AT commands take a name or a UUID. *)
AsUuid(r) ==
    CASE r.op = "at activate" -> Then(r, ActivateStages)
      [] r.op = "at deactivate" -> Then(r, DeactivateStages)
      [] r.op = "at update" -> Then(r, UpdateStages(r))
      [] r.op = "at delete" -> Then(r, DeleteStages(r))

Found(r, s) ==
    CASE Head(r.todo) = "freshId" -> Stop(r, "bad")
      [] Head(r.todo) \in {"existsId", "existsUuid"} -> Then(r, UpdateStages(r))
      [] Head(r.todo) = "hasNewId" -> IF r.over THEN Done(r) ELSE Stop(r, "error")
      [] Head(r.todo) = "hasNewUuid" ->
            IF r.over THEN LET u == [r EXCEPT !.uuid = r.new["uuid"]] IN Then(u, DeleteStages(u))
            ELSE Stop(r, "error")
      [] Head(r.todo) = "uuidOfId" ->
            IF Guarded(r) /\ r.id \in Reserved THEN Stop(r, "reserved")
            ELSE [Done(r) EXCEPT !.uuid = s["uuid"]]
      [] Head(r.todo) = "idOfUuid" -> IF s["id"] \in Reserved THEN Stop(r, "reserved") ELSE Done(r)
      [] Head(r.todo) = "nameOrUuid" -> AsUuid([r EXCEPT !.uuid = s["uuid"]])
      [] Head(r.todo) = "hasUuid" -> Done(r)
      [] Head(r.todo) = "plain" -> [Done(r) EXCEPT !.got = s, !.answer = s]
      [] Head(r.todo) = "match" ->
            IF s["id"] = r.new["id"] /\ r.uuid # "" /\ s["uuid"] # r.uuid THEN Stop(r, "error")
            ELSE [r EXCEPT !.scan = @ \ {First(@)}, !.exists = @ \/ s["uuid"] = r.uuid, !.uuid = s["uuid"]]

(* A legacy POST updates the profile whose UUID it gives, else it makes a new one. *)
Matched(r) ==
    IF r.exists THEN Then(r, UpdateStages(r))
    ELSE Creating([r EXCEPT !.new = IF r.uuid = "" THEN @ ELSE Over(@, [uuid |-> r.uuid])])

NotFound(r) ==
    CASE Head(r.todo) \in {"freshId", "hasNewId", "hasNewUuid"} ->
            IF r.op = "post" /\ Head(r.todo) = "freshId" THEN Creating(r) ELSE Done(r)
      [] Head(r.todo) = "existsId" -> IF r.new["id"] # r.id THEN Stop(r, "bad") ELSE Creating(r)
      [] Head(r.todo) = "existsUuid" -> Creating(r)
      [] Head(r.todo) = "match" -> Matched(r)
      [] Head(r.todo) = "nameOrUuid" -> AsUuid(r)
      [] Head(r.todo) = "list" -> Stop(r, "ok")
      [] OTHER -> Stop(r, "notfound")

ListProfiles(c) ==
    /\ Scanning(c) /\ ~rq[c].listed
    /\ Is(c, [rq[c] EXCEPT !.listed = TRUE, !.scan = {p \in Paths : Exists(p)}])
    /\ UNCHANGED <<nm, defaults, made>>

(* An entry of the list tells whether the profile was activated when it was read. *)
Entry(p) == [uuid |-> profiles[p]["uuid"], activated |-> \E a \in Of(p) : activations[a].state = "activated"]

ReadProfile(c) ==
    /\ Scanning(c) /\ rq[c].listed /\ rq[c].scan # {}
    /\ LET r == rq[c]
           p == First(r.scan)
           onward == [r EXCEPT !.scan = @ \ {p}]
       IN  IF Head(r.todo) \in Strict /\ ~Exists(p) THEN Is(c, Stop(r, "error"))
           ELSE IF Head(r.todo) \in Tolerant /\ ~Listed(p) THEN Is(c, onward)
           ELSE IF Head(r.todo) = "list" THEN Is(c, [onward EXCEPT !.entries = @ \cup {Entry(p)}])
           ELSE IF Matches(r, profiles[p]) THEN Is(c, Found(r, profiles[p]))
           ELSE Is(c, onward)
    /\ UNCHANGED <<nm, defaults, made>>

EndOfList(c) ==
    /\ Scanning(c) /\ rq[c].listed /\ rq[c].scan = {}
    /\ Is(c, NotFound(rq[c]))
    /\ UNCHANGED <<nm, defaults, made>>

-----------------------------------------------------------------------------
(* The other calls. *)
Path(c) ==
    /\ At(c, "path")
    /\ Is(c, IF PathsOf(rq[c].uuid) = {} THEN Stop(rq[c], "error")
             ELSE [Done(rq[c]) EXCEPT !.path = CHOOSE p \in PathsOf(rq[c].uuid) : TRUE])
    /\ UNCHANGED <<nm, defaults, made>>

Settings(c) ==
    /\ At(c, "settings")
    /\ Is(c, IF ~Exists(rq[c].path) THEN Stop(rq[c], "error")
             ELSE [Done(rq[c]) EXCEPT !.got = profiles[rq[c].path]])
    /\ UNCHANGED <<nm, defaults, made>>

(* A call that changes something fails, and with it the request, if it is refused. *)
Called(c, accepted) ==
    /\ Is(c, IF accepted THEN [Onward(rq[c]) EXCEPT !.wrote = TRUE] ELSE Stop(rq[c], "error"))
    /\ UNCHANGED <<defaults, made>>

Write(c) ==
    /\ At(c, "write")
    /\ LET s == Merged(rq[c].got, rq[c].new) IN
          /\ Called(c, MayUpdate(rq[c].path, s))
          /\ IF MayUpdate(rq[c].path, s) THEN UpdateConnection(rq[c].path, s) ELSE UNCHANGED nm

Delete(c) ==
    /\ At(c, "delete")
    /\ Called(c, Exists(rq[c].path))
    /\ IF Exists(rq[c].path) THEN DeleteConnection(rq[c].path) ELSE UNCHANGED nm

Add(c) ==
    /\ At(c, "add")
    /\ IF MayAdd(rq[c].new)
       THEN /\ AddConnection(rq[c].new)
            /\ Is(c, [Done(rq[c]) EXCEPT !.wrote = TRUE, !.path = Len(profiles')])
       ELSE Is(c, Stop(rq[c], "error")) /\ UNCHANGED nm
    /\ UNCHANGED <<defaults, made>>

ReadNew(c) ==
    /\ At(c, "readNew")
    /\ Is(c, IF ~Exists(rq[c].path) THEN Stop(rq[c], "error")
             ELSE [Done(rq[c]) EXCEPT !.uuid = profiles[rq[c].path]["uuid"]])
    /\ UNCHANGED <<nm, defaults, made>>

(* The device the profile names is looked for among those there are. *)
Device(c) ==
    /\ At(c, "device")
    /\ Is(c, IF "iface" \in DOMAIN rq[c].got /\ rq[c].got["iface"] \in present THEN Done(rq[c])
             ELSE Stop(rq[c], "error"))
    /\ UNCHANGED <<nm, defaults, made>>

Activate(c) ==
    /\ At(c, "activate")
    /\ LET accepted == MayActivate(rq[c].path, rq[c].got["iface"]) IN
          /\ Called(c, accepted)
          /\ IF accepted THEN ActivateConnection(rq[c].path, rq[c].got["iface"]) ELSE UNCHANGED nm

(* get_active_connection_obj_path: what is gone meanwhile is passed over. *)
ActiveOf(uuid) == {a \in ActivePaths : Alive(a) /\ profiles[activations[a].path]["uuid"] = uuid}

Deactivate(c) ==
    /\ At(c, "deactivate")
    /\ Is(c, IF ActiveOf(rq[c].uuid) = {} THEN Stop(rq[c], "inactive")
             ELSE [Done(rq[c]) EXCEPT !.conn = CHOOSE a \in ActiveOf(rq[c].uuid) : TRUE])
    /\ UNCHANGED <<nm, defaults, made>>

Release(c) ==
    /\ At(c, "release")
    /\ Called(c, Alive(rq[c].conn))
    /\ IF Alive(rq[c].conn) THEN DeactivateConnection(rq[c].conn) ELSE UNCHANGED nm

(* Mutant of Polled: the looks are not counted. *)
PolledForever(r, active) == IF active = (r.act = "on") THEN Done(r) ELSE r

(* After 0.1 s it looks again. *)
Polled(r, active) ==
    IF active = (r.act = "on") THEN Done(r)
    ELSE IF r.polls = MaxPolls THEN Stop(r, "error")
    ELSE [r EXCEPT !.polls = @ + 1]

Poll(c) ==
    /\ At(c, "poll")
    /\ Is(c, Polled(rq[c], ActiveOf(rq[c].uuid) # {}))
    /\ UNCHANGED <<nm, defaults, made>>

-----------------------------------------------------------------------------
(* get_extended_connection_settings.  A section of the answer is not a copy: it is *)
(* the dictionary of the defaults itself, in which the profile's values are put.   *)
Filled(s, sections) ==
    Over(Only(s, UNION {SectionKeys[t] : t \in sections}), defaults)

Fill(c) ==
    /\ At(c, "fill")
    /\ LET p == rq[c].path IN
          IF Exists(p)
          THEN /\ defaults' = Filled(profiles[p], {"connection"})
               /\ Is(c, [Done(rq[c]) EXCEPT !.got = profiles[p], !.sections = {"connection"}])
          ELSE Is(c, Stop(rq[c], "error")) /\ UNCHANGED defaults
    /\ UNCHANGED <<nm, made>>

(* The sections a Wi-Fi profile has as well; the type is read from the dictionary. *)
TypeSections == IF defaults["type"] = "wifi" THEN {"wireless", "security"} ELSE {}
Typed(c) ==
    /\ defaults' = Filled(rq[c].got, TypeSections)
    /\ Is(c, [Done(rq[c]) EXCEPT !.sections = @ \cup TypeSections])

ListActive(c) ==
    /\ At(c, "details") /\ ~rq[c].listed
    /\ Is(c, [rq[c] EXCEPT !.listed = TRUE, !.scan = {a \in ActivePaths : Alive(a)}])
    /\ UNCHANGED <<nm, defaults, made>>

(* The activation of the profile is looked for; one that is gone is an error. *)
ReadActive(c) ==
    /\ At(c, "details") /\ rq[c].listed /\ rq[c].scan # {}
    /\ LET a == First(rq[c].scan) IN
          Is(c, IF ~Alive(a) THEN Stop(rq[c], "error")
                ELSE IF a \in ActiveOf(rq[c].uuid) THEN [Then(rq[c], <<"general", "addresses", "leases">>) EXCEPT !.conn = a]
                ELSE [rq[c] EXCEPT !.scan = @ \ {a}])
    /\ UNCHANGED <<nm, defaults, made>>

NotActive(c) ==
    /\ At(c, "details") /\ rq[c].listed /\ rq[c].scan = {}
    /\ Typed(c)
    /\ UNCHANGED <<nm, made>>

(* Its devices, its addresses, and its leases, which are left out if they are gone. *)
ExtractGeneral(c) ==
    /\ At(c, "general")
    /\ Is(c, IF Alive(rq[c].conn) THEN Done(rq[c]) ELSE Stop(rq[c], "error"))
    /\ UNCHANGED <<nm, defaults, made>>

ExtractAddresses(c) ==
    /\ At(c, "addresses")
    /\ Is(c, IF Alive(rq[c].conn) THEN Done(rq[c]) ELSE Stop(rq[c], "error"))
    /\ UNCHANGED <<nm, defaults, made>>

ExtractLeases(c) ==
    /\ At(c, "leases")
    /\ Typed(c)
    /\ UNCHANGED <<nm, made>>

IsActive(c) ==
    /\ At(c, "isActive")
    /\ LET r == rq[c] IN
          Is(c, [Onward(r) EXCEPT !.answer =
                    IF r.op = "plain" THEN @ ELSE Only(defaults, UNION {SectionKeys[t] : t \in r.sections})])
    /\ UNCHANGED <<nm, defaults, made>>

-----------------------------------------------------------------------------
RequestStep(c) ==
    \/ ListProfiles(c) \/ ReadProfile(c) \/ EndOfList(c)
    \/ Path(c) \/ Settings(c) \/ Write(c) \/ Delete(c) \/ Add(c) \/ ReadNew(c)
    \/ Device(c) \/ Activate(c) \/ Deactivate(c) \/ Release(c) \/ Poll(c)
    \/ Fill(c) \/ ListActive(c) \/ ReadActive(c) \/ NotActive(c) \/ ExtractGeneral(c)
    \/ ExtractAddresses(c) \/ ExtractLeases(c) \/ IsActive(c)

Next == (\E c \in Clients : Begin(c) \/ RequestStep(c)) \/ (NMNext /\ UNCHANGED profileVars)

vars == <<nm, profileVars>>
Spec == Init /\ [][Next]_vars

(* D-Bus calls are answered and the event loop resumes who waited for them. *)
FairSpec == Spec /\ \A c \in Clients : WF_vars(RequestStep(c))

-----------------------------------------------------------------------------
(* Type invariant. *)
TypeOK ==
    /\ \A c \in Clients : rq[c].path \in 0..Len(profiles) /\ rq[c].conn \in 0..Len(activations)
                        /\ rq[c].polls \in 0..MaxPolls /\ DOMAIN rq[c].answer \subseteq Keys
    /\ \A p \in Paths : Exists(p) => Complete(profiles[p])
    /\ \A a \in ActivePaths : Alive(a) => Exists(activations[a].path)
    /\ made \in 0..MaxRequests

(* A factory profile is changed or deleted only by a PATCH that activates or          *)
(* deactivates it, whatever another request does between the check of the name and    *)
(* the call.  (A PATCH that activates it and gives it another name as well ends its   *)
(* protection; such a PATCH is not among the requests that are checked.)              *)
FactoryKept ==
    [][\A p \in DOMAIN Stored : (Stored[p]["id"] \in Reserved /\ profiles'[p] # profiles[p])
          => \E c \in Clients : At(c, "write") /\ rq[c].act # "none"]_vars

(* As long as no request names the security section, the key management of a profile  *)
(* stays: an update replaces only what it names, also one that raced another.         *)
KeyMgmtStays ==
    [][\A p \in Paths : (Exists(p) /\ profiles'[p] # Deleted /\ "keymgmt" \in DOMAIN profiles[p])
          => "keymgmt" \in DOMAIN profiles'[p] /\ profiles'[p]["keymgmt"] = profiles[p]["keymgmt"]]_vars

(* A request that is refused as bad or for a factory profile has changed nothing. *)
RefusedUnwritten == \A c \in Clients : rq[c].reply \in {"bad", "reserved"} => ~rq[c].wrote
=============================================================================
