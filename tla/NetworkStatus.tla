---------------------------- MODULE NetworkStatus ----------------------------
(***************************************************************************)
(* The rest of NetworkService: the state of the interfaces, the access     *)
(* points, the radio and the virtual interface wlan1.  These requests run  *)
(* beside those that change profiles and activations.                      *)
(*                                                                         *)
(* A request walks through the devices NetworkManager listed; for each it  *)
(* reads the properties and then, one call after another, what they refer  *)
(* to.  An object that is gone meanwhile fails the request, except where   *)
(* the code catches it.                                                    *)
(***************************************************************************)
EXTENDS NetworkProfiles

CONSTANTS
    Readers,           \* the clients that make these requests
    Enquiries,         \* the requests: an operation and the interface it is about
    Beacon             \* access point -> [privacy, wpa, rsn], what it announces

VARIABLE rd            \* reader -> its request

Quiet == [op |-> "none", target |-> "", listed |-> FALSE, left |-> {}, calls |-> <<>>, dev |-> "",
          conn |-> 0, refs |-> {}, report |-> <<>>, polls |-> 0, reply |-> "none"]

StatusInit == Init /\ rd = [c \in Readers |-> Quiet]

Asking(c) == rd[c].op # "none" /\ rd[c].reply = "none"
Doing(c, call) == Asking(c) /\ rd[c].calls # <<>> /\ Head(rd[c].calls) = call
Becomes(c, r) == rd' = [rd EXCEPT ![c] = r]
Replied(r, reply) == [r EXCEPT !.reply = reply, !.calls = <<>>, !.left = {}, !.refs = {}]
CallDone(r) == [r EXCEPT !.calls = Tail(@)]

(* A call on an object that may be gone. *)
Strictly(r, there, after) == IF there THEN after ELSE Replied(r, "error")

-----------------------------------------------------------------------------
(* The security of an access point, and the key management to connect with. *)
AnyOf(flags, s) == flags \cap s # {}

(* Mutant of KeyMgmt: SAE alone adds nothing. *)
KeyMgmtNoSae(b) ==
    IF b.privacy /\ b.wpa = {} /\ b.rsn = {} THEN <<"static">>
    ELSE IF "psk" \in b.wpa \cup b.rsn THEN <<"wpa-psk">> ELSE <<>>

KeyMgmt(b) ==
    LET suite == {"suite-b-192", "gcmp-pair", "gcmp-group", "gmac-group"}
    IN  IF b.privacy /\ b.wpa = {} /\ b.rsn = {} THEN <<"static">>
        ELSE (IF AnyOf(b.rsn, {"owe", "owe-tm"}) THEN <<"owe">>
              ELSE IF b.wpa = {} /\ b.rsn = suite THEN <<"wpa-eap-suite-b-192">>
              ELSE IF "sae" \in b.rsn THEN <<"sae">> ELSE <<>>)
          \o (IF "802.1x" \in b.wpa \/ AnyOf(b.rsn, {"cckm", "suite-b", "802.1x"})
              THEN IF "suite-b" \in b.rsn THEN <<"wpa-eap-suite-b">> ELSE <<"wpa-eap">> ELSE <<>>)
          \o (IF "suite-b-192" \in b.wpa \cup b.rsn THEN <<"wpa-eap-suite-b-192">> ELSE <<>>)
          \o (IF "psk" \in b.wpa \cup b.rsn THEN <<"wpa-psk">> ELSE <<>>)

-----------------------------------------------------------------------------
(* What the handlers start with; the others walk through the devices. *)
LegacyRadio == <<"radioSet", "radioPoll">>                               \* AT+WENABLE as well
V2Radio == <<"radioIs", "radioSet", "radioPoll", "radioRead">>
Calls(op) ==
    CASE op \in {"add", "remove", "sysfs"} -> <<op>>
      [] op = "disable" -> LegacyRadio
      [] op \in {"v2 enable", "v2 disable"} -> V2Radio
      [] OTHER -> <<>>
Walks(op) == Calls(op) = <<>>
Enabled(r) == r.op = "v2 enable"

StatusBegin(c) ==
    /\ ~Asking(c) /\ made < MaxRequests /\ made' = made + 1
    /\ \E q \in Enquiries :
          Becomes(c, [Quiet EXCEPT !.op = q.op, !.target = q.target, !.calls = Calls(q.op)])
    /\ UNCHANGED <<nm, rq, defaults>>

-----------------------------------------------------------------------------
(* The walk through the devices. *)
Walking(c) == Asking(c) /\ Walks(rd[c].op) /\ rd[c].calls = <<>>

ListDevices(c) ==
    /\ Walking(c) /\ ~rd[c].listed
    /\ Becomes(c, [rd[c] EXCEPT !.listed = TRUE, !.left = present])
    /\ UNCHANGED nm

ConnOn(d) == IF On(d) = {} THEN 0 ELSE CHOOSE a \in On(d) : TRUE

(* get_status: what is read of a device in the state it was found in. *)
StatusCalls(d) ==
    LET activated == DeviceState(d) = "activated" IN
       (IF activated THEN <<"connection", "profile", "ip4", "ip6", "dhcp">> ELSE <<>>)
    \o (IF d \notin Wifi THEN <<"wired">> ELSE IF activated THEN <<"wireless", "accessPoint">> ELSE <<"wireless">>)

Entered(r, d) ==
    Over([x \in {d} |-> [state |-> DeviceState(d), conn |-> ConnOn(d), path |-> 0, ip |-> FALSE]], r.report)

StatusOf(r, d) ==
    IF DeviceState(d) = "unmanaged" THEN r
    ELSE [r EXCEPT !.report = Entered(r, d), !.calls = StatusCalls(d), !.conn = ConnOn(d)]

(* The second look at the one device.  The connections that could be activated on it *)
(* are those made for it or for any device.                                          *)
DetailOf(r, d) ==
    IF d # r.target THEN r
    ELSE [r EXCEPT !.calls = <<"activeConnection", "available">>, !.conn = ConnOn(d), !.left = {},
                   !.refs = {p \in Paths : Exists(p) /\ ("iface" \in DOMAIN profiles[p] => profiles[p]["iface"] = d)}]

(* get_all_interfaces. *)
NameOf(r, d) == IF DeviceState(d) = "unmanaged" THEN r ELSE [r EXCEPT !.report = Entered(r, d)]

Examined(r, d) ==
    CASE r.op \in {"status", "interface"} -> StatusOf(r, d)
      [] r.op = "again" -> DetailOf(r, d)
      [] r.op \in {"create", "delete"} -> NameOf(r, d)
      [] OTHER -> IF d \in Wifi THEN [r EXCEPT !.calls = <<r.op>>] ELSE r

ReadDevice(c) ==
    /\ Walking(c) /\ rd[c].listed /\ rd[c].left # {}
    /\ LET d == CHOOSE x \in rd[c].left : TRUE
           r == [rd[c] EXCEPT !.left = @ \ {d}, !.dev = d]
       IN  Becomes(c, Strictly(r, d \in present, Examined(r, d)))
    /\ UNCHANGED nm

(* A virtual interface is made only if there is none in the list, which may be old. *)
PutInterface(r) == IF r.target \in DOMAIN r.report THEN Replied(r, "bad") ELSE [r EXCEPT !.calls = <<"add">>]
DeleteInterface(r) == IF r.target \in DOMAIN r.report THEN [r EXCEPT !.calls = <<"remove">>] ELSE Replied(r, "notfound")

(* get_interface_status reads all the status first, then the one device once more. *)
Walked(r) ==
    CASE r.op = "interface" ->
            IF r.target \in DOMAIN r.report THEN [r EXCEPT !.op = "again", !.listed = FALSE] ELSE Replied(r, "bad")
      [] r.op = "create" -> PutInterface(r)
      [] r.op = "delete" -> DeleteInterface(r)
      [] r.op = "requestScan" -> Replied(r, "error")
      [] r.op = "again" -> Replied(r, "bad")
      [] OTHER -> Replied(r, "ok")

EndOfDevices(c) ==
    /\ Walking(c) /\ rd[c].listed /\ rd[c].left = {}
    /\ Becomes(c, Walked(rd[c]))
    /\ UNCHANGED nm

-----------------------------------------------------------------------------
(* The calls on what a device refers to. *)
ReadConnection(c) ==
    /\ Doing(c, "connection")
    /\ Becomes(c, Strictly(rd[c], Alive(rd[c].conn), CallDone(rd[c])))
    /\ UNCHANGED nm

(* Mutant of ConnectionFor: the connection that is on the device by now. *)
ConnectionForNow(r) == IF On(r.dev) = {} THEN r.conn ELSE ConnOn(r.dev)

(* The connection of the device is the one its properties named. *)
ConnectionFor(r) == r.conn

ReadConnectionProfile(c) ==
    /\ Doing(c, "profile")
    /\ LET p == activations[ConnectionFor(rd[c])].path IN
          Becomes(c, Strictly(rd[c], Exists(p), [CallDone(rd[c]) EXCEPT !.report[rd[c].dev].path = p]))
    /\ UNCHANGED nm

(* The addresses, the leases and the access point are left empty if they are gone. *)
ReadIp4(c) ==
    /\ Doing(c, "ip4")
    /\ Becomes(c, [CallDone(rd[c]) EXCEPT !.report[rd[c].dev].ip = Alive(rd[c].conn)])
    /\ UNCHANGED nm

ReadIp6(c) ==
    /\ Doing(c, "ip6")
    /\ Becomes(c, [CallDone(rd[c]) EXCEPT !.report[rd[c].dev].ip = @ /\ Alive(rd[c].conn)])
    /\ UNCHANGED nm

ReadLeases(c) ==
    /\ Doing(c, "dhcp")
    /\ Becomes(c, [CallDone(rd[c]) EXCEPT !.report[rd[c].dev].ip = @ /\ Alive(rd[c].conn)])
    /\ UNCHANGED nm

ReadAccessPoint(c) ==
    /\ Doing(c, "accessPoint")
    /\ Becomes(c, CallDone(rd[c]))
    /\ UNCHANGED nm

ReadWired(c) ==
    /\ Doing(c, "wired")
    /\ Becomes(c, Strictly(rd[c], rd[c].dev \in present, CallDone(rd[c])))
    /\ UNCHANGED nm

ReadWireless(c) ==
    /\ Doing(c, "wireless")
    /\ Becomes(c, Strictly(rd[c], rd[c].dev \in present, CallDone(rd[c])))
    /\ UNCHANGED nm

ReadActiveConnection(c) ==
    /\ Doing(c, "activeConnection")
    /\ LET r == rd[c] IN
          Becomes(c, [CallDone(r) EXCEPT !.report[r.dev].path =
                          IF r.conn # 0 /\ Alive(r.conn) THEN activations[r.conn].path ELSE 0])
    /\ UNCHANGED nm

ReadAvailable(c) ==
    /\ Doing(c, "available")
    /\ Becomes(c, Replied(rd[c], IF \A p \in rd[c].refs : Exists(p) THEN "ok" ELSE "error"))
    /\ UNCHANGED nm

ListAccessPoints(c) ==
    /\ Doing(c, "accessPoints")
    /\ Becomes(c, Strictly(rd[c], rd[c].dev \in present, [rd[c] EXCEPT !.refs = seen, !.calls = <<"next">>]))
    /\ UNCHANGED nm

ReadNextAccessPoint(c) ==
    /\ Doing(c, "next")
    /\ LET r == rd[c]
           ap == CHOOSE a \in r.refs : TRUE
       IN  Becomes(c, IF r.refs = {} THEN CallDone(r)
                      ELSE Strictly(r, ap \in seen, [r EXCEPT !.refs = @ \ {ap}, !.report = Over([x \in {ap} |-> KeyMgmt(Beacon[ap])], @)]))
    /\ UNCHANGED nm

(* Asking for a scan, and for the time of the last one: the first Wi-Fi device does. *)
RequestScan(c) ==
    /\ Doing(c, "requestScan")
    /\ Becomes(c, Replied(rd[c], IF rd[c].dev \in present THEN "ok" ELSE "error"))
    /\ UNCHANGED nm

ReadLastScan(c) ==
    /\ Doing(c, "lastScan")
    /\ Becomes(c, Replied(rd[c], IF rd[c].dev \in present THEN "ok" ELSE "error"))
    /\ UNCHANGED nm

(* Statistics and driver information are files of the interface. *)
ReadSysfs(c) ==
    /\ Doing(c, "sysfs")
    /\ Becomes(c, Replied(rd[c], IF rd[c].target \in present THEN "ok" ELSE "error"))
    /\ UNCHANGED nm

-----------------------------------------------------------------------------
(* The radio. *)
RadioIs(c) ==
    /\ Doing(c, "radioIs")
    /\ Becomes(c, IF radio = Enabled(rd[c]) THEN [rd[c] EXCEPT !.calls = <<"radioRead">>] ELSE CallDone(rd[c]))
    /\ UNCHANGED nm

RadioSet(c) ==
    /\ Doing(c, "radioSet")
    /\ asked' = Enabled(rd[c])
    /\ Becomes(c, CallDone(rd[c]))
    /\ UNCHANGED <<profiles, activations, present, radio, seen, events>>

RadioPoll(c) ==
    /\ Doing(c, "radioPoll")
    /\ LET r == rd[c] IN
          Becomes(c, IF radio = Enabled(r) THEN [CallDone(r) EXCEPT !.reply = IF Len(r.calls) = 1 THEN "ok" ELSE @]
                     ELSE IF r.polls = MaxPolls THEN Replied(r, "error")
                     ELSE [r EXCEPT !.polls = @ + 1])
    /\ UNCHANGED nm

RadioRead(c) ==
    /\ Doing(c, "radioRead")
    /\ Becomes(c, Replied(rd[c], "ok"))
    /\ UNCHANGED nm

-----------------------------------------------------------------------------
(* The virtual interface; the kernel refuses a second one.  The v2 PUT reads the *)
(* interface after it was made.                                                  *)
AddVirtual(c) ==
    /\ Doing(c, "add")
    /\ LET r == rd[c] IN
          IF "wlan1" \in present THEN Becomes(c, Replied(r, "error")) /\ UNCHANGED nm
          ELSE /\ present' = present \cup {"wlan1"}
               /\ Becomes(c, IF r.op = "create" THEN [CallDone(r) EXCEPT !.op = "interface", !.listed = FALSE, !.report = <<>>]
                             ELSE Replied(r, "ok"))
               /\ UNCHANGED <<profiles, activations, radio, asked, seen, events>>

RemoveVirtual(c) ==
    /\ Doing(c, "remove")
    /\ Becomes(c, Replied(rd[c], IF "wlan1" \in present THEN "ok" ELSE "error"))
    /\ present' = present \ {"wlan1"}
    /\ activations' = End(On("wlan1"), activations)
    /\ UNCHANGED <<profiles, radio, asked, seen, events>>

-----------------------------------------------------------------------------
EnquiryStep(c) ==
    /\ \/ ListDevices(c) \/ ReadDevice(c) \/ EndOfDevices(c)
       \/ ReadConnection(c) \/ ReadConnectionProfile(c) \/ ReadIp4(c) \/ ReadIp6(c) \/ ReadLeases(c)
       \/ ReadAccessPoint(c) \/ ReadWired(c) \/ ReadWireless(c)
       \/ ReadActiveConnection(c) \/ ReadAvailable(c)
       \/ ListAccessPoints(c) \/ ReadNextAccessPoint(c) \/ RequestScan(c) \/ ReadLastScan(c) \/ ReadSysfs(c)
       \/ RadioIs(c) \/ RadioSet(c) \/ RadioPoll(c) \/ RadioRead(c)
       \/ AddVirtual(c) \/ RemoveVirtual(c)
    /\ UNCHANGED profileVars

StatusNext ==
    \/ Next /\ UNCHANGED rd
    \/ \E c \in Readers : StatusBegin(c) \/ EnquiryStep(c)

statusVars == <<vars, rd>>
StatusSpec == StatusInit /\ [][StatusNext]_statusVars
StatusFairSpec ==
    /\ StatusSpec
    /\ \A c \in Clients : WF_statusVars(RequestStep(c) /\ UNCHANGED rd)
    /\ \A c \in Readers : WF_statusVars(EnquiryStep(c))

-----------------------------------------------------------------------------
(* Type invariant. *)
StatusTypeOK ==
    /\ TypeOK
    /\ \A c \in Readers : /\ rd[c].conn \in 0..Len(activations) /\ rd[c].left \subseteq Devices
                          /\ rd[c].polls \in 0..MaxPolls
                          /\ DOMAIN rd[c].report \subseteq Devices \cup AccessPoints

(* In a status the connection that is reported for a device is the one it had when it *)
(* was found activated, whatever was activated while the rest was read.               *)
StatusOneMoment ==
    \A c \in Readers : (rd[c].op = "status" /\ rd[c].reply = "ok") =>
        \A d \in DOMAIN rd[c].report :
            LET entry == rd[c].report[d] IN
            IF entry.state = "activated" THEN entry.path = activations[entry.conn].path ELSE entry.path = 0

(* An access point that asks for a key is not reported as open. *)
SecuredNotOpen ==
    \A c \in Readers : \A ap \in DOMAIN rd[c].report \cap AccessPoints :
        (Beacon[ap].privacy \/ Beacon[ap].rsn # {}) => rd[c].report[ap] # <<>>

(* Every request is answered, also one that waits for a connection or for the radio   *)
(* to change, which may never happen: of the requests that were made, however they     *)
(* got in each other's way, none is left in the end.                                   *)
RequestsEnd == <>[]((\A c \in Clients : ~Busy(c)) /\ (\A c \in Readers : ~Asking(c)))

(* A refusal changes nothing; with the type invariant. *)
RefusedUnchanged == StatusTypeOK /\ RefusedUnwritten

(* What an update leaves of profiles that it may not change, or does not name. *)
ProfilesKept == FactoryKept /\ KeyMgmtStays
=============================================================================
