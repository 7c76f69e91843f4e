------------------------------- MODULE Firewall -------------------------------
(***************************************************************************)
(* The forwarded ports of the firewall plugin: two rules of iptables for   *)
(* each port, the list that the program keeps of them, and the file that   *)
(* it reads the list from when it starts.                                  *)
(*                                                                         *)
(* A request awaits each call of iptables and each access to the file; the *)
(* others run meanwhile.  The rules are counted: iptables appends a rule   *)
(* that is there already once more, and removes one at a time.             *)
(***************************************************************************)
EXTENDS Integers, FiniteSets, Sequences, SequencesExt, Lists

CONSTANTS
    Ports,             \* what can be forwarded
    PortLists,         \* the lists a v2 request may put
    MaxFwJobs,         \* bound: requests at a time
    MaxFwRequests,     \* bound: requests
    MaxFwFaults        \* bound: calls of iptables and saves that fail, and restarts

ASSUME FirewallAssumption ==
    /\ {MaxFwJobs, MaxFwRequests, MaxFwFaults} \subseteq Nat
    /\ PortLists \subseteq Seq(Ports)
    /\ "no JSON" \notin Ports        \* stands for a file that cannot be parsed: NoJson

VARIABLES
    forwarded,         \* forwarded_ports
    nat, filter,       \* port -> its rules in PREROUTING and in FORWARD
    portsFile,         \* what FORWARDED_PORTS_FILE holds
    fwJobs,            \* the requests that are not answered
    fwRequests, fwFaults,
    torn,              \* ports whose removal iptables refused in FORWARD, PREROUTING's rule gone
    unsaved,           \* a save failed, and none began since
    crossed            \* two requests were at one port, or saved at once, one was cut short,
                       \* or what a save that failed left was read at a restart

firewall == <<forwarded, nat, filter, portsFile, fwJobs, fwRequests, fwFaults, torn, unsaved, crossed>>

NoRules == [p \in Ports |-> 0]
FirewallInit ==
    /\ forwarded = <<>> /\ nat = NoRules /\ filter = NoRules /\ portsFile = <<>>
    /\ fwJobs = <<>> /\ fwRequests = 0 /\ fwFaults = 0 /\ torn = {} /\ unsaved = FALSE /\ crossed = FALSE

(* todo and at: what a v2 request has yet to look at, of its own list and of the other. *)
FwJob(command, port, put, want) ==
    [command |-> command, port |-> port, stage |-> "nat", data |-> <<>>,
     put |-> put, want |-> want, todo |-> want, at |-> 1]

ForwardedPortIsPresent(p) == Contains(forwarded, p)

-----------------------------------------------------------------------------
(* The for statement goes on at the next place of a list that shrinks meanwhile. *)
Strays(job, list) == {j \in job.at .. Len(list) : ~Contains(job.want, list[j])}
NextStray(job, list) == CHOOSE j \in Strays(job, list) : \A k \in Strays(job, list) : j <= k

(* on_put of v2 adds the ports that are missing when it comes to them, then removes those *)
(* that it finds in the list and was not asked for; whether that works it does not look.   *)
PutGoesOn(job, list) ==
    LET missing == SelectInSeq(job.todo, LAMBDA p : ~Contains(list, p))
    IN CASE missing > 0 ->
              <<[job EXCEPT !.command = "add", !.port = job.todo[missing], !.stage = "nat",
                            !.todo = SubSeq(@, missing + 1, Len(@))]>>
         [] missing = 0 /\ Strays(job, list) # {} ->
              <<[job EXCEPT !.command = "remove", !.port = list[NextStray(job, list)], !.stage = "nat",
                            !.todo = <<>>, !.at = NextStray(job, list) + 1]>>
         [] OTHER -> <<>>

(* The jobs without job t, or with it as it goes on. *)
Replaced(t, next) == SubSeq(fwJobs, 1, t - 1) \o next \o SubSeq(fwJobs, t + 1, Len(fwJobs))

Crosses(jobs) == \E t, u \in DOMAIN jobs : t # u /\ jobs[t].port = jobs[u].port

(* configure_forwarded_port returned; the list is what it is by then. *)
Returned(t, list) ==
    LET next == IF fwJobs[t].put THEN PutGoesOn(fwJobs[t], list) ELSE <<>>
    IN fwJobs' = Replaced(t, next) /\ crossed' = (crossed \/ Crosses(fwJobs'))

FwBegins(next) ==
    /\ fwRequests < MaxFwRequests /\ fwRequests' = fwRequests + 1
    /\ Len(fwJobs) < MaxFwJobs /\ fwJobs' = fwJobs \o next /\ crossed' = (crossed \/ Crosses(fwJobs'))
    /\ UNCHANGED <<forwarded, nat, filter, portsFile, fwFaults, torn, unsaved>>

(* on_put, legacy.  What is there already, or not there, is answered at once. *)
AddForwardPort(p) == FwBegins(IF ForwardedPortIsPresent(p) THEN <<>> ELSE <<FwJob("add", p, FALSE, <<>>)>>)
RemoveForwardPort(p) == FwBegins(IF ~ForwardedPortIsPresent(p) THEN <<>> ELSE <<FwJob("remove", p, FALSE, <<>>)>>)
PutForwardedPorts(want) == FwBegins(PutGoesOn(FwJob("add", "", TRUE, want), forwarded))

-----------------------------------------------------------------------------
(* iptables -A, or -D, which fails without such a rule. *)
Does(rules, command, p) == [rules EXCEPT ![p] = IF command = "add" THEN @ + 1 ELSE @ - 1]
Refuses(rules, command, p) == command = "remove" /\ rules[p] = 0

(* Mutant of Prerouting: the port is listed before its rules are there. *)
PreroutingLists(t) ==
    /\ fwJobs[t].stage = "nat" /\ ~Refuses(nat, fwJobs[t].command, fwJobs[t].port)
    /\ nat' = Does(nat, fwJobs[t].command, fwJobs[t].port)
    /\ forwarded' = IF fwJobs[t].command = "add" THEN Append(forwarded, fwJobs[t].port) ELSE forwarded
    /\ fwJobs' = [fwJobs EXCEPT ![t].stage = "filter"]
    /\ UNCHANGED <<filter, portsFile, fwRequests, fwFaults, torn, unsaved, crossed>>

Prerouting(t) ==
    /\ fwJobs[t].stage = "nat" /\ ~Refuses(nat, fwJobs[t].command, fwJobs[t].port)
    /\ nat' = Does(nat, fwJobs[t].command, fwJobs[t].port)
    /\ fwJobs' = [fwJobs EXCEPT ![t].stage = "filter"]
    /\ UNCHANGED <<forwarded, filter, portsFile, fwRequests, fwFaults, torn, unsaved, crossed>>

Listed(list, job) ==
    IF job.command = "add" THEN Append(list, job.port)
    ELSE Filtered(list, Ports \ {job.port})

Forward(t) ==
    /\ fwJobs[t].stage = "filter" /\ ~Refuses(filter, fwJobs[t].command, fwJobs[t].port)
    /\ filter' = Does(filter, fwJobs[t].command, fwJobs[t].port)
    /\ forwarded' = Listed(forwarded, fwJobs[t])
    /\ fwJobs' = [fwJobs EXCEPT ![t].stage = "open"]
    /\ UNCHANGED <<nat, portsFile, fwRequests, fwFaults, torn, unsaved, crossed>>

(* The call returns with the message of iptables, which has no such rule or fails for another *)
(* reason, as when its lock is held; what the first one did stays.                             *)
IptablesFails(t) ==
    /\ \/ /\ fwJobs[t].stage = "nat" /\ Refuses(nat, fwJobs[t].command, fwJobs[t].port)
          /\ UNCHANGED fwFaults
       \/ /\ fwJobs[t].stage = "filter" /\ Refuses(filter, fwJobs[t].command, fwJobs[t].port)
          /\ UNCHANGED fwFaults
       \/ /\ fwJobs[t].stage \in {"nat", "filter"}
          /\ fwFaults < MaxFwFaults /\ fwFaults' = fwFaults + 1
    /\ torn' = IF fwJobs[t].stage = "filter" /\ fwJobs[t].command = "remove"
               THEN torn \union {fwJobs[t].port} ELSE torn
    /\ Returned(t, forwarded)
    /\ UNCHANGED <<forwarded, nat, filter, portsFile, fwRequests, unsaved>>

(* save_forwarded_ports: the file is opened and so emptied; the list of then is written. *)
OpenPortsFile(t) ==
    /\ fwJobs[t].stage = "open"
    /\ portsFile' = <<>>
    /\ fwJobs' = [fwJobs EXCEPT ![t].stage = "write", ![t].data = forwarded]
    /\ crossed' = (crossed \/ \E u \in DOMAIN fwJobs : fwJobs[u].stage = "write")
    /\ unsaved' = FALSE
    /\ UNCHANGED <<forwarded, nat, filter, fwRequests, fwFaults, torn>>

(* What was longer in the file than what is written over it stays behind: no JSON any more. *)
NoJson == <<"no JSON">>
Written(old, new) == IF old # NoJson /\ Len(old) <= Len(new) THEN new ELSE NoJson
WritePortsFile(t) ==
    /\ fwJobs[t].stage = "write"
    /\ portsFile' = Written(portsFile, fwJobs[t].data)
    /\ Returned(t, forwarded)
    /\ UNCHANGED <<forwarded, nat, filter, fwRequests, fwFaults, torn, unsaved>>

(* The file cannot be opened, or what is written does not reach it whole: this is logged, and *)
(* success is answered.                                                                       *)
SavePortsFails(t) ==
    /\ fwFaults < MaxFwFaults /\ fwFaults' = fwFaults + 1
    /\ \/ fwJobs[t].stage = "open" /\ UNCHANGED portsFile
       \/ fwJobs[t].stage = "write" /\ portsFile' \in {portsFile, NoJson}
    /\ unsaved' = TRUE
    /\ Returned(t, forwarded)
    /\ UNCHANGED <<forwarded, nat, filter, fwRequests, torn>>

(* load_forwarded_ports, when the program starts again; the rules have stayed. *)
LoadForwardedPorts ==
    /\ fwFaults < MaxFwFaults /\ fwFaults' = fwFaults + 1
    /\ forwarded' = IF portsFile = NoJson THEN <<>> ELSE portsFile
    /\ fwJobs' = <<>> /\ crossed' = (crossed \/ fwJobs # <<>> \/ unsaved)
    /\ UNCHANGED <<nat, filter, portsFile, fwRequests, torn, unsaved>>

FirewallNext ==
    \/ \E p \in Ports : AddForwardPort(p) \/ RemoveForwardPort(p)
    \/ \E want \in PortLists : PutForwardedPorts(want)
    \/ \E t \in DOMAIN fwJobs :
          \/ Prerouting(t) \/ Forward(t) \/ IptablesFails(t)
          \/ OpenPortsFile(t) \/ WritePortsFile(t) \/ SavePortsFails(t)
    \/ LoadForwardedPorts

FirewallSpec == FirewallInit /\ [][FirewallNext]_firewall

-----------------------------------------------------------------------------
(* A port that the program lists is forwarded, its rules are in both chains, and it is     *)
(* listed again after a restart: whichever requests for other ports overlap, and whatever  *)
(* iptables refused to add.  It has lost PREROUTING's rule only if iptables refused its    *)
(* removal half-way, and the file holds another list only if the last save failed.         *)
ListedIsForwarded ==
    fwJobs = <<>> /\ ~crossed =>
        /\ ~unsaved => portsFile = forwarded
        /\ \A p \in ToSet(forwarded) : filter[p] > 0 /\ (p \notin torn => nat[p] > 0)
=============================================================================
