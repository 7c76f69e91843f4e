------------------------------ MODULE NtpSources ------------------------------
(***************************************************************************)
(* The time sources of the chrony plugin: the file that lists the static   *)
(* ones is read, written over and read again by chrony.  Each access is    *)
(* awaited; nothing keeps two requests apart.  The lines of the file count *)
(* as equally long.                                                        *)
(***************************************************************************)
EXTENDS Integers, FiniteSets, Sequences, SequencesExt, Lists

CONSTANTS
    SourceLists,       \* what a client may add, remove or put
    MaxNtpJobs,        \* bound: requests at a time
    MaxNtpRequests,    \* bound: requests
    MaxNtpFaults       \* bound: reloads that fail, and restarts

ASSUME NtpAssumption ==
    /\ {MaxNtpJobs, MaxNtpRequests, MaxNtpFaults} \subseteq Nat
    /\ \A list \in SourceLists : list \in Seq(ToSet(list))

VARIABLES
    sources,           \* CHRONY_SOURCES_PATH
    chrony,            \* the static sources that chrony uses
    ntpJobs,           \* the requests that are not answered
    ntpRequests, ntpFaults,
    ntpAsked,          \* what the last request should make of the file
    ntpCrossed,        \* it was not alone, or was cut short
    unread             \* the last reload has failed, or did not come

ntp == <<sources, chrony, ntpJobs, ntpRequests, ntpFaults, ntpAsked, ntpCrossed, unread>>

NtpInit ==
    /\ sources \in SourceLists /\ chrony = sources /\ ntpAsked = sources
    /\ ntpJobs = <<>> /\ ntpRequests = 0 /\ ntpFaults = 0 /\ ntpCrossed = FALSE /\ unread = FALSE

Lacking(list, given) == Filtered(list, ToSet(list) \ ToSet(given))

(* What a command makes of the sources that it has read. *)
NewSources(command, current, given) ==
    CASE command = "addSource" -> current \o Lacking(given, current)
      [] command \in {"removeSource", "delete"} -> Lacking(current, given)
      [] command = "overrideSources" -> given

NtpJob(command, given, stage, data) == [command |-> command, given |-> given, stage |-> stage, data |-> data]

(* chrony_configure_sources, after the look that on_delete of v2 takes first. *)
ConfigureSources(command, given) ==
    /\ ntpRequests < MaxNtpRequests /\ ntpRequests' = ntpRequests + 1
    /\ Len(ntpJobs) < MaxNtpJobs
    /\ ntpJobs' = Append(ntpJobs, NtpJob(command, given,
                        CASE command = "delete" -> "look" [] command = "overrideSources" -> "open" [] OTHER -> "read",
                        given))
    /\ ntpAsked' = NewSources(command, sources, given) /\ ntpCrossed' = (ntpJobs # <<>>)
    /\ UNCHANGED <<sources, chrony, ntpFaults, unread>>

(* The resources: v2 puts a list or deletes one source; legacy, like at+ntpconf, takes any command. *)
PutSources(given) == ConfigureSources("overrideSources", given)
DeleteSource(given) == Len(given) = 1 /\ ConfigureSources("delete", given)
SourceCommands == {"addSource", "removeSource", "overrideSources"}
PutSourcesLegacy(command, given) == command \in SourceCommands /\ ConfigureSources(command, given)
NTPConfigure(command, given) == command \in SourceCommands /\ ConfigureSources(command, given)

NtpGoesOn(t, job) == ntpJobs' = [ntpJobs EXCEPT ![t] = job]

(* chrony_get_sources awaits the file, then chronyc, whose answer does not matter here. *)
LookSource(t) ==
    /\ ntpJobs[t].stage = "look"
    /\ IF \E s \in ToSet(ntpJobs[t].given) : Contains(sources, s)
       THEN NtpGoesOn(t, [ntpJobs[t] EXCEPT !.stage = "read"])
       ELSE ntpJobs' = RemoveAt(ntpJobs, t)
    /\ UNCHANGED <<sources, chrony, ntpRequests, ntpFaults, ntpAsked, ntpCrossed, unread>>

(* chrony_get_static_sources *)
ReadSources(t) ==
    /\ ntpJobs[t].stage = "read"
    /\ NtpGoesOn(t, [ntpJobs[t] EXCEPT !.stage = "open",
                         !.data = NewSources(ntpJobs[t].command, sources, ntpJobs[t].given)])
    /\ UNCHANGED <<sources, chrony, ntpRequests, ntpFaults, ntpAsked, ntpCrossed, unread>>

(* Mutant of OpenSources: the sources are read when the file has been opened to be written. *)
OpenSourcesFirst(t) ==
    /\ ntpJobs[t].stage = "open"
    /\ sources' = <<>>
    /\ NtpGoesOn(t, [ntpJobs[t] EXCEPT !.stage = "write",
                         !.data = NewSources(ntpJobs[t].command, <<>>, ntpJobs[t].given)])
    /\ UNCHANGED <<chrony, ntpRequests, ntpFaults, ntpAsked, ntpCrossed, unread>>

(* aiofiles.open with "w" empties the file. *)
OpenSources(t) ==
    /\ ntpJobs[t].stage = "open"
    /\ sources' = <<>>
    /\ NtpGoesOn(t, [ntpJobs[t] EXCEPT !.stage = "write"])
    /\ UNCHANGED <<chrony, ntpRequests, ntpFaults, ntpAsked, ntpCrossed, unread>>

(* The lines get to the file when it is closed, over what another request has written meanwhile. *)
WriteSources(t) ==
    LET data == ntpJobs[t].data
    IN /\ ntpJobs[t].stage = "write"
       /\ sources' = IF Len(sources) <= Len(data) THEN data ELSE data \o SubSeq(sources, Len(data) + 1, Len(sources))
       /\ NtpGoesOn(t, [ntpJobs[t] EXCEPT !.stage = "reload"])
       /\ UNCHANGED <<chrony, ntpRequests, ntpFaults, ntpAsked, ntpCrossed, unread>>

(* chrony_reload_sources logs what fails; nobody looks at its result. *)
ReloadSources(t, ok) ==
    /\ ntpJobs[t].stage = "reload"
    /\ IF ok THEN UNCHANGED ntpFaults ELSE ntpFaults < MaxNtpFaults /\ ntpFaults' = ntpFaults + 1
    /\ chrony' = IF ok THEN sources ELSE chrony
    /\ unread' = ~ok
    /\ ntpJobs' = RemoveAt(ntpJobs, t)
    /\ UNCHANGED <<sources, ntpRequests, ntpAsked, ntpCrossed>>

RestartNtp ==
    /\ ntpFaults < MaxNtpFaults /\ ntpFaults' = ntpFaults + 1
    /\ ntpCrossed' = (ntpCrossed \/ ntpJobs # <<>>) /\ ntpJobs' = <<>>
    /\ unread' = (unread \/ ntpJobs # <<>>)
    /\ UNCHANGED <<sources, chrony, ntpRequests, ntpAsked>>

NtpNext ==
    \/ \E given \in SourceLists : PutSources(given) \/ DeleteSource(given)
    \/ \E command \in SourceCommands, given \in SourceLists :
         PutSourcesLegacy(command, given) \/ NTPConfigure(command, given)
    \/ \E t \in DOMAIN ntpJobs : LookSource(t) \/ ReadSources(t) \/ OpenSources(t) \/ WriteSources(t)
                                 \/ \E ok \in BOOLEAN : ReloadSources(t, ok)
    \/ RestartNtp

NtpSpec == NtpInit /\ [][NtpNext]_ntp

-----------------------------------------------------------------------------
(* A request that was alone leaves in the file what it asked for, and chrony uses that unless *)
(* the reload failed, whatever earlier requests that ran together have left there.              *)
SourcesAsAsked ==
    ntpJobs = <<>> /\ ~ntpCrossed => sources = ntpAsked /\ (chrony = sources \/ unread)
===============================================================================
