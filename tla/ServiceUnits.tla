---------------------------- MODULE ServiceUnits ----------------------------
(***************************************************************************)
(* The units of systemd that the program starts and stops: stunnel, and    *)
(* the socket that forwards the journal, which starts at boot by a file    *)
(* that the program creates and removes.  set_state looks at the state,    *)
(* and asks systemd, in two calls; others run in between.                  *)
(***************************************************************************)
EXTENDS Integers, FiniteSets, Sequences, SequencesExt

CONSTANTS
    Units,
    Flagged,           \* those that LOG_FORWARDING_ENABLED_FLAG_FILE stands for
    MaxUnitJobs,       \* bound: requests at a time
    MaxUnitRequests,   \* bound: requests
    MaxUnitFaults      \* bound: calls that fail, units that fail, and restarts

ASSUME UnitsAssumption ==
    /\ {MaxUnitJobs, MaxUnitRequests, MaxUnitFaults} \subseteq Nat /\ Flagged \subseteq Units

VARIABLES
    unitState,         \* unit -> its ActiveState
    flagFile,          \* the units whose flag file is there
    unitJobs,          \* the requests that are not answered
    unitRequests, unitFaults,
    unitAsked          \* unit -> what the last request asked, if it was alone, could set the flag, and was told to be done

units == <<unitState, flagFile, unitJobs, unitRequests, unitFaults, unitAsked>>

UnitsInit ==
    /\ unitState \in [Units -> {"active", "inactive"}]
    /\ flagFile = {u \in Flagged : unitState[u] = "active"}
    /\ unitJobs = <<>> /\ unitRequests = 0 /\ unitFaults = 0 /\ unitAsked = [u \in Units |-> "any"]

UnitFault == unitFaults < MaxUnitFaults /\ unitFaults' = unitFaults + 1
UnitJob(u, want, front) ==
    [unit |-> u, want |-> want, front |-> front, stage |-> "look", seen |-> "",
     alone |-> \A j \in DOMAIN unitJobs : unitJobs[j].unit # u]

PutState(u, want, front) ==
    /\ unitRequests < MaxUnitRequests /\ unitRequests' = unitRequests + 1
    /\ Len(unitJobs) < MaxUnitJobs
    /\ unitJobs' = Append([j \in DOMAIN unitJobs |-> [unitJobs[j] EXCEPT !.alone = @ /\ unitJobs[j].unit # u]],
                          UnitJob(u, want, front))
    /\ unitAsked' = [unitAsked EXCEPT ![u] = "any"]
    /\ UNCHANGED <<unitState, flagFile, unitFaults>>

(* The two plugins, and their resources of v2 and legacy; at+logfwd is for the journal. *)
StunnelResource(u, want) == u \notin Flagged /\ PutState(u, want, "v2")
StunnelResourceLegacy(u, want) == u \notin Flagged /\ PutState(u, want, "legacy")
LogForwardingResource(u, want) == u \in Flagged /\ PutState(u, want, "v2")
LogForwarding(u, want) == u \in Flagged /\ PutState(u, want, "legacy")
LogForwardingCommand(u, want) == u \in Flagged /\ PutState(u, want, "at")

UnitAnswered(t, done) ==
    /\ unitJobs' = RemoveAt(unitJobs, t)
    /\ unitAsked' = IF done /\ unitJobs[t].alone THEN [unitAsked EXCEPT ![unitJobs[t].unit] = unitJobs[t].want] ELSE unitAsked

(* set_state has returned, or raised; v2 then reads the state that it answers with. *)
UnitSet(t, done) ==
    IF unitJobs[t].front = "v2" /\ done
    THEN unitJobs' = [unitJobs EXCEPT ![t].stage = "tell"] /\ UNCHANGED unitAsked
    ELSE UnitAnswered(t, done)

(* AlreadyActiveError and AlreadyInactiveError: no fault, but for at+logfwd. *)
UnitAlready(t) == UnitSet(t, unitJobs[t].front # "at")

-----------------------------------------------------------------------------
(* get_active_state; "unknown" when a call fails. *)
ActiveState(t) ==
    /\ unitJobs[t].stage = "look"
    /\ \/ unitJobs' = [unitJobs EXCEPT ![t].stage = "act", ![t].seen = unitState[unitJobs[t].unit]] /\ UNCHANGED unitFaults
       \/ UnitFault /\ unitJobs' = [unitJobs EXCEPT ![t].stage = "act", ![t].seen = "unknown"]
    /\ UNCHANGED <<unitState, flagFile, unitRequests, unitAsked>>

Flags(u, want) == IF u \notin Flagged THEN flagFile
                  ELSE IF want = "active" THEN flagFile \union {u} ELSE flagFile \ {u}

(* Mutant of SetState: the file is left alone when the unit is in the state already. *)
FlagsWhenActing(t) ==
    LET job == unitJobs[t]
    IN /\ job.stage = "act"
       /\ flagFile' = IF job.seen = job.want THEN flagFile ELSE Flags(job.unit, job.want)
       /\ IF job.seen = job.want THEN UnitAlready(t)
          ELSE unitJobs' = [unitJobs EXCEPT ![t].stage = "call"] /\ UNCHANGED unitAsked
       /\ UNCHANGED <<unitState, unitRequests, unitFaults>>

(* The file first; then the answer that the unit is there already, or the call. *)
SetState(t) ==
    LET job == unitJobs[t]
    IN /\ job.stage = "act"
       /\ flagFile' = Flags(job.unit, job.want)
       /\ IF job.seen = job.want THEN UnitAlready(t)
          ELSE unitJobs' = [unitJobs EXCEPT ![t].stage = "call"] /\ UNCHANGED unitAsked
       /\ UNCHANGED <<unitState, unitRequests, unitFaults>>

(* The file cannot be made, which raises; or cannot be removed, which is passed over. *)
FlagFails(t) ==
    LET job == unitJobs[t]
    IN /\ job.stage = "act" /\ job.unit \in Flagged /\ UnitFault
       /\ IF job.want = "active" \/ (job.seen = job.want /\ job.front # "v2")
          THEN UnitAnswered(t, FALSE)
          ELSE /\ unitJobs' = [unitJobs EXCEPT ![t].stage = IF job.seen = job.want THEN "tell" ELSE "call",
                                               ![t].alone = FALSE]
               /\ UNCHANGED unitAsked
       /\ UNCHANGED <<unitState, flagFile, unitRequests>>

(* StartUnit and StopUnit return when the job is queued; a unit with a flag file starts only by it. *)
Queued(u, want) ==
    CASE want = "inactive" /\ unitState[u] \in {"active", "activating"} -> "deactivating"
      [] want = "active" /\ unitState[u] # "active" /\ u \in (Units \ Flagged) \union flagFile -> "activating"
      [] OTHER -> unitState[u]

UnitCall(t) ==
    LET job == unitJobs[t]
    IN /\ job.stage = "call"
       /\ \/ /\ unitState' = [unitState EXCEPT ![job.unit] = Queued(job.unit, job.want)]
             /\ UnitSet(t, TRUE) /\ UNCHANGED unitFaults
          \/ UnitFault /\ UnitSet(t, FALSE) /\ UNCHANGED unitState
       /\ UNCHANGED <<flagFile, unitRequests>>

(* get_active_state for the answer of v2; what it reads changes nothing. *)
TellState(t) ==
    /\ unitJobs[t].stage = "tell" /\ UnitAnswered(t, TRUE)
    /\ UNCHANGED <<unitState, flagFile, unitRequests, unitFaults>>

-----------------------------------------------------------------------------
(* systemd goes on; a start may fail, and a stopped unit is inactive. *)
UnitSettles(u) ==
    /\ \/ /\ unitState[u] = "activating" /\ unitState' = [unitState EXCEPT ![u] = "active"]
          /\ UNCHANGED <<unitFaults, unitAsked, unitJobs>>
       \/ /\ unitState[u] = "deactivating" /\ unitState' = [unitState EXCEPT ![u] = "inactive"]
          /\ UNCHANGED <<unitFaults, unitAsked, unitJobs>>
       \/ /\ unitState[u] = "activating" /\ UnitFault /\ unitState' = [unitState EXCEPT ![u] = "failed"]
          /\ unitAsked' = [unitAsked EXCEPT ![u] = "any"]
          /\ unitJobs' = [j \in DOMAIN unitJobs |-> [unitJobs[j] EXCEPT !.alone = @ /\ unitJobs[j].unit # u]]
    /\ UNCHANGED <<flagFile, unitRequests>>

(* The system starts again: the unit by its file, stunnel not at all. *)
UnitsBoot ==
    /\ UnitFault
    /\ unitState' = [u \in Units |-> IF u \in flagFile THEN "active" ELSE "inactive"]
    /\ unitJobs' = <<>>
    /\ unitAsked' = [u \in Units |-> IF u \in Flagged /\ ~\E j \in DOMAIN unitJobs : unitJobs[j].unit = u
                                     THEN unitAsked[u] ELSE "any"]
    /\ UNCHANGED <<flagFile, unitRequests>>

UnitsNext ==
    \/ \E u \in Units, want \in {"active", "inactive"} :
         \/ StunnelResource(u, want) \/ StunnelResourceLegacy(u, want)
         \/ LogForwardingResource(u, want) \/ LogForwarding(u, want) \/ LogForwardingCommand(u, want)
    \/ \E t \in DOMAIN unitJobs : ActiveState(t) \/ SetState(t) \/ FlagFails(t) \/ UnitCall(t) \/ TellState(t)
    \/ \E u \in Units : UnitSettles(u)
    \/ UnitsBoot

UnitsSpec == UnitsInit /\ [][UnitsNext]_units

-----------------------------------------------------------------------------
(* What a request has been told to be done is so, and for the journal stays so when the   *)
(* system starts again, unless another request for the unit ran at the same time or the    *)
(* file of the unit could not be removed.                                                 *)
AskedIsSo ==
    \A u \in Units : unitAsked[u] # "any" =>
        /\ unitState[u] \in (IF unitAsked[u] = "active" THEN {"active", "activating"}
                             ELSE {"inactive", "deactivating", "failed"})
        /\ u \in Flagged => (u \in flagFile <=> unitAsked[u] = "active")
=============================================================================
