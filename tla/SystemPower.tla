----------------------------- MODULE SystemPower -----------------------------
(***************************************************************************)
(* Power states, factory reset and FIPS mode: what the program asks of     *)
(* logind and of two scripts, the state that it keeps of it, and the       *)
(* restarts that a reset or a new mode has it ask for on its own.          *)
(*                                                                         *)
(* logind, the scripts and the file that marks a modem update are outside. *)
(***************************************************************************)
EXTENDS Integers, FiniteSets, Sequences, SequencesExt

CONSTANTS
    FipsModes,         \* what set_fips_state takes
    MaxPowerJobs,      \* bound: requests at a time
    MaxPowerRequests   \* bound: requests

ASSUME PowerAssumption == {MaxPowerJobs, MaxPowerRequests} \subseteq Nat

VARIABLES
    powerState,        \* _power_state
    accepted,          \* the states that logind has agreed to since the start
    modemUpdates,      \* MODEM_FIRMWARE_UPDATE_IN_PROGRESS_FILE is there
    resets,            \* the factory reset that was done: "no" or "yes"
    fipsMode,          \* what the script would tell
    powerJobs,         \* the requests that are not answered, and the task that restarts
    powerRequests,
    restartsFor        \* what the restarts that logind agreed to were for

power == <<powerState, accepted, modemUpdates, resets, fipsMode, powerJobs, powerRequests, restartsFor>>

PowerStates == {"on", "off", "suspend", "reboot"}

PowerInit ==
    /\ powerState = "on" /\ accepted = {} /\ modemUpdates \in BOOLEAN /\ resets = "no"
    /\ fipsMode \in FipsModes /\ powerJobs = <<>> /\ powerRequests = 0 /\ restartsFor = {}

(* A job: what it awaits, the power state or the mode it wants, and for what. *)
PowerJob(stage, want, then) == [stage |-> stage, want |-> want, then |-> then]
PowerAsks(jobs) ==
    /\ powerRequests < MaxPowerRequests /\ powerRequests' = powerRequests + 1
    /\ Len(powerJobs) < MaxPowerJobs
    /\ powerJobs' = powerJobs \o jobs
PowerStep(t, next) == powerJobs' = SubSeq(powerJobs, 1, t - 1) \o next \o SubSeq(powerJobs, t + 1, Len(powerJobs))

-----------------------------------------------------------------------------
(* set_power_state: while the modem is updated the state is on, whatever it was. *)
SetPowerState(want, then) ==
    IF want = "on" \/ modemUpdates THEN [state |-> "on", jobs |-> <<>>]
    ELSE [state |-> powerState, jobs |-> <<PowerJob("logind", want, then)>>]

PutPower(want) ==
    /\ PowerAsks(SetPowerState(want, "itself").jobs)
    /\ powerState' = SetPowerState(want, "itself").state
    /\ UNCHANGED <<accepted, modemUpdates, resets, fipsMode, restartsFor>>

(* The resources of v2, and those of legacy, which refuse by themselves first; at+power. *)
PowerResource(want) == PutPower(want)
PowerCommand(want) == PutPower(want)
LegacyPower(want) ==
    /\ want # "on"
    /\ IF modemUpdates THEN PowerAsks(<<>>) /\ UNCHANGED <<powerState, accepted, modemUpdates, resets, fipsMode, restartsFor>>
       ELSE PutPower(want)
PowerOff == LegacyPower("off")
Suspend == LegacyPower("suspend")
Reboot == LegacyPower("reboot")

(* Mutant of LogindAnswers: the answer of logind is not looked at. *)
LogindIsBelieved(t, ok) ==
    /\ powerJobs[t].stage = "logind"
    /\ powerState' = powerJobs[t].want
    /\ accepted' = IF ok THEN accepted \union {powerJobs[t].want} ELSE accepted
    /\ restartsFor' = IF ok THEN restartsFor \union {powerJobs[t].then} ELSE restartsFor
    /\ PowerStep(t, <<>>)
    /\ UNCHANGED <<modemUpdates, resets, fipsMode, powerRequests>>

LogindAnswers(t, ok) ==
    /\ powerJobs[t].stage = "logind"
    /\ powerState' = IF ok THEN powerJobs[t].want ELSE "on"
    /\ accepted' = IF ok THEN accepted \union {powerJobs[t].want} ELSE accepted
    /\ restartsFor' = IF ok THEN restartsFor \union {powerJobs[t].then} ELSE restartsFor
    /\ PowerStep(t, <<>>)
    /\ UNCHANGED <<modemUpdates, resets, fipsMode, powerRequests>>

(* The program stands still while the script runs. *)
InitiateFactoryReset(ok, restart) ==
    /\ IF modemUpdates THEN PowerAsks(<<>>) /\ UNCHANGED <<powerState, resets>>
       ELSE /\ resets' = IF ok THEN "yes" ELSE resets
            /\ PowerAsks(IF ok /\ restart THEN SetPowerState("reboot", "reset").jobs ELSE <<>>)
            /\ powerState' = IF ok /\ restart THEN SetPowerState("reboot", "reset").state ELSE powerState
    /\ UNCHANGED <<accepted, modemUpdates, fipsMode, restartsFor>>

(* v2 starts a task for the restart, at+factreset awaits it, the legacy resource has none. *)
FactoryResetResource(ok, restart) == InitiateFactoryReset(ok, restart)
FactoryResetCommand(ok, restart) == InitiateFactoryReset(ok, restart)
FactoryReset(ok) == InitiateFactoryReset(ok, FALSE)

-----------------------------------------------------------------------------
FipsAsks(stage, mode, front) ==
    /\ PowerAsks(<<PowerJob(stage, mode, front)>>)
    /\ UNCHANGED <<powerState, accepted, modemUpdates, resets, fipsMode, restartsFor>>

(* set_fips_state runs the script with the mode; v2 asks it for the mode afterwards, at+fips *)
(* before whether there is any, and may restart the system when the mode is set.             *)
FipsResource(mode) == FipsAsks("fips set", mode, "v2")
Fips(mode) == FipsAsks("fips set", mode, "legacy")
FipsCommand(mode, restart) == FipsAsks("fips ask", mode, IF restart THEN "at restart" ELSE "at")

FipsTold(t, supported) ==
    /\ powerJobs[t].stage = "fips ask"
    /\ PowerStep(t, IF supported /\ powerJobs[t].then # "v2 asked" THEN <<[powerJobs[t] EXCEPT !.stage = "fips set"]>>
                    ELSE <<>>)
    /\ UNCHANGED <<powerState, accepted, modemUpdates, resets, fipsMode, powerRequests, restartsFor>>

FipsSet(t, ok) ==
    LET job == powerJobs[t]
        restart == SetPowerState("reboot", "fips")
    IN /\ job.stage = "fips set"
       /\ fipsMode' = IF ok THEN job.want ELSE fipsMode
       /\ IF ok /\ job.then = "at restart"
          THEN PowerStep(t, restart.jobs) /\ powerState' = restart.state
          ELSE /\ PowerStep(t, IF job.then = "v2" THEN <<PowerJob("fips ask", job.want, "v2 asked")>> ELSE <<>>)
               /\ UNCHANGED powerState
       /\ UNCHANGED <<accepted, modemUpdates, resets, powerRequests, restartsFor>>

-----------------------------------------------------------------------------
ModemUpdate == modemUpdates' = ~modemUpdates
               /\ UNCHANGED <<powerState, accepted, resets, fipsMode, powerJobs, powerRequests, restartsFor>>

PowerNext ==
    \/ \E want \in PowerStates : PowerResource(want) \/ PowerCommand(want)
    \/ PowerOff \/ Suspend \/ Reboot
    \/ \E ok, restart \in BOOLEAN : FactoryResetResource(ok, restart) \/ FactoryResetCommand(ok, restart)
    \/ \E ok \in BOOLEAN : FactoryReset(ok)
    \/ \E mode \in FipsModes :
         FipsResource(mode) \/ Fips(mode) \/ \E restart \in BOOLEAN : FipsCommand(mode, restart)
    \/ \E t \in DOMAIN powerJobs, ok \in BOOLEAN : LogindAnswers(t, ok) \/ FipsTold(t, ok) \/ FipsSet(t, ok)
    \/ ModemUpdate

PowerSpec == PowerInit /\ [][PowerNext]_power

-----------------------------------------------------------------------------
(* A power state that the program tells is one that logind has agreed to, and a restart *)
(* that a factory reset brings about comes after the reset, however requests overlap    *)
(* and whenever the modem is updated.                                                   *)
PowerIsAccepted ==
    /\ powerState \in accepted \union {"on"}
    /\ "reset" \in restartsFor => resets = "yes"
=============================================================================
