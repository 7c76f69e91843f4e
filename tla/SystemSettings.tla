---------------------------- MODULE SystemSettings ----------------------------
(***************************************************************************)
(* The settings that the program keeps or hands on: the section of its own *)
(* settings file, held in memory and written over the file each time; the  *)
(* log levels of the supplicant and of the driver, in two calls; zone and  *)
(* clock; the mode of the radio driver, which is unloaded for it; and the  *)
(* scan attempts in the file of the adaptive world-wide mode.              *)
(*                                                                         *)
(* Only the requests to the D-Bus await something.  The rest runs to its   *)
(* end or fails half-way; the supplicant, timedated, modprobe are outside. *)
(***************************************************************************)
EXTENDS Integers, FiniteSets, Sequences, SequencesExt

CONSTANTS
    SuppLevels, DriverLevels,  \* SupplicantLogLevelEnum, DriverLogLevelEnum
    Values,                    \* what a client may save under a key
    Zones, Dates,              \* with "" for what a request leaves out
    SisoModes, DriverDefault,  \* the parameter's values, and its value when modprobe gives none
    MaxLevelJobs,              \* bound: requests that await the D-Bus
    MaxSettingRequests,        \* bound: requests
    MaxSettingFaults           \* bound: calls that fail, and restarts

ASSUME SettingsAssumption ==
    /\ {MaxLevelJobs, MaxSettingRequests, MaxSettingFaults} \subseteq Nat
    /\ "cut off" \notin Values /\ DriverDefault \in SisoModes /\ "" \in Zones \intersect Dates

VARIABLES
    settings,          \* _parser: the values in the section "settings"
    settingsFile,      \* SUMMIT_RCM_SETTINGS_FILE
    serverLevel,       \* uvicorn_server.config.log_level
    saved,             \* what a client last wanted to be saved, "none" if nothing
    kept,              \* where it is that was told to be saved: "file", "memory", "none"
    supplicant, driver,
    dbusJobs,          \* the requests that await a reply
    pair,              \* the levels of the last request that set both, if none failed since
    zone, clock,
    radio,             \* the mode of lrdmwl and whether it and its interface are loaded
    scan,              \* the lines of awm_cfg: "scan_attempts", pairs of a key and a value, others
    answered,          \* the request that ended last, with what it was told
    settingRequests, settingFaults

stored == <<settings, settingsFile, serverLevel, saved, kept>>
levels == <<supplicant, driver, pair>>
settingVars == <<stored, levels, dbusJobs, zone, clock, radio, scan, answered, settingRequests, settingFaults>>

Keys == {"uvicorn_log_level", "AllowUnauthenticatedRebootReset"}
Fallback == [k \in Keys |-> "fallback"]
Cut == [k \in Keys |-> "cut off"]       \* the file is empty
Nothing == [what |-> "nothing", want |-> "", ok |-> FALSE]

SettingsInit ==
    /\ settings = Fallback /\ settingsFile = Fallback /\ serverLevel = "fallback"
    /\ saved = [k \in Keys |-> "none"] /\ kept = saved
    /\ supplicant \in SuppLevels /\ driver \in DriverLevels /\ pair = <<>> /\ dbusJobs = <<>>
    /\ zone = "" /\ clock = ""
    /\ radio = [mode |-> DriverDefault, core |-> TRUE, interface |-> TRUE]
    /\ scan \in SUBSET {"scan_attempts", "pairs", "others"} \union {{"missing"}}
    /\ answered = Nothing /\ settingRequests = 0 /\ settingFaults = 0

SettingRequest == settingRequests < MaxSettingRequests /\ settingRequests' = settingRequests + 1
SettingFault == settingFaults < MaxSettingFaults /\ settingFaults' = settingFaults + 1
Answer(what, want, ok) == answered' = [what |-> what, want |-> want, ok |-> ok]

-----------------------------------------------------------------------------
(* The settings file. *)

Applied(key, val) == IF key = "uvicorn_log_level" THEN val ELSE serverLevel

(* A save writes all that is in memory; what the program has lost before stays lost. *)
AllKept(key) == [k \in Keys |-> IF k = key \/ kept[k] # "none" THEN "file" ELSE "none"]

(* Mutant of UpdatePersistent: the value is not written. *)
Update(key, val) ==
    /\ SettingRequest
    /\ settings' = [settings EXCEPT ![key] = val] /\ serverLevel' = Applied(key, val)
    /\ saved' = [saved EXCEPT ![key] = val] /\ kept' = AllKept(key)
    /\ Answer("saved", val, TRUE)
    /\ UNCHANGED <<settingsFile, levels, dbusJobs, zone, clock, radio, scan, settingFaults>>

(* update_persistent, then the level of the running server. *)
UpdatePersistent(key, val) ==
    /\ SettingRequest
    /\ settings' = [settings EXCEPT ![key] = val] /\ settingsFile' = settings'
    /\ serverLevel' = Applied(key, val)
    /\ saved' = [saved EXCEPT ![key] = val] /\ kept' = AllKept(key)
    /\ Answer("saved", val, TRUE)
    /\ UNCHANGED <<levels, dbusJobs, zone, clock, radio, scan, settingFaults>>

(* open fails and leaves the file as it was, or has emptied it when writing fails, for all keys; *)
(* the value stays in memory, from where the next save that works writes it.                     *)
SaveFails(key, val, told) ==
    /\ SettingRequest /\ SettingFault
    /\ settings' = [settings EXCEPT ![key] = val] /\ settingsFile' \in {settingsFile, Cut}
    /\ saved' = [saved EXCEPT ![key] = val]
    /\ kept' = [k \in Keys |-> IF k = key THEN (IF told THEN "memory" ELSE "none")
                               ELSE IF kept[k] = "file" /\ settingsFile' = Cut THEN "memory" ELSE kept[k]]
    /\ Answer("saved", val, told)
    /\ UNCHANGED <<serverLevel, levels, dbusJobs, zone, clock, radio, scan>>

(* The resources of v2 and legacy; v2 does not look at what set_allow_unauthenticated_enabled returns. *)
SetWebserverLogLevel(val) ==
    UpdatePersistent("uvicorn_log_level", val) \/ SaveFails("uvicorn_log_level", val, FALSE)
LogsWebserverResource(val) == SetWebserverLogLevel(val)
LogsWebserverResourceLegacy(val) == SetWebserverLogLevel(val)

SetAllowUnauthenticatedEnabled(val, told) ==
    \/ UpdatePersistent("AllowUnauthenticatedRebootReset", val)
    \/ SaveFails("AllowUnauthenticatedRebootReset", val, told)
AllowUnauthenticatedResource(val) == SetAllowUnauthenticatedEnabled(val, TRUE)
AllowUnauthenticatedResourceLegacy(val) == SetAllowUnauthenticatedEnabled(val, FALSE)

(* The program starts again and reads the file, after a stop within a save, which emptied it, *)
(* or at another time; a file that a failed save left empty is read as well.  What was only   *)
(* in memory is lost.                                                                         *)
RestartSettings(inSave) ==
    /\ SettingFault
    /\ settingsFile' = IF inSave THEN Cut ELSE settingsFile
    /\ settings' = (IF settingsFile' = Cut THEN Fallback ELSE settingsFile')
    /\ serverLevel' = settings'["uvicorn_log_level"]
    /\ kept' = [k \in Keys |-> IF kept[k] = "file" /\ ~inSave THEN "file" ELSE "none"] /\ UNCHANGED saved
    /\ dbusJobs' = <<>> /\ pair' = IF dbusJobs = <<>> THEN pair ELSE <<>>
    /\ answered' = Nothing
    /\ UNCHANGED <<supplicant, driver, zone, clock, radio, scan, settingRequests>>

-----------------------------------------------------------------------------
(* Log levels.  Calls reach the D-Bus in the order of the requests, and so do the replies. *)

LevelJob(supp, drv) == [stage |-> "supplicant", supp |-> supp, drv |-> drv, date |-> "", legacy |-> FALSE]
FirstAt(stage) == SelectInSeq(dbusJobs, LAMBDA j : j.stage = stage)

DbusRequest(job) ==
    /\ SettingRequest /\ Len(dbusJobs) < MaxLevelJobs
    /\ dbusJobs' = Append(dbusJobs, job) /\ answered' = Nothing

SetLevels(supp, drv) ==
    /\ DbusRequest(LevelJob(supp, drv))
    /\ UNCHANGED <<stored, levels, zone, clock, radio, scan, settingFaults>>

(* The legacy resource looks at the level of the driver when that of the supplicant is set. *)
LogsConfigResource(supp, drv) == SetLevels(supp, drv)
LogSetting(supp, drv) == SetLevels(supp, drv)
ATSupplicantLevel(supp) == SetLevels(supp, "none")

SetSupplicantDebugLevel ==
    LET t == FirstAt("supplicant")
    IN /\ t > 0
       /\ \/ supplicant' = dbusJobs[t].supp /\ UNCHANGED settingFaults
             /\ dbusJobs' = [dbusJobs EXCEPT ![t].stage = "driver"] /\ answered' = Nothing
          \/ SettingFault /\ UNCHANGED supplicant
             /\ dbusJobs' = RemoveAt(dbusJobs, t) /\ Answer("levels", dbusJobs[t].supp, FALSE)
       /\ UNCHANGED <<stored, driver, pair, zone, clock, radio, scan, settingRequests>>

LevelsEnd(t, drv, both) ==
    /\ driver' = drv
    /\ pair' = IF both THEN <<dbusJobs[t].supp, drv>> ELSE <<>>
    /\ dbusJobs' = RemoveAt(dbusJobs, t) /\ Answer("levels", dbusJobs[t].supp, both \/ dbusJobs[t].drv = "none")

SetWifiDriverDebugLevel ==
    LET t == FirstAt("driver")
    IN /\ t > 0
       /\ \/ /\ dbusJobs[t].drv \in DriverLevels /\ LevelsEnd(t, dbusJobs[t].drv, TRUE)
             /\ UNCHANGED settingFaults
          \/ dbusJobs[t].drv \notin DriverLevels /\ LevelsEnd(t, driver, FALSE) /\ UNCHANGED settingFaults
          \/ dbusJobs[t].drv \in DriverLevels /\ SettingFault /\ LevelsEnd(t, driver, FALSE)
       /\ UNCHANGED <<stored, supplicant, zone, clock, radio, scan, settingRequests>>

(* at+logdebug for the driver. *)
ATDriverLevel(drv) ==
    /\ SettingRequest /\ driver' = drv /\ pair' = <<>> /\ Answer("driver", drv, TRUE)
    /\ UNCHANGED <<stored, supplicant, dbusJobs, zone, clock, radio, scan, settingFaults>>

-----------------------------------------------------------------------------
(* Zone and clock.  set_time_zone logs what timedated refuses and returns. *)

PutDateTime(z, date, legacy) ==
    /\ z # "" \/ date # ""
    /\ DbusRequest([LevelJob(z, "none") EXCEPT !.stage = IF z # "" THEN "zone" ELSE "date",
                                               !.date = date, !.legacy = legacy])
    /\ UNCHANGED <<stored, levels, zone, clock, radio, scan, settingFaults>>

(* The legacy resource sets the zone or the clock, v2 one after the other. *)
DateTimeResource(z, date) == PutDateTime(z, date, FALSE)
DateTimeSetting(z, date) == PutDateTime(z, date, TRUE)
TimezoneSet(z) == PutDateTime(z, "", TRUE)
Datetime(date) == PutDateTime("", date, TRUE)

SetTimeZone(ok) ==
    LET t == FirstAt("zone")
        goesOn == dbusJobs[t].date # "" /\ ~dbusJobs[t].legacy
    IN /\ t > 0
       /\ IF ok THEN UNCHANGED settingFaults ELSE SettingFault
       /\ zone' = IF ok THEN dbusJobs[t].supp ELSE zone
       /\ IF goesOn THEN dbusJobs' = [dbusJobs EXCEPT ![t].stage = "date"] /\ answered' = Nothing
          ELSE dbusJobs' = RemoveAt(dbusJobs, t) /\ Answer("zone", dbusJobs[t].supp, TRUE)
       /\ UNCHANGED <<stored, levels, clock, radio, scan, settingRequests>>

SetTimeManual(ok) ==
    LET t == FirstAt("date")
    IN /\ t > 0
       /\ IF ok THEN UNCHANGED settingFaults ELSE SettingFault
       /\ clock' = IF ok THEN dbusJobs[t].date ELSE clock
       /\ dbusJobs' = RemoveAt(dbusJobs, t) /\ Answer("date", dbusJobs[t].date, ok)
       /\ UNCHANGED <<stored, levels, zone, radio, scan, settingRequests>>

-----------------------------------------------------------------------------
(* set_siso_mode.  -1 asks for the default of the driver, which is then loaded without a parameter; *)
(* but the number of at+sisomode is not the member of the enumeration, and is handed to the driver. *)
LoadedAs(mode) == IF mode = -1 THEN DriverDefault ELSE mode

Outcome(core, interface, mode, ok) ==
    [radio |-> [mode |-> mode, core |-> core, interface |-> interface], ok |-> ok]

(* modprobe may fail at the removal of either module and at the loading of either. *)
Reloads(as) ==
    {Outcome(TRUE, TRUE, radio.mode, FALSE), Outcome(TRUE, FALSE, radio.mode, FALSE),
     Outcome(FALSE, FALSE, radio.mode, FALSE), Outcome(TRUE, FALSE, as, FALSE),
     Outcome(TRUE, TRUE, as, TRUE)}

(* Mutant of SisoOutcomes: how the driver's interface loads is not looked at. *)
SisoOutcomesUnseen(mode, as) ==
    IF radio.core /\ radio.interface /\ radio.mode # mode
    THEN Reloads(as) \union {Outcome(TRUE, FALSE, as, TRUE)}
    ELSE {[radio |-> radio, ok |-> radio.core /\ radio.mode = mode]}

(* The mode is read first, which fails without the module, then the interface that holds it. *)
SisoOutcomes(mode, as) ==
    IF radio.core /\ radio.interface /\ radio.mode # mode THEN Reloads(as)
    ELSE {[radio |-> radio, ok |-> radio.core /\ radio.mode = mode]}

SetSisoMode(mode, as) ==
    /\ SettingRequest
    /\ \E end \in SisoOutcomes(mode, as) :
         /\ radio' = end.radio
         /\ IF end.ok \/ end.radio = radio THEN UNCHANGED settingFaults ELSE SettingFault
         /\ answered' = [what |-> "siso", want |-> <<{mode, as}, radio.interface>>, ok |-> end.ok]
    /\ UNCHANGED <<stored, levels, dbusJobs, zone, clock, scan>>

RadioSISOModeResource(mode) == SetSisoMode(mode, LoadedAs(mode))
SISOModeCommand(mode) == SetSisoMode(mode, mode)

(* The legacy resource has a string, which is no mode. *)
RadioSISOModeResourceLegacy ==
    /\ SettingRequest /\ Answer("siso", "a string", FALSE)
    /\ UNCHANGED <<stored, levels, dbusJobs, zone, clock, radio, scan, settingFaults>>

-----------------------------------------------------------------------------
(* set_scan_attempts writes the pairs that it has read over the file, without the key, or with *)
(* the value 0; lines of another form are dropped.                                              *)
Stored(enable) == (scan \ {"others", "scan_attempts"}) \union (IF enable THEN {} ELSE {"scan_attempts"})

SetScanAttempts(enable) ==
    /\ SettingRequest
    /\ IF scan = {"missing"} THEN UNCHANGED scan
       ELSE scan' = IF enable /\ "scan_attempts" \notin scan THEN scan ELSE Stored(enable)
    /\ answered' = [what |-> "scan", want |-> IF enable THEN "on" ELSE "off", ok |-> scan # {"missing"}]
    /\ UNCHANGED <<stored, levels, dbusJobs, zone, clock, radio, settingFaults>>

(* Only at+awmscan does not look for lite mode; without it v2 answers the state, legacy an error. *)
AWMResource(enable, lite) ==
    IF lite THEN SetScanAttempts(enable)
    ELSE SettingRequest /\ answered' = Nothing
         /\ UNCHANGED <<stored, levels, dbusJobs, zone, clock, radio, scan, settingFaults>>
AWMResourceLegacy(enable) == SetScanAttempts(enable)
AWMScan(enable) == SetScanAttempts(enable)

-----------------------------------------------------------------------------
StoreNext ==
    \/ \E val \in Values :
         \/ LogsWebserverResource(val) \/ LogsWebserverResourceLegacy(val)
         \/ AllowUnauthenticatedResource(val) \/ AllowUnauthenticatedResourceLegacy(val)
    \/ \E inSave \in BOOLEAN : RestartSettings(inSave)

DbusNext ==
    \/ \E supp \in SuppLevels :
         \/ \E drv \in DriverLevels : LogsConfigResource(supp, drv)
         \/ \E drv \in DriverLevels \union {"bad"} : LogSetting(supp, drv)
         \/ ATSupplicantLevel(supp)
    \/ SetSupplicantDebugLevel \/ SetWifiDriverDebugLevel
    \/ \E drv \in DriverLevels : ATDriverLevel(drv)
    \/ \E z \in Zones, date \in Dates : DateTimeResource(z, date) \/ DateTimeSetting(z, date)
    \/ \E z \in Zones : TimezoneSet(z)
    \/ \E date \in Dates : Datetime(date)
    \/ \E ok \in BOOLEAN : SetTimeZone(ok) \/ SetTimeManual(ok)
    \/ RestartSettings(FALSE)

DeviceNext ==
    \/ \E mode \in SisoModes \union {-1} : RadioSISOModeResource(mode) \/ SISOModeCommand(mode)
    \/ RadioSISOModeResourceLegacy
    \/ \E enable, lite \in BOOLEAN : AWMResource(enable, lite)
    \/ \E enable \in BOOLEAN : AWMResourceLegacy(enable) \/ AWMScan(enable)

SettingsSpec == SettingsInit /\ [][StoreNext \/ DbusNext \/ DeviceNext]_settingVars

-----------------------------------------------------------------------------
(* What a client was told to be saved is in the file, through restarts, requests that are       *)
(* refused and files that do not open, from a save that worked until one is cut off half-way,   *)
(* which empties the file for every key.  It is in memory, and the server runs at the level,    *)
(* until the restart that finds the file emptied or older; v2 tells it of saves that failed too. *)
SettingsSurvive ==
    \A k \in Keys :
        /\ kept[k] = "file" => settingsFile[k] = saved[k]
        /\ kept[k] # "none" => settings[k] = saved[k] /\ (k = "uvicorn_log_level" => serverLevel = saved[k])

(* Two requests that each set both levels do not leave the one of the first with the other of *)
(* the second, though each awaits the supplicant in between.                                   *)
LevelsTogether == dbusJobs = <<>> /\ pair # <<>> => <<supplicant, driver>> = pair

(* A client that is told that its radio mode, its date or its scan attempts are set has them, *)
(* the mode with the driver's interface loaded, if it was before.                              *)
AnswerHolds ==
    answered.ok =>
        /\ answered.what = "siso" => radio.core /\ radio.mode \in answered.want[1] /\ (answered.want[2] => radio.interface)
        /\ answered.what = "date" => clock = answered.want
        /\ answered.what = "scan" => ("scan_attempts" \in scan <=> answered.want = "off")

(* Both: what is answered is done, and so it is of two that set both levels. *)
AnsweredIsDone == LevelsTogether /\ AnswerHolds
=============================================================================
