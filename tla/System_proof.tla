----------------------------- MODULE System_proof -----------------------------
(***************************************************************************)
(* What the program manages on its system, part by part: each holds for    *)
(* any values, any number of requests, and any faults.                     *)
(***************************************************************************)
EXTENDS Lists_proof, Firewall, LazyRoutes, NtpSources, ServiceUnits, SystemFiles, SystemPower, SystemSettings,
        SequenceTheorems, WellFoundedInduction, TLAPS

-----------------------------------------------------------------------------
(***************************************************************************)
(* For any values and any number of requests, failed saves and restarts,   *)
(* also those within a save: what was told to be saved is still there, and *)
(* so is what was told to be done.                                         *)
(***************************************************************************)

(* The two keys are in memory and in the file, which is whole while it is promised to hold one. *)
StoreInv ==
    /\ DOMAIN settings = Keys /\ settings = [k \in Keys |-> settings[k]]
    /\ DOMAIN settingsFile = Keys /\ settingsFile = [k \in Keys |-> settingsFile[k]]
    /\ DOMAIN saved = Keys /\ DOMAIN kept = Keys
    /\ \A k \in Keys : settings[k] # "cut off"
    /\ settingsFile = Cut \/ \A k \in Keys : settingsFile[k] # "cut off"
    /\ \A k \in Keys : kept[k] = "file" => settingsFile # Cut
    /\ SettingsSurvive

-----------------------------------------------------------------------------
LEMMA StoreInit == SettingsInit => StoreInv
BY DEF SettingsInit, StoreInv, SettingsSurvive, Fallback

LEMMA SavedStep ==
    ASSUME StoreInv, NEW key \in Keys, NEW val \in Values, UpdatePersistent(key, val)
    PROVE  StoreInv'
<1>1. settings' = [settings EXCEPT ![key] = val] /\ settingsFile' = settings'
  BY DEF UpdatePersistent
<1>2. saved' = [saved EXCEPT ![key] = val] /\ serverLevel' = Applied(key, val) /\ kept' = AllKept(key)
  BY DEF UpdatePersistent
<1>3. /\ DOMAIN settings' = Keys /\ settings' = [k \in Keys |-> settings'[k]]
      /\ \A k \in Keys : settings'[k] # "cut off"
  BY <1>1, SettingsAssumption DEF StoreInv
<1>4. \A k \in Keys : settings'[k] # Cut[k]
  BY <1>3 DEF Cut
<1>5. settingsFile' # Cut
  BY <1>1, <1>4 DEF Keys
<1>6. \A k \in Keys : kept'[k] # "none" =>
         settings'[k] = saved'[k] /\ (k = "uvicorn_log_level" => serverLevel' = saved'[k])
  BY <1>1, <1>2 DEF StoreInv, SettingsSurvive, Applied, AllKept
<1>7. DOMAIN saved' = Keys /\ DOMAIN kept' = Keys
  BY <1>2 DEF StoreInv, AllKept
<1> QED BY <1>1, <1>3, <1>5, <1>6, <1>7 DEF StoreInv, SettingsSurvive

(* Only the setting that no level of the server follows may be told to be saved in vain. *)
LEMMA UnsavedStep ==
    ASSUME StoreInv, NEW key \in Keys, NEW val \in Values, NEW told \in BOOLEAN, SaveFails(key, val, told),
           told => key # "uvicorn_log_level"
    PROVE  StoreInv'
<1>1. /\ settings' = [settings EXCEPT ![key] = val] /\ settingsFile' \in {settingsFile, Cut}
      /\ serverLevel' = serverLevel /\ saved' = [saved EXCEPT ![key] = val]
  BY DEF SaveFails, levels
<1>2. /\ DOMAIN kept' = Keys
      /\ kept'[key] = IF told THEN "memory" ELSE "none"
      /\ \A k \in Keys : k # key =>
           kept'[k] = IF kept[k] = "file" /\ settingsFile' = Cut THEN "memory" ELSE kept[k]
  BY DEF SaveFails
<1>3. /\ DOMAIN settings' = Keys /\ settings' = [k \in Keys |-> settings'[k]] /\ DOMAIN saved' = Keys
      /\ \A k \in Keys : settings'[k] # "cut off"
  BY <1>1, SettingsAssumption DEF StoreInv
<1>4. /\ DOMAIN settingsFile' = Keys /\ settingsFile' = [k \in Keys |-> settingsFile'[k]]
      /\ settingsFile' = Cut \/ \A k \in Keys : settingsFile'[k] # "cut off"
  BY <1>1 DEF StoreInv, Cut
<1>5. \A k \in Keys : kept'[k] = "file" =>
         settingsFile' # Cut /\ settingsFile' = settingsFile /\ k # key /\ kept[k] = "file"
  BY <1>1, <1>2 DEF StoreInv
<1>6. \A k \in Keys : kept'[k] # "none" =>
         settings'[k] = saved'[k] /\ (k = "uvicorn_log_level" => serverLevel' = saved'[k])
  BY <1>1, <1>2 DEF StoreInv, SettingsSurvive
<1>7. \A k \in Keys : kept'[k] = "file" => settingsFile'[k] = saved'[k]
  BY <1>1, <1>5 DEF StoreInv, SettingsSurvive
<1> QED BY <1>2, <1>3, <1>4, <1>5, <1>6, <1>7 DEF StoreInv, SettingsSurvive

(* What is read again is what was saved, or nothing is promised any more. *)
LEMMA RestartStep ==
    ASSUME StoreInv, NEW inSave \in BOOLEAN, RestartSettings(inSave)
    PROVE  StoreInv'
<1>1. /\ settingsFile' = IF inSave THEN Cut ELSE settingsFile
      /\ settings' = (IF settingsFile' = Cut THEN Fallback ELSE settingsFile')
      /\ serverLevel' = settings'["uvicorn_log_level"] /\ saved' = saved
      /\ kept' = [k \in Keys |-> IF kept[k] = "file" /\ ~inSave THEN "file" ELSE "none"]
  BY DEF RestartSettings
<1>2. /\ DOMAIN settingsFile' = Keys /\ settingsFile' = [k \in Keys |-> settingsFile'[k]]
      /\ settingsFile' = Cut \/ \A k \in Keys : settingsFile'[k] # "cut off"
  BY <1>1 DEF StoreInv, Cut
<1>3. /\ DOMAIN settings' = Keys /\ settings' = [k \in Keys |-> settings'[k]]
      /\ \A k \in Keys : settings'[k] # "cut off"
  BY <1>1, <1>2 DEF Fallback
<1>4. \A k \in Keys : kept'[k] # "none" =>
         settingsFile' # Cut /\ settingsFile'[k] = saved'[k] /\ settings' = settingsFile'
  BY <1>1 DEF StoreInv, SettingsSurvive
<1>5. DOMAIN saved' = Keys /\ DOMAIN kept' = Keys
  BY <1>1 DEF StoreInv
<1> QED BY <1>1, <1>2, <1>3, <1>4, <1>5 DEF StoreInv, SettingsSurvive, Keys

LEMMA StoredStays == ASSUME StoreInv, UNCHANGED stored PROVE StoreInv'
BY DEF StoreInv, SettingsSurvive, stored

(* Levels, zone, clock, radio and scan attempts share nothing with the store. *)
LEMMA DbusLeaves == ASSUME DbusNext, ~RestartSettings(FALSE) PROVE UNCHANGED stored
<1>1. ASSUME NEW supp, NEW drv,
             LogsConfigResource(supp, drv) \/ LogSetting(supp, drv) \/ ATSupplicantLevel(supp)
      PROVE  UNCHANGED stored
  BY <1>1 DEF LogsConfigResource, LogSetting, ATSupplicantLevel, SetLevels
<1>2. CASE SetSupplicantDebugLevel
  BY <1>2 DEF SetSupplicantDebugLevel
<1>3. CASE SetWifiDriverDebugLevel
  BY <1>3 DEF SetWifiDriverDebugLevel
<1>4. ASSUME NEW drv, ATDriverLevel(drv)
      PROVE  UNCHANGED stored
  BY <1>4 DEF ATDriverLevel
<1>5. ASSUME NEW z, NEW date,
             DateTimeResource(z, date) \/ DateTimeSetting(z, date) \/ TimezoneSet(z) \/ Datetime(date)
      PROVE  UNCHANGED stored
  BY <1>5 DEF DateTimeResource, DateTimeSetting, TimezoneSet, Datetime, PutDateTime
<1>6. ASSUME NEW ok, SetTimeZone(ok) \/ SetTimeManual(ok)
      PROVE  UNCHANGED stored
  BY <1>6 DEF SetTimeZone, SetTimeManual
<1> QED BY <1>1, <1>2, <1>3, <1>4, <1>5, <1>6 DEF DbusNext

LEMMA DeviceLeaves == ASSUME DeviceNext PROVE UNCHANGED stored
<1>1. ASSUME NEW mode, RadioSISOModeResource(mode) \/ SISOModeCommand(mode)
      PROVE  UNCHANGED stored
  BY <1>1 DEF RadioSISOModeResource, SISOModeCommand, SetSisoMode
<1>2. CASE RadioSISOModeResourceLegacy
  BY <1>2 DEF RadioSISOModeResourceLegacy
<1>3. ASSUME NEW enable, NEW lite,
             AWMResource(enable, lite) \/ AWMResourceLegacy(enable) \/ AWMScan(enable)
      PROVE  UNCHANGED stored
  BY <1>3 DEF AWMResource, AWMResourceLegacy, AWMScan, SetScanAttempts
<1> QED BY <1>1, <1>2, <1>3 DEF DeviceNext

(* What a client was told to be saved (update_persistent) is in the file, through restarts and *)
(* saves that do not open it, from a save that worked until one is cut off half-way, and in    *)
(* memory until a restart finds the file emptied or older; the server runs at the saved level. *)
THEOREM SavedSurvives == SettingsSpec => []SettingsSurvive
<1>1. StoreInv /\ [StoreNext \/ DbusNext \/ DeviceNext]_settingVars => StoreInv'
  <2> SUFFICES ASSUME StoreInv, [StoreNext \/ DbusNext \/ DeviceNext]_settingVars
               PROVE  StoreInv'
    OBVIOUS
  <2>1. ASSUME NEW val \in Values, LogsWebserverResource(val) \/ LogsWebserverResourceLegacy(val)
        PROVE  StoreInv'
    BY <2>1, SavedStep, UnsavedStep
       DEF LogsWebserverResource, LogsWebserverResourceLegacy, SetWebserverLogLevel, Keys
  <2>2. ASSUME NEW val \in Values, AllowUnauthenticatedResource(val) \/ AllowUnauthenticatedResourceLegacy(val)
        PROVE  StoreInv'
    BY <2>2, SavedStep, UnsavedStep
       DEF AllowUnauthenticatedResource, AllowUnauthenticatedResourceLegacy,
           SetAllowUnauthenticatedEnabled, Keys
  <2>3. ASSUME NEW inSave \in BOOLEAN, RestartSettings(inSave)
        PROVE  StoreInv'
    BY <2>3, RestartStep
  <2>4. CASE StoreNext
    BY <2>1, <2>2, <2>3, <2>4 DEF StoreNext
  <2>5. CASE DbusNext
    BY <2>3, <2>5, DbusLeaves, StoredStays
  <2>6. CASE DeviceNext
    BY <2>6, DeviceLeaves, StoredStays
  <2>7. CASE UNCHANGED settingVars
    BY <2>7, StoredStays DEF settingVars
  <2> QED BY <2>4, <2>5, <2>6, <2>7
<1>2. StoreInv => SettingsSurvive
  BY DEF StoreInv
<1> QED BY <1>1, <1>2, StoreInit, PTL DEF SettingsSpec

-----------------------------------------------------------------------------
(* The requests that await the D-Bus.  Calls reach it in their order, so those whose      *)
(* supplicant's level is set come first, and it is that of the last of them.               *)
DbusJobSet ==
    [stage : {"supplicant", "driver", "zone", "date"}, supp : SuppLevels \union Zones,
     drv : DriverLevels \union {"bad", "none"}, date : Dates, legacy : BOOLEAN]

InOrder(jobs) ==
    \A i, j \in 1 .. Len(jobs) : i < j /\ jobs[j].stage = "driver" => jobs[i].stage # "supplicant"
LastIsSet(jobs, supp) ==
    \A j \in 1 .. Len(jobs) :
        jobs[j].stage = "driver" /\ (\A k \in 1 .. Len(jobs) : k > j => jobs[k].stage # "driver") => jobs[j].supp = supp
NoneHalfSet(jobs) == \A j \in 1 .. Len(jobs) : jobs[j].stage # "driver"

DbusInv ==
    /\ dbusJobs \in Seq(DbusJobSet)
    /\ InOrder(dbusJobs) /\ LastIsSet(dbusJobs, supplicant)
    /\ NoneHalfSet(dbusJobs) /\ pair # <<>> => <<supplicant, driver>> = pair

-----------------------------------------------------------------------------
(* The first of the requests at a stage. *)
LEMMA First ==
    ASSUME NEW S, dbusJobs \in Seq(S), NEW stage
    PROVE  /\ FirstAt(stage) \in Int
           /\ FirstAt(stage) > 0 =>
                /\ FirstAt(stage) \in 1 .. Len(dbusJobs) /\ dbusJobs[FirstAt(stage)].stage = stage
                /\ \A i \in 1 .. FirstAt(stage) - 1 : dbusJobs[i].stage # stage
<1> DEFINE I == {i \in 1 .. Len(dbusJobs) : dbusJobs[i].stage = stage}
<1>1. FirstAt(stage) = IF I # {} THEN Min(I) ELSE 0
  BY DEF FirstAt, SelectInSeq
<1>2. Len(dbusJobs) \in Nat /\ I \in SUBSET Nat
  BY LenProperties
<1>3. CASE I # {}
  <2>1. Min(I) \in I /\ \A i \in I : Min(I) <= i
    BY <1>2, <1>3, Least
  <2>2. Min(I) \in 1 .. Len(dbusJobs) /\ dbusJobs[Min(I)].stage = stage
    BY <2>1
  <2>3. \A i \in 1 .. Min(I) - 1 : i \notin I
    BY <1>2, <2>1, <2>2
  <2>4. \A i \in 1 .. Min(I) - 1 : dbusJobs[i].stage # stage
    BY <1>2, <2>2, <2>3
  <2> HIDE DEF I
  <2> QED BY <1>1, <1>2, <1>3, <2>2, <2>4
<1>4. CASE I = {}
  BY <1>1, <1>4
<1> QED BY <1>3, <1>4

(* A request that goes, if it was the first whose supplicant's level is set or is at another stage. *)
LEMMA OneLess ==
    ASSUME NEW jobs \in Seq(DbusJobSet), NEW t \in 1 .. Len(jobs), NEW supp, InOrder(jobs), LastIsSet(jobs, supp),
           jobs[t].stage # "driver" \/ \A i \in 1 .. t - 1 : jobs[i].stage # "driver"
    PROVE  /\ RemoveAt(jobs, t) \in Seq(DbusJobSet)
           /\ InOrder(RemoveAt(jobs, t)) /\ LastIsSet(RemoveAt(jobs, t), supp)
           /\ NoneHalfSet(RemoveAt(jobs, t)) =>
                IF jobs[t].stage = "driver" THEN jobs[t].supp = supp ELSE NoneHalfSet(jobs)
<1> DEFINE less == RemoveAt(jobs, t)
           old(i) == IF i < t THEN i ELSE i + 1
           new(i) == IF i < t THEN i ELSE i - 1
<1>1. Len(jobs) \in Nat /\ Len(jobs) > 0
  BY LenProperties
<1>2. /\ less \in Seq(DbusJobSet) /\ Len(less) = Len(jobs) - 1
      /\ \A i \in 1 .. Len(less) : less[i] = jobs[old(i)] /\ old(i) \in 1 .. Len(jobs) /\ old(i) # t
  <2>1. /\ less \in Seq(DbusJobSet) /\ Len(less) = Len(jobs) - 1
        /\ \A i \in 1 .. Len(jobs) - 1 : less[i] = jobs[old(i)]
    BY Removed
  <2> HIDE DEF less
  <2> QED BY <1>1, <2>1
<1>3. ASSUME NEW i \in 1 .. Len(jobs), i # t
      PROVE  new(i) \in 1 .. Len(less) /\ old(new(i)) = i /\ less[new(i)] = jobs[i]
  <2>1. Len(less) = Len(jobs) - 1
    BY <1>2
  <2> HIDE DEF less
  <2>2. new(i) \in 1 .. Len(jobs) - 1 /\ old(new(i)) = i
    BY <1>1, <1>3
  <2> HIDE DEF old, new
  <2> QED BY <1>2, <2>1, <2>2
<1>4. /\ \A i, j \in 1 .. Len(less) : i < j => old(i) < old(j)
      /\ \A i \in 1 .. Len(jobs), j \in 1 .. Len(less) : i # t /\ i > old(j) => new(i) > j
  BY <1>1, <1>2
<1> HIDE DEF less, old, new
<1>5. InOrder(less)
  BY <1>2, <1>4 DEF InOrder
<1>6. LastIsSet(less, supp)
  <2> SUFFICES ASSUME NEW j \in 1 .. Len(less), less[j].stage = "driver",
                      \A k \in 1 .. Len(less) : k > j => less[k].stage # "driver"
               PROVE  less[j].supp = supp
    BY DEF LastIsSet
  <2>1. jobs[old(j)].stage = "driver" /\ old(j) \in 1 .. Len(jobs) /\ old(j) # t
    BY <1>2
  <2>2. ASSUME NEW k \in 1 .. Len(jobs), k > old(j)
        PROVE  jobs[k].stage # "driver"
    <3>1. CASE k = t
      BY <2>1, <2>2, <3>1
    <3>2. CASE k # t
      BY <1>3, <1>4, <2>2, <3>2
    <3> QED BY <3>1, <3>2
  <2> QED BY <1>2, <2>1, <2>2 DEF LastIsSet
<1>7. ASSUME NoneHalfSet(less)
      PROVE  IF jobs[t].stage = "driver" THEN jobs[t].supp = supp ELSE NoneHalfSet(jobs)
  <2>1. \A i \in 1 .. Len(jobs) : i # t => jobs[i].stage # "driver"
    BY <1>3, <1>7 DEF NoneHalfSet
  <2> QED BY <2>1 DEF NoneHalfSet, LastIsSet
<1> QED BY <1>2, <1>5, <1>6, <1>7 DEF less

-----------------------------------------------------------------------------
LEMMA DbusStart == SettingsInit => DbusInv /\ AnswerHolds
<1> SUFFICES ASSUME SettingsInit PROVE DbusInv /\ AnswerHolds
  OBVIOUS
<1>1. dbusJobs = <<>> /\ Len(dbusJobs) = 0 /\ dbusJobs \in Seq(DbusJobSet) /\ pair = <<>> /\ answered.ok = FALSE
  BY EmptySeq DEF SettingsInit, Nothing
<1> QED BY <1>1 DEF DbusInv, InOrder, LastIsSet, NoneHalfSet, AnswerHolds

LEMMA LevelQueued ==
    ASSUME DbusInv, NEW job \in DbusJobSet, job.stage # "driver", DbusRequest(job), UNCHANGED levels
    PROVE  DbusInv' /\ AnswerHolds'
<1>1. Len(dbusJobs) \in Nat
  BY LenProperties DEF DbusInv
<1>2. /\ dbusJobs' \in Seq(DbusJobSet) /\ Len(dbusJobs') = Len(dbusJobs) + 1
      /\ \A i \in 1 .. Len(dbusJobs) : dbusJobs'[i] = dbusJobs[i]
      /\ dbusJobs'[Len(dbusJobs) + 1] = job
  BY <1>1 DEF DbusRequest, DbusInv
<1>3. InOrder(dbusJobs') /\ LastIsSet(dbusJobs', supplicant)
  <2>1. \A j \in 1 .. Len(dbusJobs') :
           dbusJobs'[j].stage = "driver" => j \in 1 .. Len(dbusJobs) /\ dbusJobs'[j] = dbusJobs[j]
    BY <1>1, <1>2
  <2>2. InOrder(dbusJobs')
    <3> SUFFICES ASSUME NEW i \in 1 .. Len(dbusJobs'), NEW j \in 1 .. Len(dbusJobs'), i < j,
                        dbusJobs'[j].stage = "driver"
                 PROVE  dbusJobs'[i].stage # "supplicant"
      BY DEF InOrder
    <3>1. j \in 1 .. Len(dbusJobs) /\ i \in 1 .. Len(dbusJobs) /\ dbusJobs[j].stage = "driver"
      BY <1>1, <1>2, <2>1
    <3> QED BY <1>2, <3>1 DEF DbusInv, InOrder
  <2>3. LastIsSet(dbusJobs', supplicant)
    <3> SUFFICES ASSUME NEW j \in 1 .. Len(dbusJobs'), dbusJobs'[j].stage = "driver",
                        \A k \in 1 .. Len(dbusJobs') : k > j => dbusJobs'[k].stage # "driver"
                 PROVE  dbusJobs'[j].supp = supplicant
      BY DEF LastIsSet
    <3>1. j \in 1 .. Len(dbusJobs) /\ dbusJobs'[j] = dbusJobs[j]
      BY <2>1
    <3>2. \A k \in 1 .. Len(dbusJobs) : k > j => dbusJobs[k].stage # "driver"
      BY <1>1, <1>2
    <3> QED BY <3>1, <3>2 DEF DbusInv, LastIsSet
  <2> QED BY <2>2, <2>3
<1>4. NoneHalfSet(dbusJobs') => NoneHalfSet(dbusJobs)
  BY <1>1, <1>2 DEF NoneHalfSet
<1>5. AnswerHolds'
  BY DEF DbusRequest, Nothing, AnswerHolds
<1> QED BY <1>2, <1>3, <1>4, <1>5 DEF DbusInv, levels

(* The level of the supplicant is set for the first that waits for it: it is now the last half set. *)
LEMMA SupplicantStep ==
    ASSUME DbusInv, SetSupplicantDebugLevel
    PROVE  DbusInv' /\ AnswerHolds'
<1> DEFINE t == FirstAt("supplicant")
<1>1. Len(dbusJobs) \in Nat /\ \A i \in 1 .. Len(dbusJobs) : dbusJobs[i] \in DbusJobSet
  BY LenProperties, ElementOfSeq DEF DbusInv
<1>2. /\ t \in 1 .. Len(dbusJobs) /\ dbusJobs[t].stage = "supplicant" /\ driver' = driver /\ pair' = pair
      /\ \A i \in 1 .. t - 1 : dbusJobs[i].stage # "supplicant"
  BY First DEF SetSupplicantDebugLevel, DbusInv
<1> HIDE DEF t
<1>3. CASE /\ supplicant' = dbusJobs[t].supp /\ answered' = Nothing
           /\ dbusJobs' = [dbusJobs EXCEPT ![t].stage = "driver"]
  <2> DEFINE job == [dbusJobs[t] EXCEPT !.stage = "driver"]
  <2>1. job \in DbusJobSet /\ job.stage = "driver" /\ job.supp = dbusJobs[t].supp
    BY <1>1, <1>2 DEF DbusJobSet
  <2>2. dbusJobs' = [dbusJobs EXCEPT ![t] = job]
    BY <1>3
  <2> HIDE DEF job
  <2>3. /\ dbusJobs' \in Seq(DbusJobSet) /\ Len(dbusJobs') = Len(dbusJobs) /\ dbusJobs'[t] = job
        /\ \A i \in 1 .. Len(dbusJobs) : i # t => dbusJobs'[i] = dbusJobs[i]
    BY <1>2, <2>1, <2>2, ExceptSeq DEF DbusInv
  <2>4. \A i \in 1 .. Len(dbusJobs) : i > t => dbusJobs[i].stage # "driver"
    BY <1>2 DEF DbusInv, InOrder
  <2>5. InOrder(dbusJobs')
    <3> SUFFICES ASSUME NEW i \in 1 .. Len(dbusJobs'), NEW j \in 1 .. Len(dbusJobs'), i < j,
                        dbusJobs'[j].stage = "driver"
                 PROVE  dbusJobs'[i].stage # "supplicant"
      BY DEF InOrder
    <3>1. CASE i = t
      BY <2>1, <2>3, <3>1
    <3>2. CASE i # t /\ j = t
      <4>1. i \in 1 .. t - 1
        BY <1>1, <1>2, <2>3, <3>2
      <4> QED BY <1>2, <2>3, <3>2, <4>1
    <3>3. CASE i # t /\ j # t
      BY <2>3, <3>3 DEF DbusInv, InOrder
    <3> QED BY <3>1, <3>2, <3>3
  <2>6. LastIsSet(dbusJobs', supplicant')
    <3> SUFFICES ASSUME NEW j \in 1 .. Len(dbusJobs'), dbusJobs'[j].stage = "driver",
                        \A k \in 1 .. Len(dbusJobs') : k > j => dbusJobs'[k].stage # "driver"
                 PROVE  dbusJobs'[j].supp = supplicant'
      BY DEF LastIsSet
    <3>1. j = t
      <4>1. ~(t > j)
        BY <1>2, <2>1, <2>3
      <4>2. ~(j > t)
        BY <1>1, <1>2, <2>3, <2>4
      <4> QED BY <1>1, <1>2, <2>3, <4>1, <4>2
    <3> QED BY <1>3, <2>1, <2>3, <3>1
  <2>7. ~NoneHalfSet(dbusJobs')
    BY <1>2, <2>1, <2>3 DEF NoneHalfSet
  <2> QED BY <1>3, <2>3, <2>5, <2>6, <2>7 DEF DbusInv, AnswerHolds, Nothing
<1>4. CASE /\ supplicant' = supplicant /\ dbusJobs' = RemoveAt(dbusJobs, t)
           /\ Answer("levels", dbusJobs[t].supp, FALSE)
  BY <1>2, <1>4, OneLess DEF DbusInv, Answer, AnswerHolds
<1> QED BY <1>3, <1>4 DEF SetSupplicantDebugLevel, t

(* With the level of the driver the first that is half set is done, or half done. *)
LEMMA DriverStep ==
    ASSUME DbusInv, SetWifiDriverDebugLevel
    PROVE  DbusInv' /\ AnswerHolds'
<1> DEFINE t == FirstAt("driver")
<1>1. /\ t \in 1 .. Len(dbusJobs) /\ dbusJobs[t].stage = "driver" /\ supplicant' = supplicant
      /\ \A i \in 1 .. t - 1 : dbusJobs[i].stage # "driver"
  BY First DEF SetWifiDriverDebugLevel, DbusInv
<1>2. PICK drv, both : LevelsEnd(t, drv, both)
  BY DEF SetWifiDriverDebugLevel
<1> HIDE DEF t
<1>3. /\ dbusJobs' = RemoveAt(dbusJobs, t) /\ answered'.what = "levels"
      /\ driver' = drv /\ pair' = IF both THEN <<dbusJobs[t].supp, drv>> ELSE <<>>
  BY <1>2 DEF LevelsEnd, Answer
<1>4. /\ dbusJobs' \in Seq(DbusJobSet) /\ InOrder(dbusJobs') /\ LastIsSet(dbusJobs', supplicant')
      /\ NoneHalfSet(dbusJobs') => dbusJobs[t].supp = supplicant'
  BY <1>1, <1>3, OneLess DEF DbusInv
<1> QED BY <1>3, <1>4 DEF DbusInv, AnswerHolds

(* Zone and clock wait in the same queue. *)
LEMMA ZoneStep ==
    ASSUME DbusInv, NEW ok \in BOOLEAN, SetTimeZone(ok)
    PROVE  DbusInv' /\ AnswerHolds'
<1> DEFINE t == FirstAt("zone")
<1>1. Len(dbusJobs) \in Nat /\ \A i \in 1 .. Len(dbusJobs) : dbusJobs[i] \in DbusJobSet
  BY LenProperties, ElementOfSeq DEF DbusInv
<1>2. t \in 1 .. Len(dbusJobs) /\ dbusJobs[t].stage = "zone" /\ UNCHANGED levels
  BY First DEF SetTimeZone, DbusInv
<1> HIDE DEF t
<1>3. CASE dbusJobs' = [dbusJobs EXCEPT ![t].stage = "date"] /\ answered' = Nothing
  <2> DEFINE job == [dbusJobs[t] EXCEPT !.stage = "date"]
  <2>1. job \in DbusJobSet /\ job.stage = "date"
    BY <1>1, <1>2 DEF DbusJobSet
  <2>2. dbusJobs' = [dbusJobs EXCEPT ![t] = job]
    BY <1>3
  <2> HIDE DEF job
  <2>3. /\ dbusJobs' \in Seq(DbusJobSet) /\ Len(dbusJobs') = Len(dbusJobs) /\ dbusJobs'[t] = job
        /\ \A i \in 1 .. Len(dbusJobs) : i # t => dbusJobs'[i] = dbusJobs[i]
    BY <1>2, <2>1, <2>2, ExceptSeq DEF DbusInv
  <2>4. \A i \in 1 .. Len(dbusJobs) : /\ dbusJobs'[i].stage = "driver" <=> dbusJobs[i].stage = "driver"
                                      /\ dbusJobs'[i].stage = "supplicant" => dbusJobs[i].stage = "supplicant"
                                      /\ dbusJobs[i].stage = "driver" => dbusJobs'[i].supp = dbusJobs[i].supp
    BY <1>2, <2>1, <2>3
  <2>5. InOrder(dbusJobs') /\ LastIsSet(dbusJobs', supplicant) /\ (NoneHalfSet(dbusJobs') => NoneHalfSet(dbusJobs))
    BY <2>3, <2>4 DEF DbusInv, InOrder, LastIsSet, NoneHalfSet
  <2> QED BY <1>2, <1>3, <2>3, <2>5 DEF DbusInv, AnswerHolds, Nothing, levels
<1>4. CASE dbusJobs' = RemoveAt(dbusJobs, t) /\ Answer("zone", dbusJobs[t].supp, TRUE)
  BY <1>2, <1>4, OneLess DEF DbusInv, AnswerHolds, Answer, levels
<1> QED BY <1>3, <1>4 DEF SetTimeZone, t

LEMMA ClockStep ==
    ASSUME DbusInv, NEW ok \in BOOLEAN, SetTimeManual(ok)
    PROVE  DbusInv' /\ AnswerHolds'
<1> DEFINE t == FirstAt("date")
<1>1. t \in 1 .. Len(dbusJobs) /\ dbusJobs[t].stage = "date" /\ UNCHANGED levels
  BY First DEF SetTimeManual, DbusInv
<1>2. /\ dbusJobs' = RemoveAt(dbusJobs, t) /\ Answer("date", dbusJobs[t].date, ok)
      /\ clock' = IF ok THEN dbusJobs[t].date ELSE clock
  BY DEF SetTimeManual
<1> HIDE DEF t
<1>3. AnswerHolds'
  BY <1>2 DEF Answer, AnswerHolds
<1> QED BY <1>1, <1>2, <1>3, OneLess DEF DbusInv, levels

LEMMA DbusRestart ==
    ASSUME DbusInv, NEW inSave \in BOOLEAN, RestartSettings(inSave)
    PROVE  DbusInv' /\ AnswerHolds'
<1>1. dbusJobs' = <<>> /\ Len(dbusJobs') = 0 /\ dbusJobs' \in Seq(DbusJobSet)
  BY EmptySeq DEF RestartSettings
<1>2. UNCHANGED <<supplicant, driver>> /\ pair' = IF dbusJobs = <<>> THEN pair ELSE <<>>
  BY DEF RestartSettings
<1>3. dbusJobs = <<>> => NoneHalfSet(dbusJobs)
  BY <1>1 DEF NoneHalfSet
<1>4. AnswerHolds'
  BY DEF RestartSettings, Nothing, AnswerHolds
<1> QED BY <1>1, <1>2, <1>3, <1>4 DEF DbusInv, InOrder, LastIsSet, NoneHalfSet

LEMMA DbusStays == ASSUME DbusInv, UNCHANGED <<levels, dbusJobs>> PROVE DbusInv'
BY DEF DbusInv, levels

LEMMA DbusStep ==
    ASSUME SettingsAssumption, DbusInv, DbusNext
    PROVE  DbusInv' /\ AnswerHolds'
<1>1. ASSUME NEW supp \in SuppLevels, NEW drv \in DriverLevels \union {"bad", "none"}, SetLevels(supp, drv)
      PROVE  DbusInv' /\ AnswerHolds'
  <2>1. LevelJob(supp, drv) \in DbusJobSet /\ LevelJob(supp, drv).stage = "supplicant"
    BY DEF LevelJob, DbusJobSet, SettingsAssumption
  <2> QED BY <1>1, <2>1, LevelQueued DEF SetLevels
<1>2. ASSUME NEW z \in Zones, NEW date \in Dates, NEW legacy \in BOOLEAN, PutDateTime(z, date, legacy)
      PROVE  DbusInv' /\ AnswerHolds'
  <2> DEFINE job == [LevelJob(z, "none") EXCEPT !.stage = IF z # "" THEN "zone" ELSE "date",
                                                !.date = date, !.legacy = legacy]
  <2>1. job \in DbusJobSet /\ job.stage # "driver"
    BY DEF LevelJob, DbusJobSet
  <2>2. DbusRequest(job) /\ UNCHANGED levels
    BY <1>2 DEF PutDateTime
  <2> HIDE DEF job
  <2> QED BY <2>1, <2>2, LevelQueued
<1>3. ASSUME NEW drv \in DriverLevels, ATDriverLevel(drv)
      PROVE  DbusInv' /\ AnswerHolds'
  BY <1>3 DEF ATDriverLevel, Answer, DbusInv, AnswerHolds
<1>4. ASSUME NEW z \in Zones, NEW date \in Dates,
             DateTimeResource(z, date) \/ DateTimeSetting(z, date) \/ TimezoneSet(z) \/ Datetime(date)
      PROVE  DbusInv' /\ AnswerHolds'
  BY <1>2, <1>4 DEF DateTimeResource, DateTimeSetting, TimezoneSet, Datetime, SettingsAssumption
<1>5. "" \in Zones /\ "" \in Dates
  BY DEF SettingsAssumption
<1> QED BY <1>1, <1>3, <1>4, <1>5, SupplicantStep, DriverStep, ZoneStep, ClockStep, DbusRestart
       DEF DbusNext, LogsConfigResource, LogSetting, ATSupplicantLevel

-----------------------------------------------------------------------------
(* The radio and the scan attempts are set, or said not to be, in one step. *)
LEMMA SisoStep ==
    ASSUME NEW mode, NEW as, SetSisoMode(mode, as)
    PROVE  AnswerHolds' /\ UNCHANGED <<levels, dbusJobs>>
<1>1. PICK end \in SisoOutcomes(mode, as) :
         radio' = end.radio /\ answered' = [what |-> "siso", want |-> <<{mode, as}, radio.interface>>, ok |-> end.ok]
  BY DEF SetSisoMode
<1>2. end.ok => end.radio.core /\ end.radio.mode \in {mode, as} /\ (radio.interface => end.radio.interface)
  <2>1. CASE end \in Reloads(as)
    <3>1. \/ end = Outcome(TRUE, TRUE, as, TRUE)
          \/ \E core, interface, was : end = Outcome(core, interface, was, FALSE)
      BY <2>1 DEF Reloads
    <3>2. CASE end = Outcome(TRUE, TRUE, as, TRUE)
      BY <3>2 DEF Outcome
    <3>3. CASE \E core, interface, was : end = Outcome(core, interface, was, FALSE)
      BY <3>3 DEF Outcome
    <3> QED BY <3>1, <3>2, <3>3
  <2>2. CASE end = [radio |-> radio, ok |-> radio.core /\ radio.mode = mode]
    <3>1. end.radio = radio /\ (end.ok => radio.core /\ radio.mode = mode)
      BY <2>2, Zenon
    <3> QED BY <3>1
  <2>3. end \in Reloads(as) \/ end = [radio |-> radio, ok |-> radio.core /\ radio.mode = mode]
    BY <1>1, Zenon DEF SisoOutcomes
  <2> QED BY <2>1, <2>2, <2>3, Zenon
<1> QED BY <1>1, <1>2 DEF SetSisoMode, AnswerHolds

LEMMA ScanStep ==
    ASSUME NEW enable \in BOOLEAN, SetScanAttempts(enable)
    PROVE  AnswerHolds' /\ UNCHANGED <<levels, dbusJobs>>
BY DEF SetScanAttempts, Stored, AnswerHolds

LEMMA DeviceStep ==
    ASSUME DeviceNext
    PROVE  AnswerHolds' /\ UNCHANGED <<levels, dbusJobs>>
<1>1. CASE RadioSISOModeResourceLegacy
  BY <1>1 DEF RadioSISOModeResourceLegacy, Answer, AnswerHolds
<1>2. ASSUME NEW enable \in BOOLEAN, NEW lite \in BOOLEAN, AWMResource(enable, lite)
      PROVE  AnswerHolds' /\ UNCHANGED <<levels, dbusJobs>>
  <2>1. CASE lite
    BY <1>2, <2>1, ScanStep DEF AWMResource
  <2>2. CASE ~lite
    <3>1. answered' = Nothing /\ UNCHANGED <<levels, dbusJobs>>
      BY <1>2, <2>2, Zenon DEF AWMResource
    <3> QED BY <3>1 DEF Nothing, AnswerHolds
  <2> QED BY <2>1, <2>2
<1> QED BY <1>1, <1>2, SisoStep, ScanStep
       DEF DeviceNext, RadioSISOModeResource, SISOModeCommand, AWMResourceLegacy, AWMScan

LEMMA StoreStep ==
    ASSUME DbusInv, StoreNext
    PROVE  DbusInv' /\ AnswerHolds'
<1>1. ASSUME NEW key, NEW val, NEW told, UpdatePersistent(key, val) \/ SaveFails(key, val, told)
      PROVE  AnswerHolds' /\ UNCHANGED <<levels, dbusJobs>>
  BY <1>1 DEF UpdatePersistent, SaveFails, Answer, AnswerHolds
<1> QED BY <1>1, DbusStays, DbusRestart
       DEF StoreNext, LogsWebserverResource, LogsWebserverResourceLegacy, SetWebserverLogLevel,
           AllowUnauthenticatedResource, AllowUnauthenticatedResourceLegacy, SetAllowUnauthenticatedEnabled

(* What a client was told to be set is set, also a pair of levels whose calls others run between, *)
(* for any levels, zones, modes and any number of requests, calls that fail and restarts.        *)
THEOREM AnswersHold == SettingsSpec => []AnsweredIsDone
<1>1. DbusInv /\ AnswerHolds /\ [StoreNext \/ DbusNext \/ DeviceNext]_settingVars => (DbusInv /\ AnswerHolds)'
  <2>1. UNCHANGED settingVars /\ AnswerHolds => AnswerHolds'
    BY DEF settingVars, AnswerHolds
  <2>2. UNCHANGED settingVars => UNCHANGED <<levels, dbusJobs>>
    BY DEF settingVars
  <2> QED BY <2>1, <2>2, SettingsAssumption, DbusStep, DeviceStep, StoreStep, DbusStays
<1>2. DbusInv => LevelsTogether
  <2>1. dbusJobs = <<>> => NoneHalfSet(dbusJobs)
    BY DEF NoneHalfSet
  <2> QED BY <2>1 DEF DbusInv, LevelsTogether
<1>3. DbusInv /\ AnswerHolds => AnsweredIsDone
  BY <1>2 DEF AnsweredIsDone
<1> QED BY <1>1, <1>3, DbusStart, PTL DEF SettingsSpec

-----------------------------------------------------------------------------
(***************************************************************************)
(* For any units and any number of requests, faults and restarts: what a   *)
(* request was told to be done is so, if no other ran for its unit.        *)
(***************************************************************************)

Wants == {"active", "inactive"}
UnitStates == {"active", "inactive", "activating", "deactivating", "failed"}
UnitJobSet ==
    [unit : Units, want : Wants, front : {"v2", "legacy", "at"}, stage : {"look", "act", "call", "tell"},
     seen : UnitStates \union {"", "unknown"}, alone : BOOLEAN]

FlagRight(u, want, flags) == u \in Flagged => (u \in flags <=> want = "active")
IsSo(u, want, state, flags) ==
    /\ state[u] \in (IF want = "active" THEN {"active", "activating"} ELSE {"inactive", "deactivating", "failed"})
    /\ FlagRight(u, want, flags)

(* A request withdraws what was promised of its unit; while it is alone, what it has seen *)
(* and done stays true from stage to stage.                                               *)
JobFits(job, state, flags, asked) ==
    /\ asked[job.unit] = "any"
    /\ job.alone /\ job.stage = "act" /\ job.seen = job.want => state[job.unit] = job.want
    /\ job.alone /\ job.stage = "call" => FlagRight(job.unit, job.want, flags)
    /\ job.alone /\ job.stage = "tell" => IsSo(job.unit, job.want, state, flags)

(* One that is alone has no other beside it for its unit. *)
Alone(jobs) ==
    \A i, j \in 1 .. Len(jobs) : i # j /\ jobs[i].unit = jobs[j].unit => ~jobs[i].alone

UnitsTyped ==
    /\ unitState \in [Units -> UnitStates] /\ flagFile \subseteq Flagged
    /\ unitAsked \in [Units -> Wants \union {"any"}]
    /\ unitJobs \in Seq(UnitJobSet)

UnitInv ==
    /\ UnitsTyped /\ Alone(unitJobs)
    /\ \A j \in 1 .. Len(unitJobs) : JobFits(unitJobs[j], unitState, flagFile, unitAsked)
    /\ \A u \in Units : unitAsked[u] # "any" => IsSo(u, unitAsked[u], unitState, flagFile)

-----------------------------------------------------------------------------
(* The elements that are left are elements, and two of them were two. *)
LEMMA RemovedAlone ==
    ASSUME NEW jobs \in Seq(UnitJobSet), Alone(jobs), NEW t \in 1 .. Len(jobs)
    PROVE  /\ RemoveAt(jobs, t) \in Seq(UnitJobSet) /\ Alone(RemoveAt(jobs, t))
           /\ \A i \in 1 .. Len(RemoveAt(jobs, t)) :
                 \E j \in 1 .. Len(jobs) : j # t /\ RemoveAt(jobs, t)[i] = jobs[j]
<1> DEFINE less == RemoveAt(jobs, t)
<1>1. Len(jobs) \in Nat
  BY LenProperties
<1>2. /\ less \in Seq(UnitJobSet) /\ Len(less) = Len(jobs) - 1
      /\ \A i \in 1 .. Len(jobs) - 1 : less[i] = jobs[IF i < t THEN i ELSE i + 1]
  BY Removed
<1> HIDE DEF less
<1>3. ASSUME NEW i \in 1 .. Len(less)
      PROVE  \E j \in 1 .. Len(jobs) : j # t /\ less[i] = jobs[j]
  <2> DEFINE j == IF i < t THEN i ELSE i + 1
  <2>1. j \in 1 .. Len(jobs) /\ j # t /\ less[i] = jobs[j]
    BY <1>1, <1>2
  <2> QED BY <2>1
<1>4. Alone(less)
  <2> SUFFICES ASSUME NEW i \in 1 .. Len(less), NEW j \in 1 .. Len(less), i # j, less[i].unit = less[j].unit
               PROVE  ~less[i].alone
    BY DEF Alone
  <2> DEFINE at(k) == IF k < t THEN k ELSE k + 1
  <2>1. at(i) \in 1 .. Len(jobs) /\ at(j) \in 1 .. Len(jobs) /\ at(i) # at(j)
    BY <1>1, <1>2
  <2>2. less[i] = jobs[at(i)] /\ less[j] = jobs[at(j)]
    BY <1>2
  <2> QED BY <2>1, <2>2 DEF Alone
<1> QED BY <1>2, <1>3, <1>4 DEF less

-----------------------------------------------------------------------------
LEMMA UnitsStart == UnitsInit => UnitInv
<1> SUFFICES ASSUME UnitsInit PROVE UnitInv
  OBVIOUS
<1>1. unitJobs = <<>> /\ Len(unitJobs) = 0 /\ unitJobs \in Seq(UnitJobSet)
  BY EmptySeq DEF UnitsInit
<1>2. UnitsTyped
  BY <1>1 DEF UnitsInit, UnitsTyped, UnitStates
<1>3. \A u \in Units : unitAsked[u] = "any"
  BY DEF UnitsInit
<1> QED BY <1>1, <1>2, <1>3 DEF UnitInv, Alone

(* Another request for a unit: nothing is promised of it, nobody is alone with it. *)
LEMMA AskedStep ==
    ASSUME UnitInv, NEW u \in Units, NEW want \in Wants, NEW front \in {"v2", "legacy", "at"},
           PutState(u, want, front)
    PROVE  UnitInv'
<1> DEFINE old == [j \in DOMAIN unitJobs |-> [unitJobs[j] EXCEPT !.alone = @ /\ unitJobs[j].unit # u]]
           new == UnitJob(u, want, front)
<1>1. /\ Len(unitJobs) \in Nat /\ DOMAIN unitJobs = 1 .. Len(unitJobs)
      /\ \A j \in 1 .. Len(unitJobs) : unitJobs[j] \in UnitJobSet
  BY LenProperties, ElementOfSeq DEF UnitInv, UnitsTyped
<1>2. ASSUME NEW j \in 1 .. Len(unitJobs)
      PROVE  /\ old[j] \in UnitJobSet /\ old[j].unit = unitJobs[j].unit /\ old[j].want = unitJobs[j].want
             /\ old[j].stage = unitJobs[j].stage /\ old[j].seen = unitJobs[j].seen
             /\ old[j].alone => unitJobs[j].alone /\ unitJobs[j].unit # u
  BY <1>1 DEF UnitJobSet
<1>3. old \in Seq(UnitJobSet) /\ Len(old) = Len(unitJobs)
  <2>1. DOMAIN old = 1 .. Len(unitJobs) /\ \A j \in 1 .. Len(unitJobs) : old[j] \in UnitJobSet
    BY <1>1, <1>2
  <2>2. old \in [1 .. Len(unitJobs) -> UnitJobSet]
    BY <1>1, <2>1
  <2> HIDE DEF old
  <2> QED BY <1>1, <2>1, <2>2
<1>4. /\ new \in UnitJobSet /\ new.unit = u /\ new.stage = "look"
      /\ new.alone => \A j \in 1 .. Len(unitJobs) : unitJobs[j].unit # u
  BY <1>1 DEF UnitJob, UnitJobSet
<1>5. unitJobs' = Append(old, new) /\ unitAsked' = [unitAsked EXCEPT ![u] = "any"]
      /\ unitState' = unitState /\ flagFile' = flagFile
  BY DEF PutState
<1> HIDE DEF old, new
<1>6. /\ unitJobs' \in Seq(UnitJobSet) /\ Len(unitJobs') = Len(unitJobs) + 1
      /\ \A j \in 1 .. Len(unitJobs) : unitJobs'[j] = old[j]
      /\ unitJobs'[Len(unitJobs) + 1] = new
  BY <1>1, <1>3, <1>4, <1>5
<1>7. UnitsTyped'
  BY <1>5, <1>6 DEF UnitInv, UnitsTyped
<1>8. Alone(unitJobs')
  <2> SUFFICES ASSUME NEW i \in 1 .. Len(unitJobs'), NEW j \in 1 .. Len(unitJobs'), i # j,
                      unitJobs'[i].unit = unitJobs'[j].unit
               PROVE  ~unitJobs'[i].alone
    BY DEF Alone
  <2>1. CASE i = Len(unitJobs) + 1
    BY <1>1, <1>2, <1>4, <1>6, <2>1
  <2>2. CASE j = Len(unitJobs) + 1
    BY <1>1, <1>2, <1>4, <1>6, <2>2
  <2>3. CASE i # Len(unitJobs) + 1 /\ j # Len(unitJobs) + 1
    <3>1. i \in 1 .. Len(unitJobs) /\ j \in 1 .. Len(unitJobs)
      BY <1>1, <1>6, <2>3
    <3>2. unitJobs'[i] = old[i] /\ unitJobs'[j] = old[j]
      BY <1>6, <3>1
    <3>3. unitJobs[i].unit = unitJobs[j].unit
      BY <1>2, <3>1, <3>2
    <3>4. ~unitJobs[i].alone
      BY <3>1, <3>3 DEF UnitInv, Alone
    <3> QED BY <1>2, <3>1, <3>2, <3>4
  <2> QED BY <2>1, <2>2, <2>3
<1>9. ASSUME NEW j \in 1 .. Len(unitJobs')
      PROVE  JobFits(unitJobs'[j], unitState', flagFile', unitAsked')
  <2>1. CASE j = Len(unitJobs) + 1
    BY <1>4, <1>5, <1>6, <2>1 DEF JobFits, UnitInv, UnitsTyped
  <2>2. CASE j # Len(unitJobs) + 1
    <3>1. j \in 1 .. Len(unitJobs)
      BY <1>1, <1>6, <2>2
    <3>2. JobFits(unitJobs[j], unitState, flagFile, unitAsked) /\ unitJobs[j].unit \in Units
      BY <1>1, <3>1 DEF UnitInv, UnitJobSet
    <3>3. unitJobs'[j] = old[j]
      BY <1>6, <3>1
    <3>4. unitAsked'[unitJobs[j].unit] = "any"
      BY <1>5, <3>2 DEF JobFits, UnitInv, UnitsTyped
    <3> QED BY <1>2, <1>5, <3>1, <3>2, <3>3, <3>4 DEF JobFits
  <2> QED BY <2>1, <2>2
<1> QED BY <1>5, <1>7, <1>8, <1>9 DEF UnitInv, UnitsTyped

(* What a step for the unit of a request leaves to the others. *)
OnlyUnit(u) ==
    /\ unitState' \in [Units -> UnitStates] /\ flagFile' \subseteq Flagged
    /\ \A v \in Units : v # u => unitState'[v] = unitState[v] /\ (v \in flagFile' <=> v \in flagFile)

LEMMA OthersFit ==
    ASSUME UnitInv, NEW u \in Units, OnlyUnit(u), NEW job \in UnitJobSet, job.alone => job.unit # u,
           JobFits(job, unitState, flagFile, unitAsked), NEW asked, asked[job.unit] = "any"
    PROVE  JobFits(job, unitState', flagFile', asked)
BY DEF OnlyUnit, JobFits, IsSo, FlagRight, UnitJobSet

(* A request that goes on. *)
LEMMA UnitGoesOn ==
    ASSUME UnitInv, NEW t \in 1 .. Len(unitJobs), NEW job \in UnitJobSet,
           job.unit = unitJobs[t].unit, job.alone => unitJobs[t].alone,
           unitJobs' = [unitJobs EXCEPT ![t] = job], unitAsked' = unitAsked, OnlyUnit(job.unit),
           JobFits(job, unitState', flagFile', unitAsked)
    PROVE  UnitInv'
<1>1. /\ Len(unitJobs) \in Nat
      /\ \A j \in 1 .. Len(unitJobs) : unitJobs[j] \in UnitJobSet
  BY LenProperties, ElementOfSeq DEF UnitInv, UnitsTyped
<1>2. /\ unitJobs' \in Seq(UnitJobSet) /\ Len(unitJobs') = Len(unitJobs) /\ unitJobs'[t] = job
      /\ \A j \in 1 .. Len(unitJobs) : j # t => unitJobs'[j] = unitJobs[j]
  BY ExceptSeq DEF UnitInv, UnitsTyped
<1>3. UnitsTyped'
  BY <1>2 DEF UnitInv, UnitsTyped, OnlyUnit
<1>4. Alone(unitJobs')
  <2> SUFFICES ASSUME NEW i \in 1 .. Len(unitJobs'), NEW j \in 1 .. Len(unitJobs'), i # j,
                      unitJobs'[i].unit = unitJobs'[j].unit
               PROVE  ~unitJobs'[i].alone
    BY DEF Alone
  <2>1. unitJobs[i].unit = unitJobs[j].unit /\ (unitJobs'[i].alone => unitJobs[i].alone)
    BY <1>2
  <2> QED BY <1>2, <2>1 DEF UnitInv, Alone
<1>5. ASSUME NEW j \in 1 .. Len(unitJobs')
      PROVE  JobFits(unitJobs'[j], unitState', flagFile', unitAsked')
  <2>1. CASE j = t
    BY <1>2, <2>1
  <2>2. CASE j # t
    <3>1. unitJobs'[j] = unitJobs[j] /\ JobFits(unitJobs[j], unitState, flagFile, unitAsked)
      BY <1>2, <2>2 DEF UnitInv
    <3>2. unitJobs[j].alone => unitJobs[j].unit # job.unit
      BY <1>2, <2>2 DEF UnitInv, Alone
    <3>3. unitAsked[unitJobs[j].unit] = "any" /\ job.unit \in Units
      BY <3>1 DEF JobFits, UnitJobSet
    <3> QED BY <1>1, <1>2, <3>1, <3>2, <3>3, OthersFit
  <2> QED BY <2>1, <2>2
<1>6. ASSUME NEW u \in Units, unitAsked[u] # "any"
      PROVE  IsSo(u, unitAsked[u], unitState', flagFile')
  <2>1. u # job.unit
    BY <1>6 DEF JobFits
  <2> QED BY <1>6, <2>1 DEF UnitInv, OnlyUnit, IsSo, FlagRight
<1> QED BY <1>3, <1>4, <1>5, <1>6 DEF UnitInv

(* A request that is answered: if it was alone no other is left for its unit. *)
LEMMA Answered ==
    ASSUME UnitInv, NEW t \in 1 .. Len(unitJobs), NEW done \in BOOLEAN, UnitAnswered(t, done),
           OnlyUnit(unitJobs[t].unit),
           done /\ unitJobs[t].alone => IsSo(unitJobs[t].unit, unitJobs[t].want, unitState', flagFile')
    PROVE  UnitInv'
<1> DEFINE u == unitJobs[t].unit
<1>1. /\ Len(unitJobs) \in Nat
      /\ \A j \in 1 .. Len(unitJobs) : unitJobs[j] \in UnitJobSet
  BY LenProperties, ElementOfSeq DEF UnitInv, UnitsTyped
<1>2. u \in Units /\ unitJobs[t].want \in Wants /\ unitAsked[u] = "any"
  BY <1>1 DEF UnitJobSet, UnitInv, JobFits
<1>3. /\ unitJobs' \in Seq(UnitJobSet) /\ Alone(unitJobs')
      /\ \A i \in 1 .. Len(unitJobs') :
            \E j \in 1 .. Len(unitJobs) : j # t /\ unitJobs'[i] = unitJobs[j]
  BY RemovedAlone DEF UnitAnswered, UnitInv, UnitsTyped
<1>4. /\ unitAsked' \in [Units -> Wants \union {"any"}]
      /\ \A v \in Units : v # u => unitAsked'[v] = unitAsked[v]
      /\ done /\ unitJobs[t].alone => unitAsked'[u] = unitJobs[t].want
      /\ ~(done /\ unitJobs[t].alone) => unitAsked'[u] = "any"
  BY <1>2 DEF UnitAnswered, UnitInv, UnitsTyped
<1>5. UnitsTyped'
  BY <1>3, <1>4 DEF UnitsTyped, OnlyUnit
<1>6. ASSUME NEW i \in 1 .. Len(unitJobs')
      PROVE  JobFits(unitJobs'[i], unitState', flagFile', unitAsked')
  <2>1. PICK j \in 1 .. Len(unitJobs) : j # t /\ unitJobs'[i] = unitJobs[j]
    BY <1>3
  <2>2. JobFits(unitJobs[j], unitState, flagFile, unitAsked) /\ unitJobs[j] \in UnitJobSet
    BY <1>1 DEF UnitInv
  <2>3. unitJobs[j].unit = u => ~unitJobs[j].alone /\ ~unitJobs[t].alone
    BY <2>1 DEF UnitInv, Alone
  <2>4. unitAsked'[unitJobs[j].unit] = "any"
    BY <1>4, <2>2, <2>3 DEF JobFits, UnitJobSet
  <2> QED BY <1>2, <2>1, <2>2, <2>3, <2>4, OthersFit
<1>7. ASSUME NEW v \in Units, unitAsked'[v] # "any"
      PROVE  IsSo(v, unitAsked'[v], unitState', flagFile')
  <2>1. CASE v = u
    BY <1>4, <1>7, <2>1
  <2>2. CASE v # u
    BY <1>4, <1>7, <2>2 DEF UnitInv, OnlyUnit, IsSo, FlagRight
  <2> QED BY <2>1, <2>2
<1> QED BY <1>3, <1>5, <1>6, <1>7 DEF UnitInv

(* set_state has returned: the answer, or the reading that v2 answers with. *)
LEMMA UnitReturned ==
    ASSUME UnitInv, NEW t \in 1 .. Len(unitJobs), NEW done \in BOOLEAN, UnitSet(t, done),
           OnlyUnit(unitJobs[t].unit),
           done /\ unitJobs[t].alone => IsSo(unitJobs[t].unit, unitJobs[t].want, unitState', flagFile')
    PROVE  UnitInv'
<1>1. unitJobs[t] \in UnitJobSet /\ JobFits(unitJobs[t], unitState, flagFile, unitAsked)
  BY ElementOfSeq DEF UnitInv, UnitsTyped
<1>2. CASE unitJobs[t].front = "v2" /\ done
  <2> DEFINE job == [unitJobs[t] EXCEPT !.stage = "tell"]
  <2>1. /\ job \in UnitJobSet /\ job.unit = unitJobs[t].unit /\ job.want = unitJobs[t].want
        /\ job.alone = unitJobs[t].alone /\ job.stage = "tell"
    BY <1>1 DEF UnitJobSet
  <2>2. unitJobs' = [unitJobs EXCEPT ![t] = job] /\ unitAsked' = unitAsked
    BY <1>2 DEF UnitSet
  <2> HIDE DEF job
  <2>3. JobFits(job, unitState', flagFile', unitAsked)
    BY <1>1, <1>2, <2>1 DEF JobFits
  <2> QED BY <2>1, <2>2, <2>3, UnitGoesOn
<1>3. CASE ~(unitJobs[t].front = "v2" /\ done)
  BY <1>3, Answered DEF UnitSet
<1> QED BY <1>2, <1>3

-----------------------------------------------------------------------------
LEMMA Unmoved == ASSUME UnitInv, unitState' = unitState, flagFile' = flagFile PROVE \A u \in Units : OnlyUnit(u)
BY DEF UnitInv, UnitsTyped, OnlyUnit

LEMMA LookStep ==
    ASSUME UnitInv, NEW t \in 1 .. Len(unitJobs), ActiveState(t)
    PROVE  UnitInv'
<1>1. unitJobs[t] \in UnitJobSet /\ JobFits(unitJobs[t], unitState, flagFile, unitAsked)
  BY ElementOfSeq DEF UnitInv, UnitsTyped
<1>2. PICK seen \in UnitStates \union {"unknown"} :
         /\ unitJobs' = [unitJobs EXCEPT ![t].stage = "act", ![t].seen = seen]
         /\ seen \in Wants => seen = unitState[unitJobs[t].unit]
  BY <1>1 DEF ActiveState, UnitInv, UnitsTyped, UnitJobSet, Wants
<1> DEFINE job == [unitJobs[t] EXCEPT !.stage = "act", !.seen = seen]
<1>3. /\ job \in UnitJobSet /\ job.unit = unitJobs[t].unit /\ job.want = unitJobs[t].want
      /\ job.alone = unitJobs[t].alone /\ job.stage = "act" /\ job.seen = seen
  BY <1>1 DEF UnitJobSet
<1>4. unitJobs' = [unitJobs EXCEPT ![t] = job]
  BY <1>2 DEF UnitInv, UnitsTyped
<1> HIDE DEF job
<1>5. unitState' = unitState /\ flagFile' = flagFile /\ unitAsked' = unitAsked
  BY DEF ActiveState
<1>6. JobFits(job, unitState', flagFile', unitAsked)
  BY <1>1, <1>2, <1>3, <1>5 DEF JobFits, UnitJobSet
<1>7. job.unit \in Units
  BY <1>3 DEF UnitJobSet
<1> QED BY <1>3, <1>4, <1>5, <1>6, <1>7, Unmoved, UnitGoesOn

LEMMA FlagsSet ==
    ASSUME NEW u \in Units, NEW want \in Wants, flagFile \subseteq Flagged
    PROVE  /\ Flags(u, want) \subseteq Flagged /\ FlagRight(u, want, Flags(u, want))
           /\ \A v : v # u => (v \in Flags(u, want) <=> v \in flagFile)
BY DEF Flags, FlagRight, Wants

(* The flag is right from here on, whatever was seen of the unit. *)
LEMMA SetStep ==
    ASSUME UnitInv, NEW t \in 1 .. Len(unitJobs), SetState(t)
    PROVE  UnitInv'
<1> DEFINE u == unitJobs[t].unit
           want == unitJobs[t].want
<1>1. unitJobs[t] \in UnitJobSet /\ JobFits(unitJobs[t], unitState, flagFile, unitAsked)
  BY ElementOfSeq DEF UnitInv, UnitsTyped
<1>2. u \in Units /\ want \in Wants /\ unitState' = unitState /\ flagFile' = Flags(u, want) /\ unitJobs[t].stage = "act"
  BY <1>1 DEF SetState, UnitJobSet
<1>3. OnlyUnit(u) /\ FlagRight(u, want, flagFile')
  BY <1>2, FlagsSet DEF OnlyUnit, UnitInv, UnitsTyped
<1>4. CASE unitJobs[t].seen = want
  <2>1. unitJobs[t].alone => IsSo(u, want, unitState', flagFile')
    BY <1>1, <1>2, <1>3, <1>4 DEF JobFits, IsSo, Wants
  <2>2. UnitSet(t, unitJobs[t].front # "at")
    BY <1>4 DEF SetState, UnitAlready
  <2> QED BY <1>3, <2>1, <2>2, UnitReturned
<1>5. CASE unitJobs[t].seen # want
  <2> DEFINE job == [unitJobs[t] EXCEPT !.stage = "call"]
  <2>1. /\ job \in UnitJobSet /\ job.unit = u /\ job.want = want
        /\ job.alone = unitJobs[t].alone /\ job.stage = "call"
    BY <1>1 DEF UnitJobSet
  <2>2. unitJobs' = [unitJobs EXCEPT ![t] = job] /\ unitAsked' = unitAsked
    BY <1>5 DEF SetState
  <2> HIDE DEF job
  <2>3. JobFits(job, unitState', flagFile', unitAsked)
    BY <1>1, <1>3, <2>1 DEF JobFits
  <2> QED BY <1>3, <2>1, <2>2, <2>3, UnitGoesOn
<1> QED BY <1>4, <1>5

(* A request whose flag could not be set is promised nothing from here on. *)
LEMMA FlagFailsStep ==
    ASSUME UnitInv, NEW t \in 1 .. Len(unitJobs), FlagFails(t)
    PROVE  UnitInv'
<1> DEFINE u == unitJobs[t].unit
<1>1. unitJobs[t] \in UnitJobSet /\ JobFits(unitJobs[t], unitState, flagFile, unitAsked)
  BY ElementOfSeq DEF UnitInv, UnitsTyped
<1>2. u \in Units /\ unitState' = unitState /\ flagFile' = flagFile
  BY <1>1 DEF FlagFails, UnitJobSet
<1>3. CASE UnitAnswered(t, FALSE)
  BY <1>2, <1>3, Unmoved, Answered
<1>4. ASSUME NEW stage \in {"tell", "call"}, unitAsked' = unitAsked,
             unitJobs' = [unitJobs EXCEPT ![t].stage = stage, ![t].alone = FALSE]
      PROVE  UnitInv'
  <2> DEFINE job == [unitJobs[t] EXCEPT !.stage = stage, !.alone = FALSE]
  <2>1. /\ job \in UnitJobSet /\ job.unit = u /\ job.want = unitJobs[t].want
        /\ job.alone = FALSE /\ job.stage = stage
    BY <1>1, <1>4 DEF UnitJobSet
  <2>2. unitJobs' = [unitJobs EXCEPT ![t] = job]
    BY <1>4 DEF UnitInv, UnitsTyped
  <2> HIDE DEF job
  <2>3. JobFits(job, unitState', flagFile', unitAsked)
    BY <1>1, <1>2, <2>1 DEF JobFits
  <2> QED BY <1>2, <1>4, <2>1, <2>2, <2>3, Unmoved, UnitGoesOn
<1> QED BY <1>3, <1>4 DEF FlagFails

(* With its flag right the unit goes where it was asked to. *)
LEMMA CallStep ==
    ASSUME UnitsAssumption, UnitInv, NEW t \in 1 .. Len(unitJobs), UnitCall(t)
    PROVE  UnitInv'
<1> DEFINE u == unitJobs[t].unit
           want == unitJobs[t].want
<1>1. unitJobs[t] \in UnitJobSet /\ JobFits(unitJobs[t], unitState, flagFile, unitAsked)
  BY ElementOfSeq DEF UnitInv, UnitsTyped
<1>2. u \in Units /\ want \in Wants /\ flagFile' = flagFile /\ unitJobs[t].stage = "call"
  BY <1>1 DEF UnitCall, UnitJobSet
<1>3. CASE unitState' = unitState /\ UnitSet(t, FALSE)
  BY <1>2, <1>3, Unmoved, UnitReturned
<1>4. CASE unitState' = [unitState EXCEPT ![u] = Queued(u, want)] /\ UnitSet(t, TRUE)
  <2>1. unitState \in [Units -> UnitStates] /\ flagFile \subseteq Flagged
    BY DEF UnitInv, UnitsTyped
  <2>2. Queued(u, want) \in UnitStates
    BY <1>2, <2>1 DEF Queued, UnitStates
  <2>3. OnlyUnit(u) /\ unitState'[u] = Queued(u, want)
    BY <1>2, <1>4, <2>1, <2>2 DEF OnlyUnit
  <2>4. ASSUME unitJobs[t].alone
        PROVE  IsSo(u, want, unitState', flagFile')
    <3>1. FlagRight(u, want, flagFile)
      BY <1>1, <1>2, <2>4 DEF JobFits
    <3>2. CASE want = "active"
      BY <1>2, <2>1, <2>3, <3>1, <3>2 DEF IsSo, FlagRight, Queued, UnitStates
    <3>3. CASE want = "inactive"
      BY <1>2, <2>1, <2>3, <3>1, <3>3 DEF IsSo, FlagRight, Queued, UnitStates
    <3> QED BY <1>2, <3>2, <3>3 DEF Wants
  <2> QED BY <1>4, <2>3, <2>4, UnitReturned
<1> QED BY <1>3, <1>4 DEF UnitCall

LEMMA TellStep ==
    ASSUME UnitInv, NEW t \in 1 .. Len(unitJobs), TellState(t)
    PROVE  UnitInv'
<1>1. unitJobs[t] \in UnitJobSet /\ JobFits(unitJobs[t], unitState, flagFile, unitAsked)
  BY ElementOfSeq DEF UnitInv, UnitsTyped
<1>2. unitState' = unitState /\ flagFile' = flagFile /\ UnitAnswered(t, TRUE) /\ unitJobs[t].stage = "tell"
  BY DEF TellState
<1>3. unitJobs[t].unit \in Units
  BY <1>1 DEF UnitJobSet
<1> QED BY <1>1, <1>2, <1>3, Unmoved, Answered DEF JobFits

(* What settles does not leave what was asked; a unit that fails is promised to nobody. *)
LEMMA SettleStep ==
    ASSUME UnitInv, NEW u \in Units, UnitSettles(u)
    PROVE  UnitInv'
<1>1. /\ Len(unitJobs) \in Nat /\ DOMAIN unitJobs = 1 .. Len(unitJobs)
      /\ \A j \in 1 .. Len(unitJobs) : unitJobs[j] \in UnitJobSet
  BY LenProperties, ElementOfSeq DEF UnitInv, UnitsTyped
<1>2. /\ unitState \in [Units -> UnitStates] /\ unitAsked \in [Units -> Wants \union {"any"}] /\ flagFile' = flagFile
  BY DEF UnitInv, UnitsTyped, UnitSettles
<1>3. CASE UNCHANGED <<unitAsked, unitJobs>> /\ \/ unitState[u] = "activating" /\ unitState' = [unitState EXCEPT ![u] = "active"]
                                                \/ unitState[u] = "deactivating" /\ unitState' = [unitState EXCEPT ![u] = "inactive"]
  <2>1. \A v \in Units, want \in Wants :
           /\ IsSo(v, want, unitState, flagFile) => IsSo(v, want, unitState', flagFile')
           /\ unitState[v] = want => unitState'[v] = want
    BY <1>2, <1>3 DEF IsSo, FlagRight, Wants
  <2>2. \A j \in 1 .. Len(unitJobs) : JobFits(unitJobs[j], unitState', flagFile', unitAsked')
    BY ZenonT(60), <1>1, <1>2, <1>3, <2>1 DEF UnitInv, JobFits, UnitJobSet, FlagRight
  <2>3. UnitsTyped'
    BY <1>2, <1>3 DEF UnitInv, UnitsTyped, UnitStates
  <2>4. \A v \in Units : unitAsked'[v] # "any" => IsSo(v, unitAsked'[v], unitState', flagFile')
    BY <1>2, <1>3, <2>1 DEF UnitInv
  <2> QED BY <1>3, <2>2, <2>3, <2>4 DEF UnitInv, Alone
<1>4. CASE /\ unitState' = [unitState EXCEPT ![u] = "failed"] /\ unitAsked' = [unitAsked EXCEPT ![u] = "any"]
           /\ unitJobs' = [j \in DOMAIN unitJobs |-> [unitJobs[j] EXCEPT !.alone = @ /\ unitJobs[j].unit # u]]
  <2>1. ASSUME NEW j \in 1 .. Len(unitJobs)
        PROVE  /\ unitJobs'[j] \in UnitJobSet /\ unitJobs'[j].unit = unitJobs[j].unit /\ unitJobs'[j].want = unitJobs[j].want
               /\ unitJobs'[j].stage = unitJobs[j].stage /\ unitJobs'[j].seen = unitJobs[j].seen
               /\ unitJobs'[j].alone => unitJobs[j].alone /\ unitJobs[j].unit # u
    BY <1>1, <1>4 DEF UnitJobSet
  <2>2. unitJobs' \in Seq(UnitJobSet) /\ Len(unitJobs') = Len(unitJobs)
    <3>1. DOMAIN unitJobs' = 1 .. Len(unitJobs)
      BY <1>1, <1>4
    <3>2. unitJobs' \in [1 .. Len(unitJobs) -> UnitJobSet]
      BY <1>1, <1>4, <2>1, <3>1
    <3> QED BY <1>1, <3>1, <3>2
  <2>3. UnitsTyped'
    BY <1>2, <1>4, <2>2 DEF UnitInv, UnitsTyped, UnitStates
  <2>4. Alone(unitJobs')
    BY <2>1, <2>2 DEF UnitInv, Alone
  <2>5. \A v \in Units : v # u => unitState'[v] = unitState[v] /\ unitAsked'[v] = unitAsked[v]
    BY <1>2, <1>4
  <2>6. ASSUME NEW j \in 1 .. Len(unitJobs')
        PROVE  JobFits(unitJobs'[j], unitState', flagFile', unitAsked')
    <3>1. JobFits(unitJobs[j], unitState, flagFile, unitAsked) /\ unitJobs[j].unit \in Units
      BY <1>1, <2>2 DEF UnitInv, UnitJobSet
    <3>2. unitAsked'[unitJobs[j].unit] = "any"
      BY <1>2, <1>4, <3>1 DEF JobFits
    <3> QED BY <1>2, <2>1, <2>2, <2>5, <3>1, <3>2 DEF JobFits, IsSo, FlagRight
  <2>7. \A v \in Units : unitAsked'[v] # "any" => IsSo(v, unitAsked'[v], unitState', flagFile')
    BY <1>2, <1>4, <2>5 DEF UnitInv, IsSo, FlagRight
  <2> QED BY <2>3, <2>4, <2>6, <2>7 DEF UnitInv
<1> QED BY <1>3, <1>4 DEF UnitSettles

(* The flag is what the next start of the system goes by. *)
LEMMA BootStep == ASSUME UnitInv, UnitsBoot PROVE UnitInv'
<1>1. unitJobs' = <<>> /\ Len(unitJobs') = 0 /\ unitJobs' \in Seq(UnitJobSet)
  BY EmptySeq DEF UnitsBoot
<1>2. UnitsTyped'
  BY <1>1 DEF UnitInv, UnitsTyped, UnitsBoot, UnitStates, Wants
<1>3. ASSUME NEW u \in Units, unitAsked'[u] # "any"
      PROVE  IsSo(u, unitAsked'[u], unitState', flagFile')
  <2>1. u \in Flagged /\ unitAsked'[u] = unitAsked[u] /\ flagFile' = flagFile
    BY <1>3 DEF UnitsBoot
  <2>2. FlagRight(u, unitAsked[u], flagFile) /\ unitAsked[u] \in Wants
    BY <1>3, <2>1 DEF UnitInv, UnitsTyped, IsSo
  <2> QED BY <2>1, <2>2 DEF UnitsBoot, IsSo, FlagRight, Wants
<1> QED BY <1>1, <1>2, <1>3 DEF UnitInv, Alone

-----------------------------------------------------------------------------
(* What was told to be done to a unit is so, unless another request for it ran or its flag *)
(* file could not be removed: for any units, requests, failures of calls, files and units, *)
(* and restarts of the system.                                                             *)
THEOREM ToldIsSo == UnitsSpec => []AskedIsSo
<1>1. UnitInv /\ [UnitsNext]_units => UnitInv'
  <2> SUFFICES ASSUME UnitInv, [UnitsNext]_units
               PROVE  UnitInv'
    OBVIOUS
  <2>1. DOMAIN unitJobs = 1 .. Len(unitJobs)
    BY LenProperties DEF UnitInv, UnitsTyped
  <2>2. ASSUME NEW u \in Units, NEW want \in Wants,
               StunnelResource(u, want) \/ StunnelResourceLegacy(u, want) \/ LogForwardingResource(u, want)
               \/ LogForwarding(u, want) \/ LogForwardingCommand(u, want)
        PROVE  UnitInv'
    BY <2>2, AskedStep
       DEF StunnelResource, StunnelResourceLegacy, LogForwardingResource, LogForwarding, LogForwardingCommand
  <2>3. ASSUME NEW t \in DOMAIN unitJobs, ActiveState(t) \/ SetState(t) \/ FlagFails(t) \/ UnitCall(t) \/ TellState(t)
        PROVE  UnitInv'
    BY <2>1, <2>3, UnitsAssumption, LookStep, SetStep, FlagFailsStep, CallStep, TellStep
  <2>4. CASE UNCHANGED units
    BY <2>4 DEF units, UnitInv, UnitsTyped, Alone
  <2> QED BY <2>2, <2>3, <2>4, SettleStep, BootStep DEF UnitsNext, Wants
<1>2. UnitInv => AskedIsSo
  BY DEF UnitInv, AskedIsSo, IsSo, FlagRight
<1> QED BY <1>1, <1>2, UnitsStart, PTL DEF UnitsSpec

-----------------------------------------------------------------------------
(***************************************************************************)
(* For any number of requests and any modes: what power state is told has  *)
(* been agreed to, and no restart for a factory reset comes without one.   *)
(***************************************************************************)

(* The jobs there may be once done is what came of a factory reset: one that restarts the *)
(* system because of a reset is only there after a reset that worked.                     *)
JobsAfter(done) ==
    {job \in [stage : {"logind", "fips ask", "fips set"}, want : PowerStates \union FipsModes,
              then : {"itself", "reset", "fips", "v2", "v2 asked", "legacy", "at", "at restart"}] :
        job.then = "reset" => done = "yes"}

PowerInv ==
    /\ resets \in {"no", "yes"}
    /\ powerJobs \in Seq(JobsAfter(resets))
    /\ PowerIsAccepted

-----------------------------------------------------------------------------
(* What waits instead of request t, or after all, is of the same kind as the rest. *)
LEMMA Stepping ==
    ASSUME NEW S, NEW jobs \in Seq(S), NEW t \in DOMAIN jobs, NEW next \in Seq(S)
    PROVE  SubSeq(jobs, 1, t - 1) \o next \o SubSeq(jobs, t + 1, Len(jobs)) \in Seq(S)
<1>1. Len(jobs) \in Nat /\ DOMAIN jobs = 1 .. Len(jobs) /\ \A i \in 1 .. Len(jobs) : jobs[i] \in S
  BY LenProperties, ElementOfSeq
<1>2. t \in 1 .. Len(jobs)
  BY <1>1
<1>3. SubSeq(jobs, 1, t - 1) \in Seq(S)
  BY <1>1, <1>2, SubSeqProperties
<1>4. SubSeq(jobs, t + 1, Len(jobs)) \in Seq(S)
  BY <1>1, <1>2, SubSeqProperties
<1> QED BY <1>3, <1>4, ConcatProperties

(* What waits may be one request, or none. *)
LEMMA OneMore ==
    ASSUME NEW S, NEW job \in S
    PROVE  <<job>> \in Seq(S) /\ <<>> \in Seq(S)
OBVIOUS

(* Nothing undoes a reset: what may wait before one may wait after it. *)
LEMMA MoreJobs ==
    ASSUME NEW done, NEW jobs \in Seq(JobsAfter(done)), NEW later, done = "yes" => later = "yes"
    PROVE  jobs \in Seq(JobsAfter(later))
<1>1. JobsAfter(done) \subseteq JobsAfter(later)
  BY DEF JobsAfter
<1> QED BY <1>1, SeqMonotonic

(* set_power_state tells on, or what it told, and has a job that is allowed if its cause is. *)
LEMMA Setting ==
    ASSUME NEW done, NEW want \in PowerStates, NEW then \in {"itself", "reset", "fips"},
           then = "reset" => done = "yes"
    PROVE  /\ SetPowerState(want, then).state \in {"on", powerState}
           /\ SetPowerState(want, then).jobs \in Seq(JobsAfter(done))
<1>1. PowerJob("logind", want, then) \in JobsAfter(done)
  BY DEF PowerJob, JobsAfter
<1>2. <<PowerJob("logind", want, then)>> \in Seq(JobsAfter(done)) /\ <<>> \in Seq(JobsAfter(done))
  BY <1>1, OneMore
<1> QED BY <1>2 DEF SetPowerState

-----------------------------------------------------------------------------
(* The told state is on or was agreed to; a restart for a reset comes after the reset:  *)
(* whatever overlaps, however often the modem is updated meanwhile, for any bounds.     *)
THEOREM PowerTold == PowerSpec => []PowerIsAccepted
<1>1. PowerInit => PowerInv
  BY DEF PowerInit, PowerInv, PowerIsAccepted
<1>2. PowerInv /\ [PowerNext]_power => PowerInv'
  <2> SUFFICES ASSUME PowerInv, [PowerNext]_power
               PROVE  PowerInv'
    OBVIOUS
  <2>1. resets \in {"no", "yes"} /\ powerJobs \in Seq(JobsAfter(resets)) /\ PowerIsAccepted
    BY DEF PowerInv
  (* A front end that asks for a state, and one that sets the mode. *)
  <2>2. ASSUME NEW want \in PowerStates, PutPower(want)
        PROVE  PowerInv'
    <3>1. SetPowerState(want, "itself").jobs \in Seq(JobsAfter(resets))
      BY <2>2, Setting
    <3>2. powerJobs' \in Seq(JobsAfter(resets))
      BY <2>1, <2>2, <3>1, ConcatProperties DEF PutPower, PowerAsks
    <3>3. powerState' \in {"on", powerState}
      BY <2>2, Setting DEF PutPower
    <3> QED BY <2>1, <2>2, <3>2, <3>3 DEF PutPower, PowerInv, PowerIsAccepted
  <2>3. ASSUME NEW want \in PowerStates, LegacyPower(want)
        PROVE  PowerInv'
    <3>1. CASE ~modemUpdates
      BY <2>2, <2>3, <3>1 DEF LegacyPower
    <3>2. CASE modemUpdates
      <4>1. powerJobs' = powerJobs \o <<>>
        BY <2>3, <3>2 DEF LegacyPower, PowerAsks
      <4>2. powerJobs' = powerJobs
        BY <2>1, <4>1, ConcatEmptySeq
      <4> QED BY <2>1, <2>3, <3>2, <4>2 DEF LegacyPower, PowerInv, PowerIsAccepted
    <3> QED BY <3>1, <3>2
  <2>4. ASSUME NEW stage \in {"fips ask", "fips set"}, NEW mode \in FipsModes,
               NEW front \in {"v2", "legacy", "at", "at restart"}, FipsAsks(stage, mode, front)
        PROVE  PowerInv'
    <3>1. PowerJob(stage, mode, front) \in JobsAfter(resets)
      BY DEF PowerJob, JobsAfter
    <3>2. <<PowerJob(stage, mode, front)>> \in Seq(JobsAfter(resets))
      BY <3>1, OneMore
    <3>3. powerJobs' \in Seq(JobsAfter(resets))
      BY <2>1, <2>4, <3>2, ConcatProperties DEF FipsAsks, PowerAsks
    <3> QED BY <2>1, <2>4, <3>3 DEF FipsAsks, PowerInv, PowerIsAccepted
  (* The reset and its restart: the job comes with the reset that allows it. *)
  <2>5. ASSUME NEW ok \in BOOLEAN, NEW restart \in BOOLEAN, InitiateFactoryReset(ok, restart)
        PROVE  PowerInv'
    <3>1. resets' \in {"no", "yes"} /\ (resets = "yes" => resets' = "yes") /\ (ok /\ ~modemUpdates => resets' = "yes")
      BY <2>1, <2>5 DEF InitiateFactoryReset
    <3>2. powerJobs \in Seq(JobsAfter(resets'))
      BY <2>1, <3>1, MoreJobs
    <3> DEFINE asked == SetPowerState("reboot", "reset")
    <3>3. CASE ~modemUpdates /\ ok /\ restart
      <4>1. asked.state \in {"on", powerState} /\ asked.jobs \in Seq(JobsAfter(resets'))
        BY <3>1, <3>3, Setting DEF PowerStates
      <4>2. powerJobs' = powerJobs \o asked.jobs /\ powerState' = asked.state
        BY <2>5, <3>3 DEF InitiateFactoryReset, PowerAsks
      <4>3. powerJobs' \in Seq(JobsAfter(resets'))
        BY <3>2, <4>1, <4>2, ConcatProperties
      <4> QED BY <2>1, <2>5, <3>1, <4>1, <4>2, <4>3 DEF InitiateFactoryReset, PowerInv, PowerIsAccepted
    <3>4. CASE ~(~modemUpdates /\ ok /\ restart)
      <4>1. powerJobs' = powerJobs \o <<>> /\ powerState' = powerState
        BY <2>5, <3>4 DEF InitiateFactoryReset, PowerAsks
      <4>2. powerJobs' = powerJobs
        BY <2>1, <4>1, ConcatEmptySeq
      <4> QED BY <2>1, <2>5, <3>1, <3>2, <4>1, <4>2 DEF InitiateFactoryReset, PowerInv, PowerIsAccepted
    <3> QED BY <3>3, <3>4
  (* What is answered to a request that waits. *)
  <2>6. ASSUME NEW t \in DOMAIN powerJobs
        PROVE  powerJobs[t] \in JobsAfter(resets)
    BY <2>1, <2>6
  <2>7. ASSUME NEW t \in DOMAIN powerJobs, NEW next \in Seq(JobsAfter(resets)), PowerStep(t, next)
        PROVE  powerJobs' \in Seq(JobsAfter(resets))
    BY <2>1, <2>7, Stepping DEF PowerStep
  <2>8. ASSUME NEW t \in DOMAIN powerJobs, NEW ok \in BOOLEAN, LogindAnswers(t, ok)
        PROVE  PowerInv'
    <3>1. powerJobs' \in Seq(JobsAfter(resets))
      BY <2>7, <2>8, EmptySeq DEF LogindAnswers
    <3> QED BY <2>1, <2>6, <2>8, <3>1 DEF LogindAnswers, PowerInv, PowerIsAccepted, JobsAfter
  <2>9. ASSUME NEW t \in DOMAIN powerJobs, NEW ok \in BOOLEAN, FipsTold(t, ok)
        PROVE  PowerInv'
    <3>1. [powerJobs[t] EXCEPT !.stage = "fips set"] \in JobsAfter(resets)
      BY <2>6 DEF JobsAfter
    <3>2. <<[powerJobs[t] EXCEPT !.stage = "fips set"]>> \in Seq(JobsAfter(resets)) /\ <<>> \in Seq(JobsAfter(resets))
      BY <3>1, OneMore
    <3>3. powerJobs' \in Seq(JobsAfter(resets))
      BY <2>7, <2>9, <3>2 DEF FipsTold
    <3> QED BY <2>1, <2>9, <3>3 DEF FipsTold, PowerInv, PowerIsAccepted
  <2>10. ASSUME NEW t \in DOMAIN powerJobs, NEW ok \in BOOLEAN, FipsSet(t, ok)
         PROVE  PowerInv'
    <3> DEFINE asked == SetPowerState("reboot", "fips")
    <3>1. asked.state \in {"on", powerState} /\ asked.jobs \in Seq(JobsAfter(resets))
      BY Setting DEF PowerStates
    <3>2. PowerJob("fips ask", powerJobs[t].want, "v2 asked") \in JobsAfter(resets)
      BY <2>6 DEF PowerJob, JobsAfter
    <3>3. <<PowerJob("fips ask", powerJobs[t].want, "v2 asked")>> \in Seq(JobsAfter(resets))
          /\ <<>> \in Seq(JobsAfter(resets))
      BY <3>2, OneMore
    <3>4. powerJobs' \in Seq(JobsAfter(resets)) /\ powerState' \in {"on", powerState}
      <4>1. CASE ok /\ powerJobs[t].then = "at restart"
        BY <2>7, <2>10, <3>1, <4>1 DEF FipsSet
      <4>2. CASE ~(ok /\ powerJobs[t].then = "at restart")
        BY <2>7, <2>10, <3>3, <4>2 DEF FipsSet
      <4> QED BY <4>1, <4>2
    <3> QED BY <2>1, <2>10, <3>4 DEF FipsSet, PowerInv, PowerIsAccepted
  <2>11. CASE ModemUpdate \/ UNCHANGED power
    BY <2>1, <2>11 DEF ModemUpdate, power, PowerInv, PowerIsAccepted
  <2>12. ASSUME NEW want \in PowerStates, PowerResource(want) \/ PowerCommand(want)
         PROVE  PowerInv'
    BY <2>2, <2>12 DEF PowerResource, PowerCommand
  <2>13. CASE PowerOff \/ Suspend \/ Reboot
    BY <2>3, <2>13 DEF PowerOff, Suspend, Reboot, PowerStates
  <2>14. ASSUME NEW ok \in BOOLEAN, NEW restart \in BOOLEAN,
                FactoryResetResource(ok, restart) \/ FactoryResetCommand(ok, restart) \/ FactoryReset(ok)
         PROVE  PowerInv'
    BY <2>5, <2>14 DEF FactoryResetResource, FactoryResetCommand, FactoryReset
  <2>15. ASSUME NEW mode \in FipsModes, NEW restart \in BOOLEAN,
                FipsResource(mode) \/ Fips(mode) \/ FipsCommand(mode, restart)
         PROVE  PowerInv'
    BY <2>4, <2>15 DEF FipsResource, Fips, FipsCommand
  <2> QED BY <2>8, <2>9, <2>10, <2>11, <2>12, <2>13, <2>14, <2>15 DEF PowerNext
<1>3. PowerInv => PowerIsAccepted
  BY DEF PowerInv
<1> QED BY <1>1, <1>2, <1>3, PTL DEF PowerSpec

-----------------------------------------------------------------------------
(***************************************************************************)
(* For any number of requests, for any paths that the program serves: none *)
(* is told that there is no such route while its group is being loaded.    *)
(***************************************************************************)

RoutesOf(g) == Early[g] \union Late[g]

(* A group whose coroutine is over has all its routes; a request that waits for the zones *)
(* is of a group that waits with it, and nobody else does while they count as known.      *)
AskingOK(r) ==
    /\ asking[r].waits \in {"nothing", "zones", "plugin"}
    /\ asking[r].answer \in {"none", "found", "error"}
    /\ asking[r].waits = "zones" =>
          /\ zones = TRUE
          /\ asking[r].path \in AskedPaths /\ asking[r].path[1] \in Groups
          /\ coroutine[asking[r].path[1]] = "running"

RoutesInv ==
    /\ routes \subseteq OfPlugins \union UNION {RoutesOf(g) : g \in Groups}
    /\ coroutine \in [Groups -> {"new", "running", "over"}]
    /\ awaited = [g \in Groups |-> coroutine[g] = "over"] /\ zones \in BOOLEAN
    /\ asking = [r \in RouteRequests |-> asking[r]]
    /\ \A g \in Groups : coroutine[g] = "over" => RoutesOf(g) \subseteq routes
    /\ \A g \in Groups : coroutine[g] = "running" => Early[g] \subseteq routes
    /\ \A r \in RouteRequests : AskingOK(r)
    /\ ZonesAskedOnce

-----------------------------------------------------------------------------
(* The prefix of a route is its group. *)
LEMMA RoutePrefixes == \A g \in Groups : \A p \in RoutesOf(g) : p[1] = g
<1>1. \A group, rests : \A p \in Of(group, rests) : p[1] = group
  BY DEF Of
<1>2. Groups = {"system", "datetime", "network", "login", "legacy users", "legacy files"}
  BY DEF Groups, Early
<1>3. \A g \in Groups : \A p \in Early[g] : p[1] = g
  <2>1. \A p \in Early["system"] : p[1] = "system"
    BY <1>1 DEF Early, SystemEarly
  <2>2. \A p \in Early["datetime"] : p[1] = "datetime"
    BY <1>1 DEF Early, DateTimeLegacy
  <2>3. \A p \in Early["network"] : p[1] = "network"
    BY <1>1 DEF Early, NetworkV2
  <2>4. \A p \in Early["login"] : p[1] = "login"
    BY <1>1 DEF Early, LoginV2
  <2>5. \A p \in Early["legacy users"] : p[1] = "legacy users"
    BY <1>1 DEF Early, UsersLegacy
  <2>6. \A p \in Early["legacy files"] : p[1] = "legacy files"
    BY <1>1 DEF Early, FilesLegacy
  <2> QED BY <1>2, <2>1, <2>2, <2>3, <2>4, <2>5, <2>6
<1>4. \A g \in Groups : \A p \in Late[g] : p[1] = g
  BY <1>1 DEF Late, SystemLate
<1> QED BY <1>3, <1>4 DEF RoutesOf

(* A path that is asked for is one of its group's, or of a plugin. *)
LEMMA AskedIsServed ==
    \A p \in AskedPaths : p \in OfPlugins \/ (p[1] \in Groups /\ p \in RoutesOf(p[1]))
BY AskedAssumption, RoutePrefixes DEF RoutesOf

-----------------------------------------------------------------------------
LEMMA RoutesStart == RoutesInit => RoutesInv
<1> SUFFICES ASSUME RoutesInit PROVE RoutesInv
  OBVIOUS
<1>1. \A g \in Groups : coroutine[g] = "new"
  BY DEF RoutesInit
<1>2. awaited = [g \in Groups |-> coroutine[g] = "over"]
  BY <1>1 DEF RoutesInit
<1>3. \A r \in RouteRequests : asking[r] = NotAsking
  BY DEF RoutesInit
<1>4. coroutine \in [Groups -> {"new", "running", "over"}] /\ asking = [r \in RouteRequests |-> asking[r]]
  BY DEF RoutesInit
<1> QED BY <1>1, <1>2, <1>3, <1>4 DEF RoutesInit, RoutesInv, NotAsking, AskingOK, ZonesAskedOnce

(* A request whose group is loaded is answered by a route or by its plugin. *)
LEMMA Found ==
    ASSUME NEW p \in AskedPaths, NEW found, p[1] \in Groups => RoutesOf(p[1]) \subseteq found
    PROVE  Routed(p, found).waits \in {"nothing", "plugin"} /\ Routed(p, found).answer \in {"none", "found"}
BY AskedIsServed DEF Routed, RouteAnswered, RouteWaiting

LEMMA KnownStep ==
    ASSUME RoutesInv, NEW r \in RouteRequests, NEW p \in AskedPaths, Known(r, p)
    PROVE  RoutesInv'
<1>1. /\ asking' = [asking EXCEPT ![r] = Routed(p, routes)]
      /\ UNCHANGED <<routes, coroutine, awaited, zones>>
  BY DEF Known
<1>2. Routed(p, routes).waits \in {"nothing", "plugin"} /\ Routed(p, routes).answer \in {"none", "found"}
  <2>1. CASE p \in routes
    BY <2>1 DEF Routed, RouteAnswered
  <2>2. CASE p[1] \in Groups => awaited[p[1]]
    <3>1. p[1] \in Groups => RoutesOf(p[1]) \subseteq routes
      BY <2>2 DEF RoutesInv
    <3> QED BY <3>1, Found
  <2> QED BY <2>1, <2>2 DEF Known
<1>3. /\ \A s \in RouteRequests : asking'[s] = IF s = r THEN Routed(p, routes) ELSE asking[s]
      /\ asking' = [s \in RouteRequests |-> asking'[s]]
  BY <1>1 DEF RoutesInv
<1> QED BY <1>1, <1>2, <1>3 DEF RoutesInv, AskingOK, ZonesAskedOnce

LEMMA LoadStep ==
    ASSUME RoutesInv, NEW r \in RouteRequests, NEW p \in AskedPaths, Load(r, p)
    PROVE  RoutesInv'
<1> DEFINE g == p[1]
<1>1. g \in Groups /\ coroutine[g] = "new"
  BY DEF Load, Unknown
<1>2. CASE g \in AsksForZones /\ ~zones
  <2>1. /\ coroutine' = [coroutine EXCEPT ![g] = "running"] /\ routes' = routes \cup Early[g] /\ zones' = TRUE
        /\ asking' = [asking EXCEPT ![r] = RouteWaiting(p, "zones")] /\ awaited' = awaited
    BY <1>2 DEF Load
  <2>2. /\ \A s \in RouteRequests : asking'[s] = IF s = r THEN RouteWaiting(p, "zones") ELSE asking[s]
        /\ asking' = [s \in RouteRequests |-> asking'[s]]
    BY <2>1 DEF RoutesInv
  <2>3. \A s \in RouteRequests : asking[s].waits # "zones"
    BY <1>2 DEF RoutesInv, AskingOK
  <2>4. /\ coroutine' \in [Groups -> {"new", "running", "over"}] /\ coroutine'[g] = "running"
        /\ \A h \in Groups : h # g => coroutine'[h] = coroutine[h]
    BY <1>1, <2>1 DEF RoutesInv
  <2>5. awaited' = [h \in Groups |-> coroutine'[h] = "over"]
    <3>1. \A h \in Groups : coroutine'[h] = "over" <=> coroutine[h] = "over"
      BY <1>1, <2>4
    <3> QED BY <2>1, <3>1 DEF RoutesInv
  <2>6. \A h \in Groups : /\ coroutine'[h] = "over" => RoutesOf(h) \subseteq routes'
                          /\ coroutine'[h] = "running" => Early[h] \subseteq routes'
    BY <2>1, <2>4 DEF RoutesInv
  <2>7. routes' \subseteq OfPlugins \union UNION {RoutesOf(h) : h \in Groups}
    BY <1>1, <2>1 DEF RoutesInv, RoutesOf
  <2>8. \A s \in RouteRequests : AskingOK(s)'
    BY <1>1, <2>1, <2>2, <2>3, <2>4 DEF RoutesInv, AskingOK, RouteWaiting
  <2>9. ZonesAskedOnce'
    BY <2>2, <2>3 DEF ZonesAskedOnce
  <2> QED BY <2>1, <2>2, <2>4, <2>5, <2>6, <2>7, <2>8, <2>9 DEF RoutesInv
<1>3. CASE ~(g \in AsksForZones /\ ~zones)
  <2>1. /\ coroutine' = [coroutine EXCEPT ![g] = "over"] /\ routes' = routes \cup Early[g] \cup Late[g]
        /\ asking' = [asking EXCEPT ![r] = Routed(p, routes')] /\ awaited' = [awaited EXCEPT ![g] = TRUE]
        /\ zones' = zones
    BY <1>3 DEF Load
  <2>2. /\ \A s \in RouteRequests : asking'[s] = IF s = r THEN Routed(p, routes') ELSE asking[s]
        /\ asking' = [s \in RouteRequests |-> asking'[s]]
    BY <2>1 DEF RoutesInv
  <2>3. Routed(p, routes').waits \in {"nothing", "plugin"} /\ Routed(p, routes').answer \in {"none", "found"}
    BY <2>1, Found DEF RoutesOf
  <2>4. /\ coroutine' \in [Groups -> {"new", "running", "over"}] /\ coroutine'[g] = "over"
        /\ \A h \in Groups : h # g => coroutine'[h] = coroutine[h]
    BY <1>1, <2>1 DEF RoutesInv
  <2>5. awaited' = [h \in Groups |-> coroutine'[h] = "over"]
    BY <1>1, <2>1, <2>4, Zenon DEF RoutesInv
  <2>6. \A h \in Groups : /\ coroutine'[h] = "over" => RoutesOf(h) \subseteq routes'
                          /\ coroutine'[h] = "running" => Early[h] \subseteq routes'
    BY <2>1, <2>4 DEF RoutesInv, RoutesOf
  <2>7. routes' \subseteq OfPlugins \union UNION {RoutesOf(h) : h \in Groups}
    BY <1>1, <2>1 DEF RoutesInv, RoutesOf
  <2>8. \A s \in RouteRequests : AskingOK(s)'
    BY <1>1, <2>1, <2>2, <2>3, <2>4 DEF RoutesInv, AskingOK
  <2>9. ZonesAskedOnce'
    BY <2>2, <2>3 DEF RoutesInv, ZonesAskedOnce
  <2> QED BY <2>1, <2>2, <2>4, <2>5, <2>6, <2>7, <2>8, <2>9 DEF RoutesInv
<1> QED BY <1>2, <1>3

LEMMA RefusedStep ==
    ASSUME RoutesInv, NEW r \in RouteRequests, NEW p \in AskedPaths, Refused(r, p)
    PROVE  RoutesInv'
<1>1. asking' = [asking EXCEPT ![r] = RouteAnswered(p, "error")] /\ UNCHANGED <<routes, coroutine, awaited, zones>>
  BY DEF Refused
<1>2. /\ \A s \in RouteRequests : asking'[s] = IF s = r THEN RouteAnswered(p, "error") ELSE asking[s]
      /\ asking' = [s \in RouteRequests |-> asking'[s]]
  BY <1>1 DEF RoutesInv
<1> QED BY <1>1, <1>2 DEF RoutesInv, AskingOK, ZonesAskedOnce, RouteAnswered

(* The one request that waits goes on: nobody waits any more, whatever the zones are. *)
LEMMA ZonesStep ==
    ASSUME RoutesInv, NEW r \in RouteRequests, ZonesCome(r)
    PROVE  RoutesInv'
<1> DEFINE p == asking[r].path
           g == p[1]
<1>1. p \in AskedPaths /\ g \in Groups /\ coroutine[g] = "running" /\ asking[r].waits = "zones"
  BY DEF ZonesCome, RoutesInv, AskingOK
<1>2. /\ zones' \in BOOLEAN /\ coroutine' = [coroutine EXCEPT ![g] = "over"]
      /\ awaited' = [awaited EXCEPT ![g] = TRUE] /\ routes' = routes \cup Late[g]
      /\ asking' = [asking EXCEPT ![r] = Routed(p, routes')]
  BY DEF ZonesCome
<1>3. RoutesOf(g) \subseteq routes'
  BY <1>1, <1>2 DEF RoutesInv, RoutesOf
<1>4. Routed(p, routes').waits \in {"nothing", "plugin"} /\ Routed(p, routes').answer \in {"none", "found"}
  BY <1>1, <1>3, Found
<1>5. /\ \A s \in RouteRequests : asking'[s] = IF s = r THEN Routed(p, routes') ELSE asking[s]
      /\ asking' = [s \in RouteRequests |-> asking'[s]]
  BY <1>2 DEF RoutesInv
<1>6. \A s \in RouteRequests : s # r => asking[s].waits # "zones"
  BY <1>1 DEF RoutesInv, ZonesAskedOnce
<1>7. /\ coroutine' \in [Groups -> {"new", "running", "over"}] /\ coroutine'[g] = "over"
      /\ \A h \in Groups : h # g => coroutine'[h] = coroutine[h]
  BY <1>1, <1>2 DEF RoutesInv
<1>8. awaited' = [h \in Groups |-> coroutine'[h] = "over"]
  BY <1>1, <1>2, <1>7, Zenon DEF RoutesInv
<1>9. \A h \in Groups : /\ coroutine'[h] = "over" => RoutesOf(h) \subseteq routes'
                        /\ coroutine'[h] = "running" => Early[h] \subseteq routes'
  BY <1>2, <1>3, <1>7 DEF RoutesInv
<1>10. routes' \subseteq OfPlugins \union UNION {RoutesOf(h) : h \in Groups}
  BY <1>1, <1>2 DEF RoutesInv, RoutesOf
<1>11. \A s \in RouteRequests : AskingOK(s)'
  BY <1>4, <1>5, <1>6 DEF RoutesInv, AskingOK
<1>12. ZonesAskedOnce'
  BY <1>4, <1>5, <1>6 DEF ZonesAskedOnce
<1> QED BY <1>2, <1>5, <1>7, <1>8, <1>9, <1>10, <1>11, <1>12 DEF RoutesInv

LEMMA PluginStep ==
    ASSUME RoutesInv, NEW r \in RouteRequests, PluginLoaded(r)
    PROVE  RoutesInv'
<1>1. /\ routes' = routes \cup {p \in OfPlugins : p = asking[r].path}
      /\ asking' = [asking EXCEPT ![r] = RouteAnswered(asking[r].path, "found")]
      /\ UNCHANGED <<coroutine, awaited, zones>>
  BY DEF PluginLoaded
<1>2. /\ \A s \in RouteRequests : asking'[s] = IF s = r THEN RouteAnswered(asking[r].path, "found") ELSE asking[s]
      /\ asking' = [s \in RouteRequests |-> asking'[s]]
  BY <1>1 DEF RoutesInv
<1>3. routes \subseteq routes' /\ routes' \subseteq routes \union OfPlugins
  BY <1>1
<1> QED BY <1>1, <1>2, <1>3 DEF RoutesInv, AskingOK, ZonesAskedOnce, RouteAnswered

-----------------------------------------------------------------------------
(* A route of the program is never answered to be missing, also while the coroutine that *)
(* adds it waits, and the zones are asked for by one request at a time: for any requests. *)
THEOREM RouteFound == RoutesSpec => []EveryRouteFound
<1>1. RoutesInv /\ [RoutesNext]_routing => RoutesInv'
  <2>1. RoutesInv /\ UNCHANGED routing => RoutesInv'
    BY DEF routing, RoutesInv, AskingOK, ZonesAskedOnce
  <2> QED BY <2>1, KnownStep, LoadStep, RefusedStep, ZonesStep, PluginStep DEF RoutesNext
<1>2. RoutesInv => EveryRouteFound
  BY DEF RoutesInv, AskingOK, RoutesOf, EveryRouteFound, RoutesTypeOK, NeverMissing
<1> QED BY <1>1, <1>2, RoutesStart, PTL DEF RoutesSpec

-----------------------------------------------------------------------------
(***************************************************************************)
(* The files, for any profiles, certificates, archives and passwords, any   *)
(* number of requests at a time and any faults: an import of a             *)
(* configuration is all or nothing, and an export is what there is.        *)
(* Both are promised to a request that is alone, so the invariant says      *)
(* where such a request has the system at each of its stages, and who will  *)
(* remove, or is known to leave, each archive that is on the disk.          *)
(***************************************************************************)
JobFields == {"kind", "path", "stage", "pw", "sent", "over", "todo", "item", "got", "ok", "before",
              "alone", "lost", "mixed"}
Imports == {"putConfig", "postConfig"}
Blank == [p \in Items |-> NoFile]
Now(d, s, pw) == Packed({Entry(p, d[p], pw) : p \in There(d, Exported[s])})
Inside(file) == \A e \in file.holds : e.path \in Items

(* What a request may be at, by its kind. *)
JobShape(job) ==
    /\ DOMAIN job = JobFields
    /\ \/ /\ job.kind \in Imports /\ job.path = IF job.kind = "putConfig" THEN "config" ELSE "upload"
          /\ job.stage \in {"upload", "start", "encrypted", "password", "clear", "unpack", "reload"}
       \/ job.kind = "import" /\ job.path = "archive" /\ job.stage \in {"upload", "start", "look", "copy", "reload"}
       \/ job.kind = "postCert" /\ job.path = "upload" /\ job.stage \in {"upload", "start"}
       \/ job.kind = "newCert" /\ job.path \in Certs /\ job.stage = "upload"
       \/ job.kind \in {"export", "atExport"} /\ job.path \in Archives /\ job.stage \in {"zip", "open", "unlink", "fails"}
    /\ {job.ok, job.alone, job.lost, job.mixed} \subseteq BOOLEAN
    /\ job.ok => job.stage = "unlink"
    /\ job.stage = "copy" => job.item \in Profiles \ ReservedProfiles
    /\ job.stage = "zip" => job.path = "config"
    /\ job.alone => ~job.lost /\ ~job.mixed
    /\ Inside(job.sent)

(* What a request that is alone has left of the system where it is. *)
FitsImport(job, d) ==
    /\ job.kind \in Imports /\ job.stage \notin {"unpack", "reload"} => Kept(d) = job.before
    /\ job.kind \in Imports /\ job.stage = "start" => d[job.path] \in {job.sent, NotZip}
    /\ job.stage \in {"encrypted", "password"} => d["config"] \in {job.sent, NotZip}
    /\ job.stage \in {"clear", "unpack"} /\ job.pw \notin NeedQuotes =>
         d["config"] = job.sent /\ Opens(job.sent, job.pw)
    /\ job.stage = "unpack" => Kept(d) = Blank
    /\ job.kind \in Imports /\ job.stage = "reload" /\ job.pw \notin NeedQuotes =>
         Kept(d) = Extracted(Blank, job.sent.holds)
    /\ job.kind = "import" => \A p \in ReservedProfiles : d[p] = job.before[p]

FitsExport(job, d, litter) ==
    job.kind = "export" /\ job.path \notin litter \union {"debug"} /\ (job.path = "config" => job.pw \notin NeedQuotes) =>
        /\ job.stage = "zip" => d[job.path] = NoFile
        /\ job.stage = "open" => d[job.path] = Now(d, job.path, job.pw)
        /\ job.stage = "unlink" => job.got = Now(d, job.path, job.pw)

Fits(job, d, litter) == FitsImport(job, d) /\ FitsExport(job, d, litter)

(* Who will remove an archive, or leave it behind. *)
Tends(job, s) ==
    \/ job.path = s /\ job.kind \in {"putConfig", "import"}
    \/ s = "config" /\ job.kind = "postConfig" /\ job.stage \notin {"upload", "start"}
    \/ job.path = s /\ job.kind \in {"export", "atExport"} /\ job.stage \in {"open", "unlink"}

Tended(jobs, d, litter) ==
    \A s \in Archives \ (litter \union {"debug"}) : d[s] # NoFile => \E t \in DOMAIN jobs : Tends(jobs[t], s)

(* What the last request, which was alone, has made of the system. *)
Right(job, d, litter, faults) ==
    /\ job.kind \in Imports /\ job.pw \notin NeedQuotes =>
         IF job.ok THEN Kept(d) = Extracted(Blank, job.sent.holds) ELSE faults > 0 \/ Kept(d) = job.before
    /\ job.kind = "import" => \A p \in ReservedProfiles : d[p] = job.before[p]
    /\ /\ job.kind = "export" /\ job.ok /\ job.path \notin litter \union {"debug"}
       /\ job.path = "config" => job.pw \notin NeedQuotes
       => job.got = Now(d, job.path, job.pw)

FilesTyped ==
    /\ DOMAIN disk = Paths /\ DOMAIN unpacked = Items /\ fileFaults \in Nat
    /\ Inside(disk["config"]) /\ Inside(disk["upload"])
    /\ fileJobs \in Seq(ToSet(fileJobs))
    /\ \A t \in DOMAIN fileJobs : JobShape(fileJobs[t])

FilesInv ==
    /\ FilesTyped
    /\ \A t \in DOMAIN fileJobs : fileJobs[t].alone => Len(fileJobs) = 1 /\ Fits(fileJobs[t], disk, littered)
    /\ Tended(fileJobs, disk, littered)
    /\ fileDone # <<>> => fileJobs = <<>> /\ Right(fileDone[1], disk, littered, fileFaults)

-----------------------------------------------------------------------------
(* A sequence is one of the elements that it has. *)
LEMMA Ranged ==
    ASSUME NEW S, NEW s \in Seq(S)
    PROVE  s \in Seq(ToSet(s)) /\ DOMAIN s = 1 .. Len(s) /\ Len(s) \in Nat
<1>1. DOMAIN s = 1 .. Len(s) /\ Len(s) \in Nat /\ s = [i \in 1 .. Len(s) |-> s[i]]
  BY LenProperties
<1>2. \A i \in 1 .. Len(s) : s[i] \in ToSet(s)
  BY <1>1 DEF ToSet
<1>3. s \in [1 .. Len(s) -> ToSet(s)]
  BY <1>1, <1>2
<1> QED BY <1>1, <1>3, SeqDef

LEMMA ListSet ==
    ASSUME NEW n \in Nat, NEW s, DOMAIN s = 1 .. n, s = [i \in 1 .. n |-> s[i]]
    PROVE  s \in Seq(ToSet(s)) /\ Len(s) = n
<1>1. \A i \in 1 .. n : s[i] \in ToSet(s)
  BY DEF ToSet
<1>2. s \in [1 .. n -> ToSet(s)]
  BY <1>1
<1>3. s \in Seq(ToSet(s))
  BY <1>2, SeqDef
<1> QED BY <1>3, LenProperties

(* A request whose file has lost its name is the same but for that. *)
LEMMA DetachedJobs ==
    ASSUME NEW S, NEW jobs \in Seq(S), NEW gone
    PROVE  /\ Detached(jobs, gone) \in Seq(ToSet(Detached(jobs, gone)))
           /\ Len(Detached(jobs, gone)) = Len(jobs) /\ DOMAIN Detached(jobs, gone) = DOMAIN jobs
           /\ \A j \in DOMAIN jobs :
                Detached(jobs, gone)[j] = [jobs[j] EXCEPT !.lost = @ \/ (jobs[j].stage = "upload" /\ jobs[j].path \in gone)]
<1>1. DOMAIN jobs = 1 .. Len(jobs) /\ Len(jobs) \in Nat
  BY LenProperties
<1>2. /\ DOMAIN Detached(jobs, gone) = 1 .. Len(jobs)
      /\ Detached(jobs, gone) = [i \in 1 .. Len(jobs) |-> Detached(jobs, gone)[i]]
  BY <1>1 DEF Detached
<1>3. Detached(jobs, gone) \in Seq(ToSet(Detached(jobs, gone))) /\ Len(Detached(jobs, gone)) = Len(jobs)
  BY <1>1, <1>2, ListSet
<1> QED BY <1>1, <1>2, <1>3 DEF Detached

(* One that is not alone keeps its shape, whatever else is said of the file that it writes. *)
LEMMA ShapeStays ==
    ASSUME NEW job, NEW lost \in BOOLEAN, NEW mixed \in BOOLEAN, NEW new, JobShape(job),
           DOMAIN new = JobFields, \A f \in JobFields \ {"lost", "mixed", "alone"} : new[f] = job[f],
           new.lost = lost, new.mixed = mixed, new.alone = FALSE
    PROVE  JobShape(new)
BY DEF JobShape, JobFields

LEMMA DetachedShape ==
    ASSUME NEW jobs, NEW gone, NEW t \in DOMAIN jobs, JobShape(jobs[t]),
           ~jobs[t].alone,
           Detached(jobs, gone)[t] = [jobs[t] EXCEPT !.lost = @ \/ (jobs[t].stage = "upload" /\ jobs[t].path \in gone)]
    PROVE  /\ JobShape(Detached(jobs, gone)[t]) /\ ~Detached(jobs, gone)[t].alone
           /\ \A s : Tends(jobs[t], s) => Tends(Detached(jobs, gone)[t], s)
<1> DEFINE new == Detached(jobs, gone)[t]
           lost == jobs[t].lost \/ (jobs[t].stage = "upload" /\ jobs[t].path \in gone)
<1>1. DOMAIN jobs[t] = JobFields
  BY DEF JobShape
<1>2. DOMAIN new = JobFields /\ \A f \in JobFields \ {"lost"} : new[f] = jobs[t][f]
  BY <1>1 DEF JobFields
<1>3. new.lost = lost /\ lost \in BOOLEAN
  BY <1>1 DEF JobFields, JobShape
<1>4. new.mixed = jobs[t].mixed /\ new.alone = jobs[t].alone /\ new.kind = jobs[t].kind
      /\ new.path = jobs[t].path /\ new.stage = jobs[t].stage
  BY <1>2 DEF JobFields
<1>5. jobs[t].mixed \in BOOLEAN /\ jobs[t].alone = FALSE
  BY DEF JobShape
<1> HIDE DEF new, lost
<1>6. JobShape(new)
  BY <1>2, <1>3, <1>4, <1>5, ShapeStays
<1> QED BY <1>4, <1>5, <1>6 DEF new, Tends

(* What a step of the request t leaves of the others. *)
LEMMA FileOthers ==
    ASSUME FilesInv, NEW t \in DOMAIN fileJobs, NEW gone, NEW j \in DOMAIN fileJobs, j # t
    PROVE  /\ JobShape(Detached(fileJobs, gone)[j]) /\ ~Detached(fileJobs, gone)[j].alone
           /\ \A s : Tends(fileJobs[j], s) => Tends(Detached(fileJobs, gone)[j], s)
<1>1. fileJobs \in Seq(ToSet(fileJobs))
  BY DEF FilesInv, FilesTyped
<1>2. DOMAIN fileJobs = 1 .. Len(fileJobs) /\ Len(fileJobs) \in Nat
  BY <1>1, LenProperties
<1>3. ~fileJobs[j].alone
  <2>1. Len(fileJobs) # 1
    BY <1>2
  <2> QED BY <2>1 DEF FilesInv
<1>4. Detached(fileJobs, gone)[j] =
        [fileJobs[j] EXCEPT !.lost = @ \/ (fileJobs[j].stage = "upload" /\ fileJobs[j].path \in gone)]
  BY <1>1, DetachedJobs
<1>5. JobShape(fileJobs[j])
  BY DEF FilesInv, FilesTyped
<1> QED BY <1>3, <1>4, <1>5, DetachedShape

(* A step of a request that goes on. *)
LEMMA FileGoesOn ==
    ASSUME FilesInv, NEW t \in DOMAIN fileJobs, NEW job, NEW d, NEW gone, GoesOn(t, job, d, gone),
           JobShape(job), job.alone = fileJobs[t].alone, job.alone => Fits(job, d, littered),
           DOMAIN d = Paths, Inside(d["config"]), Inside(d["upload"]),
           DOMAIN unpacked' = Items, fileFaults' \in Nat, littered' = littered,
           \A s \in Archives \ (littered \union {"debug"}) : d[s] # NoFile =>
             Tends(job, s) \/ (disk[s] # NoFile /\ (Tends(fileJobs[t], s) => Tends(job, s)))
    PROVE  FilesInv'
<1>1. fileJobs \in Seq(ToSet(fileJobs))
  BY DEF FilesInv, FilesTyped
<1>2. DOMAIN fileJobs = 1 .. Len(fileJobs) /\ Len(fileJobs) \in Nat
  BY <1>1, LenProperties
<1> DEFINE old == Detached(fileJobs, gone)
<1>3. DOMAIN old = 1 .. Len(fileJobs)
  BY <1>1, <1>2, DetachedJobs
<1>4. fileJobs' = [old EXCEPT ![t] = job] /\ disk' = d /\ fileDone' = fileDone
  BY DEF GoesOn
<1>5. \A j \in DOMAIN fileJobs : j # t =>
         JobShape(old[j]) /\ ~old[j].alone /\ \A s : Tends(fileJobs[j], s) => Tends(old[j], s)
  BY FileOthers
<1> HIDE DEF old
<1>6. /\ DOMAIN fileJobs' = 1 .. Len(fileJobs) /\ fileJobs' = [j \in 1 .. Len(fileJobs) |-> fileJobs'[j]]
      /\ fileJobs'[t] = job /\ \A j \in DOMAIN fileJobs : j # t => fileJobs'[j] = old[j]
  BY <1>2, <1>3, <1>4
<1>7. (fileJobs \in Seq(ToSet(fileJobs)))' /\ Len(fileJobs') = Len(fileJobs)
  BY <1>2, <1>6, ListSet
<1>8. FilesTyped'
  <2>1. \A j \in DOMAIN fileJobs' : JobShape(fileJobs'[j])
    BY <1>2, <1>5, <1>6
  <2> QED BY <1>4, <1>7, <2>1 DEF FilesTyped, JobShape, Inside
<1>9. ASSUME NEW j \in DOMAIN fileJobs', fileJobs'[j].alone
      PROVE  Len(fileJobs') = 1 /\ Fits(fileJobs'[j], d, littered)
  <2>1. j = t
    BY <1>2, <1>5, <1>6, <1>9
  <2>2. fileJobs[t].alone /\ Fits(job, d, littered)
    BY <1>6, <1>9, <2>1
  <2> QED BY <1>6, <1>7, <2>1, <2>2 DEF FilesInv
<1>10. ASSUME NEW s \in Archives \ (littered \union {"debug"}), d[s] # NoFile
       PROVE  \E j \in DOMAIN fileJobs' : Tends(fileJobs'[j], s)
  <2>1. CASE Tends(job, s)
    BY <1>2, <1>6, <2>1
  <2>2. CASE ~Tends(job, s)
    <3>1. disk[s] # NoFile /\ ~Tends(fileJobs[t], s)
      BY <1>10, <2>2
    <3>2. PICK j \in DOMAIN fileJobs : Tends(fileJobs[j], s)
      BY <3>1 DEF FilesInv, Tended
    <3> QED BY <1>2, <1>5, <1>6, <3>1, <3>2
  <2> QED BY <2>1, <2>2
<1>11. fileDone' = <<>>
  <2>1. fileJobs # <<>>
    BY <1>2
  <2> QED BY <1>4, <2>1 DEF FilesInv
<1> QED
  <2>1. \A j \in DOMAIN fileJobs' : fileJobs'[j].alone => Len(fileJobs') = 1 /\ Fits(fileJobs'[j], disk', littered')
    BY <1>4, <1>9
  <2>2. Tended(fileJobs', disk', littered')
    BY <1>4, <1>10 DEF Tended
  <2> QED BY <1>8, <1>11, <2>1, <2>2 DEF FilesInv, Fits, FitsImport, FitsExport, Tended, Tends, Opens, Readable, Kept, Now, There

(* A request that is answered. *)
LEMMA FileAnswers ==
    ASSUME FilesInv, NEW t \in DOMAIN fileJobs, NEW job, NEW d, NEW gone, Answers(t, job, d, gone),
           job.alone = fileJobs[t].alone, job.alone => Right(job, d, littered', fileFaults'),
           DOMAIN d = Paths, Inside(d["config"]), Inside(d["upload"]),
           DOMAIN unpacked' = Items, fileFaults' \in Nat, littered \subseteq littered',
           \A s \in Archives \ (littered' \union {"debug"}) : d[s] # NoFile =>
             disk[s] # NoFile /\ ~Tends(fileJobs[t], s)
    PROVE  FilesInv'
<1>1. fileJobs \in Seq(ToSet(fileJobs))
  BY DEF FilesInv, FilesTyped
<1>2. DOMAIN fileJobs = 1 .. Len(fileJobs) /\ Len(fileJobs) \in Nat
  BY <1>1, LenProperties
<1> DEFINE old == Detached(fileJobs, gone)
<1>3. old \in Seq(ToSet(old)) /\ Len(old) = Len(fileJobs) /\ DOMAIN old = DOMAIN fileJobs
  BY <1>1, DetachedJobs
<1>4. fileJobs' = RemoveAt(old, t) /\ disk' = d /\ fileDone' = IF job.alone THEN <<job>> ELSE <<>>
  BY DEF Answers
<1>5. \A j \in DOMAIN fileJobs : j # t =>
         JobShape(old[j]) /\ ~old[j].alone /\ \A s : Tends(fileJobs[j], s) => Tends(old[j], s)
  BY FileOthers
<1> HIDE DEF old
<1>6. /\ RemoveAt(old, t) \in Seq(ToSet(old)) /\ Len(RemoveAt(old, t)) = Len(old) - 1
      /\ \A i \in 1 .. Len(old) - 1 : RemoveAt(old, t)[i] = old[IF i < t THEN i ELSE i + 1]
  BY <1>2, <1>3, Removed
<1>7. /\ (fileJobs \in Seq(ToSet(fileJobs)))' /\ Len(fileJobs') = Len(fileJobs) - 1
      /\ DOMAIN fileJobs' = 1 .. Len(fileJobs) - 1
      /\ \A i \in 1 .. Len(fileJobs) - 1 : fileJobs'[i] = old[IF i < t THEN i ELSE i + 1]
  <2>1. (fileJobs \in Seq(ToSet(fileJobs)))' /\ DOMAIN fileJobs' = 1 .. Len(fileJobs')
    BY <1>4, <1>6, Ranged
  <2> QED BY <1>3, <1>4, <1>6, <2>1
<1>8. ASSUME NEW i \in DOMAIN fileJobs'
      PROVE  \E j \in DOMAIN fileJobs : j # t /\ fileJobs'[i] = old[j]
  BY <1>2, <1>7
<1>9. ASSUME NEW j \in DOMAIN fileJobs, j # t
      PROVE  \E i \in DOMAIN fileJobs' : fileJobs'[i] = old[j]
  <2>1. CASE j < t
    BY <1>2, <1>7, <1>9, <2>1
  <2>2. CASE j > t
    <3>1. j - 1 \in DOMAIN fileJobs' /\ ~(j - 1 < t) /\ (j - 1) + 1 = j
      BY <1>2, <1>7, <2>2
    <3> QED BY <1>7, <3>1
  <2> QED BY <1>2, <1>9, <2>1, <2>2
<1>10. FilesTyped'
  <2>1. \A i \in DOMAIN fileJobs' : JobShape(fileJobs'[i])
    BY <1>5, <1>8
  <2> QED BY <1>4, <1>7, <2>1 DEF FilesTyped, JobShape, Inside
<1>11. \A i \in DOMAIN fileJobs' : ~fileJobs'[i].alone
  BY <1>5, <1>8
<1>12. Tended(fileJobs', disk', littered')
  <2>1. ASSUME NEW s \in Archives \ (littered' \union {"debug"}), d[s] # NoFile
        PROVE  \E i \in DOMAIN fileJobs' : Tends(fileJobs'[i], s)
    <3>1. disk[s] # NoFile /\ ~Tends(fileJobs[t], s)
      BY <2>1
    <3>2. PICK j \in DOMAIN fileJobs : Tends(fileJobs[j], s)
      BY <3>1 DEF FilesInv, Tended
    <3>3. j # t /\ Tends(old[j], s)
      BY <1>5, <3>1, <3>2
    <3> QED BY <1>9, <3>3
  <2> QED BY <1>4, <2>1 DEF Tended
<1>13. fileDone' # <<>> => fileJobs' = <<>> /\ Right(fileDone'[1], d, littered', fileFaults')
  <2>1. SUFFICES ASSUME job.alone
                 PROVE  fileJobs' = <<>> /\ Right(job, d, littered', fileFaults')
    BY <1>4
  <2>2. Len(fileJobs) = 1
    BY <2>1 DEF FilesInv
  <2>3. Len(fileJobs') = 0
    BY <1>7, <2>2
  <2>4. fileJobs' = <<>>
    BY <1>7, <2>3, EmptySeq
  <2> QED BY <2>1, <2>4
<1> QED
  <2>1. fileDone' # <<>> => fileJobs' = <<>> /\ Right(fileDone'[1], disk', littered', fileFaults')
    BY <1>4, <1>13
  <2> QED BY <1>10, <1>11, <1>12, <2>1 DEF FilesInv, Right, Tended, Tends, Kept, Now, There

(* A request that comes. *)
LEMMA FileArrives ==
    ASSUME FilesInv, NEW job, NEW d, FileRequest(job, d), JobShape(job), job.alone <=> fileJobs = <<>>,
           ~job.mixed, job.alone => Fits(job, d, littered),
           DOMAIN d = Paths, Inside(d["config"]), Inside(d["upload"]),
           \A s \in Archives \ (littered \union {"debug"}) : d[s] # NoFile => disk[s] # NoFile \/ Tends(job, s)
    PROVE  FilesInv'
<1>1. fileJobs \in Seq(ToSet(fileJobs))
  BY DEF FilesInv, FilesTyped
<1>2. DOMAIN fileJobs = 1 .. Len(fileJobs) /\ Len(fileJobs) \in Nat
  BY <1>1, LenProperties
<1> DEFINE shares(u) == job.stage = "upload" /\ fileJobs[u].stage = "upload" /\ fileJobs[u].path = job.path
           old == [u \in DOMAIN fileJobs |-> [fileJobs[u] EXCEPT !.alone = FALSE, !.mixed = @ \/ shares(u)]]
           new == [job EXCEPT !.mixed = \E u \in DOMAIN fileJobs : shares(u)]
<1>3. fileJobs' = Append(old, new) /\ disk' = d /\ fileDone' = <<>>
      /\ UNCHANGED <<unpacked, loaded, littered, fileFaults>>
  BY DEF FileRequest
<1>4. ASSUME NEW u \in DOMAIN fileJobs
      PROVE  /\ JobShape(old[u]) /\ ~old[u].alone
             /\ \A s : Tends(fileJobs[u], s) => Tends(old[u], s)
  <2>1. JobShape(fileJobs[u]) /\ DOMAIN fileJobs[u] = JobFields
    BY DEF FilesInv, FilesTyped, JobShape
  <2>2. old[u] = [fileJobs[u] EXCEPT !.alone = FALSE, !.mixed = @ \/ shares(u)]
    OBVIOUS
  <2>3. DOMAIN old[u] = JobFields /\ \A f \in JobFields \ {"alone", "mixed"} : old[u][f] = fileJobs[u][f]
    BY <2>1, <2>2 DEF JobFields
  <2>4. old[u].alone = FALSE /\ old[u].mixed = (fileJobs[u].mixed \/ shares(u))
    BY <2>1, <2>2 DEF JobFields
  <2>5. /\ old[u].lost = fileJobs[u].lost /\ old[u].kind = fileJobs[u].kind
        /\ old[u].path = fileJobs[u].path /\ old[u].stage = fileJobs[u].stage
    BY <2>3 DEF JobFields
  <2>6. fileJobs[u].lost \in BOOLEAN /\ (fileJobs[u].mixed \/ shares(u)) \in BOOLEAN
    BY <2>1 DEF JobShape
  <2> HIDE DEF old, shares
  <2>7. JobShape(old[u])
    BY <2>1, <2>3, <2>4, <2>5, <2>6, ShapeStays
  <2> QED BY <2>4, <2>5, <2>7 DEF Tends
<1>5. /\ JobShape(new) /\ new.alone = job.alone /\ (job.alone => Fits(new, d, littered))
      /\ \A s : Tends(job, s) => Tends(new, s)
  <2>1. DOMAIN job = JobFields
    BY DEF JobShape
  <2>2. DOMAIN new = JobFields /\ \A f \in JobFields \ {"mixed"} : new[f] = job[f]
    BY <2>1 DEF JobFields
  <2>3. new.mixed = \E u \in DOMAIN fileJobs : shares(u)
    BY <2>1 DEF JobFields
  <2>4. /\ new.kind = job.kind /\ new.path = job.path /\ new.stage = job.stage /\ new.pw = job.pw
        /\ new.sent = job.sent /\ new.item = job.item /\ new.got = job.got /\ new.ok = job.ok
        /\ new.before = job.before /\ new.alone = job.alone /\ new.lost = job.lost
    BY <2>2 DEF JobFields
  <2>5. new.mixed \in BOOLEAN /\ (job.alone => new.mixed = FALSE)
    BY <1>2, <2>3
  <2> HIDE DEF new, shares
  <2>6. JobShape(new)
    BY <2>2, <2>4, <2>5 DEF JobShape
  <2> QED BY <2>4, <2>6 DEF Fits, FitsImport, FitsExport, Tends
<1>6. DOMAIN old = 1 .. Len(fileJobs) /\ old = [i \in 1 .. Len(fileJobs) |-> old[i]]
  BY <1>2
<1> HIDE DEF old, new
<1>7. old \in Seq(ToSet(old)) /\ Len(old) = Len(fileJobs)
  BY <1>2, <1>6, ListSet
<1>8. /\ fileJobs' \in Seq(ToSet(old) \union {new}) /\ Len(fileJobs') = Len(fileJobs) + 1
      /\ \A i \in 1 .. Len(fileJobs) : fileJobs'[i] = old[i]
      /\ fileJobs'[Len(fileJobs) + 1] = new
  <2>1. old \in Seq(ToSet(old) \union {new}) /\ new \in ToSet(old) \union {new}
    BY <1>7, SeqMonotonic
  <2> QED BY <1>3, <1>7, <2>1, AppendProperties
<1>9. (fileJobs \in Seq(ToSet(fileJobs)))' /\ DOMAIN fileJobs' = 1 .. Len(fileJobs) + 1
  BY <1>8, Ranged
<1>10. FilesTyped'
  <2>1. \A i \in DOMAIN fileJobs' : JobShape(fileJobs'[i])
    BY <1>2, <1>4, <1>5, <1>8, <1>9
  <2>2. DOMAIN unpacked' = Items /\ fileFaults' \in Nat
    BY <1>3 DEF FilesInv, FilesTyped
  <2> QED BY <1>3, <1>9, <2>1, <2>2 DEF FilesTyped, JobShape, Inside
<1>11. ASSUME NEW i \in DOMAIN fileJobs', fileJobs'[i].alone
       PROVE  Len(fileJobs') = 1 /\ Fits(fileJobs'[i], d, littered)
  <2>1. fileJobs'[i] = new
    BY <1>2, <1>4, <1>8, <1>9, <1>11
  <2>2. fileJobs = <<>>
    BY <1>5, <1>11, <2>1
  <2> QED BY <1>5, <1>8, <1>11, <2>1, <2>2
<1>12. ASSUME NEW s \in Archives \ (littered \union {"debug"}), d[s] # NoFile
       PROVE  \E i \in DOMAIN fileJobs' : Tends(fileJobs'[i], s)
  <2>1. CASE Tends(job, s)
    BY <1>2, <1>5, <1>8, <1>9, <2>1
  <2>2. CASE ~Tends(job, s)
    <3>1. PICK u \in DOMAIN fileJobs : Tends(fileJobs[u], s)
      BY <1>12, <2>2 DEF FilesInv, Tended
    <3> QED BY <1>2, <1>4, <1>8, <1>9, <3>1
  <2> QED BY <2>1, <2>2
<1> QED
  <2>1. \A i \in DOMAIN fileJobs' : fileJobs'[i].alone => Len(fileJobs') = 1 /\ Fits(fileJobs'[i], disk', littered')
    BY <1>3, <1>11
  <2>2. Tended(fileJobs', disk', littered')
    BY <1>3, <1>12 DEF Tended
  <2> QED BY <1>3, <1>10, <2>1, <2>2 DEF FilesInv, Fits, FitsImport, FitsExport, Tended, Tends, Opens, Readable, Kept, Now, There

(* A request that is answered where it comes. *)
LEMMA FileAtOnce ==
    ASSUME FilesInv, NEW d, NEW gone, AtOnce(d, gone),
           DOMAIN d = Paths, Inside(d["config"]), Inside(d["upload"]),
           \A s \in Archives : d[s] # NoFile => disk[s] # NoFile
    PROVE  FilesInv'
<1>1. fileJobs \in Seq(ToSet(fileJobs))
  BY DEF FilesInv, FilesTyped
<1>2. DOMAIN fileJobs = 1 .. Len(fileJobs) /\ Len(fileJobs) \in Nat
  BY <1>1, LenProperties
<1> DEFINE old == Detached(fileJobs, gone)
<1>3. /\ fileJobs' = [u \in DOMAIN fileJobs |-> [old[u] EXCEPT !.alone = FALSE]] /\ disk' = d /\ fileDone' = <<>>
      /\ UNCHANGED <<unpacked, loaded, littered, fileFaults>>
  BY DEF AtOnce
<1>4. ASSUME NEW u \in DOMAIN fileJobs
      PROVE  /\ JobShape(fileJobs'[u]) /\ ~fileJobs'[u].alone
             /\ \A s : Tends(fileJobs[u], s) => Tends(fileJobs'[u], s)
  <2>1. JobShape(fileJobs[u]) /\ DOMAIN fileJobs[u] = JobFields
    BY DEF FilesInv, FilesTyped, JobShape
  <2> DEFINE lost == fileJobs[u].lost \/ (fileJobs[u].stage = "upload" /\ fileJobs[u].path \in gone)
             new == fileJobs'[u]
  <2>2. old[u] = [fileJobs[u] EXCEPT !.lost = lost]
    <3>1. old[u] = [fileJobs[u] EXCEPT !.lost = @ \/ (fileJobs[u].stage = "upload" /\ fileJobs[u].path \in gone)]
      BY <1>1, DetachedJobs
    <3> QED BY <2>1, <3>1 DEF JobFields
  <2>3. new = [old[u] EXCEPT !.alone = FALSE]
    BY <1>3
  <2> HIDE DEF old, lost, new
  <2>4. DOMAIN new = JobFields /\ \A f \in JobFields \ {"lost", "alone"} : new[f] = fileJobs[u][f]
    BY <2>1, <2>2, <2>3 DEF JobFields
  <2>5. new.alone = FALSE /\ new.lost = lost /\ new.mixed = fileJobs[u].mixed
        /\ new.kind = fileJobs[u].kind /\ new.path = fileJobs[u].path /\ new.stage = fileJobs[u].stage
    BY <2>1, <2>2, <2>3 DEF JobFields
  <2>6. lost \in BOOLEAN /\ fileJobs[u].mixed \in BOOLEAN
    BY <2>1 DEF JobShape, lost
  <2>7. JobShape(new)
    BY <2>1, <2>4, <2>5, <2>6, ShapeStays
  <2> QED BY <2>5, <2>7 DEF new, Tends
<1>5. DOMAIN fileJobs' = 1 .. Len(fileJobs) /\ fileJobs' = [i \in 1 .. Len(fileJobs) |-> fileJobs'[i]]
  BY <1>2, <1>3
<1>6. (fileJobs \in Seq(ToSet(fileJobs)))'
  BY <1>2, <1>5, ListSet
<1>7. FilesTyped'
  <2>1. \A i \in DOMAIN fileJobs' : JobShape(fileJobs'[i])
    BY <1>2, <1>4, <1>5
  <2>2. DOMAIN unpacked' = Items /\ fileFaults' \in Nat
    BY <1>3 DEF FilesInv, FilesTyped
  <2> QED BY <1>3, <1>6, <2>1, <2>2 DEF FilesTyped, JobShape, Inside
<1>8. Tended(fileJobs', disk', littered')
  <2>1. ASSUME NEW s \in Archives \ (littered \union {"debug"}), d[s] # NoFile
        PROVE  \E i \in DOMAIN fileJobs' : Tends(fileJobs'[i], s)
    <3>1. PICK u \in DOMAIN fileJobs : Tends(fileJobs[u], s)
      BY <2>1 DEF FilesInv, Tended
    <3> QED BY <1>2, <1>4, <1>5, <3>1
  <2> QED BY <1>3, <2>1 DEF Tended
<1>9. \A u \in DOMAIN fileJobs' : ~fileJobs'[u].alone
  BY <1>2, <1>4, <1>5
<1> QED BY <1>3, <1>7, <1>8, <1>9 DEF FilesInv

-----------------------------------------------------------------------------
(* The archives have names of their own. *)
LEMMA FilesApart ==
    /\ Archives = {"config", "archive", "log", "debug"} /\ Archives \subseteq Paths /\ "upload" \in Paths
    /\ Items \subseteq Paths /\ Items \intersect Archives = {} /\ "upload" \notin Items \union Archives
    /\ "journal" \notin Archives \union Items \union {"upload"}
    /\ Certs \subseteq Items /\ Profiles \subseteq Items /\ ReservedProfiles \subseteq Items
    /\ \A s \in Archives : Exported[s] \subseteq Items \union {"journal"}
<1>1. Archives = {"config", "archive", "log", "debug"}
  BY DEF Archives, Exported
<1>2. Items \intersect (Archives \union {"upload", "journal"}) = {} /\ ReservedProfiles \subseteq Profiles
  BY FilesAssumption
<1>3. Certs \subseteq Items /\ Profiles \subseteq Items
  BY DEF Items
<1>4. \A s \in Archives : Exported[s] \subseteq Items \union {"journal"}
  <2>1. Exported["config"] = Items /\ Exported["archive"] = Profiles \union Certs
        /\ Exported["log"] = {"journal"} /\ Exported["debug"] = Items \union {"journal"}
    BY DEF Exported
  <2> QED BY <1>1, <1>3, <2>1
<1>5. Archives \subseteq Paths /\ "upload" \in Paths /\ Items \subseteq Paths
  BY DEF Paths
<1> QED BY <1>1, <1>2, <1>3, <1>4, <1>5

LEMMA PlainInside == Inside(NoFile) /\ Inside(NotZip) /\ \A content : Inside(Plain(content))
BY DEF Inside, NoFile, NotZip, Plain

LEMMA SameNow ==
    ASSUME NEW s \in Archives, NEW d, NEW e, NEW pw, \A p \in Items \union {"journal"} : d[p] = e[p]
    PROVE  Now(d, s, pw) = Now(e, s, pw)
<1>1. \A p \in Exported[s] : d[p] = e[p]
  BY FilesApart
<1>2. There(d, Exported[s]) = There(e, Exported[s])
  BY <1>1 DEF There
<1>3. {Entry(p, d[p], pw) : p \in There(d, Exported[s])} = {Entry(p, e[p], pw) : p \in There(e, Exported[s])}
  BY <1>1, <1>2 DEF There
<1> QED BY <1>3 DEF Now

(* A file taken away, and one put in its place. *)
LEMMA WithoutFile ==
    ASSUME NEW d, NEW gone
    PROVE  /\ DOMAIN Without(d, gone) = DOMAIN d
           /\ \A p \in DOMAIN d : Without(d, gone)[p] = IF p \in gone THEN NoFile ELSE d[p]
BY DEF Without

(* What is unpacked is no archive, nor an upload. *)
LEMMA ExtractedFiles ==
    ASSUME NEW d, NEW entries, \A e \in entries : e.path \in Items, DOMAIN d = Paths
    PROVE  /\ DOMAIN Extracted(d, entries) = Paths
           /\ \A p \in Paths \ Items : Extracted(d, entries)[p] = d[p]
           /\ Kept(Extracted(d, entries)) = Extracted(Kept(d), entries)
<1>1. DOMAIN Extracted(d, entries) = Paths
  BY DEF Extracted
<1>2. ASSUME NEW p \in Paths \ Items
      PROVE  Extracted(d, entries)[p] = d[p]
  BY <1>2 DEF Extracted
<1>3. Kept(Extracted(d, entries)) = Extracted(Kept(d), entries)
  BY FilesApart DEF Kept, Extracted
<1> QED BY <1>1, <1>2, <1>3

(* A request whose stage, or whose answer, is another one. *)
LEMMA StageOf ==
    ASSUME NEW job, NEW stage, DOMAIN job = JobFields
    PROVE  LET new == [job EXCEPT !.stage = stage]
           IN /\ DOMAIN new = JobFields /\ new.stage = stage
              /\ new.kind = job.kind /\ new.path = job.path /\ new.pw = job.pw /\ new.sent = job.sent
              /\ new.item = job.item /\ new.got = job.got /\ new.ok = job.ok /\ new.before = job.before
              /\ new.alone = job.alone /\ new.lost = job.lost /\ new.mixed = job.mixed
BY DEF JobFields

LEMMA AnswerOf ==
    ASSUME NEW job, NEW ok, DOMAIN job = JobFields
    PROVE  LET new == [job EXCEPT !.ok = ok]
           IN /\ DOMAIN new = JobFields /\ new.ok = ok /\ new.kind = job.kind /\ new.path = job.path
              /\ new.sent = job.sent /\ new.before = job.before /\ new.alone = job.alone /\ new.pw = job.pw
BY DEF JobFields

(* A request that has come, and its file or what it is sent. *)
NewJob(job, kind, path, stage, pw, sent) ==
    /\ DOMAIN job = JobFields /\ job.kind = kind /\ job.path = path /\ job.stage = stage /\ job.pw = pw
    /\ job.sent = sent /\ job.before = Kept(disk) /\ (job.alone <=> fileJobs = <<>>)
    /\ {job.ok, job.alone, job.lost, job.mixed} \subseteq BOOLEAN /\ ~job.ok /\ ~job.lost /\ ~job.mixed

LEMMA FirstJob ==
    ASSUME NEW kind, NEW path, NEW stage, NEW pw
    PROVE  NewJob(FileJob(kind, path, stage, pw), kind, path, stage, pw, NoFile)
<1>1. ASSUME NEW job, NEW sent, NEW before, NEW first \in BOOLEAN,
             job = [kind |-> kind, path |-> path, stage |-> stage, pw |-> pw, sent |-> sent, over |-> FALSE,
                    todo |-> {}, item |-> "", got |-> sent, ok |-> FALSE, before |-> before, alone |-> first,
                    lost |-> FALSE, mixed |-> FALSE]
      PROVE  /\ DOMAIN job = JobFields /\ job.kind = kind /\ job.path = path /\ job.stage = stage /\ job.pw = pw
             /\ job.sent = sent /\ job.before = before /\ (job.alone <=> first)
             /\ {job.ok, job.alone, job.lost, job.mixed} \subseteq BOOLEAN /\ ~job.ok /\ ~job.lost /\ ~job.mixed
  BY <1>1 DEF JobFields
<1>2. (fileJobs = <<>>) \in BOOLEAN
  OBVIOUS
<1> QED BY <1>1, <1>2, Zenon DEF FileJob, NewJob

LEMMA SentJob ==
    ASSUME NEW kind, NEW path, NEW stage, NEW pw, NEW sent, NEW over, NEW job,
           \/ job = [FileJob(kind, path, stage, pw) EXCEPT !.sent = sent, !.over = over]
           \/ job = [FileJob(kind, path, stage, pw) EXCEPT !.sent = sent]
    PROVE  NewJob(job, kind, path, stage, pw, sent)
<1>1. PICK first : first = FileJob(kind, path, stage, pw)
  OBVIOUS
<1>2. NewJob(first, kind, path, stage, pw, NoFile)
  BY <1>1, FirstJob
<1>3. \/ job = [first EXCEPT !.sent = sent, !.over = over]
      \/ job = [first EXCEPT !.sent = sent]
  BY <1>1
<1>4. DOMAIN job = JobFields /\ job.sent = sent /\ \A f \in JobFields \ {"sent", "over"} : job[f] = first[f]
  BY <1>2, <1>3 DEF JobFields, NewJob
<1> QED BY <1>2, <1>4 DEF JobFields, NewJob

LEMMA KeptWithout ==
    ASSUME NEW d, NEW e, \A p \in Items : d[p] = e[p]
    PROVE  Kept(d) = Kept(e)
BY DEF Kept

(* A request whose file is written where it comes, or as its parts do. *)
LEMMA UploadStep ==
    ASSUME FilesInv, NEW kind, NEW path, NEW stage \in {"upload", "start"}, NEW sent, NEW pw, NEW job, NEW file,
           NewJob(job, kind, path, stage, pw, sent), FileRequest(job, [disk EXCEPT ![path] = file]),
           \/ kind = "putConfig" /\ path = "config"
           \/ kind = "import" /\ path = "archive"
           \/ kind \in {"postConfig", "postCert"} /\ path = "upload"
           \/ kind = "newCert" /\ path \in Certs /\ stage = "upload",
           Inside(sent), file \in {sent, NotZip}
    PROVE  FilesInv'
<1> DEFINE d == [disk EXCEPT ![path] = file]
<1>1. /\ DOMAIN job = JobFields /\ job.kind = kind /\ job.path = path /\ job.stage = stage /\ job.pw = pw
      /\ job.sent = sent /\ job.before = Kept(disk) /\ (job.alone <=> fileJobs = <<>>)
      /\ {job.ok, job.alone, job.lost, job.mixed} \subseteq BOOLEAN /\ ~job.ok /\ ~job.lost /\ ~job.mixed
  BY DEF NewJob
<1>2. JobShape(job)
  BY <1>1 DEF JobShape, Imports
<1>3. DOMAIN disk = Paths /\ Inside(disk["config"]) /\ Inside(disk["upload"])
  BY DEF FilesInv, FilesTyped
<1>4. path \in Paths /\ (kind # "newCert" => path \notin Items)
  BY FilesApart
<1>5. /\ DOMAIN d = Paths /\ d[path] = file /\ \A p \in Paths : p # path => d[p] = disk[p]
  BY <1>3, <1>4
<1> HIDE DEF d
<1>6. Inside(d["config"]) /\ Inside(d["upload"])
  BY <1>3, <1>5, FilesApart, PlainInside
<1>7. ASSUME kind # "newCert"
      PROVE  Kept(d) = job.before /\ \A p \in ReservedProfiles : d[p] = job.before[p]
  <2>1. \A p \in Items : d[p] = disk[p]
    BY <1>4, <1>5, <1>7, FilesApart
  <2>2. Kept(d) = Kept(disk)
    BY <2>1, KeptWithout
  <2>3. \A p \in ReservedProfiles : Kept(disk)[p] = disk[p]
    BY FilesApart DEF Kept
  <2> QED BY <1>1, <2>1, <2>2, <2>3, FilesApart
<1>8. Fits(job, d, littered)
  <2>1. FitsImport(job, d)
    BY <1>1, <1>5, <1>7 DEF FitsImport, Imports
  <2>2. FitsExport(job, d, littered)
    BY <1>1 DEF FitsExport
  <2> QED BY <2>1, <2>2 DEF Fits
<1>9. ASSUME NEW s \in Archives, d[s] # NoFile
      PROVE  disk[s] # NoFile \/ Tends(job, s)
  <2>1. CASE s = path
    BY <1>1, <2>1, FilesApart DEF Tends
  <2>2. CASE s # path
    BY <1>5, <1>9, <2>2, FilesApart
  <2> QED BY <2>1, <2>2
<1>10. FileRequest(job, d)
  BY DEF d
<1> QED BY <1>1, <1>2, <1>5, <1>6, <1>8, <1>9, <1>10, FileArrives

(* A certificate that comes at once, or goes. *)
LEMMA CertStep ==
    ASSUME FilesInv, NEW c \in Certs, DeleteCertFile(c) \/ \E append \in BOOLEAN : HandleCertFileUploadBytes(c, append)
    PROVE  FilesInv'
<1>1. DOMAIN disk = Paths /\ Inside(disk["config"]) /\ Inside(disk["upload"])
  BY DEF FilesInv, FilesTyped
<1>2. c \in Paths /\ c \notin Archives /\ c # "upload"
  BY FilesApart
<1>3. PICK d, gone : AtOnce(d, gone) /\ DOMAIN d = Paths /\ \A p \in Paths : p # c => d[p] = disk[p]
  <2>1. CASE DeleteCertFile(c)
    BY <1>1, <2>1, WithoutFile DEF DeleteCertFile
  <2>2. ASSUME NEW append \in BOOLEAN, HandleCertFileUploadBytes(c, append)
        PROVE  \E d, gone : AtOnce(d, gone) /\ DOMAIN d = Paths /\ \A p \in Paths : p # c => d[p] = disk[p]
    BY <1>1, <2>2 DEF HandleCertFileUploadBytes, Appended
  <2> QED BY <2>1, <2>2
<1>4. d["config"] = disk["config"] /\ d["upload"] = disk["upload"] /\ \A s \in Archives : d[s] = disk[s]
  BY <1>2, <1>3, FilesApart
<1> QED BY <1>1, <1>3, <1>4, FileAtOnce

(* An export finds what is left of an earlier one, if there is any. *)
LEMMA Fresh ==
    ASSUME FilesInv, NEW s \in Archives, s \notin littered \union {"debug"},
           \A t \in DOMAIN fileJobs : ~Tends(fileJobs[t], s)
    PROVE  disk[s] = NoFile
BY DEF FilesInv, Tended

LEMMA ZippedNow ==
    ASSUME NEW s \in Archives, s # "debug", disk[s] = NoFile, DOMAIN disk = Paths, NEW pw
    PROVE  /\ Zippable(s) /\ ExportFile(s, pw) = Now(disk, s, pw)
           /\ Now([disk EXCEPT ![s] = ExportFile(s, pw)], s, pw) = Now(disk, s, pw)
<1>1. Zippable(s) /\ disk[s].holds = {}
  BY DEF Zippable, NoFile
<1>2. ExportFile(s, pw) = Now(disk, s, pw)
  BY <1>1 DEF ExportFile, Zipped, Now
<1> DEFINE d == [disk EXCEPT ![s] = ExportFile(s, pw)]
<1>3. \A p \in Items \union {"journal"} : d[p] = disk[p]
  BY FilesApart
<1> HIDE DEF d
<1>4. Now(d, s, pw) = Now(disk, s, pw)
  BY <1>3, SameNow
<1> QED BY <1>1, <1>2, <1>4 DEF d

LEMMA BeginsStep ==
    ASSUME FilesInv, NEW kind, NEW path, NEW sent, NEW pw, NEW over, UploadBegins(kind, path, sent, pw, over),
           \/ kind = "putConfig" /\ path = "config"
           \/ kind = "import" /\ path = "archive"
           \/ kind \in {"postConfig", "postCert"} /\ path = "upload"
           \/ kind = "newCert" /\ path \in Certs,
           Inside(sent)
    PROVE  FilesInv'
<1>1. PICK job : job = [FileJob(kind, path, "upload", pw) EXCEPT !.sent = sent, !.over = over]
  OBVIOUS
<1>2. NewJob(job, kind, path, "upload", pw, sent)
  BY <1>1, SentJob
<1>3. FileRequest(job, [disk EXCEPT ![path] = NotZip])
  BY <1>1 DEF UploadBegins
<1> QED BY <1>2, <1>3, UploadStep

LEMMA BytesStep ==
    ASSUME FilesInv, NEW kind, NEW path, NEW sent, NEW pw, NEW append \in BOOLEAN,
           HandleImportFileUploadBytes(kind, path, sent, pw, append),
           \/ kind = "putConfig" /\ path = "config"
           \/ kind = "import" /\ path = "archive",
           Inside(sent)
    PROVE  FilesInv'
<1>1. PICK job : job = [FileJob(kind, path, "start", pw) EXCEPT !.sent = sent]
  OBVIOUS
<1>2. NewJob(job, kind, path, "start", pw, sent)
  <2>1. \A over : job = [FileJob(kind, path, "start", pw) EXCEPT !.sent = sent]
    BY <1>1
  <2> QED BY <1>1, <2>1, SentJob
<1>3. FileRequest(job, Appended(path, sent, append))
  BY <1>1 DEF HandleImportFileUploadBytes
<1>4. PICK file \in {sent, NotZip} : Appended(path, sent, append) = [disk EXCEPT ![path] = file]
  BY DEF Appended
<1>5. FileRequest(job, [disk EXCEPT ![path] = file])
  BY <1>3, <1>4
<1> HIDE <1>3, <1>4
<1> QED BY <1>2, <1>5, UploadStep

LEMMA ExportStep ==
    ASSUME FilesInv, NEW kind \in {"export", "atExport"}, NEW s \in Archives, NEW pw, Export(kind, s, pw)
    PROVE  FilesInv'
<1>1. /\ DOMAIN disk = Paths /\ Inside(disk["config"]) /\ Inside(disk["upload"])
      /\ s \in Paths /\ s # "upload"
  BY FilesApart DEF FilesInv, FilesTyped
<1>2. PICK stage, d, job :
        /\ stage \in {"zip", "open", "fails"} /\ job = FileJob(kind, s, stage, pw) /\ FileRequest(job, d)
        /\ IF stage = "open" THEN s # "config" /\ d = [disk EXCEPT ![s] = ExportFile(s, pw)] ELSE d = disk
        /\ stage = "zip" => s = "config"
        /\ stage = "fails" => s # "debug" /\ ~Zippable(s)
  <2>1. CASE s = "config"
    BY <2>1 DEF Export
  <2>2. CASE s # "config" /\ (Zippable(s) \/ s = "debug")
    <3>1. FileRequest(FileJob(kind, s, "open", pw), [disk EXCEPT ![s] = ExportFile(s, pw)])
      BY <2>2 DEF Export
    <3> QED BY <2>2, <3>1
  <2>3. CASE s # "config" /\ ~Zippable(s) /\ s # "debug"
    BY <2>3 DEF Export
  <2> QED BY <2>1, <2>2, <2>3
<1>3. /\ DOMAIN job = JobFields /\ job.kind = kind /\ job.path = s /\ job.stage = stage /\ job.pw = pw
      /\ job.sent = NoFile /\ job.before = Kept(disk) /\ (job.alone <=> fileJobs = <<>>)
      /\ {job.ok, job.alone, job.lost, job.mixed} \subseteq BOOLEAN /\ ~job.ok /\ ~job.lost /\ ~job.mixed
  BY <1>2, FirstJob DEF NewJob
<1>4. JobShape(job)
  <2>1. stage \in {"zip", "open", "fails"} /\ (stage = "zip" => s = "config")
    BY <1>2
  <2> QED BY <1>3, <2>1, PlainInside DEF JobShape
<1>5. DOMAIN d = Paths /\ (stage # "open" => d = disk) /\ \A p \in Paths : p # s => d[p] = disk[p]
  BY <1>1, <1>2
<1>6. Inside(d["config"]) /\ Inside(d["upload"])
  BY <1>1, <1>2, <1>5, FilesApart
<1>7. ASSUME job.alone
      PROVE  Fits(job, d, littered)
  <2>1. FitsImport(job, d)
    <3>1. job.kind \notin Imports /\ job.kind # "import" /\ job.stage \in {"zip", "open", "fails"}
      BY <1>2, <1>3 DEF Imports
    <3> QED BY <3>1 DEF FitsImport
  <2>2. ASSUME s \notin littered \union {"debug"}
        PROVE  /\ stage = "zip" => d[s] = NoFile
               /\ stage = "open" => d[s] = Now(d, s, pw)
    <3>1. disk[s] = NoFile
      BY <1>3, <1>7, <2>2, Fresh
    <3>2. ExportFile(s, pw) = Now(disk, s, pw) /\ Now([disk EXCEPT ![s] = ExportFile(s, pw)], s, pw) = Now(disk, s, pw)
      BY <1>1, <2>2, <3>1, ZippedNow
    <3> QED BY <1>1, <1>2, <3>1, <3>2
  <2>3. FitsExport(job, d, littered)
    BY <1>2, <1>3, <2>2 DEF FitsExport
  <2> QED BY <2>1, <2>3 DEF Fits
<1>8. ASSUME NEW r \in Archives, d[r] # NoFile
      PROVE  disk[r] # NoFile \/ Tends(job, r)
  <2>1. CASE r = s /\ stage = "open"
    BY <1>3, <2>1 DEF Tends
  <2>2. CASE ~(r = s /\ stage = "open")
    BY <1>5, <1>8, <2>2, FilesApart
  <2> QED BY <2>1, <2>2
<1> QED BY <1>2, <1>3, <1>4, <1>5, <1>6, <1>7, <1>8, FileArrives

LEMMA RequestStep ==
    ASSUME FilesInv, FileRequests
    PROVE  FilesInv'
<1>1. \A sent \in Uploads : Inside(sent)
  BY FilesAssumption DEF Inside
<1>2. ASSUME NEW sent \in Uploads, NEW pw \in Passwords,
             \/ SystemConfigImport(sent, pw) \/ FileManagePost(sent, pw) \/ FilesManagePut(sent, pw)
             \/ \E over \in BOOLEAN : ConnectionsImport(sent, pw, over)
      PROVE  FilesInv'
  <2>1. CASE SystemConfigImport(sent, pw)
    BY <1>1, <2>1, BeginsStep DEF SystemConfigImport
  <2>2. CASE FileManagePost(sent, pw)
    BY <1>1, <2>2, PlainInside, BeginsStep DEF FileManagePost
  <2>3. CASE FilesManagePut(sent, pw)
    BY <1>1, <2>3, BeginsStep DEF FilesManagePut
  <2>4. ASSUME NEW over \in BOOLEAN, ConnectionsImport(sent, pw, over)
        PROVE  FilesInv'
    BY <1>1, <2>4, BeginsStep DEF ConnectionsImport
  <2> QED BY <1>2, <2>1, <2>2, <2>3, <2>4
<1>3. ASSUME NEW sent \in Uploads, NEW pw \in Passwords, NEW append \in BOOLEAN, FilesUpload(sent, pw, append)
      PROVE  FilesInv'
  BY <1>1, <1>3, BytesStep, CertStep DEF FilesUpload
<1>4. ASSUME NEW c \in Certs, CertificatePost(c) \/ CertificateDelete(c) \/ FileManageDelete(c) \/ FilesDelete(c)
      PROVE  FilesInv'
  <2>1. CASE CertificatePost(c)
    BY <2>1, PlainInside, BeginsStep DEF CertificatePost
  <2>2. CASE DeleteCertFile(c)
    BY <2>2, CertStep
  <2> QED BY <1>4, <2>1, <2>2 DEF CertificateDelete, FileManageDelete, FilesDelete
<1>5. ASSUME NEW pw, NEW s \in Archives, FileManageGet(s, pw) \/ FilesExport(s, pw)
      PROVE  FilesInv'
  BY <1>5, ExportStep DEF FileManageGet, FilesExport
<1>6. ASSUME NEW pw, SystemConfigExport(pw) \/ ConnectionsExport(pw) \/ LogsExport(pw) \/ DebugExport
      PROVE  FilesInv'
  BY <1>6, FilesApart, ExportStep DEF SystemConfigExport, ConnectionsExport, LogsExport, DebugExport
<1> QED BY <1>2, <1>3, <1>4, <1>5, <1>6 DEF FileRequests

-----------------------------------------------------------------------------
(* The steps of a request. *)
LEMMA JobFacts ==
    ASSUME FilesInv, NEW t \in DOMAIN fileJobs
    PROVE  /\ JobShape(fileJobs[t]) /\ DOMAIN fileJobs[t] = JobFields
           /\ DOMAIN disk = Paths /\ DOMAIN unpacked = Items /\ fileFaults \in Nat
           /\ Inside(disk["config"]) /\ Inside(disk["upload"])
           /\ (fileJobs[t].alone => Fits(fileJobs[t], disk, littered))
BY DEF FilesInv, FilesTyped, JobShape

LEMMA UploadEndsStep ==
    ASSUME FilesInv, NEW t \in DOMAIN fileJobs, UploadEnds(t)
    PROVE  FilesInv'
<1> DEFINE job == fileJobs[t]
           new == [job EXCEPT !.stage = "start"]
<1>1. /\ JobShape(job) /\ DOMAIN job = JobFields /\ DOMAIN disk = Paths /\ DOMAIN unpacked = Items /\ fileFaults \in Nat
      /\ Inside(disk["config"]) /\ Inside(disk["upload"]) /\ (job.alone => Fits(job, disk, littered))
  BY JobFacts
<1>2. PICK file, d :
        /\ file = job.sent \/ (file = NotZip /\ job.mixed)
        /\ d = IF job.lost THEN disk ELSE [disk EXCEPT ![job.path] = file]
        /\ IF job.kind = "newCert" THEN Answers(t, job, d, {}) ELSE GoesOn(t, new, d, {})
  BY DEF UploadEnds
<1>3. job.stage = "upload" /\ UNCHANGED <<unpacked, loaded, littered, fileFaults>>
  BY DEF UploadEnds
<1> HIDE DEF job
<1>4. /\ Inside(job.sent) /\ (job.alone => ~job.lost /\ ~job.mixed)
      /\ \/ job.kind \in {"putConfig", "import"} /\ job.path \in Archives /\ job.path = IF job.kind = "import" THEN "archive" ELSE "config"
         \/ job.kind \in {"postConfig", "postCert"} /\ job.path = "upload"
         \/ job.kind = "newCert" /\ job.path \in Certs
  BY <1>1, <1>3, FilesApart DEF JobShape, Imports
<1>5. job.path \in Paths /\ (job.kind # "newCert" => job.path \notin Items) /\ (job.kind = "newCert" => job.path \notin Archives)
  BY <1>4, FilesApart
<1>6. /\ DOMAIN d = Paths /\ \A p \in Paths : p # job.path => d[p] = disk[p]
      /\ d[job.path] \in {disk[job.path], job.sent, NotZip}
      /\ (job.alone => d[job.path] = job.sent)
  BY <1>1, <1>2, <1>4, <1>5
<1>7. Inside(d["config"]) /\ Inside(d["upload"])
  <2>1. \A p \in {"config", "upload"} : d[p] \in {disk[p], job.sent, NotZip}
    BY <1>6, FilesApart
  <2> QED BY <1>1, <1>4, <2>1, PlainInside
<1>8. CASE job.kind = "newCert"
  <2>1. Right(job, d, littered', fileFaults')
    BY <1>8 DEF Right, Imports
  <2>2. \A s \in Archives : d[s] # NoFile => disk[s] # NoFile /\ ~Tends(job, s)
    BY <1>4, <1>5, <1>6, <1>8, FilesApart DEF Tends
  <2>3. Answers(t, job, d, {})
    BY <1>2, <1>8
  <2> QED BY <1>1, <1>3, <1>6, <1>7, <2>1, <2>2, <2>3, FileAnswers DEF job
<1>9. CASE job.kind # "newCert"
  <2>1. GoesOn(t, new, d, {})
    BY <1>2, <1>9
  <2>2. /\ DOMAIN new = JobFields /\ new.stage = "start"
        /\ new.kind = job.kind /\ new.path = job.path /\ new.pw = job.pw /\ new.sent = job.sent
        /\ new.item = job.item /\ new.got = job.got /\ new.ok = job.ok /\ new.before = job.before
        /\ new.alone = job.alone /\ new.lost = job.lost /\ new.mixed = job.mixed
    BY <1>1, StageOf
  <2> HIDE DEF new
  <2>3. JobShape(new)
    BY <1>1, <1>3, <1>9, <2>2 DEF JobShape, Imports
  <2>4. ASSUME job.alone
        PROVE  Fits(new, d, littered)
    <3>1. \A p \in Items : d[p] = disk[p]
      BY <1>5, <1>6, <1>9, FilesApart
    <3>2. Kept(d) = Kept(disk)
      BY <3>1, KeptWithout
    <3>3. FitsImport(job, disk)
      BY <1>1, <2>4 DEF Fits
    <3>4. FitsImport(new, d)
      BY <1>3, <1>6, <2>2, <2>4, <3>1, <3>2, <3>3, FilesApart DEF FitsImport
    <3>5. FitsExport(new, d, littered)
      BY <1>4, <2>2 DEF FitsExport
    <3> QED BY <3>4, <3>5 DEF Fits
  <2>5. ASSUME NEW s \in Archives, d[s] # NoFile
        PROVE  Tends(new, s) \/ (disk[s] # NoFile /\ (Tends(job, s) => Tends(new, s)))
    <3>1. CASE s = job.path
      BY <1>4, <1>9, <2>2, <3>1, FilesApart DEF Tends
    <3>2. CASE s # job.path
      <4>1. d[s] = disk[s]
        BY <1>6, <3>2, FilesApart
      <4>2. ~Tends(job, s)
        BY <1>3, <3>2 DEF Tends
      <4> QED BY <2>5, <4>1, <4>2
    <3> QED BY <3>1, <3>2
  <2>6. DOMAIN unpacked' = Items /\ fileFaults' \in Nat /\ littered' = littered
    BY <1>1, <1>3
  <2> QED BY <1>6, <1>7, <2>1, <2>2, <2>3, <2>4, <2>5, <2>6, FileGoesOn DEF job
<1> QED BY <1>8, <1>9

LEMMA NoPasswordStep ==
    ASSUME FilesInv, NEW t \in DOMAIN fileJobs, NoPassword(t)
    PROVE  FilesInv'
<1> DEFINE job == fileJobs[t]
           gone == IF job.kind = "postConfig" THEN {"upload"} ELSE {}
           d == Without(disk, gone)
<1>1. /\ JobShape(job) /\ DOMAIN job = JobFields /\ DOMAIN disk = Paths /\ DOMAIN unpacked = Items /\ fileFaults \in Nat
      /\ Inside(disk["config"]) /\ Inside(disk["upload"]) /\ (job.alone => Fits(job, disk, littered))
  BY JobFacts
<1>2. /\ job.stage = "start" /\ job.kind # "postCert" /\ Answers(t, job, d, gone)
      /\ littered' = littered \union (There(disk, {job.path}) \ gone)
      /\ UNCHANGED <<unpacked, loaded, fileFaults>>
  BY DEF NoPassword
<1>3. gone \subseteq {"upload"}
  OBVIOUS
<1> HIDE DEF job, gone
<1>4. DOMAIN d = Paths /\ \A p \in Paths : d[p] = IF p \in gone THEN NoFile ELSE disk[p]
  BY <1>1, WithoutFile
<1>5. /\ \A p \in Items \union Archives : d[p] = disk[p]
      /\ Inside(d["config"]) /\ Inside(d["upload"])
  BY <1>1, <1>3, <1>4, FilesApart, PlainInside
<1> HIDE DEF d
<1>6. job.kind \in Imports \union {"import"} /\ ~job.ok
  BY <1>1, <1>2 DEF JobShape
<1>7. ASSUME job.alone
      PROVE  Right(job, d, littered', fileFaults')
  <2>1. Kept(d) = Kept(disk) /\ \A p \in ReservedProfiles : d[p] = disk[p]
    BY <1>5, FilesApart, KeptWithout
  <2>2. FitsImport(job, disk)
    BY <1>1, <1>7 DEF Fits
  <2> QED BY <1>2, <1>6, <2>1, <2>2 DEF Right, FitsImport, Imports
<1>8. ASSUME NEW s \in Archives \ (littered' \union {"debug"}), d[s] # NoFile
      PROVE  disk[s] # NoFile /\ ~Tends(job, s)
  <2>1. disk[s] # NoFile
    BY <1>5, <1>8
  <2>2. s # job.path
    BY <1>2, <1>3, <1>8, <2>1, FilesApart DEF There
  <2> QED BY <1>2, <2>1, <2>2 DEF Tends
<1>9. DOMAIN unpacked' = Items /\ fileFaults' \in Nat /\ littered \subseteq littered'
  BY <1>1, <1>2
<1> QED BY <1>2, <1>4, <1>5, <1>7, <1>8, <1>9, FileAnswers DEF job, d

LEMMA PostCertStep ==
    ASSUME FilesInv, NEW t \in DOMAIN fileJobs, NEW c \in Certs, PostCert(t, c)
    PROVE  FilesInv'
<1> DEFINE job == fileJobs[t]
<1>1. /\ DOMAIN disk = Paths /\ DOMAIN unpacked = Items /\ fileFaults \in Nat
      /\ Inside(disk["config"]) /\ Inside(disk["upload"])
  BY JobFacts
<1>2. PICK d : Answers(t, job, d, {c, "upload"}) /\ d = IF disk["upload"] = NoFile THEN disk
                                                        ELSE Without([disk EXCEPT ![c] = disk["upload"]], {"upload"})
  BY DEF PostCert
<1>3. job.kind = "postCert" /\ job.stage = "start" /\ UNCHANGED <<unpacked, loaded, littered, fileFaults>>
  BY DEF PostCert
<1>4. /\ DOMAIN d = Paths /\ \A p \in Paths \ {c, "upload"} : d[p] = disk[p]
      /\ d["upload"] \in {disk["upload"], NoFile}
  <2>1. CASE disk["upload"] = NoFile
    BY <1>1, <1>2, <2>1
  <2>2. CASE disk["upload"] # NoFile
    <3> DEFINE moved == [disk EXCEPT ![c] = disk["upload"]]
    <3>1. d = Without(moved, {"upload"})
      BY <1>2, <2>2
    <3>2. DOMAIN moved = Paths /\ \A p \in Paths \ {c} : moved[p] = disk[p]
      BY <1>1
    <3> HIDE DEF moved
    <3>3. DOMAIN d = Paths /\ \A p \in Paths : d[p] = IF p \in {"upload"} THEN NoFile ELSE moved[p]
      BY <3>1, <3>2, WithoutFile
    <3>4. "upload" \in Paths
      BY FilesApart
    <3> QED BY <3>2, <3>3, <3>4
  <2> QED BY <2>1, <2>2
<1>5. \A s \in Archives : d[s] = disk[s]
  BY <1>4, FilesApart
<1> HIDE DEF job
<1>6. Right(job, d, littered', fileFaults') /\ \A s \in Archives : ~Tends(job, s)
  BY <1>3 DEF Right, Imports, Tends
<1>7. Inside(d["config"]) /\ Inside(d["upload"])
  BY <1>1, <1>4, <1>5, FilesApart, PlainInside
<1>8. DOMAIN unpacked' = Items /\ fileFaults' \in Nat /\ littered \subseteq littered'
  BY <1>1, <1>3
<1> QED BY <1>2, <1>4, <1>5, <1>6, <1>7, <1>8, FileAnswers DEF job

(* The end of an import of the configuration, whatever has come of it. *)
LEMMA ImportEndsStep ==
    ASSUME FilesInv, NEW t \in DOMAIN fileJobs, NEW ok \in BOOLEAN, NEW d, ImportEnds(t, ok, d),
           fileJobs[t].kind \in Imports, fileJobs[t].stage \notin {"upload", "start"},
           DOMAIN d = Paths, \A p \in Paths \ Items : d[p] = disk[p],
           UNCHANGED <<unpacked, littered>>, fileFaults' \in Nat,
           fileJobs[t].alone /\ fileJobs[t].pw \notin NeedQuotes =>
             IF ok THEN Kept(d) = Extracted(Blank, fileJobs[t].sent.holds)
             ELSE fileFaults' > 0 \/ Kept(d) = fileJobs[t].before
    PROVE  FilesInv'
<1> DEFINE job == fileJobs[t]
           gone == TmpFilesOf(job)
           names == gone \union {p \in Items : d[p] # disk[p]}
           left == Without(d, gone)
           new == [job EXCEPT !.ok = ok]
<1>1. /\ DOMAIN job = JobFields /\ DOMAIN disk = Paths /\ DOMAIN unpacked = Items
      /\ Inside(disk["config"]) /\ Inside(disk["upload"]) /\ JobShape(job)
  BY JobFacts
<1>2. Answers(t, new, left, names)
  BY DEF ImportEnds
<1>3. "config" \in gone /\ gone \subseteq {"config", "upload"}
  BY DEF TmpFilesOf
<1>4. DOMAIN new = JobFields /\ new.ok = ok /\ new.kind = job.kind /\ new.path = job.path
      /\ new.sent = job.sent /\ new.before = job.before /\ new.alone = job.alone /\ new.pw = job.pw
  BY <1>1, AnswerOf
<1> HIDE DEF job, gone, names, new
<1>5. DOMAIN left = Paths /\ \A p \in Paths : left[p] = IF p \in gone THEN NoFile ELSE d[p]
  BY WithoutFile
<1> HIDE DEF left
<1>6. Inside(left["config"]) /\ Inside(left["upload"])
  <2>1. left["config"] = NoFile /\ left["upload"] \in {NoFile, disk["upload"]}
    BY <1>3, <1>5, FilesApart
  <2> QED BY <1>1, <2>1, PlainInside
<1>7. ASSUME job.alone
      PROVE  Right(new, left, littered', fileFaults')
  <2>1. \A p \in Items : left[p] = d[p]
    BY SMTT(60), <1>3, <1>5, FilesApart
  <2>2. Kept(left) = Kept(d)
    BY <2>1, KeptWithout
  <2>3. job.pw \notin NeedQuotes =>
          IF ok THEN Kept(d) = Extracted(Blank, job.sent.holds) ELSE fileFaults' > 0 \/ Kept(d) = job.before
    BY <1>7 DEF job
  <2>4. job.kind \in Imports
    BY DEF job
  <2> QED BY <1>4, <2>2, <2>3, <2>4 DEF Right, Imports
<1>8. ASSUME NEW s \in Archives, left[s] # NoFile
      PROVE  disk[s] # NoFile /\ ~Tends(job, s)
  <2>1. s # "config" /\ left[s] = d[s] /\ d[s] = disk[s]
    BY <1>3, <1>5, <1>8, FilesApart
  <2>2. job.kind \in Imports
    BY DEF job
  <2> QED BY <1>1, <1>8, <2>1, <2>2 DEF Tends, Imports, JobShape
<1>9. new.alone = fileJobs[t].alone
  BY <1>4 DEF job
<1>10. DOMAIN unpacked' = Items /\ littered \subseteq littered'
  BY <1>1
<1> QED BY <1>2, <1>5, <1>6, <1>7, <1>8, <1>9, <1>10, FileAnswers DEF job

(* A step of an import of the configuration that goes on: it tends the configuration sent from then on. *)
LEMMA ImportGoesOn ==
    ASSUME FilesInv, NEW t \in DOMAIN fileJobs, NEW stage \in {"encrypted", "password", "clear", "unpack", "reload"},
           NEW d, NEW gone, GoesOn(t, [fileJobs[t] EXCEPT !.stage = stage], d, gone),
           fileJobs[t].kind \in Imports,
           DOMAIN d = Paths, \A p \in Paths \ (Items \union {"config", "upload"}) : d[p] = disk[p],
           Inside(d["config"]), d["upload"] \in {NoFile, disk["upload"]},
           UNCHANGED <<unpacked, littered, fileFaults>>,
           fileJobs[t].alone =>
             /\ stage \notin {"unpack", "reload"} => Kept(d) = fileJobs[t].before
             /\ stage \in {"encrypted", "password"} => d["config"] \in {fileJobs[t].sent, NotZip}
             /\ stage \in {"clear", "unpack"} /\ fileJobs[t].pw \notin NeedQuotes =>
                  d["config"] = fileJobs[t].sent /\ Opens(fileJobs[t].sent, fileJobs[t].pw)
             /\ stage = "unpack" => Kept(d) = Blank
             /\ stage = "reload" /\ fileJobs[t].pw \notin NeedQuotes =>
                  Kept(d) = Extracted(Blank, fileJobs[t].sent.holds)
    PROVE  FilesInv'
<1> DEFINE job == fileJobs[t]
           new == [job EXCEPT !.stage = stage]
<1>1. /\ JobShape(job) /\ DOMAIN job = JobFields /\ DOMAIN disk = Paths /\ DOMAIN unpacked = Items /\ fileFaults \in Nat
      /\ Inside(disk["config"]) /\ Inside(disk["upload"])
  BY JobFacts
<1>2. /\ DOMAIN new = JobFields /\ new.stage = stage
      /\ new.kind = job.kind /\ new.path = job.path /\ new.pw = job.pw /\ new.sent = job.sent
      /\ new.item = job.item /\ new.got = job.got /\ new.ok = job.ok /\ new.before = job.before
      /\ new.alone = job.alone /\ new.lost = job.lost /\ new.mixed = job.mixed
  BY <1>1, StageOf
<1>3. job.kind \in Imports /\ GoesOn(t, new, d, gone)
  OBVIOUS
<1>4. /\ stage \notin {"unpack", "reload"} => (job.alone => Kept(d) = job.before)
      /\ stage \in {"encrypted", "password"} => (job.alone => d["config"] \in {job.sent, NotZip})
      /\ stage \in {"clear", "unpack"} /\ job.pw \notin NeedQuotes =>
           (job.alone => d["config"] = job.sent /\ Opens(job.sent, job.pw))
      /\ stage = "unpack" => (job.alone => Kept(d) = Blank)
      /\ stage = "reload" /\ job.pw \notin NeedQuotes => (job.alone => Kept(d) = Extracted(Blank, job.sent.holds))
  OBVIOUS
<1> HIDE DEF job, new
<1>5. JobShape(new)
  <2>1. ~job.ok
    BY <1>1, <1>3 DEF JobShape, Imports
  <2> QED BY <1>1, <1>2, <1>3, <2>1 DEF JobShape, Imports
<1>6. ASSUME job.alone
      PROVE  Fits(new, d, littered)
  <2>1. FitsImport(new, d)
    BY <1>2, <1>3, <1>4, <1>6 DEF FitsImport, Imports
  <2>2. FitsExport(new, d, littered)
    BY <1>2, <1>3 DEF FitsExport, Imports
  <2> QED BY <2>1, <2>2 DEF Fits
<1>7. Inside(d["upload"])
  BY <1>1, PlainInside
<1>8. ASSUME NEW s \in Archives, d[s] # NoFile
      PROVE  Tends(new, s) \/ (disk[s] # NoFile /\ (Tends(job, s) => Tends(new, s)))
  <2>1. CASE s = "config"
    BY <1>1, <1>2, <1>3, <2>1 DEF Tends, Imports, JobShape
  <2>2. CASE s # "config"
    <3>1. d[s] = disk[s]
      BY <2>2, FilesApart
    <3>2. ~Tends(job, s)
      BY <1>1, <1>3, <2>2, FilesApart DEF Tends, Imports, JobShape
    <3> QED BY <1>8, <3>1, <3>2
  <2> QED BY <2>1, <2>2
<1>9. new.alone = fileJobs[t].alone
  BY <1>2 DEF job
<1>10. DOMAIN unpacked' = Items /\ fileFaults' \in Nat /\ littered' = littered
  BY <1>1
<1> QED BY <1>2, <1>3, <1>5, <1>6, <1>7, <1>8, <1>9, <1>10, FileGoesOn DEF job

LEMMA ConfigStartsStep ==
    ASSUME FilesInv, NEW t \in DOMAIN fileJobs, ImportConfigStarts(t)
    PROVE  FilesInv'
<1> DEFINE job == fileJobs[t]
           here == IF job.kind = "postConfig" THEN "upload" ELSE "config"
           d == Without([disk EXCEPT !["config"] = disk[here]], {here} \ {"config"})
<1>1. /\ JobShape(job) /\ DOMAIN job = JobFields /\ DOMAIN disk = Paths /\ DOMAIN unpacked = Items /\ fileFaults \in Nat
      /\ Inside(disk["config"]) /\ Inside(disk["upload"]) /\ (job.alone => Fits(job, disk, littered))
  BY JobFacts
<1>2. /\ job.kind \in Imports /\ job.stage = "start" /\ UNCHANGED <<unpacked, loaded, littered, fileFaults>>
      /\ IF disk[here] = NoFile THEN Answers(t, job, disk, {})
         ELSE GoesOn(t, [job EXCEPT !.stage = "encrypted"], d, IF here = "upload" THEN {"upload", "config"} ELSE {})
  BY DEF ImportConfigStarts, Imports
<1>3. job.path = here /\ here \in {"config", "upload"} /\ ~job.ok
  BY <1>1, <1>2 DEF JobShape, Imports
<1>4. CASE disk[here] = NoFile
  <2>1. Answers(t, job, disk, {})
    BY <1>2, <1>4
  <2> HIDE DEF here, job
  <2>2. job.alone => Right(job, disk, littered', fileFaults')
    BY <1>1, <1>2, <1>3 DEF Right, Fits, FitsImport, Imports
  <2>3. \A s \in Archives : disk[s] # NoFile => ~Tends(job, s)
    BY <1>2, <1>3, <1>4 DEF Tends, Imports
  <2>4. DOMAIN unpacked' = Items /\ fileFaults' \in Nat /\ littered \subseteq littered'
    BY <1>1, <1>2
  <2> QED BY <1>1, <2>1, <2>2, <2>3, <2>4, FileAnswers DEF job
<1>5. CASE disk[here] # NoFile
  <2>1. PICK gone : GoesOn(t, [job EXCEPT !.stage = "encrypted"], d, gone)
    BY <1>2, <1>5
  <2> HIDE DEF here
  <2>2. /\ DOMAIN d = Paths /\ \A p \in Paths \ {"config", "upload"} : d[p] = disk[p]
        /\ d["config"] = disk[here] /\ d["upload"] \in {NoFile, disk["upload"]}
    <3> DEFINE moved == [disk EXCEPT !["config"] = disk[here]]
    <3>1. /\ DOMAIN moved = Paths /\ moved["config"] = disk[here]
          /\ \A p \in Paths \ {"config"} : moved[p] = disk[p]
      BY <1>1, FilesApart
    <3>2. d = Without(moved, {here} \ {"config"})
      OBVIOUS
    <3> HIDE DEF moved, d
    <3> QED BY <1>3, <3>1, <3>2, WithoutFile, FilesApart
  <2> HIDE DEF d, job
  <2>3. Kept(d) = Kept(disk)
    BY <2>2, FilesApart, KeptWithout
  <2>4. job.alone => Kept(d) = job.before /\ d["config"] \in {job.sent, NotZip}
    BY <1>1, <1>2, <1>3, <2>2, <2>3 DEF Fits, FitsImport, Imports
  <2>5. Inside(d["config"])
    BY <1>1, <1>3, <2>2
  <2> QED BY <1>2, <2>1, <2>2, <2>4, <2>5, ImportGoesOn DEF job
<1> QED BY <1>4, <1>5

(* What the archive of a request that is alone is, up to the removal of what there was. *)
LEMMA SentConfig ==
    ASSUME FilesInv, NEW t \in DOMAIN fileJobs, fileJobs[t].stage \in {"encrypted", "password", "clear", "unpack"}
    PROVE  /\ fileJobs[t].kind \in Imports
           /\ fileJobs[t].alone /\ fileJobs[t].stage \in {"encrypted", "password"} =>
                disk["config"] \in {fileJobs[t].sent, NotZip}
           /\ fileJobs[t].alone /\ fileJobs[t].stage # "unpack" => Kept(disk) = fileJobs[t].before
           /\ fileJobs[t].alone /\ fileJobs[t].stage \in {"clear", "unpack"} /\ fileJobs[t].pw \notin NeedQuotes =>
                disk["config"] = fileJobs[t].sent /\ Opens(fileJobs[t].sent, fileJobs[t].pw)
           /\ fileJobs[t].alone /\ fileJobs[t].stage = "unpack" => Kept(disk) = Blank
<1> DEFINE job == fileJobs[t]
<1>1. JobShape(job) /\ (job.alone => FitsImport(job, disk))
  BY JobFacts DEF Fits
<1>2. job.stage \in {"encrypted", "password", "clear", "unpack"}
  OBVIOUS
<1> HIDE DEF job
<1>3. job.kind \in Imports
  BY <1>1, <1>2 DEF JobShape
<1>4. /\ job.alone /\ job.stage \in {"encrypted", "password"} => disk["config"] \in {job.sent, NotZip}
      /\ job.alone /\ job.stage # "unpack" => Kept(disk) = job.before
      /\ job.alone /\ job.stage \in {"clear", "unpack"} /\ job.pw \notin NeedQuotes =>
           disk["config"] = job.sent /\ Opens(job.sent, job.pw)
      /\ job.alone /\ job.stage = "unpack" => Kept(disk) = Blank
  BY <1>1, <1>2, <1>3 DEF FitsImport
<1> QED BY <1>3, <1>4 DEF job

(* A password that needs no quotes reaches unzip as it is. *)
LEMMA UnzipsPlain ==
    ASSUME NEW file, NEW pw
    PROVE  /\ \A r \in Unzips(file, pw) : r.out \subseteq file.holds /\ r.ok \in BOOLEAN
           /\ pw \notin NeedQuotes => \A r \in Unzips(file, pw) : r.out = Readable(file, pw) /\ r.ok = Opens(file, pw)
<1> DEFINE word == Word(pw)
           plain == [out |-> Readable(file, word), ok |-> Opens(file, word)]
<1>1. plain.out \subseteq file.holds /\ plain.ok \in BOOLEAN
  BY DEF Readable, Opens
<1>2. \A r \in [out : {{}}, ok : BOOLEAN] : r.out = {} /\ r.ok \in BOOLEAN
  OBVIOUS
<1>3. Unzips(file, pw) = {plain} \union (IF pw \in NeedQuotes THEN [out : {{}}, ok : BOOLEAN] ELSE {})
  BY DEF Unzips
<1>4. pw \notin NeedQuotes => word = pw
  BY DEF Word
<1>5. plain.out = Readable(file, word) /\ plain.ok = Opens(file, word)
  OBVIOUS
<1> HIDE DEF plain, word
<1>6. ASSUME NEW r \in Unzips(file, pw)
      PROVE  r.out \subseteq file.holds /\ r.ok \in BOOLEAN
  BY <1>1, <1>2, <1>3
<1>7. ASSUME pw \notin NeedQuotes, NEW r \in Unzips(file, pw)
      PROVE  r.out = Readable(file, pw) /\ r.ok = Opens(file, pw)
  BY <1>3, <1>4, <1>5, <1>7
<1> QED BY <1>6, <1>7

LEMMA EncryptedStep ==
    ASSUME FilesInv, NEW t \in DOMAIN fileJobs, TestEncrypted(t)
    PROVE  FilesInv'
<1>1. /\ DOMAIN disk = Paths /\ fileFaults \in Nat /\ Inside(disk["config"])
      /\ fileJobs[t].stage = "encrypted" /\ UNCHANGED <<unpacked, loaded, littered, fileFaults>>
  BY JobFacts DEF TestEncrypted
<1>2. /\ fileJobs[t].kind \in Imports
      /\ fileJobs[t].alone => disk["config"] \in {fileJobs[t].sent, NotZip} /\ Kept(disk) = fileJobs[t].before
  BY <1>1, SentConfig
<1>3. CASE ImportEnds(t, FALSE, disk)
  BY <1>1, <1>2, <1>3, ImportEndsStep
<1>4. CASE GoesOn(t, [fileJobs[t] EXCEPT !.stage = "password"], disk, {})
  BY <1>1, <1>2, <1>4, ImportGoesOn
<1> QED BY <1>3, <1>4 DEF TestEncrypted

LEMMA PasswordStep ==
    ASSUME FilesInv, NEW t \in DOMAIN fileJobs, TestPassword(t)
    PROVE  FilesInv'
<1>1. /\ DOMAIN disk = Paths /\ fileFaults \in Nat /\ Inside(disk["config"])
      /\ fileJobs[t].stage = "password" /\ UNCHANGED <<unpacked, loaded, littered, fileFaults>>
  BY JobFacts DEF TestPassword
<1>2. /\ fileJobs[t].kind \in Imports
      /\ fileJobs[t].alone => disk["config"] \in {fileJobs[t].sent, NotZip} /\ Kept(disk) = fileJobs[t].before
  BY <1>1, SentConfig
<1>3. PICK tried \in Unzips(disk["config"], fileJobs[t].pw) :
        IF tried.ok THEN GoesOn(t, [fileJobs[t] EXCEPT !.stage = "clear"], disk, {}) ELSE ImportEnds(t, FALSE, disk)
  BY DEF TestPassword
<1>4. CASE ~tried.ok
  <2>1. ImportEnds(t, FALSE, disk)
    BY <1>3, <1>4
  <2> QED BY <1>1, <1>2, <2>1, ImportEndsStep
<1>5. CASE tried.ok
  <2>1. GoesOn(t, [fileJobs[t] EXCEPT !.stage = "clear"], disk, {})
    BY <1>3, <1>5
  <2>2. fileJobs[t].pw \notin NeedQuotes => Opens(disk["config"], fileJobs[t].pw)
    BY <1>3, <1>5, UnzipsPlain
  <2>3. Opens(disk["config"], fileJobs[t].pw) => disk["config"] # NotZip
    BY DEF Opens, NotZip
  <2>4. fileJobs[t].alone /\ fileJobs[t].pw \notin NeedQuotes =>
          disk["config"] = fileJobs[t].sent /\ Opens(fileJobs[t].sent, fileJobs[t].pw)
    BY <1>2, <2>2, <2>3
  <2> QED BY <1>1, <1>2, <2>1, <2>4, ImportGoesOn
<1> QED BY <1>4, <1>5

LEMMA RemoveStep ==
    ASSUME FilesInv, NEW t \in DOMAIN fileJobs, RemoveConfig(t)
    PROVE  FilesInv'
<1>1. /\ DOMAIN disk = Paths /\ Inside(disk["config"])
      /\ fileJobs[t].stage = "clear" /\ UNCHANGED <<unpacked, loaded, littered, fileFaults>>
  BY JobFacts DEF RemoveConfig
<1>2. /\ fileJobs[t].kind \in Imports
      /\ fileJobs[t].alone /\ fileJobs[t].pw \notin NeedQuotes =>
           disk["config"] = fileJobs[t].sent /\ Opens(fileJobs[t].sent, fileJobs[t].pw)
  BY <1>1, SentConfig
<1> DEFINE d == Without(disk, Items)
<1>3. GoesOn(t, [fileJobs[t] EXCEPT !.stage = "unpack"], d, Items)
  BY DEF RemoveConfig
<1>4. DOMAIN d = Paths /\ \A p \in Paths : d[p] = IF p \in Items THEN NoFile ELSE disk[p]
  BY <1>1, WithoutFile
<1> HIDE DEF d
<1>5. Kept(d) = Blank
  BY <1>4, FilesApart DEF Kept, Blank
<1>6. d["config"] = disk["config"] /\ d["upload"] = disk["upload"]
  BY <1>4, FilesApart
<1> QED BY <1>1, <1>2, <1>3, <1>4, <1>5, <1>6, ImportGoesOn

LEMMA RemoveFailsStep ==
    ASSUME FilesInv, NEW t \in DOMAIN fileJobs, RemoveFails(t)
    PROVE  FilesInv'
<1>1. /\ DOMAIN disk = Paths /\ fileFaults \in Nat
      /\ fileJobs[t].stage = "clear" /\ UNCHANGED <<unpacked, loaded, littered>> /\ fileFaults' = fileFaults + 1
  BY JobFacts DEF RemoveFails
<1>2. fileJobs[t].kind \in Imports
  BY <1>1, SentConfig
<1>3. PICK some \in SUBSET Items : ImportEnds(t, FALSE, Without(disk, some))
  BY DEF RemoveFails
<1> DEFINE d == Without(disk, some)
<1>4. DOMAIN d = Paths /\ \A p \in Paths \ Items : d[p] = disk[p]
  BY <1>1, <1>3, WithoutFile
<1>5. fileFaults' \in Nat /\ fileFaults' > 0
  BY <1>1
<1> HIDE DEF d
<1>6. ImportEnds(t, FALSE, d)
  BY <1>3 DEF d
<1> QED BY <1>1, <1>2, <1>4, <1>5, <1>6, ImportEndsStep

(* What is read of an archive, or a part of it, is what an archive may hold. *)
LEMMA ExtractStep ==
    ASSUME FilesInv, NEW t \in DOMAIN fileJobs, ExtractConfig(t)
    PROVE  FilesInv'
<1>1. /\ DOMAIN disk = Paths /\ fileFaults \in Nat /\ Inside(disk["config"]) /\ Inside(disk["upload"])
      /\ fileJobs[t].stage = "unpack" /\ UNCHANGED <<unpacked, loaded, littered, fileFaults>>
  BY JobFacts DEF ExtractConfig
<1>2. /\ fileJobs[t].kind \in Imports
      /\ fileJobs[t].alone => Kept(disk) = Blank
      /\ fileJobs[t].alone /\ fileJobs[t].pw \notin NeedQuotes =>
           disk["config"] = fileJobs[t].sent /\ Opens(fileJobs[t].sent, fileJobs[t].pw)
  BY <1>1, SentConfig
<1>3. PICK got \in Unzips(disk["config"], fileJobs[t].pw) :
        IF got.ok THEN GoesOn(t, [fileJobs[t] EXCEPT !.stage = "reload"], Extracted(disk, got.out), Items)
        ELSE ImportEnds(t, FALSE, Extracted(disk, got.out))
  BY DEF ExtractConfig
<1> DEFINE read == got.out
           d == Extracted(disk, read)
<1>4. read \subseteq disk["config"].holds
  BY <1>3, UnzipsPlain
<1>5. fileJobs[t].pw \notin NeedQuotes =>
        read = Readable(disk["config"], fileJobs[t].pw) /\ got.ok = Opens(disk["config"], fileJobs[t].pw)
  BY <1>3, UnzipsPlain
<1>6. Opens(disk["config"], fileJobs[t].pw) => Readable(disk["config"], fileJobs[t].pw) = disk["config"].holds
  BY DEF Opens
<1>7. \A e \in read : e.path \in Items
  BY <1>1, <1>4 DEF Inside
<1> HIDE DEF read
<1>8. DOMAIN d = Paths /\ (\A p \in Paths \ Items : d[p] = disk[p]) /\ Kept(d) = Extracted(Kept(disk), read)
  BY <1>1, <1>7, ExtractedFiles
<1>9. IF got.ok THEN GoesOn(t, [fileJobs[t] EXCEPT !.stage = "reload"], d, Items) ELSE ImportEnds(t, FALSE, d)
  BY <1>3 DEF read
<1> HIDE DEF d
<1>10. d["config"] = disk["config"] /\ d["upload"] = disk["upload"]
  BY <1>8, FilesApart
<1>11. CASE got.ok
  <2>1. fileJobs[t].alone /\ fileJobs[t].pw \notin NeedQuotes => Kept(d) = Extracted(Blank, fileJobs[t].sent.holds)
    BY <1>2, <1>5, <1>6, <1>8
  <2>2. GoesOn(t, [fileJobs[t] EXCEPT !.stage = "reload"], d, Items)
    BY <1>9, <1>11
  <2> QED BY <1>1, <1>2, <1>8, <1>10, <2>1, <2>2, ImportGoesOn
<1>12. CASE ~got.ok
  <2>1. ~(fileJobs[t].alone /\ fileJobs[t].pw \notin NeedQuotes)
    BY <1>2, <1>5, <1>12
  <2>2. ImportEnds(t, FALSE, d)
    BY <1>9, <1>12
  <2> QED BY <1>1, <1>2, <1>8, <2>1, <2>2, ImportEndsStep
<1> QED BY <1>11, <1>12

LEMMA ExtractFailsStep ==
    ASSUME FilesInv, NEW t \in DOMAIN fileJobs, ExtractFails(t)
    PROVE  FilesInv'
<1>1. /\ DOMAIN disk = Paths /\ fileFaults \in Nat /\ Inside(disk["config"])
      /\ fileJobs[t].stage = "unpack" /\ UNCHANGED <<unpacked, loaded, littered>> /\ fileFaults' = fileFaults + 1
  BY JobFacts DEF ExtractFails
<1>2. fileJobs[t].kind \in Imports
  BY <1>1, SentConfig
<1>3. PICK some \in SUBSET Readable(disk["config"], Word(fileJobs[t].pw)) : ImportEnds(t, FALSE, Extracted(disk, some))
  BY DEF ExtractFails
<1>4. \A e \in some : e.path \in Items
  BY <1>1 DEF Readable, Inside
<1> DEFINE d == Extracted(disk, some)
<1>5. DOMAIN d = Paths /\ \A p \in Paths \ Items : d[p] = disk[p]
  BY <1>1, <1>4, ExtractedFiles
<1>6. fileFaults' \in Nat /\ fileFaults' > 0
  BY <1>1
<1> HIDE DEF d
<1>7. ImportEnds(t, FALSE, d)
  BY <1>3 DEF d
<1> QED BY <1>1, <1>2, <1>5, <1>6, <1>7, ImportEndsStep

(* The end of an import of connections: the profiles that the system ships are what they were. *)
LEMMA ConnectionsEndStep ==
    ASSUME FilesInv, NEW t \in DOMAIN fileJobs, NEW ok \in BOOLEAN, ConnectionsEnd(t, ok),
           fileJobs[t].kind = "import", littered' = littered, fileFaults' \in Nat
    PROVE  FilesInv'
<1> DEFINE job == fileJobs[t]
           d == Without(disk, {"archive"})
           new == [job EXCEPT !.ok = ok]
<1>1. /\ DOMAIN job = JobFields /\ DOMAIN disk = Paths /\ JobShape(job)
      /\ Inside(disk["config"]) /\ Inside(disk["upload"]) /\ (job.alone => Fits(job, disk, littered))
  BY JobFacts
<1>2. Answers(t, new, d, {"archive"}) /\ DOMAIN unpacked' = Items /\ job.kind = "import"
  BY DEF ConnectionsEnd
<1>3. DOMAIN new = JobFields /\ new.kind = job.kind /\ new.before = job.before /\ new.alone = job.alone
  BY <1>1, AnswerOf
<1> HIDE DEF job, new
<1>4. DOMAIN d = Paths /\ \A p \in Paths : d[p] = IF p = "archive" THEN NoFile ELSE disk[p]
  BY <1>1, WithoutFile
<1> HIDE DEF d
<1>5. Inside(d["config"]) /\ Inside(d["upload"])
  BY <1>1, <1>4, FilesApart
<1>6. ASSUME job.alone
      PROVE  Right(new, d, littered', fileFaults')
  <2>1. \A p \in ReservedProfiles : d[p] = disk[p]
    BY <1>4, FilesApart
  <2>2. \A p \in ReservedProfiles : disk[p] = job.before[p]
    BY <1>1, <1>2, <1>6 DEF Fits, FitsImport
  <2> QED BY <1>2, <1>3, <2>1, <2>2 DEF Right, Imports
<1>7. \A s \in Archives : d[s] # NoFile => disk[s] # NoFile /\ ~Tends(job, s)
  BY <1>1, <1>2, <1>4, FilesApart DEF Tends, JobShape, Imports
<1>8. new.alone = fileJobs[t].alone
  BY <1>3 DEF job
<1> QED BY <1>2, <1>4, <1>5, <1>6, <1>7, <1>8, FileAnswers DEF job

(* A step of an import of connections that goes on. *)
LEMMA ConnectionsGoOn ==
    ASSUME FilesInv, NEW t \in DOMAIN fileJobs, NEW d, NEW new, GoesOn(t, new, d, {}),
           fileJobs[t].kind = "import", DOMAIN new = JobFields, new.stage \in {"look", "copy", "reload"},
           new.stage = "copy" => new.item \in Profiles \ ReservedProfiles,
           \A f \in JobFields \ {"stage", "todo", "item"} : new[f] = fileJobs[t][f],
           DOMAIN d = Paths, \A p \in (Paths \ Items) \union ReservedProfiles : d[p] = disk[p],
           DOMAIN unpacked' = Items, UNCHANGED <<littered, fileFaults>>
    PROVE  FilesInv'
<1> DEFINE job == fileJobs[t]
<1>1. /\ DOMAIN job = JobFields /\ DOMAIN disk = Paths /\ JobShape(job) /\ fileFaults \in Nat
      /\ Inside(disk["config"]) /\ Inside(disk["upload"]) /\ (job.alone => Fits(job, disk, littered))
  BY JobFacts
<1>2. /\ new.kind = job.kind /\ new.path = job.path /\ new.sent = job.sent /\ new.ok = job.ok
      /\ new.before = job.before /\ new.alone = job.alone /\ new.lost = job.lost /\ new.mixed = job.mixed
      /\ job.kind = "import"
  BY DEF JobFields
<1> HIDE DEF job
<1>3. JobShape(new)
  <2>1. ~job.ok
    BY <1>1, <1>2 DEF JobShape, Imports
  <2> QED BY <1>1, <1>2, <2>1 DEF JobShape, Imports
<1>4. ASSUME job.alone
      PROVE  Fits(new, d, littered)
  <2>1. \A p \in ReservedProfiles : d[p] = job.before[p]
    BY <1>1, <1>2, <1>4 DEF Fits, FitsImport
  <2> QED BY <1>2, <2>1 DEF Fits, FitsImport, FitsExport, Imports
<1>5. Inside(d["config"]) /\ Inside(d["upload"])
  BY <1>1, FilesApart
<1>6. ASSUME NEW s \in Archives, d[s] # NoFile
      PROVE  disk[s] # NoFile /\ (Tends(job, s) => Tends(new, s))
  <2>1. d[s] = disk[s]
    BY FilesApart
  <2>2. Tends(job, s) => Tends(new, s)
    BY <1>2 DEF Tends
  <2> QED BY <1>6, <2>1, <2>2
<1>7. new.alone = fileJobs[t].alone
  BY <1>2 DEF job
<1>8. fileFaults' \in Nat /\ littered' = littered
  BY <1>1
<1> QED BY <1>3, <1>4, <1>5, <1>6, <1>7, <1>8, FileGoesOn DEF job

LEMMA CopiedFiles ==
    ASSUME DOMAIN disk = Paths, NEW some, some \subseteq Profiles \ ReservedProfiles
    PROVE  /\ DOMAIN Copied(disk, some) = Paths
           /\ \A p \in (Paths \ Items) \union ReservedProfiles : Copied(disk, some)[p] = disk[p]
<1>1. DOMAIN Copied(disk, some) = Paths
  BY DEF Copied
<1>2. ASSUME NEW p \in (Paths \ Items) \union ReservedProfiles
      PROVE  Copied(disk, some)[p] = disk[p]
  <2>1. p \in Paths /\ p \notin some
    BY FilesApart
  <2> QED BY <2>1 DEF Copied
<1> QED BY <1>1, <1>2

LEMMA ConnectionsStartsStep ==
    ASSUME FilesInv, NEW t \in DOMAIN fileJobs, ImportConnectionsStarts(t)
    PROVE  FilesInv'
<1> DEFINE job == fileJobs[t]
           file == disk["archive"]
<1>1. /\ DOMAIN job = JobFields /\ DOMAIN disk = Paths /\ DOMAIN unpacked = Items /\ JobShape(job) /\ fileFaults \in Nat
      /\ Inside(disk["config"]) /\ Inside(disk["upload"]) /\ (job.alone => Fits(job, disk, littered))
  BY JobFacts
<1>2. job.kind = "import" /\ job.stage = "start" /\ UNCHANGED <<loaded, littered, fileFaults>>
  BY DEF ImportConnectionsStarts
<1>3. fileFaults' \in Nat
  BY <1>1, <1>2
<1>4. CASE file = NoFile
  <2>1. Answers(t, job, disk, {}) /\ UNCHANGED unpacked
    BY <1>4 DEF ImportConnectionsStarts
  <2> HIDE DEF job
  <2>2. job.alone => Right(job, disk, littered', fileFaults')
    BY <1>1, <1>2 DEF Right, Fits, FitsImport, Imports
  <2>3. \A s \in Archives : disk[s] # NoFile => ~Tends(job, s)
    BY <1>1, <1>2, <1>4 DEF Tends, JobShape, Imports
  <2>4. DOMAIN unpacked' = Items /\ littered \subseteq littered'
    BY <1>1, <1>2, <2>1
  <2> QED BY <1>1, <1>3, <2>1, <2>2, <2>3, <2>4, FileAnswers DEF job
<1>5. CASE ConnectionsEnd(t, FALSE)
  BY <1>2, <1>3, <1>5, ConnectionsEndStep
<1>6. CASE file # NoFile /\ ~ConnectionsEnd(t, FALSE)
  <2>1. unpacked' = Unzipped(file.holds)
    BY <1>6 DEF ImportConnectionsStarts
  <2>2. DOMAIN unpacked' = Items
    BY <2>1 DEF Unzipped
  <2>3. CASE job.over
    <3> DEFINE some == {p \in There(unpacked', Profiles \union Certs) : MayCopy(p, TRUE)}
    <3>1. GoesOn(t, [job EXCEPT !.stage = "reload"], Copied(disk, some), {})
      BY <1>6, <2>3 DEF ImportConnectionsStarts
    <3>2. some \subseteq Profiles \ ReservedProfiles
      BY DEF MayCopy
    <3> HIDE DEF some
    <3>3. /\ DOMAIN Copied(disk, some) = Paths
          /\ \A p \in (Paths \ Items) \union ReservedProfiles : Copied(disk, some)[p] = disk[p]
      BY <1>1, <3>2, CopiedFiles
    <3>4. PICK new : new = [job EXCEPT !.stage = "reload"]
      OBVIOUS
    <3>5. /\ DOMAIN new = JobFields /\ new.stage = "reload"
          /\ \A f \in JobFields \ {"stage", "todo", "item"} : new[f] = job[f]
      BY <1>1, <3>4 DEF JobFields
    <3>6. GoesOn(t, new, Copied(disk, some), {})
      BY <3>1, <3>4
    <3> QED BY <1>2, <2>2, <3>3, <3>5, <3>6, ConnectionsGoOn
  <2>4. CASE ~job.over
    <3>1. PICK todo : GoesOn(t, [job EXCEPT !.stage = "look", !.todo = todo], disk, {})
      BY <1>6, <2>4 DEF ImportConnectionsStarts
    <3>2. PICK new : new = [job EXCEPT !.stage = "look", !.todo = todo]
      OBVIOUS
    <3>3. /\ DOMAIN new = JobFields /\ new.stage = "look"
          /\ \A f \in JobFields \ {"stage", "todo", "item"} : new[f] = job[f]
      BY <1>1, <3>2 DEF JobFields
    <3>4. GoesOn(t, new, disk, {})
      BY <3>1, <3>2
    <3> QED BY <1>1, <1>2, <2>2, <3>3, <3>4, ConnectionsGoOn
  <2> QED BY <2>3, <2>4
<1> QED BY <1>4, <1>5, <1>6

LEMMA FilesLookStep ==
    ASSUME FilesInv, NEW t \in DOMAIN fileJobs, LookConnection(t) \/ CopyConnection(t) \/ AllLooked(t)
    PROVE  FilesInv'
<1> DEFINE job == fileJobs[t]
<1>1. /\ DOMAIN job = JobFields /\ DOMAIN disk = Paths /\ DOMAIN unpacked = Items /\ JobShape(job)
  BY JobFacts
<1>2. job.stage \in {"look", "copy"} /\ UNCHANGED <<unpacked, loaded, littered, fileFaults>>
  BY DEF LookConnection, CopyConnection, AllLooked
<1>3. job.kind = "import" /\ (job.stage = "copy" => job.item \in Profiles \ ReservedProfiles)
  BY <1>1, <1>2 DEF JobShape
<1>4. CASE LookConnection(t)
  <2>1. PICK p \in job.todo :
          GoesOn(t, [job EXCEPT !.todo = @ \ {p}, !.item = p, !.stage = IF MayCopy(p, FALSE) THEN "copy" ELSE "look"],
                 disk, {})
    BY <1>4 DEF LookConnection
  <2>2. PICK new : new = [job EXCEPT !.todo = @ \ {p}, !.item = p, !.stage = IF MayCopy(p, FALSE) THEN "copy" ELSE "look"]
    OBVIOUS
  <2> HIDE DEF job
  <2>3. /\ DOMAIN new = JobFields /\ new.stage = (IF MayCopy(p, FALSE) THEN "copy" ELSE "look") /\ new.item = p
        /\ \A f \in JobFields \ {"stage", "todo", "item"} : new[f] = job[f]
    BY <1>1, <2>2 DEF JobFields
  <2>4. new.stage \in {"look", "copy"} /\ (new.stage = "copy" => new.item \in Profiles \ ReservedProfiles)
    BY <2>3 DEF MayCopy
  <2>5. GoesOn(t, new, disk, {})
    BY <2>1, <2>2
  <2> QED BY <1>1, <1>2, <1>3, <2>3, <2>4, <2>5, ConnectionsGoOn DEF job
<1>5. CASE CopyConnection(t)
  <2>1. job.stage = "copy" /\ GoesOn(t, [job EXCEPT !.stage = "look"], Copied(disk, {job.item}), {})
    BY <1>5 DEF CopyConnection
  <2>2. {job.item} \subseteq Profiles \ ReservedProfiles
    BY <1>3, <2>1
  <2>3. /\ DOMAIN Copied(disk, {job.item}) = Paths
        /\ \A p \in (Paths \ Items) \union ReservedProfiles : Copied(disk, {job.item})[p] = disk[p]
    BY <1>1, <2>2, CopiedFiles
  <2>4. PICK new : new = [job EXCEPT !.stage = "look"]
    OBVIOUS
  <2> HIDE DEF job
  <2>5. /\ DOMAIN new = JobFields /\ new.stage = "look"
        /\ \A f \in JobFields \ {"stage", "todo", "item"} : new[f] = job[f]
    BY <1>1, <2>4 DEF JobFields
  <2>6. GoesOn(t, new, Copied(disk, {job.item}), {})
    BY <2>1, <2>4
  <2> QED BY <1>1, <1>2, <1>3, <2>3, <2>5, <2>6, ConnectionsGoOn DEF job
<1>6. CASE AllLooked(t)
  <2>1. GoesOn(t, [job EXCEPT !.stage = "reload"], disk, {})
    BY <1>6 DEF AllLooked
  <2>2. PICK new : new = [job EXCEPT !.stage = "reload"]
    OBVIOUS
  <2> HIDE DEF job
  <2>3. /\ DOMAIN new = JobFields /\ new.stage = "reload"
        /\ \A f \in JobFields \ {"stage", "todo", "item"} : new[f] = job[f]
    BY <1>1, <2>2 DEF JobFields
  <2>4. GoesOn(t, new, disk, {})
    BY <2>1, <2>2
  <2> QED BY <1>1, <1>2, <1>3, <2>3, <2>4, ConnectionsGoOn DEF job
<1> QED BY <1>4, <1>5, <1>6

LEMMA ReloadStep ==
    ASSUME FilesInv, NEW t \in DOMAIN fileJobs, NEW ok \in BOOLEAN, ReloadConnections(t, ok)
    PROVE  FilesInv'
<1> DEFINE job == fileJobs[t]
<1>1. DOMAIN disk = Paths /\ JobShape(job) /\ fileFaults \in Nat /\ (job.alone => FitsImport(job, disk))
  BY JobFacts DEF Fits
<1>2. /\ job.stage = "reload" /\ littered' = littered
      /\ IF ok THEN fileFaults' = fileFaults ELSE fileFaults' = fileFaults + 1
      /\ IF job.kind = "import" THEN ConnectionsEnd(t, ok) ELSE ImportEnds(t, ok, disk) /\ UNCHANGED unpacked
  BY DEF ReloadConnections
<1>3. fileFaults' \in Nat /\ (ok \/ fileFaults' > 0)
  BY <1>1, <1>2
<1>4. CASE job.kind = "import"
  BY <1>2, <1>3, <1>4, ConnectionsEndStep
<1>5. CASE job.kind # "import"
  <2>1. ImportEnds(t, ok, disk) /\ UNCHANGED <<unpacked, littered>>
    BY <1>2, <1>5
  <2> HIDE DEF job
  <2>2. job.kind \in Imports
    BY <1>1, <1>2, <1>5 DEF JobShape
  <2>3. job.alone /\ job.pw \notin NeedQuotes => Kept(disk) = Extracted(Blank, job.sent.holds)
    BY <1>1, <1>2, <2>2 DEF FitsImport
  <2> QED BY <1>1, <1>2, <1>3, <2>1, <2>2, <2>3, ImportEndsStep DEF job
<1> QED BY <1>4, <1>5

(* The archive of an export that is alone is what there is, unless an earlier one was left behind. *)
LEMMA ExportFacts ==
    ASSUME FilesInv, NEW t \in DOMAIN fileJobs, fileJobs[t].stage \in {"zip", "open", "unlink", "fails"}
    PROVE  /\ fileJobs[t].kind \in {"export", "atExport"} /\ fileJobs[t].path \in Archives
           /\ fileJobs[t].alone => FitsExport(fileJobs[t], disk, littered)
           /\ fileJobs[t].ok => fileJobs[t].stage = "unlink"
           /\ JobShape(fileJobs[t]) /\ DOMAIN fileJobs[t] = JobFields
           /\ DOMAIN disk = Paths /\ DOMAIN unpacked = Items /\ fileFaults \in Nat
           /\ Inside(disk["config"]) /\ Inside(disk["upload"])
<1> DEFINE job == fileJobs[t]
<1>1. JobShape(job) /\ (job.alone => FitsExport(job, disk, littered))
  BY JobFacts DEF Fits
<1>2. job.stage \in {"zip", "open", "unlink", "fails"}
  OBVIOUS
<1> HIDE DEF job
<1>3. job.kind \in {"export", "atExport"} /\ job.path \in Archives /\ (job.ok => job.stage = "unlink")
  BY <1>1, <1>2 DEF JobShape
<1> QED BY <1>1, <1>3, JobFacts DEF job

LEMMA ZipStep ==
    ASSUME FilesInv, NEW t \in DOMAIN fileJobs, ZipEnds(t)
    PROVE  FilesInv'
<1> DEFINE job == fileJobs[t]
           s == job.path
           stage == IF Zippable(s) THEN "open" ELSE "fails"
           new == [job EXCEPT !.stage = stage]
           d == IF Zippable(s) THEN [disk EXCEPT ![s] = ExportFile(s, Word(job.pw))] ELSE disk
<1>1. job.stage = "zip" /\ GoesOn(t, new, d, {s}) /\ UNCHANGED <<unpacked, loaded, littered, fileFaults>>
  BY DEF ZipEnds
<1>2. /\ job.kind \in {"export", "atExport"} /\ s \in Archives /\ (job.alone => FitsExport(job, disk, littered))
      /\ ~job.ok /\ JobShape(job) /\ DOMAIN job = JobFields
      /\ DOMAIN disk = Paths /\ DOMAIN unpacked = Items /\ fileFaults \in Nat
      /\ Inside(disk["config"]) /\ Inside(disk["upload"])
  BY <1>1, ExportFacts
<1>3. /\ DOMAIN new = JobFields /\ new.stage = stage
      /\ new.kind = job.kind /\ new.path = job.path /\ new.pw = job.pw /\ new.sent = job.sent
      /\ new.item = job.item /\ new.got = job.got /\ new.ok = job.ok /\ new.before = job.before
      /\ new.alone = job.alone /\ new.lost = job.lost /\ new.mixed = job.mixed
  BY <1>2, StageOf
<1>4. stage \in {"open", "fails"} /\ (stage = "open" <=> Zippable(s))
  OBVIOUS
<1>5. DOMAIN d = Paths /\ (~Zippable(s) => d = disk) /\ \A p \in Paths : p # s => d[p] = disk[p]
  BY <1>2
<1>6. Zippable(s) => d = [disk EXCEPT ![s] = ExportFile(s, Word(job.pw))]
  OBVIOUS
<1>7. s \in Archives /\ s = job.path
  BY <1>2
<1> HIDE DEF job, s, stage, new, d
<1>8. JobShape(new)
  BY <1>2, <1>3, <1>4 DEF JobShape, Imports
<1>9. Inside(d["config"]) /\ Inside(d["upload"])
  <2>1. CASE s = "config"
    <3>1. \A file \in {d["config"], disk["config"]} : Inside(file)
      <4>1. CASE ~Zippable(s)
        BY <1>2, <1>5, <4>1
      <4>2. CASE Zippable(s)
        <5>1. d["config"] = Zipped("config", Word(job.pw))
          BY <1>2, <1>6, <2>1, <4>2, FilesApart DEF ExportFile
        <5>2. \A p \in There(disk, Exported["config"]) : p \in Items
          BY DEF There, Exported
        <5>3. Inside(Zipped("config", Word(job.pw)))
          BY <1>2, <5>2 DEF Inside, Zipped, Packed, Entry
        <5> QED BY <1>2, <5>1, <5>3
      <4> QED BY <4>1, <4>2
    <3> QED BY <1>2, <1>5, <2>1, <3>1, FilesApart
  <2>2. CASE s # "config"
    BY <1>2, <1>5, <2>2, FilesApart
  <2> QED BY <2>1, <2>2
<1>10. ASSUME job.alone
       PROVE  Fits(new, d, littered)
  <2>1. FitsImport(new, d)
    BY <1>2, <1>3, <1>4 DEF FitsImport, Imports
  <2>2. ASSUME job.kind = "export", s \notin littered \union {"debug"}, s = "config" => job.pw \notin NeedQuotes
        PROVE  stage = "open" => d[s] = Now(d, s, job.pw)
    <3>1. disk[s] = NoFile
      BY <1>1, <1>2, <1>7, <1>10, <2>2 DEF FitsExport
    <3>2. Word(job.pw) = job.pw
      BY <1>1, <1>2, <1>7, <2>2 DEF JobShape, Word
    <3>3. Zippable(s) /\ ExportFile(s, job.pw) = Now(disk, s, job.pw)
          /\ Now([disk EXCEPT ![s] = ExportFile(s, job.pw)], s, job.pw) = Now(disk, s, job.pw)
      BY <1>2, <1>7, <2>2, <3>1, ZippedNow
    <3>4. s \in Paths
      BY <1>7, FilesApart
    <3> QED BY <1>2, <1>6, <3>2, <3>3, <3>4
  <2>3. FitsExport(new, d, littered)
    BY <1>3, <1>4, <1>7, <2>2 DEF FitsExport
  <2> QED BY <2>1, <2>3 DEF Fits
<1>11. ASSUME NEW r \in Archives, d[r] # NoFile
       PROVE  Tends(new, r) \/ (disk[r] # NoFile /\ (Tends(job, r) => Tends(new, r)))
  <2>1. CASE r = s /\ stage = "open"
    BY <1>2, <1>3, <1>7, <2>1 DEF Tends
  <2>2. CASE ~(r = s /\ stage = "open")
    <3>1. d[r] = disk[r]
      BY <1>4, <1>5, <2>2, FilesApart
    <3>2. ~Tends(job, r)
      BY <1>1, <1>2 DEF Tends
    <3> QED BY <1>11, <3>1, <3>2
  <2> QED BY <2>1, <2>2
<1>12. new.alone = fileJobs[t].alone /\ GoesOn(t, new, d, {s})
  BY <1>1, <1>3 DEF job
<1>13. DOMAIN unpacked' = Items /\ fileFaults' \in Nat /\ littered' = littered
  BY <1>1, <1>2
<1> QED BY <1>5, <1>8, <1>9, <1>10, <1>11, <1>12, <1>13, FileGoesOn DEF job

(* A password that a shell does not take as it stands promises nothing of what is sent. *)
LEMMA OtherLineStep ==
    ASSUME FilesInv, NEW t \in DOMAIN fileJobs, OtherLineEnds(t)
    PROVE  FilesInv'
<1> DEFINE job == fileJobs[t]
<1>1. PICK stage \in {"fails", "open"} :
        /\ stage = "open" => disk[job.path] # NoFile
        /\ GoesOn(t, [job EXCEPT !.stage = stage], disk, {})
  BY DEF OtherLineEnds
<1> DEFINE new == [job EXCEPT !.stage = stage]
<1>2. job.stage = "zip" /\ job.pw \in NeedQuotes /\ UNCHANGED <<unpacked, loaded, littered, fileFaults>>
  BY DEF OtherLineEnds
<1>3. /\ job.kind \in {"export", "atExport"} /\ job.path \in Archives
      /\ ~job.ok /\ JobShape(job) /\ DOMAIN job = JobFields
      /\ DOMAIN disk = Paths /\ DOMAIN unpacked = Items /\ fileFaults \in Nat
      /\ Inside(disk["config"]) /\ Inside(disk["upload"])
  BY <1>2, ExportFacts
<1>4. /\ DOMAIN new = JobFields /\ new.stage = stage
      /\ new.kind = job.kind /\ new.path = job.path /\ new.pw = job.pw /\ new.sent = job.sent
      /\ new.item = job.item /\ new.got = job.got /\ new.ok = job.ok /\ new.before = job.before
      /\ new.alone = job.alone /\ new.lost = job.lost /\ new.mixed = job.mixed
  BY <1>3, StageOf
<1>5. GoesOn(t, new, disk, {})
  BY <1>1
<1>6. job.path = "config" /\ ~job.ok
  BY <1>2, <1>3 DEF JobShape
<1>7. stage \in {"fails", "open"}
  OBVIOUS
<1> HIDE DEF job, new
<1>8. JobShape(new)
  BY <1>3, <1>4, <1>6, <1>7 DEF JobShape, Imports
<1>9. Fits(new, disk, littered)
  BY <1>2, <1>3, <1>4, <1>6, <1>7 DEF Fits, FitsImport, FitsExport, Imports
<1>10. \A r : ~Tends(job, r)
  BY <1>2, <1>3 DEF Tends
<1>11. new.alone = fileJobs[t].alone
  BY <1>4 DEF job
<1>12. DOMAIN unpacked' = Items /\ fileFaults' \in Nat /\ littered' = littered
  BY <1>2, <1>3
<1>13. ASSUME NEW r \in Archives \ (littered \union {"debug"}), disk[r] # NoFile
       PROVE  Tends(new, r) \/ (disk[r] # NoFile /\ (Tends(fileJobs[t], r) => Tends(new, r)))
  BY <1>10, <1>13 DEF job
<1> QED BY <1>3, <1>5, <1>8, <1>9, <1>11, <1>12, <1>13, FileGoesOn

(* An export that is answered: with nothing, with the size alone, or with what it has read. *)
LEMMA ExportEndsStep ==
    ASSUME FilesInv, NEW t \in DOMAIN fileJobs,
           \/ ExportFails(t) \/ ATExported(t) \/ UnlinkArchive(t)
           \/ OpenArchive(t) /\ disk[fileJobs[t].path] = NoFile
    PROVE  FilesInv'
<1> DEFINE job == fileJobs[t]
<1>1. PICK d, gone : /\ Answers(t, job, d, gone)
                     /\ d = disk \/ d = Without(disk, {job.path})
                     /\ job.stage \in {"open", "unlink"} =>
                          \/ d = Without(disk, {job.path}) \/ disk[job.path] = NoFile
                          \/ littered' = littered \union There(disk, {job.path})
  BY DEF ExportFails, ATExported, UnlinkArchive, OpenArchive
<1>2. /\ job.stage \in {"open", "unlink", "fails"} /\ UNCHANGED <<unpacked, loaded, fileFaults>>
      /\ littered' = littered \/ (job.kind = "atExport" /\ littered' = littered \union There(disk, {job.path}))
  BY DEF ExportFails, ATExported, UnlinkArchive, OpenArchive
<1>3. /\ job.kind \in {"export", "atExport"} /\ job.path \in Archives /\ (job.alone => FitsExport(job, disk, littered))
      /\ (job.ok => job.stage = "unlink")
      /\ DOMAIN disk = Paths /\ DOMAIN unpacked = Items /\ fileFaults \in Nat
      /\ Inside(disk["config"]) /\ Inside(disk["upload"])
  BY <1>2, ExportFacts
<1> HIDE DEF job
<1>4. /\ DOMAIN d = Paths /\ \A p \in Paths : d[p] = disk[p] \/ (p = job.path /\ d[p] = NoFile)
      /\ d = Without(disk, {job.path}) => d[job.path] = NoFile
  BY <1>1, <1>3, WithoutFile, FilesApart
<1>5. Inside(d["config"]) /\ Inside(d["upload"])
  BY <1>3, <1>4, FilesApart, PlainInside
<1>6. ASSUME job.alone
      PROVE  Right(job, d, littered', fileFaults')
  <2>1. \A p \in Items \union {"journal"} : d[p] = disk[p]
    <3>1. "journal" \in Paths /\ Items \subseteq Paths /\ job.path \notin Items \union {"journal"}
      BY <1>3, FilesApart DEF Paths
    <3> QED BY <1>4, <3>1
  <2>2. Now(d, job.path, job.pw) = Now(disk, job.path, job.pw)
    BY <1>3, <2>1, SameNow
  <2>3. job.kind = "export" => littered' = littered
    BY <1>2
  <2> QED BY <1>3, <1>6, <2>2, <2>3 DEF Right, Imports, FitsExport
<1>7. ASSUME NEW r \in Archives \ (littered' \union {"debug"}), d[r] # NoFile
      PROVE  disk[r] # NoFile /\ ~Tends(job, r)
  <2>1. d[r] = disk[r]
    BY <1>4, <1>7, FilesApart
  <2>2. ASSUME Tends(job, r)
        PROVE  FALSE
    <3>1. r = job.path /\ job.stage \in {"open", "unlink"}
      BY <1>3, <2>2 DEF Tends, Imports
    <3>2. r \in There(disk, {job.path})
      BY <1>7, <2>1, <3>1 DEF There
    <3> QED BY <1>1, <1>4, <1>7, <2>1, <3>1, <3>2
  <2> QED BY <1>7, <2>1, <2>2
<1>8. DOMAIN unpacked' = Items /\ fileFaults' \in Nat /\ littered \subseteq littered'
  BY <1>2, <1>3
<1> QED BY <1>1, <1>4, <1>5, <1>6, <1>7, <1>8, FileAnswers DEF job

LEMMA OpenStep ==
    ASSUME FilesInv, NEW t \in DOMAIN fileJobs, OpenArchive(t), disk[fileJobs[t].path] # NoFile
    PROVE  FilesInv'
<1> DEFINE job == fileJobs[t]
<1>1. PICK new : /\ new = [job EXCEPT !.stage = "unlink", !.got = disk[job.path], !.ok = TRUE]
                 /\ GoesOn(t, new, disk, {})
  BY DEF OpenArchive
<1>2. job.kind = "export" /\ job.stage = "open" /\ UNCHANGED <<unpacked, loaded, littered, fileFaults>>
  BY DEF OpenArchive
<1>3. /\ job.path \in Archives /\ (job.alone => FitsExport(job, disk, littered))
      /\ JobShape(job) /\ DOMAIN job = JobFields
      /\ DOMAIN disk = Paths /\ DOMAIN unpacked = Items /\ fileFaults \in Nat
      /\ Inside(disk["config"]) /\ Inside(disk["upload"])
  BY <1>2, ExportFacts
<1> HIDE DEF job
<1>4. /\ DOMAIN new = JobFields /\ new.stage = "unlink" /\ new.got = disk[job.path] /\ new.ok
      /\ \A f \in JobFields \ {"stage", "got", "ok"} : new[f] = job[f]
  BY <1>1, <1>3 DEF JobFields
<1>5. new.ok \in BOOLEAN
  BY <1>1, <1>3 DEF JobFields
<1>6. /\ new.kind = job.kind /\ new.path = job.path /\ new.pw = job.pw /\ new.sent = job.sent
      /\ new.alone = job.alone /\ new.lost = job.lost /\ new.mixed = job.mixed
  BY <1>4 DEF JobFields
<1>7. JobShape(new)
  BY <1>2, <1>3, <1>4, <1>5, <1>6 DEF JobShape, Imports
<1>8. job.alone => Fits(new, disk, littered)
  BY <1>2, <1>3, <1>4, <1>6 DEF Fits, FitsImport, FitsExport, Imports
<1>9. \A r : Tends(job, r) => Tends(new, r)
  BY <1>2, <1>4, <1>6 DEF Tends
<1>10. new.alone = fileJobs[t].alone /\ GoesOn(t, new, disk, {})
  BY <1>1, <1>6 DEF job
<1>11. DOMAIN unpacked' = Items /\ fileFaults' \in Nat /\ littered' = littered
  BY <1>2, <1>3
<1> QED BY <1>3, <1>7, <1>8, <1>9, <1>10, <1>11, FileGoesOn DEF job

LEMMA FilesStart == FilesInit => FilesInv
<1> SUFFICES ASSUME FilesInit
             PROVE  FilesInv
  OBVIOUS
<1>1. fileJobs = <<>> /\ fileDone = <<>> /\ fileFaults = 0 /\ DOMAIN unpacked = Items /\ DOMAIN disk = Paths
  BY DEF FilesInit
<1>2. Len(fileJobs) = 0 /\ fileJobs \in Seq({}) /\ fileJobs \in Seq(ToSet(fileJobs)) /\ DOMAIN fileJobs = {}
  <2>1. fileJobs \in Seq({})
    BY <1>1, EmptySeq
  <2> QED BY <1>1, <2>1, EmptySeq, Ranged
<1>3. \A p \in Paths : disk[p] \in {Plain("own"), NoFile} /\ (p \notin Items \union {"journal"} => disk[p] = NoFile)
  BY FilesAssumption DEF FilesInit
<1>4. FilesTyped
  BY <1>1, <1>2, <1>3, FilesApart, PlainInside DEF FilesTyped
<1>5. Tended(fileJobs, disk, littered)
  BY <1>3, FilesApart DEF Tended
<1> QED BY <1>1, <1>2, <1>4, <1>5 DEF FilesInv

LEMMA FilesStep == FilesInv /\ [FilesNext]_files => FilesInv'
<1> SUFFICES ASSUME FilesInv, [FilesNext]_files
             PROVE  FilesInv'
  OBVIOUS
<1>1. CASE UNCHANGED files
  BY <1>1 DEF files, FilesInv, FilesTyped
<1>2. CASE FileRequests
  BY <1>2, RequestStep
<1>3. ASSUME NEW t \in DOMAIN fileJobs, FileSteps(t)
      PROVE  FilesInv'
  <2>1. CASE UploadEnds(t) \/ NoPassword(t) \/ \E c \in Certs : PostCert(t, c)
    BY <2>1, UploadEndsStep, NoPasswordStep, PostCertStep
  <2>2. CASE ImportConfigStarts(t) \/ TestEncrypted(t) \/ TestPassword(t) \/ RemoveConfig(t) \/ RemoveFails(t)
    BY <2>2, ConfigStartsStep, EncryptedStep, PasswordStep, RemoveStep, RemoveFailsStep
  <2>3. CASE ExtractConfig(t) \/ ExtractFails(t)
    BY <2>3, ExtractStep, ExtractFailsStep
  <2>4. CASE ImportConnectionsStarts(t) \/ LookConnection(t) \/ CopyConnection(t) \/ AllLooked(t)
    BY <2>4, ConnectionsStartsStep, FilesLookStep
  <2>5. CASE \E ok \in BOOLEAN : ReloadConnections(t, ok)
    BY <2>5, ReloadStep
  <2>6. CASE ZipEnds(t) \/ OtherLineEnds(t) \/ ExportFails(t) \/ ATExported(t) \/ OpenArchive(t) \/ UnlinkArchive(t)
    BY <2>6, ZipStep, OtherLineStep, ExportEndsStep, OpenStep
  <2> QED BY <1>3, <2>1, <2>2, <2>3, <2>4, <2>5, <2>6 DEF FileSteps
<1> QED BY <1>1, <1>2, <1>3 DEF FilesNext

FilesSpec == FilesInit /\ [][FilesNext]_files

(* The import of a configuration by a request that is alone (import_system_config) is all or    *)
(* nothing, and that of connections leaves the profiles that the system ships, whatever is sent. *)
THEOREM ImportsAreWhole == FilesSpec => []ImportIsWhole
<1>1. FilesInv => ImportIsWhole
  BY DEF FilesInv, Right, ImportIsWhole, Done, Imports, Blank
<1> QED BY <1>1, FilesStart, FilesStep, PTL DEF FilesSpec

(* What a client that is alone is sent (handle_file_download) is what the system holds, unless *)
(* a request has left an archive behind (at+filesexp, or an upload without a password).          *)
THEOREM ExportsAreCurrent == FilesSpec => []ExportIsCurrent
<1>1. FilesInv => ExportIsCurrent
  BY DEF FilesInv, Right, ExportIsCurrent, Done, Now
<1> QED BY <1>1, FilesStart, FilesStep, PTL DEF FilesSpec

-----------------------------------------------------------------------------
(***************************************************************************)
(* The time sources, for any lists and any number of requests, reloads     *)
(* that fail and restarts.  What chrony uses is what the file holds as     *)
(* soon as no request is between opening the file and the reload, whoever  *)
(* else ran; what the file holds is promised to a request that is alone.   *)
(***************************************************************************)
SourceNames == UNION {ToSet(list) : list \in SourceLists}
NtpCommands == SourceCommands \union {"delete"}
NtpJobSet ==
    [command : NtpCommands, given : Seq(SourceNames), stage : {"look", "read", "open", "write", "reload"},
     data : Seq(SourceNames)]

(* Where a request that is alone has the file, at each of its stages. *)
FitsNtp(job, file, asked) ==
    /\ job.stage = "look" => job.command = "delete"
    /\ job.stage \in {"look", "read"} => asked = NewSources(job.command, file, job.given)
    /\ job.stage \in {"open", "write"} => job.data = asked
    /\ job.stage = "write" => file = <<>>
    /\ job.stage = "reload" => file = asked

AtFile(jobs) == \E j \in 1 .. Len(jobs) : jobs[j].stage \in {"write", "reload"}

(* What the last request asked for, if it was alone. *)
NtpAlone(jobs, file, asked) ==
    /\ Len(jobs) \in {0, 1}
    /\ IF Len(jobs) = 0 THEN file = asked ELSE FitsNtp(jobs[1], file, asked)

NtpInv ==
    /\ sources \in Seq(SourceNames) /\ ntpJobs \in Seq(NtpJobSet)
    /\ chrony = sources \/ unread \/ AtFile(ntpJobs)
    /\ ntpCrossed \/ NtpAlone(ntpJobs, sources, ntpAsked)

LEMMA ListsAreSequences ==
    ASSUME NEW list \in SourceLists
    PROVE  list \in Seq(SourceNames)
<1>1. list \in Seq(ToSet(list)) /\ ToSet(list) \subseteq SourceNames
  BY NtpAssumption DEF SourceNames
<1> QED BY <1>1, SeqMonotonic

(* What a command makes of the sources is a list of sources; to remove what is not there changes nothing. *)
LEMMA LackingIs ==
    ASSUME NEW list \in Seq(SourceNames), NEW given \in Seq(SourceNames)
    PROVE  /\ Lacking(list, given) \in Seq(SourceNames)
           /\ ToSet(given) \intersect ToSet(list) = {} => Lacking(list, given) = list
<1> DEFINE keep == ToSet(list) \ ToSet(given)
           k == Filtered(list, keep)
<1>1. k = Lacking(list, given)
  BY DEF Lacking
<1>2. Len(list) \in Nat /\ \A i \in 1 .. Len(list) : list[i] \in ToSet(list)
  <2>1. Len(list) \in Nat /\ DOMAIN list = 1 .. Len(list)
    BY LenProperties
  <2> QED BY <2>1 DEF ToSet
<1>3. ASSUME ToSet(given) \intersect ToSet(list) = {}
      PROVE  k = list
  <2>1. \A i \in 1 .. Len(list) : list[i] \in keep
    BY <1>2, <1>3
  <2> HIDE DEF keep
  <2>2. k \in Seq(SourceNames) /\ Len(k) \in 0 .. Len(list)
    BY FilteredIs
  <2>3. /\ \A i \in 1 .. Len(k) : k[i] = list[(Len(list) - Len(k)) + i]
        /\ \A i \in 1 .. Len(list) - Len(k) : list[i] \notin keep
    BY <2>1, FilteredEnd
  <2> HIDE DEF k
  <2>4. Len(k) = Len(list)
    <3>1. Len(list) # Len(k) => 1 \in 1 .. Len(list) - Len(k) /\ 1 \in 1 .. Len(list)
      BY <1>2, <2>2
    <3> QED BY <2>1, <2>3, <3>1
  <2>5. \A i \in 1 .. Len(k) : k[i] = list[i]
    BY <1>2, <2>3, <2>4
  <2> QED BY <2>2, <2>4, <2>5, SeqEqual
<1>4. k \in Seq(SourceNames)
  <2> HIDE DEF keep
  <2> QED BY FilteredIs
<1> QED BY <1>1, <1>3, <1>4

LEMMA NewSourcesIs ==
    ASSUME NEW command \in NtpCommands, NEW current \in Seq(SourceNames), NEW given \in Seq(SourceNames)
    PROVE  NewSources(command, current, given) \in Seq(SourceNames)
<1>1. Lacking(current, given) \in Seq(SourceNames) /\ current \o Lacking(given, current) \in Seq(SourceNames)
  BY LackingIs, ConcatProperties
<1> QED BY <1>1 DEF NewSources, NtpCommands, SourceCommands

-----------------------------------------------------------------------------
LEMMA NtpStart == NtpInit => NtpInv
<1> SUFFICES ASSUME NtpInit
             PROVE  NtpInv
  OBVIOUS
<1>1. sources \in Seq(SourceNames)
  BY ListsAreSequences DEF NtpInit
<1>2. ntpJobs \in Seq(NtpJobSet) /\ Len(ntpJobs) = 0
  BY EmptySeq DEF NtpInit
<1> QED BY <1>1, <1>2 DEF NtpInit, NtpInv, NtpAlone

LEMMA ConfigureStep ==
    ASSUME NtpInv, NEW command \in NtpCommands, NEW given \in SourceLists, ConfigureSources(command, given)
    PROVE  NtpInv'
<1> DEFINE job == NtpJob(command, given,
                        CASE command = "delete" -> "look" [] command = "overrideSources" -> "open" [] OTHER -> "read",
                        given)
<1>1. given \in Seq(SourceNames)
  BY ListsAreSequences
<1>2. /\ job \in NtpJobSet /\ job.command = command /\ job.given = given /\ job.data = given
      /\ job.stage = IF command = "delete" THEN "look" ELSE IF command = "overrideSources" THEN "open" ELSE "read"
  BY <1>1 DEF NtpJob, NtpJobSet, NtpCommands, SourceCommands
<1>3. /\ ntpJobs' = Append(ntpJobs, job) /\ ntpAsked' = NewSources(command, sources, given)
      /\ ntpCrossed' = (ntpJobs # <<>>) /\ UNCHANGED <<sources, chrony, unread>>
  BY DEF ConfigureSources
<1> HIDE DEF job
<1>4. /\ ntpJobs' \in Seq(NtpJobSet) /\ Len(ntpJobs') = Len(ntpJobs) + 1 /\ Len(ntpJobs) \in Nat
      /\ \A j \in 1 .. Len(ntpJobs) : ntpJobs'[j] = ntpJobs[j]
      /\ ntpJobs'[Len(ntpJobs) + 1] = job
  BY <1>2, <1>3, AppendProperties, LenProperties DEF NtpInv
<1>5. AtFile(ntpJobs) => AtFile(ntpJobs')
  BY <1>4 DEF AtFile
<1>6. FitsNtp(job, sources, ntpAsked')
  BY <1>2, <1>3 DEF FitsNtp, NewSources, NtpCommands, SourceCommands
<1>7. ntpCrossed' \/ NtpAlone(ntpJobs', sources', ntpAsked')
  <2>1. ~ntpCrossed' => Len(ntpJobs) = 0
    BY <1>3, EmptySeq
  <2> QED BY <1>3, <1>4, <1>6, <2>1 DEF NtpAlone
<1> QED BY <1>3, <1>4, <1>5, <1>7 DEF NtpInv

(* A request goes on to its next stage. *)
LEMMA NtpGoes ==
    ASSUME NtpInv, NEW t \in 1 .. Len(ntpJobs), NEW job \in NtpJobSet, NtpGoesOn(t, job),
           sources' \in Seq(SourceNames), UNCHANGED <<chrony, unread, ntpAsked, ntpCrossed>>,
           ntpJobs[t].stage \in {"write", "reload"} \/ sources' # sources => job.stage \in {"write", "reload"},
           FitsNtp(ntpJobs[t], sources, ntpAsked) => FitsNtp(job, sources', ntpAsked)
    PROVE  NtpInv'
<1>1. /\ ntpJobs' = [ntpJobs EXCEPT ![t] = job] /\ ntpJobs' \in Seq(NtpJobSet) /\ Len(ntpJobs') = Len(ntpJobs)
      /\ Len(ntpJobs) \in Nat /\ \A j \in 1 .. Len(ntpJobs) : ntpJobs'[j] = IF j = t THEN job ELSE ntpJobs[j]
  BY ExceptSeq, LenProperties DEF NtpInv, NtpGoesOn
<1>2. chrony' = sources' \/ unread' \/ AtFile(ntpJobs')
  BY <1>1 DEF NtpInv, AtFile
<1>3. ASSUME NtpAlone(ntpJobs, sources, ntpAsked)
      PROVE  NtpAlone(ntpJobs', sources', ntpAsked')
  <2>1. t = 1 /\ Len(ntpJobs) = 1
    BY <1>1, <1>3 DEF NtpAlone
  <2>2. ntpJobs'[1] = job /\ Len(ntpJobs') = 1
    BY <1>1, <2>1
  <2>3. FitsNtp(job, sources', ntpAsked)
    BY <1>3, <2>1 DEF NtpAlone
  <2> QED BY <2>2, <2>3 DEF NtpAlone
<1> QED BY <1>1, <1>2, <1>3 DEF NtpInv

(* A request comes to its end. *)
LEMMA NtpEnds ==
    ASSUME NtpInv, NEW t \in 1 .. Len(ntpJobs), ntpJobs' = RemoveAt(ntpJobs, t),
           UNCHANGED <<sources, ntpAsked, ntpCrossed>>,
           \/ chrony' = sources \/ unread'
           \/ UNCHANGED <<chrony, unread>> /\ ntpJobs[t].stage \notin {"write", "reload"},
           FitsNtp(ntpJobs[t], sources, ntpAsked) => sources = ntpAsked
    PROVE  NtpInv'
<1>1. /\ ntpJobs' \in Seq(NtpJobSet) /\ Len(ntpJobs') = Len(ntpJobs) - 1 /\ Len(ntpJobs) \in Nat
      /\ \A j \in 1 .. Len(ntpJobs) - 1 : ntpJobs'[j] = ntpJobs[IF j < t THEN j ELSE j + 1]
  BY Removed, LenProperties DEF NtpInv
<1>2. ASSUME AtFile(ntpJobs), ntpJobs[t].stage \notin {"write", "reload"}
      PROVE  AtFile(ntpJobs')
  <2>1. PICK j \in 1 .. Len(ntpJobs) : ntpJobs[j].stage \in {"write", "reload"}
    BY <1>2 DEF AtFile
  <2> DEFINE i == IF j < t THEN j ELSE j - 1
  <2>2. j # t
    BY <1>2, <2>1
  <2>3. i \in 1 .. Len(ntpJobs) - 1 /\ j = IF i < t THEN i ELSE i + 1
    BY <1>1, <2>2
  <2>4. ntpJobs'[i] = ntpJobs[j]
    BY <1>1, <2>3
  <2> QED BY <1>1, <2>1, <2>3, <2>4 DEF AtFile
<1>3. chrony' = sources' \/ unread' \/ AtFile(ntpJobs')
  BY <1>2 DEF NtpInv
<1>4. ASSUME NtpAlone(ntpJobs, sources, ntpAsked)
      PROVE  NtpAlone(ntpJobs', sources', ntpAsked')
  <2>1. t = 1 /\ Len(ntpJobs) = 1
    BY <1>1, <1>4 DEF NtpAlone
  <2>2. FitsNtp(ntpJobs[t], sources, ntpAsked)
    BY <1>4, <2>1 DEF NtpAlone
  <2>3. Len(ntpJobs') = 0
    BY <1>1, <2>1
  <2> QED BY <2>2, <2>3 DEF NtpAlone
<1> QED BY <1>1, <1>3, <1>4 DEF NtpInv

LEMMA NtpTaskStep ==
    ASSUME NtpInv, NEW t \in DOMAIN ntpJobs,
           LookSource(t) \/ ReadSources(t) \/ OpenSources(t) \/ WriteSources(t) \/ \E ok \in BOOLEAN : ReloadSources(t, ok)
    PROVE  NtpInv'
<1> DEFINE job == ntpJobs[t]
<1>1. t \in 1 .. Len(ntpJobs) /\ job \in NtpJobSet /\ sources \in Seq(SourceNames)
  BY LenProperties, ElementOfSeq DEF NtpInv
<1>2. ASSUME NEW stage \in {"look", "read", "open", "write", "reload"}
      PROVE  /\ [job EXCEPT !.stage = stage] \in NtpJobSet /\ [job EXCEPT !.stage = stage].stage = stage
             /\ [job EXCEPT !.stage = stage].command = job.command /\ [job EXCEPT !.stage = stage].given = job.given
             /\ [job EXCEPT !.stage = stage].data = job.data
  BY <1>1 DEF NtpJobSet
<1>3. CASE LookSource(t)
  <2>1. CASE \E s \in ToSet(job.given) : Contains(sources, s)
    <3> DEFINE next == [job EXCEPT !.stage = "read"]
    <3>1. NtpGoesOn(t, next) /\ UNCHANGED <<sources, chrony, unread, ntpAsked, ntpCrossed>> /\ job.stage = "look"
      BY <1>3, <2>1 DEF LookSource
    <3>2. /\ next \in NtpJobSet /\ next.stage = "read" /\ next.command = job.command /\ next.given = job.given
      BY <1>2
    <3> HIDE DEF next
    <3>3. FitsNtp(job, sources, ntpAsked) => FitsNtp(next, sources, ntpAsked)
      BY <3>1, <3>2 DEF FitsNtp
    <3> QED BY <1>1, <3>1, <3>2, <3>3, NtpGoes
  <2>2. CASE ~\E s \in ToSet(job.given) : Contains(sources, s)
    <3>1. /\ ntpJobs' = RemoveAt(ntpJobs, t) /\ UNCHANGED <<sources, chrony, unread, ntpAsked, ntpCrossed>>
          /\ job.stage = "look"
      BY <1>3, <2>2 DEF LookSource
    <3>2. ToSet(job.given) \intersect ToSet(sources) = {}
      BY <2>2 DEF Contains, ToSet
    <3>3. Lacking(sources, job.given) = sources
      BY <1>1, <3>2, LackingIs DEF NtpJobSet
    <3>4. FitsNtp(job, sources, ntpAsked) => sources = ntpAsked
      BY <3>1, <3>3 DEF FitsNtp, NewSources
    <3> QED BY <1>1, <3>1, <3>4, NtpEnds
  <2> QED BY <2>1, <2>2
<1>4. CASE ReadSources(t)
  <2> DEFINE data == NewSources(job.command, sources, job.given)
             next == [job EXCEPT !.stage = "open", !.data = data]
  <2>1. NtpGoesOn(t, next) /\ UNCHANGED <<sources, chrony, unread, ntpAsked, ntpCrossed>> /\ job.stage = "read"
    BY <1>4 DEF ReadSources
  <2>2. data \in Seq(SourceNames)
    BY <1>1, NewSourcesIs DEF NtpJobSet
  <2>3. next \in NtpJobSet /\ next.stage = "open" /\ next.data = data
    BY <1>1, <2>2 DEF NtpJobSet
  <2> HIDE DEF next
  <2>4. FitsNtp(job, sources, ntpAsked) => FitsNtp(next, sources, ntpAsked)
    BY <2>1, <2>3 DEF FitsNtp
  <2> QED BY <1>1, <2>1, <2>3, <2>4, NtpGoes
<1>5. CASE OpenSources(t)
  <2> DEFINE next == [job EXCEPT !.stage = "write"]
  <2>1. /\ NtpGoesOn(t, next) /\ UNCHANGED <<chrony, unread, ntpAsked, ntpCrossed>> /\ job.stage = "open"
        /\ sources' = <<>> /\ <<>> \in Seq(SourceNames)
    BY <1>5, EmptySeq DEF OpenSources
  <2>2. next \in NtpJobSet /\ next.stage = "write" /\ next.data = job.data
    BY <1>2
  <2> HIDE DEF next
  <2>3. FitsNtp(job, sources, ntpAsked) => FitsNtp(next, sources', ntpAsked)
    BY <2>1, <2>2 DEF FitsNtp
  <2> QED BY <1>1, <2>1, <2>2, <2>3, NtpGoes
<1>6. CASE WriteSources(t)
  <2> DEFINE next == [job EXCEPT !.stage = "reload"]
             data == job.data
  <2>1. /\ NtpGoesOn(t, next) /\ UNCHANGED <<chrony, unread, ntpAsked, ntpCrossed>> /\ job.stage = "write"
        /\ sources' = IF Len(sources) <= Len(data) THEN data ELSE data \o SubSeq(sources, Len(data) + 1, Len(sources))
    BY <1>6 DEF WriteSources
  <2>2. next \in NtpJobSet /\ next.stage = "reload" /\ data \in Seq(SourceNames) /\ Len(data) \in Nat
    BY <1>1, <1>2, LenProperties DEF NtpJobSet
  <2>3. sources' \in Seq(SourceNames)
    <3>1. Len(sources) \in Nat /\ \A i \in Len(data) + 1 .. Len(sources) : sources[i] \in SourceNames
      BY <1>1, <2>2, LenProperties, ElementOfSeq
    <3>2. SubSeq(sources, Len(data) + 1, Len(sources)) \in Seq(SourceNames)
      BY <2>2, <3>1, SubSeqProperties
    <3> QED BY <2>1, <2>2, <3>2, ConcatProperties
  <2> HIDE DEF next
  <2>4. sources = <<>> => sources' = data
    BY <2>1, <2>2, EmptySeq
  <2>5. FitsNtp(job, sources, ntpAsked) => FitsNtp(next, sources', ntpAsked)
    BY <2>1, <2>2, <2>4 DEF FitsNtp
  <2> QED BY <1>1, <2>1, <2>2, <2>3, <2>5, NtpGoes
<1>7. ASSUME NEW ok \in BOOLEAN, ReloadSources(t, ok)
      PROVE  NtpInv'
  <2>1. /\ ntpJobs' = RemoveAt(ntpJobs, t) /\ UNCHANGED <<sources, ntpAsked, ntpCrossed>> /\ job.stage = "reload"
        /\ chrony' = sources \/ unread'
    BY <1>7 DEF ReloadSources
  <2>2. FitsNtp(job, sources, ntpAsked) => sources = ntpAsked
    BY <2>1 DEF FitsNtp
  <2> QED BY <1>1, <2>1, <2>2, NtpEnds
<1> QED BY <1>3, <1>4, <1>5, <1>6, <1>7

LEMMA NtpRestartStep == ASSUME NtpInv, RestartNtp PROVE NtpInv'
<1>1. ntpJobs' \in Seq(NtpJobSet) /\ Len(ntpJobs') = 0
  BY EmptySeq DEF RestartNtp
<1>2. ntpJobs = <<>> => Len(ntpJobs) = 0 /\ ~AtFile(ntpJobs)
  BY EmptySeq DEF AtFile
<1> QED BY <1>1, <1>2 DEF RestartNtp, NtpInv, NtpAlone

(* A request for the time sources that was alone leaves in the file what it asked for,  *)
(* and chrony uses what is in the file unless a reload failed or did not come, whatever *)
(* requests ran into each other before.                                                  *)
THEOREM SourcesSet == NtpSpec => []SourcesAsAsked
<1>1. NtpInv /\ [NtpNext]_ntp => NtpInv'
  <2> SUFFICES ASSUME NtpInv, [NtpNext]_ntp
               PROVE  NtpInv'
    OBVIOUS
  <2>1. CASE UNCHANGED ntp
    BY <2>1 DEF ntp, NtpInv
  <2>2. ASSUME NEW given \in SourceLists, PutSources(given) \/ DeleteSource(given)
        PROVE  NtpInv'
    BY <2>2, ConfigureStep DEF PutSources, DeleteSource, NtpCommands, SourceCommands
  <2>3. ASSUME NEW command \in SourceCommands, NEW given \in SourceLists,
               PutSourcesLegacy(command, given) \/ NTPConfigure(command, given)
        PROVE  NtpInv'
    BY <2>3, ConfigureStep DEF PutSourcesLegacy, NTPConfigure, NtpCommands
  <2> QED BY <2>1, <2>2, <2>3, NtpTaskStep, NtpRestartStep DEF NtpNext
<1>2. NtpInv => SourcesAsAsked
  <2>1. ntpJobs = <<>> => Len(ntpJobs) = 0 /\ ~AtFile(ntpJobs)
    BY EmptySeq DEF AtFile
  <2> QED BY <2>1 DEF NtpInv, NtpAlone, SourcesAsAsked
<1> QED BY <1>1, <1>2, NtpStart, PTL DEF NtpSpec

-----------------------------------------------------------------------------
(***************************************************************************)
(* The forwarded ports, for any ports and any number of requests, calls of *)
(* iptables that fail and restarts.  While no two requests have met at a   *)
(* port or at the file, each port's rules follow the one request that is   *)
(* at it, and the file follows the last one that opened it.                *)
(***************************************************************************)
FwStages == {"nat", "filter", "open", "write"}
FwJobSet ==
    [command : {"add", "remove"}, port : Ports, stage : FwStages, data : Seq(Ports),
     put : BOOLEAN, want : Seq(Ports), todo : Seq(Ports), at : Nat \ {0}]
Saving == {"open", "write"}

FwTyped ==
    /\ fwJobs \in Seq(FwJobSet) /\ forwarded \in Seq(Ports) /\ portsFile \in Seq(Ports) \union {NoJson}
    /\ unsaved \in BOOLEAN
    /\ {nat, filter} \subseteq [Ports -> Nat]

(* A port that is listed has its rules, unless the request that removes it has begun, or broke off. *)
RulesFollow(jobs, list, first, second, gone) ==
    /\ \A i \in 1 .. Len(list) :
          /\ second[list[i]] > 0
          /\ \/ first[list[i]] > 0 \/ list[i] \in gone
             \/ \E j \in 1 .. Len(jobs) : jobs[j].command = "remove" /\ jobs[j].stage = "filter" /\ jobs[j].port = list[i]
    /\ \A j \in 1 .. Len(jobs) : jobs[j].command = "add" /\ jobs[j].stage = "filter" => first[jobs[j].port] > 0

(* The file is the list once nobody saves it, and who writes has the list unless another is about *)
(* to, or a save was lost.                                                                        *)
FileFollows(jobs, list, file, lost) ==
    /\ (\A j \in 1 .. Len(jobs) : jobs[j].stage \notin Saving) => lost \/ file = list
    /\ \A j \in 1 .. Len(jobs) : jobs[j].stage = "write" =>
          /\ file = <<>>
          /\ jobs[j].data = list \/ lost \/ \E k \in 1 .. Len(jobs) : jobs[k].stage = "open"
          /\ \A k \in 1 .. Len(jobs) : jobs[k].stage = "write" => k = j

FwGood ==
    /\ FwTyped /\ ~Crosses(fwJobs)
    /\ RulesFollow(fwJobs, forwarded, nat, filter, torn)
    /\ FileFollows(fwJobs, forwarded, portsFile, unsaved)
FwInv == crossed \in BOOLEAN /\ (crossed \/ FwGood)

(* What a list of requests has become: without request t, if that is one, and perhaps with one that begins. *)
Renews(new, jobs, t) ==
    /\ \A i \in 1 .. Len(new) : new[i].stage = "nat" \/ \E u \in (1 .. Len(jobs)) \ {t} : new[i] = jobs[u]
    /\ \A u \in (1 .. Len(jobs)) \ {t} : \E i \in 1 .. Len(new) : new[i] = jobs[u]

Beginning(next) == next = <<>> \/ \E n \in FwJobSet : n.stage = "nat" /\ next = <<n>>

-----------------------------------------------------------------------------
(* The first port of a put that is not in the list, as SelectInSeq finds it. *)
Missing(todo, list) == {i \in 1 .. Len(todo) : ~Contains(list, todo[i])}
FirstMissing(todo, list) == IF Missing(todo, list) # {} THEN Min(Missing(todo, list)) ELSE 0

LEMMA MissingIs ==
    ASSUME NEW todo \in Seq(Ports), NEW list
    PROVE  LET m == FirstMissing(todo, list) IN
           m \in Nat /\ (m > 0 => todo[m] \in Ports /\ SubSeq(todo, m + 1, Len(todo)) \in Seq(Ports))
<1> DEFINE I == Missing(todo, list)
           m == FirstMissing(todo, list)
<1>1. Len(todo) \in Nat /\ I \in SUBSET (1 .. Len(todo)) /\ I \in SUBSET Nat
  BY LenProperties DEF Missing
<1>2. I # {} => Min(I) \in I
  <2> HIDE DEF I
  <2> QED BY <1>1, Least
<1>3. m = IF I # {} THEN Min(I) ELSE 0
  BY DEF FirstMissing
<1> HIDE DEF I, m
<1>4. m = 0 \/ m \in 1 .. Len(todo)
  BY <1>1, <1>2, <1>3
<1>5. ASSUME m \in 1 .. Len(todo)
      PROVE  todo[m] \in Ports /\ SubSeq(todo, m + 1, Len(todo)) \in Seq(Ports)
  <2>1. \A i \in 1 .. Len(todo) : todo[i] \in Ports
    BY ElementOfSeq
  <2>2. \A i \in m + 1 .. Len(todo) : todo[i] \in Ports
    BY <1>1, <1>5, <2>1
  <2>3. SubSeq(todo, m + 1, Len(todo)) \in Seq(Ports)
    BY <1>1, <1>5, <2>2, SubSeqProperties
  <2> QED BY <1>5, <2>1, <2>3
<1> QED BY <1>1, <1>4, <1>5 DEF m

LEMMA StrayIs ==
    ASSUME NEW job, job.at \in Nat \ {0}, NEW list \in Seq(Ports), Strays(job, list) # {}
    PROVE  NextStray(job, list) \in Nat /\ list[NextStray(job, list)] \in Ports
<1> DEFINE I == Strays(job, list)
           at == job.at
<1>1. Len(list) \in Nat
  BY LenProperties
<1>2. I \in SUBSET (1 .. Len(list)) /\ I \in SUBSET Nat
  <2>1. at \in Nat \ {0} /\ I = {j \in at .. Len(list) : ~Contains(job.want, list[j])}
    BY DEF Strays
  <2> HIDE DEF at, I
  <2> QED BY <1>1, <2>1
<1>3. Min(I) \in I /\ \A i \in I : Min(I) <= i
  <2> HIDE DEF I
  <2> QED BY <1>2, Least DEF I
<1>4. NextStray(job, list) \in I
  BY <1>3 DEF NextStray
<1> QED BY <1>2, <1>4, ElementOfSeq

(* What a put does next is one request, for a port that is still to be added or removed. *)
Putting == [command : {"add", "remove"}, port : Ports \union {""}, stage : FwStages, data : Seq(Ports),
            put : BOOLEAN, want : Seq(Ports), todo : Seq(Ports), at : Nat \ {0}]

LEMMA PutBegins ==
    ASSUME NEW job \in Putting, NEW list \in Seq(Ports)
    PROVE  Beginning(PutGoesOn(job, list))
<1> DEFINE missing == FirstMissing(job.todo, list)
           stray == NextStray(job, list)
           some == Strays(job, list) # {}
           port == job.todo[missing]
           rest == SubSeq(job.todo, missing + 1, Len(job.todo))
           other == list[stray]
           added == [job EXCEPT !.command = "add", !.port = port, !.stage = "nat", !.todo = rest]
           removed == [job EXCEPT !.command = "remove", !.port = other, !.stage = "nat", !.todo = <<>>, !.at = stray + 1]
<1>1. PutGoesOn(job, list) = CASE missing > 0 -> <<added>>
                                [] missing = 0 /\ some -> <<removed>>
                                [] OTHER -> <<>>
  BY DEF PutGoesOn, SelectInSeq, FirstMissing, Missing
<1>2. missing \in Nat /\ (missing > 0 => port \in Ports /\ rest \in Seq(Ports))
  <2>1. job.todo \in Seq(Ports)
    BY DEF Putting
  <2> QED BY <2>1, MissingIs
<1>3. some => stray \in Nat /\ other \in Ports
  <2>1. job.at \in Nat \ {0}
    BY DEF Putting
  <2> QED BY <2>1, StrayIs
<1> HIDE DEF missing, stray, some, port, rest, other
<1>4. missing > 0 => added \in FwJobSet /\ added.stage = "nat"
  BY <1>2 DEF FwJobSet, FwStages, Putting
<1>5. some => removed \in FwJobSet /\ removed.stage = "nat"
  <2>1. some => stray + 1 \in Nat \ {0} /\ <<>> \in Seq(Ports)
    BY <1>3, EmptySeq
  <2> QED BY <1>3, <2>1 DEF FwJobSet, FwStages, Putting
<1> HIDE DEF added, removed
<1> QED BY <1>1, <1>2, <1>4, <1>5 DEF Beginning

LEMMA BeginsProperties ==
    ASSUME NEW next, Beginning(next)
    PROVE  /\ next \in Seq(FwJobSet) /\ Len(next) \in {0, 1}
           /\ \A i \in 1 .. Len(next) : next[i].stage = "nat"
<1>1. CASE next = <<>>
  BY <1>1, EmptySeq
<1>2. CASE next # <<>>
  <2>1. PICK n \in FwJobSet : n.stage = "nat" /\ next = <<n>>
    BY <1>2 DEF Beginning
  <2>2. <<n>> \in Seq(FwJobSet) /\ Len(<<n>>) = 1 /\ <<n>>[1] = n
    OBVIOUS
  <2> QED BY <2>1, <2>2
<1> QED BY <1>1, <1>2

(* A request that comes, or goes on. *)
LEMMA JobAdded ==
    ASSUME NEW jobs \in Seq(FwJobSet), NEW next, Beginning(next)
    PROVE  jobs \o next \in Seq(FwJobSet) /\ Renews(jobs \o next, jobs, 0)
<1>1. next \in Seq(FwJobSet) /\ Len(next) \in Nat /\ Len(jobs) \in Nat /\ \A i \in 1 .. Len(next) : next[i].stage = "nat"
  BY BeginsProperties, LenProperties
<1>2. /\ jobs \o next \in Seq(FwJobSet) /\ Len(jobs \o next) = Len(jobs) + Len(next)
      /\ \A i \in 1 .. Len(jobs) + Len(next) :
            (jobs \o next)[i] = IF i <= Len(jobs) THEN jobs[i] ELSE next[i - Len(jobs)]
  BY <1>1, ConcatProperties
<1>3. SUFFICES ASSUME NEW new, new = jobs \o next
               PROVE  Renews(new, jobs, 0)
  BY <1>2
<1>4. ASSUME NEW i \in 1 .. Len(new)
      PROVE  new[i].stage = "nat" \/ \E u \in (1 .. Len(jobs)) \ {0} : new[i] = jobs[u]
  <2>1. CASE i <= Len(jobs)
    BY <1>1, <1>2, <1>3, <2>1
  <2>2. CASE ~(i <= Len(jobs))
    <3>1. i - Len(jobs) \in 1 .. Len(next) /\ new[i] = next[i - Len(jobs)]
      BY <1>1, <1>2, <1>3, <2>2
    <3> QED BY <1>1, <3>1
  <2> QED BY <2>1, <2>2
<1>5. ASSUME NEW u \in (1 .. Len(jobs)) \ {0}
      PROVE  \E i \in 1 .. Len(new) : new[i] = jobs[u]
  <2>1. u \in 1 .. Len(new) /\ new[u] = jobs[u]
    BY <1>1, <1>2, <1>3
  <2> QED BY <2>1
<1> QED BY <1>4, <1>5 DEF Renews

LEMMA JobReplaced ==
    ASSUME fwJobs \in Seq(FwJobSet), NEW t \in 1 .. Len(fwJobs), NEW next, Beginning(next)
    PROVE  Replaced(t, next) \in Seq(FwJobSet) /\ Renews(Replaced(t, next), fwJobs, t)
<1> DEFINE N == Len(fwJobs)
           before == SubSeq(fwJobs, 1, t - 1)
           after == SubSeq(fwJobs, t + 1, N)
           start == before \o next
           new == start \o after
<1>1. N \in Nat /\ \A i \in 1 .. N : fwJobs[i] \in FwJobSet
  BY LenProperties, ElementOfSeq
<1>2. next \in Seq(FwJobSet) /\ Len(next) \in {0, 1} /\ \A i \in 1 .. Len(next) : next[i].stage = "nat"
  BY BeginsProperties
<1>3. /\ before \in Seq(FwJobSet) /\ Len(before) = t - 1 /\ \A i \in 1 .. t - 1 : before[i] = fwJobs[i]
  <2>1. \A i \in 1 .. t - 1 : fwJobs[i] \in FwJobSet
    BY <1>1
  <2>2. /\ before \in Seq(FwJobSet) /\ Len(before) = IF 1 <= t - 1 THEN (t - 1) - 1 + 1 ELSE 0
        /\ \A i \in 1 .. (t - 1) - 1 + 1 : before[i] = fwJobs[1 + i - 1]
    BY <1>1, <2>1, SubSeqProperties
  <2> QED BY <1>1, <2>2
<1>4. /\ after \in Seq(FwJobSet) /\ Len(after) = N - t /\ \A i \in 1 .. N - t : after[i] = fwJobs[t + i]
  <2>1. \A i \in t + 1 .. N : fwJobs[i] \in FwJobSet
    BY <1>1
  <2>2. /\ after \in Seq(FwJobSet) /\ Len(after) = IF t + 1 <= N THEN N - (t + 1) + 1 ELSE 0
        /\ \A i \in 1 .. N - (t + 1) + 1 : after[i] = fwJobs[(t + 1) + i - 1]
    BY <1>1, <2>1, SubSeqProperties
  <2> QED BY <1>1, <2>2
<1> HIDE DEF before, after
<1>5. /\ start \in Seq(FwJobSet) /\ Len(start) = (t - 1) + Len(next)
      /\ \A i \in 1 .. (t - 1) + Len(next) : start[i] = IF i <= t - 1 THEN before[i] ELSE next[i - (t - 1)]
  <2>1. /\ start \in Seq(FwJobSet) /\ Len(start) = Len(before) + Len(next)
        /\ \A i \in 1 .. Len(before) + Len(next) :
              start[i] = IF i <= Len(before) THEN before[i] ELSE next[i - Len(before)]
    BY <1>2, <1>3, ConcatProperties
  <2> QED BY <1>3, <2>1
<1> HIDE DEF start
<1>6. /\ new \in Seq(FwJobSet) /\ Len(new) = Len(start) + (N - t)
      /\ \A i \in 1 .. Len(start) + (N - t) : new[i] = IF i <= Len(start) THEN start[i] ELSE after[i - Len(start)]
  <2>1. /\ new \in Seq(FwJobSet) /\ Len(new) = Len(start) + Len(after)
        /\ \A i \in 1 .. Len(start) + Len(after) :
              new[i] = IF i <= Len(start) THEN start[i] ELSE after[i - Len(start)]
    BY <1>4, <1>5, ConcatProperties
  <2> QED BY <1>4, <2>1
<1> HIDE DEF new
<1>7. ASSUME NEW i \in 1 .. Len(new)
      PROVE  new[i].stage = "nat" \/ \E u \in (1 .. N) \ {t} : new[i] = fwJobs[u]
  <2>1. CASE i <= t - 1
    <3>1. i \in (1 .. N) \ {t} /\ new[i] = fwJobs[i]
      BY SMTT(60), <1>1, <1>2, <1>3, <1>5, <1>6, <2>1
    <3> QED BY <3>1
  <2>2. CASE ~(i <= t - 1) /\ i <= Len(start)
    <3>1. i - (t - 1) \in 1 .. Len(next) /\ new[i] = next[i - (t - 1)]
      BY <1>1, <1>2, <1>5, <1>6, <2>2
    <3> QED BY <1>2, <3>1
  <2>3. CASE ~(i <= Len(start))
    <3> DEFINE k == i - Len(start)
    <3>1. Len(start) \in Nat
      BY <1>1, <1>2, <1>5
    <3>2. k \in 1 .. N - t /\ new[i] = after[k]
      BY <1>1, <1>6, <2>3, <3>1
    <3>3. t + k \in (1 .. N) \ {t}
      BY <1>1, <3>2
    <3> QED BY <1>4, <3>2, <3>3
  <2> QED BY <2>1, <2>2, <2>3
<1>8. ASSUME NEW u \in (1 .. N) \ {t}
      PROVE  \E i \in 1 .. Len(new) : new[i] = fwJobs[u]
  <2>1. CASE u < t
    <3>1. u \in 1 .. Len(new) /\ new[u] = fwJobs[u]
      BY SMTT(60), <1>1, <1>2, <1>3, <1>5, <1>6, <2>1
    <3> QED BY <3>1
  <2>2. CASE ~(u < t)
    <3> DEFINE i == Len(start) + (u - t)
    <3>1. u - t \in 1 .. N - t /\ i \in 1 .. Len(new) /\ ~(i <= Len(start)) /\ i - Len(start) = u - t
      BY <1>1, <1>2, <1>5, <1>6, <2>2
    <3>2. new[i] = after[u - t] /\ after[u - t] = fwJobs[t + (u - t)] /\ t + (u - t) = u
      BY SMTT(60), <1>1, <1>4, <1>6, <3>1
    <3> QED BY <3>1, <3>2
  <2> QED BY <2>1, <2>2
<1>9. Renews(new, fwJobs, t)
  BY <1>7, <1>8 DEF Renews
<1> QED BY <1>6, <1>9 DEF Replaced, new, start, before, after

(* What becomes of the rules and of the file when request t has ended, or only others have come. *)
LEMMA RulesRenewed ==
    ASSUME NEW new, NEW jobs, NEW t, Renews(new, jobs, t), NEW list, NEW first, NEW second,
           NEW before, NEW gone, RulesFollow(jobs, list, first, second, before), before \subseteq gone,
           t \in 1 .. Len(jobs) /\ jobs[t].command = "remove" /\ jobs[t].stage = "filter" => jobs[t].port \in gone
    PROVE  RulesFollow(new, list, first, second, gone)
<1>1. ASSUME NEW i \in 1 .. Len(list)
      PROVE  /\ second[list[i]] > 0
             /\ \/ first[list[i]] > 0 \/ list[i] \in gone
                \/ \E j \in 1 .. Len(new) : new[j].command = "remove" /\ new[j].stage = "filter" /\ new[j].port = list[i]
  <2>1. /\ second[list[i]] > 0
        /\ \/ first[list[i]] > 0 \/ list[i] \in before
           \/ \E j \in 1 .. Len(jobs) : jobs[j].command = "remove" /\ jobs[j].stage = "filter" /\ jobs[j].port = list[i]
    BY <1>1 DEF RulesFollow
  <2>2. ASSUME NEW j \in 1 .. Len(jobs), jobs[j].command = "remove", jobs[j].stage = "filter", jobs[j].port = list[i]
        PROVE  \/ list[i] \in gone
               \/ \E k \in 1 .. Len(new) : new[k].command = "remove" /\ new[k].stage = "filter" /\ new[k].port = list[i]
    <3>0. CASE j = t
      BY <2>2, <3>0
    <3> SUFFICES ASSUME j # t
                 PROVE  \E k \in 1 .. Len(new) :
                            new[k].command = "remove" /\ new[k].stage = "filter" /\ new[k].port = list[i]
      BY <3>0
    <3>1. j \in (1 .. Len(jobs)) \ {t}
      BY <2>2
    <3>2. \E k \in 1 .. Len(new) : new[k] = jobs[j]
      BY <3>1 DEF Renews
    <3> QED BY <2>2, <3>2
  <2> QED BY <2>1, <2>2
<1>2. ASSUME NEW j \in 1 .. Len(new), new[j].command = "add", new[j].stage = "filter"
      PROVE  first[new[j].port] > 0
  <2>1. \E u \in (1 .. Len(jobs)) \ {t} : new[j] = jobs[u]
    BY <1>2 DEF Renews
  <2> QED BY <1>2, <2>1 DEF RulesFollow
<1> QED BY <1>1, <1>2 DEF RulesFollow

LEMMA FileRenewed ==
    ASSUME NEW new, NEW jobs, NEW t, Renews(new, jobs, t), ~Crosses(new), DOMAIN new = 1 .. Len(new),
           NEW list, NEW file, NEW lost, FileFollows(jobs, list, file, lost),
           t \in 1 .. Len(jobs) => jobs[t].stage \notin Saving
    PROVE  FileFollows(new, list, file, lost)
<1>1. ASSUME \A j \in 1 .. Len(new) : new[j].stage \notin Saving
      PROVE  lost \/ file = list
  <2>1. ASSUME NEW u \in 1 .. Len(jobs)
        PROVE  jobs[u].stage \notin Saving
    <3>1. CASE u = t
      BY <3>1
    <3>2. CASE u # t
      <4>1. \E i \in 1 .. Len(new) : new[i] = jobs[u]
        BY <3>2 DEF Renews
      <4> QED BY <1>1, <4>1
    <3> QED BY <3>1, <3>2
  <2> QED BY <2>1 DEF FileFollows
<1>2. ASSUME NEW j \in 1 .. Len(new), new[j].stage = "write"
      PROVE  /\ file = <<>>
             /\ new[j].data = list \/ lost \/ \E k \in 1 .. Len(new) : new[k].stage = "open"
             /\ \A k \in 1 .. Len(new) : new[k].stage = "write" => k = j
  <2>1. PICK u \in (1 .. Len(jobs)) \ {t} : new[j] = jobs[u]
    BY <1>2 DEF Renews
  <2>2. /\ file = <<>>
        /\ jobs[u].data = list \/ lost \/ \E k \in 1 .. Len(jobs) : jobs[k].stage = "open"
        /\ \A k \in 1 .. Len(jobs) : jobs[k].stage = "write" => k = u
    BY <1>2, <2>1 DEF FileFollows
  <2>3. ASSUME NEW k \in 1 .. Len(jobs), jobs[k].stage = "open"
        PROVE  \E i \in 1 .. Len(new) : new[i].stage = "open"
    <3>1. k \in (1 .. Len(jobs)) \ {t}
      BY <2>3 DEF Saving
    <3>2. \E i \in 1 .. Len(new) : new[i] = jobs[k]
      BY <3>1 DEF Renews
    <3> QED BY <2>3, <3>2
  <2>4. ASSUME NEW k \in 1 .. Len(new), new[k].stage = "write"
        PROVE  k = j
    <3>1. PICK v \in (1 .. Len(jobs)) \ {t} : new[k] = jobs[v]
      BY <2>4 DEF Renews
    <3>2. v = u
      BY <2>2, <2>4, <3>1
    <3> QED BY <2>1, <3>1, <3>2 DEF Crosses
  <2> QED BY <2>1, <2>2, <2>3, <2>4
<1> QED BY <1>1, <1>2 DEF FileFollows

(* The request that writes ends: the file is the list, unless another has opened it since. *)
LEMMA FileWritten ==
    ASSUME NEW new, NEW jobs, NEW t \in 1 .. Len(jobs), Renews(new, jobs, t), jobs[t].stage = "write",
           NEW list, NEW file, NEW lost, FileFollows(jobs, list, file, lost)
    PROVE  FileFollows(new, list, jobs[t].data, lost)
<1>1. /\ jobs[t].data = list \/ lost \/ \E k \in 1 .. Len(jobs) : jobs[k].stage = "open"
      /\ \A k \in 1 .. Len(jobs) : jobs[k].stage = "write" => k = t
  BY DEF FileFollows
<1>2. ASSUME NEW k \in 1 .. Len(jobs), jobs[k].stage = "open"
      PROVE  \E i \in 1 .. Len(new) : new[i].stage = "open"
  <2>1. k \in (1 .. Len(jobs)) \ {t}
    BY <1>2
  <2>2. \E i \in 1 .. Len(new) : new[i] = jobs[k]
    BY <2>1 DEF Renews
  <2> QED BY <1>2, <2>2
<1>3. ASSUME NEW j \in 1 .. Len(new)
      PROVE  new[j].stage # "write"
  <2>1. new[j].stage = "nat" \/ \E u \in (1 .. Len(jobs)) \ {t} : new[j] = jobs[u]
    BY DEF Renews
  <2> QED BY <1>1, <2>1
<1> QED BY <1>1, <1>2, <1>3 DEF FileFollows, Saving

(* The request that saves ends without: another that writes has left the file as it was opened. *)
LEMMA FileLost ==
    ASSUME NEW new, NEW jobs, NEW t \in 1 .. Len(jobs), Renews(new, jobs, t), ~Crosses(new), DOMAIN new = 1 .. Len(new),
           NEW list, NEW file, NEW lost, FileFollows(jobs, list, file, lost), NEW left,
           left = file \/ jobs[t].stage = "write"
    PROVE  FileFollows(new, list, left, TRUE)
<1> SUFFICES ASSUME NEW j \in 1 .. Len(new), new[j].stage = "write"
             PROVE  left = <<>> /\ \A k \in 1 .. Len(new) : new[k].stage = "write" => k = j
  BY DEF FileFollows
<1>1. PICK u \in (1 .. Len(jobs)) \ {t} : new[j] = jobs[u]
  BY DEF Renews
<1>2. file = <<>> /\ \A k \in 1 .. Len(jobs) : jobs[k].stage = "write" => k = u
  BY <1>1 DEF FileFollows
<1>3. left = <<>>
  BY <1>1, <1>2
<1>4. ASSUME NEW k \in 1 .. Len(new), new[k].stage = "write"
      PROVE  k = j
  <2>1. PICK v \in (1 .. Len(jobs)) \ {t} : new[k] = jobs[v]
    BY <1>4 DEF Renews
  <2>2. v = u
    BY <1>2, <1>4, <2>1
  <2> QED BY <1>1, <2>1, <2>2 DEF Crosses
<1> QED BY <1>3, <1>4

-----------------------------------------------------------------------------
(* One request goes on with its port; the others stay as they are. *)
Moves(new, jobs, t, job) ==
    /\ new \in Seq(FwJobSet) /\ Len(new) = Len(jobs) /\ new[t] = job
    /\ \A u \in (1 .. Len(jobs)) \ {t} : new[u] = jobs[u] /\ jobs[u].port # job.port

LEMMA JobMoves ==
    ASSUME NEW jobs \in Seq(FwJobSet), ~Crosses(jobs), NEW t \in 1 .. Len(jobs),
           NEW job \in FwJobSet, job.port = jobs[t].port
    PROVE  /\ Moves([jobs EXCEPT ![t] = job], jobs, t, job)
           /\ ~Crosses([jobs EXCEPT ![t] = job])
<1> DEFINE new == [jobs EXCEPT ![t] = job]
<1>1. Len(jobs) \in Nat /\ DOMAIN jobs = 1 .. Len(jobs)
  BY LenProperties
<1>2. /\ new \in Seq(FwJobSet) /\ Len(new) = Len(jobs) /\ DOMAIN new = 1 .. Len(jobs)
      /\ \A u \in 1 .. Len(jobs) : new[u] = IF u = t THEN job ELSE jobs[u]
  BY <1>1, ExceptSeq
<1> HIDE DEF new
<1>3. \A u \in 1 .. Len(jobs) : new[u].port = jobs[u].port
  BY <1>2
<1>4. \A u, v \in 1 .. Len(jobs) : u # v => jobs[u].port # jobs[v].port
  BY <1>1 DEF Crosses
<1>5. ~Crosses(new)
  BY <1>2, <1>3, <1>4 DEF Crosses
<1>6. Moves(new, jobs, t, job)
  BY <1>2, <1>4 DEF Moves
<1> QED BY <1>5, <1>6 DEF new

(* What FwGood says of the request that a step is about. *)
LEMMA FwJobIs ==
    ASSUME FwGood, NEW t \in DOMAIN fwJobs
    PROVE  /\ fwJobs \in Seq(FwJobSet) /\ t \in 1 .. Len(fwJobs) /\ fwJobs[t] \in FwJobSet
           /\ fwJobs[t].port \in Ports /\ nat \in [Ports -> Nat] /\ filter \in [Ports -> Nat]
           /\ forwarded \in Seq(Ports) /\ portsFile \in Seq(Ports) \union {NoJson}
<1>1. /\ fwJobs \in Seq(FwJobSet) /\ nat \in [Ports -> Nat] /\ filter \in [Ports -> Nat]
      /\ forwarded \in Seq(Ports) /\ portsFile \in Seq(Ports) \union {NoJson}
  BY DEF FwGood, FwTyped
<1>2. t \in 1 .. Len(fwJobs)
  BY <1>1, LenProperties
<1>3. fwJobs[t] \in FwJobSet
  BY <1>1, <1>2, ElementOfSeq
<1> QED BY <1>1, <1>2, <1>3 DEF FwJobSet

(* The first call of iptables succeeds. *)
LEMMA RulesPrerouting ==
    ASSUME NEW jobs, NEW t \in 1 .. Len(jobs), NEW new, NEW job, Moves(new, jobs, t, job),
           jobs[t].stage = "nat", job.stage = "filter", job.command = jobs[t].command, job.port \in Ports,
           job.command \in {"add", "remove"},
           NEW list \in Seq(Ports), NEW first \in [Ports -> Nat], NEW second, NEW gone,
           RulesFollow(jobs, list, first, second, gone), ~Refuses(first, job.command, job.port)
    PROVE  /\ Does(first, job.command, job.port) \in [Ports -> Nat]
           /\ RulesFollow(new, list, Does(first, job.command, job.port), second, gone)
<1> DEFINE next == Does(first, job.command, job.port)
<1>1. /\ next \in [Ports -> Nat] /\ \A p \in Ports : p # job.port => next[p] = first[p]
      /\ job.command = "add" => next[job.port] > 0
  BY DEF Does, Refuses
<1>2. \A i \in 1 .. Len(list) : list[i] \in Ports
  BY ElementOfSeq
<1> HIDE DEF next
<1>3. ASSUME NEW i \in 1 .. Len(list)
      PROVE  /\ second[list[i]] > 0
             /\ \/ next[list[i]] > 0 \/ list[i] \in gone
                \/ \E j \in 1 .. Len(new) : new[j].command = "remove" /\ new[j].stage = "filter" /\ new[j].port = list[i]
  <2>1. /\ second[list[i]] > 0
        /\ \/ first[list[i]] > 0 \/ list[i] \in gone
           \/ \E j \in 1 .. Len(jobs) : jobs[j].command = "remove" /\ jobs[j].stage = "filter" /\ jobs[j].port = list[i]
    BY <1>3 DEF RulesFollow
  <2>2. t \in 1 .. Len(new) /\ new[t] = job
    BY DEF Moves
  <2>3. CASE list[i] = job.port
    <3>1. CASE job.command = "add"
      BY <1>1, <2>1, <2>3, <3>1
    <3>2. CASE job.command = "remove"
      BY <2>1, <2>2, <2>3, <3>2
    <3> QED BY <3>1, <3>2
  <2>4. CASE list[i] # job.port
    <3>1. ASSUME NEW j \in 1 .. Len(jobs), jobs[j].command = "remove", jobs[j].stage = "filter", jobs[j].port = list[i]
          PROVE  \E k \in 1 .. Len(new) : new[k].command = "remove" /\ new[k].stage = "filter" /\ new[k].port = list[i]
      <4>1. j \in 1 .. Len(new) /\ new[j] = jobs[j]
        BY <3>1 DEF Moves
      <4> QED BY <3>1, <4>1
    <3> QED BY <1>1, <1>2, <2>1, <2>4, <3>1
  <2> QED BY <2>3, <2>4
<1>4. ASSUME NEW j \in 1 .. Len(new), new[j].command = "add", new[j].stage = "filter"
      PROVE  next[new[j].port] > 0
  <2>1. CASE j = t
    BY <1>1, <1>4, <2>1 DEF Moves
  <2>2. CASE j # t
    <3>1. j \in 1 .. Len(jobs) /\ new[j] = jobs[j] /\ jobs[j].port # job.port
      BY <2>2 DEF Moves
    <3>2. first[jobs[j].port] > 0
      BY <1>4, <3>1 DEF RulesFollow
    <3>3. new \in Seq(FwJobSet)
      BY DEF Moves
    <3>4. new[j] \in FwJobSet
      BY <1>4, <3>3, ElementOfSeq
    <3>5. jobs[j].port \in Ports
      BY <3>1, <3>4 DEF FwJobSet
    <3> QED BY <1>1, <3>1, <3>2, <3>5
  <2> QED BY <2>1, <2>2
<1>5. RulesFollow(new, list, next, second, gone)
  BY <1>3, <1>4 DEF RulesFollow
<1> QED BY <1>1, <1>5 DEF next

(* A request goes on that neither was about to write nor is. *)
LEMMA FileMoves ==
    ASSUME NEW jobs, NEW t \in 1 .. Len(jobs), NEW new, NEW job, Moves(new, jobs, t, job),
           jobs[t].stage \notin Saving, NEW list, NEW next, NEW file, NEW lost, FileFollows(jobs, list, file, lost),
           job.stage = "open" \/ (job.stage \notin Saving /\ next = list)
    PROVE  FileFollows(new, next, file, lost)
<1>1. t \in 1 .. Len(new) /\ Len(new) = Len(jobs) /\ new[t] = job /\ \A u \in (1 .. Len(jobs)) \ {t} : new[u] = jobs[u]
  BY DEF Moves
<1>2. \A j \in 1 .. Len(new) : new[j].stage = "write" => j # t /\ jobs[j].stage = "write"
  BY <1>1 DEF Saving
<1>3. ASSUME \A j \in 1 .. Len(new) : new[j].stage \notin Saving
      PROVE  lost \/ file = next
  <2>1. \A j \in 1 .. Len(jobs) : jobs[j].stage \notin Saving
    BY <1>1, <1>3
  <2>2. next = list
    BY <1>1, <1>3 DEF Saving
  <2> QED BY <2>1, <2>2 DEF FileFollows
<1>4. ASSUME NEW j \in 1 .. Len(new), new[j].stage = "write"
      PROVE  /\ file = <<>>
             /\ new[j].data = next \/ lost \/ \E k \in 1 .. Len(new) : new[k].stage = "open"
             /\ \A k \in 1 .. Len(new) : new[k].stage = "write" => k = j
  <2>1. j \in (1 .. Len(jobs)) \ {t} /\ jobs[j].stage = "write" /\ new[j] = jobs[j]
    BY <1>1, <1>2, <1>4
  <2>2. /\ file = <<>>
        /\ jobs[j].data = list \/ lost \/ \E k \in 1 .. Len(jobs) : jobs[k].stage = "open"
        /\ \A k \in 1 .. Len(jobs) : jobs[k].stage = "write" => k = j
    BY <2>1 DEF FileFollows
  <2>3. ASSUME NEW k \in 1 .. Len(jobs), jobs[k].stage = "open"
        PROVE  \E i \in 1 .. Len(new) : new[i].stage = "open"
    <3>1. k # t
      BY <2>3 DEF Saving
    <3>2. k \in 1 .. Len(new) /\ new[k] = jobs[k]
      BY <1>1, <2>3, <3>1
    <3> QED BY <2>3, <3>2
  <2>4. new[j].data = next \/ lost \/ \E k \in 1 .. Len(new) : new[k].stage = "open"
    <3>1. CASE job.stage = "open"
      BY <1>1, <3>1
    <3>2. CASE next = list
      BY <2>1, <2>2, <2>3, <3>2
    <3> QED BY <3>1, <3>2
  <2>5. \A k \in 1 .. Len(new) : new[k].stage = "write" => k = j
    BY <1>1, <1>2, <2>2
  <2> QED BY <2>2, <2>4, <2>5
<1> QED BY <1>3, <1>4 DEF FileFollows

LEMMA PreroutingStep ==
    ASSUME FwGood, NEW t \in DOMAIN fwJobs, Prerouting(t)
    PROVE  FwGood'
<1> DEFINE job == [fwJobs[t] EXCEPT !.stage = "filter"]
<1>1. /\ fwJobs \in Seq(FwJobSet) /\ t \in 1 .. Len(fwJobs) /\ fwJobs[t] \in FwJobSet
      /\ fwJobs[t].port \in Ports /\ nat \in [Ports -> Nat] /\ filter \in [Ports -> Nat]
      /\ forwarded \in Seq(Ports) /\ portsFile \in Seq(Ports) \union {NoJson}
  BY FwJobIs
<1>2. /\ job \in FwJobSet /\ job.stage = "filter" /\ job.port = fwJobs[t].port /\ job.command = fwJobs[t].command
      /\ job.command \in {"add", "remove"}
  BY <1>1 DEF FwJobSet, FwStages
<1>3. /\ fwJobs[t].stage = "nat" /\ ~Refuses(nat, job.command, job.port) /\ nat' = Does(nat, job.command, job.port)
      /\ fwJobs' = [fwJobs EXCEPT ![t] = job] /\ UNCHANGED <<forwarded, filter, portsFile, torn, unsaved>>
  BY <1>1, <1>2 DEF Prerouting
<1> HIDE DEF job
<1>4. Moves(fwJobs', fwJobs, t, job) /\ ~Crosses(fwJobs')
  BY <1>1, <1>2, <1>3, JobMoves DEF FwGood
<1>5. nat' \in [Ports -> Nat] /\ RulesFollow(fwJobs', forwarded, nat', filter, torn)
  BY <1>1, <1>2, <1>3, <1>4, RulesPrerouting DEF FwGood
<1>6. FileFollows(fwJobs', forwarded, portsFile, unsaved)
  BY <1>1, <1>2, <1>3, <1>4, FileMoves DEF FwGood, Saving
<1>7. FwTyped'
  BY <1>1, <1>3, <1>4, <1>5 DEF FwGood, FwTyped, Moves
<1> QED BY <1>3, <1>4, <1>5, <1>6, <1>7 DEF FwGood

(* The second call of iptables succeeds, and the port is listed, or is not any more. *)
LEMMA ListedIs ==
    ASSUME NEW list \in Seq(Ports), NEW job \in FwJobSet
    PROVE  /\ Listed(list, job) \in Seq(Ports)
           /\ \A i \in 1 .. Len(Listed(list, job)) :
                 \/ job.command = "add" /\ Listed(list, job)[i] = job.port
                 \/ /\ job.command = "add" \/ Listed(list, job)[i] # job.port
                    /\ \E k \in 1 .. Len(list) : Listed(list, job)[i] = list[k]
<1>1. job.port \in Ports /\ job.command \in {"add", "remove"} /\ Len(list) \in Nat
  BY LenProperties DEF FwJobSet
<1>2. CASE job.command = "add"
  <2> DEFINE next == Append(list, job.port)
  <2>1. /\ next \in Seq(Ports) /\ Len(next) = Len(list) + 1
        /\ \A i \in 1 .. Len(list) : next[i] = list[i]
        /\ next[Len(list) + 1] = job.port
    BY <1>1, AppendProperties
  <2>2. Listed(list, job) = next
    BY <1>2 DEF Listed
  <2> HIDE DEF next
  <2>3. ASSUME NEW i \in 1 .. Len(next)
        PROVE  next[i] = job.port \/ \E k \in 1 .. Len(list) : next[i] = list[k]
    <3>1. i = Len(list) + 1 \/ i \in 1 .. Len(list)
      BY <1>1, <2>1
    <3> QED BY <2>1, <3>1
  <2> QED BY <1>2, <2>1, <2>2, <2>3
<1>3. CASE job.command = "remove"
  <2> DEFINE keep == Ports \ {job.port}
             next == Filtered(list, keep)
  <2>1. Listed(list, job) = next
    BY <1>3 DEF Listed
  <2>2. /\ next \in Seq(Ports)
        /\ \A i \in 1 .. Len(next) : next[i] \in keep /\ \E k \in 1 .. Len(list) : next[i] = list[k]
    <3> HIDE DEF keep
    <3> QED BY FilteredIs, LenProperties
  <2>3. \A i \in 1 .. Len(next) : next[i] # job.port
    <3> HIDE DEF next
    <3> QED BY <2>2
  <2> HIDE DEF next
  <2> QED BY <1>3, <2>1, <2>2, <2>3
<1> QED BY <1>1, <1>2, <1>3

LEMMA RulesForward ==
    ASSUME NEW jobs, NEW t \in 1 .. Len(jobs), NEW new, NEW job \in FwJobSet, Moves(new, jobs, t, job),
           jobs[t].stage = "filter", job.stage = "open", job.command = jobs[t].command, job.port = jobs[t].port,
           NEW list \in Seq(Ports), NEW first, NEW second \in [Ports -> Nat], NEW gone,
           RulesFollow(jobs, list, first, second, gone), ~Refuses(second, job.command, job.port)
    PROVE  /\ Does(second, job.command, job.port) \in [Ports -> Nat]
           /\ RulesFollow(new, Listed(list, job), first, Does(second, job.command, job.port), gone)
<1> DEFINE next == Does(second, job.command, job.port)
           shown == Listed(list, job)
<1>1. job.port \in Ports /\ job.command \in {"add", "remove"}
  BY DEF FwJobSet
<1>2. /\ next \in [Ports -> Nat] /\ \A p \in Ports : p # job.port => next[p] = second[p]
      /\ job.command = "add" => next[job.port] > 0
  BY <1>1 DEF Does, Refuses
<1>3. \A i \in 1 .. Len(list) : list[i] \in Ports
  BY ElementOfSeq
<1>4. \A i \in 1 .. Len(shown) :
         \/ job.command = "add" /\ shown[i] = job.port
         \/ (job.command = "add" \/ shown[i] # job.port) /\ \E k \in 1 .. Len(list) : shown[i] = list[k]
  BY ListedIs
<1> HIDE DEF next, shown
<1>5. ASSUME NEW i \in 1 .. Len(shown)
      PROVE  /\ next[shown[i]] > 0
             /\ \/ first[shown[i]] > 0 \/ shown[i] \in gone
                \/ \E j \in 1 .. Len(new) : new[j].command = "remove" /\ new[j].stage = "filter" /\ new[j].port = shown[i]
  <2>1. CASE job.command = "add" /\ shown[i] = job.port
    <3>1. first[job.port] > 0
      BY <2>1 DEF RulesFollow
    <3> QED BY <1>2, <2>1, <3>1
  <2>2. ASSUME job.command = "add" \/ shown[i] # job.port, NEW k \in 1 .. Len(list), shown[i] = list[k]
        PROVE  /\ next[shown[i]] > 0
               /\ \/ first[shown[i]] > 0 \/ shown[i] \in gone
                  \/ \E j \in 1 .. Len(new) : new[j].command = "remove" /\ new[j].stage = "filter" /\ new[j].port = shown[i]
    <3>1. /\ second[list[k]] > 0
          /\ \/ first[list[k]] > 0 \/ list[k] \in gone
             \/ \E j \in 1 .. Len(jobs) : jobs[j].command = "remove" /\ jobs[j].stage = "filter" /\ jobs[j].port = list[k]
      BY <2>2 DEF RulesFollow
    <3>2. next[list[k]] > 0
      BY <1>2, <1>3, <2>2, <3>1
    <3>3. ASSUME NEW j \in 1 .. Len(jobs), jobs[j].command = "remove", jobs[j].stage = "filter", jobs[j].port = list[k]
          PROVE  \E u \in 1 .. Len(new) : new[u].command = "remove" /\ new[u].stage = "filter" /\ new[u].port = list[k]
      <4>1. j # t
        BY <2>2, <3>3
      <4>2. j \in 1 .. Len(new) /\ new[j] = jobs[j]
        BY <4>1 DEF Moves
      <4> QED BY <3>3, <4>2
    <3> QED BY <2>2, <3>1, <3>2, <3>3
  <2> QED BY <1>4, <2>1, <2>2
<1>6. ASSUME NEW j \in 1 .. Len(new), new[j].command = "add", new[j].stage = "filter"
      PROVE  first[new[j].port] > 0
  <2>1. j # t
    BY <1>6 DEF Moves
  <2>2. j \in 1 .. Len(jobs) /\ new[j] = jobs[j]
    BY <2>1 DEF Moves
  <2> QED BY <1>6, <2>2 DEF RulesFollow
<1>7. RulesFollow(new, shown, first, next, gone)
  BY <1>5, <1>6 DEF RulesFollow
<1> QED BY <1>2, <1>7 DEF next, shown

LEMMA ForwardStep ==
    ASSUME FwGood, NEW t \in DOMAIN fwJobs, Forward(t)
    PROVE  FwGood'
<1> DEFINE job == [fwJobs[t] EXCEPT !.stage = "open"]
<1>1. /\ fwJobs \in Seq(FwJobSet) /\ t \in 1 .. Len(fwJobs) /\ fwJobs[t] \in FwJobSet
      /\ fwJobs[t].port \in Ports /\ nat \in [Ports -> Nat] /\ filter \in [Ports -> Nat]
      /\ forwarded \in Seq(Ports) /\ portsFile \in Seq(Ports) \union {NoJson}
  BY FwJobIs
<1>2. job \in FwJobSet /\ job.stage = "open" /\ job.port = fwJobs[t].port /\ job.command = fwJobs[t].command
  BY <1>1 DEF FwJobSet, FwStages
<1>3. /\ fwJobs[t].stage = "filter" /\ ~Refuses(filter, job.command, job.port)
      /\ filter' = Does(filter, job.command, job.port) /\ forwarded' = Listed(forwarded, job)
      /\ fwJobs' = [fwJobs EXCEPT ![t] = job] /\ UNCHANGED <<nat, portsFile, torn, unsaved>>
  BY <1>1, <1>2 DEF Forward, Listed
<1> HIDE DEF job
<1>4. Moves(fwJobs', fwJobs, t, job) /\ ~Crosses(fwJobs')
  BY <1>1, <1>2, <1>3, JobMoves DEF FwGood
<1>5. filter' \in [Ports -> Nat] /\ RulesFollow(fwJobs', forwarded', nat, filter', torn)
  BY <1>1, <1>2, <1>3, <1>4, RulesForward DEF FwGood
<1>6. FileFollows(fwJobs', forwarded', portsFile, unsaved)
  BY <1>1, <1>2, <1>3, <1>4, FileMoves DEF FwGood, Saving
<1>7. FwTyped'
  <2>1. forwarded' \in Seq(Ports)
    BY <1>1, <1>2, <1>3, ListedIs
  <2> QED BY <1>1, <1>3, <1>4, <1>5, <2>1 DEF FwGood, FwTyped, Moves
<1> QED BY <1>3, <1>4, <1>5, <1>6, <1>7 DEF FwGood

LEMMA OpenPortsFileStep ==
    ASSUME FwGood, NEW t \in DOMAIN fwJobs, OpenPortsFile(t), \A u \in DOMAIN fwJobs : fwJobs[u].stage # "write"
    PROVE  FwGood'
<1> DEFINE job == [fwJobs[t] EXCEPT !.stage = "write", !.data = forwarded]
<1>1. /\ fwJobs \in Seq(FwJobSet) /\ t \in 1 .. Len(fwJobs) /\ fwJobs[t] \in FwJobSet
      /\ fwJobs[t].port \in Ports /\ nat \in [Ports -> Nat] /\ filter \in [Ports -> Nat]
      /\ forwarded \in Seq(Ports) /\ portsFile \in Seq(Ports) \union {NoJson}
  BY FwJobIs
<1>2. /\ job \in FwJobSet /\ job.stage = "write" /\ job.data = forwarded
      /\ job.port = fwJobs[t].port /\ job.command = fwJobs[t].command
  BY <1>1 DEF FwJobSet, FwStages
<1>3. /\ fwJobs[t].stage = "open" /\ portsFile' = <<>> /\ unsaved' = FALSE
      /\ fwJobs' = [fwJobs EXCEPT ![t] = job] /\ UNCHANGED <<forwarded, nat, filter, torn>>
  <2>1. fwJobs' = [fwJobs EXCEPT ![t].stage = "write", ![t].data = forwarded]
    BY DEF OpenPortsFile
  <2>2. [fwJobs EXCEPT ![t].stage = "write", ![t].data = forwarded] = [fwJobs EXCEPT ![t] = job]
    BY <1>1
  <2> QED BY <2>1, <2>2 DEF OpenPortsFile
<1> HIDE DEF job
<1>4. Moves(fwJobs', fwJobs, t, job) /\ ~Crosses(fwJobs')
  BY <1>1, <1>2, <1>3, JobMoves DEF FwGood
<1>5. t \in 1 .. Len(fwJobs') /\ Len(fwJobs') = Len(fwJobs) /\ fwJobs'[t] = job
      /\ \A u \in (1 .. Len(fwJobs)) \ {t} : fwJobs'[u] = fwJobs[u] /\ fwJobs[u].stage # "write"
  BY <1>1, <1>4, LenProperties DEF Moves
<1>6. FileFollows(fwJobs', forwarded, portsFile', FALSE)
  <2>1. \A j \in 1 .. Len(fwJobs') : fwJobs'[j].stage = "write" => j = t
    BY <1>5
  <2>2. fwJobs'[t].stage \in Saving /\ fwJobs'[t].data = forwarded
    BY <1>2, <1>5 DEF Saving
  <2> QED BY <1>3, <1>5, <2>1, <2>2 DEF FileFollows
<1>7. RulesFollow(fwJobs', forwarded, nat, filter, torn)
  <2>1. RulesFollow(fwJobs, forwarded, nat, filter, torn)
    BY DEF FwGood
  <2>2. \A j \in 1 .. Len(fwJobs') : fwJobs'[j].stage = "filter" => fwJobs'[j] = fwJobs[j]
    BY <1>2, <1>5
  <2>3. \A j \in 1 .. Len(fwJobs) : fwJobs[j].stage = "filter" => fwJobs'[j] = fwJobs[j]
    BY <1>3, <1>5
  <2>4. ASSUME NEW i \in 1 .. Len(forwarded)
        PROVE  /\ filter[forwarded[i]] > 0
               /\ \/ nat[forwarded[i]] > 0 \/ forwarded[i] \in torn
                  \/ \E j \in 1 .. Len(fwJobs') :
                        fwJobs'[j].command = "remove" /\ fwJobs'[j].stage = "filter" /\ fwJobs'[j].port = forwarded[i]
    BY <1>5, <2>1, <2>3 DEF RulesFollow
  <2>5. \A j \in 1 .. Len(fwJobs') :
            fwJobs'[j].command = "add" /\ fwJobs'[j].stage = "filter" => nat[fwJobs'[j].port] > 0
    BY <1>5, <2>1, <2>2 DEF RulesFollow
  <2> QED BY <2>4, <2>5 DEF RulesFollow
<1>8. FwTyped'
  BY <1>1, <1>3, <1>4, EmptySeq DEF FwTyped, Moves
<1> QED BY <1>3, <1>4, <1>6, <1>7, <1>8 DEF FwGood

-----------------------------------------------------------------------------
(* configure_forwarded_port returned, and on_put goes on. *)
LEMMA ReturnedIs ==
    ASSUME FwGood, NEW t \in DOMAIN fwJobs, Returned(t, forwarded), ~Crosses(fwJobs')
    PROVE  fwJobs' \in Seq(FwJobSet) /\ DOMAIN fwJobs' = 1 .. Len(fwJobs') /\ Renews(fwJobs', fwJobs, t)
<1> DEFINE next == IF fwJobs[t].put THEN PutGoesOn(fwJobs[t], forwarded) ELSE <<>>
<1>1. fwJobs' = Replaced(t, next)
  BY DEF Returned
<1>2. fwJobs \in Seq(FwJobSet) /\ t \in 1 .. Len(fwJobs) /\ fwJobs[t] \in FwJobSet /\ forwarded \in Seq(Ports)
  BY FwJobIs
<1>3. Beginning(next)
  <2>1. fwJobs[t] \in Putting
    BY <1>2 DEF FwJobSet, Putting
  <2>2. Beginning(PutGoesOn(fwJobs[t], forwarded))
    BY <1>2, <2>1, PutBegins
  <2> QED BY <2>2 DEF Beginning
<1> HIDE DEF next
<1>4. fwJobs' \in Seq(FwJobSet) /\ Renews(fwJobs', fwJobs, t)
  BY <1>1, <1>2, <1>3, JobReplaced
<1> QED BY <1>4, LenProperties

(* A removal that breaks off at FORWARD leaves its port torn. *)
LEMMA IptablesFailsStep ==
    ASSUME FwGood, NEW t \in DOMAIN fwJobs, IptablesFails(t), ~Crosses(fwJobs')
    PROVE  FwGood'
<1>1. fwJobs' \in Seq(FwJobSet) /\ DOMAIN fwJobs' = 1 .. Len(fwJobs') /\ Renews(fwJobs', fwJobs, t)
  BY ReturnedIs DEF IptablesFails
<1>2. t \in 1 .. Len(fwJobs) /\ fwJobs[t].stage \in {"nat", "filter"} /\ UNCHANGED <<forwarded, nat, filter, portsFile, unsaved>>
  BY FwJobIs DEF IptablesFails
<1>3. /\ torn \subseteq torn'
      /\ fwJobs[t].command = "remove" /\ fwJobs[t].stage = "filter" => fwJobs[t].port \in torn'
  BY DEF IptablesFails
<1>4. RulesFollow(fwJobs', forwarded, nat, filter, torn')
  <2>1. RulesFollow(fwJobs, forwarded, nat, filter, torn)
    BY DEF FwGood
  <2> QED BY <1>1, <1>3, <2>1, RulesRenewed
<1>5. FileFollows(fwJobs', forwarded, portsFile, unsaved)
  <2>1. fwJobs[t].stage \notin Saving /\ FileFollows(fwJobs, forwarded, portsFile, unsaved)
    BY <1>2 DEF Saving, FwGood
  <2> QED BY <1>1, <2>1, FileRenewed
<1>6. FwTyped'
  BY <1>1, <1>2 DEF FwGood, FwTyped
<1> QED BY <1>2, <1>4, <1>5, <1>6 DEF FwGood

LEMMA WritePortsFileStep ==
    ASSUME FwGood, NEW t \in DOMAIN fwJobs, WritePortsFile(t), ~Crosses(fwJobs')
    PROVE  FwGood'
<1>1. fwJobs' \in Seq(FwJobSet) /\ DOMAIN fwJobs' = 1 .. Len(fwJobs') /\ Renews(fwJobs', fwJobs, t)
  BY ReturnedIs DEF WritePortsFile
<1>2. t \in 1 .. Len(fwJobs) /\ fwJobs[t].stage = "write" /\ UNCHANGED <<forwarded, nat, filter, torn, unsaved>>
  BY FwJobIs DEF WritePortsFile
<1>3. fwJobs[t].data \in Seq(Ports) /\ portsFile' = fwJobs[t].data
  <2>1. fwJobs[t].data \in Seq(Ports)
    BY FwJobIs DEF FwJobSet
  <2>2. portsFile = <<>>
    BY <1>2 DEF FwGood, FileFollows
  <2>3. <<>> # NoJson /\ Len(<<>>) <= Len(fwJobs[t].data)
    BY <2>1, LenProperties DEF NoJson
  <2> QED BY <2>1, <2>2, <2>3 DEF WritePortsFile, Written
<1>4. RulesFollow(fwJobs', forwarded, nat, filter, torn)
  <2>1. RulesFollow(fwJobs, forwarded, nat, filter, torn) /\ fwJobs[t].stage # "filter"
    BY <1>2 DEF FwGood
  <2> QED BY <1>1, <2>1, RulesRenewed
<1>5. FileFollows(fwJobs', forwarded, portsFile', unsaved)
  <2>1. FileFollows(fwJobs, forwarded, portsFile, unsaved)
    BY DEF FwGood
  <2> QED BY <1>1, <1>2, <1>3, <2>1, FileWritten
<1>6. FwTyped'
  BY <1>1, <1>2, <1>3 DEF FwGood, FwTyped
<1> QED BY <1>2, <1>4, <1>5, <1>6 DEF FwGood

(* A save that fails leaves the file with what it held, or with nothing that can be read. *)
LEMMA SavePortsFailsStep ==
    ASSUME FwGood, NEW t \in DOMAIN fwJobs, SavePortsFails(t), ~Crosses(fwJobs')
    PROVE  FwGood'
<1>1. fwJobs' \in Seq(FwJobSet) /\ DOMAIN fwJobs' = 1 .. Len(fwJobs') /\ Renews(fwJobs', fwJobs, t)
  BY ReturnedIs DEF SavePortsFails
<1>2. /\ t \in 1 .. Len(fwJobs) /\ unsaved' = TRUE /\ UNCHANGED <<forwarded, nat, filter, torn>>
      /\ \/ fwJobs[t].stage = "open" /\ portsFile' = portsFile
         \/ fwJobs[t].stage = "write" /\ portsFile' \in {portsFile, NoJson}
  BY FwJobIs DEF SavePortsFails
<1>3. RulesFollow(fwJobs', forwarded, nat, filter, torn)
  <2>1. RulesFollow(fwJobs, forwarded, nat, filter, torn) /\ fwJobs[t].stage # "filter"
    BY <1>2 DEF FwGood
  <2> QED BY <1>1, <2>1, RulesRenewed
<1>4. FileFollows(fwJobs', forwarded, portsFile', TRUE)
  <2>1. FileFollows(fwJobs, forwarded, portsFile, unsaved)
    BY DEF FwGood
  <2> QED BY <1>1, <1>2, <2>1, FileLost
<1>5. FwTyped'
  BY <1>1, <1>2 DEF FwGood, FwTyped
<1> QED BY <1>2, <1>3, <1>4, <1>5 DEF FwGood

LEMMA FwBeginsStep ==
    ASSUME FwGood, NEW next, Beginning(next), FwBegins(next), ~Crosses(fwJobs')
    PROVE  FwGood'
<1>1. fwJobs \in Seq(FwJobSet) /\ fwJobs' = fwJobs \o next /\ UNCHANGED <<forwarded, nat, filter, portsFile, torn, unsaved>>
  BY DEF FwGood, FwTyped, FwBegins
<1>2. fwJobs' \in Seq(FwJobSet) /\ Renews(fwJobs', fwJobs, 0)
  BY <1>1, JobAdded
<1>3. DOMAIN fwJobs' = 1 .. Len(fwJobs') /\ 0 \notin 1 .. Len(fwJobs)
  BY <1>1, <1>2, LenProperties
<1>4. RulesFollow(fwJobs', forwarded, nat, filter, torn)
  <2>1. RulesFollow(fwJobs, forwarded, nat, filter, torn)
    BY DEF FwGood
  <2> QED BY <1>2, <1>3, <2>1, RulesRenewed
<1>5. FileFollows(fwJobs', forwarded, portsFile, unsaved)
  <2>1. FileFollows(fwJobs, forwarded, portsFile, unsaved)
    BY DEF FwGood
  <2> QED BY <1>2, <1>3, <2>1, FileRenewed
<1>6. FwTyped'
  BY <1>1, <1>2 DEF FwGood, FwTyped
<1> QED BY <1>1, <1>4, <1>5, <1>6 DEF FwGood

LEMMA PortsPut ==
    ASSUME FwGood, NEW want \in PortLists
    PROVE  Beginning(PutGoesOn(FwJob("add", "", TRUE, want), forwarded))
<1> DEFINE job == FwJob("add", "", TRUE, want)
<1>1. want \in Seq(Ports) /\ forwarded \in Seq(Ports)
  BY FirewallAssumption DEF FwGood, FwTyped
<1>2. job \in Putting
  BY <1>1, EmptySeq DEF FwJob, Putting, FwStages
<1> HIDE DEF job
<1>3. Beginning(PutGoesOn(job, forwarded))
  BY <1>1, <1>2, PutBegins
<1> QED BY <1>3 DEF job

LEMMA OnePort ==
    ASSUME NEW p \in Ports, NEW command \in {"add", "remove"}
    PROVE  Beginning(<<FwJob(command, p, FALSE, <<>>)>>)
<1> DEFINE job == FwJob(command, p, FALSE, <<>>)
<1>1. job \in FwJobSet /\ job.stage = "nat"
  BY EmptySeq DEF FwJob, FwJobSet, FwStages
<1> HIDE DEF job
<1>2. Beginning(<<job>>)
  BY <1>1 DEF Beginning
<1> QED BY <1>2 DEF job

LEMMA LoadForwardedPortsStep ==
    ASSUME FwGood, LoadForwardedPorts, fwJobs = <<>>, ~unsaved
    PROVE  FwGood'
<1>1. Len(fwJobs) = 0 /\ fwJobs' = <<>> /\ forwarded \in Seq(Ports)
  BY EmptySeq DEF LoadForwardedPorts, FwGood, FwTyped
<1>2. portsFile = forwarded
  BY <1>1 DEF FwGood, FileFollows
<1>3. forwarded # NoJson
  <2> SUFFICES ASSUME forwarded = NoJson
               PROVE  FALSE
    OBVIOUS
  <2>1. forwarded = <<"no JSON">>
    BY DEF NoJson
  <2>2. Len(<<"no JSON">>) = 1 /\ <<"no JSON">>[1] = "no JSON" /\ 1 \in 1 .. 1
    OBVIOUS
  <2>3. forwarded[1] \in Ports
    <3> DEFINE list == <<"no JSON">>
    <3>1. list \in Seq(Ports) /\ 1 \in 1 .. Len(list) /\ forwarded = list
      BY <1>1, <2>1, <2>2
    <3> HIDE DEF list
    <3> QED BY <3>1, ElementOfSeq
  <2>4. "no JSON" \notin Ports
    BY FirewallAssumption
  <2> QED BY <2>1, <2>2, <2>3, <2>4
<1>4. forwarded' = forwarded /\ UNCHANGED <<nat, filter, portsFile, fwJobs, torn, unsaved>>
  BY <1>1, <1>2, <1>3 DEF LoadForwardedPorts
<1> QED BY <1>4 DEF FwGood, FwTyped

LEMMA FwTaskStep ==
    ASSUME FwInv, NEW t \in DOMAIN fwJobs,
           \/ Prerouting(t) \/ Forward(t) \/ IptablesFails(t)
           \/ OpenPortsFile(t) \/ WritePortsFile(t) \/ SavePortsFails(t)
    PROVE  FwInv'
<1>1. CASE Prerouting(t)
  BY <1>1, PreroutingStep DEF FwInv, Prerouting
<1>2. CASE Forward(t)
  BY <1>2, ForwardStep DEF FwInv, Forward
<1>3. CASE IptablesFails(t)
  <2>1. crossed' = (crossed \/ Crosses(fwJobs'))
    BY <1>3 DEF IptablesFails, Returned
  <2> QED BY <1>3, <2>1, IptablesFailsStep DEF FwInv
<1>4. CASE OpenPortsFile(t)
  <2>1. crossed' = (crossed \/ \E u \in DOMAIN fwJobs : fwJobs[u].stage = "write")
    BY <1>4 DEF OpenPortsFile
  <2> QED BY <1>4, <2>1, OpenPortsFileStep DEF FwInv
<1>5. CASE WritePortsFile(t)
  <2>1. crossed' = (crossed \/ Crosses(fwJobs'))
    BY <1>5 DEF WritePortsFile, Returned
  <2> QED BY <1>5, <2>1, WritePortsFileStep DEF FwInv
<1>6. CASE SavePortsFails(t)
  <2>1. crossed' = (crossed \/ Crosses(fwJobs'))
    BY <1>6 DEF SavePortsFails, Returned
  <2> QED BY <1>6, <2>1, SavePortsFailsStep DEF FwInv
<1> QED BY <1>1, <1>2, <1>3, <1>4, <1>5, <1>6

LEMMA FwBegunStep ==
    ASSUME FwInv, NEW next, FwBegins(next), FwGood => Beginning(next)
    PROVE  FwInv'
<1>1. crossed' = (crossed \/ Crosses(fwJobs'))
  BY DEF FwBegins
<1> QED BY <1>1, FwBeginsStep DEF FwInv

LEMMA FwStart ==
    ASSUME FirewallInit
    PROVE  FwInv
<1>1. Len(<<>>) = 0 /\ DOMAIN <<>> = 1 .. 0
  OBVIOUS
<1>2. FwTyped
  <2>1. <<>> \in Seq(FwJobSet) /\ <<>> \in Seq(Ports)
    BY EmptySeq
  <2>2. NoRules \in [Ports -> Nat]
    BY DEF NoRules
  <2> QED BY <2>1, <2>2 DEF FirewallInit, FwTyped
<1>3. ~Crosses(<<>>) /\ RulesFollow(<<>>, <<>>, nat, filter, torn) /\ FileFollows(<<>>, <<>>, <<>>, FALSE)
  BY <1>1 DEF Crosses, RulesFollow, FileFollows
<1> QED BY <1>2, <1>3 DEF FirewallInit, FwInv, FwGood

(* A port that the program lists has its rule in FORWARD, and in PREROUTING unless its  *)
(* removal broke off between the two, and the file holds the list unless a save failed, *)
(* once no request is left: for any ports, any number of requests, calls of iptables    *)
(* and saves that fail, and restarts, as long as no two requests met and no list was    *)
(* read that a save had failed to replace.                                              *)
THEOREM PortsForwarded == FirewallSpec => []ListedIsForwarded
<1>1. FwInv /\ [FirewallNext]_firewall => FwInv'
  <2> SUFFICES ASSUME FwInv, [FirewallNext]_firewall
               PROVE  FwInv'
    OBVIOUS
  <2>1. CASE UNCHANGED firewall
    BY <2>1 DEF firewall, FwInv, FwGood, FwTyped
  <2>2. ASSUME NEW p \in Ports, AddForwardPort(p) \/ RemoveForwardPort(p)
        PROVE  FwInv'
    <3>1. PICK next \in {<<>>, <<FwJob("add", p, FALSE, <<>>)>>, <<FwJob("remove", p, FALSE, <<>>)>>} : FwBegins(next)
      BY <2>2 DEF AddForwardPort, RemoveForwardPort
    <3>2. Beginning(next)
      <4>1. Beginning(<<>>)
        BY DEF Beginning
      <4> QED BY <3>1, <4>1, OnePort
    <3> QED BY <3>1, <3>2, FwBegunStep
  <2>3. ASSUME NEW want \in PortLists, PutForwardedPorts(want)
        PROVE  FwInv'
    <3>1. FwGood => Beginning(PutGoesOn(FwJob("add", "", TRUE, want), forwarded))
      BY PortsPut
    <3>2. FwBegins(PutGoesOn(FwJob("add", "", TRUE, want), forwarded))
      BY <2>3 DEF PutForwardedPorts
    <3> QED BY <3>1, <3>2, FwBegunStep
  <2>4. CASE LoadForwardedPorts
    <3>1. crossed' = (crossed \/ fwJobs # <<>> \/ unsaved)
      BY <2>4 DEF LoadForwardedPorts
    <3> QED BY <2>4, <3>1, LoadForwardedPortsStep DEF FwInv
  <2> QED BY <2>1, <2>2, <2>3, <2>4, FwTaskStep DEF FirewallNext
<1>2. FwInv => ListedIsForwarded
  <2> SUFFICES ASSUME FwInv, fwJobs = <<>>, ~crossed
               PROVE  /\ ~unsaved => portsFile = forwarded
                      /\ \A p \in ToSet(forwarded) : filter[p] > 0 /\ (p \notin torn => nat[p] > 0)
    BY DEF ListedIsForwarded
  <2>1. FwGood /\ Len(fwJobs) = 0 /\ forwarded \in Seq(Ports)
    BY EmptySeq DEF FwInv, FwGood, FwTyped
  <2>2. ~unsaved => portsFile = forwarded
    BY <2>1 DEF FwGood, FileFollows
  <2>3. \A i \in 1 .. Len(forwarded) :
            filter[forwarded[i]] > 0 /\ (forwarded[i] \notin torn => nat[forwarded[i]] > 0)
    BY <2>1 DEF FwGood, RulesFollow
  <2>4. \A p \in ToSet(forwarded) : \E i \in 1 .. Len(forwarded) : p = forwarded[i]
    BY <2>1, LenProperties DEF ToSet
  <2> QED BY <2>2, <2>3, <2>4
<1> QED BY <1>1, <1>2, FwStart, PTL DEF FirewallSpec
=============================================================================
