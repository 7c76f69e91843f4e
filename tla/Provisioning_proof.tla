-------------------------- MODULE Provisioning_proof --------------------------
(***************************************************************************)
(* For any number of clients, whatever they upload and wherever the        *)
(* service crashes: a device that says it is provisioned has a             *)
(* certificate, and is fully provisioned only after its time was set.      *)
(***************************************************************************)
EXTENDS Provisioning, FiniteSetTheorems, TLAPS

(* The state only says so in the step that moves the certificate there; no *)
(* step removes a certificate.                                             *)
THEOREM CertWhenProvisioned == Spec => []ProvisionedHasCert
<1>1. Init => ProvisionedHasCert
  BY DEF Init, ProvisionedHasCert, Level, Torn, Unprovisioned
<1>2. ProvisionedHasCert /\ [Next]_vars => ProvisionedHasCert'
  <2> SUFFICES ASSUME ProvisionedHasCert, [Next]_vars
               PROVE  ProvisionedHasCert'
    OBVIOUS
  <2> USE DEF ProvisionedHasCert, Level, Torn, Unprovisioned
  <2>1. CASE UNCHANGED <<file, cert>>
    BY <2>1
  <2>2. ASSUME NEW c \in Clients, Saved(c)
        PROVE  ProvisionedHasCert'
    BY <2>2 DEF Saved
  <2>3. ASSUME NEW c \in Clients, TimeSet(c)
        PROVE  ProvisionedHasCert'
    BY <2>3 DEF TimeSet, files, PartiallyProvisioned
  <2>4. ASSUME NEW c \in Clients, CrashInSave(c)
        PROVE  ProvisionedHasCert'
    BY <2>4 DEF CrashInSave
  <2>5. ASSUME NEW c \in Clients, CrashInWrite(c)
        PROVE  ProvisionedHasCert'
    BY <2>5 DEF CrashInWrite
  <2>6. ASSUME NEW c \in Clients, Step(c), ~Saved(c), ~TimeSet(c)
        PROVE  UNCHANGED <<file, cert>>
    <3>1. CASE Post(c) \/ PostUpload(c) \/ Generate(c) \/ KeyMade(c) \/ CsrMade(c)
      BY <3>1 DEF Post, PostUpload, Generate, KeyMade, CsrMade, files
    <3>2. CASE CsrOpened(c) \/ CsrSent(c) \/ PostFails(c)
      BY <3>2 DEF CsrOpened, CsrSent, PostFails, files
    <3>3. ASSUME NEW good \in BOOLEAN, Put(c, good)
          PROVE  UNCHANGED <<file, cert>>
      BY <3>3 DEF Put, files
    <3>4. CASE PutUpload(c) \/ PutUploaded(c) \/ Verified(c) \/ PutFails(c)
      BY <3>4 DEF PutUpload, PutUploaded, Verified, PutFails, files
    <3>5. ASSUME NEW time \in Times, SetTime(c, time)
          PROVE  UNCHANGED <<file, cert>>
      BY <3>5 DEF SetTime, files
    <3>6. CASE TimeFails(c)
      BY <3>6 DEF TimeFails, files
    <3> QED BY <2>6, <3>1, <3>2, <3>3, <3>4, <3>5, <3>6 DEF Step
  <2>7. CASE Restart \/ RestartFails \/ Crash \/ UNCHANGED vars
    <3>1. UNCHANGED <<file, cert>>
      BY <2>7 DEF Restart, RestartFails, Crash, files, vars
    <3> QED BY <3>1
  <2> QED BY <2>1, <2>2, <2>3, <2>4, <2>5, <2>6, <2>7 DEF Next
<1> QED BY <1>1, <1>2, PTL DEF Spec

-----------------------------------------------------------------------------
(* A time that waits to be set has been validated. *)
TimesValidated ==
    /\ DOMAIN req = Clients
    /\ \A c \in Clients : "at" \in DOMAIN req[c]
    /\ \A c \in Clients : req[c].at = "time" => req[c].time = "inside"

TimeInv == TimesValidated /\ FullMeansTimeSet

(* Where requests to set the time give it as a number: the request that makes the *)
(* device fully provisioned has set the time to one that was validated before it  *)
(* suspended, however many requests were let in meanwhile.                        *)
THEOREM TimeWhenFull ==
    ASSUME Times \subseteq {"inside", "outside"}
    PROVE  Spec => []FullMeansTimeSet
<1> USE DEF TimesValidated, FullMeansTimeSet, Level, Torn, Unprovisioned, PartiallyProvisioned,
            FullyProvisioned
<1>1. Init => TimeInv
  BY DEF Init, TimeInv, NoRequest
<1>2. TimeInv /\ [Next]_vars => TimeInv'
  <2> SUFFICES ASSUME TimeInv, [Next]_vars
               PROVE  TimeInv'
    OBVIOUS
  <2> USE DEF TimeInv
  <2>1. ASSUME NEW c \in Clients, NEW time \in Times, SetTime(c, time)
        PROVE  TimeInv'
    <3>1. time = "inside"
      BY <2>1 DEF SetTime, Validated
    <3>2. TimesValidated'
      BY <2>1, <3>1 DEF SetTime
    <3> QED BY <2>1, <3>2 DEF SetTime
  <2>2. ASSUME NEW c \in Clients, TimeSet(c)
        PROVE  TimeInv'
    <3>1. TimesValidated'
      BY <2>2 DEF TimeSet, Ends, NoRequest
    <3>2. clock' = "checked"
      BY <2>2 DEF TimeSet, Ends, ClockAfter
    <3> QED BY <3>1, <3>2
  <2>3. ASSUME NEW c \in Clients, Saved(c)
        PROVE  TimeInv'
    BY <2>3 DEF Saved, Ends, NoRequest
  <2>4. ASSUME NEW c \in Clients, CrashInSave(c) \/ CrashInWrite(c)
        PROVE  TimeInv'
    BY <2>4 DEF CrashInSave, CrashInWrite, Starts, NoRequest
  <2>5. ASSUME NEW c \in Clients, Step(c), ~Saved(c), ~TimeSet(c),
               \A time \in Times : ~SetTime(c, time)
        PROVE  TimeInv'
    <3>1. ASSUME UNCHANGED <<file, clock>>, DOMAIN req' = Clients,
                 \A d \in Clients : "at" \in DOMAIN req'[d],
                 \A d \in Clients : req'[d].at = "time" => req'[d] = req[d]
          PROVE  TimeInv'
      BY <3>1
    <3>2. CASE Post(c) \/ PostUpload(c) \/ Generate(c)
      BY <3>1, <3>2 DEF Post, PostUpload, Generate, Goes
    <3>3. CASE KeyMade(c) \/ CsrMade(c) \/ CsrOpened(c)
      BY <3>1, <3>3 DEF KeyMade, CsrMade, CsrOpened, Goes
    <3>4. CASE CsrSent(c) \/ PostFails(c) \/ PutFails(c) \/ TimeFails(c)
      BY <3>1, <3>4 DEF CsrSent, PostFails, PutFails, TimeFails, Ends, NoRequest
    <3>5. ASSUME NEW good \in BOOLEAN, Put(c, good)
          PROVE  TimeInv'
      BY <3>1, <3>5 DEF Put
    <3>6. CASE PutUpload(c) \/ PutUploaded(c) \/ Verified(c)
      BY <3>1, <3>6 DEF PutUpload, PutUploaded, Verified, Goes
    <3> QED BY <2>5, <3>2, <3>3, <3>4, <3>5, <3>6 DEF Step
  <2>6. CASE Restart \/ Crash
    BY <2>6 DEF Restart, Crash, Starts, NoRequest
  <2>7. CASE RestartFails \/ UNCHANGED vars
    BY <2>7 DEF RestartFails, vars
  <2> QED BY <2>1, <2>2, <2>3, <2>4, <2>5, <2>6, <2>7 DEF Next
<1>3. TimeInv => FullMeansTimeSet
  BY DEF TimeInv
<1> QED BY <1>1, <1>2, <1>3, PTL DEF Spec

-----------------------------------------------------------------------------
(***************************************************************************)
(* One client.                                                             *)
(***************************************************************************)
Making == {"post", "config", "openssl"}
Signing == {"req", "open", "stream"}
Storing == {"put", "cert", "verify", "save"}
Requests == [at : {"none", "time"} \cup Making \cup Signing \cup Storing, key : Nat,
             good : BOOLEAN, time : {"none"} \cup Times]

Shape ==
    /\ file \in Levels \cup {Torn} /\ mode \in Levels
    /\ key \in 0..keys /\ csr \in 0..keys /\ keys \in 0..MaxKeys
    /\ {cert, temporary} \subseteq [key : {-1} \cup 0..keys, good : BOOLEAN]
    /\ config \in BOOLEAN /\ restarting \in {"no", "due", "failed"}
    /\ clock \in {"unset", "checked", "unchecked"}
    /\ req \in [Clients -> Requests]
    /\ got \in [Clients -> 0..keys]
    /\ \A c \in Clients : req[c].key \in 0..keys

(* What the request of the only client knows where it is suspended: that nothing is  *)
(* provisioned yet, and that the key, the signing request and the temporary file are *)
(* the ones it made.  This is what a second client breaks.                           *)
Undisturbed ==
    \A c \in Clients :
        /\ got[c] # 0 => got[c] = key
        /\ req[c].at \in Making => keys < MaxKeys
        /\ req[c].at \in Making \cup Signing \cup Storing => Level = Unprovisioned
        /\ req[c].at \in Making \cup Signing => got[c] = 0
        /\ req[c].at = "req" => key # 0 /\ req[c].key \in {0, key}
        /\ req[c].at \in {"open", "stream"} => key # 0 /\ csr = key
        /\ req[c].at \in Storing => got[c] # 0 /\ req[c].key = got[c]
        /\ req[c].at = "cert" => temporary = Part
        /\ req[c].at \in {"verify", "save"} =>
               temporary = [key |-> req[c].key, good |-> req[c].good]
        /\ req[c].at = "save" => temporary.good

CertInv == Shape /\ Undisturbed /\ KeyMatchesCert /\ InstalledIsVerified

LEMMA GoesStep ==
    ASSUME Shape, NEW c \in Clients, NEW from, NEW to \in Making \cup Signing \cup Storing,
           Goes(c, from, to)
    PROVE  /\ req' \in [Clients -> Requests]
           /\ req[c] \in Requests /\ req[c].at = from
           /\ req'[c] = [at |-> to, key |-> req[c].key, good |-> req[c].good, time |-> req[c].time]
           /\ \A d \in Clients : req'[d].key \in 0..keys
BY DEF Goes, Shape, Requests

LEMMA EndsStep ==
    ASSUME Shape, NEW c \in Clients, NEW from, Ends(c, from)
    PROVE  /\ req' \in [Clients -> Requests]
           /\ req[c] \in Requests /\ req[c].at \in from
           /\ req'[c] = NoRequest
           /\ \A d \in Clients : req'[d].key \in 0..keys
<1>1. keys \in Nat
  BY FaultsAssumption DEF Shape
<1>2. 0 \in 0..keys
  BY <1>1
<1> QED BY <1>2 DEF Ends, Shape, Requests, NoRequest

LEMMA StartsStep ==
    ASSUME Shape, Starts
    PROVE  /\ req' \in [Clients -> Requests]
           /\ \A c \in Clients : req'[c].at = "none" /\ req'[c].key = 0
           /\ restarting' = "no"
BY DEF Starts, Shape, Requests, NoRequest

LEMMA LevelType == Shape => Level \in Levels /\ mode \in Levels
BY DEF Shape, Level, Levels, Torn, Unprovisioned

LEMMA CertInit ==
    ASSUME NEW c, Clients = {c}, Init
    PROVE  CertInv
<1> USE DEF Init, NoRequest, NoCert, Levels, Torn, Unprovisioned
<1>1. Shape
  <2>1. 0 \in Nat /\ 0 \in 0..0 /\ keys = 0 /\ keys \in 0..MaxKeys
    BY FaultsAssumption
  <2>2. req \in [Clients -> Requests] /\ \A d \in Clients : req[d].key = 0
    BY <2>1 DEF Requests
  <2>3. {cert, temporary} \subseteq [key : {-1} \cup 0..keys, good : BOOLEAN]
    BY <2>1
  <2>4. got \in [Clients -> 0..keys] /\ key \in 0..keys /\ csr \in 0..keys
    BY <2>1
  <2> QED BY <2>1, <2>2, <2>3, <2>4 DEF Shape
<1>2. Undisturbed
  BY DEF Undisturbed, Making, Signing, Storing
<1> QED BY <1>1, <1>2 DEF CertInv, KeyMatchesCert, InstalledIsVerified, Level

LEMMA PostStep ==
    ASSUME NEW c, Clients = {c}, CertInv,
           Post(c) \/ PostUpload(c) \/ Generate(c) \/ KeyMade(c)
    PROVE  CertInv'
<1> USE DEF CertInv, files, Making, Signing, Storing
<1>1. CASE Post(c)
  <2>1. CASE Level = Unprovisioned
    <3>1. Goes(c, "none", "post")
      BY <1>1, <2>1 DEF Post
    <3>2. Shape'
      BY <1>1, <3>1, GoesStep DEF Post, Shape
    <3>3. Undisturbed'
      BY <1>1, <2>1, <3>1, GoesStep DEF Post, Undisturbed, Shape, Level
    <3> QED BY <1>1, <3>2, <3>3 DEF Post, KeyMatchesCert, InstalledIsVerified, Level
  <2>2. CASE Level # Unprovisioned
    <3>1. got' \in [Clients -> 0..keys]
      <4>1. 0 \in 0..keys
        BY FaultsAssumption DEF Shape
      <4> QED BY <1>1, <4>1 DEF Post, Shape
    <3>2. Shape'
      BY <1>1, <2>2, <3>1 DEF Post, Shape
    <3>3. Undisturbed'
      BY <1>1, <2>2 DEF Post, Undisturbed, Shape, NoRequest
    <3> QED BY <1>1, <2>2, <3>2, <3>3 DEF Post, KeyMatchesCert, InstalledIsVerified, Level
  <2> QED BY <2>1, <2>2
<1>2. CASE PostUpload(c)
  <2>1. Shape'
    BY <1>2, GoesStep DEF PostUpload, Shape
  <2>2. Undisturbed'
    BY <1>2, GoesStep DEF PostUpload, Undisturbed, Level
  <2> QED BY <1>2, <2>1, <2>2 DEF PostUpload, KeyMatchesCert, InstalledIsVerified, Level
<1>3. CASE Generate(c)
  <2>1. Shape'
    BY <1>3, GoesStep DEF Generate, Shape
  <2>2. Level = Unprovisioned /\ got[c] = 0 /\ got' = got /\ file' = file
    BY <1>3, GoesStep DEF Generate, Undisturbed
  <2>3. Undisturbed'
    BY <1>3, <2>2, GoesStep DEF Generate, Undisturbed, Level
  <2> QED BY <1>3, <2>1, <2>2, <2>3 DEF Generate, KeyMatchesCert, InstalledIsVerified, Level
<1>4. CASE KeyMade(c)
  <2>1. PICK own \in {keys', 0} : req' = [req EXCEPT ![c].at = "req", ![c].key = own]
    BY <1>4 DEF KeyMade
  <2>2. /\ Level = Unprovisioned /\ got[c] = 0 /\ keys < MaxKeys
        /\ keys' = keys + 1 /\ key' = keys + 1 /\ file' = file /\ got' = got
    BY <1>4 DEF KeyMade, Undisturbed
  <2>3. /\ req[c] \in Requests /\ req' \in [Clients -> Requests]
        /\ req'[c] = [at |-> "req", key |-> own, good |-> req[c].good, time |-> req[c].time]
    <3>1. req[c] \in Requests /\ own \in Nat
      BY <2>1, <2>2, FaultsAssumption DEF Shape
    <3> QED BY <2>1, <3>1 DEF Shape, Requests
  <2>4. keys \in 0..MaxKeys /\ keys' \in 0..MaxKeys /\ key' \in 0..keys' /\ own \in 0..keys'
    BY <2>2, FaultsAssumption DEF Shape
  <2>5. 0..keys \subseteq 0..keys'
    BY <2>2, <2>4
  <2>6. Shape'
    BY <1>4, <2>2, <2>3, <2>4, <2>5 DEF KeyMade, Shape
  <2>7. Undisturbed'
    BY <2>2, <2>3, <2>4 DEF Undisturbed, Level
  <2> QED BY <1>4, <2>2, <2>6, <2>7 DEF KeyMade, KeyMatchesCert, InstalledIsVerified, Level
<1> QED BY <1>1, <1>2, <1>3, <1>4

LEMMA CsrStep ==
    ASSUME NEW c, Clients = {c}, CertInv,
           CsrMade(c) \/ CsrOpened(c) \/ CsrSent(c) \/ PostFails(c)
    PROVE  CertInv'
<1> USE DEF CertInv, files, Making, Signing, Storing
<1>1. CASE CsrMade(c)
  <2>1. key # 0 /\ csr' = key
    BY <1>1, GoesStep DEF CsrMade, Undisturbed
  <2>2. Shape'
    BY <1>1, <2>1, GoesStep DEF CsrMade, Shape
  <2>3. Undisturbed'
    BY <1>1, <2>1, GoesStep DEF CsrMade, Undisturbed, Level
  <2> QED BY <1>1, <2>2, <2>3 DEF CsrMade, KeyMatchesCert, InstalledIsVerified, Level
<1>2. CASE CsrOpened(c)
  <2>1. Shape'
    BY <1>2, GoesStep DEF CsrOpened, Shape
  <2>2. Undisturbed'
    BY <1>2, GoesStep DEF CsrOpened, Undisturbed, Level
  <2> QED BY <1>2, <2>1, <2>2 DEF CsrOpened, KeyMatchesCert, InstalledIsVerified, Level
<1>3. CASE CsrSent(c)
  <2>1. csr = key
    BY <1>3, EndsStep DEF CsrSent, Undisturbed
  <2>2. Shape'
    BY <1>3, EndsStep DEF CsrSent, Shape
  <2>3. Undisturbed'
    BY <1>3, <2>1, EndsStep DEF CsrSent, Undisturbed, Shape, NoRequest
  <2> QED BY <1>3, <2>2, <2>3 DEF CsrSent, KeyMatchesCert, InstalledIsVerified, Level
<1>4. CASE PostFails(c)
  <2>1. Shape'
    BY <1>4, EndsStep DEF PostFails, Shape
  <2>2. Undisturbed'
    BY <1>4, EndsStep DEF PostFails, Undisturbed, NoRequest
  <2> QED BY <1>4, <2>1, <2>2 DEF PostFails, KeyMatchesCert, InstalledIsVerified, Level
<1> QED BY <1>1, <1>2, <1>3, <1>4

LEMMA PutStep ==
    ASSUME NEW c, Clients = {c}, CertInv,
           \/ \E good \in BOOLEAN : Put(c, good)
           \/ PutUpload(c) \/ PutUploaded(c) \/ Verified(c) \/ PutFails(c) \/ Saved(c)
    PROVE  CertInv'
<1> USE DEF CertInv, files, Making, Signing, Storing
<1>1. ASSUME NEW good \in BOOLEAN, Put(c, good)
      PROVE  CertInv'
  <2>1. /\ req' \in [Clients -> Requests]
        /\ req'[c] = [at |-> "put", key |-> got[c], good |-> good, time |-> "none"]
    <3>1. got[c] \in Nat
      BY FaultsAssumption DEF Shape
    <3>2. req[c].time = "none"
      <4>1. req[c] = NoRequest
        BY <1>1 DEF Put
      <4> QED BY <4>1 DEF NoRequest
    <3> QED BY ZenonT(60), <1>1, <3>1, <3>2 DEF Put, Shape, Requests
  <2>2. /\ Level = Unprovisioned /\ got[c] # 0 /\ got[c] \in 0..keys
        /\ UNCHANGED <<file, mode, key, csr, cert, temporary, config, restarting, clock, keys, got>>
    BY <1>1 DEF Put, Shape
  <2>3. Shape'
    <3>1. \A d \in Clients : req'[d].key \in 0..keys
      BY <2>1, <2>2
    <3> QED BY <2>1, <2>2, <3>1 DEF Shape
  <2>4. Undisturbed'
    BY <2>1, <2>2 DEF Undisturbed, Level
  <2> QED BY <2>2, <2>3, <2>4 DEF KeyMatchesCert, InstalledIsVerified, Level
<1>2. CASE PutUpload(c)
  <2>1. Shape'
    BY <1>2, GoesStep DEF PutUpload, Shape, Part
  <2>2. Undisturbed'
    BY <1>2, GoesStep DEF PutUpload, Undisturbed, Level
  <2> QED BY <1>2, <2>1, <2>2 DEF PutUpload, KeyMatchesCert, InstalledIsVerified, Level
<1>3. CASE PutUploaded(c)
  <2>1. /\ req[c] \in Requests /\ req[c].key \in 0..keys
        /\ temporary' = [key |-> req[c].key, good |-> req[c].good]
    BY <1>3, GoesStep DEF PutUploaded, Undisturbed, Part, NoCert, Shape
  <2>2. temporary' \in [key : {-1} \cup 0..keys, good : BOOLEAN]
    BY <2>1 DEF Requests
  <2>3. Shape'
    BY <1>3, <2>2, GoesStep DEF PutUploaded, Shape
  <2>4. Undisturbed'
    BY <1>3, <2>1, GoesStep DEF PutUploaded, Undisturbed, Level
  <2> QED BY <1>3, <2>3, <2>4 DEF PutUploaded, KeyMatchesCert, InstalledIsVerified, Level
<1>4. CASE Verified(c)
  <2>1. Shape'
    BY <1>4, GoesStep DEF Verified, Shape
  <2>2. Undisturbed'
    BY <1>4, GoesStep DEF Verified, Undisturbed, Level
  <2> QED BY <1>4, <2>1, <2>2 DEF Verified, KeyMatchesCert, InstalledIsVerified, Level
<1>5. CASE PutFails(c)
  <2>1. Shape'
    BY <1>5, EndsStep DEF PutFails, Shape
  <2>2. Undisturbed'
    BY <1>5, EndsStep DEF PutFails, Undisturbed, NoRequest
  <2> QED BY <1>5, <2>1, <2>2 DEF PutFails, KeyMatchesCert, InstalledIsVerified, Level
<1>6. CASE Saved(c)
  <2>1. /\ temporary.good /\ temporary.key = key /\ key # 0
        /\ cert' = temporary /\ key' = key
    BY <1>6, EndsStep DEF Saved, Undisturbed, Shape
  <2>2. Shape'
    BY <1>6, EndsStep DEF Saved, Shape, NoCert, Levels
  <2>3. Undisturbed'
    BY <1>6, EndsStep DEF Saved, Undisturbed, NoRequest
  <2> QED BY <2>1, <2>2, <2>3 DEF KeyMatchesCert, InstalledIsVerified
<1> QED BY <1>1, <1>2, <1>3, <1>4, <1>5, <1>6

LEMMA TimeStep ==
    ASSUME NEW c, Clients = {c}, CertInv,
           (\E time \in Times : SetTime(c, time)) \/ TimeSet(c) \/ TimeFails(c)
    PROVE  CertInv'
<1> USE DEF CertInv, files, Making, Signing, Storing
<1>1. ASSUME NEW time \in Times, SetTime(c, time)
      PROVE  CertInv'
  <2>1. /\ req' \in [Clients -> Requests]
        /\ req'[c] = [at |-> "time", key |-> 0, good |-> FALSE, time |-> time]
    <3>1. req[c].key = 0 /\ req[c].good = FALSE
      <4>1. req[c] = NoRequest
        BY <1>1 DEF SetTime
      <4> QED BY <4>1 DEF NoRequest
    <3> QED BY ZenonT(60), <1>1, <3>1 DEF SetTime, Shape, Requests
  <2>2. UNCHANGED <<file, mode, key, csr, cert, temporary, config, restarting, clock, keys, got>>
    BY <1>1 DEF SetTime
  <2>3. Shape'
    <3>1. 0 \in 0..keys
      BY FaultsAssumption DEF Shape
    <3>2. \A d \in Clients : req'[d].key \in 0..keys
      BY <2>1, <3>1
    <3> QED BY <2>1, <2>2, <3>2 DEF Shape
  <2>4. Undisturbed'
    BY <2>1, <2>2 DEF Undisturbed
  <2> QED BY <2>2, <2>3, <2>4 DEF KeyMatchesCert, InstalledIsVerified, Level
<1>2. CASE TimeSet(c)
  <2>1. Shape'
    BY <1>2, EndsStep DEF TimeSet, Shape, Levels, ClockAfter
  <2>2. Undisturbed'
    BY <1>2, EndsStep DEF TimeSet, Undisturbed, NoRequest
  <2>3. Level' # Unprovisioned => Level # Unprovisioned
    BY <1>2 DEF TimeSet, Level, PartiallyProvisioned, Unprovisioned
  <2> QED BY <1>2, <2>1, <2>2, <2>3 DEF TimeSet, KeyMatchesCert, InstalledIsVerified
<1>3. CASE TimeFails(c)
  <2>1. Shape'
    BY <1>3, EndsStep DEF TimeFails, Shape
  <2>2. Undisturbed'
    BY <1>3, EndsStep DEF TimeFails, Undisturbed, NoRequest
  <2> QED BY <1>3, <2>1, <2>2 DEF TimeFails, KeyMatchesCert, InstalledIsVerified, Level
<1> QED BY <1>1, <1>2, <1>3

LEMMA StopStep ==
    ASSUME NEW c, Clients = {c}, CertInv,
           CrashInSave(c) \/ CrashInWrite(c) \/ Restart \/ RestartFails \/ Crash
    PROVE  CertInv'
<1> USE DEF CertInv, files, Making, Signing, Storing
<1>1. CASE CrashInSave(c)
  <2>1. /\ temporary.good /\ Level = Unprovisioned /\ file' = file
        /\ cert' = temporary
    BY <1>1 DEF CrashInSave, Undisturbed
  <2>2. Shape'
    BY <1>1, StartsStep, LevelType DEF CrashInSave, Shape, NoCert
  <2>3. Undisturbed'
    BY <1>1, StartsStep DEF CrashInSave, Undisturbed
  <2> QED BY <2>1, <2>2, <2>3 DEF KeyMatchesCert, InstalledIsVerified, Level
<1>2. CASE CrashInWrite(c)
  <2>1. cert' \in {cert, temporary} /\ (cert' # cert => temporary.good) /\ clock' \in {clock, "checked", "unchecked"}
    BY <1>2 DEF CrashInWrite, Undisturbed, ClockAfter
  <2>2. Shape'
    <3>1. 0 \in 0..keys
      BY FaultsAssumption DEF Shape
    <3>2. NoCert \in [key : {-1} \cup 0..keys, good : BOOLEAN]
      BY <3>1 DEF NoCert
    <3> QED BY <1>2, <2>1, <3>1, <3>2, StartsStep DEF CrashInWrite, Shape, Levels
  <2>3. Undisturbed'
    BY <1>2, StartsStep DEF CrashInWrite, Undisturbed
  <2>4. Level' = Unprovisioned
    BY <1>2 DEF CrashInWrite, Level
  <2> QED BY <2>1, <2>2, <2>3, <2>4 DEF KeyMatchesCert, InstalledIsVerified
<1>3. CASE Restart \/ Crash
  <2>1. Starts /\ mode' = Level /\ temporary' \in {temporary, NoCert} /\ config' \in {config, FALSE}
        /\ UNCHANGED <<file, key, csr, cert, clock, keys, got>>
    BY <1>3 DEF Restart, Crash
  <2>2. Shape'
    <3>1. 0 \in 0..keys
      BY FaultsAssumption DEF Shape
    <3>2. NoCert \in [key : {-1} \cup 0..keys, good : BOOLEAN]
      BY <3>1 DEF NoCert
    <3> QED BY <2>1, <3>1, <3>2, StartsStep, LevelType DEF Shape
  <2>3. Undisturbed'
    BY <2>1, StartsStep DEF Undisturbed
  <2> QED BY <2>1, <2>2, <2>3 DEF KeyMatchesCert, InstalledIsVerified, Level
<1>4. CASE RestartFails
  <2>1. Shape'
    BY <1>4 DEF RestartFails, Shape
  <2>2. Undisturbed'
    BY <1>4 DEF RestartFails, Undisturbed, Level
  <2> QED BY <1>4, <2>1, <2>2 DEF RestartFails, KeyMatchesCert, InstalledIsVerified, Level
<1> QED BY <1>1, <1>2, <1>3, <1>4

LEMMA CertStep ==
    ASSUME NEW c, Clients = {c}, CertInv, [Next]_vars
    PROVE  CertInv'
<1>1. CASE UNCHANGED vars
  BY <1>1 DEF CertInv, Shape, Undisturbed, KeyMatchesCert, InstalledIsVerified, Level, vars
<1>2. CASE Step(c)
  BY <1>2, PostStep, CsrStep, PutStep, TimeStep DEF Step
<1> QED BY <1>1, <1>2, StopStep DEF Next

(* Where one client provisions the device: a certificate that is installed was found *)
(* good, and the device only says that it is provisioned while it has a key and the  *)
(* certificate is for that key, wherever the service or the device stops, and however *)
(* often the client gives up and starts again.                                        *)
THEOREM CertIsKept == ASSUME NEW c, Clients = {c} PROVE Spec => []CertKept
<1>1. Init => CertInv
  BY CertInit
<1>2. CertInv /\ [Next]_vars => CertInv'
  BY CertStep
<1>3. CertInv => CertKept
  <2> SUFFICES ASSUME CertInv PROVE TypeOK
    BY DEF CertInv, CertKept
  <2>1. MaxKeys + Cardinality(Clients) = MaxKeys + 1 /\ MaxKeys \in Nat
    BY FS_Singleton, FaultsAssumption
  <2>2. \A k \in {-1} \cup 0..keys : k \in -1..(MaxKeys + 1)
    BY <2>1 DEF CertInv, Shape
  <2> QED BY <2>1, <2>2 DEF CertInv, Shape, TypeOK, Certs
<1> QED BY <1>1, <1>2, <1>3, PTL DEF Spec

(* Where one client provisions the device, nothing but a crash that empties the state *)
(* file takes a step of the provisioning back: it is only looked at where a request   *)
(* starts, and the certificate is saved many suspensions later.                       *)
THEOREM NeverBack == ASSUME NEW c, Clients = {c} PROVE Spec => OnlyForward
<1>1. Init => CertInv
  BY CertInit
<1>2. CertInv /\ [Next]_vars => CertInv'
  BY CertStep
<1>3. CertInv /\ [Next]_vars => [file' # Torn => Level <= Level']_vars
  <2> SUFFICES ASSUME CertInv, CertInv', Next, file' # Torn PROVE Level <= Level'
    BY <1>2
  <2>1. Level \in 0..2 /\ Level' \in 0..2
    BY LevelType DEF CertInv, Shape, Level, Levels, Torn, Unprovisioned, PartiallyProvisioned,
                     FullyProvisioned
  <2>2. CASE file' = file
    BY <2>1, <2>2 DEF Level
  <2>3. CASE Saved(c)
    BY <2>1, <2>3, EndsStep DEF Saved, CertInv, Undisturbed, Storing, Unprovisioned
  <2>4. CASE TimeSet(c)
    BY <2>1, <2>2, <2>4 DEF TimeSet, Level, PartiallyProvisioned, FullyProvisioned, Unprovisioned, Torn
  <2>5. file' = file \/ Saved(c) \/ TimeSet(c)
    <3>1. Step(c) => file' = file \/ Saved(c) \/ TimeSet(c)
      BY DEF Step, Post, PostUpload, Generate, KeyMade, CsrMade, CsrOpened, CsrSent, PostFails, Put,
             PutUpload, PutUploaded, Verified, PutFails, SetTime, TimeFails
    <3> QED BY <3>1 DEF Next, CrashInSave, CrashInWrite, Restart, RestartFails, Crash
  <2> QED BY <2>2, <2>3, <2>4, <2>5
<1> QED BY <1>1, <1>2, <1>3, PTL DEF Spec, OnlyForward
=============================================================================
