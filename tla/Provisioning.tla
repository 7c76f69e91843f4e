----------------------------- MODULE Provisioning -----------------------------
(***************************************************************************)
(* The provisioning plugin: a client lets the device make a key and a      *)
(* signing request (POST), uploads the certificate (PUT), and sets the     *)
(* time; after the last two the service is restarted by a delayed task.    *)
(*                                                                         *)
(* How far the device is provisioned is kept in a file, which the handlers *)
(* read before they suspend for the first time.  The configuration and the *)
(* certificate are uploaded to temporary files that all requests share.    *)
(* openssl is a process of its own; so is systemd, which restarts.         *)
(***************************************************************************)
EXTENDS Integers, FiniteSets

CONSTANTS
    Clients,           \* each has one request at a time
    Times,             \* the requests to set the time, see Validated
    Faults,            \* "crash": at any moment; "torn": in a write; "bus": a D-Bus call fails
    MaxKeys            \* bound: no request for a key once so many were made

ASSUME TimesAssumption == Times \subseteq {"inside", "outside", "text", "zone"}
ASSUME FaultsAssumption == Faults \subseteq {"crash", "torn", "bus"} /\ MaxKeys \in Nat

VARIABLES
    file,              \* the state file: a ProvisioningState, or Torn
    mode,              \* the state the running service was started in
    key, csr, cert,    \* the files of PROVISIONING_DIR; keys are numbered, 0 is no key
    temporary,         \* CERT_TEMP_PATH
    config,            \* whether there is a CONFIG_FILE_TEMP_PATH
    restarting,        \* "due" while a task is about to restart the service, "failed" if it could not
    clock,             \* what the time was set to
    keys,              \* number of keys made
    req,               \* client -> its request, and where it is suspended
    got                \* client -> the key its last signing request is for

vars == <<file, mode, key, csr, cert, temporary, config, restarting, clock, keys, req, got>>
files == <<key, csr, cert>>

Torn == -1
Unprovisioned == 0
PartiallyProvisioned == 1
FullyProvisioned == 2

(* get_provisioning_state: what cannot be read is UNPROVISIONED. *)
Level == IF file = Torn THEN Unprovisioned ELSE file

NoCert == [key |-> 0, good |-> FALSE]
Part == [key |-> -1, good |-> FALSE]      \* of a certificate that is being uploaded
NoRequest == [at |-> "none", key |-> 0, good |-> FALSE, time |-> "none"]

Init ==
    /\ file = Unprovisioned /\ mode = Unprovisioned
    /\ key = 0 /\ csr = 0 /\ cert = NoCert
    /\ temporary = NoCert /\ config = FALSE
    /\ restarting = "no"
    /\ clock = "unset"
    /\ keys = 0
    /\ req = [c \in Clients |-> NoRequest]
    /\ got = [c \in Clients |-> 0]

-----------------------------------------------------------------------------
Goes(c, from, to) == req[c].at = from /\ req' = [req EXCEPT ![c].at = to]
Ends(c, from) == req[c].at \in from /\ req' = [req EXCEPT ![c] = NoRequest]

(* on_post, which suspends to read the form.  In the end it always removes the *)
(* configuration file.  A client forgets the signing request it had.            *)
Post(c) ==
    /\ req[c] = NoRequest /\ keys < MaxKeys
    /\ got' = [got EXCEPT ![c] = 0]
    /\ IF Level = Unprovisioned
       THEN Goes(c, "none", "post") /\ UNCHANGED config
       ELSE config' = FALSE /\ UNCHANGED req
    /\ UNCHANGED <<file, mode, files, temporary, restarting, clock, keys>>

(* The upload of the configuration begins; it suspends for every block. *)
PostUpload(c) ==
    /\ Goes(c, "post", "config")
    /\ config' = TRUE
    /\ UNCHANGED <<file, mode, files, temporary, restarting, clock, keys, got>>

(* generate_key_and_csr, up to the first await: the old key is removed. *)
Generate(c) ==
    /\ Goes(c, "config", "openssl")
    /\ config
    /\ key' = 0
    /\ UNCHANGED <<file, mode, csr, cert, temporary, config, restarting, clock, keys, got>>

(* openssl has written the key.  It makes the signing request from the key it has, *)
(* or, when the client gave arguments, is run again and reads the key's file.      *)
KeyMade(c) ==
    /\ config
    /\ keys' = keys + 1 /\ key' = keys'
    /\ req[c].at = "openssl"
    /\ \E own \in {keys', 0} : req' = [req EXCEPT ![c].at = "req", ![c].key = own]
    /\ UNCHANGED <<file, mode, csr, cert, temporary, config, restarting, clock, got>>

CsrMade(c) ==
    /\ Goes(c, "req", "open")
    /\ IF req[c].key # 0 THEN csr' = req[c].key ELSE key # 0 /\ config /\ csr' = key
    /\ UNCHANGED <<file, mode, key, cert, temporary, config, restarting, clock, keys, got>>

(* handle_file_download has opened the file: the handler ends, its content is sent. *)
CsrOpened(c) ==
    /\ Goes(c, "open", "stream")
    /\ config' = FALSE
    /\ UNCHANGED <<file, mode, files, temporary, restarting, clock, keys, got>>

CsrSent(c) ==
    /\ Ends(c, {"stream"})
    /\ got' = [got EXCEPT ![c] = csr]
    /\ UNCHANGED <<file, mode, files, temporary, config, restarting, clock, keys>>

(* A form that is not right, a file that is not there any more, or openssl fails. *)
PostFails(c) ==
    /\ Ends(c, {"post", "config", "openssl", "req"})
    /\ config' = FALSE
    /\ UNCHANGED <<file, mode, files, temporary, restarting, clock, keys, got>>

-----------------------------------------------------------------------------
(* Mutant of Put: the state is not looked at. *)
PutAny(c, good) ==
    /\ req[c] = NoRequest /\ got[c] # 0
    /\ req' = [req EXCEPT ![c] = [@ EXCEPT !.at = "put", !.key = got[c], !.good = good]]
    /\ UNCHANGED <<file, mode, files, temporary, config, restarting, clock, keys, got>>

(* on_put: with the certificate for the signing request the client got, or one that *)
(* is not of the CA.  It suspends to read the form.                                   *)
Put(c, good) ==
    /\ req[c] = NoRequest /\ got[c] # 0
    /\ Level = Unprovisioned
    /\ req' = [req EXCEPT ![c] = [@ EXCEPT !.at = "put", !.key = got[c], !.good = good]]
    /\ UNCHANGED <<file, mode, files, temporary, config, restarting, clock, keys, got>>

(* The upload opens the temporary file, which empties it, and suspends. *)
PutUpload(c) ==
    /\ Goes(c, "put", "cert")
    /\ temporary' = Part
    /\ UNCHANGED <<file, mode, files, config, restarting, clock, keys, got>>

(* It is written, unless the file has been moved to another file system meanwhile. *)
PutUploaded(c) ==
    /\ Goes(c, "cert", "verify")
    /\ temporary' = IF temporary = NoCert THEN NoCert ELSE [key |-> req[c].key, good |-> req[c].good]
    /\ UNCHANGED <<file, mode, files, config, restarting, clock, keys, got>>

(* Mutant of Verified: what openssl finds is not looked at. *)
VerifiedAny(c) ==
    /\ Goes(c, "verify", "save")
    /\ UNCHANGED <<file, mode, files, temporary, config, restarting, clock, keys, got>>

(* verify_certificate_against_ca: openssl reads the file and finds it good. *)
Verified(c) ==
    /\ Goes(c, "verify", "save")
    /\ temporary.good
    /\ UNCHANGED <<file, mode, files, temporary, config, restarting, clock, keys, got>>

(* A form that is not right, a certificate that is not good, or none to move. *)
PutFails(c) ==
    /\ Ends(c, {"put", "cert", "verify", "save"})
    /\ req[c].at = "save" => temporary = NoCert
    /\ UNCHANGED <<file, mode, files, temporary, config, restarting, clock, keys, got>>

(* Mutant of Saved: the service is not restarted. *)
SavedOnly(c) ==
    /\ Ends(c, {"save"})
    /\ temporary # NoCert
    /\ cert' = temporary /\ temporary' = NoCert
    /\ file' = PartiallyProvisioned
    /\ UNCHANGED <<mode, key, csr, config, restarting, clock, keys, got>>

(* Mutant of Saved: the state is set and the certificate not moved. *)
SavedNot(c) ==
    /\ Ends(c, {"save"})
    /\ temporary # NoCert
    /\ file' = PartiallyProvisioned /\ restarting' = "due"
    /\ UNCHANGED <<mode, files, temporary, config, clock, keys, got>>

(* The rest of save_certificate_file, and the task that will restart. *)
Saved(c) ==
    /\ Ends(c, {"save"})
    /\ temporary # NoCert
    /\ cert' = temporary /\ temporary' = NoCert
    /\ file' = PartiallyProvisioned /\ restarting' = "due"
    /\ UNCHANGED <<mode, key, csr, config, clock, keys, got>>

-----------------------------------------------------------------------------
(* Mutant of Validated: any timestamp passes. *)
ValidatedAll(time) == TRUE

(* check_for_time_set_request: a timestamp given as a number must be inside the      *)
(* validity period of the certificates.  Anything else passes: a time given as text, *)
(* and a request that only sets the time zone.                                       *)
Validated(time) == time # "outside"

SetTime(c, time) ==
    /\ req[c] = NoRequest
    /\ Validated(time)
    /\ req' = [req EXCEPT ![c] = [@ EXCEPT !.at = "time", !.time = time]]
    /\ UNCHANGED <<file, mode, files, temporary, config, restarting, clock, keys, got>>

ClockAfter(time) ==
    IF time = "zone" THEN clock ELSE IF time = "inside" THEN "checked" ELSE "unchecked"

(* The time was set: check_for_time_set_response. *)
TimeSet(c) ==
    /\ Ends(c, {"time"})
    /\ clock' = ClockAfter(req[c].time)
    /\ IF Level = PartiallyProvisioned
       THEN file' = FullyProvisioned /\ restarting' = "due"
       ELSE UNCHANGED <<file, restarting>>
    /\ UNCHANGED <<mode, files, temporary, config, keys, got>>

(* SetTime of systemd-timedated fails. *)
TimeFails(c) ==
    /\ "bus" \in Faults
    /\ Ends(c, {"time"})
    /\ UNCHANGED <<file, mode, files, temporary, config, restarting, clock, keys, got>>

-----------------------------------------------------------------------------
(* The service starts in the state of the file; whatever it was doing is gone. *)
Starts ==
    /\ restarting' = "no"
    /\ req' = [c \in Clients |-> NoRequest]

(* The delayed task restarts the service; that it fails is only logged. *)
Restart ==
    /\ restarting = "due"
    /\ mode' = Level
    /\ Starts
    /\ UNCHANGED <<file, files, temporary, config, clock, keys, got>>

RestartFails ==
    /\ "bus" \in Faults
    /\ restarting = "due" /\ restarting' = "failed"
    /\ UNCHANGED <<file, mode, files, temporary, config, clock, keys, req, got>>

(* A crash; the device may have been rebooted, and then the temporary files are gone. *)
Crash ==
    /\ "crash" \in Faults
    /\ mode' = Level
    /\ Starts
    /\ \/ UNCHANGED <<temporary, config>>
       \/ temporary' = NoCert /\ config' = FALSE
    /\ UNCHANGED <<file, files, clock, keys, got>>

(* A crash after the certificate was moved and before the state is written. *)
CrashInSave(c) ==
    /\ "crash" \in Faults
    /\ req[c].at = "save" /\ temporary # NoCert
    /\ cert' = temporary /\ temporary' = NoCert
    /\ mode' = Level
    /\ Starts
    /\ UNCHANGED <<file, key, csr, config, clock, keys, got>>

(* A crash after the state file was opened, which empties it, and before it is written. *)
CrashInWrite(c) ==
    /\ "torn" \in Faults
    /\ \/ req[c].at = "save" /\ temporary # NoCert /\ cert' = temporary /\ UNCHANGED clock
       \/ req[c].at = "time" /\ Level = PartiallyProvisioned
          /\ clock' = ClockAfter(req[c].time) /\ UNCHANGED cert
    /\ file' = Torn /\ mode' = Unprovisioned
    /\ temporary' = NoCert /\ config' = FALSE
    /\ Starts
    /\ UNCHANGED <<key, csr, keys, got>>

Step(c) ==
    \/ Post(c) \/ PostUpload(c) \/ Generate(c) \/ KeyMade(c) \/ CsrMade(c)
    \/ CsrOpened(c) \/ CsrSent(c) \/ PostFails(c)
    \/ \E good \in BOOLEAN : Put(c, good)
    \/ PutUpload(c) \/ PutUploaded(c) \/ Verified(c) \/ PutFails(c) \/ Saved(c)
    \/ \E time \in Times : SetTime(c, time)
    \/ TimeSet(c) \/ TimeFails(c)

Next ==
    \/ \E c \in Clients : Step(c) \/ CrashInSave(c) \/ CrashInWrite(c)
    \/ Restart \/ RestartFails \/ Crash

Spec == Init /\ [][Next]_vars

(* The task wakes up after a tenth of a second and systemd does what it is asked. *)
FairSpec == Spec /\ WF_vars(Restart)

-----------------------------------------------------------------------------
(***************************************************************************)
(* Properties.                                                             *)
(***************************************************************************)
Levels == {Unprovisioned, PartiallyProvisioned, FullyProvisioned}
Certs == [key : -1..(MaxKeys + Cardinality(Clients)), good : BOOLEAN]

(* The variables hold values the code gives them. *)
TypeOK ==
    /\ file \in Levels \cup {Torn} /\ mode \in Levels
    /\ {key, csr} \cup {got[c] : c \in Clients} \subseteq 0..keys
    /\ {cert, temporary} \subseteq Certs
    /\ config \in BOOLEAN /\ restarting \in {"no", "due", "failed"}
    /\ clock \in {"unset", "checked", "unchecked"}
    /\ \A c \in Clients : req[c].key \in 0..keys

(* A device that is provisioned, partially or fully, has a key, and its certificate is *)
(* for that key: the service can be started with them.                                 *)
KeyMatchesCert == Level # Unprovisioned => key # 0 /\ cert.key = key

(* The certificate that is installed is one that openssl has verified. *)
InstalledIsVerified == cert # NoCert => cert.good

(* A device that is provisioned has a certificate, wherever the service crashed. *)
ProvisionedHasCert == Level # Unprovisioned => cert # NoCert

(* Provisioning only goes forward, whenever the service crashes, but for a crash that *)
(* leaves the state file empty.                                                       *)
OnlyForward == [][file' # Torn => Level <= Level']_vars

(* A device that is fully provisioned has had its time set, and the time is one that *)
(* was validated.                                                                     *)
FullMeansTimeSet == Level = FullyProvisioned => clock = "checked"

(* When the state has changed, the service is in the end restarted in it, in the mode, *)
(* and with the certificate, it calls for, or the log says that it could not be.        *)
TakesEffect == mode # Level ~> mode = Level \/ restarting = "failed"

(* What the web server is given is right: a certificate that was verified, for the key there is; *)
(* with the type invariant.                                                                       *)
CertKept == TypeOK /\ KeyMatchesCert /\ InstalledIsVerified
=============================================================================
