# A formal model of Summit RCM

Summit RCM (`summit_rcm/`) is the remote control manager of Ezurio's Linux
modules: one Python process that lets a client configure the network, the users,
the certificates, the time, the radio and the firmware of a device.  This
directory holds TLA+ modules that model it, TLC configurations that check them
on small instances, and theorems about them that TLAPS checks.

Contents: [the system](#the-system), [hard behaviours](#what-is-hard),
[modules](#modules), [runs](#runs), [fairness](#fairness), [proofs](#proofs),
[what the code does not keep](#what-the-code-does-not-keep),
[not modelled](#not-modelled), [plan](#plan).

## The system

Everything runs on one asyncio event loop, except the threads of the
Bluetooth plugin's TCP servers and barcode reader.  The code between two
`await`s is atomic.  What interleaves is the requests, timers, readers and
callbacks that are suspended at an `await`, and what is outside: `openssl`,
`swupdate`, `zip`, `iptables`, `modprobe`, and, over D-Bus, NetworkManager, BlueZ,
systemd, logind, timedated and the supplicant.

| component | state it keeps | operations | talks to |
|---|---|---|---|
| Firmware update (`services/firmware_update_service.py`, `rest_api/services/rest_firmware_update_service.py`) | two service objects, one for the AT interface and one for REST: status, URL, image, two descriptors, in-progress flag | start, cancel, chunk of an upload, progress message | swupdate's sockets, the loop's readers; `at_interface/commands/fwupdate_*`, `rest_api/v2/system/update.py`, `rest_api/legacy/swupdate.py` |
| AT command machine (`at_interface/fsm.py`, `at_interface.py`) | state, command buffer, current command, list of listeners | a chunk from the serial line; the entry and exit callbacks | the `transitions` library, which cancels tasks; the commands |
| AT data mode (`at_interface/services/*`, CIP, HTTP, FILESUP and FWSEND commands) | up to six connections, a buffer, a listener index, escape counters per service | start, send, close, configure; a chunk; a peer that connects or goes | the machine's list of listeners, asyncio transports, `http.client`, the update service |
| Users and sessions (`services/login_service.py`, `user_service.py`, `settings.py`, `sessions_middleware.py`, login and users resources) | sessions, failed logins, users in a configuration parser, the file behind it | log in, refresh, log out, add, update and delete a user, expiry, restart | every request passes the middleware |
| Provisioning plugin (`plugins/provisioning`) | a state file, key, signing request, certificate, two temporary files | make a key, upload a certificate, set the time, restart the service | openssl, the time service, systemd |
| Lazy routes (`__init__.py`, `definition.py`) | the router, one coroutine per group of routes | the first request for a group | the time service, the plugins |
| Network (`services/network_service.py`, `network_manager_service.py`, `rest_api/v2/network`, `rest_api/legacy/network.py`) | none of its own but dictionaries of defaults that its answers fill | read, add, change, activate, delete profiles; interfaces, access points, radio, virtual interface | NetworkManager, one call per step of a request |
| Bluetooth plugin | what was commanded of each controller and device, Device objects, virtual serial ports, TCP servers, barcode readers, web sockets | put to a controller or a device, connect, pair, bridge to TCP | BlueZ's calls and signals, `tcp_connection.py`, threads |
| Firewall plugin | the list of forwarded ports, its file | add, remove, put, load | two iptables rules per port |
| Chrony plugin | the file of sources | add, remove, override, delete | chronyc |
| Stunnel, log forwarding (`systemd_unit.py`) | a flag file | set the state of a unit | systemd |
| Files and configuration (`services/files_service.py`, resources and AT commands) | archives of fixed names in `/tmp` | import, export, upload, delete | zip, unzip, rm, NetworkManager |
| System (`services/system_service.py`, `fips_service.py`) | the power state it tells | power states, factory reset, FIPS mode | logind, two scripts, the file that marks a modem update |
| Settings, logs, time, SISO mode, AWM, unauthenticated access | one section of the settings file, levels, a zone and a clock, a driver parameter, a line of a file | set | timedated, the supplicant, modprobe |

How they interact.  A REST request goes through three middlewares
(`LazyLoadRoutesMiddleware`, `SessionsMiddleware` and, with its plugin,
`CertificateProvisioningMiddleware`) to a resource, which awaits the body and
calls services.  Services are singletons, so requests share their attributes;
files of fixed name are shared as well.  An AT command goes from the machine to
a service; a command that wants a payload registers a listener on the machine
and is executed again with each chunk.  The AT interface and REST meet in the
update service (two objects, one swupdate, one descriptor table), in the files,
and in whatever NetworkManager, systemd and logind keep.

What makes each component correct:

- Update: what is reported is what happens; a handler or a descriptor belongs to
  the service and update that own it; a result is not lost or overwritten.
- AT machine: every line is run once and answered once, however it is cut into
  chunks; no cancellation leaves the machine where nobody moves it.
- Data mode: what is handed over is what was typed for that command; listeners
  come and go with the payload; a closed connection is closed.
- Sessions: one session per user, a limit on users, tampering is slowed down,
  a confirmed change survives a restart.
- Provisioning: certificate, key, time and state file agree at every moment a
  power cut may come, and only go forward.
- Lazy routes: a route that exists is never answered with "not found".
- Network: a refused request has changed nothing, a factory profile changes
  only by what the code allows, a status does not mix two moments, all is answered.
- Bluetooth: what was commanded is restored after a reset, once; a server that
  is listed serves and one that was stopped is over; bytes go out once, in order.
- The rest of the system: what a client was told to be done is so, and stays
  so across restarts; a failure half-way leaves no half.

## What is hard

`PROJECT.json` lists the hazards at their lines, each with the properties that
would catch it.  They are of six sorts: state that is read before an `await`
and used after it (busy checks, provisioning state, ids and settings of
profiles, the state of a unit); objects shared by requests that do not know of
each other (temporary files, archives, listeners addressed by index, descriptors);
a step of several that fails and leaves the ones before it done (iptables,
modprobe, an import); crashes between two writes; objects that vanish and come
back under another name (controllers, devices, connections); counters and
buffers at their limit (login failures, escape counts, iterations, the backspace loop).

## Modules

| module | models | depends on |
|---|---|---|
| `FirmwareUpdate` | both update services and the three front ends | |
| `LineEdit` | the command buffer and the backspace loop, and a line discipline | |
| `ATCommandFSM` | the state machine, its tasks and its host | `LineEdit`, `ATServer` (instance) |
| `ATServer` | the abstract server: take, run, reply | |
| `ATDataMode` | listeners, connections, payload services | |
| `UserSessions` | users, sessions, middleware, file | `Lists` |
| `Provisioning` | the plugin and the time it waits for | |
| `LazyRoutes` | the loading of routes | |
| `NetworkManager` | NetworkManager, and the service that wraps its calls | |
| `NetworkProfiles` | the requests on connection profiles | `NetworkManager` |
| `NetworkStatus` | status, interfaces, access points, radio, virtual interface | `NetworkProfiles` |
| `Bluetooth` | controller, devices, restoration, BLE manager | `Lists` |
| `VspConnection` | the virtual serial port | |
| `BleServers` | TCP servers, threads, barcode reader, web sockets | |
| `Firewall` | forwarded ports | `Lists` |
| `NtpSources` | the sources of chrony | `Lists` |
| `ServiceUnits` | stunnel, log forwarding, systemd units | |
| `SystemFiles` | profiles, certificates, settings and their archives | |
| `SystemPower` | power states, factory reset, FIPS | |
| `SystemSettings` | saved settings, log levels, date, SISO mode, AWM | |
| `Lists` | what is left of a list after a filter | |
| `MC*` | the instances TLC runs; `MCBluetooth` and `MCSystem` put together parts that share no state, one of which moves | the modules of that name |
| `*_proof` | the theorems about the module of that name; `System_proof` those of the seven parts of the system, `Network_proof` those of the three network modules, `Bluetooth_proof` those of `Bluetooth`, `VspConnection` and `BleServers`, `AT_proof` those of `ATCommandFSM` and `ATDataMode`, `Lists_proof` the lemmas on lists | that module, `Lists_proof`, TLAPS |

An action stands for the code between two suspensions, guard and
failures included; `map` in `PROJECT.json` gives the lines of each.
Operators with a comment "Mutant of ..." are variants of a definition
with a plausible mistake in it; no specification uses them, they show that a property
notices the mistake.

**FirmwareUpdate.** `svc` has the attributes of the two objects, `fds` the
descriptor table with the owner of each socket, `readers` what the event loop
watches, `handed` the services whose update swupdate has all it needs for, `task` each request and where it is suspended (body, boot side, between
chunks).  The methods are operators on a record of the three shared tables, so
that a path through several of them (start, open, raise, cancel) is one step, as
it is in the code.  `Faults` says which external calls may fail; `Cancel` has the
`remove_reader(-1)` that raises in the middle.

**ATCommandFSM.** A chunk starts a task; a transition of the library cancels
the other tasks, so that one is alive, and `step` says what it will do next.
Chunks are cut anywhere (`HostSends`).  Commands are of three classes: they end
at once, await something (and may raise), or ask for a payload.  `polite` is
chosen at the start: a host that waits for its answers, with commands that do not
raise, or one that sends whenever it likes.

**ATDataMode.** The command, its phase, and the listeners in the order of the
list; `Without` is `del self._listeners[i]` with Python's negative indices.
Each byte carries the command it was typed for, which is how `TransfersRight`
sees that a byte strays.  The host sends one command at a time here: what an
impatient host does to the machine is the subject of `ATCommandFSM`.

**UserSessions.** `users` is the parser, `disk` the file.  A request is let in by
the middleware (`Arrive`), which removes expired sessions and notes whether
there is one, and is handled after its body came, by one action per outcome.
`failed` are the failures the code remembers, with the exception it raises when
there are too many (`list.pop` is called with two arguments).  `wrong` is the
only history variable: what was really refused, kept as far back as
`TamperedWait` looks.

**Provisioning.** A request is at one of the suspension points of its handler;
`file`, `key`, `csr`, `cert` and the two temporary files survive a crash, the
rest does not.  `CrashInSave` and `CrashInWrite` are the crashes between the
writes of one atomic stretch.  A certificate is the key it is for and whether it
is the CA's.

**LazyRoutes.** Paths are pairs of prefix and rest, with the groups of `__init__.py`;
a coroutine is new, running or over; a second await of a running one fails.

**Network.** A request is a coroutine that suspends in every D-Bus call; what it
has still to do is a stack of stages (`todo`), and a method that calls another
pushes the stages of that one, so that `UpdateStages` and its likes read as
the methods do.  A scan (the list of the profiles, then the settings of each) is
a stage with its own list.  Profiles are functions from keys to values, in
sections, since `prepare_new_connection_data` and `dict.update` replace a section at a
time.  The requests of `NetworkStatus` walk through the devices that were
listed and, for each, through what its properties refer to (`refs`); what is
gone meanwhile fails the request, except where the code catches it.
NetworkManager connects, loses and forgets by itself, `MaxEvents` times.

**Bluetooth.** A job is a request or the callback of a signal of BlueZ; its stages
are the calls it still awaits.  Two tables hold what was commanded: by controller
name and by device.  `objects` are the Device objects of the BLE manager, which are made
again by every search; signals reach those that are registered.  `lost` marks that
BlueZ refused the last call that was to set the controller's power, or that nobody heard it come: until the next
such call that is taken, or the next reset that is heard, nothing is promised of its power.

**VspConnection.** `looking` are the commands whose controller and device `handle_put` still looks up, by calls
to BlueZ without a timeout, `conns` the connection objects ever made, `table` the
plugin's dictionary, `co` the coroutines: a command, the loop that serves a TCP client,
or the callback of a signal, which runs once for each time it was registered.
Bytes are numbered by client.

**BleServers.** A TCP server's thread is in accept, between accept and storing the
client, in a read, or over; the event loop (`loop`) stands still while it stops
a server, joins a thread or sends under the lock that the thread takes.

**Firewall.** Rules are counted, since iptables appends a rule once more and
removes one at a time.  A request is in the call for the first rule, for the second, or at
the file, which is emptied when opened and written afterwards.  iptables may refuse any call, for a removal too, and a
save may fail, which the code catches.  Three variables remember what has gone wrong, for the properties alone: `crossed` that two requests
were at one port or saved at once, `torn` the ports whose removal broke off between the two rules,
`unsaved` that a save has failed since the last one that worked.

**NtpSources.** The file is read, opened (and emptied), written and reloaded, with a
suspension before each.  `ntpAsked` is what the last request should leave.

**ServiceUnits.** `UnitCall` only queues a job; the unit settles later, or fails.  The
flag file of log forwarding is what decides at boot; one that cannot be made ends the
request, one that cannot be removed is passed over and nothing is promised of it (`FlagFails`).

**SystemFiles.** A file is absent, torn, plain with a content, a link, or an archive
of entries, each under its own password; paths of archives are shared by all requests.  A password in `NeedQuotes` goes
through a line of a shell as another word, or makes it another line, with any result; `rm`, `unzip` and the reload may fail half-way.  A request is in
one of the programs it started.  `fileDone` is the last request, if it was alone,
with the system before it.

**SystemPower.** `accepted` and `restartsFor` remember what logind agreed to
and what the restarts were for; the restart of a factory reset is a job nobody awaits.

**SystemSettings.** The parser and the file, with saves that do not open the file or have emptied it when they fail;
`saved` and `kept` remember what each client wanted and whether what it was told to be saved is in the file, or only in memory; two levels set in two calls; zone and date; the three calls of modprobe,
any of which may fail; the lines of the AWM file by kind.

## Runs

| run | instance | checks |
|---|---|---|
| `fw_faults` | two requests, two descriptors, all failures | in progress means Updating; handlers belong to the channel of their service; no leaked progress channel; a result is latched |
| `fw_channel` | two requests, two descriptors, every failure but that of reopening a channel | an update that reports Updating is watched and descriptors are the service's own (`ChannelHeld`); for an update that swupdate was handed Updating comes to an end (`StatusSettles`) |
| `at` | three lines of five, a host that waits and one that does not, commands that raise | the machine implements `ATServer` for the first and rests again and again for both (`ServesAndRests`); no state without an exit, no command without a command, no line left behind (`KeepsItsHead`); types and editing (`EditIsTyped`) |
| `dm` | two connections, three commands of eight kinds, peers that vanish between commands or at once, parts of an update that are refused, an HTTP body beyond ASCII | until an update refuses a part nothing is left over: listeners come and go, closed is closed, busy means busy; payloads are intact and complete and an escape sends nothing; data mode ends |
| `us_clients` | two clients, two users, one may exist at a time, two passwords, a file that cannot be opened | one session per user, the limit, confirmed changes survive, tampering waits |
| `pv_one` | one client, four keys, crashes, torn writes, D-Bus failures | key and certificate agree and only verified is installed (`CertKept`), a certificate is there, only forward, time is set and validated, a change takes effect |
| `pv_swap` (violation) | two clients | only verified is installed |
| `net` | one v2 client and one that is legacy or AT, one reader; two profiles, one a factory one; two requests, one event | a refused request has written nothing; a status names the connection the device had when it was found activated; a secured access point is not told to be open; factory profiles and security sections stay; every request ends |
| `bt` | each of three parts: controller with one device, two jobs, two resets; serial port with two TCP clients, two connections and two coroutines; TCP servers with three starts | power is restored, also after a call that BlueZ refused was repeated, and no device twice (`RestoredRight`); what the BLE manager has is connected (`ManagedIsConnected`); listed ports serve and stopped servers are over (`ServersRight`); bytes go out once and in order (`SentOnce`); neither commands whose device was found nor the event loop wait for ever |
| `bt_restored` (violation) | controller with one device, reset once | a device that is there is restored |
| `sys` | each of nine parts, two requests at a time and three in all, calls that fail, restarts | `ListedIsForwarded`, `SourcesAsAsked`, `AskedIsSo`, `ImportIsWhole`, `ExportIsCurrent`, `PowerIsAccepted`, `SettingsSurvive`, `AnsweredIsDone`, `EveryRouteFound` |
| `sys_certs` (violation) | the files, two requests | certificates of an imported archive are there |

Why the bounds are enough.  *Two* of what interferes (requests, connections, clients,
jobs) is what every hazard listed needs; three requests for the routes because two
suspend and a third must find what they left, and three in the other parts so
that one meets what two that overlapped have left.  Two descriptors make the table
run out with a progress channel and a client in it.  Lengths 0, 1 and 3 with a
buffer of 2 give the empty payload, one that ends inside a chunk and one of
more than a buffer; with three commands one ends, a second meets what is left, and a
third what the second made of it.  `RetryTimes` 2 and a window of one
second reach the count, its reset, the failures that leave the window and the block
that ends, within one tick; the code's defaults also have window and timeout of the same
length.  Four keys let a client give up three times.  `MaxPolls = 1` instead of 5
keeps the two outcomes of a poll and the one that gives up.  One reset while a
restoration runs, and one while nothing does, need two events.  A write size of 2 with
two bytes per client leaves a partial chunk in the buffer and fills one.

The constants named `Max...`, `Given` and `Requests` are bounds on the
environment; they are the only reason a model stops: deadlock is checked
in the runs without such an end (`fw_*`, `pv_*`) and `CHECK_DEADLOCK FALSE` is said in the others.
Requests (in `fw_faults`) and clients (in `us_clients`) are symmetric: no action or
property names one; runs with liveness use no symmetry.

`Connected` gives `net` an activation at the start, so that deactivation, polls and statuses
have one to meet within two requests.  In the files of `MCSystem` requests overlap, but the last one is alone, since that is the one
`ImportIsWhole` and `ExportIsCurrent` speak of.  `MCBluetooth` and `MCSystem` choose
one part at the start and keep the others still, in one state: the parts share no
variable in the code, so their interleavings add nothing.

Every property of a passing run has a mutant under `mutants`, which TLC finds.

## Fairness

Fairness is assumed of what asyncio, threads and timers schedule, with these
exceptions, which are assumptions on the environment:

- `FirmwareUpdate`: on a channel that stays watched, swupdate reports the result of
  an update that it has been `handed` (`WF` on the verdicts of each service): an upload that may have been the whole image, the
  last part at the AT interface, or a URL, for the script that fetches it may have handed it over. Nothing is assumed of clients, so that
  the status of an update which nobody uploads stays Updating until a cancel.
- `ATCommandFSM`: the live task goes on, what a command awaits arrives, and a host
  finishes the line or payload it has begun.
- `ATDataMode`: the same; the host that was prompted goes on typing.
- `Provisioning`: the task that restarts wakes up. It may still fail, which
  `TakesEffect` allows when the failure was logged. No fairness for clients or crashes.
- `NetworkStatus`: NetworkManager replies to a call (perhaps with an error).  That a
  connection comes up or the radio changes is not assumed: the polls give up.
- `VspConnection`: only the timers of gattConnect and gattDisconnect (`WF` on `TimedOut`), which start when the
  device has been looked up; BlueZ need not answer at all.
- `BleServers`: threads and the loop go on, and a TCP client hangs up some time.

## Proofs

Theorems hold for every value of the constants that satisfies the `ASSUME`s of
the module (finite sets of users, descriptors that are positive, lists that are sequences,
requests of the shape the parsers let through, and so on); TLC evaluates these on each run.
Each is of the form `Spec => []Invariant`, from an invariant that is inductive, with one lemma per action.
Where no number of requests, faults or restarts is named there is no bound:
the constants named `Max...` only keep TLC's runs finite.

**FirmwareUpdate_proof** (`Typing`, `ProgressReported`, `NoStrayHandler`,
`ResultLatched`, `ChannelsHeld`, `ChannelsOwned`).  `ProgressIsReported` and `HandlersBelong` are not inductive:
a cancel raises in the middle and a start may fail after a channel was opened.
`IInv` says of each service's record that it is well typed, that in progress
goes with Updating, that a handler on the loop goes with the channel held, and
that a service whose result is latched is not in progress.  One lemma per method
(`Stop`, `CancelUpdate`, `OpenIpc`, ...) says that it keeps a sound
record sound; a step lemma per action puts the result back into the tables; the
other service's part is untouched.  For `ChannelsHeld`, `Held` says that a socket of swupdate that is
open for progress is the one in its service's record, also where a step between two writes fails.
`ChannelsOwned` is stated where a lost channel can be opened again (`"reopen" \notin Faults`, as in `fw_channel`;
without it, an update nobody watches is what the code leaves).  Its invariant adds that a service
without a channel has no client's socket either (`NoLoneClient`): that is why the stop that raises
at `remove_reader(-1)` loses no descriptor.

**AT_proof**.  Three parts; the third shares no state with the others:

- *Command machine* (`HeadKept`).  `RestsIdle` and `ProcessHasCommand` say nothing
  of a machine whose task is alive, so that `FsmInv` adds, for each state, where that task
  can be suspended, what it will change the state to, and that the buffer
  is empty from the exit of `validate_command` until the machine is idle again.
- *Editing* (`EditedAsTyped`).  The buffer of a machine never holds a backspace between two chunks (`TextInv`, with the types).
  The loop is a recursion over rounds, a line discipline one over keys; `EditComputed` and `TypedComputed` unfold them,
  `EditIs` says that one round is enough if it leaves no backspace, `TypedIs` what is typed place by place, and in
  `OneBackspace` the two agree for every text and every chunk of any length with at most one backspace.
- *Data mode* (`LeavesNothing`, `TransfersAreRight`).  `DataInv` says that a command collects exactly as long as the only
  listener is its own, with index 0, busy and with something still to come (`ListenersGood`); that what was collected
  is what was typed after what `AT+FWSEND` has handed over in earlier parts (`BytesGood`); and that a buffer
  nobody collects into is empty, unless it is one of a connection without an endpoint, whose write has raised and which can get
  no endpoint before it is closed (`OwnersGood`, `Unreached`): that is why this payload never goes out with another command's.
  `Finishes`, `GoesOn` and `WaitsOrStores` keep `DataInv` when a command ends, when connections change,
  and when a command waits; each action is one of the three.  The theorems have the hypotheses of the run `dm`: peers vanish only
  between two commands or before `AT+CIPSTART` is answered, the update may refuse parts of `AT+FWSEND`, after which nothing is promised
  (`Faults \subseteq {"early", "chunk"}`), and the host does not escape from
  `AT+FWSEND`; each other fault breaks one of the two properties, as told below, but for `"wide"`, which only the run has.

**UserSessions_proof** (`SingleSession`, `UsersWithinLimit`, `UsersAreKept`, `TamperingWaits`).
`UsersBounded` needs the file to be within the limit as well, since a restart reads
it; the invariant `Bounded(users) /\ Bounded(disk)` is kept whether or not a save fails.
The case that matters is the first default login, which adds a user without looking
at the limit: it does so only when there is none, and `MaxUsers` is positive.
`OneMore` (changing one account adds at most one member) rests on the library's
facts on finite sets. `OneSessionEach` is inductive with the types of what it reads.
`UsersAreKept` relates what was confirmed, the parser and the file, account by account, with all types.
`TamperingWaits` needs to know what the list of failures says of what was really refused:
`Follows` says that the failures remembered are the last wrong passwords, and that the ones before them, if any were
forgotten, happened before the window or before a block that has ended.
Its hypothesis `RetryWindow <= TamperTimeout` is what the code's defaults satisfy (both are 600 seconds);
with a shorter block the property is false, as told below.

**Provisioning_proof** (`CertWhenProvisioned`, `TimeWhenFull`, `CertIsKept`, `NeverBack`).  The first holds
for any number of clients, whatever crashes where, and is inductive as it is.
The second is stated for times given as numbers, and needs that a time
that waits to be set was validated before its request suspended.
The last two are stated for one client, since two that overlap break both (`pv_swap`, and below).  `Undisturbed` says for each
point where the request can be suspended what it has already made: the key its signing request is for, what the temporary
files hold, and that nothing was installed yet.

**System_proof**.  Seven parts, which share no state:

- *Routes* (`RouteFound`).  A group whose coroutine is over has all its
  routes, one that runs has the early ones, and a request that waits for the zones belongs to
  the group that runs.  `Prefixes` is what makes the first enough for a path that is asked
  for: a path of the program is one of the group that its prefix names.
- *Units* (`ToldIsSo`).  What is promised of a unit must be true while its last
  request goes on: `JobFits` says what a request that is alone has already seen to (the state it saw,
  then the flag file, then the state it asked for) and that a unit which has a request promises
  nothing; `Alone` says that two requests for a unit know of each other.
- *Power* (`PowerTold`).  Requests that wait were allowed when they came: a
  restart for a reset is only there after a reset, and nothing undoes a reset.
- *Settings* (`SavedSurvives`, `AnswersHold`).  For the saved settings: memory, file and the level
  of the server as `SettingsSurvive` says, for functions on the two keys; the file is never empty while it is promised to hold one
  of them (`StoreInv`).  That no value is what stands for an empty file is `SettingsAssumption`.  For the answers: calls to the D-Bus are made in the order of the queue, hence
  requests whose supplicant level is set come before those that wait (`InOrder`), the last of them is the one whose
  level the supplicant has (`LastIsSet`), and the pair is right once none is half set.
- *Files* (`ImportsAreWhole`, `ExportsAreCurrent`).  `Fits` says for each stage of a request that is alone what it has
  made of the files (before `unzip` nothing is left of the old configuration, after it exactly what the archive holds, if the shell takes the
  password as it stands),
  and `Tended` that every archive that was not left behind belongs to a request that will remove it.  `FilesAssumption`
  says that no file of the configuration has the name of an archive.
- *Time sources* (`SourcesSet`).  Unless two requests met, the request under way knows the file as it is or will be:
  at each stage either the file, what is going to be written, or what chrony is to reload is what was asked (`NtpAlone`).
- *Firewall* (`PortsForwarded`).  Unless two requests met (`crossed`), the rules of each chain are those of the listed
  ports, one each, corrected by what the request at that port has done so far (`RulesFollow`; for a port in `torn` only the rule of FORWARD), and the file is the list unless a
  request has it open or a save has failed (`FileFollows`).  That no list of ports is what stands for an unreadable file is `FirewallAssumption`.

**Network_proof** (`RefusedChangesNothing`, `StatusIsOfOneMoment`, `SecuredIsNotOpen`).  All three follow from one invariant,
`Managed /\ Underway /\ Informed`.  `Managed` says of NetworkManager that its profiles are complete and its activations
belong to profiles and devices.  `Underway` says of each request under way that its stack of stages is one the methods can push:
stages that write come after those that look the profile up, what a stage reads a stage before it
has set, and after a write no stage is left that may refuse the request (`Sound`).  Most lemmas say what pushing or popping
a method's stages keeps of such a stack.  `Informed` says of each reader what it has learnt of the device it is
at: each value was read while the activation it names was on the device.
Profiles only grow in number and activations keep their path and device, so that what was
read of one moment stays true of it.  Of the constants it is assumed that requests and stored profiles are dictionaries of
strings, that stored uuids differ, and that the virtual interface is a device.  `SecuredIsNotOpen`
is stated where an access point that announces a cipher names a key management the
program knows (`KeysNamed`); one that does not is told to be open by the code.

**Bluetooth_proof**.  Three parts, which share no state:

- *Controller and BLE manager* (`StateIsRestored`, `ManagedAreConnected`).  One invariant, `BtInv`.  `PowerGood`: the
  controller is powered as was commanded, unless BlueZ refused the last call for it (`lost`), or a restoration has still to
  read what it is to restore; a request that is under way counts as the latter when it comes, for it commands in the step that reads.
  `RestoredOnce` is inductive with the types.  `ManagedGood`: a Device object that is managed and hears signals is connected, or its
  callback is among the questions under way, and will drop it.  Assumed: that a request gives each of the four properties a value or
  leaves it out (`BluetoothAssumption`).
- *Serial port* (`ListedPortsServe`, `BytesInOrder`).  `VspInv` says of each connection that it has the path of its own device
  and counts the registrations of its callback (`ConnGood`), of each coroutine which connection it is about (`CoGood`), and that
  one which connects or closes a connection has it to itself (`Apart`): that is what keeps a
  connection that is listed from losing its server.  A callback may be registered more than once, so a signal starts
  several coroutines; the lemmas on `FlattenSeq` say what all of them have in common.  For the bytes, a connection that turned
  nobody away has one client, what was sent comes before what is buffered (`Before`), what a client is sending is
  the head of the buffer as it was taken before the await, and less than two chunks are buffered.  Assumed: no device and no client is called
  "none", and `WriteSize` is positive.
- *Servers* (`ServerStops`).  `ServersInv`: only the thread of the server holds its client, only a thread that runs has
  the socket open, and the server is forgotten when its thread was joined.  `ServersStayRight` puts this and `ListedPortsServe`
  together for the specification that `bt` checks.

**Lists_proof** has what the others need of lists.  The provers cannot instantiate an induction theorem whose
parameter is an operator, so induction is stated of a set of numbers (`Upward`, which
follows from the library's well-founded minimum): with it, what the recursive function behind `Filtered` computes is proved for
every list (`FilteredIs`), and used for the rules of a list of ports, the sources of chrony and the
failures within a window.

Only model-checked: all liveness (`StatusSettles`, `ServesAndRests`, `DataModeEnds`,
`TakesEffect`, `RequestsEnd`, `NobodyWaitsForever`), which is out of the provers' reach, and with
`ServesAndRests` the refinement of `ATServer`, which states fairness.
The provers cannot unfold a fold of the community modules: what the models compute along a list is written as a
recursive function (`Filtered`, `Edit`, `Typed`) wherever a proof needs it.

## What the code does not keep

Three disagreements with the repository's own words are shown by runs and
listed under `findings`:

- A second upload that starts between the verification and the move of the first
  is what is installed (`pv_swap`).
- A device that BlueZ announces before the restoration of its controller has come to
  its end is never restored (`bt_restored`).
- An import of connections and certificates copies no certificate and answers
  success (`sys_certs`).

Others were seen while modelling.  The models contain them, behind a constant or a history
variable where it matters, and the properties of the passing runs are stated so that
they say what is kept in spite of them:

- *Update.* When the progress channel is lost and cannot be reopened nothing watches
  the update and the status stays Updating for ever; a cancel through v2 then
  raises inside `stop_progress_monitor`, answers 200, and changes no status.
  `url` survives a start that fails in `get_running_mode_for_update` or `Popen`, and
  sends the next request without a URL down the URL branch.
  The status of an update in chunk mode stays Updating for as long as no client uploads the image.
  A second start in chunk mode overwrites `swclient_fd` and leaks the first.
- *AT machine.* With a host that does not wait, chunks that arrive in
  `validate_command` are dropped, and one that arrives while a command awaits cancels
  the command and runs it again.  The backspace loop compares with the length before
  the chunk: a chunk with several backspaces, or one on a buffer of at most one symbol, loses text.
  A command that raises leaves the machine in `process_command`, and the next chunk, whatever it holds, runs it again.
- *Data mode* (`Faults` of `ATDataMode`).  When the update refuses a part of AT+FWSEND, as it refuses all of one that was
  started with a URL, ERROR is answered, but the listener stays, and the next AT+FWSEND goes on with the old count of parts (`chunk`; what is
  promised in the run `dm` ends there).  The body of AT+HTTPEXE is decoded, counted in characters, and written as Latin-1: a host that announces
  bytes waits for the answer to a text beyond ASCII (`wide`), and a character that two chunks share raises.
  A connection lost while its payload is typed
  leaves its listener behind, and bytes typed later go out on the next connection (`lost`).
  An endpoint that comes after AT+CIPCLOSE stays open (`slowudp`).
  A failed request leaves its body, which the next AT+HTTPEXE sends at once (`refused`).  An update that ends during AT+FWSEND leaves a transfer
  in process (`stopped`).  A payload that is not UTF-8 is never sent and never
  answered (`binary`).  Escaping from AT+FWSEND makes the next one short by what was sent.
- *Sessions.* A login that refreshes a session which expired or was logged out while
  its body was read is answered 200 without a session.  `login_failed` raises for
  a request with a session once the failures are at their limit.  Two
  logins of one user in one second share a token, and the logout of one ends both.
  A new permission is not written to the file.  A deleted user keeps his sessions.
  With `tamper_protection_timeout` shorter than `login_retry_window`, failures of a
  block that has ended no longer count, although the window still holds them.
- *Provisioning.* Two clients that overlap can leave a certificate without its
  key, or set a fully provisioned device back.  A crash while the state file
  is written starts the device as unprovisioned (`OnlyForward` leaves
  this step out).  A request that only sets the time zone counts as setting the time
  (`"zone"` in `Times`), and a time given as text is not validated (`"text"`).
- *Lazy routes.* A second request for a group whose coroutine waits for the time
  zones awaits it again and fails with a server error (`Refused`).
- *Network.* `get_extended_connection_settings` fills and answers the module's own
  `NM_SETTING_*_DEFAULTS`, so an answer carries values of a profile read before.
  `create_connection_profile` calls `delete_connection_profile(id=...)` without `await`, so
  that twins stay; when it replaces a profile and adding fails, the old one is lost.
  Two updates that cross lose one.  A PATCH with `activated` skips the look at
  factory profiles, and with `activated` 0 on an inactive profile writes first
  and then answers 400.  `get_interface_status` puts together calls of different moments.
  The v2 PUT of the radio takes a body without a value as "off"; the legacy one
  reports success when reading back failed; AT+NETIFVIRT ignores the result.  A legacy POST with a null
  uuid fails; sections that `prepare_new_connection_data` does not know are dropped; CCKM of WPA 1 is
  not told, and two of the key managements are glued to one word.
- *Bluetooth.* A second TCP client of a serial port is turned away, although the comment
  says "close it and switch to the new one"; after that two loops may share
  `rx_buffer`.  `gattConnect` for a device that is absent takes the service of any device and
  leaves its server listening; so do errors and timeouts after `start_client`, and a
  `gattDisconnect` that times out.  `ControllerRemovedNotify`, `BtMgr.disconnect` and some others make coroutines
  that nobody awaits.  `initialize` looks and then awaits, so that two managers may be made;
  making one powers `hci0` whatever was commanded.  `bleStartServer` that fails leaves its thread and port.
  Stopping a server while its thread has just accepted a client blocks the event
  loop until that client hangs up, as does `sendall` under the lock to a client that does not read.
  The timeout of 5 s covers gattConnect and gattDisconnect, but not the calls by which `handle_put` finds their
  controller and device first: while BlueZ does not answer these the request waits.
  The attribute `thread` of the barcode scanner is used for two threads.  A Device
  object that is no longer registered may be put back into the manager's dictionary.
- *Firewall.* Two requests for one port duplicate or orphan its rules; the rule in PREROUTING
  stays when the one in FORWARD cannot be added.  A removal whose second call fails leaves the port listed but not
  forwarded, and no later request can remove it, since the first call then fails (`torn`).  A failing save is
  logged and the request answered with success, so that a restart brings the old list back, or none (`unsaved`); the v2 PUT does not look at failures, and goes through a list
  that shrinks meanwhile ("Collect a list of forwarded ports we need to remove"), so that
  ports it should remove may stay.
- *Chrony.* Two requests lose an update; the shorter of two overlapping writes leaves the tail of the longer;
  the result of the reload is not looked at.
- *Units.* A request may be told "already active" after another one has stopped the unit; the
  flag file is written first and stays when the activation fails, or when it cannot be removed; an answer
  comes before systemd's job has ended.  AT+LOGFWD raises for a unit that is deactivating and answers
  ERROR when it is already active.
- *Files.* The configuration is packed and unpacked by lines of a shell in which the password stands without quotes: one
  with a space or a sign of the shell protects the archive with another word, or makes another line, whose result says nothing of
  the archive; an import may then remove the configuration and unpack nothing.  An `rm` or `unzip` that fails half-way ends the import with what is left by then.
  What is a link at its place is not replaced by an import of connections.
  An export to which no password was given, or that the AT interface made, leaves its archive; the next
  `zip -r` merges into it; a leftover that is no archive makes every later export fail
  until an import removes it.  Of two exports the first to end unlinks the archive of the second.
  Two imports that cross, or a stop between `rm` and `unzip`, lose the configuration.  AT uploads in append mode are
  imported chunk by chunk and never succeed.  An import replaces the settings file, but
  not the parser in memory, whose next save overwrites it.  `unzip -n` keeps files another import
  unpacked.
- *Power.* The state told stays `suspend` or `reboot` after the system has resumed; a later request that is
  refused sets it to `on` although a reboot is pending; v2 answers a state that it reads
  again, perhaps another request's; the legacy resources report success when logind refused.
- *Settings.* The file is emptied and written in place, so that a failed or interrupted save loses all
  settings and users.  The v2 resource of unauthenticated access does not look at a failed save and tells success: the value
  is in memory until the next restart, the file has the old one or nothing.  A value whose save was answered as failed stays in memory as well, and the next
  save that works writes it, whatever it is for.  A new
  value only takes effect at the next start.  Log levels: the legacy resource sets the supplicant before it looks at the
  driver's level.  `set_time_zone` swallows errors, so that its callers answer
  success.  After the driver's interface failed to load, a repeated request answers success without a
  radio; after the driver itself failed no request brings it back; the legacy PUT passes a string and always fails;
  AT+SISOMODE=-1 sets the parameter to -1.  Storing the scan attempts drops lines that are not
  of the form key=value; v2 answers 200 without lite mode and sets nothing.

## Not modelled

`PROJECT.json` lists every component with its status and reason.  Left out are:
read-outs that only format what is there (versions, certificates, statistics, the journal, ping), the schemas and
documentation of the REST API, the OpenSSL binding, packaging and examples.  Within
modelled components: header and TLS settings that only one call reads; the
hashing of passwords (equality stands for it); the sections of a profile that are
treated like a modelled one (ipv4, ipv6, proxy, 802-1x), bridges, the
wording of addresses and leases; reads and writes of GATT characteristics by `bleGatt`, what the read
characteristic sends to the TCP client, the pairing agent and its passkeys, key codes; the
upload of SSL files; open and closed ports of the firewall and `configure_fips` of
stunnel, which nothing calls.

Simplifications in the models: zip reads and renames in one step at its end; an AT upload opens and
writes in one step; the lines of chrony's file count as equally long; debug archives are not compared with what they should hold.

## Plan

Done: firmware update, AT interface, users and sessions, provisioning, lazy routes, network,
Bluetooth, the system's files, units, power and settings; the plugins.  Left, in this order:

1. *Composition*: the AT interface with the update service (FWSEND between chunks
   of a REST upload), sessions with provisioning (two middlewares in a row).
2. *Abstractions*: a pipe with one reader for the serial port; an atomic register for settings.
