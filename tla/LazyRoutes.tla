------------------------------ MODULE LazyRoutes ------------------------------
(***************************************************************************)
(* The REST routes are added when the first request for one of their group *)
(* arrives: LazyLoadRoutesMiddleware.  Each group has one coroutine that   *)
(* adds its routes, made when the program starts and awaited once; two of  *)
(* them also suspend, to ask systemd-timedated for the time zones.  Other  *)
(* routes are those of plugins, which are asked for them each time.        *)
(***************************************************************************)
EXTENDS Integers, FiniteSets

CONSTANTS
    RouteRequests,          \* the requests that may be under way at a time
    AskedPaths              \* bound: the paths they are for

(* A path is its group, which is its prefix, and the rest. *)
Of(group, rests) == {<<group, rest>> : rest \in rests}

(* add_system_v2, before and after it asks for the time zones *)
SystemEarly == Of("system", {"power", "update", "update/updateFile", "fips", "factoryReset", "datetime"})
SystemLate == Of("system", {"config/import", "config/export", "logs/data", "logs/config",
                            "logs/export", "logs/webserver", "debug/export", "version"})
(* add_date_time_legacy: it asks for them in the end *)
DateTimeLegacy == Of("datetime", {""})
(* add_network_v2, add_login_v2 *)
NetworkV2 == Of("network", {"status", "interfaces", "interfaces/{name}", "interfaces/{name}/stats",
                            "interfaces/{name}/driverInfo", "connections", "connections/uuid/{uuid}",
                            "connections/id/{id}", "connections/import", "connections/export",
                            "accessPoints", "accessPoints/scan", "certificates",
                            "certificates/{name}", "wifi"})
LoginV2 == Of("login", {"", "users", "users/{username}"})
(* add_users_legacy, add_files_legacy *)
UsersLegacy == Of("legacy users", {"login", "users"})
FilesLegacy == Of("legacy files", {"files", "file"})

Early == [g \in {"system", "datetime", "network", "login", "legacy users", "legacy files"} |->
            CASE g = "system" -> SystemEarly [] g = "datetime" -> DateTimeLegacy
              [] g = "network" -> NetworkV2 [] g = "login" -> LoginV2
              [] g = "legacy users" -> UsersLegacy [] OTHER -> FilesLegacy]
Groups == DOMAIN Early
Late == [g \in Groups |-> IF g = "system" THEN SystemLate ELSE {}]
AsksForZones == {"system", "datetime"}

(* Routes of plugins: one has its prefix in a group, one has not. *)
OfPlugins == {<<"system", "certificateProvisioning">>, <<"bluetooth", "">>}

ASSUME AskedAssumption ==
    AskedPaths \subseteq OfPlugins \cup UNION {Early[g] \cup Late[g] : g \in Groups}

VARIABLES
    routes,            \* app._router
    coroutine,         \* group -> RouteAdd.route: "new", "running" or "over"
    awaited,           \* group -> RouteAdd.awaited
    zones,             \* DateTimeService._zones_populated
    asking                \* request -> its path, what it waits for, and what became of it

routing == <<routes, coroutine, awaited, zones, asking>>

NotAsking == [path |-> <<"none", "">>, waits |-> "nothing", answer |-> "none"]

RoutesInit ==
    /\ routes = {}
    /\ coroutine = [g \in Groups |-> "new"]
    /\ awaited = [g \in Groups |-> FALSE]
    /\ zones = FALSE
    /\ asking = [r \in RouteRequests |-> NotAsking]

-----------------------------------------------------------------------------
RouteAnswered(p, answer) == [path |-> p, waits |-> "nothing", answer |-> answer]
RouteWaiting(p, what) == [path |-> p, waits |-> what, answer |-> "none"]

(* The end of process_request: the request finds a route, a plugin is asked for *)
(* its routes, or there is none.                                                  *)
Routed(p, found) ==
    IF p \in found THEN RouteAnswered(p, "found")
    ELSE IF p \in OfPlugins THEN RouteWaiting(p, "plugin")
    ELSE RouteAnswered(p, "missing")

Arrives(r, p) == asking[r].waits = "nothing" /\ p \in AskedPaths

(* The path has a route already, or its group was loaded, or it has none. *)
Known(r, p) ==
    /\ Arrives(r, p)
    /\ p \in routes \/ (p[1] \in Groups => awaited[p[1]])
    /\ asking' = [asking EXCEPT ![r] = Routed(p, routes)]
    /\ UNCHANGED <<routes, coroutine, awaited, zones>>

Unknown(r, p) ==
    /\ Arrives(r, p)
    /\ p \notin routes
    /\ p[1] \in Groups /\ ~awaited[p[1]]

(* Mutant of Load: the group counts as awaited as soon as it is begun. *)
LoadAwaited(r, p) ==
    LET g == p[1]
    IN  /\ Unknown(r, p) /\ coroutine[g] = "new"
        /\ awaited' = [awaited EXCEPT ![g] = TRUE]
        /\ IF g \in AsksForZones /\ ~zones
           THEN /\ coroutine' = [coroutine EXCEPT ![g] = "running"]
                /\ routes' = routes \cup Early[g]
                /\ zones' = TRUE
                /\ asking' = [asking EXCEPT ![r] = RouteWaiting(p, "zones")]
           ELSE /\ coroutine' = [coroutine EXCEPT ![g] = "over"]
                /\ routes' = routes \cup Early[g] \cup Late[g]
                /\ asking' = [asking EXCEPT ![r] = Routed(p, routes')]
                /\ UNCHANGED zones

(* The group's coroutine runs, to its end or until it waits for the time zones. *)
Load(r, p) ==
    LET g == p[1]
    IN  /\ Unknown(r, p) /\ coroutine[g] = "new"
        /\ IF g \in AsksForZones /\ ~zones
           THEN /\ coroutine' = [coroutine EXCEPT ![g] = "running"]
                /\ routes' = routes \cup Early[g]
                /\ zones' = TRUE
                /\ asking' = [asking EXCEPT ![r] = RouteWaiting(p, "zones")]
                /\ UNCHANGED awaited
           ELSE /\ coroutine' = [coroutine EXCEPT ![g] = "over"]
                /\ awaited' = [awaited EXCEPT ![g] = TRUE]
                /\ routes' = routes \cup Early[g] \cup Late[g]
                /\ asking' = [asking EXCEPT ![r] = Routed(p, routes')]
                /\ UNCHANGED zones

(* It has been begun by another request: Python refuses to await it again. *)
Refused(r, p) ==
    /\ Unknown(r, p) /\ coroutine[p[1]] = "running"
    /\ asking' = [asking EXCEPT ![r] = RouteAnswered(p, "error")]
    /\ UNCHANGED <<routes, coroutine, awaited, zones>>

(* systemd-timedated answers, or fails, which is logged: the coroutine goes on. *)
ZonesCome(r) ==
    LET g == asking[r].path[1]
    IN  /\ asking[r].waits = "zones"
        /\ zones' \in BOOLEAN
        /\ coroutine' = [coroutine EXCEPT ![g] = "over"]
        /\ awaited' = [awaited EXCEPT ![g] = TRUE]
        /\ routes' = routes \cup Late[g]
        /\ asking' = [asking EXCEPT ![r] = Routed(asking[r].path, routes')]

(* The plugin's routes are added, for each request that asked it. *)
PluginLoaded(r) ==
    /\ asking[r].waits = "plugin"
    /\ routes' = routes \cup {p \in OfPlugins : p = asking[r].path}
    /\ asking' = [asking EXCEPT ![r] = RouteAnswered(asking[r].path, "found")]
    /\ UNCHANGED <<coroutine, awaited, zones>>

RoutesNext ==
    \E r \in RouteRequests :
        \/ \E p \in AskedPaths : Known(r, p) \/ Load(r, p) \/ Refused(r, p)
        \/ ZonesCome(r) \/ PluginLoaded(r)

RoutesSpec == RoutesInit /\ [][RoutesNext]_routing

-----------------------------------------------------------------------------
(* The variables hold values the code gives them, and a group counts as awaited when, *)
(* and only when, its coroutine is over.                                              *)
RoutesTypeOK ==
    /\ routes \subseteq OfPlugins \cup UNION {Early[g] \cup Late[g] : g \in Groups}
    /\ coroutine \in [Groups -> {"new", "running", "over"}]
    /\ awaited = [g \in Groups |-> coroutine[g] = "over"] /\ zones \in BOOLEAN
    /\ \A r \in RouteRequests :
          /\ asking[r].waits \in {"nothing", "zones", "plugin"}
          /\ asking[r].answer \in {"none", "found", "missing", "error"}

(* No request for a path of this program is answered that there is none, also while the *)
(* routes of its group are being added.                                                 *)
NeverMissing == \A r \in RouteRequests : asking[r].answer # "missing"

(* systemd-timedated is asked for the time zones by one request at a time. *)
ZonesAskedOnce ==
    \A r, s \in RouteRequests : asking[r].waits = "zones" /\ asking[s].waits = "zones" => r = s

(* The three together: whatever requests overlap, a route of the program is found. *)
EveryRouteFound == RoutesTypeOK /\ NeverMissing /\ ZonesAskedOnce
=============================================================================
