------------------------------ MODULE MCNetwork ------------------------------
(* Two profiles, the first a factory one, and the requests that are made. *)
EXTENDS NetworkStatus

Profile(id, uuid, type, iface) == [id |-> id, uuid |-> uuid, type |-> type, iface |-> iface]
StoredProfiles == <<Profile("factory", "u1", "wifi", "wlan0") @@ [ssid |-> "net", keymgmt |-> "psk"],
                    Profile("home", "u2", "wifi", "wlan0") @@ [ssid |-> "net"]>>
Online == <<[path |-> 1, dev |-> "wlan0", state |-> "activated"]>>
Guest == [id |-> "guest", type |-> "ethernet", iface |-> "eth0"]

Q(op, uuid, id) == [op |-> op, uuid |-> uuid, id |-> id]
With(q, new) == q @@ [new |-> new, over |-> TRUE]
V2 == {Q("get", "u1", ""), Q("get", "", "home"),
       With(Q("post", "", ""), Guest), With(Q("put", "u3", ""), Guest),
       With(Q("put", "u2", ""), Profile("factory", "u2", "wifi", "wlan0")),
       With(Q("patch", "u1", ""), [ssid |-> "other"]), With(Q("patch", "", "home"), [ssid |-> "other"]),
       With(Q("patch", "", "home"), Profile("guest", "u2", "wifi", "eth0")),
       Q("patch", "u1", "") @@ [act |-> "on"], Q("patch", "", "home") @@ [act |-> "off"],
       Q("delete", "u1", ""), Q("delete", "", "factory"), Q("delete", "", "home")}
LegacyAndAT == {Q("plain", "u2", ""), Q("list", "", ""),
       [With(Q("save", "", ""), Guest) EXCEPT !.over = FALSE],
       [With(Q("save", "u2", ""), Profile("home", "u2", "wifi", "eth0")) EXCEPT !.over = FALSE],
       [With(Q("at create", "", ""), Guest) EXCEPT !.over = FALSE],
       With(Q("at update", "factory", ""), [ssid |-> "third"]),
       Q("activate", "u2", ""), Q("deactivate", "u2", ""),
       Q("at activate", "factory", ""), Q("at deactivate", "u1", ""),
       Q("delete", "u2", ""), Q("at delete", "home", "")}
AskedOf == [v2 |-> V2, at |-> LegacyAndAT]
Both == DOMAIN AskedOf

E(op) == [op |-> op, target |-> "wlan1"]
AllEnquiries == {[op |-> "interface", target |-> "wlan0"]}
    \cup {E(op) : op \in {"status", "create", "delete", "accessPoints", "requestScan", "lastScan",
                          "add", "remove", "sysfs", "disable", "v2 enable", "v2 disable"}}

Announced == [wep |-> [privacy |-> TRUE, wpa |-> {}, rsn |-> {}],
              wpa3 |-> [privacy |-> TRUE, wpa |-> {}, rsn |-> {"sae"}],
              old |-> [privacy |-> TRUE, wpa |-> {"psk"}, rsn |-> {"psk"}]]
Heard == DOMAIN Announced
=============================================================================
