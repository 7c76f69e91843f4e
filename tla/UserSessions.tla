----------------------------- MODULE UserSessions -----------------------------
(***************************************************************************)
(* Users and login sessions of the REST API: LoginService, UserService and *)
(* the configuration file behind it, the session middleware, and the v2    *)
(* and legacy resources for logging in and managing users.                 *)
(*                                                                         *)
(* A request is let in by the middleware, which takes stock of its session *)
(* (process_request), suspends while its body is read (get_media), and is  *)
(* then handled in one go.  Requests without a body do not suspend.  A     *)
(* session's id is the text of its cookie, which names the user and the    *)
(* second of the login.                                                    *)
(***************************************************************************)
EXTENDS Integers, Sequences, FiniteSets, SequencesExt, Lists

CONSTANTS
    Clients,           \* each sends one request at a time
    Users, Secrets, Permissions,
    Default,           \* default_username
    DefaultSecret,     \* default_password
    None,              \* no value
    Multiple,          \* allow_multiple_user_sessions
    MaxUsers,          \* max_web_clients
    SessionTimeout, RetryTimes, RetryWindow, TamperTimeout,
    Faults,            \* "save": the configuration file cannot be opened for writing
    Requests, Given,   \* bounds: the requests the clients make, the passwords they give to users
    MaxTime            \* bound on the time

ASSUME NumbersAssumption ==
    /\ MaxUsers \in Nat \ {0} /\ RetryTimes \in Nat \ {0} /\ MaxTime \in Nat
    /\ SessionTimeout \in Nat /\ RetryWindow \in Nat /\ TamperTimeout \in Nat
ASSUME NamesAssumption ==
    /\ Default \in Users /\ DefaultSecret \in Secrets /\ Multiple \in BOOLEAN
    /\ None \notin Users \cup Secrets \cup Permissions
    /\ IsFiniteSet(Users) /\ Given \subseteq Secrets /\ Permissions # {}

VARIABLES
    now,
    users, disk,       \* user -> password and permission, in memory and in the file
    failed,            \* user -> times of its failed logins
    sessions,          \* the valid sessions
    cookie, req,       \* client -> its cookie; its request whose body is being read
    answer,            \* what the request that was just answered was for, and the answer
    wrong              \* user -> times of the last wrong passwords refused since its last login

vars == <<now, users, disk, failed, sessions, cookie, req, answer, wrong>>

NoUser == [password |-> None, permission |-> None]
NoAnswer == [op |-> "none", result |-> "none"]
NoRequest == [op |-> "none", user |-> None, secret |-> None, value |-> None, valid |-> FALSE]

Init ==
    /\ now = 0
    /\ users = [u \in Users |-> NoUser] /\ disk = users
    /\ failed = [u \in Users |-> <<>>]
    /\ sessions = {}
    /\ cookie = [c \in Clients |-> None]
    /\ req = [c \in Clients |-> NoRequest]
    /\ answer = NoAnswer
    /\ wrong = [u \in Users |-> <<>>]

-----------------------------------------------------------------------------
Exists(u) == users[u] # NoUser
Number == Cardinality({u \in Users : Exists(u)})
Verify(u, secret) == Exists(u) /\ users[u].password = secret

Answer(op, result) == answer' = [op |-> op, result |-> result]

(* Mutant of Save: it is left to the next one. *)
SaveLater(op) == Answer(op, "ok") /\ UNCHANGED disk

(* SummitRCMConfigManage.save, the last thing an operation does. *)
Save(op) ==
    \/ disk' = users' /\ Answer(op, "ok")
    \/ "save" \in Faults /\ UNCHANGED disk /\ Answer(op, "error")

(* cleanup_expired_sessions *)
Current == {s \in sessions : now < s.expiry}

(* session_is_valid *)
SessionIsValid(id) == \E s \in sessions : s.id = id /\ now < s.expiry

LoggedIn(u) == \E s \in sessions : s.user = u

(* Mutant of Blocked: one failure more is allowed. *)
BlockedLate(u) == Len(failed[u]) > RetryTimes /\ now - Last(failed[u]) < TamperTimeout

(* is_user_blocked, and the failures it leaves. *)
Blocked(u) == Len(failed[u]) >= RetryTimes /\ now - Last(failed[u]) < TamperTimeout
Remembered(u) == IF Len(failed[u]) >= RetryTimes THEN <<>> ELSE failed[u]

Recent(times) == Filtered(times, {t \in 0 .. now : now - t < RetryWindow})

(* login_failed: the failures of the window and this one; when there are too many *)
(* already, pop(0, None) raises before this one is added.                         *)
FailureRaises(times) == Len(Recent(times)) >= RetryTimes
Failed(u, times) ==
    failed' = [failed EXCEPT ![u] = IF FailureRaises(times) THEN Recent(times)
                                    ELSE Append(Recent(times), now)]

(* The wrong passwords refused, as far as TamperedWait looks back. *)
LastOnes(times) == SubSeq(times, Len(times) - RetryTimes + 1, Len(times))
Note(u) ==
    LET times == Append(wrong[u], now)
    IN  wrong' = [wrong EXCEPT ![u] = IF Len(times) > RetryTimes THEN LastOnes(times) ELSE times]

-----------------------------------------------------------------------------
(* SessionsMiddleware.process_request, up to get_media of the resource. *)
Arrive(c, op, u, secret, value) ==
    /\ op \in Requests
    /\ req[c] = NoRequest
    /\ sessions' = Current
    /\ req' = [req EXCEPT ![c] = [op |-> op, user |-> u, secret |-> secret, value |-> value,
                                  valid |-> SessionIsValid(cookie[c])]]
    /\ answer' = NoAnswer
    /\ UNCHANGED <<now, users, disk, failed, cookie, wrong>>

ArriveLogin(c) == \E u \in Users, secret \in Secrets : Arrive(c, "login", u, secret, None)

(* The paths of user management are restricted: SessionCheckingMiddleware. *)
ArriveAdmin(c) ==
    /\ SessionIsValid(cookie[c])
    /\ \E u \in Users :
          \/ \E new \in Given, p \in Permissions : Arrive(c, "add", u, new, p)
          \/ \E secret \in Secrets, new \in Given : Arrive(c, "password", u, secret, new)
          \/ \E p \in Permissions : Arrive(c, "permission", u, None, p)

Handles(c, op) ==
    /\ req[c].op = op
    /\ req' = [req EXCEPT ![c] = NoRequest]
    /\ UNCHANGED now

(* on_post of the login resources, with a session that was valid: the password is *)
(* wrong, and the session ends (unless login_failed raises).                      *)
RefreshRefused(c) ==
    LET r == req[c]
    IN  /\ Handles(c, "login") /\ r.valid
        /\ ~Verify(r.user, r.secret)
        /\ Failed(r.user, failed[r.user])
        /\ IF FailureRaises(failed[r.user])
           THEN Answer("login", "error") /\ UNCHANGED <<sessions, wrong>>
           ELSE /\ sessions' = {s \in sessions : s.id # cookie[c]}
                /\ Note(r.user)
                /\ Answer("login", "refused")
        /\ UNCHANGED <<users, disk, cookie>>

(* The password is right: the session, if it is still there, is extended. *)
Refresh(c) ==
    LET r == req[c]
    IN  /\ Handles(c, "login") /\ r.valid
        /\ Verify(r.user, r.secret)
        /\ failed' = [failed EXCEPT ![r.user] = <<>>]
        /\ wrong' = [wrong EXCEPT ![r.user] = <<>>]
        /\ sessions' = {IF s.id = cookie[c] THEN [s EXCEPT !.expiry = now + SessionTimeout] ELSE s
                        : s \in sessions}
        /\ Answer("login", "ok")
        /\ UNCHANGED <<users, disk, cookie>>

(* Without a valid session: a blocked user, one who is logged in, or a wrong password. *)
LoginBlocked(c) ==
    LET r == req[c]
    IN  /\ Handles(c, "login") /\ ~r.valid
        /\ Blocked(r.user)
        /\ Answer("login", "refused")
        /\ UNCHANGED <<users, disk, failed, sessions, cookie, wrong>>

IsDefault(r) == r.user = Default /\ r.secret = DefaultSecret

(* The first default login adds the default user. *)
AddsDefault(r) ==
    IF IsDefault(r) /\ Number = 0
    THEN /\ users' = [users EXCEPT ![Default] =
                        [password |-> DefaultSecret, permission |-> CHOOSE p \in Permissions : TRUE]]
         /\ disk' = users'
    ELSE UNCHANGED <<users, disk>>

(* The save raises: the default user is there, in memory, and nothing else is done. *)
LoginRaises(c) ==
    LET r == req[c]
    IN  /\ "save" \in Faults
        /\ Handles(c, "login") /\ ~r.valid /\ ~Blocked(r.user)
        /\ IsDefault(r) /\ Number = 0
        /\ users' = [users EXCEPT ![Default] =
                       [password |-> DefaultSecret, permission |-> CHOOSE p \in Permissions : TRUE]]
        /\ failed' = [failed EXCEPT ![r.user] = Remembered(r.user)]
        /\ Answer("login", "error")
        /\ UNCHANGED <<disk, sessions, cookie, wrong>>

LoginRefused(c) ==
    LET r == req[c]
        busy == ~Multiple /\ LoggedIn(r.user)
    IN  /\ Handles(c, "login") /\ ~r.valid
        /\ ~Blocked(r.user)
        /\ busy \/ ~(IsDefault(r) \/ Verify(r.user, r.secret))
        /\ AddsDefault(r)
        /\ IF busy
           THEN failed' = [failed EXCEPT ![r.user] = Remembered(r.user)] /\ UNCHANGED wrong
           ELSE /\ Failed(r.user, Remembered(r.user))
                /\ Note(r.user)
        /\ Answer("login", "refused")
        /\ UNCHANGED <<sessions, cookie>>

(* Mutant of Login: that the user is logged in was checked when the request arrived. *)
LoginUnchecked(c) ==
    LET r == req[c]
        id == <<r.user, now>>
    IN  /\ Handles(c, "login") /\ ~r.valid
        /\ ~Blocked(r.user)
        /\ IsDefault(r) \/ Verify(r.user, r.secret)
        /\ AddsDefault(r)
        /\ failed' = [failed EXCEPT ![r.user] = <<>>]
        /\ wrong' = [wrong EXCEPT ![r.user] = <<>>]
        /\ sessions' = sessions \cup {[id |-> id, user |-> r.user, expiry |-> now + SessionTimeout]}
        /\ cookie' = [cookie EXCEPT ![c] = id]
        /\ Answer("login", "ok")

(* A new session. *)
Login(c) ==
    LET r == req[c]
        id == <<r.user, now>>
    IN  /\ Handles(c, "login") /\ ~r.valid
        /\ ~Blocked(r.user)
        /\ Multiple \/ ~LoggedIn(r.user)
        /\ IsDefault(r) \/ Verify(r.user, r.secret)
        /\ AddsDefault(r)
        /\ failed' = [failed EXCEPT ![r.user] = <<>>]
        /\ wrong' = [wrong EXCEPT ![r.user] = <<>>]
        /\ sessions' = sessions \cup {[id |-> id, user |-> r.user, expiry |-> now + SessionTimeout]}
        /\ cookie' = [cookie EXCEPT ![c] = id]
        /\ Answer("login", "ok")

(* on_delete of the login resources: the cookie names the session that ends. *)
Logout(c) ==
    /\ req[c] = NoRequest /\ cookie[c] # None
    /\ sessions' = {s \in Current : s.id # cookie[c]}
    /\ Answer("logout", "ok")
    /\ UNCHANGED <<now, users, disk, failed, cookie, req, wrong>>

-----------------------------------------------------------------------------
(* Mutant of AddUser: a user more than the number allowed. *)
AddUserLate(c) ==
    LET r == req[c]
    IN  /\ Handles(c, "add")
        /\ IF Exists(r.user) \/ Number > MaxUsers
           THEN Answer("add", "refused") /\ UNCHANGED <<users, disk>>
           ELSE /\ users' = [users EXCEPT ![r.user] = [password |-> r.secret, permission |-> r.value]]
                /\ Save("add")
        /\ UNCHANGED <<failed, sessions, cookie, wrong>>

(* on_post of the users resources: the number of users is checked after get_media. *)
AddUser(c) ==
    LET r == req[c]
    IN  /\ Handles(c, "add")
        /\ IF Exists(r.user) \/ Number >= MaxUsers
           THEN Answer("add", "refused") /\ UNCHANGED <<users, disk>>
           ELSE /\ users' = [users EXCEPT ![r.user] = [password |-> r.secret, permission |-> r.value]]
                /\ Save("add")
        /\ UNCHANGED <<failed, sessions, cookie, wrong>>

(* on_patch and on_put with a new password. *)
UpdatePassword(c) ==
    LET r == req[c]
    IN  /\ Handles(c, "password")
        /\ IF Verify(r.user, r.secret)
           THEN users' = [users EXCEPT ![r.user].password = r.value] /\ Save("password")
           ELSE Answer("password", "refused") /\ UNCHANGED <<users, disk>>
        /\ UNCHANGED <<failed, sessions, cookie, wrong>>

(* on_patch and on_put with a permission: update_permission does not save. *)
UpdatePermission(c) ==
    LET r == req[c]
    IN  /\ Handles(c, "permission")
        /\ IF Exists(r.user)
           THEN users' = [users EXCEPT ![r.user].permission = r.value]
                /\ Answer("permission", "ok")
           ELSE Answer("permission", "refused") /\ UNCHANGED users
        /\ UNCHANGED <<disk, failed, sessions, cookie, wrong>>

(* on_delete of the users resources; the legacy one keeps the default user. *)
DeleteUser(c) ==
    /\ "delete" \in Requests
    /\ req[c] = NoRequest /\ SessionIsValid(cookie[c])
    /\ sessions' = Current
    /\ \E u \in Users :
          IF Exists(u)
          THEN \/ users' = [users EXCEPT ![u] = NoUser] /\ Save("delete")
               \/ u = Default /\ Answer("delete", "refused") /\ UNCHANGED <<users, disk>>
          ELSE Answer("delete", "refused") /\ UNCHANGED <<users, disk>>
    /\ UNCHANGED <<now, failed, cookie, req, wrong>>

(* The service is restarted: it reads the file; everything else was in memory. *)
Restart ==
    /\ users' = disk
    /\ failed' = [u \in Users |-> <<>>] /\ wrong' = [u \in Users |-> <<>>]
    /\ sessions' = {}
    /\ req' = [c \in Clients |-> NoRequest]
    /\ answer' = NoAnswer
    /\ UNCHANGED <<now, disk, cookie>>

Tick ==
    /\ now < MaxTime /\ now' = now + 1
    /\ answer' = NoAnswer
    /\ UNCHANGED <<users, disk, failed, sessions, cookie, req, wrong>>

Next ==
    \/ \E c \in Clients :
          \/ ArriveLogin(c) \/ ArriveAdmin(c)
          \/ RefreshRefused(c) \/ Refresh(c)
          \/ LoginBlocked(c) \/ LoginRaises(c) \/ LoginRefused(c) \/ Login(c) \/ Logout(c)
          \/ AddUser(c) \/ UpdatePassword(c) \/ UpdatePermission(c) \/ DeleteUser(c)
    \/ Restart
    \/ Tick

Spec == Init /\ [][Next]_vars

-----------------------------------------------------------------------------
(***************************************************************************)
(* Properties.                                                             *)
(***************************************************************************)
User == [password : Secrets, permission : Permissions] \cup {NoUser}
Ids == Users \X (0..MaxTime)
Results == {"none", "ok", "refused", "error"}
Ops == {"none", "login", "logout", "add", "password", "permission", "delete"}

(* The variables hold values the code gives them; no more failures are kept than *)
(* block a user.                                                                 *)
TypeOK ==
    /\ now \in 0..MaxTime
    /\ users \in [Users -> User] /\ disk \in [Users -> User]
    /\ \A u \in Users : failed[u] \in Seq(0..MaxTime) /\ Len(failed[u]) <= RetryTimes
    /\ sessions \subseteq [id : Ids, user : Users, expiry : 0..(MaxTime + SessionTimeout)]
    /\ cookie \in [Clients -> Ids \cup {None}]
    /\ \A c \in Clients : req[c].op \in Ops /\ req[c].valid \in BOOLEAN
    /\ answer.op \in Ops /\ answer.result \in Results

(* Unless a user may have several sessions, no user has two, however the logins that *)
(* were let in together are interleaved.                                             *)
OneSessionEach == ~Multiple => \A s, t \in sessions : s.user = t.user => s = t

(* However many requests to add a user were let in together, there are never more users *)
(* than max_web_clients.                                                                *)
UsersBounded == Number <= MaxUsers

(* Once a client was told that a user was added, removed or given a new password, a   *)
(* restart loses no user, brings none back, and keeps every password, whatever earlier *)
(* requests could not write the file.                                                  *)
AccountsSaved ==
    answer.op \in {"add", "password", "delete"} /\ answer.result = "ok"
    => \A u \in Users : users[u].password = disk[u].password

(* A user whose password was given wrongly login_retry_times times within               *)
(* login_retry_window, with no login between, gets no new session before                *)
(* tamper_protection_timeout has passed.                                                *)
Tampered(u) ==
    LET n == Len(wrong[u])
    IN  /\ n >= RetryTimes
        /\ wrong[u][n] - wrong[u][n - RetryTimes + 1] < RetryWindow
        /\ now - wrong[u][n] < TamperTimeout
TamperedWait ==
    [][\A c \in Clients : Login(c) => ~Tampered(req[c].user)]_vars

(* Who exists is saved, and the variables hold what the code gives them. *)
AccountsKept == TypeOK /\ AccountsSaved
=============================================================================
