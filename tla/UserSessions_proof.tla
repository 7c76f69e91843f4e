-------------------------- MODULE UserSessions_proof --------------------------
(***************************************************************************)
(* For all clients, users, secrets, limits and times: unless it is allowed *)
(* no user has two sessions; there are never more users than               *)
(* max_web_clients, neither in memory nor, after a restart, from the file; *)
(* who is told to be added, removed or changed is so in the file; and too  *)
(* many wrong passwords keep a user out for as long as they should.        *)
(***************************************************************************)
EXTENDS Lists_proof, UserSessions, FiniteSetTheorems, TLAPS

Members(accounts) == {u \in Users : accounts[u] # NoUser}

(* What the two tables of users need to keep each other within the limit. *)
Bounded(accounts) ==
    /\ DOMAIN accounts = Users
    /\ Cardinality(Members(accounts)) <= MaxUsers

SessionsNamed == \A s \in sessions : "user" \in DOMAIN s

(* A request that is being handled names one of the users. *)
Asked ==
    /\ DOMAIN req = Clients
    /\ \A c \in Clients : req[c].op # "none" => req[c].user \in Users

IInv ==
    /\ Asked
    /\ Bounded(users)
    /\ Bounded(disk)
    /\ SessionsNamed
    /\ OneSessionEach

-----------------------------------------------------------------------------
(* Changing one account adds at most one member. *)
LEMMA OneMore ==
    ASSUME NEW f, NEW g, NEW u \in Users,
           DOMAIN f = Users,
           \A v \in Users \ {u} : g[v] = f[v]
    PROVE  /\ Cardinality(Members(f)) \in Nat
           /\ Cardinality(Members(g)) \in Nat
           /\ Cardinality(Members(g)) <= Cardinality(Members(f)) + 1
           /\ f[u] # NoUser \/ g[u] = NoUser => Cardinality(Members(g)) <= Cardinality(Members(f))
<1>1. IsFiniteSet(Members(f)) /\ IsFiniteSet(Members(g))
  <2>1. Members(f) \subseteq Users /\ Members(g) \subseteq Users
    BY DEF Members
  <2> QED BY <2>1, NamesAssumption, FS_Subset
<1>2. /\ IsFiniteSet(Members(f) \cup {u})
      /\ Cardinality(Members(f) \cup {u}) \in {Cardinality(Members(f)), Cardinality(Members(f)) + 1}
  BY <1>1, FS_AddElement
<1>3. Members(g) \subseteq Members(f) \cup {u}
  BY DEF Members
<1>4. Cardinality(Members(g)) <= Cardinality(Members(f) \cup {u})
  BY <1>2, <1>3, FS_Subset
<1>5. Cardinality(Members(f)) \in Nat /\ Cardinality(Members(g)) \in Nat
  BY <1>1, FS_CardinalityType
<1>6. ASSUME f[u] # NoUser \/ g[u] = NoUser
      PROVE  Cardinality(Members(g)) <= Cardinality(Members(f))
  <2>1. Members(g) \subseteq Members(f)
    BY <1>6 DEF Members
  <2> QED BY <2>1, <1>1, FS_Subset
<1> QED BY <1>2, <1>4, <1>5, <1>6

(* An update, or a deletion, of an account that exists keeps within the limit. *)
LEMMA UpdateBounded ==
    ASSUME NEW f, NEW u \in Users, NEW e, Bounded(f), f[u] # NoUser \/ e = NoUser
    PROVE  Bounded([f EXCEPT ![u] = e])
<1> DEFINE g == [f EXCEPT ![u] = e]
<1>1. DOMAIN f = Users /\ DOMAIN g = Users /\ g[u] = e /\ \A v \in Users \ {u} : g[v] = f[v]
  BY DEF Bounded
<1>2. /\ Cardinality(Members(g)) <= Cardinality(Members(f))
      /\ Cardinality(Members(f)) \in Nat /\ Cardinality(Members(g)) \in Nat
  <2> HIDE DEF g
  <2> QED BY <1>1, OneMore
<1>3. Cardinality(Members(g)) <= MaxUsers
  BY <1>2, NumbersAssumption DEF Bounded
<1> QED BY <1>1, <1>3 DEF Bounded

(* An account that is added when there is room keeps within the limit. *)
LEMMA AddBounded ==
    ASSUME NEW f, NEW u \in Users, NEW e, Bounded(f),
           ~(Cardinality(Members(f)) >= MaxUsers) \/ Cardinality(Members(f)) = 0
    PROVE  Bounded([f EXCEPT ![u] = e])
<1> DEFINE g == [f EXCEPT ![u] = e]
<1>1. DOMAIN f = Users /\ DOMAIN g = Users /\ \A v \in Users \ {u} : g[v] = f[v]
  BY DEF Bounded
<1>2. /\ Cardinality(Members(g)) <= Cardinality(Members(f)) + 1
      /\ Cardinality(Members(f)) \in Nat /\ Cardinality(Members(g)) \in Nat
  <2> HIDE DEF g
  <2> QED BY <1>1, OneMore
<1>3. Cardinality(Members(g)) <= MaxUsers
  BY <1>2, NumbersAssumption DEF Bounded
<1> QED BY <1>1, <1>3 DEF Bounded

(* Ending sessions disturbs nothing. *)
LEMMA FewerSessions ==
    ASSUME SessionsNamed, OneSessionEach, sessions' \subseteq sessions
    PROVE  SessionsNamed' /\ OneSessionEach'
BY DEF SessionsNamed, OneSessionEach

-----------------------------------------------------------------------------
LEMMA InitInv == Init => IInv
<1> SUFFICES ASSUME Init PROVE IInv
  OBVIOUS
<1>1. users = [u \in Users |-> NoUser] /\ disk = users /\ sessions = {}
  BY DEF Init
<1>2. Members(users) = {}
  BY <1>1 DEF Members
<1>3. Cardinality(Members(users)) = 0
  BY <1>2, FS_EmptySet
<1> QED BY <1>1, <1>3, NumbersAssumption DEF IInv, Bounded, SessionsNamed, OneSessionEach, Asked, Init, NoRequest

(* Handling a request leaves its client without one. *)
LEMMA HandlesAsked ==
    ASSUME Asked, NEW c \in Clients, NEW op, Handles(c, op), op # "none"
    PROVE  Asked' /\ req[c].user \in Users
<1>1. req[c].op = op /\ req' = [req EXCEPT ![c] = NoRequest]
  BY DEF Handles
<1>2. NoRequest.op = "none"
  BY DEF NoRequest
<1> QED BY <1>1, <1>2 DEF Asked

LEMMA ArriveAsked ==
    ASSUME Asked, NEW c \in Clients, NEW op, NEW u \in Users, NEW secret, NEW value,
           Arrive(c, op, u, secret, value)
    PROVE  Asked' /\ sessions' \subseteq sessions /\ UNCHANGED <<users, disk>>
BY DEF Asked, Arrive, Current

(* An operation that saves the accounts it changed keeps both within the limit. *)
LEMMA SaveBounded ==
    ASSUME NEW op, Save(op), Bounded(users'), Bounded(disk)
    PROVE  Bounded(disk')
BY DEF Save

LEMMA AddsDefaultBounded ==
    ASSUME NEW r, AddsDefault(r), Bounded(users), Bounded(disk)
    PROVE  Bounded(users') /\ Bounded(disk')
<1> DEFINE e == [password |-> DefaultSecret, permission |-> CHOOSE p \in Permissions : TRUE]
<1>1. CASE IsDefault(r) /\ Number = 0
  <2>1. Cardinality(Members(users)) = 0
    BY <1>1 DEF Number, Members, Exists
  <2>2. users' = [users EXCEPT ![Default] = e] /\ disk' = users'
    BY <1>1 DEF AddsDefault
  <2> HIDE DEF e
  <2>3. Bounded([users EXCEPT ![Default] = e])
    BY <2>1, AddBounded, NamesAssumption
  <2> QED BY <2>2, <2>3
<1>2. CASE ~(IsDefault(r) /\ Number = 0)
  BY <1>2 DEF AddsDefault
<1> QED BY <1>1, <1>2

LEMMA StepInv == IInv /\ [Next]_vars => IInv'
<1> SUFFICES ASSUME IInv, [Next]_vars PROVE IInv'
  OBVIOUS
<1> USE DEF IInv
<1> DEFINE SessionsInv == SessionsNamed /\ OneSessionEach
           UsersInv == Bounded(users) /\ Bounded(disk)
<1>1. ASSUME NEW c \in Clients, ArriveLogin(c) PROVE IInv'
  <2>1. PICK u \in Users, secret \in Secrets : Arrive(c, "login", u, secret, None)
    BY <1>1 DEF ArriveLogin
  <2>2. Asked' /\ sessions' \subseteq sessions /\ UNCHANGED <<users, disk>>
    BY <2>1, ArriveAsked
  <2> QED BY <2>2, FewerSessions
<1>2. ASSUME NEW c \in Clients, ArriveAdmin(c) PROVE IInv'
  <2>1. PICK u \in Users : \E op, secret, value : Arrive(c, op, u, secret, value)
    BY <1>2 DEF ArriveAdmin
  <2>2. Asked' /\ sessions' \subseteq sessions /\ UNCHANGED <<users, disk>>
    <3>1. PICK op, secret, value : Arrive(c, op, u, secret, value)
      BY <2>1
    <3> QED BY <3>1, ArriveAsked
  <2> QED BY <2>2, FewerSessions
<1>3. ASSUME NEW c \in Clients, RefreshRefused(c) PROVE IInv'
  <2>1. Asked'
    BY <1>3, HandlesAsked DEF RefreshRefused
  <2>2. sessions' \subseteq sessions /\ UNCHANGED <<users, disk>>
    BY <1>3 DEF RefreshRefused
  <2> QED BY <2>1, <2>2, FewerSessions
<1>4. ASSUME NEW c \in Clients, Refresh(c) PROVE IInv'
  <2>1. Asked' /\ UNCHANGED <<users, disk>>
    BY <1>4, HandlesAsked DEF Refresh
  <2> DEFINE Kept(s) == IF s.id = cookie[c] THEN [s EXCEPT !.expiry = now + SessionTimeout] ELSE s
  <2>2. sessions' = {Kept(s) : s \in sessions}
    BY <1>4 DEF Refresh
  <2>3. \A s \in sessions : Kept(s).user = s.user /\ "user" \in DOMAIN Kept(s)
    BY DEF SessionsNamed
  <2> HIDE DEF Kept
  <2>4. SessionsNamed'
    BY <2>2, <2>3 DEF SessionsNamed
  <2>5. OneSessionEach'
    BY <2>2, <2>3 DEF OneSessionEach
  <2> QED BY <2>1, <2>4, <2>5
<1>5. ASSUME NEW c \in Clients, LoginBlocked(c) PROVE IInv'
  <2>1. Asked' /\ UNCHANGED <<users, disk, sessions>>
    BY <1>5, HandlesAsked DEF LoginBlocked
  <2> QED BY <2>1, FewerSessions
<1>6. ASSUME NEW c \in Clients, LoginRaises(c) PROVE IInv'
  <2>1. Asked' /\ UNCHANGED <<disk, sessions>>
    BY <1>6, HandlesAsked DEF LoginRaises
  <2> DEFINE e == [password |-> DefaultSecret, permission |-> CHOOSE p \in Permissions : TRUE]
  <2>2. users' = [users EXCEPT ![Default] = e] /\ Number = 0
    BY <1>6 DEF LoginRaises
  <2> HIDE DEF e
  <2>3. Cardinality(Members(users)) = 0
    BY <2>2 DEF Number, Members, Exists
  <2>4. Bounded([users EXCEPT ![Default] = e])
    BY <2>3, AddBounded, NamesAssumption
  <2> QED BY <2>1, <2>2, <2>4, FewerSessions
<1>7. ASSUME NEW c \in Clients, LoginRefused(c) PROVE IInv'
  <2>1. Asked' /\ UNCHANGED sessions
    BY <1>7, HandlesAsked DEF LoginRefused
  <2>2. AddsDefault(req[c])
    BY <1>7 DEF LoginRefused
  <2> QED BY <2>1, <2>2, AddsDefaultBounded, FewerSessions
<1>8. ASSUME NEW c \in Clients, Login(c) PROVE IInv'
  <2> DEFINE r == req[c]
             new == [id |-> <<r.user, now>>, user |-> r.user, expiry |-> now + SessionTimeout]
  <2>1. Asked'
    BY <1>8, HandlesAsked DEF Login
  <2>2. AddsDefault(req[c])
    BY <1>8 DEF Login
  <2>3. sessions' = sessions \cup {new} /\ (Multiple \/ ~LoggedIn(r.user))
    BY <1>8 DEF Login
  <2>4. new.user = r.user /\ "user" \in DOMAIN new
    OBVIOUS
  <2> HIDE DEF new, r
  <2>5. SessionsNamed'
    BY <2>3, <2>4 DEF SessionsNamed
  <2>6. OneSessionEach'
    BY <2>3, <2>4 DEF OneSessionEach, LoggedIn
  <2> QED BY <2>1, <2>2, <2>5, <2>6, AddsDefaultBounded
<1>9. ASSUME NEW c \in Clients, Logout(c) PROVE IInv'
  <2>1. sessions' \subseteq sessions /\ UNCHANGED <<users, disk, req>>
    BY <1>9 DEF Logout, Current
  <2> QED BY <2>1, FewerSessions DEF Asked
<1>10. ASSUME NEW c \in Clients, AddUser(c) PROVE IInv'
  <2> DEFINE r == req[c]
             e == [password |-> r.secret, permission |-> r.value]
  <2>1. Asked' /\ r.user \in Users /\ UNCHANGED sessions
    BY <1>10, HandlesAsked DEF AddUser
  <2>2. CASE UNCHANGED <<users, disk>>
    BY <2>1, <2>2, FewerSessions
  <2>3. CASE ~(Number >= MaxUsers) /\ users' = [users EXCEPT ![r.user] = e] /\ Save("add")
    <3>1. ~(Cardinality(Members(users)) >= MaxUsers)
      BY <2>3 DEF Number, Members, Exists
    <3> HIDE DEF e
    <3>2. Bounded(users')
      BY <3>1, <2>1, <2>3, AddBounded
    <3>3. Bounded(disk')
      BY <3>2, <2>3, SaveBounded
    <3> QED BY <2>1, <3>2, <3>3, FewerSessions
  <2> QED BY <1>10, <2>2, <2>3 DEF AddUser
<1>11. ASSUME NEW c \in Clients, UpdatePassword(c) PROVE IInv'
  <2> DEFINE r == req[c]
  <2>1. Asked' /\ r.user \in Users /\ UNCHANGED sessions
    BY <1>11, HandlesAsked DEF UpdatePassword
  <2>2. CASE UNCHANGED <<users, disk>>
    BY <2>1, <2>2, FewerSessions
  <2>3. CASE Verify(r.user, r.secret) /\ Save("password")
             /\ users' = [users EXCEPT ![r.user].password = r.value]
    <3>1. users[r.user] # NoUser
      BY <2>3 DEF Verify, Exists
    <3>2. Bounded([users EXCEPT ![r.user] = [users[r.user] EXCEPT !.password = r.value]])
      BY <3>1, <2>1, UpdateBounded
    <3>3. Bounded(users')
      BY <3>2, <2>3
    <3>4. Bounded(disk')
      BY <3>3, <2>3, SaveBounded
    <3> QED BY <2>1, <3>3, <3>4, FewerSessions
  <2> QED BY <1>11, <2>2, <2>3 DEF UpdatePassword
<1>12. ASSUME NEW c \in Clients, UpdatePermission(c) PROVE IInv'
  <2> DEFINE r == req[c]
  <2>1. Asked' /\ r.user \in Users /\ UNCHANGED <<sessions, disk>>
    BY <1>12, HandlesAsked DEF UpdatePermission
  <2>2. CASE UNCHANGED users
    BY <2>1, <2>2, FewerSessions
  <2>3. CASE Exists(r.user) /\ users' = [users EXCEPT ![r.user].permission = r.value]
    <3>1. Bounded([users EXCEPT ![r.user] = [users[r.user] EXCEPT !.permission = r.value]])
      BY <2>3, <2>1, UpdateBounded DEF Exists
    <3>2. Bounded(users')
      BY <3>1, <2>3
    <3> QED BY <2>1, <3>2, FewerSessions
  <2> QED BY <1>12, <2>2, <2>3 DEF UpdatePermission
<1>13. ASSUME NEW c \in Clients, DeleteUser(c) PROVE IInv'
  <2>1. Asked' /\ sessions' \subseteq sessions
    BY <1>13 DEF DeleteUser, Current, Asked
  <2>2. CASE UNCHANGED <<users, disk>>
    BY <2>1, <2>2, FewerSessions
  <2>3. ASSUME NEW u \in Users, users' = [users EXCEPT ![u] = NoUser], Save("delete")
        PROVE  IInv'
    <3>1. Bounded(users')
      BY <2>3, UpdateBounded
    <3>2. Bounded(disk')
      BY <3>1, <2>3, SaveBounded
    <3> QED BY <2>1, <3>1, <3>2, FewerSessions
  <2> QED BY <1>13, <2>2, <2>3 DEF DeleteUser
<1>14. CASE Restart
  <2>1. sessions' \subseteq sessions /\ users' = disk /\ disk' = disk
    BY <1>14 DEF Restart
  <2>2. Asked'
    BY <1>14 DEF Restart, Asked, NoRequest
  <2> QED BY <2>1, <2>2, FewerSessions
<1>15. CASE Tick \/ UNCHANGED vars
  <2>1. UNCHANGED <<users, disk, sessions, req>>
    BY <1>15 DEF Tick, vars
  <2> QED BY <2>1, FewerSessions DEF Asked
<1> QED
  BY <1>1, <1>2, <1>3, <1>4, <1>5, <1>6, <1>7, <1>8, <1>9, <1>10, <1>11, <1>12, <1>13, <1>14, <1>15
  DEF Next

-----------------------------------------------------------------------------
(* The inductive invariant holds in every reachable state. *)
THEOREM Invariance == Spec => []IInv
BY InitInv, StepInv, PTL DEF Spec

(* Whatever the interleaving of logins that were let in together, no user gets two *)
(* sessions when one is what is allowed (is_user_logged_in in on_post).            *)
THEOREM SingleSession == Spec => []OneSessionEach
<1>1. IInv => OneSessionEach
  BY DEF IInv
<1> QED BY <1>1, Invariance, PTL

(* However requests to add users are interleaved, with restarts and with saves that *)
(* fail, there are never more than max_web_clients (max_users_reached).             *)
THEOREM UsersWithinLimit == Spec => []UsersBounded
<1>1. IInv => UsersBounded
  BY DEF IInv, Bounded, Members, UsersBounded, Number, Exists
<1> QED BY <1>1, Invariance, PTL

-----------------------------------------------------------------------------
(***************************************************************************)
(* What the variables hold, and that who exists is saved.                  *)
(***************************************************************************)
Times == 0 .. MaxTime
Values == Secrets \cup Permissions \cup {None}
RequestSet == [op : Ops, user : Users \cup {None}, secret : Secrets \cup {None}, value : Values, valid : BOOLEAN]

(* A request that changes a user brings what the user is to have. *)
Brings(r) ==
    /\ r.op # "none" => r.user \in Users
    /\ r.op = "add" => r.secret \in Secrets /\ r.value \in Permissions
    /\ r.op = "password" => r.value \in Secrets
    /\ r.op = "permission" => r.value \in Permissions

FailedTyped == failed \in [Users -> {times \in Seq(Times) : Len(times) <= RetryTimes}]
SessionsTyped == sessions \subseteq [id : Ids, user : Users, expiry : 0..(MaxTime + SessionTimeout)]
ReqTyped == req \in [Clients -> {r \in RequestSet : Brings(r)}]

TypeInv ==
    /\ now \in Times
    /\ users \in [Users -> User] /\ disk \in [Users -> User]
    /\ FailedTyped /\ SessionsTyped /\ ReqTyped
    /\ cookie \in [Clients -> Ids \cup {None}]
    /\ answer \in [op : Ops, result : Results]

Accounts == TypeInv /\ AccountsSaved

LEMMA NobodySaved ==
    ASSUME answer'.op \notin {"add", "password", "delete"} \/ answer'.result # "ok"
    PROVE  AccountsSaved'
BY DEF AccountsSaved

LEMMA SaveSaves ==
    ASSUME NEW op \in Ops, Save(op), users' \in [Users -> User], disk \in [Users -> User]
    PROVE  AccountsSaved' /\ disk' \in [Users -> User] /\ answer' \in [op : Ops, result : Results]
<1>1. CASE disk' = users' /\ Answer(op, "ok")
  BY <1>1 DEF AccountsSaved, Answer, Results
<1>2. CASE UNCHANGED disk /\ Answer(op, "error")
  BY <1>2 DEF AccountsSaved, Answer, Results
<1> QED BY <1>1, <1>2 DEF Save

LEMMA AnswerTyped ==
    ASSUME NEW op \in Ops, NEW result \in Results, Answer(op, result)
    PROVE  answer' \in [op : Ops, result : Results] /\ answer'.op = op /\ answer'.result = result
BY DEF Answer

LEMMA NoRequestIs == NoRequest \in {r \in RequestSet : Brings(r)}
BY DEF NoRequest, RequestSet, Brings, Ops, Values

(* What a request that is handled brings, and that nothing is left of it. *)
LEMMA HandlesTyped ==
    ASSUME ReqTyped, NEW c \in Clients, NEW op \in Ops, Handles(c, op), op # "none"
    PROVE  /\ ReqTyped' /\ now' = now
           /\ req[c] \in RequestSet /\ req[c].op = op /\ req[c].user \in Users /\ Brings(req[c])
<1>1. req[c].op = op /\ req' = [req EXCEPT ![c] = NoRequest] /\ now' = now
  BY DEF Handles
<1>2. req[c] \in RequestSet /\ Brings(req[c])
  BY DEF ReqTyped
<1>3. ReqTyped'
  BY <1>1, NoRequestIs DEF ReqTyped
<1> QED BY <1>1, <1>2, <1>3 DEF Brings

LEMMA RecentIs ==
    ASSUME NEW times \in Seq(Times)
    PROVE  Recent(times) \in Seq(Times) /\ Len(Recent(times)) \in Nat /\ Len(Recent(times)) <= Len(times)
<1> DEFINE keep == {t \in 0 .. now : now - t < RetryWindow}
<1>1. Filtered(times, keep) \in Seq(Times) /\ Len(Filtered(times, keep)) \in 0 .. Len(times) /\ Len(times) \in Nat
  <2> HIDE DEF keep
  <2> QED BY FilteredIs, LenProperties
<1>2. Recent(times) = Filtered(times, keep)
  BY DEF Recent
<1> HIDE DEF keep
<1> QED BY <1>1, <1>2

(* A failure is remembered, within the limit. *)
LEMMA FailedKeeps ==
    ASSUME FailedTyped, now \in Times, NEW u \in Users, NEW times \in Seq(Times), Len(times) <= RetryTimes, Failed(u, times)
    PROVE  FailedTyped'
<1> DEFINE recent == Recent(times)
           next == IF FailureRaises(times) THEN recent ELSE Append(recent, now)
<1>1. recent \in Seq(Times) /\ Len(recent) \in Nat /\ Len(recent) <= Len(times) /\ Len(times) \in Nat
  BY RecentIs, LenProperties
<1>2. (FailureRaises(times) <=> Len(recent) >= RetryTimes) /\ RetryTimes \in Nat
  BY NumbersAssumption DEF FailureRaises
<1>3. failed' = [failed EXCEPT ![u] = next]
  BY DEF Failed
<1>4. next \in Seq(Times) /\ Len(next) <= RetryTimes
  <2> HIDE DEF recent
  <2>1. Append(recent, now) \in Seq(Times) /\ Len(Append(recent, now)) = Len(recent) + 1
    BY <1>1, AppendProperties
  <2>2. CASE FailureRaises(times)
    BY <1>1, <1>2, <2>2
  <2>3. CASE ~FailureRaises(times)
    <3>1. Len(recent) + 1 <= RetryTimes
      BY <1>1, <1>2, <2>3
    <3> QED BY <2>1, <2>3, <3>1
  <2> QED BY <2>2, <2>3
<1> HIDE DEF next
<1> QED BY <1>3, <1>4 DEF FailedTyped

LEMMA FailuresDropped ==
    ASSUME FailedTyped, NEW u \in Users
    PROVE  /\ failed[u] \in Seq(Times) /\ Len(failed[u]) <= RetryTimes /\ RetryTimes \in Nat
           /\ Remembered(u) \in Seq(Times) /\ Len(Remembered(u)) <= RetryTimes
           /\ <<>> \in Seq(Times) /\ Len(<<>>) <= RetryTimes
<1>1. <<>> \in Seq(Times) /\ Len(<<>>) = 0 /\ RetryTimes \in Nat
  BY EmptySeq, NumbersAssumption
<1>2. failed[u] \in Seq(Times) /\ Len(failed[u]) <= RetryTimes
  BY DEF FailedTyped
<1> QED BY <1>1, <1>2 DEF Remembered

LEMMA FailedSet ==
    ASSUME FailedTyped, NEW u \in Users, NEW times \in Seq(Times), Len(times) <= RetryTimes,
           failed' = [failed EXCEPT ![u] = times]
    PROVE  FailedTyped'
BY DEF FailedTyped

(* The first of the permissions, for the default user. *)
LEMMA AddsDefaultTyped ==
    ASSUME users \in [Users -> User], disk \in [Users -> User], NEW r, AddsDefault(r)
    PROVE  users' \in [Users -> User] /\ disk' \in [Users -> User]
<1> DEFINE first == CHOOSE p \in Permissions : TRUE
<1>1. first \in Permissions /\ Default \in Users /\ DefaultSecret \in Secrets
  BY NamesAssumption
<1>2. CASE IsDefault(r) /\ Number = 0
  <2>1. users' = [users EXCEPT ![Default] = [password |-> DefaultSecret, permission |-> first]] /\ disk' = users'
    BY <1>2 DEF AddsDefault
  <2> HIDE DEF first
  <2> QED BY <1>1, <2>1 DEF User
<1>3. CASE ~(IsDefault(r) /\ Number = 0)
  BY <1>3 DEF AddsDefault
<1> QED BY <1>2, <1>3

LEMMA FewerTyped ==
    ASSUME SessionsTyped, sessions' \subseteq sessions
    PROVE  SessionsTyped'
BY DEF SessionsTyped

LEMMA ArriveKeeps ==
    ASSUME TypeInv, NEW c \in Clients, NEW op \in Ops, NEW u \in Users, NEW secret \in Secrets \cup {None},
           NEW value \in Values, Arrive(c, op, u, secret, value),
           op = "add" => secret \in Secrets /\ value \in Permissions,
           op = "password" => value \in Secrets, op = "permission" => value \in Permissions
    PROVE  Accounts'
<1> DEFINE valid == SessionIsValid(cookie[c])
           r == [op |-> op, user |-> u, secret |-> secret, value |-> value, valid |-> valid]
<1>1. req' = [req EXCEPT ![c] = r]
  BY DEF Arrive
<1>2. valid \in BOOLEAN
  BY DEF SessionIsValid
<1>3. r \in RequestSet /\ Brings(r)
  <2> HIDE DEF valid
  <2> QED BY <1>2 DEF RequestSet, Brings
<1> HIDE DEF r
<1>4. ReqTyped'
  BY <1>1, <1>3 DEF ReqTyped, TypeInv
<1>5. SessionsTyped' /\ answer' = NoAnswer
  BY FewerTyped DEF Arrive, Current, TypeInv
<1>6. answer' \in [op : Ops, result : Results] /\ AccountsSaved'
  BY <1>5, NobodySaved DEF NoAnswer, Ops, Results
<1> QED BY <1>4, <1>5, <1>6 DEF Accounts, TypeInv, Arrive, FailedTyped

LEMMA RefreshRefusedKeeps ==
    ASSUME TypeInv, NEW c \in Clients, RefreshRefused(c)
    PROVE  Accounts'
<1>1. ReqTyped' /\ now' = now /\ req[c].user \in Users
  BY HandlesTyped DEF RefreshRefused, TypeInv, Ops
<1>2. FailedTyped'
  <2>1. failed[req[c].user] \in Seq(Times) /\ Len(failed[req[c].user]) <= RetryTimes
    BY <1>1, FailuresDropped DEF TypeInv
  <2> QED BY <1>1, <2>1, FailedKeeps DEF RefreshRefused, TypeInv
<1>3. SessionsTyped'
  BY FewerTyped DEF RefreshRefused, TypeInv
<1>4. answer' \in [op : Ops, result : Results] /\ AccountsSaved'
  <2>1. Answer("login", "error") \/ Answer("login", "refused")
    BY DEF RefreshRefused
  <2> QED BY <2>1, AnswerTyped, NobodySaved DEF Ops, Results
<1> QED BY <1>1, <1>2, <1>3, <1>4 DEF Accounts, TypeInv, RefreshRefused

LEMMA RefreshKeeps ==
    ASSUME TypeInv, NEW c \in Clients, Refresh(c)
    PROVE  Accounts'
<1>1. ReqTyped' /\ now' = now /\ req[c].user \in Users
  BY HandlesTyped DEF Refresh, TypeInv, Ops
<1>2. FailedTyped'
  BY <1>1, FailuresDropped, FailedSet DEF Refresh, TypeInv
<1>3. SessionsTyped'
  <2> DEFINE later == now + SessionTimeout
             Longer(s) == IF s.id = cookie[c] THEN [s EXCEPT !.expiry = later] ELSE s
             S == [id : Ids, user : Users, expiry : 0..(MaxTime + SessionTimeout)]
  <2>1. sessions' = {Longer(s) : s \in sessions}
    BY DEF Refresh
  <2>2. later \in 0 .. (MaxTime + SessionTimeout)
    BY NumbersAssumption DEF TypeInv, Times
  <2>3. sessions \subseteq S
    BY DEF TypeInv, SessionsTyped
  <2>4. ASSUME NEW s \in sessions
        PROVE  Longer(s) \in S
    <3> HIDE DEF later
    <3> QED BY <2>2, <2>3
  <2> HIDE DEF Longer
  <2> QED BY <2>1, <2>4 DEF SessionsTyped
<1>4. answer' \in [op : Ops, result : Results] /\ AccountsSaved'
  BY AnswerTyped, NobodySaved DEF Refresh, Ops, Results
<1> QED BY <1>1, <1>2, <1>3, <1>4 DEF Accounts, TypeInv, Refresh

LEMMA LoginBlockedKeeps ==
    ASSUME TypeInv, NEW c \in Clients, LoginBlocked(c)
    PROVE  Accounts'
<1>1. ReqTyped' /\ now' = now
  BY HandlesTyped DEF LoginBlocked, TypeInv, Ops
<1>2. answer' \in [op : Ops, result : Results] /\ AccountsSaved'
  BY AnswerTyped, NobodySaved DEF LoginBlocked, Ops, Results
<1> QED BY <1>1, <1>2 DEF Accounts, TypeInv, LoginBlocked, FailedTyped, SessionsTyped

LEMMA LoginRaisesKeeps ==
    ASSUME TypeInv, NEW c \in Clients, LoginRaises(c)
    PROVE  Accounts'
<1>1. ReqTyped' /\ now' = now /\ req[c].user \in Users
  BY HandlesTyped DEF LoginRaises, TypeInv, Ops
<1>2. FailedTyped'
  BY <1>1, FailuresDropped, FailedSet DEF LoginRaises, TypeInv
<1>3. answer' \in [op : Ops, result : Results] /\ AccountsSaved'
  BY AnswerTyped, NobodySaved DEF LoginRaises, Ops, Results
<1>4. users' \in [Users -> User]
  <2> DEFINE first == CHOOSE p \in Permissions : TRUE
  <2>1. first \in Permissions /\ Default \in Users /\ DefaultSecret \in Secrets
    BY NamesAssumption
  <2>2. users' = [users EXCEPT ![Default] = [password |-> DefaultSecret, permission |-> first]]
    BY DEF LoginRaises
  <2> HIDE DEF first
  <2> QED BY <2>1, <2>2 DEF User, TypeInv
<1> QED BY <1>1, <1>2, <1>3, <1>4 DEF Accounts, TypeInv, LoginRaises, SessionsTyped

LEMMA LoginRefusedKeeps ==
    ASSUME TypeInv, NEW c \in Clients, LoginRefused(c)
    PROVE  Accounts'
<1>1. ReqTyped' /\ now' = now /\ req[c].user \in Users
  BY HandlesTyped DEF LoginRefused, TypeInv, Ops
<1>2. FailedTyped'
  <2>1. failed' = [failed EXCEPT ![req[c].user] = Remembered(req[c].user)] \/ Failed(req[c].user, Remembered(req[c].user))
    BY DEF LoginRefused
  <2>2. Remembered(req[c].user) \in Seq(Times) /\ Len(Remembered(req[c].user)) <= RetryTimes
    BY <1>1, FailuresDropped DEF TypeInv
  <2> QED BY <1>1, <2>1, <2>2, FailedSet, FailedKeeps DEF TypeInv
<1>3. answer' \in [op : Ops, result : Results] /\ AccountsSaved'
  BY AnswerTyped, NobodySaved DEF LoginRefused, Ops, Results
<1>4. users' \in [Users -> User] /\ disk' \in [Users -> User]
  BY AddsDefaultTyped DEF LoginRefused, TypeInv
<1> QED BY <1>1, <1>2, <1>3, <1>4 DEF Accounts, TypeInv, LoginRefused, SessionsTyped

LEMMA LoginKeeps ==
    ASSUME TypeInv, NEW c \in Clients, Login(c)
    PROVE  Accounts'
<1> DEFINE id == <<req[c].user, now>>
           later == now + SessionTimeout
           new == [id |-> id, user |-> req[c].user, expiry |-> later]
<1>1. ReqTyped' /\ now' = now /\ req[c].user \in Users
  BY HandlesTyped DEF Login, TypeInv, Ops
<1>2. FailedTyped'
  BY <1>1, FailuresDropped, FailedSet DEF Login, TypeInv
<1>3. answer' \in [op : Ops, result : Results] /\ AccountsSaved'
  BY AnswerTyped, NobodySaved DEF Login, Ops, Results
<1>4. users' \in [Users -> User] /\ disk' \in [Users -> User]
  BY AddsDefaultTyped DEF Login, TypeInv
<1>5. id \in Ids /\ later \in 0 .. (MaxTime + SessionTimeout)
  BY <1>1, NumbersAssumption DEF TypeInv, Times, Ids
<1>6. sessions' = sessions \cup {new} /\ cookie' = [cookie EXCEPT ![c] = id]
  BY DEF Login
<1> HIDE DEF id, later
<1>7. SessionsTyped'
  BY <1>1, <1>5, <1>6 DEF TypeInv, SessionsTyped
<1>8. cookie' \in [Clients -> Ids \cup {None}]
  BY <1>5, <1>6 DEF TypeInv
<1> QED BY <1>1, <1>2, <1>3, <1>4, <1>7, <1>8 DEF Accounts, TypeInv

LEMMA LogoutKeeps ==
    ASSUME TypeInv, NEW c \in Clients, Logout(c)
    PROVE  Accounts'
<1>1. SessionsTyped'
  BY FewerTyped DEF Logout, Current, TypeInv
<1>2. answer' \in [op : Ops, result : Results] /\ AccountsSaved'
  BY AnswerTyped, NobodySaved DEF Logout, Ops, Results
<1> QED BY <1>1, <1>2 DEF Accounts, TypeInv, Logout, FailedTyped, ReqTyped

LEMMA AddUserKeeps ==
    ASSUME TypeInv, NEW c \in Clients, AddUser(c)
    PROVE  Accounts'
<1> DEFINE r == req[c]
<1>1. ReqTyped' /\ now' = now /\ r.user \in Users /\ r.secret \in Secrets /\ r.value \in Permissions
  BY HandlesTyped DEF AddUser, TypeInv, Ops, Brings
<1>2. users' \in [Users -> User] /\ disk' \in [Users -> User] /\ answer' \in [op : Ops, result : Results] /\ AccountsSaved'
  <2>1. CASE Answer("add", "refused") /\ UNCHANGED <<users, disk>>
    BY <2>1, AnswerTyped, NobodySaved DEF Ops, Results, TypeInv
  <2>2. CASE users' = [users EXCEPT ![r.user] = [password |-> r.secret, permission |-> r.value]] /\ Save("add")
    <3>1. [password |-> r.secret, permission |-> r.value] \in User
      BY <1>1 DEF User
    <3>2. users' \in [Users -> User]
      BY <1>1, <2>2, <3>1 DEF TypeInv
    <3> QED BY <2>2, <3>2, SaveSaves DEF TypeInv, Ops
  <2> QED BY <2>1, <2>2 DEF AddUser
<1> QED BY <1>1, <1>2 DEF Accounts, TypeInv, AddUser, FailedTyped, SessionsTyped

(* A user that exists is told by a password and a permission. *)
LEMMA ExistsIs ==
    ASSUME users \in [Users -> User], NEW u \in Users, Exists(u)
    PROVE  users[u] \in [password : Secrets, permission : Permissions]
BY DEF Exists, User

LEMMA UpdatePasswordKeeps ==
    ASSUME TypeInv, NEW c \in Clients, UpdatePassword(c)
    PROVE  Accounts'
<1> DEFINE r == req[c]
<1>1. ReqTyped' /\ now' = now /\ r.user \in Users /\ r.value \in Secrets
  BY HandlesTyped DEF UpdatePassword, TypeInv, Ops, Brings
<1>2. users' \in [Users -> User] /\ disk' \in [Users -> User] /\ answer' \in [op : Ops, result : Results] /\ AccountsSaved'
  <2>1. CASE Answer("password", "refused") /\ UNCHANGED <<users, disk>>
    BY <2>1, AnswerTyped, NobodySaved DEF Ops, Results, TypeInv
  <2>2. CASE Verify(r.user, r.secret) /\ users' = [users EXCEPT ![r.user].password = r.value] /\ Save("password")
    <3>1. users[r.user] \in [password : Secrets, permission : Permissions]
      BY <1>1, <2>2, ExistsIs DEF Verify, TypeInv
    <3>2. [users[r.user] EXCEPT !.password = r.value] \in User
      BY <1>1, <3>1 DEF User
    <3>3. users' = [users EXCEPT ![r.user] = [users[r.user] EXCEPT !.password = r.value]]
      BY <2>2
    <3>4. users' \in [Users -> User]
      BY <1>1, <3>2, <3>3 DEF TypeInv
    <3> QED BY <2>2, <3>4, SaveSaves DEF TypeInv, Ops
  <2> QED BY <2>1, <2>2 DEF UpdatePassword
<1> QED BY <1>1, <1>2 DEF Accounts, TypeInv, UpdatePassword, FailedTyped, SessionsTyped

LEMMA UpdatePermissionKeeps ==
    ASSUME TypeInv, NEW c \in Clients, UpdatePermission(c)
    PROVE  Accounts'
<1> DEFINE r == req[c]
<1>1. ReqTyped' /\ now' = now /\ r.user \in Users /\ r.value \in Permissions
  BY HandlesTyped DEF UpdatePermission, TypeInv, Ops, Brings
<1>2. users' \in [Users -> User]
  <2>1. CASE Exists(r.user)
    <3>1. users[r.user] \in [password : Secrets, permission : Permissions]
      BY <1>1, <2>1, ExistsIs DEF TypeInv
    <3>2. [users[r.user] EXCEPT !.permission = r.value] \in User
      BY <1>1, <3>1 DEF User
    <3>3. users' = [users EXCEPT ![r.user] = [users[r.user] EXCEPT !.permission = r.value]]
      BY <2>1 DEF UpdatePermission
    <3> QED BY <1>1, <3>2, <3>3 DEF TypeInv
  <2>2. CASE ~Exists(r.user)
    BY <2>2 DEF UpdatePermission, TypeInv
  <2> QED BY <2>1, <2>2
<1>3. answer' \in [op : Ops, result : Results] /\ AccountsSaved'
  <2>1. Answer("permission", "ok") \/ Answer("permission", "refused")
    BY DEF UpdatePermission
  <2> QED BY <2>1, AnswerTyped, NobodySaved DEF Ops, Results
<1> QED BY <1>1, <1>2, <1>3 DEF Accounts, TypeInv, UpdatePermission, FailedTyped, SessionsTyped

LEMMA DeleteUserKeeps ==
    ASSUME TypeInv, NEW c \in Clients, DeleteUser(c)
    PROVE  Accounts'
<1>1. SessionsTyped'
  BY FewerTyped DEF DeleteUser, Current, TypeInv
<1>2. users' \in [Users -> User] /\ disk' \in [Users -> User] /\ answer' \in [op : Ops, result : Results] /\ AccountsSaved'
  <2>1. CASE Answer("delete", "refused") /\ UNCHANGED <<users, disk>>
    BY <2>1, AnswerTyped, NobodySaved DEF Ops, Results, TypeInv
  <2>2. ASSUME NEW u \in Users, users' = [users EXCEPT ![u] = NoUser], Save("delete")
        PROVE  users' \in [Users -> User] /\ disk' \in [Users -> User] /\ answer' \in [op : Ops, result : Results] /\ AccountsSaved'
    <3>1. users' \in [Users -> User]
      BY <2>2 DEF User, TypeInv
    <3> QED BY <2>2, <3>1, SaveSaves DEF TypeInv, Ops
  <2> QED BY <2>1, <2>2 DEF DeleteUser
<1> QED BY <1>1, <1>2 DEF Accounts, TypeInv, DeleteUser, FailedTyped, ReqTyped

LEMMA RestartKeeps ==
    ASSUME TypeInv, Restart
    PROVE  Accounts'
<1>1. FailedTyped'
  <2>1. <<>> \in {times \in Seq(Times) : Len(times) <= RetryTimes}
    <3>1. <<>> \in Seq(Times) /\ Len(<<>>) = 0 /\ RetryTimes \in Nat
      BY EmptySeq, NumbersAssumption
    <3> QED BY <3>1
  <2> QED BY <2>1 DEF Restart, FailedTyped
<1>2. ReqTyped'
  BY NoRequestIs DEF Restart, ReqTyped
<1>3. SessionsTyped'
  BY FewerTyped DEF Restart, TypeInv
<1>4. answer' \in [op : Ops, result : Results] /\ AccountsSaved'
  BY NobodySaved DEF Restart, NoAnswer, Ops, Results
<1> QED BY <1>1, <1>2, <1>3, <1>4 DEF Accounts, TypeInv, Restart

LEMMA TickKeeps ==
    ASSUME TypeInv, Tick
    PROVE  Accounts'
<1>1. now' \in Times
  BY NumbersAssumption DEF Tick, TypeInv, Times
<1>2. answer' \in [op : Ops, result : Results] /\ AccountsSaved'
  BY NobodySaved DEF Tick, NoAnswer, Ops, Results
<1> QED BY <1>1, <1>2 DEF Accounts, TypeInv, Tick, FailedTyped, SessionsTyped, ReqTyped

LEMMA AccountsStep == Accounts /\ [Next]_vars => Accounts'
<1> SUFFICES ASSUME Accounts, [Next]_vars
             PROVE  Accounts'
  OBVIOUS
<1>1. TypeInv
  BY DEF Accounts
<1>2. ASSUME NEW c \in Clients, ArriveLogin(c)
      PROVE  Accounts'
  <2>1. "login" \in Ops /\ None \in Values
    BY DEF Ops, Values
  <2> QED BY <1>1, <1>2, <2>1, ArriveKeeps DEF ArriveLogin
<1>3. ASSUME NEW c \in Clients, ArriveAdmin(c)
      PROVE  Accounts'
  <2>1. {"add", "password", "permission"} \subseteq Ops /\ Given \subseteq Secrets
        /\ Secrets \subseteq Values /\ Permissions \subseteq Values
    BY NamesAssumption DEF Ops, Values
  <2>2. PICK u \in Users :
            \/ \E new \in Given, p \in Permissions : Arrive(c, "add", u, new, p)
            \/ \E secret \in Secrets, new \in Given : Arrive(c, "password", u, secret, new)
            \/ \E p \in Permissions : Arrive(c, "permission", u, None, p)
    BY <1>3 DEF ArriveAdmin
  <2>3. ASSUME NEW new \in Given, NEW p \in Permissions, Arrive(c, "add", u, new, p)
        PROVE  Accounts'
    BY <1>1, <2>1, <2>3, ArriveKeeps
  <2>4. ASSUME NEW secret \in Secrets, NEW new \in Given, Arrive(c, "password", u, secret, new)
        PROVE  Accounts'
    BY <1>1, <2>1, <2>4, ArriveKeeps
  <2>5. ASSUME NEW p \in Permissions, Arrive(c, "permission", u, None, p)
        PROVE  Accounts'
    BY <1>1, <2>1, <2>5, ArriveKeeps
  <2> QED BY <2>2, <2>3, <2>4, <2>5
<1>4. CASE UNCHANGED vars
  BY <1>4 DEF vars, Accounts, TypeInv, AccountsSaved, FailedTyped, SessionsTyped, ReqTyped
<1> QED
  BY <1>1, <1>2, <1>3, <1>4, RefreshRefusedKeeps, RefreshKeeps, LoginBlockedKeeps, LoginRaisesKeeps,
     LoginRefusedKeeps, LoginKeeps, LogoutKeeps, AddUserKeeps, UpdatePasswordKeeps, UpdatePermissionKeeps,
     DeleteUserKeeps, RestartKeeps, TickKeeps DEF Next

LEMMA AccountsStart == Init => Accounts
<1> SUFFICES ASSUME Init
             PROVE  Accounts
  OBVIOUS
<1>1. now \in Times /\ SessionsTyped
  BY NumbersAssumption DEF Init, Times, SessionsTyped
<1>2. FailedTyped
  <2>1. <<>> \in Seq(Times) /\ Len(<<>>) = 0 /\ RetryTimes \in Nat
    BY EmptySeq, NumbersAssumption
  <2>2. <<>> \in {times \in Seq(Times) : Len(times) <= RetryTimes}
    BY <2>1
  <2> QED BY <2>2 DEF Init, FailedTyped
<1>3. ReqTyped
  BY NoRequestIs DEF Init, ReqTyped
<1>4. users \in [Users -> User] /\ disk \in [Users -> User]
  BY DEF Init, User
<1>5. answer \in [op : Ops, result : Results] /\ AccountsSaved
  BY DEF Init, NoAnswer, Ops, Results, AccountsSaved
<1>6. cookie \in [Clients -> Ids \cup {None}]
  BY DEF Init
<1> QED BY <1>1, <1>2, <1>3, <1>4, <1>5, <1>6 DEF Accounts, TypeInv

(* Once a client was told that a user was added, removed or given a new password, it is *)
(* in the file, whatever was not saved before; and the variables hold what the code     *)
(* gives them, no more failures than block a user among it.                             *)
THEOREM UsersAreKept == Spec => []AccountsKept
<1>1. Accounts => AccountsKept
  <2> SUFFICES ASSUME Accounts
               PROVE  TypeOK
    BY DEF AccountsKept, Accounts
  <2>1. TypeInv
    BY DEF Accounts
  <2>2. \A u \in Users : failed[u] \in Seq(0 .. MaxTime) /\ Len(failed[u]) <= RetryTimes
    BY <2>1 DEF TypeInv, FailedTyped, Times
  <2>3. \A c \in Clients : req[c].op \in Ops /\ req[c].valid \in BOOLEAN
    BY <2>1 DEF TypeInv, ReqTyped, RequestSet
  <2>4. answer.op \in Ops /\ answer.result \in Results
    BY <2>1 DEF TypeInv
  <2> QED BY <2>1, <2>2, <2>3, <2>4 DEF TypeOK, TypeInv, SessionsTyped, Times
<1> QED BY <1>1, AccountsStart, AccountsStep, PTL DEF Spec

-----------------------------------------------------------------------------
(***************************************************************************)
(* What is remembered of the failures of a user are the last of the wrong  *)
(* passwords, and where older ones were forgotten, they were too long ago  *)
(* to count: before the window, or before a block that has ended.          *)
(***************************************************************************)
Follows(times, all, time) ==
    /\ times \in Seq(Nat) /\ all \in Seq(Nat) /\ Len(times) <= Len(all) /\ Len(all) <= RetryTimes
    /\ \A i \in 1 .. Len(times) : times[i] = all[Len(all) - Len(times) + i]
    /\ \A i, j \in 1 .. Len(all) : i <= j => all[i] <= all[j]
    /\ \A i \in 1 .. Len(all) : all[i] <= time
    /\ Len(times) < Len(all) =>
          IF Len(times) = 0 THEN time - all[Len(all)] >= TamperTimeout
          ELSE all[Len(all)] - all[Len(all) - Len(times)] >= RetryWindow

(* The failures of a block that has ended are forgotten. *)
LEMMA ForgottenFollows ==
    ASSUME NEW time \in Nat, NEW times, NEW all, Follows(times, all, time),
           Len(times) >= RetryTimes, time - Last(times) >= TamperTimeout
    PROVE  Follows(<<>>, all, time)
<1>1. /\ Len(times) \in Nat /\ Len(all) \in Nat /\ RetryTimes \in Nat \ {0}
      /\ Len(times) = Len(all) /\ Len(all) > 0
  BY LenProperties, NumbersAssumption DEF Follows
<1>2. Last(times) = all[Len(all)]
  BY <1>1 DEF Follows, Last
<1>3. <<>> \in Seq(Nat) /\ Len(<<>>) = 0
  BY EmptySeq
<1> QED BY <1>1, <1>2, <1>3 DEF Follows

(* Only the end of the list is recent, and what comes before is out of the window. *)
LEMMA RecentEnd ==
    ASSUME now \in Nat, NEW times, NEW all, Follows(times, all, now)
    PROVE  LET recent == Recent(times)
               d == Len(times) - Len(recent)
           IN /\ recent \in Seq(Nat) /\ Len(recent) \in Nat /\ d \in Nat
              /\ \A i \in 1 .. Len(recent) : recent[i] = times[d + i]
              /\ d > 0 => now - times[d] >= RetryWindow
<1> DEFINE keep == {t \in 0 .. now : now - t < RetryWindow}
           recent == Filtered(times, keep)
           d == Len(times) - Len(recent)
<1>1. times \in Seq(Nat) /\ Len(times) \in Nat /\ Len(all) \in Nat /\ Len(times) <= Len(all) /\ RetryWindow \in Nat
  BY LenProperties, NumbersAssumption DEF Follows
<1>2. \A i \in 1 .. Len(times) : times[i] \in 0 .. now
  <2>1. \A i \in 1 .. Len(times) : times[i] \in Nat
    BY <1>1, ElementOfSeq
  <2>2. \A i \in 1 .. Len(times) : Len(all) - Len(times) + i \in 1 .. Len(all)
    BY <1>1
  <2>3. \A i \in 1 .. Len(times) : times[i] <= now
    BY <2>2 DEF Follows
  <2> QED BY <2>1, <2>3
<1>3. \A i, j \in 1 .. Len(times) : i <= j => times[i] <= times[j]
  <2>1. \A i \in 1 .. Len(times) : Len(all) - Len(times) + i \in 1 .. Len(all)
    BY <1>1
  <2>2. \A i, j \in 1 .. Len(times) : i <= j => Len(all) - Len(times) + i <= Len(all) - Len(times) + j
    BY <1>1
  <2> QED BY <2>1, <2>2 DEF Follows
<1>4. \A i, j \in 1 .. Len(times) : i < j /\ times[i] \in keep => times[j] \in keep
  <2> SUFFICES ASSUME NEW i \in 1 .. Len(times), NEW j \in 1 .. Len(times), i < j, times[i] \in keep
               PROVE  times[j] \in keep
    OBVIOUS
  <2>1. times[i] \in 0 .. now /\ times[j] \in 0 .. now /\ times[i] <= times[j]
    BY <1>2, <1>3
  <2> QED BY SMTT(60), <1>1, <2>1
<1>5. \A i \in 1 .. Len(times) : times[i] \notin keep => now - times[i] >= RetryWindow
  BY <1>1, <1>2
<1>6. recent \in Seq(Nat) /\ Len(recent) \in 0 .. Len(times)
  <2> HIDE DEF keep
  <2> QED BY <1>1, FilteredIs
<1>7. (\A i \in 1 .. Len(recent) : recent[i] = times[d + i]) /\ \A i \in 1 .. d : times[i] \notin keep
  <2> HIDE DEF keep
  <2> QED BY <1>1, <1>4, FilteredEnd
<1>8. Recent(times) = recent
  BY DEF Recent
<1> HIDE DEF keep, recent
<1>9. d \in Nat /\ Len(recent) \in Nat /\ (d > 0 => d \in 1 .. d /\ d \in 1 .. Len(times))
  BY <1>1, <1>6
<1> QED BY <1>5, <1>6, <1>7, <1>8, <1>9

(* Where too many failures are recent for one more, none is forgotten. *)
LEMMA RaisingForgetsNone ==
    ASSUME now \in Nat, NEW times, NEW all, Follows(times, all, now), FailureRaises(times)
    PROVE  Recent(times) = times
<1> DEFINE recent == Recent(times)
<1>1. /\ recent \in Seq(Nat) /\ Len(recent) \in Nat /\ Len(times) - Len(recent) \in Nat
      /\ \A i \in 1 .. Len(recent) : recent[i] = times[(Len(times) - Len(recent)) + i]
  BY RecentEnd
<1>2. times \in Seq(Nat) /\ Len(times) \in Nat /\ Len(times) <= RetryTimes /\ RetryTimes \in Nat
  BY LenProperties, NumbersAssumption DEF Follows
<1>3. Len(recent) >= RetryTimes
  BY DEF FailureRaises
<1> HIDE DEF recent
<1>4. Len(recent) = Len(times) /\ \A i \in 1 .. Len(recent) : recent[i] = times[i]
  <2>1. Len(recent) = Len(times)
    BY <1>1, <1>2, <1>3
  <2>2. \A i \in 1 .. Len(recent) : (Len(times) - Len(recent)) + i = i
    BY <1>1, <1>2, <2>1
  <2> QED BY <1>1, <2>1, <2>2
<1>5. recent = times
  BY <1>1, <1>2, <1>4, SeqEqual
<1> QED BY <1>5 DEF recent

Noted(all) == IF Len(all) + 1 > RetryTimes THEN LastOnes(Append(all, now)) ELSE Append(all, now)

LEMMA NotedIs ==
    ASSUME now \in Nat, NEW all \in Seq(Nat), Len(all) <= RetryTimes
    PROVE  \E s \in {0, 1} :
              /\ Noted(all) \in Seq(Nat) /\ Len(Noted(all)) = Len(all) + 1 - s /\ Len(Noted(all)) <= RetryTimes
              /\ s = 1 => Len(all) = RetryTimes
              /\ \A i \in 1 .. Len(all) - s : Noted(all)[i] = all[s + i]
              /\ Noted(all)[Len(Noted(all))] = now
<1> DEFINE more == Append(all, now)
           N == Len(all)
           end == SubSeq(more, 2, N + 1)
<1>1. N \in Nat /\ RetryTimes \in Nat \ {0}
  BY LenProperties, NumbersAssumption
<1>2. more \in Seq(Nat) /\ Len(more) = N + 1 /\ (\A i \in 1 .. N : more[i] = all[i]) /\ more[N + 1] = now
  BY AppendProperties
<1> HIDE DEF more
<1>3. CASE N + 1 > RetryTimes
  <2>1. N = RetryTimes /\ Len(more) - RetryTimes + 1 = 2
    BY <1>1, <1>2, <1>3
  <2>2. Noted(all) = end
    BY <1>2, <1>3, <2>1 DEF Noted, LastOnes, more
  <2>3. \A i \in 2 .. N + 1 : more[i] \in Nat
    BY <1>1, <1>2, ElementOfSeq
  <2>4. end \in Seq(Nat) /\ Len(end) = (IF 2 <= N + 1 THEN (N + 1) - 2 + 1 ELSE 0)
        /\ \A i \in 1 .. (N + 1) - 2 + 1 : end[i] = more[2 + i - 1]
    BY <1>1, <2>3, SubSeqProperties
  <2> HIDE DEF end
  <2>5. Len(end) = N + 1 - 1 /\ Len(end) <= RetryTimes
    BY <1>1, <2>1, <2>4
  <2>6. \A i \in 1 .. N - 1 : end[i] = all[1 + i]
    <3> SUFFICES ASSUME NEW i \in 1 .. N - 1
                 PROVE  end[i] = all[1 + i]
      OBVIOUS
    <3>1. i \in 1 .. (N + 1) - 2 + 1 /\ 2 + i - 1 = 1 + i /\ 1 + i \in 1 .. N
      BY <1>1
    <3> QED BY <1>2, <2>4, <3>1
  <2>7. end[Len(end)] = now
    <3>1. N \in 1 .. (N + 1) - 2 + 1 /\ 2 + N - 1 = N + 1 /\ Len(end) = N
      BY <1>1, <2>1, <2>5
    <3> QED BY <1>2, <2>4, <3>1
  <2>8. PICK s \in {0, 1} : s = 1
    OBVIOUS
  <2> QED BY <2>1, <2>2, <2>4, <2>5, <2>6, <2>7, <2>8
<1>4. CASE ~(N + 1 > RetryTimes)
  <2>1. Noted(all) = more
    BY <1>4 DEF Noted, more
  <2>2. N + 1 - 0 = N + 1 /\ N + 1 <= RetryTimes /\ N - 0 = N /\ \A i \in 1 .. N : 0 + i = i
    BY <1>1, <1>4
  <2>3. PICK s \in {0, 1} : s = 0
    OBVIOUS
  <2> QED BY <1>2, <2>1, <2>2, <2>3
<1> QED BY <1>3, <1>4

(* One more wrong password is refused, and noted. *)
LEMMA NotedFollows ==
    ASSUME RetryWindow <= TamperTimeout, now \in Nat, NEW times, NEW all, Follows(times, all, now),
           ~FailureRaises(times)
    PROVE  Follows(Append(Recent(times), now), Noted(all), now)
<1> DEFINE recent == Recent(times)
           m == Len(times)
           n == Len(all)
           r == Len(recent)
           d == m - r
           new == Append(recent, now)
           noted == Noted(all)
<1>1. /\ times \in Seq(Nat) /\ all \in Seq(Nat) /\ m \in Nat /\ n \in Nat /\ m <= n /\ n <= RetryTimes
      /\ {RetryTimes, RetryWindow, TamperTimeout} \subseteq Nat
  BY LenProperties, NumbersAssumption DEF Follows
<1>2. /\ recent \in Seq(Nat) /\ r \in Nat /\ d \in Nat /\ r < RetryTimes
      /\ \A i \in 1 .. r : recent[i] = times[d + i]
      /\ d > 0 => now - times[d] >= RetryWindow
  <2>1. ~(r >= RetryTimes)
    BY DEF FailureRaises
  <2> QED BY <1>1, <2>1, RecentEnd
<1>3. /\ \A i \in 1 .. m : times[i] = all[n - m + i]
      /\ \A i, j \in 1 .. n : i <= j => all[i] <= all[j]
      /\ \A i \in 1 .. n : all[i] <= now /\ all[i] \in Nat
      /\ m < n => IF m = 0 THEN now - all[n] >= TamperTimeout ELSE all[n] - all[n - m] >= RetryWindow
  BY <1>1, ElementOfSeq DEF Follows
<1>4. PICK s \in {0, 1} :
              /\ noted \in Seq(Nat) /\ Len(noted) = n + 1 - s /\ Len(noted) <= RetryTimes
              /\ s = 1 => n = RetryTimes
              /\ \A i \in 1 .. n - s : noted[i] = all[s + i]
              /\ noted[Len(noted)] = now
  BY <1>1, NotedIs
<1> HIDE DEF recent, noted
<1>5. /\ new \in Seq(Nat) /\ Len(new) = r + 1 /\ new[r + 1] = now
      /\ \A i \in 1 .. r : new[i] = recent[i]
  BY <1>2, AppendProperties
<1> HIDE DEF new
<1>5a. d = m - r
  OBVIOUS
<1> HIDE DEF m, n, r, d
<1>5b. /\ {m, n, r, d, now, RetryTimes, RetryWindow, TamperTimeout} \subseteq Nat
       /\ m <= n /\ n <= RetryTimes /\ r < RetryTimes
  BY <1>1, <1>2
<1>5c. Len(noted) = n + 1 - s /\ Len(new) = r + 1 /\ (s = 1 => n = RetryTimes)
  BY <1>4, <1>5
<1>6. Len(new) <= Len(noted)
  BY <1>5a, <1>5b, <1>5c
<1>7. ASSUME NEW i \in 1 .. Len(new)
      PROVE  new[i] = noted[Len(noted) - Len(new) + i]
  <2>1. CASE i = r + 1
    <3>1. Len(noted) - Len(new) + i = Len(noted)
      BY <1>1, <1>2, <1>4, <1>5, <2>1
    <3> QED BY <1>4, <1>5, <2>1, <3>1
  <2>2. CASE i # r + 1
    <3>1. i \in 1 .. r /\ d + i \in 1 .. m /\ n - m + (d + i) = n - r + i
      BY <1>1, <1>2, <1>5, <1>5a, <2>2
    <3>2. new[i] = all[n - r + i]
      BY <1>2, <1>3, <1>5, <3>1
    <3> DEFINE k == Len(noted) - Len(new) + i
    <3>3. k \in 1 .. n - s /\ s + k = n - r + i
      BY <1>1, <1>2, <1>4, <1>5, <1>6, <1>5a, <3>1
    <3> QED BY <1>4, <3>2, <3>3
  <2> QED BY <2>1, <2>2
<1>8. /\ \A i \in 1 .. Len(noted) : noted[i] <= now
      /\ \A i, j \in 1 .. Len(noted) : i <= j => noted[i] <= noted[j]
  <2>1. \A i \in 1 .. Len(noted) : i = Len(noted) \/ (i \in 1 .. n - s /\ s + i \in 1 .. n)
    BY <1>1, <1>4
  <2>2. \A i \in 1 .. Len(noted) : noted[i] <= now
    BY <1>3, <1>4, <2>1
  <2>3. ASSUME NEW i \in 1 .. Len(noted), NEW j \in 1 .. Len(noted), i <= j
        PROVE  noted[i] <= noted[j]
    <3>1. CASE j = Len(noted)
      BY <1>4, <2>2, <3>1
    <3>2. CASE j # Len(noted)
      <4>1. j < Len(noted) /\ i # Len(noted) /\ s + i <= s + j
        BY <1>1, <1>4, <2>3, <3>2
      <4>2. i \in 1 .. n - s /\ j \in 1 .. n - s /\ s + i \in 1 .. n /\ s + j \in 1 .. n
        BY <2>1, <3>2, <4>1
      <4> QED BY <1>3, <1>4, <4>1, <4>2
    <3> QED BY <3>1, <3>2
  <2> QED BY <2>2, <2>3
<1>9. Len(new) < Len(noted) => noted[Len(noted)] - noted[Len(noted) - Len(new)] >= RetryWindow
  <2> SUFFICES ASSUME Len(new) < Len(noted)
               PROVE  now - noted[Len(noted) - Len(new)] >= RetryWindow
    BY <1>4
  <2> DEFINE k == Len(noted) - Len(new)
  <2>0a. s \in Int /\ n \in Int /\ r \in Int /\ s >= 0 /\ r >= 0
    BY <1>5b
  <2>0b. k = n - s - r /\ k > 0
    BY SMTT(60), <1>5b, <1>5c
  <2> HIDE DEF k
  <2>1. k \in 1 .. n - s /\ s + k = n - r /\ n - r \in 1 .. n
    BY <2>0b, <2>0a
  <2>2. noted[Len(noted) - Len(new)] = all[n - r]
    BY <1>4, <2>1 DEF k
  <2>3. CASE d > 0
    <3>1. d \in 1 .. m /\ n - m + d = n - r
      BY <1>1, <1>2, <1>5a, <2>3
    <3>2. times[d] = all[n - r]
      BY <1>3, <3>1
    <3> QED BY <1>2, <2>2, <2>3, <3>2
  <2>4. CASE ~(d > 0)
    <3>1. r = m /\ m < n
      BY <1>1, <1>2, <1>5a, <2>1, <2>4
    <3>1a. n \in 1 .. n
      BY <1>1, <3>1
    <3>2. all[n] <= now /\ all[n] \in Nat /\ all[n - r] \in Nat
      BY <1>3, <2>1, <3>1a
    <3>3. CASE m = 0
      <4>1. all[n - r] = all[n] /\ now - all[n] >= TamperTimeout
        BY <1>1, <1>3, <3>1, <3>3
      <4> QED BY SMTT(60), <1>1, <2>2, <3>2, <4>1
    <3>4. CASE m # 0
      <4>1. all[n] - all[n - r] >= RetryWindow
        BY <1>3, <3>1, <3>4
      <4>2. now - all[n - r] >= RetryWindow
        BY SMTT(60), <1>5b, <3>2, <4>1
      <4> QED BY <2>2, <4>2
    <3> QED BY <3>3, <3>4
  <2> QED BY <2>3, <2>4
<1>10. Len(new) # 0
  BY <1>2, <1>5
<1>11. Follows(new, noted, now)
  BY <1>4, <1>5, <1>6, <1>7, <1>8, <1>9, <1>10 DEF Follows
<1> QED BY <1>11 DEF new, recent, noted

-----------------------------------------------------------------------------
TamperInv ==
    /\ wrong \in [Users -> Seq(Nat)]
    /\ \A u \in Users : Follows(failed[u], wrong[u], now)

LEMMA NothingFollows == ASSUME now \in Nat PROVE Follows(<<>>, <<>>, now)
<1>1. <<>> \in Seq(Nat) /\ Len(<<>>) = 0 /\ RetryTimes \in Nat
  BY EmptySeq, NumbersAssumption
<1> QED BY <1>1 DEF Follows

LEMMA LaterFollows ==
    ASSUME NEW time \in Nat, NEW times, NEW all, Follows(times, all, time)
    PROVE  Follows(times, all, time + 1)
<1> DEFINE n == Len(all)
           newest == all[n]
           recent == newest - all[n - Len(times)] >= RetryWindow
<1>1. n \in Nat /\ Len(times) \in Nat /\ TamperTimeout \in Nat
  BY LenProperties, NumbersAssumption DEF Follows
<1>2. \A i \in 1 .. n : all[i] \in Nat
  BY ElementOfSeq DEF Follows
<1>3. \A i \in 1 .. n : all[i] <= time + 1
  <2>1. \A i \in 1 .. n : all[i] <= time
    BY DEF Follows
  <2> HIDE DEF n
  <2> QED BY <1>2, <2>1
<1>4. Len(times) < n => IF Len(times) = 0 THEN (time + 1) - newest >= TamperTimeout ELSE recent
  <2>1. Len(times) < n => IF Len(times) = 0 THEN time - newest >= TamperTimeout ELSE recent
    BY DEF Follows
  <2>2. Len(times) < n => newest \in Nat
    BY <1>1, <1>2
  <2> HIDE DEF n, newest, recent
  <2> QED BY <1>1, <2>1, <2>2
<1>5. /\ times \in Seq(Nat) /\ all \in Seq(Nat) /\ Len(times) <= n /\ n <= RetryTimes
      /\ \A i \in 1 .. Len(times) : times[i] = all[n - Len(times) + i]
      /\ \A i, j \in 1 .. n : i <= j => all[i] <= all[j]
  BY DEF Follows
<1> QED BY <1>3, <1>4, <1>5 DEF Follows

LEMMA TamperSet ==
    ASSUME TamperInv, FailedTyped, NEW u \in Users, NEW times, NEW all, Follows(times, all, now), now' = now,
           failed' = [failed EXCEPT ![u] = times], wrong' = [wrong EXCEPT ![u] = all]
    PROVE  TamperInv'
<1>1. DOMAIN failed = Users /\ all \in Seq(Nat)
  BY DEF FailedTyped, Follows
<1>2. \A v \in Users : Follows(failed'[v], wrong'[v], now')
  BY <1>1 DEF TamperInv
<1>3. wrong' \in [Users -> Seq(Nat)]
  BY <1>1 DEF TamperInv
<1> QED BY <1>2, <1>3 DEF TamperInv

(* A user who is not blocked: there is room for one more failure. *)
LEMMA RememberedFollows ==
    ASSUME now \in Nat, NEW u \in Users, Follows(failed[u], wrong[u], now), ~Blocked(u)
    PROVE  Follows(Remembered(u), wrong[u], now) /\ ~FailureRaises(Remembered(u))
<1> DEFINE times == failed[u]
           all == wrong[u]
           kept == Remembered(u)
<1>1. Len(times) \in Nat /\ RetryTimes \in Nat \ {0} /\ TamperTimeout \in Nat
  BY LenProperties, NumbersAssumption DEF Follows
<1>2. ASSUME Len(times) >= RetryTimes
      PROVE  Follows(kept, all, now) /\ Len(kept) < RetryTimes
  <2>1. /\ Last(times) \in Nat /\ ~(now - Last(times) < TamperTimeout)
    <3>1. times \in Seq(Nat) /\ Len(times) \in 1 .. Len(times)
      BY <1>1, <1>2 DEF Follows
    <3>2. Last(times) \in Nat
      BY <3>1, ElementOfSeq DEF Last
    <3> QED BY <1>2, <3>2 DEF Blocked
  <2>2. now - Last(times) >= TamperTimeout
    BY <1>1, <2>1
  <2>3. Follows(<<>>, all, now)
    BY <1>2, <2>2, ForgottenFollows
  <2>4. kept = <<>> /\ Len(<<>>) = 0
    BY <1>2, EmptySeq DEF Remembered
  <2> QED BY <1>1, <2>3, <2>4
<1>3. ASSUME ~(Len(times) >= RetryTimes)
      PROVE  Follows(kept, all, now) /\ Len(kept) < RetryTimes
  BY <1>1, <1>3 DEF Remembered
<1>4. Follows(kept, all, now) /\ Len(kept) < RetryTimes
  BY <1>2, <1>3
<1> HIDE DEF kept
<1>5. Len(Recent(kept)) \in Nat /\ Len(kept) - Len(Recent(kept)) \in Nat /\ Len(kept) \in Nat
  BY <1>4, RecentEnd, LenProperties DEF Follows
<1>6. ~FailureRaises(kept)
  BY <1>1, <1>4, <1>5 DEF FailureRaises
<1> QED BY <1>4, <1>6 DEF kept

LEMMA TamperStep ==
    ASSUME RetryWindow <= TamperTimeout, TypeInv, TamperInv, [Next]_vars
    PROVE  TamperInv'
<1>1. now \in Nat /\ FailedTyped /\ DOMAIN failed = Users
  BY NumbersAssumption DEF TypeInv, FailedTyped, Times
<1>2. ASSUME UNCHANGED <<now, failed, wrong>>
      PROVE  TamperInv'
  BY <1>2 DEF TamperInv, Follows
<1>4. ASSUME NEW c \in Clients, ArriveLogin(c) \/ ArriveAdmin(c)
      PROVE  TamperInv'
  <2>1. UNCHANGED <<now, failed, wrong>>
    BY <1>4 DEF ArriveLogin, ArriveAdmin, Arrive
  <2> QED BY <1>2, <2>1
<1>5. ASSUME NEW c \in Clients, Handles(c, "login")
      PROVE  req[c].user \in Users /\ now' = now
  BY <1>5, HandlesTyped DEF TypeInv, Ops
<1>6. ASSUME NEW c \in Clients, RefreshRefused(c)
      PROVE  TamperInv'
  <2> DEFINE u == req[c].user
             times == failed[u]
  <2>1. u \in Users /\ now' = now /\ Failed(u, times)
    BY <1>5, <1>6 DEF RefreshRefused
  <2>2. Follows(times, wrong[u], now)
    BY <2>1 DEF TamperInv
  <2>3. CASE FailureRaises(times)
    <3>1. Recent(times) = times
      BY <1>1, <2>2, <2>3, RaisingForgetsNone
    <3>2. failed' = [failed EXCEPT ![u] = times] /\ wrong' = wrong
      BY <1>6, <2>1, <2>3, <3>1 DEF Failed, RefreshRefused
    <3>3. failed' = failed
      BY <1>1, <2>1, <3>2 DEF FailedTyped
    <3> QED BY <1>2, <2>1, <3>2, <3>3
  <2>4. CASE ~FailureRaises(times)
    <3>1. failed' = [failed EXCEPT ![u] = Append(Recent(times), now)]
      BY <2>1, <2>4 DEF Failed
    <3>2. wrong' = [wrong EXCEPT ![u] = Noted(wrong[u])]
      <4>1. Note(u)
        BY <1>6, <2>4 DEF RefreshRefused
      <4>2. wrong[u] \in Seq(Nat) /\ Len(Append(wrong[u], now)) = Len(wrong[u]) + 1
        BY <1>1, <2>1, AppendProperties DEF TamperInv
      <4> QED BY <4>1, <4>2 DEF Note, Noted
    <3>3. Follows(Append(Recent(times), now), Noted(wrong[u]), now)
      BY <1>1, <2>2, <2>4, NotedFollows
    <3> QED BY <1>1, <2>1, <3>1, <3>2, <3>3, TamperSet
  <2> QED BY <2>3, <2>4
<1>7. ASSUME NEW c \in Clients, Refresh(c) \/ Login(c)
      PROVE  TamperInv'
  <2>1. req[c].user \in Users /\ now' = now
    BY <1>5, <1>7 DEF Refresh, Login
  <2>2. failed' = [failed EXCEPT ![req[c].user] = <<>>] /\ wrong' = [wrong EXCEPT ![req[c].user] = <<>>]
    BY <1>7 DEF Refresh, Login
  <2> QED BY <1>1, <2>1, <2>2, NothingFollows, TamperSet
<1>8. ASSUME NEW c \in Clients, LoginRaises(c) \/ LoginRefused(c)
      PROVE  TamperInv'
  <2> DEFINE u == req[c].user
             kept == Remembered(u)
  <2>1. u \in Users /\ now' = now /\ ~Blocked(u)
    BY <1>5, <1>8 DEF LoginRaises, LoginRefused
  <2>2. Follows(kept, wrong[u], now) /\ ~FailureRaises(kept)
    BY <1>1, <2>1, RememberedFollows DEF TamperInv
  <2> HIDE DEF kept
  <2>3. CASE failed' = [failed EXCEPT ![u] = kept] /\ wrong' = wrong
    <3>1. wrong' = [wrong EXCEPT ![u] = wrong[u]]
      BY <2>1, <2>3 DEF TamperInv
    <3> QED BY <1>1, <2>1, <2>2, <2>3, <3>1, TamperSet
  <2>4. CASE Failed(u, kept) /\ Note(u)
    <3>1. failed' = [failed EXCEPT ![u] = Append(Recent(kept), now)]
      BY <2>2, <2>4 DEF Failed
    <3>2. wrong' = [wrong EXCEPT ![u] = Noted(wrong[u])]
      <4>1. wrong[u] \in Seq(Nat) /\ Len(Append(wrong[u], now)) = Len(wrong[u]) + 1
        BY <1>1, <2>1, AppendProperties DEF TamperInv
      <4> QED BY <2>4, <4>1 DEF Note, Noted
    <3>3. Follows(Append(Recent(kept), now), Noted(wrong[u]), now)
      BY <1>1, <2>2, NotedFollows
    <3> QED BY <1>1, <2>1, <3>1, <3>2, <3>3, TamperSet
  <2> QED BY <1>8, <2>3, <2>4 DEF LoginRaises, LoginRefused, kept
<1>9. ASSUME NEW c \in Clients, \/ LoginBlocked(c) \/ Logout(c) \/ AddUser(c) \/ UpdatePassword(c)
                                \/ UpdatePermission(c) \/ DeleteUser(c)
      PROVE  TamperInv'
  <2>1. UNCHANGED <<now, failed, wrong>>
    BY <1>9 DEF LoginBlocked, Logout, AddUser, UpdatePassword, UpdatePermission, DeleteUser, Handles
  <2> QED BY <1>2, <2>1
<1>10. CASE Restart
  <2>1. failed' = [u \in Users |-> <<>>] /\ wrong' = [u \in Users |-> <<>>] /\ now' = now
    BY <1>10 DEF Restart
  <2>2. <<>> \in Seq(Nat)
    BY EmptySeq
  <2> QED BY <1>1, <2>1, <2>2, NothingFollows DEF TamperInv
<1>11. CASE Tick
  <2>1. now' = now + 1 /\ UNCHANGED <<failed, wrong>>
    BY <1>11 DEF Tick
  <2>2. \A u \in Users : Follows(failed[u], wrong[u], now + 1)
    BY <1>1, LaterFollows DEF TamperInv
  <2> QED BY <2>1, <2>2 DEF TamperInv
<1>12. CASE UNCHANGED vars
  BY <1>2, <1>12 DEF vars
<1> QED BY <1>4, <1>6, <1>7, <1>8, <1>9, <1>10, <1>11, <1>12 DEF Next

(* Whoever is not blocked has not been given wrongly too often of late. *)
LEMMA NotTampered ==
    ASSUME RetryWindow <= TamperTimeout, now \in Nat, NEW u \in Users, Follows(failed[u], wrong[u], now), ~Blocked(u)
    PROVE  ~Tampered(u)
<1> DEFINE m == Len(failed[u])
           all == wrong[u]
           n == Len(all)
<1>1. m \in Nat /\ n \in Nat /\ m <= n /\ n <= RetryTimes /\ RetryTimes \in Nat \ {0} /\ {RetryWindow, TamperTimeout} \subseteq Nat
  BY LenProperties, NumbersAssumption DEF Follows
<1>2. \A i \in 1 .. n : all[i] \in Nat /\ all[i] <= now
  BY ElementOfSeq DEF Follows
<1>3. /\ \A i, j \in 1 .. n : i <= j => all[i] <= all[j]
      /\ m < n => IF m = 0 THEN now - all[n] >= TamperTimeout ELSE all[n] - all[n - m] >= RetryWindow
      /\ \A i \in 1 .. m : failed[u][i] = all[n - m + i]
  BY DEF Follows
<1>4. SUFFICES ASSUME n >= RetryTimes, all[n] - all[n - RetryTimes + 1] < RetryWindow, now - all[n] < TamperTimeout
               PROVE  FALSE
  BY DEF Tampered
<1>5. ~(m >= RetryTimes /\ now - failed[u][m] < TamperTimeout)
  BY DEF Blocked, Last
<1> HIDE DEF m, n, all
<1>6. n = RetryTimes /\ n - RetryTimes + 1 = 1 /\ 1 \in 1 .. n /\ n \in 1 .. n
  BY <1>1, <1>4
<1>7. CASE m = n
  <2>1. m \in 1 .. m /\ n - m + m = n
    BY <1>1, <1>6, <1>7
  <2>2. failed[u][m] = all[n]
    BY <1>3, <2>1
  <2> QED BY <1>1, <1>4, <1>5, <1>6, <1>7, <2>2
<1>8. CASE m < n
  <2>1. CASE m = 0
    <3>1. all[n] \in Nat /\ now - all[n] >= TamperTimeout
      BY <1>2, <1>3, <1>6, <1>8, <2>1
    <3> QED BY <1>1, <1>4, <3>1
  <2>2. CASE m # 0
    <3>1. n - m \in 1 .. n /\ 1 <= n - m
      BY <1>1, <1>8, <2>2
    <3>2. all[n] - all[n - m] >= RetryWindow
      BY <1>3, <1>8, <2>2
    <3>3. all[1] <= all[n - m] /\ all[1] \in Nat /\ all[n - m] \in Nat /\ all[n] \in Nat
      BY <1>2, <1>3, <1>6, <3>1
    <3>4. all[n] - all[1] < RetryWindow
      BY <1>4, <1>6
    <3> QED BY <1>1, <3>2, <3>3, <3>4
  <2> QED BY <2>1, <2>2
<1> QED BY <1>1, <1>7, <1>8

(* Where a block lasts at least as long as the window in which failures count, a user   *)
(* whose password was given wrongly login_retry_times times within it gets no new       *)
(* session before tamper_protection_timeout has passed (is_user_blocked, login_failed). *)
THEOREM TamperingWaits ==
    ASSUME RetryWindow <= TamperTimeout
    PROVE  Spec => TamperedWait
<1>1. Init => TamperInv
  <2> SUFFICES ASSUME Init
               PROVE  TamperInv
    OBVIOUS
  <2>1. now \in Nat /\ failed = [u \in Users |-> <<>>] /\ wrong = [u \in Users |-> <<>>]
    BY DEF Init
  <2>2. <<>> \in Seq(Nat)
    BY EmptySeq
  <2> QED BY <2>1, <2>2, NothingFollows DEF TamperInv
<1>2. TypeInv /\ TamperInv /\ [Next]_vars => TamperInv'
  BY TamperStep
<1>3. TypeInv /\ TamperInv /\ [Next]_vars => [\A c \in Clients : Login(c) => ~Tampered(req[c].user)]_vars
  <2> SUFFICES ASSUME TypeInv, TamperInv, NEW c \in Clients, Login(c)
               PROVE  ~Tampered(req[c].user)
    OBVIOUS
  <2>1. req[c].user \in Users /\ ~Blocked(req[c].user)
    BY HandlesTyped DEF Login, TypeInv, Ops
  <2>2. now \in Nat
    BY NumbersAssumption DEF TypeInv, Times
  <2> QED BY <2>1, <2>2, NotTampered DEF TamperInv
<1>4. Accounts => TypeInv
  BY DEF Accounts
<1> QED BY <1>1, <1>2, <1>3, <1>4, AccountsStart, AccountsStep, PTL DEF Spec, TamperedWait
=============================================================================
