----------------------------- MODULE Network_proof -----------------------------
(***************************************************************************)
(* The network service: what a request that is refused leaves, what a      *)
(* status tells, and which profiles an update may change.  The theorems    *)
(* hold for any devices, profiles, clients and requests.                   *)
(***************************************************************************)
EXTENDS NetworkStatus, SequenceTheorems, WellFoundedInduction, TLAPS

-----------------------------------------------------------------------------
(* Profiles and other dictionaries.  The provers do not know that a literal is a string. *)
Text == STRING \cup {"", "made"}
Dictionaries == UNION {[keys -> Text] : keys \in SUBSET Keys}

LEMMA DictionaryDef ==
    ASSUME NEW s
    PROVE  s \in Dictionaries <=> DOMAIN s \subseteq Keys /\ s \in [DOMAIN s -> Text]
BY DEF Dictionaries

LEMMA DictionaryIs ==
    ASSUME NEW s, IsDictionary(s)
    PROVE  s \in Dictionaries
BY DictionaryDef DEF IsDictionary, Text

LEMMA KeysAre == Keys = {"id", "uuid", "type", "iface", "ssid", "keymgmt"}
BY DEF Keys, Sections, SectionKeys

LEMMA DeletedIs == Deleted \in Dictionaries /\ DOMAIN Deleted = {}
<1>1. DOMAIN Deleted = {} /\ Deleted = [k \in {} |-> ""]
  BY DEF Deleted
<1> QED BY <1>1, DictionaryDef

LEMMA OverIs ==
    ASSUME NEW s \in Dictionaries, NEW under \in Dictionaries
    PROVE  Over(s, under) \in Dictionaries
BY DictionaryDef DEF Over

LEMMA OnlyIs ==
    ASSUME NEW s \in Dictionaries, NEW keys
    PROVE  Only(s, keys) \in Dictionaries
BY DictionaryDef DEF Only

LEMMA MergedIs ==
    ASSUME NEW s \in Dictionaries, NEW new \in Dictionaries
    PROVE  Merged(s, new) \in Dictionaries
<1> DEFINE kept == DOMAIN s \ UNION {SectionKeys[t] : t \in Named(new)}
<1>2. kept \subseteq DOMAIN s /\ Merged(s, new) = [k \in kept \cup DOMAIN new |-> IF k \in DOMAIN new THEN new[k] ELSE s[k]]
  BY DEF Merged
<1> HIDE DEF kept
<1> QED BY <1>2, DictionaryDef

LEMMA AsUuidIs ==
    ASSUME NEW text \in Text
    PROVE  [uuid |-> text] \in Dictionaries /\ [id |-> text] \in Dictionaries
BY KeysAre, DictionaryDef

LEMMA AddedIs ==
    ASSUME NEW s \in Dictionaries
    PROVE  Added(s) \in Dictionaries
BY AsUuidIs, OverIs DEF Added, Text

(* A complete profile has what is read of every profile. *)
LEMMA CompleteIs ==
    ASSUME NEW s \in Dictionaries, Complete(s)
    PROVE  s # Deleted /\ {s["id"], s["uuid"]} \subseteq Text
<1>2. {"id", "uuid"} \subseteq DOMAIN s
  BY DEF Complete
<1>3. s # Deleted
  BY <1>2, DeletedIs
<1>4. \A k \in DOMAIN s : s[k] \in Text
  BY DictionaryDef
<1> QED BY <1>2, <1>3, <1>4

-----------------------------------------------------------------------------
(* A request. *)
Harmless == {"hasUuid", "path", "settings", "device", "activate", "deactivate", "release", "poll", "fill", "details",
             "general", "addresses", "leases", "isActive", "add", "readNew"}
Stages == Harmless \cup {"uuidOfId", "idOfUuid", "write", "delete", "hasNewId", "hasNewUuid", "freshId", "existsId",
                       "existsUuid", "list", "plain", "match", "nameOrUuid", "create"}
Replies == {"none", "ok", "error", "bad", "reserved", "notfound", "inactive"}
Request ==
    [op : Ops \cup {"none"}, uuid : Text, id : Text, new : Dictionaries, act : {"none", "on", "off"}, over : BOOLEAN,
     todo : Seq(Stages), listed : BOOLEAN, scan : SUBSET Nat, exists : BOOLEAN, path : Nat, conn : Nat,
     got : Dictionaries, polls : Nat, sections : SUBSET Sections, entries : SUBSET [uuid : Text, activated : BOOLEAN],
     answer : Dictionaries, wrote : BOOLEAN, reply : Replies]

LEMMA IdleIs == Idle \in Request
<1>1. <<>> \in Seq(Stages) /\ Deleted \in Dictionaries
  BY DeletedIs, EmptySeq
<1>2. {} \in SUBSET Nat /\ {} \in SUBSET Sections /\ {} \in SUBSET [uuid : Text, activated : BOOLEAN]
  OBVIOUS
<1>3. "" \in Text /\ "none" \in Replies /\ "none" \in Ops \cup {"none"}
  BY DEF Text, Replies
<1> QED BY <1>1, <1>2, <1>3 DEF Idle, Request

LEMMA TailIs ==
    ASSUME NEW s \in Seq(Stages), s # <<>>
    PROVE  /\ Tail(s) \in Seq(Stages) /\ Head(s) \in Stages
           /\ Len(Tail(s)) = Len(s) - 1 /\ Len(s) \in Nat \ {0}
           /\ \A i \in 1..Len(s) - 1 : Tail(s)[i] = s[i + 1]
           /\ Head(s) = s[1]
BY HeadTailProperties, LenProperties, EmptySeq

LEMMA DoneIs ==
    ASSUME NEW r \in Request, r.todo # <<>>
    PROVE  Done(r) \in Request
BY TailIs DEF Done, Request

LEMMA StopIs ==
    ASSUME NEW r \in Request, NEW reply \in Replies
    PROVE  Stop(r, reply) \in Request
<1>1. <<>> \in Seq(Stages) /\ {} \in SUBSET Nat
  BY EmptySeq
<1> QED BY <1>1 DEF Stop, Request

LEMMA ThenIs ==
    ASSUME NEW r \in Request, r.todo # <<>>, NEW stages \in Seq(Stages)
    PROVE  Then(r, stages) \in Request
<1>1. Tail(r.todo) \in Seq(Stages)
  BY TailIs DEF Request
<1>2. stages \o Tail(r.todo) \in Seq(Stages)
  BY <1>1, ConcatProperties
<1>3. Done(r) \in Request /\ Done(r).todo = Tail(r.todo)
  BY DoneIs DEF Done, Request
<1> QED BY <1>2, <1>3 DEF Then, Request

-----------------------------------------------------------------------------
(* The stages of a request come in an order: each of some comes right after the   *)
(* one it needs, and after one that changes something, or that is replaced by      *)
(* those that do, come only stages that never refuse a request.                    *)
Needed == [settings |-> "path", fill |-> "path", delete |-> "path", write |-> "settings",
           device |-> "settings", activate |-> "device", readNew |-> "add"]
Linked(s) == \A i \in 2..Len(s) : s[i] \in DOMAIN Needed => s[i - 1] = Needed[s[i]]
Changing == {"add", "write", "delete", "activate", "release"}
Replaced == {"existsId", "existsUuid", "match", "nameOrUuid", "create", "hasNewUuid"}
Turning(op) == Changing \cup Replaced \cup (IF op = "post" THEN {"freshId"} ELSE {})
InOrder(s, op) == \A i, j \in 1..Len(s) : i < j /\ s[i] \in Turning(op) => s[j] \in Harmless
Refuses(s) == \E i \in 1..Len(s) : s[i] \notin Harmless
Turns(s, op) == \E i \in 1..Len(s) : s[i] \in Turning(op)

(* A list of stages that a stage may be replaced by. *)
Block(s, op) ==
    s \in Seq(Stages) /\ Linked(s) /\ InOrder(s, op) /\ (s # <<>> => Head(s) \notin DOMAIN Needed)

LEMMA JoinedIs ==
    ASSUME NEW s \in Seq(Stages), NEW t \in Seq(Stages)
    PROVE  /\ s \o t \in Seq(Stages) /\ Len(s \o t) = Len(s) + Len(t) /\ Len(s) \in Nat /\ Len(t) \in Nat
           /\ \A i \in 1..Len(s) : (s \o t)[i] = s[i]
           /\ \A i \in 1..Len(t) : (s \o t)[Len(s) + i] = t[i]
           /\ \A i \in 1..Len(s) + Len(t) : i > Len(s) => i - Len(s) \in 1..Len(t) /\ (s \o t)[i] = t[i - Len(s)]
BY ConcatProperties, LenProperties

LEMMA LinkedJoin ==
    ASSUME NEW s \in Seq(Stages), NEW t \in Seq(Stages), Linked(s), Linked(t),
           t # <<>> => Head(t) \notin DOMAIN Needed
    PROVE  Linked(s \o t)
<1> SUFFICES ASSUME NEW i \in 2..Len(s \o t), (s \o t)[i] \in DOMAIN Needed
             PROVE  (s \o t)[i - 1] = Needed[(s \o t)[i]]
  BY DEF Linked
<1>1. CASE i <= Len(s)
  <2>1. i \in 2..Len(s) /\ i \in 1..Len(s) /\ i - 1 \in 1..Len(s)
    BY <1>1, JoinedIs
  <2>2. (s \o t)[i] = s[i] /\ (s \o t)[i - 1] = s[i - 1]
    BY <2>1, JoinedIs
  <2> QED BY <2>1, <2>2 DEF Linked
<1>2. CASE i = Len(s) + 1
  <2>1. i \in 1..Len(s) + Len(t) /\ i > Len(s) /\ i - Len(s) = 1 /\ Len(t) # 0
    BY <1>2, JoinedIs
  <2>2. (s \o t)[i] = t[1] /\ t # <<>> /\ Head(t) = t[1]
    BY <2>1, JoinedIs, HeadTailProperties, LenProperties, EmptySeq
  <2> QED BY <2>2
<1>3. CASE i > Len(s) + 1
  <2>1. i \in 1..Len(s) + Len(t) /\ i > Len(s) /\ i - 1 \in 1..Len(s) + Len(t) /\ i - 1 > Len(s)
    BY <1>3, JoinedIs
  <2>2. i - Len(s) \in 2..Len(t) /\ (i - 1) - Len(s) = (i - Len(s)) - 1
    BY <2>1, <1>3, JoinedIs
  <2>3. (s \o t)[i] = t[i - Len(s)] /\ (s \o t)[i - 1] = t[(i - 1) - Len(s)]
    BY <2>1, JoinedIs
  <2> QED BY <2>2, <2>3 DEF Linked
<1> QED BY <1>1, <1>2, <1>3, JoinedIs

LEMMA InOrderJoin ==
    ASSUME NEW s \in Seq(Stages), NEW t \in Seq(Stages), NEW op, InOrder(s, op), InOrder(t, op),
           ~Turns(s, op) \/ ~Refuses(t)
    PROVE  InOrder(s \o t, op)
<1> SUFFICES ASSUME NEW i \in 1..Len(s \o t), NEW j \in 1..Len(s \o t), i < j, (s \o t)[i] \in Turning(op)
             PROVE  (s \o t)[j] \in Harmless
  BY DEF InOrder
<1>1. CASE j <= Len(s)
  <2>1. i \in 1..Len(s) /\ j \in 1..Len(s)
    BY <1>1, JoinedIs
  <2>2. (s \o t)[i] = s[i] /\ (s \o t)[j] = s[j]
    BY <2>1, JoinedIs
  <2> QED BY <2>1, <2>2 DEF InOrder
<1>2. CASE i <= Len(s) /\ j > Len(s)
  <2>1. i \in 1..Len(s) /\ j - Len(s) \in 1..Len(t) /\ (s \o t)[i] = s[i] /\ (s \o t)[j] = t[j - Len(s)]
    BY <1>2, JoinedIs
  <2> QED BY <2>1 DEF Turns, Refuses
<1>3. CASE i > Len(s)
  <2>1. i - Len(s) \in 1..Len(t) /\ j - Len(s) \in 1..Len(t) /\ i - Len(s) < j - Len(s)
    BY <1>3, JoinedIs
  <2>2. (s \o t)[i] = t[i - Len(s)] /\ (s \o t)[j] = t[j - Len(s)]
    BY <1>3, JoinedIs
  <2> QED BY <2>1, <2>2 DEF InOrder
<1> QED BY <1>1, <1>2, <1>3, JoinedIs

LEMMA HarmlessJoin ==
    ASSUME NEW s \in Seq(Stages), NEW t \in Seq(Stages), ~Refuses(s), ~Refuses(t)
    PROVE  ~Refuses(s \o t)
<1> SUFFICES ASSUME NEW i \in 1..Len(s \o t)
             PROVE  (s \o t)[i] \in Harmless
  BY DEF Refuses
<1>1. CASE i <= Len(s)
  BY <1>1, JoinedIs DEF Refuses
<1>2. CASE i > Len(s)
  <2>1. i - Len(s) \in 1..Len(t) /\ (s \o t)[i] = t[i - Len(s)]
    BY <1>2, JoinedIs
  <2> QED BY <2>1 DEF Refuses
<1> QED BY <1>1, <1>2, JoinedIs

LEMMA NoTurnJoin ==
    ASSUME NEW s \in Seq(Stages), NEW t \in Seq(Stages), NEW op, ~Turns(s, op), ~Turns(t, op)
    PROVE  ~Turns(s \o t, op)
<1> SUFFICES ASSUME NEW i \in 1..Len(s \o t)
             PROVE  (s \o t)[i] \notin Turning(op)
  BY DEF Turns
<1>1. CASE i <= Len(s)
  BY <1>1, JoinedIs DEF Turns
<1>2. CASE i > Len(s)
  <2>1. i - Len(s) \in 1..Len(t) /\ (s \o t)[i] = t[i - Len(s)]
    BY <1>2, JoinedIs
  <2> QED BY <2>1 DEF Turns
<1> QED BY <1>1, <1>2, JoinedIs

LEMMA TailKeeps ==
    ASSUME NEW s \in Seq(Stages), s # <<>>, NEW op, Linked(s), InOrder(s, op)
    PROVE  /\ Linked(Tail(s)) /\ InOrder(Tail(s), op)
           /\ Head(s) \in Turning(op) => ~Refuses(Tail(s))
           /\ ~Refuses(s) => ~Refuses(Tail(s)) /\ Head(s) \in Harmless
           /\ (Tail(s) # <<>> /\ Head(Tail(s)) \in DOMAIN Needed) => Head(s) = Needed[Head(Tail(s))]
<1>1. \A i \in 1..Len(Tail(s)) : i + 1 \in 2..Len(s) /\ Tail(s)[i] = s[i + 1] /\ (i > 1 => i - 1 \in 1..Len(Tail(s)) /\ Tail(s)[i - 1] = s[i])
  BY TailIs
<1>2. Linked(Tail(s))
  <2> SUFFICES ASSUME NEW i \in 2..Len(Tail(s)), Tail(s)[i] \in DOMAIN Needed
               PROVE  Tail(s)[i - 1] = Needed[Tail(s)[i]]
    BY DEF Linked
  <2>1. i \in 1..Len(Tail(s)) /\ i > 1
    BY TailIs
  <2>2. i + 1 \in 2..Len(s) /\ Tail(s)[i] = s[i + 1] /\ Tail(s)[i - 1] = s[i] /\ (i + 1) - 1 = i
    BY <1>1, <2>1
  <2>3. s[i + 1] \in DOMAIN Needed => s[(i + 1) - 1] = Needed[s[i + 1]]
    BY <2>2 DEF Linked
  <2> QED BY <2>2, <2>3
<1>3. InOrder(Tail(s), op)
  <2> SUFFICES ASSUME NEW i \in 1..Len(Tail(s)), NEW j \in 1..Len(Tail(s)), i < j, Tail(s)[i] \in Turning(op)
               PROVE  Tail(s)[j] \in Harmless
    BY DEF InOrder
  <2>1. i + 1 \in 1..Len(s) /\ j + 1 \in 1..Len(s) /\ i + 1 < j + 1 /\ Tail(s)[i] = s[i + 1] /\ Tail(s)[j] = s[j + 1]
    BY TailIs
  <2> QED BY <2>1 DEF InOrder
<1>4. ASSUME Head(s) \in Turning(op)
      PROVE  ~Refuses(Tail(s))
  <2> SUFFICES ASSUME NEW i \in 1..Len(Tail(s))
               PROVE  Tail(s)[i] \in Harmless
    BY DEF Refuses
  <2>1. 1 \in 1..Len(s) /\ i + 1 \in 1..Len(s) /\ 1 < i + 1 /\ Tail(s)[i] = s[i + 1] /\ Head(s) = s[1]
    BY TailIs
  <2> QED BY <1>4, <2>1 DEF InOrder
<1>5. ASSUME ~Refuses(s)
      PROVE  ~Refuses(Tail(s)) /\ Head(s) \in Harmless
  <2>1. ASSUME NEW i \in 1..Len(Tail(s))
        PROVE  Tail(s)[i] \in Harmless
    BY <1>1, <1>5, TailIs DEF Refuses
  <2>2. 1 \in 1..Len(s) /\ Head(s) = s[1]
    BY TailIs
  <2> QED BY <1>5, <2>1, <2>2 DEF Refuses
<1>6. ASSUME Tail(s) # <<>>, Head(Tail(s)) \in DOMAIN Needed
      PROVE  Head(s) = Needed[Head(Tail(s))]
  <2>1. Head(Tail(s)) = Tail(s)[1] /\ Len(Tail(s)) > 0
    BY <1>6, TailIs
  <2>2. 2 \in 2..Len(s) /\ Tail(s)[1] = s[2] /\ Head(s) = s[1] /\ 2 - 1 = 1
    BY <2>1, TailIs
  <2>3. s[2] \in DOMAIN Needed => s[2 - 1] = Needed[s[2]]
    BY <2>2 DEF Linked
  <2> QED BY <1>6, <2>1, <2>2, <2>3
<1> QED BY <1>2, <1>3, <1>4, <1>5, <1>6

LEMMA HarmlessInOrder ==
    ASSUME NEW s \in Seq(Stages), NEW op, ~Refuses(s)
    PROVE  InOrder(s, op)
BY DEF InOrder, Refuses

(* Two lists that may each stand alone, one after the other. *)
LEMMA BlockJoin ==
    ASSUME NEW op, NEW s, NEW t, Block(s, op), Block(t, op), ~Turns(s, op) \/ ~Refuses(t)
    PROVE  Block(s \o t, op)
<1>1. s \in Seq(Stages) /\ t \in Seq(Stages)
  BY DEF Block
<1>2. ASSUME s \o t # <<>>
      PROVE  Head(s \o t) \notin DOMAIN Needed
  <2>1. Head(s \o t) = (s \o t)[1] /\ 1 \in 1..Len(s) + Len(t)
    BY <1>1, <1>2, JoinedIs, TailIs
  <2>2. CASE s # <<>>
    BY <1>1, <2>1, <2>2, JoinedIs, TailIs DEF Block
  <2>3. CASE s = <<>>
    <3>1. Len(s) = 0 /\ t # <<>> /\ (s \o t)[1] = t[1]
      BY <1>1, <2>1, <2>3, JoinedIs, EmptySeq
    <3> QED BY <1>1, <2>1, <3>1, TailIs DEF Block
  <2> QED BY <2>2, <2>3
<1> QED BY <1>1, <1>2, LinkedJoin, InOrderJoin, JoinedIs DEF Block

LEMMA NothingIs ==
    ASSUME NEW op
    PROVE  Block(<<>>, op) /\ ~Refuses(<<>>) /\ ~Turns(<<>>, op)
<1>1. <<>> \in Seq(Stages) /\ Len(<<>>) = 0
  BY EmptySeq
<1> QED BY <1>1 DEF Block, Linked, InOrder, Refuses, Turns

(* The lists that are written out. *)
LEMMA GetIs ==
    ASSUME NEW op
    PROVE  Block(GetStages, op) /\ ~Refuses(GetStages) /\ ~Turns(GetStages, op)
<1>1. GetStages \in Seq(Stages) /\ GetStages # <<>> /\ Len(GetStages) = 5 /\ Head(GetStages) = "hasUuid"
  BY DEF GetStages, Stages, Harmless
<1>2. ~Refuses(GetStages)
  BY DEF GetStages, Refuses, Harmless
<1>3. ~Turns(GetStages, op)
  BY DEF GetStages, Turns, Turning, Changing, Replaced
<1>4. Linked(GetStages)
  BY DEF GetStages, Linked, Needed
<1> QED BY <1>1, <1>2, <1>3, <1>4, HarmlessInOrder DEF Block, Needed

LEMMA ActivateIs ==
    ASSUME NEW op
    PROVE  Block(ActivateStages, op) /\ ~Refuses(ActivateStages)
<1>1. ActivateStages \in Seq(Stages) /\ ActivateStages # <<>> /\ Head(ActivateStages) = "hasUuid"
  BY DEF ActivateStages, Stages, Harmless
<1>2. ~Refuses(ActivateStages)
  BY DEF ActivateStages, Refuses, Harmless
<1>3. Linked(ActivateStages)
  BY DEF ActivateStages, Linked, Needed
<1> QED BY <1>1, <1>2, <1>3, HarmlessInOrder DEF Block, Needed

LEMMA DeactivateIs ==
    ASSUME NEW op
    PROVE  Block(DeactivateStages, op) /\ ~Refuses(DeactivateStages)
<1>1. DeactivateStages \in Seq(Stages) /\ DeactivateStages # <<>> /\ Head(DeactivateStages) = "deactivate"
  BY DEF DeactivateStages, Stages, Harmless
<1>2. ~Refuses(DeactivateStages)
  BY DEF DeactivateStages, Refuses, Harmless
<1>3. Linked(DeactivateStages)
  BY DEF DeactivateStages, Linked, Needed
<1> QED BY <1>1, <1>2, <1>3, HarmlessInOrder DEF Block, Needed

LEMMA OneStage ==
    ASSUME NEW op, NEW stage \in Stages, stage \notin DOMAIN Needed
    PROVE  /\ Block(<<stage>>, op)
           /\ stage \in Harmless => ~Refuses(<<stage>>)
           /\ stage \notin Turning(op) => ~Turns(<<stage>>, op)
<1>1. <<stage>> \in Seq(Stages) /\ Len(<<stage>>) = 1 /\ Head(<<stage>>) = stage /\ <<stage>>[1] = stage
  OBVIOUS
<1>2. Linked(<<stage>>) /\ InOrder(<<stage>>, op)
  BY <1>1 DEF Linked, InOrder
<1> QED BY <1>1, <1>2 DEF Block, Refuses, Turns

LEMMA PiecesAre ==
    ASSUME NEW op
    PROVE  /\ Block(<<"path", "settings", "write">>, op)
           /\ Block(<<"hasUuid", "path", "delete">>, op)
           /\ Block(<<"add", "readNew">>, op) /\ ~Refuses(<<"add", "readNew">>)
           /\ Block(<<"general", "addresses", "leases">>, op) /\ ~Refuses(<<"general", "addresses", "leases">>)
<1>1. Block(<<"path", "settings", "write">>, op)
  <2>1. Linked(<<"path", "settings", "write">>)
    BY DEF Linked, Needed
  <2>2. InOrder(<<"path", "settings", "write">>, op)
    BY DEF InOrder, Turning, Changing, Replaced
  <2> QED BY <2>1, <2>2 DEF Block, Needed, Stages, Harmless
<1>2. Block(<<"hasUuid", "path", "delete">>, op)
  <2>1. Linked(<<"hasUuid", "path", "delete">>)
    BY DEF Linked, Needed
  <2>2. InOrder(<<"hasUuid", "path", "delete">>, op)
    BY DEF InOrder, Turning, Changing, Replaced
  <2> QED BY <2>1, <2>2 DEF Block, Needed, Stages, Harmless
<1>3. Block(<<"add", "readNew">>, op) /\ ~Refuses(<<"add", "readNew">>)
  <2>1. Linked(<<"add", "readNew">>)
    BY DEF Linked, Needed
  <2>2. ~Refuses(<<"add", "readNew">>)
    BY DEF Refuses, Harmless
  <2>3. <<"add", "readNew">> \in Seq(Stages) /\ Head(<<"add", "readNew">>) \notin DOMAIN Needed
    BY DEF Needed, Stages, Harmless
  <2> QED BY <2>1, <2>2, <2>3, HarmlessInOrder DEF Block
<1>4. Block(<<"general", "addresses", "leases">>, op) /\ ~Refuses(<<"general", "addresses", "leases">>)
  <2>1. Linked(<<"general", "addresses", "leases">>)
    BY DEF Linked, Needed
  <2>2. ~Refuses(<<"general", "addresses", "leases">>)
    BY DEF Refuses, Harmless
  <2>3. <<"general", "addresses", "leases">> \in Seq(Stages) /\ Head(<<"general", "addresses", "leases">>) \notin DOMAIN Needed
    BY DEF Needed, Stages, Harmless
  <2> QED BY <2>1, <2>2, <2>3, HarmlessInOrder DEF Block
<1> QED BY <1>1, <1>2, <1>3, <1>4

(* The methods. *)
LEMMA UpdateIs ==
    ASSUME NEW op, NEW r
    PROVE  Block(UpdateStages(r), op)
<1> DEFINE check == IF r.uuid = "" THEN <<"uuidOfId">> ELSE IF r.act = "none" THEN <<"idOfUuid">> ELSE <<>>
           write == <<"path", "settings", "write">>
           act == CASE r.act = "on" -> ActivateStages \o <<"poll">>
                    [] r.act = "off" -> DeactivateStages \o <<"poll">>
                    [] OTHER -> <<>>
<1>1. Block(check, op) /\ ~Turns(check, op)
  <2>1. {"uuidOfId", "idOfUuid"} \subseteq Stages /\ {"uuidOfId", "idOfUuid"} \cap DOMAIN Needed = {}
        /\ {"uuidOfId", "idOfUuid"} \cap Turning(op) = {}
    BY DEF Stages, Needed, Turning, Changing, Replaced
  <2> QED BY <2>1, OneStage, NothingIs
<1>2. Block(act, op) /\ ~Refuses(act)
  <2>1. Block(<<"poll">>, op) /\ ~Refuses(<<"poll">>)
    BY OneStage DEF Stages, Harmless, Needed
  <2>2. Block(ActivateStages \o <<"poll">>, op) /\ ~Refuses(ActivateStages \o <<"poll">>)
    BY <2>1, ActivateIs, BlockJoin, HarmlessJoin DEF Block
  <2>3. Block(DeactivateStages \o <<"poll">>, op) /\ ~Refuses(DeactivateStages \o <<"poll">>)
    BY <2>1, DeactivateIs, BlockJoin, HarmlessJoin DEF Block
  <2> QED BY <2>2, <2>3, NothingIs
<1>3. UpdateStages(r) = check \o write \o act \o GetStages
  BY DEF UpdateStages
<1>4. Block(write, op)
  BY PiecesAre
<1> HIDE DEF check, write, act
<1>5. Block(check \o write, op)
  BY <1>1, <1>4, BlockJoin
<1>6. Block(check \o write \o act, op)
  BY <1>2, <1>5, BlockJoin
<1>7. Block(check \o write \o act \o GetStages, op)
  BY <1>6, GetIs, BlockJoin
<1> QED BY <1>3, <1>7

LEMMA DeleteIs ==
    ASSUME NEW op, NEW r
    PROVE  Block(DeleteStages(r), op)
<1>1. ASSUME NEW check \in {"uuidOfId", "idOfUuid"}
      PROVE  Block(<<check>>, op) /\ ~Turns(<<check>>, op)
  BY OneStage DEF Stages, Needed, Turning, Changing, Replaced
<1>2. ASSUME NEW check \in {"uuidOfId", "idOfUuid"}
      PROVE  Block(<<check>> \o <<"hasUuid", "path", "delete">>, op)
  BY <1>1, PiecesAre, BlockJoin
<1> QED BY <1>2 DEF DeleteStages

(* What comes after "add" is harmless, so the whole is in order. *)
LEMMA CreateIs ==
    ASSUME NEW op, NEW r
    PROVE  Block(CreateStages(r), op)
<1> DEFINE look == IF "uuid" \in DOMAIN r.new THEN <<"hasNewUuid">> ELSE <<>>
<1>1. Block(<<"hasNewId">>, op) /\ ~Turns(<<"hasNewId">>, op)
  BY OneStage DEF Stages, Needed, Turning, Changing, Replaced
<1>2. Block(look, op)
  BY OneStage, NothingIs DEF Stages, Needed
<1>3. CreateStages(r) = <<"hasNewId">> \o look \o <<"add", "readNew">> \o GetStages
  BY DEF CreateStages
<1> HIDE DEF look
<1>4. Block(<<"hasNewId">> \o look, op)
  BY <1>1, <1>2, BlockJoin
<1>5. Block(<<"hasNewId">> \o look \o <<"add", "readNew">>, op)
  BY <1>4, PiecesAre, BlockJoin
<1>6. Block(<<"hasNewId">> \o look \o <<"add", "readNew">> \o GetStages, op)
  BY <1>5, GetIs, BlockJoin
<1> QED BY <1>3, <1>6

(* Two stages read what the request must have. *)
AtOps == {"at activate", "at deactivate", "at update", "at delete"}
Keyed(s, op, given) ==
    \A i \in 1..Len(s) : (s[i] = "hasNewUuid" => given) /\ (s[i] = "nameOrUuid" => op \in AtOps)

LEMMA KeyedJoin ==
    ASSUME NEW op, NEW given, NEW s \in Seq(Stages), NEW t \in Seq(Stages), Keyed(s, op, given), Keyed(t, op, given)
    PROVE  Keyed(s \o t, op, given)
<1> SUFFICES ASSUME NEW i \in 1..Len(s \o t)
             PROVE  ((s \o t)[i] = "hasNewUuid" => given) /\ ((s \o t)[i] = "nameOrUuid" => op \in AtOps)
  BY DEF Keyed
<1>1. CASE i <= Len(s)
  BY <1>1, JoinedIs DEF Keyed
<1>2. CASE i > Len(s)
  <2>1. i - Len(s) \in 1..Len(t) /\ (s \o t)[i] = t[i - Len(s)]
    BY <1>2, JoinedIs
  <2> QED BY <2>1 DEF Keyed
<1> QED BY <1>1, <1>2, JoinedIs

LEMMA HarmlessKeyed ==
    ASSUME NEW op, NEW given, NEW s, ~Refuses(s)
    PROVE  Keyed(s, op, given)
BY DEF Keyed, Refuses, Harmless

LEMMA TailKeyed ==
    ASSUME NEW op, NEW given, NEW s \in Seq(Stages), s # <<>>, Keyed(s, op, given)
    PROVE  Keyed(Tail(s), op, given)
<1>1. \A i \in 1..Len(Tail(s)) : i + 1 \in 1..Len(s) /\ Tail(s)[i] = s[i + 1]
  BY TailIs
<1> QED BY <1>1 DEF Keyed

LEMMA OneKeyed ==
    ASSUME NEW op, NEW given, NEW stage, stage = "hasNewUuid" => given, stage = "nameOrUuid" => op \in AtOps
    PROVE  Keyed(<<stage>>, op, given)
BY DEF Keyed

LEMMA UpdateKeyed ==
    ASSUME NEW op, NEW given, NEW r
    PROVE  Keyed(UpdateStages(r), op, given)
<1> DEFINE check == IF r.uuid = "" THEN <<"uuidOfId">> ELSE IF r.act = "none" THEN <<"idOfUuid">> ELSE <<>>
           write == <<"path", "settings", "write">>
           act == CASE r.act = "on" -> ActivateStages \o <<"poll">>
                    [] r.act = "off" -> DeactivateStages \o <<"poll">>
                    [] OTHER -> <<>>
<1>1. Keyed(check, op, given) /\ check \in Seq(Stages)
  <2>1. Keyed(<<"uuidOfId">>, op, given) /\ Keyed(<<"idOfUuid">>, op, given) /\ Keyed(<<>>, op, given)
    BY NothingIs, HarmlessKeyed, OneKeyed
  <2>2. <<"uuidOfId">> \in Seq(Stages) /\ <<"idOfUuid">> \in Seq(Stages) /\ <<>> \in Seq(Stages)
    BY EmptySeq DEF Stages
  <2> QED BY <2>1, <2>2
<1>2. Keyed(write, op, given) /\ write \in Seq(Stages)
  BY DEF Keyed, Stages, Harmless
<1>3. Keyed(act, op, given) /\ act \in Seq(Stages)
  <2>1. <<"poll">> \in Seq(Stages) /\ Keyed(<<"poll">>, op, given)
    BY OneKeyed DEF Stages, Harmless
  <2>2. ActivateStages \in Seq(Stages) /\ DeactivateStages \in Seq(Stages)
    BY ActivateIs, DeactivateIs DEF Block
  <2>3. Keyed(ActivateStages, op, given) /\ Keyed(DeactivateStages, op, given) /\ Keyed(<<>>, op, given)
    BY ActivateIs, DeactivateIs, NothingIs, HarmlessKeyed
  <2>4. /\ Keyed(ActivateStages \o <<"poll">>, op, given) /\ Keyed(DeactivateStages \o <<"poll">>, op, given)
        /\ ActivateStages \o <<"poll">> \in Seq(Stages) /\ DeactivateStages \o <<"poll">> \in Seq(Stages)
    BY <2>1, <2>2, <2>3, KeyedJoin, JoinedIs
  <2> QED BY <2>3, <2>4, EmptySeq
<1>4. UpdateStages(r) = check \o write \o act \o GetStages
  BY DEF UpdateStages
<1>5. GetStages \in Seq(Stages) /\ Keyed(GetStages, op, given)
  BY GetIs, HarmlessKeyed DEF Block
<1> HIDE DEF check, write, act
<1>6. Keyed(check \o write, op, given) /\ check \o write \in Seq(Stages)
  BY <1>1, <1>2, KeyedJoin, JoinedIs
<1>7. Keyed(check \o write \o act, op, given) /\ check \o write \o act \in Seq(Stages)
  BY <1>3, <1>6, KeyedJoin, JoinedIs
<1> QED BY <1>4, <1>5, <1>7, KeyedJoin

LEMMA DeleteKeyed ==
    ASSUME NEW op, NEW given, NEW r
    PROVE  Keyed(DeleteStages(r), op, given)
<1>1. Keyed(<<"hasUuid", "path", "delete">>, op, given) /\ <<"hasUuid", "path", "delete">> \in Seq(Stages)
  BY DEF Keyed, Stages, Harmless
<1>2. ASSUME NEW check \in {"uuidOfId", "idOfUuid"}
      PROVE  Keyed(<<check>>, op, given) /\ <<check>> \in Seq(Stages)
  BY OneKeyed DEF Stages
<1>3. ASSUME NEW check \in {"uuidOfId", "idOfUuid"}
      PROVE  Keyed(<<check>> \o <<"hasUuid", "path", "delete">>, op, given)
  BY <1>1, <1>2, KeyedJoin
<1> QED BY <1>3 DEF DeleteStages

LEMMA CreateKeyed ==
    ASSUME NEW op, NEW r
    PROVE  Keyed(CreateStages(r), op, "uuid" \in DOMAIN r.new)
<1> DEFINE given == "uuid" \in DOMAIN r.new
           look == IF given THEN <<"hasNewUuid">> ELSE <<>>
<1>1. Keyed(<<"hasNewId">>, op, given) /\ <<"hasNewId">> \in Seq(Stages)
  BY OneKeyed DEF Stages
<1>2. Keyed(look, op, given) /\ look \in Seq(Stages)
  <2>1. Keyed(<<>>, op, given) /\ (given => Keyed(<<"hasNewUuid">>, op, given))
    BY NothingIs, HarmlessKeyed, OneKeyed
  <2>2. <<"hasNewUuid">> \in Seq(Stages) /\ <<>> \in Seq(Stages)
    BY EmptySeq DEF Stages
  <2> QED BY <2>1, <2>2
<1>3. CreateStages(r) = <<"hasNewId">> \o look \o <<"add", "readNew">> \o GetStages
  BY DEF CreateStages
<1>4. Keyed(<<"add", "readNew">>, op, given) /\ <<"add", "readNew">> \in Seq(Stages)
  BY PiecesAre, HarmlessKeyed DEF Block
<1>5. GetStages \in Seq(Stages) /\ Keyed(GetStages, op, given)
  BY GetIs, HarmlessKeyed DEF Block
<1> HIDE DEF look, given
<1>6. Keyed(<<"hasNewId">> \o look, op, given) /\ <<"hasNewId">> \o look \in Seq(Stages)
  BY <1>1, <1>2, KeyedJoin, JoinedIs
<1>7. Keyed(<<"hasNewId">> \o look \o <<"add", "readNew">>, op, given) /\ <<"hasNewId">> \o look \o <<"add", "readNew">> \in Seq(Stages)
  BY <1>4, <1>6, KeyedJoin, JoinedIs
<1>8. Keyed(CreateStages(r), op, given)
  BY <1>3, <1>5, <1>7, KeyedJoin
<1> QED BY <1>8 DEF given

-----------------------------------------------------------------------------
(* What is known of a request when there are np profiles and na activations. *)

InRange(r, np, na) == r.scan \subseteq (IF Head(r.todo) = "details" THEN 1..na ELSE 1..np)
Unrefused(r) == r.wrote => ~Refuses(r.todo) /\ r.reply \notin {"bad", "reserved"}
Numbers(r, np, na) == r.path \in 0..np /\ r.conn \in 0..na /\ r.polls \in 0..MaxPolls
Waiting(r, np, na) ==
    r.todo # <<>> => InRange(r, np, na) /\ (Head(r.todo) \in DOMAIN Needed => r.path # 0) /\ r.reply = "none"
Stacked(r) == Linked(r.todo) /\ InOrder(r.todo, r.op) /\ Keyed(r.todo, r.op, "uuid" \in DOMAIN r.new)
Sound(r, np, na) == r \in Request /\ Numbers(r, np, na) /\ Waiting(r, np, na) /\ Stacked(r) /\ Unrefused(r)
Same(q, r) == q.op = r.op /\ q.new = r.new

(* The stage is done, and the next one is up. *)
LEMMA Advances ==
    ASSUME NEW np \in Nat, NEW na \in Nat, NEW r, NEW q,
           Sound(r, np, na), r.todo # <<>>, q \in Request, Same(q, r), Numbers(q, np, na),
           q.todo = Tail(r.todo), q.scan = {}, q.reply = r.reply,
           Head(r.todo) \in {"path", "settings", "device", "add"} => q.path # 0,
           q.wrote => r.wrote \/ Head(r.todo) \in Turning(r.op)
    PROVE  Sound(q, np, na)
<1>1. r.todo \in Seq(Stages)
  BY DEF Sound, Request
<1>2. Stacked(q)
  BY <1>1, TailKeeps, TailKeyed DEF Sound, Stacked, Same
<1>3. Waiting(q, np, na)
  <2>1. q.todo # <<>> /\ Head(q.todo) \in DOMAIN Needed => Head(r.todo) = Needed[Head(q.todo)]
    BY <1>1, TailKeeps DEF Sound, Stacked
  <2>2. \A stage \in DOMAIN Needed : Needed[stage] \in {"path", "settings", "device", "add"}
    BY DEF Needed
  <2>3. r.reply = "none"
    BY DEF Sound, Waiting
  <2> QED BY <2>1, <2>2, <2>3 DEF Waiting, InRange
<1>4. Unrefused(q)
  <2>1. r.wrote => ~Refuses(q.todo)
    BY <1>1, TailKeeps DEF Sound, Stacked, Unrefused
  <2>2. Head(r.todo) \in Turning(r.op) => ~Refuses(q.todo)
    BY <1>1, TailKeeps DEF Sound, Stacked
  <2>3. r.reply = "none"
    BY DEF Sound, Waiting
  <2> QED BY <2>1, <2>2, <2>3 DEF Unrefused
<1> QED BY <1>2, <1>3, <1>4 DEF Sound

(* Other stages take the place of the one that is done. *)
LEMMA Pushes ==
    ASSUME NEW np \in Nat, NEW na \in Nat, NEW r, NEW q, NEW stages,
           Sound(r, np, na), r.todo # <<>>, q \in Request, q.op = r.op, Numbers(q, np, na),
           DOMAIN r.new \subseteq DOMAIN q.new,
           q.todo = stages \o Tail(r.todo), q.scan = {}, q.reply = r.reply, q.wrote = r.wrote,
           Block(stages, r.op), Keyed(stages, r.op, "uuid" \in DOMAIN q.new),
           Head(r.todo) \notin {"path", "settings", "device", "add"},
           Head(r.todo) \in Turning(r.op) \/ ~Turns(stages, r.op),
           Head(r.todo) \in Harmless => ~Refuses(stages)
    PROVE  Sound(q, np, na)
<1> DEFINE rest == Tail(r.todo)
<1>1. r.todo \in Seq(Stages) /\ rest \in Seq(Stages) /\ stages \in Seq(Stages)
  BY TailIs DEF Sound, Request, Block
<1>2. Block(rest, r.op)
  <2>1. \A stage \in DOMAIN Needed : Needed[stage] \in {"path", "settings", "device", "add"}
    BY DEF Needed
  <2> QED BY <1>1, <2>1, TailKeeps DEF Sound, Stacked, Block
<1>3. Block(q.todo, q.op)
  <2>1. ~Turns(stages, r.op) \/ ~Refuses(rest)
    BY <1>1, TailKeeps DEF Sound, Stacked
  <2>2. Block(stages \o rest, r.op)
    BY <1>2, <2>1, BlockJoin
  <2> QED BY <2>2
<1>4. Keyed(q.todo, q.op, "uuid" \in DOMAIN q.new)
  <2> DEFINE given == "uuid" \in DOMAIN q.new
  <2>1. Keyed(rest, r.op, "uuid" \in DOMAIN r.new)
    BY <1>1, TailKeyed DEF Sound, Stacked
  <2>2. Keyed(rest, r.op, given) /\ Keyed(stages, r.op, given)
    BY <2>1 DEF Keyed
  <2> HIDE DEF given
  <2>3. Keyed(stages \o rest, r.op, given)
    BY <1>1, <2>2, KeyedJoin
  <2> QED BY <2>3 DEF given
<1>5. Stacked(q) /\ Waiting(q, np, na)
  <2>1. r.reply = "none"
    BY DEF Sound, Waiting
  <2> QED BY <1>3, <1>4, <2>1 DEF Block, Stacked, Waiting, InRange
<1>6. Unrefused(q)
  <2>1. r.wrote => ~Refuses(rest) /\ ~Refuses(stages)
    BY <1>1, TailKeeps DEF Sound, Stacked, Unrefused
  <2>2. r.wrote => ~Refuses(q.todo)
    BY <1>1, <2>1, HarmlessJoin
  <2> QED BY <2>2 DEF Sound, Unrefused
<1> QED BY <1>5, <1>6 DEF Sound

(* The stage goes on. *)
LEMMA Stays ==
    ASSUME NEW np \in Nat, NEW na \in Nat, NEW r, NEW q,
           Sound(r, np, na), q \in Request, Same(q, r), Numbers(q, np, na),
           q.todo = r.todo, r.todo # <<>> => InRange(q, np, na), q.path = r.path, q.reply = r.reply, q.wrote = r.wrote
    PROVE  Sound(q, np, na)
BY DEF Sound, Stacked, Waiting, Unrefused, Same

(* The request is over. *)
LEMMA Stops ==
    ASSUME NEW np \in Nat, NEW na \in Nat, NEW r, NEW reply \in Replies,
           Sound(r, np, na), r.todo # <<>>, reply \in {"bad", "reserved"} => Head(r.todo) \notin Harmless
    PROVE  Sound(Stop(r, reply), np, na)
<1> DEFINE q == Stop(r, reply)
<1>1. r.todo \in Seq(Stages) /\ r \in Request
  BY DEF Sound, Request
<1>2. q \in Request
  BY <1>1, StopIs
<1>3. /\ q.todo = <<>> /\ q.path = r.path /\ q.conn = r.conn /\ q.polls = r.polls
      /\ q.wrote = r.wrote /\ q.reply = reply
  BY <1>1 DEF Stop, Request
<1> HIDE DEF q
<1>4. Stacked(q)
  BY <1>3, NothingIs, HarmlessKeyed DEF Block, Stacked
<1>5. Unrefused(q)
  <2>1. r.wrote => Head(r.todo) \in Harmless
    BY <1>1, TailKeeps DEF Sound, Stacked, Unrefused
  <2> QED BY <1>3, <2>1, NothingIs DEF Unrefused
<1>6. Numbers(q, np, na) /\ Waiting(q, np, na)
  BY <1>3 DEF Numbers, Waiting, Sound
<1> QED BY <1>2, <1>4, <1>5, <1>6 DEF Sound, q

(* Only what does not matter here is changed. *)
LEMMA Keeps ==
    ASSUME NEW np \in Nat, NEW na \in Nat, NEW r, NEW q,
           Sound(r, np, na), q \in Request, q.op = r.op, q.new = r.new, q.todo = r.todo, q.scan \subseteq r.scan,
           q.path = r.path, q.conn = r.conn, q.polls = r.polls, q.reply = r.reply, q.wrote = r.wrote
    PROVE  Sound(q, np, na)
<1>1. Numbers(q, np, na) /\ (r.todo # <<>> => InRange(q, np, na))
  BY DEF Sound, Numbers, Waiting, InRange
<1> QED BY <1>1, Stays DEF Same

LEMMA DoneSound ==
    ASSUME NEW np \in Nat, NEW na \in Nat, NEW r, Sound(r, np, na), r.todo # <<>>,
           Head(r.todo) \in {"path", "settings", "device", "add"} => r.path # 0
    PROVE  /\ Sound(Done(r), np, na) /\ Done(r) \in Request
           /\ Done(r).todo = Tail(r.todo) /\ Done(r).scan = {} /\ Done(r).op = r.op /\ Done(r).new = r.new
           /\ Done(r).path = r.path /\ Done(r).conn = r.conn /\ Done(r).reply = r.reply /\ Done(r).wrote = r.wrote
<1> DEFINE q == Done(r)
<1>1. r \in Request
  BY DEF Sound
<1>2. q \in Request
  BY <1>1, DoneIs
<1>3. /\ q.todo = Tail(r.todo) /\ q.scan = {} /\ q.op = r.op /\ q.new = r.new
      /\ q.path = r.path /\ q.conn = r.conn /\ q.polls = r.polls /\ q.reply = r.reply /\ q.wrote = r.wrote
  BY <1>1 DEF Done, Request
<1> HIDE DEF q
<1>4. Numbers(q, np, na) /\ Same(q, r)
  BY <1>3 DEF Sound, Numbers, Same
<1>5. Sound(q, np, na)
  BY <1>2, <1>3, <1>4, Advances
<1> QED BY <1>2, <1>3, <1>5 DEF q

LEMMA ThenSound ==
    ASSUME NEW np \in Nat, NEW na \in Nat, NEW r, NEW stages, Sound(r, np, na), r.todo # <<>>,
           Block(stages, r.op), Keyed(stages, r.op, "uuid" \in DOMAIN r.new),
           Head(r.todo) \notin {"path", "settings", "device", "add"},
           Head(r.todo) \in Turning(r.op) \/ ~Turns(stages, r.op),
           Head(r.todo) \in Harmless => ~Refuses(stages)
    PROVE  /\ Sound(Then(r, stages), np, na) /\ Then(r, stages) \in Request
<1> DEFINE q == Then(r, stages)
<1>1. r \in Request /\ stages \in Seq(Stages)
  BY DEF Sound, Block
<1>2. q \in Request
  BY <1>1, ThenIs
<1>3. /\ q.todo = stages \o Tail(r.todo) /\ q.scan = {} /\ q.op = r.op /\ q.new = r.new
      /\ q.path = r.path /\ q.conn = r.conn /\ q.polls = r.polls /\ q.reply = r.reply /\ q.wrote = r.wrote
  BY <1>1 DEF Then, Done, Request
<1> HIDE DEF q
<1>4. Numbers(q, np, na)
  BY <1>3 DEF Sound, Numbers
<1>5. Keyed(stages, r.op, "uuid" \in DOMAIN q.new) /\ DOMAIN r.new \subseteq DOMAIN q.new
  BY <1>3
<1>6. Sound(q, np, na)
  BY <1>2, <1>3, <1>4, <1>5, Pushes
<1> QED BY <1>2, <1>6 DEF q

(* The methods a stage is replaced by. *)
Replacing(r) == r.todo # <<>> /\ Head(r.todo) \in Turning(r.op) \ Harmless

LEMMA NotHarmless ==
    ASSUME NEW r, Replacing(r)
    PROVE  Head(r.todo) \notin {"path", "settings", "device", "add"}
BY DEF Replacing, Harmless

LEMMA Updates ==
    ASSUME NEW np \in Nat, NEW na \in Nat, NEW r, Sound(r, np, na), Replacing(r)
    PROVE  Sound(Then(r, UpdateStages(r)), np, na)
BY UpdateIs, UpdateKeyed, NotHarmless, ThenSound DEF Replacing

LEMMA Deletes ==
    ASSUME NEW np \in Nat, NEW na \in Nat, NEW r, Sound(r, np, na), Replacing(r)
    PROVE  Sound(Then(r, DeleteStages(r)), np, na)
BY DeleteIs, DeleteKeyed, NotHarmless, ThenSound DEF Replacing

LEMMA Creates ==
    ASSUME NEW np \in Nat, NEW na \in Nat, NEW r, Sound(r, np, na), Replacing(r)
    PROVE  Sound(Creating(r), np, na)
<1>1. Sound(Then(r, CreateStages(r)), np, na)
  BY CreateIs, CreateKeyed, NotHarmless, ThenSound DEF Replacing
<1>2. Sound(Stop(r, "error"), np, na) /\ Sound(Stop(r, "reserved"), np, na)
  BY Stops DEF Replacing, Replies
<1> QED BY <1>1, <1>2 DEF Creating

LEMMA Switches ==
    ASSUME NEW np \in Nat, NEW na \in Nat, NEW r, Sound(r, np, na), Replacing(r)
    PROVE  Sound(Then(r, ActivateStages), np, na) /\ Sound(Then(r, DeactivateStages), np, na)
<1>1. Keyed(ActivateStages, r.op, "uuid" \in DOMAIN r.new) /\ Keyed(DeactivateStages, r.op, "uuid" \in DOMAIN r.new)
  BY ActivateIs, DeactivateIs, HarmlessKeyed
<1> QED BY <1>1, ActivateIs, DeactivateIs, NotHarmless, ThenSound DEF Replacing

LEMMA AsUuidSound ==
    ASSUME NEW np \in Nat, NEW na \in Nat, NEW r, Sound(r, np, na), r.todo # <<>>, Head(r.todo) = "nameOrUuid"
    PROVE  Sound(AsUuid(r), np, na)
<1>1. Replacing(r)
  BY DEF Replacing, Turning, Replaced, Harmless
<1>2. r.op \in AtOps
  <2>1. r.todo \in Seq(Stages)
    BY DEF Sound, Request
  <2>2. 1 \in 1..Len(r.todo) /\ r.todo[1] = "nameOrUuid"
    BY <2>1, TailIs
  <2> QED BY <2>2 DEF Sound, Stacked, Keyed
<1> QED BY <1>1, <1>2, Switches, Updates, Deletes DEF AsUuid, AtOps

LEMMA Renames ==
    ASSUME NEW np \in Nat, NEW na \in Nat, NEW r, NEW uuid \in Text, Sound(r, np, na)
    PROVE  /\ Sound([r EXCEPT !.uuid = uuid], np, na)
           /\ [r EXCEPT !.uuid = uuid].todo = r.todo /\ [r EXCEPT !.uuid = uuid].op = r.op
           /\ [r EXCEPT !.uuid = uuid].new = r.new
<1> DEFINE q == [r EXCEPT !.uuid = uuid]
<1>1. r \in Request
  BY DEF Sound
<1>2. /\ q \in Request /\ q.op = r.op /\ q.new = r.new /\ q.todo = r.todo /\ q.scan = r.scan
      /\ q.path = r.path /\ q.conn = r.conn /\ q.polls = r.polls /\ q.reply = r.reply /\ q.wrote = r.wrote
  BY <1>1 DEF Request
<1> HIDE DEF q
<1>3. Sound(q, np, na)
  BY <1>2, Keeps
<1> QED BY <1>2, <1>3 DEF q

(* What a scan does with a profile that matches. *)
Sought == Strict \cup (Tolerant \ {"list"})

LEMMA FoundSound ==
    ASSUME NEW np \in Nat, NEW na \in Nat, NEW r, NEW s \in Dictionaries, Sound(r, np, na), r.todo # <<>>,
           Complete(s), Head(r.todo) \in Sought
    PROVE  Sound(Found(r, s), np, na)
<1>1. s["uuid"] \in Text /\ r \in Request
  BY CompleteIs DEF Sound
<1>2. ASSUME Head(r.todo) = "freshId"
      PROVE  Sound(Found(r, s), np, na)
  BY <1>2, Stops DEF Found, Replies, Harmless
<1>3. ASSUME Head(r.todo) \in {"existsId", "existsUuid"}
      PROVE  Sound(Found(r, s), np, na)
  <2>1. Replacing(r)
    BY <1>3 DEF Replacing, Turning, Replaced, Harmless
  <2>2. Found(r, s) = Then(r, UpdateStages(r))
    BY <1>3 DEF Found
  <2> QED BY <2>1, <2>2, Updates
<1>4. ASSUME Head(r.todo) = "hasNewId"
      PROVE  Sound(Found(r, s), np, na)
  <2>1. Found(r, s) = IF r.over THEN Done(r) ELSE Stop(r, "error")
    BY <1>4 DEF Found
  <2> QED BY <1>4, <2>1, DoneSound, Stops DEF Replies
<1>5. ASSUME Head(r.todo) = "hasNewUuid"
      PROVE  Sound(Found(r, s), np, na)
  <2> DEFINE u == [r EXCEPT !.uuid = r.new["uuid"]]
  <2>1. r.new["uuid"] \in Text
    <3>1. r.todo \in Seq(Stages) /\ r.new \in Dictionaries
      BY <1>1 DEF Request
    <3>2. 1 \in 1..Len(r.todo) /\ r.todo[1] = "hasNewUuid"
      BY <1>5, <3>1, TailIs
    <3>3. "uuid" \in DOMAIN r.new
      BY <3>2 DEF Sound, Stacked, Keyed
    <3> QED BY <3>1, <3>3, DictionaryDef
  <2>2. Sound(u, np, na) /\ u.todo = r.todo
    BY <2>1, Renames
  <2>3. Found(r, s) = IF r.over THEN Then(u, DeleteStages(u)) ELSE Stop(r, "error")
    BY <1>5 DEF Found
  <2> HIDE DEF u
  <2>4. Replacing(u)
    BY <1>5, <2>2 DEF Replacing, Turning, Replaced, Harmless
  <2> QED BY <1>5, <2>2, <2>3, <2>4, Deletes, Stops DEF Replies
<1>6. ASSUME Head(r.todo) = "uuidOfId"
      PROVE  Sound(Found(r, s), np, na)
  <2>1. Sound(Done(r), np, na)
    BY <1>6, DoneSound
  <2>2. Sound([Done(r) EXCEPT !.uuid = s["uuid"]], np, na)
    BY <1>1, <2>1, Renames
  <2>3. Sound(Stop(r, "reserved"), np, na)
    BY <1>6, Stops DEF Replies, Harmless
  <2> QED BY <1>6, <2>2, <2>3 DEF Found
<1>7. ASSUME Head(r.todo) = "idOfUuid"
      PROVE  Sound(Found(r, s), np, na)
  <2>1. Sound(Done(r), np, na)
    BY <1>7, DoneSound
  <2>2. Sound(Stop(r, "reserved"), np, na)
    BY <1>7, Stops DEF Replies, Harmless
  <2> QED BY <1>7, <2>1, <2>2 DEF Found
<1>8. ASSUME Head(r.todo) = "nameOrUuid"
      PROVE  Sound(Found(r, s), np, na)
  <2>1. Sound([r EXCEPT !.uuid = s["uuid"]], np, na) /\ [r EXCEPT !.uuid = s["uuid"]].todo = r.todo
    BY <1>1, Renames
  <2> QED BY <1>8, <2>1, AsUuidSound DEF Found
<1>9. ASSUME Head(r.todo) = "hasUuid"
      PROVE  Sound(Found(r, s), np, na)
  BY <1>9, DoneSound DEF Found
<1>10. ASSUME Head(r.todo) = "plain"
       PROVE  Sound(Found(r, s), np, na)
  <2> DEFINE d == Done(r)
             q == [d EXCEPT !.got = s, !.answer = s]
  <2>1. Sound(d, np, na) /\ d \in Request
    BY <1>10, DoneSound
  <2>2. Found(r, s) = q
    BY <1>10 DEF Found
  <2> HIDE DEF d
  <2>3. /\ q \in Request /\ q.op = d.op /\ q.new = d.new /\ q.todo = d.todo /\ q.scan = d.scan
        /\ q.path = d.path /\ q.conn = d.conn /\ q.polls = d.polls /\ q.reply = d.reply /\ q.wrote = d.wrote
    BY <2>1 DEF Request
  <2> HIDE DEF q
  <2>4. Sound(q, np, na)
    BY <2>1, <2>3, Keeps
  <2> QED BY <2>2, <2>4
<1>11. ASSUME Head(r.todo) = "match"
       PROVE  Sound(Found(r, s), np, na)
  <2> DEFINE q == [r EXCEPT !.scan = @ \ {First(@)}, !.exists = @ \/ s["uuid"] = r.uuid, !.uuid = s["uuid"]]
  <2>1. /\ q \in Request /\ q.op = r.op /\ q.new = r.new /\ q.todo = r.todo /\ q.scan \subseteq r.scan
        /\ q.path = r.path /\ q.conn = r.conn /\ q.polls = r.polls /\ q.reply = r.reply /\ q.wrote = r.wrote
    BY ZenonT(60), <1>1 DEF Request
  <2>2. Found(r, s) \in {q, Stop(r, "error")}
    BY <1>11 DEF Found
  <2> HIDE DEF q
  <2>3. Sound(q, np, na)
    BY <2>1, Keeps
  <2> QED BY <1>11, <2>2, <2>3, Stops DEF Replies
<1> QED BY <1>2, <1>3, <1>4, <1>5, <1>6, <1>7, <1>8, <1>9, <1>10, <1>11 DEF Sought, Strict, Tolerant

LEMMA Widens ==
    ASSUME NEW np \in Nat, NEW na \in Nat, NEW r, NEW new \in Dictionaries, Sound(r, np, na), DOMAIN r.new \subseteq DOMAIN new
    PROVE  /\ Sound([r EXCEPT !.new = new], np, na)
           /\ [r EXCEPT !.new = new].todo = r.todo /\ [r EXCEPT !.new = new].op = r.op
<1> DEFINE q == [r EXCEPT !.new = new]
<1>1. r \in Request
  BY DEF Sound
<1>2. /\ q \in Request /\ q.op = r.op /\ q.new = new /\ q.todo = r.todo /\ q.scan = r.scan
      /\ q.path = r.path /\ q.conn = r.conn /\ q.polls = r.polls /\ q.reply = r.reply /\ q.wrote = r.wrote
  BY <1>1 DEF Request
<1> HIDE DEF q
<1>3. Keyed(r.todo, r.op, "uuid" \in DOMAIN r.new) => Keyed(r.todo, r.op, "uuid" \in DOMAIN new)
  BY DEF Keyed
<1>4. Stacked(q) /\ Numbers(q, np, na) /\ Waiting(q, np, na) /\ Unrefused(q)
  BY <1>2, <1>3 DEF Sound, Stacked, Numbers, Waiting, InRange, Unrefused
<1> QED BY <1>2, <1>4 DEF Sound, q

LEMMA NotFoundSound ==
    ASSUME NEW np \in Nat, NEW na \in Nat, NEW r, Sound(r, np, na), r.todo # <<>>, Head(r.todo) \in Strict \cup Tolerant
    PROVE  Sound(NotFound(r), np, na)
<1>1. ASSUME Head(r.todo) \in {"freshId", "hasNewId", "hasNewUuid"}
      PROVE  Sound(NotFound(r), np, na)
  <2>1. NotFound(r) = IF r.op = "post" /\ Head(r.todo) = "freshId" THEN Creating(r) ELSE Done(r)
    BY <1>1 DEF NotFound
  <2>2. r.op = "post" /\ Head(r.todo) = "freshId" => Replacing(r)
    BY DEF Replacing, Turning, Harmless
  <2> QED BY <1>1, <2>1, <2>2, Creates, DoneSound
<1>2. ASSUME Head(r.todo) \in {"existsId", "existsUuid"}
      PROVE  Sound(NotFound(r), np, na)
  <2>1. NotFound(r) \in {Stop(r, "bad"), Creating(r)}
    BY <1>2 DEF NotFound
  <2>2. Replacing(r)
    BY <1>2 DEF Replacing, Turning, Replaced, Harmless
  <2>3. Sound(Stop(r, "bad"), np, na)
    BY <1>2, Stops DEF Replies, Harmless
  <2> QED BY <2>1, <2>2, <2>3, Creates
<1>3. ASSUME Head(r.todo) = "match"
      PROVE  Sound(NotFound(r), np, na)
  <2> DEFINE new == IF r.uuid = "" THEN r.new ELSE Over(r.new, [uuid |-> r.uuid])
             u == [r EXCEPT !.new = new]
  <2>1. new \in Dictionaries /\ DOMAIN r.new \subseteq DOMAIN new
    <3>1. r.new \in Dictionaries /\ r.uuid \in Text
      BY DEF Sound, Request
    <3>2. Over(r.new, [uuid |-> r.uuid]) \in Dictionaries
      BY <3>1, AsUuidIs, OverIs
    <3>3. DOMAIN r.new \subseteq DOMAIN Over(r.new, [uuid |-> r.uuid])
      BY DEF Over
    <3> QED BY <3>1, <3>2, <3>3
  <2>2. NotFound(r) = IF r.exists THEN Then(r, UpdateStages(r)) ELSE Creating(u)
    BY <1>3 DEF NotFound, Matched
  <2> HIDE DEF new
  <2>3. Sound(u, np, na) /\ u.todo = r.todo /\ u.op = r.op
    BY <2>1, Widens
  <2> HIDE DEF u
  <2>4. Replacing(r) /\ Replacing(u)
    BY <1>3, <2>3 DEF Replacing, Turning, Replaced, Harmless
  <2> QED BY <2>2, <2>3, <2>4, Updates, Creates
<1>4. ASSUME Head(r.todo) = "nameOrUuid"
      PROVE  Sound(NotFound(r), np, na)
  BY <1>4, AsUuidSound DEF NotFound
<1>5. ASSUME Head(r.todo) \in {"list", "uuidOfId", "idOfUuid", "hasUuid", "plain"}
      PROVE  Sound(NotFound(r), np, na)
  <2>1. NotFound(r) \in {Stop(r, "ok"), Stop(r, "notfound")}
    BY <1>5 DEF NotFound
  <2> QED BY <2>1, Stops DEF Replies
<1> QED BY <1>1, <1>2, <1>3, <1>4, <1>5 DEF Strict, Tolerant

-----------------------------------------------------------------------------
(* The state. *)
LogEntries == [path : Nat, dev : Devices, state : States]
Tied(a) == activations[a].path \in Paths /\ (Alive(a) => Exists(activations[a].path))
Managed ==
    /\ profiles \in Seq(Dictionaries) /\ activations \in Seq(LogEntries)
    /\ present \subseteq Devices /\ seen \subseteq AccessPoints
    /\ \A p \in Paths : Exists(p) => Complete(profiles[p])
    /\ \A a \in ActivePaths : Tied(a)
Underway ==
    /\ rq \in [Clients -> Request] /\ \A c \in Clients : Sound(rq[c], Len(profiles), Len(activations))
    /\ defaults \in Dictionaries /\ made \in 0..MaxRequests

LEMMA Counted ==
    ASSUME Managed
    PROVE  Len(profiles) \in Nat /\ Len(activations) \in Nat /\ Paths = 1..Len(profiles) /\ ActivePaths = 1..Len(activations)
BY LenProperties DEF Managed, Paths, ActivePaths

LEMMA Grows ==
    ASSUME NEW np \in Nat, NEW na \in Nat, NEW mp \in Nat, NEW ma \in Nat, NEW r, Sound(r, np, na), np <= mp, na <= ma
    PROVE  Sound(r, mp, ma)
<1>1. Numbers(r, mp, ma)
  BY DEF Sound, Numbers
<1>2. Waiting(r, mp, ma)
  <2>1. 1..np \subseteq 1..mp /\ 1..na \subseteq 1..ma
    OBVIOUS
  <2> QED BY <2>1 DEF Sound, Waiting, InRange
<1> QED BY <1>1, <1>2 DEF Sound

(* A request goes on, and the others are where they were. *)
LEMMA Goes ==
    ASSUME Managed, Underway, NEW c \in Clients, NEW r, Is(c, r), Managed',
           Len(profiles) <= Len(profiles'), Len(activations) <= Len(activations'),
           Sound(r, Len(profiles'), Len(activations')), defaults' \in Dictionaries, made' \in 0..MaxRequests
    PROVE  Underway'
<1> DEFINE np == Len(profiles)
           na == Len(activations)
           mp == Len(profiles')
           ma == Len(activations')
<1>1. np \in Nat /\ na \in Nat /\ mp \in Nat /\ ma \in Nat
  BY LenProperties DEF Managed
<1> HIDE DEF np, na, mp, ma
<1>2. rq' \in [Clients -> Request] /\ \A d \in Clients : rq'[d] = IF d = c THEN r ELSE rq[d]
  BY DEF Is, Underway, Sound
<1>3. ASSUME NEW d \in Clients
      PROVE  Sound(rq'[d], mp, ma)
  <2>1. Sound(rq[d], np, na)
    BY DEF Underway, np, na
  <2>2. Sound(rq[d], mp, ma)
    BY <1>1, <2>1, Grows DEF np, na, mp, ma
  <2> QED BY <1>2, <2>2 DEF mp, ma
<1> QED BY <1>2, <1>3 DEF Underway, mp, ma

(* A list is gone through from its least element. *)
LEMMA FirstIs ==
    ASSUME NEW scan \in SUBSET Nat, scan # {}
    PROVE  First(scan) \in scan
<1> DEFINE less == {ss \in Nat \X Nat : ss[1] < ss[2]}
<1>1. IsWellFoundedOn(less, Nat)
  BY NatLessThanWellFounded DEF OpToRel
<1>2. PICK least \in scan : \A p \in scan : ~(<<p, least>> \in less)
  BY <1>1, WFMin
<1>3. ASSUME NEW p \in scan
      PROVE  least <= p
  <2>1. p < least => <<p, least>> \in less
    OBVIOUS
  <2> QED BY <1>2, <2>1
<1> QED BY <1>3 DEF First

(* A call that only reads. *)
LEMMA Read ==
    ASSUME Managed, Underway, NEW c \in Clients, NEW r, Is(c, r), UNCHANGED nm,
           Sound(r, Len(profiles), Len(activations)), defaults' \in Dictionaries, UNCHANGED made
    PROVE  Managed' /\ Underway'
<1>1. Managed'
  BY DEF Managed, nm, Paths, Exists, ActivePaths, Tied, Alive
<1>2. Len(profiles') = Len(profiles) /\ Len(activations') = Len(activations) /\ made' \in 0..MaxRequests
  BY DEF nm, Underway
<1>3. Len(profiles) \in Nat /\ Len(activations) \in Nat
  BY LenProperties DEF Managed
<1> QED BY <1>1, <1>2, <1>3, Goes

LEMMA ListProfilesStep ==
    ASSUME Managed, Underway, NEW c \in Clients, ListProfiles(c)
    PROVE  Managed' /\ Underway'
<1> DEFINE r == rq[c]
           there == {p \in Paths : Exists(p)}
           q == [r EXCEPT !.listed = TRUE, !.scan = there]
           np == Len(profiles)
           na == Len(activations)
<1>1. Sound(r, np, na) /\ r \in Request /\ np \in Nat /\ na \in Nat /\ Paths = 1..np
  BY Counted DEF Underway
<1>2. Head(r.todo) # "details" /\ Is(c, q) /\ UNCHANGED <<nm, defaults, made>>
  BY DEF ListProfiles, Scanning, Strict, Tolerant
<1>0. there \in SUBSET Nat /\ there \subseteq 1..np
  BY <1>1
<1> HIDE DEF r, there
<1>3. /\ q \in Request /\ q.op = r.op /\ q.new = r.new /\ q.todo = r.todo /\ q.scan \subseteq 1..np
      /\ q.path = r.path /\ q.conn = r.conn /\ q.polls = r.polls /\ q.reply = r.reply /\ q.wrote = r.wrote
  BY <1>0, <1>1 DEF Request
<1> HIDE DEF q, np, na
<1>4. Numbers(q, np, na) /\ InRange(q, np, na)
  BY <1>1, <1>2, <1>3 DEF Sound, Numbers, InRange
<1>5. Sound(q, np, na)
  BY <1>1, <1>3, <1>4, Stays DEF Same
<1> QED BY <1>2, <1>5, Read DEF np, na, Underway

LEMMA ReadProfileStep ==
    ASSUME Managed, Underway, NEW c \in Clients, ReadProfile(c)
    PROVE  Managed' /\ Underway'
<1> DEFINE r == rq[c]
           p == First(r.scan)
           onward == [r EXCEPT !.scan = @ \ {p}]
           counted == [onward EXCEPT !.entries = @ \cup {Entry(p)}]
           np == Len(profiles)
           na == Len(activations)
<1>1. Sound(r, np, na) /\ r \in Request /\ np \in Nat /\ na \in Nat /\ Paths = 1..np
  BY Counted DEF Underway
<1>2. r.todo # <<>> /\ Head(r.todo) \in Strict \cup Tolerant /\ r.scan # {} /\ UNCHANGED <<nm, defaults, made>>
  BY DEF ReadProfile, Scanning, Busy
<1>3. \/ Is(c, Stop(r, "error"))
      \/ Is(c, onward)
      \/ Head(r.todo) = "list" /\ Exists(p) /\ Is(c, counted)
      \/ Head(r.todo) # "list" /\ Exists(p) /\ Is(c, Found(r, profiles[p]))
  <2>1. Head(r.todo) = "list" => Head(r.todo) \in Tolerant
    BY DEF Tolerant
  <2> QED BY <1>2, <2>1 DEF ReadProfile, Listed
<1>4. p \in 1..np
  <2>1. Head(r.todo) # "details" /\ r.scan \in SUBSET Nat
    BY <1>1, <1>2 DEF Strict, Tolerant, Request
  <2>2. r.scan \subseteq 1..np
    BY <1>1, <1>2, <2>1 DEF Sound, Waiting, InRange
  <2> QED BY <1>2, <2>1, <2>2, FirstIs
<1>5. profiles[p] \in Dictionaries
  BY <1>1, <1>4, ElementOfSeq DEF Managed
<1> HIDE DEF r, p
<1>6. Sound(onward, np, na)
  <2>1. /\ onward \in Request /\ onward.op = r.op /\ onward.new = r.new /\ onward.todo = r.todo
        /\ onward.scan \subseteq r.scan /\ onward.path = r.path /\ onward.conn = r.conn /\ onward.polls = r.polls
        /\ onward.reply = r.reply /\ onward.wrote = r.wrote
    BY <1>1 DEF Request
  <2> HIDE DEF onward
  <2> QED BY <1>1, <2>1, Keeps
<1>7. ASSUME Exists(p)
      PROVE  Sound(counted, np, na)
  <2>1. Entry(p) \in [uuid : Text, activated : BOOLEAN]
    BY <1>1, <1>4, <1>5, <1>7, CompleteIs DEF Entry, Managed
  <2>2. onward \in Request
    BY <1>6 DEF Sound
  <2> HIDE DEF onward
  <2>3. /\ counted \in Request /\ counted.op = onward.op /\ counted.new = onward.new /\ counted.todo = onward.todo
        /\ counted.scan \subseteq onward.scan /\ counted.path = onward.path /\ counted.conn = onward.conn
        /\ counted.polls = onward.polls /\ counted.reply = onward.reply /\ counted.wrote = onward.wrote
    BY <2>1, <2>2 DEF Request
  <2> HIDE DEF counted
  <2> QED BY <1>1, <1>6, <2>3, Keeps
<1>8. ASSUME Exists(p), Head(r.todo) # "list"
      PROVE  Sound(Found(r, profiles[p]), np, na)
  <2>1. Complete(profiles[p]) /\ Head(r.todo) \in Sought
    BY <1>1, <1>2, <1>4, <1>8 DEF Managed, Sought
  <2> QED BY <1>1, <1>2, <1>5, <2>1, FoundSound
<1>9. Sound(Stop(r, "error"), np, na)
  BY <1>1, <1>2, Stops DEF Replies
<1>10. PICK q : Is(c, q) /\ Sound(q, np, na)
  BY <1>3, <1>6, <1>7, <1>8, <1>9
<1> HIDE DEF np, na
<1> QED BY <1>2, <1>10, Read DEF np, na, Underway

LEMMA EndOfListStep ==
    ASSUME Managed, Underway, NEW c \in Clients, EndOfList(c)
    PROVE  Managed' /\ Underway'
<1>1. Sound(rq[c], Len(profiles), Len(activations)) /\ Len(profiles) \in Nat /\ Len(activations) \in Nat
  BY Counted DEF Underway
<1>2. /\ rq[c].todo # <<>> /\ Head(rq[c].todo) \in Strict \cup Tolerant
      /\ Is(c, NotFound(rq[c])) /\ UNCHANGED <<nm, defaults, made>>
  BY DEF EndOfList, Scanning, Busy
<1>3. Sound(NotFound(rq[c]), Len(profiles), Len(activations))
  BY <1>1, <1>2, NotFoundSound
<1> QED BY <1>2, <1>3, Read DEF Underway

LEMMA DoneFields ==
    ASSUME NEW r \in Request, r.todo # <<>>
    PROVE  /\ Done(r) \in Request /\ Done(r).todo = Tail(r.todo) /\ Done(r).scan = {} /\ Done(r).op = r.op
           /\ Done(r).new = r.new /\ Done(r).path = r.path /\ Done(r).conn = r.conn /\ Done(r).polls = r.polls
           /\ Done(r).reply = r.reply /\ Done(r).wrote = r.wrote
<1>1. Done(r) \in Request
  BY DoneIs
<1> QED BY <1>1 DEF Done, Request

(* The stage found a profile, or an activation. *)
LEMMA Locates ==
    ASSUME NEW np \in Nat, NEW na \in Nat, NEW r, NEW p \in 1..np, Sound(r, np, na), r.todo # <<>>
    PROVE  Sound([Done(r) EXCEPT !.path = p], np, na)
<1> DEFINE d == Done(r)
           q == [d EXCEPT !.path = p]
<1>1. /\ r \in Request /\ d \in Request /\ d.todo = Tail(r.todo) /\ d.scan = {} /\ d.op = r.op /\ d.new = r.new
      /\ d.conn = r.conn /\ d.polls = r.polls /\ d.reply = r.reply /\ d.wrote = r.wrote
  BY DoneFields DEF Sound
<1> HIDE DEF d
<1>2. /\ q \in Request /\ q.todo = d.todo /\ q.scan = d.scan /\ q.op = d.op /\ q.new = d.new
      /\ q.conn = d.conn /\ q.polls = d.polls /\ q.reply = d.reply /\ q.wrote = d.wrote /\ q.path = p
  BY SMTT(60), <1>1 DEF Request
<1> HIDE DEF q
<1>3. Numbers(q, np, na) /\ Same(q, r) /\ q.path # 0
  BY <1>1, <1>2 DEF Sound, Numbers, Same
<1>4. Sound(q, np, na)
  BY <1>1, <1>2, <1>3, Advances
<1> QED BY <1>4 DEF q, d

LEMMA Connects ==
    ASSUME NEW np \in Nat, NEW na \in Nat, NEW r, NEW a \in 1..na, Sound(r, np, na)
    PROVE  Sound([r EXCEPT !.conn = a], np, na)
<1> DEFINE q == [r EXCEPT !.conn = a]
<1>1. /\ q \in Request /\ q.op = r.op /\ q.new = r.new /\ q.todo = r.todo /\ q.scan = r.scan /\ q.conn = a
      /\ q.path = r.path /\ q.polls = r.polls /\ q.reply = r.reply /\ q.wrote = r.wrote
  BY SMTT(60) DEF Sound, Request
<1> HIDE DEF q
<1>2. Numbers(q, np, na) /\ (r.todo # <<>> => InRange(q, np, na))
  BY <1>1 DEF Sound, Numbers, Waiting, InRange
<1>3. Sound(q, np, na)
  BY <1>1, <1>2, Stays DEF Same
<1> QED BY <1>3 DEF q

LEMMA PathStep ==
    ASSUME Managed, Underway, NEW c \in Clients, Path(c)
    PROVE  Managed' /\ Underway'
<1> DEFINE r == rq[c]
           np == Len(profiles)
           na == Len(activations)
           p == CHOOSE p \in PathsOf(r.uuid) : TRUE
<1>1. Sound(r, np, na) /\ np \in Nat /\ na \in Nat /\ Paths = 1..np
  BY Counted DEF Underway
<1>2. r.todo # <<>> /\ UNCHANGED <<nm, defaults, made>>
  BY DEF Path, At, Busy
<1>3. Is(c, IF PathsOf(r.uuid) = {} THEN Stop(r, "error") ELSE [Done(r) EXCEPT !.path = p])
  BY DEF Path
<1>4. PathsOf(r.uuid) # {} => p \in 1..np
  BY <1>1 DEF PathsOf
<1> HIDE DEF r, p, np, na
<1>5. Sound(Stop(r, "error"), np, na)
  BY <1>1, <1>2, Stops DEF Replies
<1>6. PathsOf(r.uuid) # {} => Sound([Done(r) EXCEPT !.path = p], np, na)
  BY <1>1, <1>2, <1>4, Locates
<1>7. PICK q : Is(c, q) /\ Sound(q, np, na)
  BY <1>3, <1>5, <1>6
<1> QED BY <1>2, <1>7, Read DEF np, na, Underway

LEMMA SettingsStep ==
    ASSUME Managed, Underway, NEW c \in Clients, Settings(c)
    PROVE  Managed' /\ Underway'
<1> DEFINE r == rq[c]
           np == Len(profiles)
           na == Len(activations)
           s == profiles[r.path]
           d == Done(r)
           q == [d EXCEPT !.got = s]
<1>1. Sound(r, np, na) /\ np \in Nat /\ na \in Nat /\ Paths = 1..np
  BY Counted DEF Underway
<1>2. r.todo # <<>> /\ Head(r.todo) = "settings" /\ UNCHANGED <<nm, defaults, made>>
  BY DEF Settings, At, Busy
<1>3. Is(c, Stop(r, "error")) \/ Is(c, q)
  BY DEF Settings
<1>4. r.path \in 1..np
  BY <1>1, <1>2 DEF Sound, Waiting, Numbers, Needed
<1>5. s \in Dictionaries
  BY <1>4, ElementOfSeq DEF Managed
<1> HIDE DEF r, s, np, na
<1>6. Sound(Stop(r, "error"), np, na)
  BY <1>1, <1>2, Stops DEF Replies
<1>7. Sound(d, np, na) /\ d \in Request
  BY <1>1, <1>2, <1>4, DoneSound
<1> HIDE DEF d
<1>8. /\ q \in Request /\ q.op = d.op /\ q.new = d.new /\ q.todo = d.todo /\ q.scan \subseteq d.scan
      /\ q.path = d.path /\ q.conn = d.conn /\ q.polls = d.polls /\ q.reply = d.reply /\ q.wrote = d.wrote
  BY <1>5, <1>7 DEF Request
<1> HIDE DEF q
<1>9. Sound(q, np, na)
  BY <1>1, <1>7, <1>8, Keeps
<1>10. PICK x : Is(c, x) /\ Sound(x, np, na)
  BY <1>3, <1>6, <1>9
<1> QED BY <1>2, <1>10, Read DEF np, na, Underway

LEMMA ReadNewStep ==
    ASSUME Managed, Underway, NEW c \in Clients, ReadNew(c)
    PROVE  Managed' /\ Underway'
<1> DEFINE r == rq[c]
           np == Len(profiles)
           na == Len(activations)
           s == profiles[r.path]
           q == [Done(r) EXCEPT !.uuid = s["uuid"]]
<1>1. Sound(r, np, na) /\ np \in Nat /\ na \in Nat /\ Paths = 1..np
  BY Counted DEF Underway
<1>2. r.todo # <<>> /\ Head(r.todo) = "readNew" /\ UNCHANGED <<nm, defaults, made>>
  BY DEF ReadNew, At, Busy
<1>3. Is(c, Stop(r, "error")) \/ (Exists(r.path) /\ Is(c, q))
  BY DEF ReadNew
<1>4. r.path \in 1..np
  BY <1>1, <1>2 DEF Sound, Waiting, Numbers, Needed
<1>5. Exists(r.path) => s["uuid"] \in Text
  <2>1. s \in Dictionaries
    BY <1>4, ElementOfSeq DEF Managed
  <2>2. Exists(r.path) => Complete(s)
    BY <1>1, <1>4 DEF Managed
  <2> QED BY <2>1, <2>2, CompleteIs
<1> HIDE DEF r, s, np, na
<1>6. Sound(Stop(r, "error"), np, na)
  BY <1>1, <1>2, Stops DEF Replies
<1>7. Sound(Done(r), np, na)
  BY <1>1, <1>2, DoneSound
<1>8. Exists(r.path) => Sound(q, np, na)
  BY <1>1, <1>5, <1>7, Renames
<1>9. PICK x : Is(c, x) /\ Sound(x, np, na)
  BY <1>3, <1>6, <1>8
<1> QED BY <1>2, <1>9, Read DEF np, na, Underway

LEMMA DeviceStep ==
    ASSUME Managed, Underway, NEW c \in Clients, Device(c)
    PROVE  Managed' /\ Underway'
<1> DEFINE r == rq[c]
           np == Len(profiles)
           na == Len(activations)
<1>1. Sound(r, np, na) /\ np \in Nat /\ na \in Nat
  BY Counted DEF Underway
<1>2. r.todo # <<>> /\ Head(r.todo) = "device" /\ UNCHANGED <<nm, defaults, made>>
  BY DEF Device, At, Busy
<1>3. Is(c, Stop(r, "error")) \/ Is(c, Done(r))
  BY DEF Device
<1>4. r.path # 0
  BY <1>1, <1>2 DEF Sound, Waiting, Needed
<1> HIDE DEF r, np, na
<1>5. Sound(Stop(r, "error"), np, na)
  BY <1>1, <1>2, Stops DEF Replies
<1>6. Sound(Done(r), np, na)
  BY <1>1, <1>2, <1>4, DoneSound
<1>7. PICK q : Is(c, q) /\ Sound(q, np, na)
  BY <1>3, <1>5, <1>6
<1> QED BY <1>2, <1>7, Read DEF np, na, Underway

LEMMA DeactivateStep ==
    ASSUME Managed, Underway, NEW c \in Clients, Deactivate(c)
    PROVE  Managed' /\ Underway'
<1> DEFINE r == rq[c]
           np == Len(profiles)
           na == Len(activations)
           a == CHOOSE a \in ActiveOf(r.uuid) : TRUE
           q == [Done(r) EXCEPT !.conn = a]
<1>1. Sound(r, np, na) /\ np \in Nat /\ na \in Nat /\ ActivePaths = 1..na
  BY Counted DEF Underway
<1>2. r.todo # <<>> /\ Head(r.todo) = "deactivate" /\ UNCHANGED <<nm, defaults, made>>
  BY DEF Deactivate, At, Busy
<1>3. Is(c, IF ActiveOf(r.uuid) = {} THEN Stop(r, "inactive") ELSE q)
  BY DEF Deactivate
<1>4. ActiveOf(r.uuid) # {} => a \in 1..na
  BY <1>1 DEF ActiveOf
<1> HIDE DEF r, a, np, na
<1>5. Sound(Stop(r, "inactive"), np, na)
  BY <1>1, <1>2, Stops DEF Replies
<1>6. Sound(Done(r), np, na)
  BY <1>1, <1>2, DoneSound
<1>7. ActiveOf(r.uuid) # {} => Sound(q, np, na)
  BY <1>1, <1>4, <1>6, Connects
<1>8. PICK x : Is(c, x) /\ Sound(x, np, na)
  BY <1>3, <1>5, <1>7
<1> QED BY <1>2, <1>8, Read DEF np, na, Underway

LEMMA PollStep ==
    ASSUME Managed, Underway, NEW c \in Clients, Poll(c)
    PROVE  Managed' /\ Underway'
<1> DEFINE r == rq[c]
           np == Len(profiles)
           na == Len(activations)
           q == [r EXCEPT !.polls = @ + 1]
<1>1. Sound(r, np, na) /\ np \in Nat /\ na \in Nat
  BY Counted DEF Underway
<1>2. r.todo # <<>> /\ Head(r.todo) = "poll" /\ UNCHANGED <<nm, defaults, made>>
  BY DEF Poll, At, Busy
<1>3. Is(c, Stop(r, "error")) \/ Is(c, Done(r)) \/ (r.polls # MaxPolls /\ Is(c, q))
  BY DEF Poll, Polled
<1> HIDE DEF r, np, na
<1>4. Sound(Stop(r, "error"), np, na)
  BY <1>1, <1>2, Stops DEF Replies
<1>5. Sound(Done(r), np, na)
  BY <1>1, <1>2, DoneSound
<1>6. ASSUME r.polls # MaxPolls
      PROVE  Sound(q, np, na)
  <2>1. /\ q \in Request /\ q.op = r.op /\ q.new = r.new /\ q.todo = r.todo /\ q.scan = r.scan /\ q.conn = r.conn
        /\ q.path = r.path /\ q.polls = r.polls + 1 /\ q.reply = r.reply /\ q.wrote = r.wrote
    BY SMTT(60), <1>1 DEF Sound, Request
  <2> HIDE DEF q
  <2>2. Numbers(q, np, na) /\ (r.todo # <<>> => InRange(q, np, na))
    BY <1>1, <1>6, <2>1, LimitsAssumption DEF Sound, Numbers, Waiting, InRange
  <2> QED BY <1>1, <2>1, <2>2, Stays DEF Same
<1>7. PICK x : Is(c, x) /\ Sound(x, np, na)
  BY <1>3, <1>4, <1>5, <1>6
<1> QED BY <1>2, <1>7, Read DEF np, na, Underway

LEMMA FilledIs ==
    ASSUME NEW s \in Dictionaries, NEW sections, defaults \in Dictionaries
    PROVE  Filled(s, sections) \in Dictionaries
BY OnlyIs, OverIs DEF Filled

LEMMA FillStep ==
    ASSUME Managed, Underway, NEW c \in Clients, Fill(c)
    PROVE  Managed' /\ Underway'
<1> DEFINE r == rq[c]
           np == Len(profiles)
           na == Len(activations)
           s == profiles[r.path]
           d == Done(r)
           q == [d EXCEPT !.got = s, !.sections = {"connection"}]
<1>1. Sound(r, np, na) /\ np \in Nat /\ na \in Nat
  BY Counted DEF Underway
<1>2. r.todo # <<>> /\ Head(r.todo) = "fill" /\ UNCHANGED <<nm, made>>
  BY DEF Fill, At, Busy
<1>3. (Is(c, Stop(r, "error")) /\ UNCHANGED defaults) \/ (Is(c, q) /\ defaults' = Filled(s, {"connection"}))
  BY DEF Fill
<1>4. r.path \in 1..np
  BY <1>1, <1>2 DEF Sound, Waiting, Numbers, Needed
<1>5. s \in Dictionaries
  BY <1>4, ElementOfSeq DEF Managed
<1>6. defaults' \in Dictionaries
  BY <1>3, <1>5, FilledIs DEF Underway
<1> HIDE DEF r, s, np, na
<1>7. Sound(Stop(r, "error"), np, na)
  BY <1>1, <1>2, Stops DEF Replies
<1>8. Sound(d, np, na) /\ d \in Request
  BY <1>1, <1>2, <1>4, DoneSound
<1>9. {"connection"} \in SUBSET Sections
  BY DEF Sections, SectionKeys
<1> HIDE DEF d
<1>10. /\ q \in Request /\ q.op = d.op /\ q.new = d.new /\ q.todo = d.todo /\ q.scan \subseteq d.scan
       /\ q.path = d.path /\ q.conn = d.conn /\ q.polls = d.polls /\ q.reply = d.reply /\ q.wrote = d.wrote
  BY <1>5, <1>8, <1>9 DEF Request
<1> HIDE DEF q
<1>11. Sound(q, np, na)
  BY <1>1, <1>8, <1>10, Keeps
<1>12. PICK x : Is(c, x) /\ Sound(x, np, na)
  BY <1>3, <1>7, <1>11
<1> QED BY <1>2, <1>6, <1>12, Read DEF np, na

LEMMA ListActiveStep ==
    ASSUME Managed, Underway, NEW c \in Clients, ListActive(c)
    PROVE  Managed' /\ Underway'
<1> DEFINE r == rq[c]
           there == {a \in ActivePaths : Alive(a)}
           q == [r EXCEPT !.listed = TRUE, !.scan = there]
           np == Len(profiles)
           na == Len(activations)
<1>1. Sound(r, np, na) /\ r \in Request /\ np \in Nat /\ na \in Nat /\ ActivePaths = 1..na
  BY Counted DEF Underway
<1>2. Head(r.todo) = "details" /\ Is(c, q) /\ UNCHANGED <<nm, defaults, made>>
  BY DEF ListActive, At
<1>3. there \in SUBSET Nat /\ there \subseteq 1..na
  BY <1>1
<1> HIDE DEF r, there
<1>4. /\ q \in Request /\ q.op = r.op /\ q.new = r.new /\ q.todo = r.todo /\ q.scan \subseteq 1..na
      /\ q.path = r.path /\ q.conn = r.conn /\ q.polls = r.polls /\ q.reply = r.reply /\ q.wrote = r.wrote
  BY <1>1, <1>3 DEF Request
<1> HIDE DEF q, np, na
<1>5. Numbers(q, np, na) /\ InRange(q, np, na)
  BY <1>1, <1>2, <1>4 DEF Sound, Numbers, InRange
<1>6. Sound(q, np, na)
  BY <1>1, <1>4, <1>5, Stays DEF Same
<1> QED BY <1>2, <1>6, Read DEF np, na, Underway

LEMMA ReadActiveStep ==
    ASSUME Managed, Underway, NEW c \in Clients, ReadActive(c)
    PROVE  Managed' /\ Underway'
<1> DEFINE r == rq[c]
           a == First(r.scan)
           stages == <<"general", "addresses", "leases">>
           onward == [r EXCEPT !.scan = @ \ {a}]
           q == [Then(r, stages) EXCEPT !.conn = a]
           np == Len(profiles)
           na == Len(activations)
<1>1. Sound(r, np, na) /\ r \in Request /\ np \in Nat /\ na \in Nat
  BY Counted DEF Underway
<1>2. r.todo # <<>> /\ Head(r.todo) = "details" /\ r.scan # {} /\ UNCHANGED <<nm, defaults, made>>
  BY DEF ReadActive, At, Busy
<1>3. Is(c, Stop(r, "error")) \/ Is(c, onward) \/ Is(c, q)
  BY DEF ReadActive
<1>4. a \in 1..na
  <2>1. r.scan \subseteq 1..na /\ r.scan \in SUBSET Nat
    BY <1>1, <1>2 DEF Sound, Waiting, InRange, Request
  <2> QED BY <1>2, <2>1, FirstIs
<1> HIDE DEF r, a
<1>5. Sound(onward, np, na)
  <2>1. /\ onward \in Request /\ onward.op = r.op /\ onward.new = r.new /\ onward.todo = r.todo
        /\ onward.scan \subseteq r.scan /\ onward.path = r.path /\ onward.conn = r.conn /\ onward.polls = r.polls
        /\ onward.reply = r.reply /\ onward.wrote = r.wrote
    BY <1>1 DEF Request
  <2> HIDE DEF onward
  <2> QED BY <1>1, <2>1, Keeps
<1>6. Sound(q, np, na)
  <2>1. ~Refuses(stages) /\ ~Turns(stages, r.op) /\ Block(stages, r.op)
    BY PiecesAre DEF Turns, Turning, Changing, Replaced
  <2>2. Keyed(stages, r.op, "uuid" \in DOMAIN r.new)
    BY <2>1, HarmlessKeyed
  <2> HIDE DEF stages
  <2>3. Sound(Then(r, stages), np, na)
    BY <1>1, <1>2, <2>1, <2>2, ThenSound
  <2> QED BY <1>1, <1>4, <2>3, Connects
<1>7. Sound(Stop(r, "error"), np, na)
  BY <1>1, <1>2, Stops DEF Replies
<1>8. PICK x : Is(c, x) /\ Sound(x, np, na)
  BY <1>3, <1>5, <1>6, <1>7
<1> HIDE DEF np, na
<1> QED BY <1>2, <1>8, Read DEF np, na, Underway

LEMMA TypedStep ==
    ASSUME Managed, Underway, NEW c \in Clients, rq[c].todo # <<>>, Head(rq[c].todo) \in {"details", "leases"},
           Typed(c), UNCHANGED <<nm, made>>
    PROVE  Managed' /\ Underway'
<1> DEFINE r == rq[c]
           np == Len(profiles)
           na == Len(activations)
           d == Done(r)
           q == [d EXCEPT !.sections = @ \cup TypeSections]
<1>1. Sound(r, np, na) /\ np \in Nat /\ na \in Nat /\ r \in Request
  BY Counted DEF Underway
<1>2. Is(c, q) /\ defaults' = Filled(r.got, TypeSections) /\ UNCHANGED <<nm, made>>
  BY DEF Typed
<1>3. defaults' \in Dictionaries
  <2>1. r.got \in Dictionaries
    BY <1>1 DEF Request
  <2> QED BY <1>2, <2>1, FilledIs DEF Underway
<1>4. TypeSections \in SUBSET Sections
  BY DEF TypeSections, Sections, SectionKeys
<1>5. Sound(d, np, na) /\ d \in Request
  BY <1>1, DoneSound
<1> HIDE DEF r, d, np, na
<1>6. /\ q \in Request /\ q.op = d.op /\ q.new = d.new /\ q.todo = d.todo /\ q.scan \subseteq d.scan
      /\ q.path = d.path /\ q.conn = d.conn /\ q.polls = d.polls /\ q.reply = d.reply /\ q.wrote = d.wrote
  BY <1>4, <1>5 DEF Request
<1> HIDE DEF q
<1>7. Sound(q, np, na)
  BY <1>1, <1>5, <1>6, Keeps
<1> QED BY <1>2, <1>3, <1>7, Read DEF np, na

LEMMA NotActiveStep ==
    ASSUME Managed, Underway, NEW c \in Clients, NotActive(c)
    PROVE  Managed' /\ Underway'
BY TypedStep DEF NotActive, At, Busy

LEMMA ExtractLeasesStep ==
    ASSUME Managed, Underway, NEW c \in Clients, ExtractLeases(c)
    PROVE  Managed' /\ Underway'
BY TypedStep DEF ExtractLeases, At, Busy

LEMMA ExtractStep ==
    ASSUME Managed, Underway, NEW c \in Clients, ExtractGeneral(c) \/ ExtractAddresses(c)
    PROVE  Managed' /\ Underway'
<1> DEFINE r == rq[c]
           np == Len(profiles)
           na == Len(activations)
<1>1. Sound(r, np, na) /\ np \in Nat /\ na \in Nat
  BY Counted DEF Underway
<1>2. r.todo # <<>> /\ Head(r.todo) \in {"general", "addresses"} /\ UNCHANGED <<nm, defaults, made>>
  BY DEF ExtractGeneral, ExtractAddresses, At, Busy
<1>3. Is(c, Stop(r, "error")) \/ Is(c, Done(r))
  BY DEF ExtractGeneral, ExtractAddresses
<1> HIDE DEF r, np, na
<1>4. Sound(Stop(r, "error"), np, na)
  BY <1>1, <1>2, Stops DEF Replies
<1>5. Sound(Done(r), np, na)
  BY <1>1, <1>2, DoneSound
<1>6. PICK q : Is(c, q) /\ Sound(q, np, na)
  BY <1>3, <1>4, <1>5
<1> QED BY <1>2, <1>6, Read DEF np, na, Underway

LEMMA OnwardSound ==
    ASSUME NEW np \in Nat, NEW na \in Nat, NEW r, Sound(r, np, na), r.todo # <<>>,
           Head(r.todo) \notin {"path", "settings", "device", "add"}
    PROVE  Sound(Onward(r), np, na)
BY DoneSound, Stops DEF Onward, Replies

LEMMA IsActiveStep ==
    ASSUME Managed, Underway, NEW c \in Clients, IsActive(c)
    PROVE  Managed' /\ Underway'
<1> DEFINE r == rq[c]
           np == Len(profiles)
           na == Len(activations)
           d == Onward(r)
           all == Only(defaults, UNION {SectionKeys[t] : t \in r.sections})
           q == [d EXCEPT !.answer = IF r.op = "plain" THEN @ ELSE all]
<1>1. Sound(r, np, na) /\ np \in Nat /\ na \in Nat
  BY Counted DEF Underway
<1>2. r.todo # <<>> /\ Head(r.todo) = "isActive" /\ Is(c, q) /\ UNCHANGED <<nm, defaults, made>>
  BY DEF IsActive, At, Busy
<1>3. all \in Dictionaries
  BY OnlyIs DEF Underway
<1>4. Sound(d, np, na)
  BY <1>1, <1>2, OnwardSound
<1>5. d \in Request
  BY <1>4 DEF Sound
<1> HIDE DEF r, d, all, np, na
<1>6. /\ q \in Request /\ q.op = d.op /\ q.new = d.new /\ q.todo = d.todo /\ q.scan \subseteq d.scan
      /\ q.path = d.path /\ q.conn = d.conn /\ q.polls = d.polls /\ q.reply = d.reply /\ q.wrote = d.wrote
  BY <1>3, <1>5 DEF Request
<1> HIDE DEF q
<1>7. Sound(q, np, na)
  BY <1>1, <1>4, <1>6, Keeps
<1> QED BY <1>2, <1>7, Read DEF np, na, Underway

-----------------------------------------------------------------------------
(* The calls that change something. *)
LEMMA Ended ==
    ASSUME NEW ended, NEW log \in Seq(LogEntries)
    PROVE  /\ End(ended, log) \in Seq(LogEntries) /\ Len(End(ended, log)) = Len(log) /\ Len(log) \in Nat
           /\ \A a \in 1..Len(log) :
                 /\ End(ended, log)[a].path = log[a].path
                 /\ End(ended, log)[a].state = IF a \in ended THEN "gone" ELSE log[a].state
<1>1. Len(log) \in Nat /\ DOMAIN log = 1..Len(log) /\ \A a \in 1..Len(log) : log[a] \in LogEntries
  BY LenProperties, ElementOfSeq
<1>2. ASSUME NEW e \in LogEntries
      PROVE  /\ [e EXCEPT !.state = "gone"] \in LogEntries /\ [e EXCEPT !.state = "gone"].path = e.path
             /\ [e EXCEPT !.state = "gone"].state = "gone"
  BY DEF LogEntries, States
<1>3. \A a \in 1..Len(log) :
        /\ End(ended, log)[a] \in LogEntries
        /\ End(ended, log)[a].path = log[a].path
        /\ End(ended, log)[a].state = IF a \in ended THEN "gone" ELSE log[a].state
  BY <1>1, <1>2 DEF End
<1>4. End(ended, log) \in [1..Len(log) -> LogEntries]
  BY <1>1, <1>3 DEF End
<1>5. End(ended, log) \in Seq(LogEntries) /\ Len(End(ended, log)) = Len(log)
  BY <1>1, <1>4, SeqDef, LenProperties
<1> QED BY <1>1, <1>3, <1>5

(* What a call does to the request that makes it. *)
LEMMA CalledSound ==
    ASSUME NEW np \in Nat, NEW na \in Nat, NEW r, Sound(r, np, na), r.todo # <<>>,
           Head(r.todo) \in Changing \ {"add"}
    PROVE  Sound([Onward(r) EXCEPT !.wrote = TRUE], np, na) /\ Sound(Stop(r, "error"), np, na)
<1> DEFINE d == Onward(r)
           q == [d EXCEPT !.wrote = TRUE]
<1>1. Sound(d, np, na) /\ d.reply \notin {"bad", "reserved"} /\ ~Refuses(d.todo)
  <2>1. Sound(d, np, na)
    BY OnwardSound DEF Changing
  <2>2. r \in Request /\ r.todo \in Seq(Stages) /\ r.reply = "none"
    BY DEF Sound, Request, Waiting
  <2>3. Head(r.todo) \in Turning(r.op)
    BY DEF Turning
  <2>4. ~Refuses(Tail(r.todo)) /\ ~Refuses(<<>>)
    BY <2>2, <2>3, TailKeeps, NothingIs DEF Sound, Stacked
  <2>5. Done(r).todo = Tail(r.todo) /\ Done(r).reply = r.reply
    BY <2>2, DoneFields
  <2>6. Stop(r, "ok").todo = <<>> /\ Stop(r, "ok").reply = "ok"
    BY <2>2 DEF Stop, Request
  <2> QED BY <2>1, <2>2, <2>4, <2>5, <2>6 DEF Onward
<1> HIDE DEF d
<1>2. /\ q \in Request /\ q.op = d.op /\ q.new = d.new /\ q.todo = d.todo /\ q.scan = d.scan
      /\ q.path = d.path /\ q.conn = d.conn /\ q.polls = d.polls /\ q.reply = d.reply
  BY <1>1 DEF Sound, Request
<1> HIDE DEF q
<1>3. Unrefused(q) /\ Stacked(q) /\ Numbers(q, np, na) /\ Waiting(q, np, na)
  BY <1>1, <1>2 DEF Sound, Unrefused, Stacked, Numbers, Waiting, InRange
<1>4. Sound(q, np, na)
  BY <1>2, <1>3 DEF Sound
<1> QED BY <1>4, Stops DEF q, d, Replies

(* The state that a call leaves. *)
LEMMA UpdateManaged ==
    ASSUME Managed, NEW p, NEW s \in Dictionaries, Complete(s), UpdateConnection(p, s)
    PROVE  Managed' /\ Len(profiles') = Len(profiles) /\ Len(activations') = Len(activations)
<1>1. /\ profiles' = [profiles EXCEPT ![p] = s] /\ activations' = activations
      /\ present' = present /\ seen' = seen
  BY DEF UpdateConnection
<1>2. profiles' \in Seq(Dictionaries) /\ Len(profiles') = Len(profiles) /\ DOMAIN profiles = 1..Len(profiles)
  <2>1. Len(profiles) \in Nat /\ profiles \in [1..Len(profiles) -> Dictionaries]
    BY LenProperties, ElementOfSeq, SeqDef DEF Managed
  <2>2. profiles' \in [1..Len(profiles) -> Dictionaries]
    BY <1>1, <2>1
  <2> QED BY <2>1, <2>2, SeqDef, LenProperties
<1>3. s # Deleted
  BY CompleteIs
<1>4. Paths' = Paths /\ ActivePaths' = ActivePaths /\ Paths = DOMAIN profiles
  BY <1>1, <1>2 DEF Paths, ActivePaths
<1>5. \A q \in Paths : profiles'[q] = IF q = p THEN s ELSE profiles[q]
  BY <1>1, <1>4
<1>6. \A q \in Paths : (Exists(q)' => Complete(profiles'[q])) /\ (Exists(q) => Exists(q)')
  BY <1>3, <1>5 DEF Managed, Exists
<1>7. \A a \in ActivePaths : Tied(a)'
  BY <1>1, <1>4, <1>6 DEF Managed, Tied, Alive, Exists
<1> QED BY <1>1, <1>2, <1>4, <1>6, <1>7 DEF Managed

LEMMA DeleteManaged ==
    ASSUME Managed, NEW p, DeleteConnection(p)
    PROVE  Managed' /\ Len(profiles') = Len(profiles) /\ Len(activations') = Len(activations)
<1>1. /\ profiles' = [profiles EXCEPT ![p] = Deleted] /\ activations' = End(Of(p), activations)
      /\ present' = present /\ seen' = seen
  BY DEF DeleteConnection
<1>2. profiles' \in Seq(Dictionaries) /\ Len(profiles') = Len(profiles) /\ DOMAIN profiles = 1..Len(profiles)
  <2>1. Len(profiles) \in Nat /\ profiles \in [1..Len(profiles) -> Dictionaries]
    BY LenProperties, ElementOfSeq, SeqDef DEF Managed
  <2>2. profiles' \in [1..Len(profiles) -> Dictionaries]
    BY <1>1, <2>1, DeletedIs
  <2> QED BY <2>1, <2>2, SeqDef, LenProperties
<1>3. /\ activations' \in Seq(LogEntries) /\ Len(activations') = Len(activations)
      /\ \A a \in ActivePaths : /\ activations'[a].path = activations[a].path
                                /\ activations'[a].state = IF a \in Of(p) THEN "gone" ELSE activations[a].state
  BY <1>1, Ended DEF Managed, ActivePaths
<1>4. Paths' = Paths /\ ActivePaths' = ActivePaths /\ Paths = DOMAIN profiles
  BY <1>2, <1>3 DEF Paths, ActivePaths
<1>5. \A q \in Paths : profiles'[q] = IF q = p THEN Deleted ELSE profiles[q]
  BY <1>1, <1>4
<1>6. \A q \in Paths : (Exists(q)' => Complete(profiles'[q])) /\ (Exists(q) /\ q # p => Exists(q)')
  BY <1>5 DEF Managed, Exists
<1>7. \A a \in ActivePaths : Tied(a)'
  <2> SUFFICES ASSUME NEW a \in ActivePaths
               PROVE  Tied(a)'
    OBVIOUS
  <2>1. activations'[a].path = activations[a].path /\ activations[a].path \in Paths
    BY <1>3 DEF Managed, Tied
  <2>2. Alive(a)' => Alive(a) /\ activations[a].path # p
    BY <1>3 DEF Alive, Of
  <2>3. Alive(a) => Exists(activations[a].path)
    BY DEF Managed, Tied
  <2> QED BY <1>4, <1>6, <2>1, <2>2, <2>3 DEF Tied, Exists
<1> QED BY <1>1, <1>2, <1>3, <1>4, <1>6, <1>7 DEF Managed

LEMMA AddManaged ==
    ASSUME Managed, NEW s \in Dictionaries, Complete(Added(s)), AddConnection(s)
    PROVE  Managed' /\ Len(profiles') = Len(profiles) + 1 /\ Len(activations') = Len(activations)
<1> DEFINE new == Added(s)
<1>1. /\ profiles' = Append(profiles, new) /\ activations' = activations
      /\ present' = present /\ seen' = seen
  BY DEF AddConnection
<1>2. new \in Dictionaries /\ Complete(new)
  BY AddedIs
<1> HIDE DEF new
<1>3. Len(profiles) \in Nat
  BY LenProperties DEF Managed
<1>4. /\ profiles' \in Seq(Dictionaries) /\ Len(profiles') = Len(profiles) + 1
      /\ \A p \in 1..Len(profiles) : profiles'[p] = profiles[p]
      /\ profiles'[Len(profiles) + 1] = new
  BY <1>1, <1>2, AppendProperties DEF Managed
<1>5. Paths' = Paths \cup {Len(profiles) + 1} /\ ActivePaths' = ActivePaths /\ Paths = 1..Len(profiles)
  BY <1>1, <1>3, <1>4 DEF Paths, ActivePaths
<1>6. \A p \in Paths' : Exists(p)' => Complete(profiles'[p])
  BY <1>2, <1>4, <1>5 DEF Managed, Exists
<1>7. \A a \in ActivePaths : Tied(a)'
  BY <1>1, <1>4, <1>5 DEF Managed, Tied, Alive, Exists
<1> QED BY <1>1, <1>4, <1>5, <1>6, <1>7 DEF Managed

(* Activations end, and the rest of the state may change with it. *)
LEMMA EndManaged ==
    ASSUME Managed, NEW ended, activations' = End(ended, activations), UNCHANGED profiles,
           present' \subseteq Devices, seen' \subseteq AccessPoints
    PROVE  Managed' /\ Len(profiles') = Len(profiles) /\ Len(activations') = Len(activations)
<1>1. /\ activations' \in Seq(LogEntries) /\ Len(activations') = Len(activations)
      /\ \A a \in ActivePaths : /\ activations'[a].path = activations[a].path
                                /\ activations'[a].state = IF a \in ended THEN "gone" ELSE activations[a].state
  BY Ended DEF Managed, ActivePaths
<1>2. Paths' = Paths /\ ActivePaths' = ActivePaths
  BY <1>1 DEF Paths, ActivePaths
<1>3. \A a \in ActivePaths : Alive(a)' => Alive(a)
  BY <1>1 DEF Alive
<1>4. \A p : Exists(p)' <=> Exists(p)
  BY DEF Exists
<1>5. \A a \in ActivePaths : Tied(a)'
  BY <1>1, <1>2, <1>3, <1>4 DEF Managed, Tied, Exists
<1>6. \A p \in Paths : Exists(p)' => Complete(profiles'[p])
  BY <1>4 DEF Managed
<1> QED BY <1>1, <1>2, <1>5, <1>6 DEF Managed

(* An activation that is alive goes on to another state. *)
LEMMA StateManaged ==
    ASSUME Managed, NEW a, NEW state \in States, Alive(a), activations' = [activations EXCEPT ![a].state = state],
           UNCHANGED <<profiles, present, seen>>
    PROVE  Managed' /\ Len(profiles') = Len(profiles) /\ Len(activations') = Len(activations)
<1>1. Len(activations) \in Nat /\ activations \in [1..Len(activations) -> LogEntries]
  BY LenProperties, ElementOfSeq, SeqDef DEF Managed
<1>2. ASSUME NEW e \in LogEntries
      PROVE  /\ [e EXCEPT !.state = state] \in LogEntries /\ [e EXCEPT !.state = state].path = e.path
             /\ [e EXCEPT !.state = state].state = state
  BY DEF LogEntries
<1>3. /\ activations' \in [1..Len(activations) -> LogEntries]
      /\ \A b \in ActivePaths : /\ activations'[b].path = activations[b].path
                                /\ b # a => activations'[b].state = activations[b].state
  BY <1>1, <1>2 DEF ActivePaths
<1>4. activations' \in Seq(LogEntries) /\ Len(activations') = Len(activations)
  BY <1>1, <1>3, SeqDef, LenProperties
<1>5. Paths' = Paths /\ ActivePaths' = ActivePaths
  BY <1>4 DEF Paths, ActivePaths
<1>6. \A b \in ActivePaths : Alive(b)' => Alive(b)
  BY <1>3 DEF Alive
<1>7. \A p : Exists(p)' <=> Exists(p)
  BY DEF Exists
<1>8. \A b \in ActivePaths : Tied(b)'
  BY <1>3, <1>5, <1>6, <1>7 DEF Managed, Tied, Exists
<1>9. \A p \in Paths : Exists(p)' => Complete(profiles'[p])
  BY <1>7 DEF Managed
<1> QED BY <1>4, <1>5, <1>8, <1>9 DEF Managed

LEMMA ActivateManaged ==
    ASSUME Managed, NEW p \in Paths, NEW d \in Devices, Exists(p), ActivateConnection(p, d)
    PROVE  Managed' /\ Len(profiles') = Len(profiles) /\ Len(activations') = Len(activations) + 1
<1> DEFINE log == End(On(d) \cup Of(p), activations)
           entry == [path |-> p, dev |-> d, state |-> "activating"]
<1>1. /\ activations' = Append(log, entry) /\ profiles' = profiles /\ present' = present /\ seen' = seen
  BY DEF ActivateConnection
<1>2. /\ log \in Seq(LogEntries) /\ Len(log) = Len(activations) /\ Len(log) \in Nat
      /\ \A a \in ActivePaths : log[a].path = activations[a].path /\ log[a].state \in {"gone", activations[a].state}
  BY Ended DEF Managed, ActivePaths
<1>3. entry \in LogEntries /\ entry.path = p
  BY Counted DEF LogEntries, States
<1> HIDE DEF log, entry
<1>4. /\ activations' \in Seq(LogEntries) /\ Len(activations') = Len(activations) + 1
      /\ \A a \in 1..Len(activations) : activations'[a] = log[a]
      /\ activations'[Len(activations) + 1] = entry
  BY <1>1, <1>2, <1>3, AppendProperties
<1>5. Paths' = Paths /\ ActivePaths' = ActivePaths \cup {Len(activations) + 1} /\ ActivePaths = 1..Len(activations)
  BY <1>1, <1>2, <1>4 DEF Paths, ActivePaths
<1>6. \A q : Exists(q)' <=> Exists(q)
  BY <1>1 DEF Exists
<1>7. \A a \in ActivePaths : activations'[a].path = activations[a].path /\ (Alive(a)' => Alive(a))
  BY <1>2, <1>4, <1>5 DEF Alive
<1>8. \A a \in ActivePaths' : Tied(a)'
  BY <1>3, <1>4, <1>5, <1>6, <1>7 DEF Managed, Tied, Exists
<1>9. \A q \in Paths : Exists(q)' => Complete(profiles'[q])
  BY <1>1, <1>6 DEF Managed
<1> QED BY <1>1, <1>4, <1>5, <1>8, <1>9 DEF Managed

(* A request makes such a call. *)
LEMMA CallStep ==
    ASSUME Managed, Underway, NEW c \in Clients, NEW accepted, Called(c, accepted), rq[c].todo # <<>>,
           Head(rq[c].todo) \in Changing \ {"add"}, Managed',
           Len(profiles') = Len(profiles), Len(activations') \in {Len(activations), Len(activations) + 1}
    PROVE  Underway'
<1> DEFINE np == Len(profiles)
           na == Len(activations)
           ma == Len(activations')
<1>1. Sound(rq[c], np, na) /\ np \in Nat /\ na \in Nat
  BY Counted DEF Underway
<1>2. ma \in Nat /\ na <= ma /\ Len(profiles') = np
  BY <1>1
<1>3. defaults' \in Dictionaries /\ made' \in 0..MaxRequests
  BY DEF Called, Underway
<1>4. Is(c, [Onward(rq[c]) EXCEPT !.wrote = TRUE]) \/ Is(c, Stop(rq[c], "error"))
  BY DEF Called
<1>5. Sound([Onward(rq[c]) EXCEPT !.wrote = TRUE], np, na) /\ Sound(Stop(rq[c], "error"), np, na)
  BY <1>1, CalledSound
<1>6. PICK q : Is(c, q) /\ Sound(q, np, na)
  BY <1>4, <1>5
<1> HIDE DEF np, na, ma
<1>7. Sound(q, np, ma)
  BY <1>1, <1>2, <1>6, Grows
<1> QED BY <1>1, <1>2, <1>3, <1>6, <1>7, Goes DEF np, na, ma

LEMMA WriteStep ==
    ASSUME Managed, Underway, NEW c \in Clients, Write(c)
    PROVE  Managed' /\ Underway'
<1> DEFINE s == Merged(rq[c].got, rq[c].new)
           p == rq[c].path
<1>1. /\ rq[c].todo # <<>> /\ Head(rq[c].todo) \in Changing \ {"add"} /\ Called(c, MayUpdate(p, s))
      /\ IF MayUpdate(p, s) THEN UpdateConnection(p, s) ELSE UNCHANGED nm
  BY DEF Write, At, Busy, Changing
<1>2. s \in Dictionaries
  BY MergedIs DEF Underway, Request
<1> HIDE DEF s, p
<1>3. CASE MayUpdate(p, s)
  <2>1. Complete(s) /\ UpdateConnection(p, s)
    BY <1>1, <1>3 DEF MayUpdate
  <2>2. Managed' /\ Len(profiles') = Len(profiles) /\ Len(activations') = Len(activations)
    BY <1>2, <2>1, UpdateManaged
  <2> QED BY <1>1, <2>2, CallStep
<1>4. CASE ~MayUpdate(p, s)
  <2>1. UNCHANGED nm
    BY <1>1, <1>4
  <2>2. Managed' /\ Len(profiles') = Len(profiles) /\ Len(activations') = Len(activations)
    BY <2>1 DEF Managed, nm, Paths, Exists, ActivePaths, Tied, Alive
  <2> QED BY <1>1, <2>2, CallStep
<1> QED BY <1>3, <1>4

LEMMA DeleteStep ==
    ASSUME Managed, Underway, NEW c \in Clients, Delete(c)
    PROVE  Managed' /\ Underway'
<1> DEFINE p == rq[c].path
<1>1. /\ rq[c].todo # <<>> /\ Head(rq[c].todo) \in Changing \ {"add"} /\ Called(c, Exists(p))
      /\ IF Exists(p) THEN DeleteConnection(p) ELSE UNCHANGED nm
  BY DEF Delete, At, Busy, Changing
<1> HIDE DEF p
<1>2. Managed' /\ Len(profiles') = Len(profiles) /\ Len(activations') = Len(activations)
  <2>1. CASE Exists(p)
    BY <1>1, <2>1, DeleteManaged
  <2>2. CASE ~Exists(p)
    <3>1. UNCHANGED nm
      BY <1>1, <2>2
    <3> QED BY <3>1 DEF Managed, nm, Paths, Exists, ActivePaths, Tied, Alive
  <2> QED BY <2>1, <2>2
<1> QED BY <1>1, <1>2, CallStep

LEMMA ReleaseStep ==
    ASSUME Managed, Underway, NEW c \in Clients, Release(c)
    PROVE  Managed' /\ Underway'
<1> DEFINE a == rq[c].conn
<1>1. /\ rq[c].todo # <<>> /\ Head(rq[c].todo) \in Changing \ {"add"} /\ Called(c, Alive(a))
      /\ IF Alive(a) THEN DeactivateConnection(a) ELSE UNCHANGED nm
  BY DEF Release, At, Busy, Changing
<1> HIDE DEF a
<1>2. Managed' /\ Len(profiles') = Len(profiles) /\ Len(activations') = Len(activations)
  <2>1. CASE Alive(a)
    BY <1>1, <2>1, StateManaged DEF DeactivateConnection, States
  <2>2. CASE ~Alive(a)
    <3>1. UNCHANGED nm
      BY <1>1, <2>2
    <3> QED BY <3>1 DEF Managed, nm, Paths, Exists, ActivePaths, Tied, Alive
  <2> QED BY <2>1, <2>2
<1> QED BY <1>1, <1>2, CallStep

LEMMA ActivateStep ==
    ASSUME Managed, Underway, NEW c \in Clients, Activate(c)
    PROVE  Managed' /\ Underway'
<1> DEFINE p == rq[c].path
           d == rq[c].got["iface"]
<1>1. /\ rq[c].todo # <<>> /\ Head(rq[c].todo) = "activate" /\ Called(c, MayActivate(p, d))
      /\ IF MayActivate(p, d) THEN ActivateConnection(p, d) ELSE UNCHANGED nm
  BY DEF Activate, At, Busy
<1>2. p \in Paths
  <2>1. Sound(rq[c], Len(profiles), Len(activations))
    BY DEF Underway
  <2> QED BY <1>1, <2>1, Counted DEF Sound, Waiting, Numbers, Needed
<1> HIDE DEF p, d
<1>3. /\ Managed' /\ Len(profiles') = Len(profiles)
      /\ Len(activations') \in {Len(activations), Len(activations) + 1}
  <2>1. CASE MayActivate(p, d)
    <3>1. Exists(p) /\ d \in Devices
      BY <2>1 DEF MayActivate, Managed
    <3> QED BY <1>1, <1>2, <2>1, <3>1, ActivateManaged
  <2>2. CASE ~MayActivate(p, d)
    <3>1. UNCHANGED nm
      BY <1>1, <2>2
    <3> QED BY <3>1 DEF Managed, nm, Paths, Exists, ActivePaths, Tied, Alive
  <2> QED BY <2>1, <2>2
<1>4. Head(rq[c].todo) \in Changing \ {"add"}
  BY <1>1 DEF Changing
<1> QED BY <1>1, <1>3, <1>4, CallStep

LEMMA AddStep ==
    ASSUME Managed, Underway, NEW c \in Clients, Add(c)
    PROVE  Managed' /\ Underway'
<1> DEFINE r == rq[c]
           np == Len(profiles)
           na == Len(activations)
           d == Done(r)
           last == Len(profiles')
           q == [d EXCEPT !.wrote = TRUE, !.path = last]
<1>1. Sound(r, np, na) /\ np \in Nat /\ na \in Nat /\ r \in Request
  BY Counted DEF Underway
<1>2. r.todo # <<>> /\ Head(r.todo) = "add" /\ UNCHANGED <<defaults, made>>
  BY DEF Add, At, Busy
<1>3. CASE MayAdd(r.new)
  <2>1. AddConnection(r.new) /\ Is(c, q) /\ Complete(Added(r.new)) /\ r.new \in Dictionaries
    BY <1>1, <1>3 DEF Add, MayAdd, Request
  <2>2. Managed' /\ Len(profiles') = np + 1 /\ Len(activations') = na
    BY <2>1, AddManaged
  <2>0. last = np + 1 /\ last \in Nat
    BY <1>1, <2>2
  <2> HIDE DEF r, np, na, last
  <2>3. /\ d \in Request /\ d.todo = Tail(r.todo) /\ d.scan = {} /\ d.op = r.op /\ d.new = r.new
        /\ d.conn = r.conn /\ d.polls = r.polls /\ d.reply = r.reply
    BY <1>1, <1>2, DoneFields
  <2> HIDE DEF d
  <2>4. /\ q \in Request /\ q.todo = d.todo /\ q.scan = d.scan /\ q.op = d.op /\ q.new = d.new
        /\ q.conn = d.conn /\ q.polls = d.polls /\ q.reply = d.reply /\ q.path = last
    BY <2>0, <2>3 DEF Request
  <2> HIDE DEF q
  <2>5. Numbers(q, np + 1, na) /\ Same(q, r) /\ q.path # 0
    BY <1>1, <2>0, <2>3, <2>4 DEF Sound, Numbers, Same
  <2>6. Sound(r, np + 1, na)
    BY <1>1, Grows
  <2>7. Sound(q, np + 1, na)
    BY <1>1, <1>2, <2>3, <2>4, <2>5, <2>6, Advances DEF Turning, Changing
  <2>8. defaults' \in Dictionaries /\ made' \in 0..MaxRequests /\ np <= np + 1
    BY <1>1, <1>2 DEF Underway
  <2> QED BY <1>1, <2>1, <2>2, <2>7, <2>8, Goes DEF np, na
<1>4. CASE ~MayAdd(r.new)
  <2>1. Is(c, Stop(r, "error")) /\ UNCHANGED nm
    BY <1>4 DEF Add
  <2>2. Sound(Stop(r, "error"), np, na)
    BY <1>1, <1>2, Stops DEF Replies
  <2> QED BY <1>2, <2>1, <2>2, Read DEF Underway
<1> QED BY <1>3, <1>4

-----------------------------------------------------------------------------
(* A request begins. *)
LEMMA PutByIdIs ==
    ASSUME NEW given
    PROVE  Block(<<"freshId", "existsId">>, "put") /\ Keyed(<<"freshId", "existsId">>, "put", given)
<1>1. Linked(<<"freshId", "existsId">>) /\ InOrder(<<"freshId", "existsId">>, "put")
  BY DEF Linked, Needed, InOrder, Turning, Changing, Replaced
<1>2. Keyed(<<"freshId", "existsId">>, "put", given)
  BY DEF Keyed
<1>3. <<"freshId", "existsId">> \in Seq(Stages) /\ Head(<<"freshId", "existsId">>) \notin DOMAIN Needed
  BY DEF Stages, Harmless, Needed
<1> QED BY <1>1, <1>2, <1>3 DEF Block

LEMMA OpeningIs ==
    ASSUME NEW r \in Request, r.op \in Ops \ {"at create"}, NEW given
    PROVE  Block(Opening(r), r.op) /\ Keyed(Opening(r), r.op, given)
<1> DEFINE Opens(s) == Block(s, r.op) /\ Keyed(s, r.op, given)
<1>1. Opens(GetStages)
  BY GetIs, HarmlessKeyed
<1>2. Opens(UpdateStages(r)) /\ Opens(DeleteStages(r))
  BY UpdateIs, UpdateKeyed, DeleteIs, DeleteKeyed
<1>3. Opens(ActivateStages) /\ Opens(DeactivateStages)
  BY ActivateIs, DeactivateIs, HarmlessKeyed
<1>4. ASSUME NEW stage \in {"uuidOfId", "freshId", "existsUuid", "existsId", "list", "plain", "match"}
      PROVE  Opens(<<stage>>)
  BY OneStage, OneKeyed DEF Stages, Needed
<1>5. r.op \in AtOps => Opens(<<"nameOrUuid">>)
  BY OneStage, OneKeyed DEF Stages, Needed
<1>6. Opens(<<"isActive">>) /\ ~Refuses(<<"isActive">>)
  BY OneStage, OneKeyed DEF Stages, Needed, Harmless
<1>7. ASSUME NEW s, NEW t, Opens(s), Opens(t), ~Turns(s, r.op) \/ ~Refuses(t)
      PROVE  Opens(s \o t)
  BY <1>7, BlockJoin, KeyedJoin DEF Block
<1>8. ASSUME NEW stage \in {"uuidOfId", "freshId", "list", "plain"}, stage # "freshId" \/ r.op # "post"
      PROVE  ~Turns(<<stage>>, r.op)
  BY <1>8, OneStage DEF Stages, Needed, Turning, Changing, Replaced
<1> HIDE DEF Opens
<1>9. CASE r.op = "get"
  <2>1. Opening(r) \in {GetStages, <<"uuidOfId">> \o GetStages}
    BY <1>9 DEF Opening, GetByUuid, GetById
  <2>2. Opens(<<"uuidOfId">> \o GetStages)
    BY <1>1, <1>4, <1>7, GetIs
  <2> QED BY <1>1, <2>1, <2>2 DEF Opens
<1>10. CASE r.op = "post"
  BY <1>4, <1>10 DEF Opening, Post, Opens
<1>11. CASE r.op = "put"
  <2>1. Opening(r) \in {<<"existsUuid">>, <<"existsId">>, <<"freshId", "existsId">>}
    BY <1>11 DEF Opening, PutByUuid, PutById
  <2>2. Opens(<<"freshId", "existsId">>)
    BY <1>11, PutByIdIs DEF Opens
  <2> QED BY <1>4, <2>1, <2>2 DEF Opens
<1>12. CASE r.op = "patch"
  <2>1. Opening(r) \in {UpdateStages(r), <<>> \o UpdateStages(r), <<"freshId">> \o UpdateStages(r)}
    BY <1>12 DEF Opening, PatchByUuid, PatchById
  <2>2. Opens(<<"freshId">> \o UpdateStages(r))
    BY <1>2, <1>4, <1>7, <1>8, <1>12
  <2>3. Opens(<<>> \o UpdateStages(r))
    <3>1. Opens(<<>>) /\ ~Turns(<<>>, r.op)
      BY NothingIs, HarmlessKeyed DEF Opens
    <3> QED BY <1>2, <1>7, <3>1
  <2> QED BY <1>2, <2>1, <2>2, <2>3 DEF Opens
<1>13. CASE r.op = "delete"
  BY <1>2, <1>13 DEF Opening, DeleteByUuid, DeleteById, Opens
<1>14. CASE r.op \in {"list", "save"}
  BY <1>4, <1>14 DEF Opening, LegacyList, LegacySave, Opens
<1>15. CASE r.op = "plain"
  <2>1. Opening(r) = <<"plain", "isActive">> /\ <<"plain", "isActive">> = <<"plain">> \o <<"isActive">>
    BY <1>15 DEF Opening, LegacyGet
  <2>2. Opens(<<"plain">> \o <<"isActive">>)
    BY <1>4, <1>6, <1>7
  <2> QED BY <2>1, <2>2 DEF Opens
<1>16. CASE r.op \in {"activate", "deactivate"}
  BY <1>3, <1>16 DEF Opening, LegacyActivate, Opens
<1>17. CASE r.op \in AtOps
  <2>1. Opening(r) = <<"nameOrUuid">>
    BY <1>17 DEF Opening, AtActivate, AtModify, AtOps
  <2> QED BY <1>5, <1>17, <2>1 DEF Opens
<1> QED BY <1>9, <1>10, <1>11, <1>12, <1>13, <1>14, <1>15, <1>16, <1>17 DEF Ops, AtOps

Fresh(r) ==
    /\ r \in Request /\ r.todo = <<>> /\ r.path = 0 /\ r.conn = 0 /\ r.polls = 0 /\ r.scan = {}
    /\ ~r.wrote /\ r.reply = "none"

LEMMA FreshSound ==
    ASSUME NEW np \in Nat, NEW na \in Nat, NEW r, Fresh(r), NEW stages, Block(stages, r.op),
           Keyed(stages, r.op, "uuid" \in DOMAIN r.new)
    PROVE  Sound([r EXCEPT !.todo = stages], np, na)
<1> DEFINE q == [r EXCEPT !.todo = stages]
<1>1. stages \in Seq(Stages)
  BY DEF Block
<1>2. /\ q \in Request /\ q.todo = stages /\ q.path = 0 /\ q.conn = 0 /\ q.polls = 0 /\ q.scan = {}
      /\ ~q.wrote /\ q.reply = "none" /\ q.op = r.op /\ q.new = r.new
  BY <1>1 DEF Fresh, Request
<1> HIDE DEF q
<1>3. Numbers(q, np, na) /\ Unrefused(q)
  BY <1>2, LimitsAssumption DEF Numbers, Unrefused
<1>4. Stacked(q) /\ Waiting(q, np, na)
  BY <1>2 DEF Stacked, Waiting, InRange, Block
<1>5. Sound(q, np, na)
  BY <1>2, <1>3, <1>4 DEF Sound
<1> QED BY <1>5 DEF q

LEMMA BadSound ==
    ASSUME NEW np \in Nat, NEW na \in Nat, NEW r, Fresh(r)
    PROVE  Sound(Stop(r, "bad"), np, na)
<1> DEFINE q == Stop(r, "bad")
<1>1. /\ q \in Request /\ q.todo = <<>> /\ q.path = 0 /\ q.conn = 0 /\ q.polls = 0 /\ ~q.wrote
  <2>1. q \in Request
    BY StopIs DEF Fresh, Replies
  <2> QED BY <2>1 DEF Stop, Fresh, Request
<1> HIDE DEF q
<1>2. Numbers(q, np, na) /\ Unrefused(q) /\ Waiting(q, np, na)
  BY <1>1, LimitsAssumption DEF Numbers, Unrefused, Waiting
<1>3. Stacked(q)
  BY <1>1, NothingIs, HarmlessKeyed DEF Block, Stacked
<1> QED BY <1>1, <1>2, <1>3 DEF Sound, q

LEMMA CompletedIs ==
    ASSUME NEW r \in Request
    PROVE  Completed(r) \in Dictionaries
<1>1. r.new \in Dictionaries /\ r.uuid \in Text /\ r.id \in Text
  BY DEF Request
<1>2. Over(r.new, [uuid |-> r.uuid]) \in Dictionaries /\ Over(r.new, [id |-> r.id]) \in Dictionaries
  BY <1>1, AsUuidIs, OverIs
<1> QED BY <1>1, <1>2 DEF Completed

(* A request as it comes in. *)
Given(q) == [x \in DOMAIN Idle |-> IF x \in DOMAIN q THEN q[x] ELSE Idle[x]]

LEMMA GivenIs ==
    ASSUME NEW c \in Clients, NEW q \in Requests[c]
    PROVE  Fresh(Given(q)) /\ Given(q).op \in Ops
<1> DEFINE r == Given(q)
<1>1. /\ {"op", "uuid", "id"} \subseteq DOMAIN q /\ DOMAIN q \subseteq {"op", "uuid", "id", "new", "act", "over"}
      /\ q.op \in Ops /\ {q.uuid, q.id} \subseteq STRING
      /\ "new" \in DOMAIN q => q.new \in Dictionaries
      /\ "act" \in DOMAIN q => q.act \in {"none", "on", "off"}
      /\ "over" \in DOMAIN q => q.over \in BOOLEAN
  BY RequestsAssumption, DictionaryIs
<1>2. Idle \in Request
  BY IdleIs
<1>3. /\ r.op \in Ops /\ r.uuid \in Text /\ r.id \in Text
      /\ r.new \in Dictionaries /\ r.act \in {"none", "on", "off"} /\ r.over \in BOOLEAN
  BY <1>1, DeletedIs DEF Given, Idle, Text
<1>4. /\ r.todo = <<>> /\ r.listed = FALSE /\ r.scan = {} /\ r.exists = FALSE /\ r.path = 0 /\ r.conn = 0
      /\ r.got = Deleted /\ r.polls = 0 /\ r.sections = {} /\ r.entries = {} /\ r.answer = Deleted
      /\ r.wrote = FALSE /\ r.reply = "none"
  BY <1>1 DEF Given, Idle
<1>5. r = [Idle EXCEPT !.op = r.op, !.uuid = r.uuid, !.id = r.id, !.new = r.new, !.act = r.act, !.over = r.over]
  <2>1. r = [x \in DOMAIN Idle |-> r[x]]
    BY DEF Given
  <2>2. Idle = [x \in DOMAIN Idle |-> Idle[x]]
    BY <1>2 DEF Request
  <2>3. \A x \in DOMAIN Idle : x \notin {"op", "uuid", "id", "new", "act", "over"} => r[x] = Idle[x]
    BY <1>1 DEF Given
  <2> HIDE DEF r
  <2> QED BY <2>1, <2>2, <2>3
<1> HIDE DEF r
<1>7. r \in Request
  BY <1>2, <1>3, <1>5 DEF Request
<1> QED BY <1>3, <1>4, <1>7 DEF Fresh, r

LEMMA BeginStep ==
    ASSUME Managed, Underway, NEW c \in Clients, Begin(c)
    PROVE  Managed' /\ Underway'
<1> DEFINE np == Len(profiles)
           na == Len(activations)
<1>1. np \in Nat /\ na \in Nat
  BY Counted
<1>2. made' \in 0..MaxRequests /\ UNCHANGED <<nm, defaults>>
  <2>1. made < MaxRequests /\ made' = made + 1 /\ UNCHANGED <<nm, defaults>>
    BY DEF Begin
  <2>2. made \in 0..MaxRequests
    BY DEF Underway
  <2> QED BY <2>1, <2>2, LimitsAssumption
<1>3. PICK g \in Requests[c] :
         LET new == [x \in DOMAIN Idle |-> IF x \in DOMAIN g THEN g[x] ELSE Idle[x]]
             r == [new EXCEPT !.new = Completed(new)]
         IN  IF Contradicts(r) THEN Is(c, Stop(r, "bad"))
             ELSE IF r.op = "at create" THEN Is(c, Creating([r EXCEPT !.todo = <<"create">>]))
             ELSE Is(c, [r EXCEPT !.todo = Opening(r)])
  BY DEF Begin
<1> DEFINE new == Given(g)
           full == Completed(new)
           r == [new EXCEPT !.new = full]
           u == [r EXCEPT !.todo = <<"create">>]
           o == [r EXCEPT !.todo = Opening(r)]
<1>4. Fresh(new) /\ new.op \in Ops /\ full \in Dictionaries
  BY GivenIs, CompletedIs DEF Fresh
<1>5. Is(c, Stop(r, "bad")) \/ (r.op = "at create" /\ Is(c, Creating(u))) \/ (r.op # "at create" /\ Is(c, o))
  BY <1>3 DEF Given
<1> HIDE DEF np, na, new, full
<1>6. Fresh(r) /\ r.op \in Ops /\ r \in Request
  BY <1>4 DEF Fresh, Request
<1> HIDE DEF r
<1>7. Sound(Stop(r, "bad"), np, na)
  BY <1>1, <1>6, BadSound
<1>8. ASSUME r.op = "at create"
      PROVE  Sound(Creating(u), np, na)
  <2> DEFINE given == "uuid" \in DOMAIN r.new
  <2>1. Block(<<"create">>, r.op) /\ Keyed(<<"create">>, r.op, given)
    BY OneStage, OneKeyed DEF Stages, Needed
  <2>2. Sound(u, np, na)
    BY <1>1, <1>6, <2>1, FreshSound
  <2>3. u.todo = <<"create">>
    BY <1>6 DEF Request
  <2> HIDE DEF u
  <2>4. Replacing(u)
    BY <2>3 DEF Replacing, Turning, Replaced, Harmless
  <2> QED BY <1>1, <2>2, <2>4, Creates
<1>9. ASSUME r.op # "at create"
      PROVE  Sound(o, np, na)
  <2> DEFINE given == "uuid" \in DOMAIN r.new
  <2>1. Block(Opening(r), r.op) /\ Keyed(Opening(r), r.op, given)
    BY <1>6, <1>9, OpeningIs
  <2> QED BY <1>1, <1>6, <2>1, FreshSound
<1>10. PICK q : Is(c, q) /\ Sound(q, np, na)
  BY <1>5, <1>7, <1>8, <1>9
<1>11. Managed'
  BY <1>2 DEF Managed, nm, Paths, Exists, ActivePaths, Tied, Alive
<1>12. Len(profiles') = np /\ Len(activations') = na /\ defaults' \in Dictionaries /\ np <= np /\ na <= na
  BY <1>1, <1>2 DEF nm, Underway, np, na
<1> QED BY <1>2, <1>10, <1>11, <1>12, Goes DEF np, na

-----------------------------------------------------------------------------
(* NetworkManager changes by itself: no request moves. *)
LEMMA Rests ==
    ASSUME Managed, Underway, UNCHANGED profileVars,
           Len(profiles') = Len(profiles), Len(activations') = Len(activations)
    PROVE  Underway'
BY DEF Underway, profileVars

LEMMA NMStep ==
    ASSUME Managed, Underway, NMNext, UNCHANGED profileVars
    PROVE  Managed' /\ Underway'
<1>1. ASSUME Activated
      PROVE  Managed' /\ Len(profiles') = Len(profiles) /\ Len(activations') = Len(activations)
  <2>1. PICK a \in ActivePaths : activations[a].state = "activating" /\ activations' = [activations EXCEPT ![a].state = "activated"]
    BY <1>1 DEF Activated
  <2>2. Alive(a) /\ "activated" \in States /\ UNCHANGED <<profiles, present, seen>>
    BY <1>1, <2>1 DEF Activated, Alive, States
  <2> QED BY <2>1, <2>2, StateManaged
<1>2. ASSUME Deactivated
      PROVE  Managed' /\ Len(profiles') = Len(profiles) /\ Len(activations') = Len(activations)
  BY <1>2, EndManaged DEF Deactivated, Managed
<1>3. ASSUME Dropped
      PROVE  Managed' /\ Len(profiles') = Len(profiles) /\ Len(activations') = Len(activations)
  BY <1>3, EndManaged DEF Dropped, Managed
<1>4. ASSUME RadioFollows
      PROVE  Managed' /\ Len(profiles') = Len(profiles) /\ Len(activations') = Len(activations)
  <2>1. CASE asked
    BY <1>4, <2>1 DEF RadioFollows, Managed, Paths, Exists, ActivePaths, Tied, Alive
  <2>2. CASE ~asked
    BY <1>4, <2>2, EndManaged DEF RadioFollows, Managed
  <2> QED BY <2>1, <2>2
<1>5. ASSUME Scanned
      PROVE  Managed' /\ Len(profiles') = Len(profiles) /\ Len(activations') = Len(activations)
  <2>1. seen' \subseteq AccessPoints
    BY <1>5 DEF Scanned, Managed
  <2> QED BY <1>5, <2>1 DEF Scanned, Managed, Paths, Exists, ActivePaths, Tied, Alive
<1> QED BY <1>1, <1>2, <1>3, <1>4, <1>5, Rests DEF NMNext
-----------------------------------------------------------------------------
(* Activations are only added, and one keeps the profile it is of. *)
Extends(log, new) ==
    Len(log) \in Nat /\ Len(new) \in Nat /\ Len(log) <= Len(new) /\ \A a \in 1..Len(log) : new[a].path = log[a].path

LEMMA EndExtends ==
    ASSUME NEW log \in Seq(LogEntries), NEW ended
    PROVE  Extends(log, End(ended, log))
<1>1. Len(log) \in Nat
  BY LenProperties
<1> QED BY <1>1, Ended DEF Extends

LEMMA StateExtends ==
    ASSUME NEW log \in Seq(LogEntries), NEW a, NEW state
    PROVE  Extends(log, [log EXCEPT ![a].state = state])
<1> DEFINE new == [log EXCEPT ![a].state = state]
<1>1. Len(log) \in Nat /\ log \in [1..Len(log) -> LogEntries]
  BY LenProperties, ElementOfSeq, SeqDef
<1>2. \A e \in LogEntries : [e EXCEPT !.state = state].path = e.path
  BY DEF LogEntries
<1>3. DOMAIN new = 1..Len(log) /\ \A b \in 1..Len(log) : new[b].path = log[b].path
  BY <1>1, <1>2
<1>4. Len(new) = Len(log)
  BY <1>1, <1>3
<1> QED BY <1>1, <1>3, <1>4 DEF Extends

LEMMA ActivateExtends ==
    ASSUME NEW log \in Seq(LogEntries), NEW ended, NEW entry \in LogEntries
    PROVE  Extends(log, Append(End(ended, log), entry))
<1> DEFINE over == End(ended, log)
<1>1. over \in Seq(LogEntries) /\ Len(over) = Len(log) /\ Len(log) \in Nat /\ \A a \in 1..Len(log) : over[a].path = log[a].path
  BY Ended, LenProperties
<1> HIDE DEF over
<1>2. Len(Append(over, entry)) = Len(log) + 1 /\ \A a \in 1..Len(log) : Append(over, entry)[a] = over[a]
  BY <1>1, AppendProperties
<1>3. Extends(log, Append(over, entry))
  BY <1>1, <1>2 DEF Extends
<1> QED BY <1>3 DEF over

LEMMA SameExtends ==
    ASSUME NEW log \in Seq(LogEntries)
    PROVE  Extends(log, log)
BY LenProperties DEF Extends

LEMMA RequestExtends ==
    ASSUME Managed, Underway, NEW c \in Clients, Begin(c) \/ RequestStep(c)
    PROVE  Extends(activations, activations')
<1>1. activations \in Seq(LogEntries)
  BY DEF Managed
<1>2. ASSUME UNCHANGED nm
      PROVE  Extends(activations, activations')
  BY <1>1, <1>2, SameExtends DEF nm
<1>3. ASSUME Write(c) \/ Add(c)
      PROVE  Extends(activations, activations')
  <2>1. activations' = activations
    BY <1>3 DEF Write, Add, UpdateConnection, AddConnection, nm
  <2> QED BY <1>1, <2>1, SameExtends
<1>4. ASSUME Delete(c)
      PROVE  Extends(activations, activations')
  <2>1. activations' = activations \/ activations' = End(Of(rq[c].path), activations)
    BY <1>4 DEF Delete, DeleteConnection, nm
  <2> QED BY <1>1, <2>1, SameExtends, EndExtends
<1>5. ASSUME Release(c)
      PROVE  Extends(activations, activations')
  <2> DEFINE a == rq[c].conn
  <2>1. activations' = activations \/ activations' = [activations EXCEPT ![a].state = "deactivating"]
    BY <1>5 DEF Release, DeactivateConnection, nm
  <2> HIDE DEF a
  <2>2. Extends(activations, [activations EXCEPT ![a].state = "deactivating"])
    BY <1>1, StateExtends
  <2> QED BY <1>1, <2>1, <2>2, SameExtends
<1>6. ASSUME Activate(c)
      PROVE  Extends(activations, activations')
  <2> DEFINE p == rq[c].path
             d == rq[c].got["iface"]
             entry == [path |-> p, dev |-> d, state |-> "activating"]
  <2>1. activations' = activations \/ (MayActivate(p, d) /\ activations' = Append(End(On(d) \cup Of(p), activations), entry))
    BY <1>6 DEF Activate, ActivateConnection, nm
  <2>2. MayActivate(p, d) => entry \in LogEntries
    <3>1. MayActivate(p, d) => d \in Devices
      BY DEF MayActivate, Managed
    <3>2. p \in Nat
      BY DEF Underway, Request
    <3> QED BY <3>1, <3>2 DEF LogEntries, States
  <2> QED BY <1>1, <2>1, <2>2, SameExtends, ActivateExtends
<1>7. ASSUME Begin(c) \/ ListProfiles(c) \/ ReadProfile(c) \/ EndOfList(c) \/ Path(c) \/ Settings(c) \/ ReadNew(c)
      PROVE  UNCHANGED nm
  BY <1>7 DEF Begin, ListProfiles, ReadProfile, EndOfList, Path, Settings, ReadNew
<1>8. ASSUME Device(c) \/ Deactivate(c) \/ Poll(c) \/ Fill(c) \/ ListActive(c) \/ ReadActive(c)
      PROVE  UNCHANGED nm
  BY <1>8 DEF Device, Deactivate, Poll, Fill, ListActive, ReadActive
<1>9. ASSUME NotActive(c) \/ ExtractGeneral(c) \/ ExtractAddresses(c) \/ ExtractLeases(c) \/ IsActive(c)
      PROVE  UNCHANGED nm
  BY <1>9 DEF NotActive, ExtractGeneral, ExtractAddresses, ExtractLeases, IsActive
<1> QED BY <1>2, <1>3, <1>4, <1>5, <1>6, <1>7, <1>8, <1>9 DEF RequestStep

LEMMA NMExtends ==
    ASSUME Managed, NMNext
    PROVE  Extends(activations, activations')
<1>1. activations \in Seq(LogEntries)
  BY DEF Managed
<1>2. ASSUME Activated
      PROVE  Extends(activations, activations')
  <2>1. PICK a \in ActivePaths : activations' = [activations EXCEPT ![a].state = "activated"]
    BY <1>2 DEF Activated
  <2> QED BY <1>1, <2>1, StateExtends
<1>3. ASSUME Deactivated \/ Dropped
      PROVE  Extends(activations, activations')
  <2>1. PICK a \in ActivePaths : activations' = End({a}, activations)
    BY <1>3 DEF Deactivated, Dropped
  <2> QED BY <1>1, <2>1, EndExtends
<1>4. ASSUME RadioFollows \/ Scanned
      PROVE  Extends(activations, activations')
  <2>1. activations' = activations \/ activations' = End(UNION {On(d) : d \in Wifi}, activations)
    BY <1>4 DEF RadioFollows, Scanned
  <2> QED BY <1>1, <2>1, SameExtends, EndExtends
<1> QED BY <1>2, <1>3, <1>4 DEF NMNext
LEMMA RequestMoves ==
    ASSUME Managed, Underway, NEW c \in Clients, Begin(c) \/ RequestStep(c)
    PROVE  Managed' /\ Underway'
<1>1. ASSUME ListProfiles(c) \/ ReadProfile(c) \/ EndOfList(c) \/ Path(c) \/ Settings(c) \/ Write(c) \/ Delete(c)
      PROVE  Managed' /\ Underway'
  BY <1>1, ListProfilesStep, ReadProfileStep, EndOfListStep, PathStep, SettingsStep, WriteStep, DeleteStep
<1>2. ASSUME Add(c) \/ ReadNew(c) \/ Device(c) \/ Activate(c) \/ Deactivate(c) \/ Release(c) \/ Poll(c)
      PROVE  Managed' /\ Underway'
  BY <1>2, AddStep, ReadNewStep, DeviceStep, ActivateStep, DeactivateStep, ReleaseStep, PollStep
<1>3. ASSUME Fill(c) \/ ListActive(c) \/ ReadActive(c) \/ NotActive(c) \/ ExtractGeneral(c)
             \/ ExtractAddresses(c) \/ ExtractLeases(c) \/ IsActive(c)
      PROVE  Managed' /\ Underway'
  BY <1>3, FillStep, ListActiveStep, ReadActiveStep, NotActiveStep, ExtractStep, ExtractLeasesStep, IsActiveStep
<1> QED BY <1>1, <1>2, <1>3, BeginStep DEF RequestStep

LEMMA NextMoves ==
    ASSUME Managed, Underway, Next
    PROVE  Managed' /\ Underway' /\ Extends(activations, activations')
BY RequestMoves, RequestExtends, NMStep, NMExtends DEF Next

-----------------------------------------------------------------------------
(* An enquiry. *)
StatusNames == {"connection", "profile", "ip4", "ip6", "dhcp", "wired", "wireless", "accessPoint"}
Pending(r) == \E i \in 1..Len(r.calls) : r.calls[i] = "profile"
EntryFields == {"state", "conn", "path", "ip"}

(* An entry of a status names the connection there was, and its profile once that was read. *)
Reported(r, d, log) ==
    LET e == r.report[d] IN
    /\ DOMAIN e = EntryFields
    /\ IF e.state = "activated"
       THEN /\ e.conn \in 1..Len(log) /\ (Pending(r) /\ d = r.dev => r.conn = e.conn)
            /\ e.path = log[e.conn].path \/ (Pending(r) /\ d = r.dev)
       ELSE e.path = 0 /\ (d = r.dev => ~Pending(r))
InStatus(r, log) ==
    (r.op = "status" /\ r.reply \in {"none", "ok"}) =>
        /\ r.calls \in Seq(StatusNames) /\ (r.reply = "ok" => r.calls = <<>>)
        /\ \A d \in DOMAIN r.report : Reported(r, d, log)

Known(r, na) ==
    /\ DOMAIN r = DOMAIN Quiet
    /\ r.conn \in 0..na /\ r.left \subseteq Devices /\ r.polls \in 0..MaxPolls
    /\ DOMAIN r.report \subseteq Devices \cup AccessPoints
Asks(ap) == Beacon[ap].privacy \/ Beacon[ap].rsn # {}
Secured(r) == \A ap \in DOMAIN r.report \cap AccessPoints : Asks(ap) => DOMAIN r.report[ap] # {}
(* The key management an access point names, where it names any. *)
Named80211(b) ==
    \/ b.rsn \cap {"owe", "owe-tm", "sae", "cckm", "suite-b"} # {}
    \/ (b.wpa \cup b.rsn) \cap {"802.1x", "suite-b-192", "psk"} # {}
KeysNamed == \A ap \in AccessPoints : Beacon[ap].wpa \cup Beacon[ap].rsn # {} => Named80211(Beacon[ap])

(* What is known of an enquiry. *)
Tells(r, log) == Known(r, Len(log)) /\ InStatus(r, log) /\ (KeysNamed => Secured(r))

LEMMA KeyMgmtIs ==
    ASSUME NEW b, b.privacy \/ b.rsn # {}, b.wpa \cup b.rsn # {} => Named80211(b)
    PROVE  DOMAIN KeyMgmt(b) # {}
<1> DEFINE suite == {"suite-b-192", "gcmp-pair", "gcmp-group", "gmac-group"}
           first == IF AnyOf(b.rsn, {"owe", "owe-tm"}) THEN <<"owe">>
                    ELSE IF b.wpa = {} /\ b.rsn = suite THEN <<"wpa-eap-suite-b-192">>
                    ELSE IF "sae" \in b.rsn THEN <<"sae">> ELSE <<>>
           second == IF "802.1x" \in b.wpa \/ AnyOf(b.rsn, {"cckm", "suite-b", "802.1x"})
                     THEN IF "suite-b" \in b.rsn THEN <<"wpa-eap-suite-b">> ELSE <<"wpa-eap">> ELSE <<>>
           third == IF "suite-b-192" \in b.wpa \cup b.rsn THEN <<"wpa-eap-suite-b-192">> ELSE <<>>
           fourth == IF "psk" \in b.wpa \cup b.rsn THEN <<"wpa-psk">> ELSE <<>>
           names == {"owe", "wpa-eap-suite-b-192", "sae", "wpa-eap-suite-b", "wpa-eap", "wpa-psk", "static"}
<1>1. CASE b.privacy /\ b.wpa = {} /\ b.rsn = {}
  <2>1. KeyMgmt(b) = <<"static">>
    BY <1>1 DEF KeyMgmt
  <2> QED BY <2>1
<1>2. CASE ~(b.privacy /\ b.wpa = {} /\ b.rsn = {})
  <2>1. KeyMgmt(b) = first \o second \o third \o fourth
    BY <1>2 DEF KeyMgmt
  <2>2. first \in Seq(names) /\ second \in Seq(names) /\ third \in Seq(names) /\ fourth \in Seq(names)
    <3>1. \A n \in names : <<n>> \in Seq(names)
      OBVIOUS
    <3>2. <<>> \in Seq(names)
      BY EmptySeq
    <3> QED BY <3>1, <3>2
  <2>3. Len(first) # 0 \/ Len(second) # 0 \/ Len(third) # 0 \/ Len(fourth) # 0
    <3>1. Named80211(b)
      BY <1>2
    <3> QED BY <3>1 DEF Named80211, AnyOf
  <2> HIDE DEF first, second, third, fourth
  <2>4. /\ first \o second \in Seq(names) /\ Len(first \o second) = Len(first) + Len(second)
        /\ Len(first) \in Nat /\ Len(second) \in Nat
    BY <2>2, ConcatProperties, LenProperties
  <2>5. /\ first \o second \o third \in Seq(names) /\ Len(first \o second \o third) = Len(first) + Len(second) + Len(third)
        /\ Len(third) \in Nat
    BY <2>2, <2>4, ConcatProperties, LenProperties
  <2>6. /\ KeyMgmt(b) \in Seq(names) /\ Len(KeyMgmt(b)) = Len(first) + Len(second) + Len(third) + Len(fourth)
        /\ Len(fourth) \in Nat
    BY <2>1, <2>2, <2>4, <2>5, ConcatProperties, LenProperties
  <2>7. Len(KeyMgmt(b)) \in Nat \ {0} /\ DOMAIN KeyMgmt(b) = 1..Len(KeyMgmt(b))
    BY <2>3, <2>4, <2>5, <2>6, LenProperties
  <2> QED BY SMTT(60), <2>7
<1> QED BY <1>1, <1>2

LEMMA TellsOn ==
    ASSUME NEW log, NEW new, Extends(log, new), NEW r, Tells(r, log)
    PROVE  Tells(r, new)
<1>1. Known(r, Len(new))
  BY DEF Tells, Known, Extends
<1>2. ASSUME NEW d, Reported(r, d, log)
      PROVE  Reported(r, d, new)
  <2>1. 1..Len(log) \subseteq 1..Len(new)
    BY DEF Extends
  <2> QED BY <1>2, <2>1 DEF Reported, Extends
<1>3. InStatus(r, new)
  BY <1>2 DEF Tells, InStatus
<1> QED BY <1>1, <1>3 DEF Tells

(* The enquiry goes on without its report, or ends. *)
LEMMA AsideTells ==
    ASSUME NEW log, NEW r, NEW q, Tells(r, log), q.op # "status" \/ q.reply \notin {"none", "ok"},
           Known(q, Len(log)), q.report = r.report
    PROVE  Tells(q, log)
BY DEF Tells, InStatus, Secured

LEMMA RepliedKnown ==
    ASSUME NEW na, NEW r, NEW reply, Known(r, na)
    PROVE  /\ Known(Replied(r, reply), na) /\ Replied(r, reply).report = r.report
           /\ Replied(r, reply).reply = reply /\ Replied(r, reply).op = r.op
           /\ Replied(r, reply).calls = <<>> /\ Replied(r, reply).dev = r.dev /\ Replied(r, reply).conn = r.conn
BY DEF Known, Replied, Quiet

LEMMA DoneKnown ==
    ASSUME NEW na, NEW r, Known(r, na)
    PROVE  /\ Known(CallDone(r), na) /\ CallDone(r).report = r.report /\ CallDone(r).op = r.op
           /\ CallDone(r).reply = r.reply /\ CallDone(r).calls = Tail(r.calls)
           /\ CallDone(r).dev = r.dev /\ CallDone(r).conn = r.conn /\ CallDone(r).polls = r.polls
BY DEF Known, CallDone, Quiet
LEMMA StatusHead ==
    ASSUME NEW log, NEW r, Tells(r, log), r.op = "status", r.reply = "none", r.calls # <<>>
    PROVE  /\ Head(r.calls) \in StatusNames /\ Tail(r.calls) \in Seq(StatusNames)
           /\ \A i \in 1..Len(Tail(r.calls)) : i + 1 \in 1..Len(r.calls) /\ Tail(r.calls)[i] = r.calls[i + 1]
           /\ \A i \in 1..Len(r.calls) : i # 1 => i - 1 \in 1..Len(Tail(r.calls)) /\ Tail(r.calls)[i - 1] = r.calls[i]
           /\ Head(r.calls) = r.calls[1]
<1>1. r.calls \in Seq(StatusNames)
  BY DEF Tells, InStatus
<1> DEFINE calls == r.calls
<1>2. calls \in Seq(StatusNames) /\ calls # <<>>
  BY <1>1
<1> HIDE DEF calls
<1>3. /\ Tail(calls) \in Seq(StatusNames) /\ Head(calls) \in StatusNames /\ Head(calls) = calls[1]
      /\ Len(Tail(calls)) = Len(calls) - 1 /\ Len(calls) \in Nat \ {0}
      /\ \A i \in 1..Len(calls) - 1 : Tail(calls)[i] = calls[i + 1]
  BY <1>2, HeadTailProperties, LenProperties, EmptySeq
<1>4. /\ \A i \in 1..Len(Tail(calls)) : i + 1 \in 1..Len(calls) /\ Tail(calls)[i] = calls[i + 1]
      /\ \A i \in 1..Len(calls) : i # 1 => i - 1 \in 1..Len(Tail(calls)) /\ Tail(calls)[i - 1] = calls[i]
  BY <1>3
<1> QED BY <1>3, <1>4 DEF calls

LEMMA ErrorTells ==
    ASSUME NEW log, NEW r, Tells(r, log), NEW reply, reply \notin {"none", "ok"}
    PROVE  Tells(Replied(r, reply), log)
<1> DEFINE q == Replied(r, reply)
<1>1. Known(q, Len(log)) /\ q.report = r.report /\ q.reply = reply
  BY RepliedKnown DEF Tells
<1> HIDE DEF q
<1>2. Tells(q, log)
  BY <1>1, AsideTells
<1> QED BY <1>2 DEF q

LEMMA EndTells ==
    ASSUME NEW log, NEW r, Tells(r, log), NEW reply, r.op = "status" => r.reply \in {"none", "ok"} /\ r.calls = <<>>
    PROVE  Tells(Replied(r, reply), log)
<1> DEFINE q == Replied(r, reply)
<1>1. /\ Known(q, Len(log)) /\ q.report = r.report /\ q.reply = reply /\ q.op = r.op /\ q.calls = <<>> /\ q.dev = r.dev
      /\ q.conn = r.conn
  BY RepliedKnown DEF Tells
<1> HIDE DEF q
<1>2. ASSUME r.op = "status"
      PROVE  InStatus(q, log)
  <2>1. <<>> \in Seq(StatusNames)
    BY EmptySeq
  <2>2. Pending(q) <=> Pending(r)
    BY <1>1, <1>2 DEF Pending
  <2>3. \A d \in DOMAIN r.report : Reported(q, d, log)
    BY <1>1, <1>2, <2>2 DEF Tells, InStatus, Reported
  <2> QED BY <1>1, <2>1, <2>3 DEF InStatus
<1>3. InStatus(q, log)
  BY <1>1, <1>2 DEF InStatus
<1>4. Tells(q, log)
  BY <1>1, <1>3 DEF Tells, Secured
<1> QED BY <1>4 DEF q

LEMMA CallTells ==
    ASSUME NEW log, NEW r, Tells(r, log), r.reply = "none", r.calls # <<>>, Head(r.calls) # "profile"
    PROVE  Tells(CallDone(r), log)
<1> DEFINE q == CallDone(r)
<1>1. /\ Known(q, Len(log)) /\ q.report = r.report /\ q.op = r.op /\ q.reply = "none" /\ q.calls = Tail(r.calls)
      /\ q.dev = r.dev /\ q.conn = r.conn
  BY DoneKnown DEF Tells
<1> HIDE DEF q
<1>2. ASSUME r.op = "status"
      PROVE  InStatus(q, log)
  <2>1. Pending(q) <=> Pending(r)
    BY <1>1, <1>2, StatusHead DEF Pending
  <2>2. \A d \in DOMAIN r.report : Reported(q, d, log)
    BY <1>1, <1>2, <2>1 DEF Tells, InStatus, Reported
  <2>3. q.calls \in Seq(StatusNames)
    BY <1>1, <1>2, StatusHead
  <2> QED BY <1>1, <2>2, <2>3 DEF InStatus
<1>3. InStatus(q, log)
  BY <1>1, <1>2 DEF InStatus
<1>4. Tells(q, log)
  BY <1>1, <1>3 DEF Tells, Secured
<1> QED BY <1>4 DEF q

(* A call on what may be gone. *)
LEMMA StrictTells ==
    ASSUME NEW log, NEW r, Tells(r, log), NEW there, NEW after, there => Tells(after, log)
    PROVE  Tells(Strictly(r, there, after), log)
BY ErrorTells DEF Strictly
LEMMA StillTells ==
    ASSUME NEW log, NEW r, NEW q, Tells(r, log), Known(q, Len(log)), q.report = r.report, q.op = r.op, q.reply = r.reply,
           q.calls = r.calls, (q.dev = r.dev /\ q.conn = r.conn) \/ (r.op = "status" => r.calls = <<>>)
    PROVE  Tells(q, log)
<1>1. Pending(q) <=> Pending(r)
  BY DEF Pending
<1>2. (r.op = "status" => r.calls = <<>>) => (r.op = "status" => ~Pending(r))
  BY DEF Pending
<1>3. InStatus(q, log)
  BY <1>1, <1>2 DEF Tells, InStatus, Reported
<1> QED BY <1>3 DEF Tells, Secured

(* A step of an enquiry leads to a request of which the same is known. *)
Reading(c) == \E q : Becomes(c, q) /\ Tells(q, activations)

LEMMA CallsStep ==
    ASSUME NEW c \in Readers, Tells(rd[c], activations),
           \/ ReadConnection(c) \/ ReadAccessPoint(c) \/ ReadWired(c) \/ ReadWireless(c)
           \/ RequestScan(c) \/ ReadLastScan(c) \/ ReadSysfs(c) \/ ReadAvailable(c) \/ RadioRead(c)
    PROVE  Reading(c)
<1> DEFINE r == rd[c]
<1>1. r.reply = "none" /\ r.calls # <<>>
  BY DEF ReadConnection, ReadAccessPoint, ReadWired, ReadWireless, RequestScan, ReadLastScan, ReadSysfs, ReadAvailable,
         RadioRead, Doing, Asking
<1>2. ASSUME ReadConnection(c) \/ ReadAccessPoint(c) \/ ReadWired(c) \/ ReadWireless(c)
      PROVE  Reading(c)
  <2>1. Head(r.calls) # "profile"
    BY <1>2 DEF ReadConnection, ReadAccessPoint, ReadWired, ReadWireless, Doing
  <2>2. Becomes(c, CallDone(r)) \/ Becomes(c, Replied(r, "error"))
    BY <1>2 DEF ReadConnection, ReadAccessPoint, ReadWired, ReadWireless, Strictly
  <2> HIDE DEF r
  <2>3. Tells(CallDone(r), activations) /\ Tells(Replied(r, "error"), activations)
    BY <1>1, <2>1, CallTells, ErrorTells DEF r
  <2> QED BY <2>2, <2>3 DEF Reading
<1>3. ASSUME RequestScan(c) \/ ReadLastScan(c) \/ ReadSysfs(c) \/ ReadAvailable(c) \/ RadioRead(c)
      PROVE  Reading(c)
  <2>1. Head(r.calls) \notin StatusNames
    BY <1>3 DEF RequestScan, ReadLastScan, ReadSysfs, ReadAvailable, RadioRead, Doing, StatusNames
  <2>2. r.op # "status"
    BY <1>1, <2>1, StatusHead
  <2>3. PICK reply : Becomes(c, Replied(r, reply))
    BY <1>3 DEF RequestScan, ReadLastScan, ReadSysfs, ReadAvailable, RadioRead
  <2> HIDE DEF r
  <2>4. Tells(Replied(r, reply), activations)
    BY <2>2, EndTells DEF r
  <2> QED BY <2>3, <2>4 DEF Reading
<1> QED BY <1>2, <1>3

LEMMA ListDevicesStep ==
    ASSUME Managed, NEW c \in Readers, Tells(rd[c], activations), ListDevices(c)
    PROVE  Reading(c)
<1> DEFINE r == rd[c]
           q == [r EXCEPT !.listed = TRUE, !.left = present]
<1>1. Becomes(c, q)
  BY DEF ListDevices
<1>2. present \subseteq Devices
  BY DEF Managed
<1> HIDE DEF r
<1>3. /\ Known(q, Len(activations)) /\ q.report = r.report /\ q.op = r.op /\ q.reply = r.reply /\ q.calls = r.calls
      /\ q.dev = r.dev /\ q.conn = r.conn
  BY <1>2 DEF Tells, Known, Quiet, r
<1> HIDE DEF q
<1>4. Tells(q, activations)
  BY <1>3, StillTells DEF r
<1> QED BY <1>1, <1>4 DEF Reading

LEMMA EndOfDevicesStep ==
    ASSUME NEW c \in Readers, Tells(rd[c], activations), EndOfDevices(c)
    PROVE  Reading(c)
<1> DEFINE r == rd[c]
           again == [r EXCEPT !.op = "again", !.listed = FALSE]
           add == [r EXCEPT !.calls = <<"add">>]
           remove == [r EXCEPT !.calls = <<"remove">>]
<1>1. r.reply = "none" /\ r.calls = <<>> /\ Becomes(c, Walked(r))
  BY DEF EndOfDevices, Walking, Asking
<1> HIDE DEF r
<1>2. \/ \E reply : Walked(r) = Replied(r, reply)
      \/ Walked(r) = again
      \/ r.op # "status" /\ Walked(r) \in {add, remove}
  BY DEF Walked, PutInterface, DeleteInterface
<1>3. ASSUME NEW reply
      PROVE  Tells(Replied(r, reply), activations)
  BY <1>1, EndTells DEF r
<1>4. Tells(again, activations)
  <2>1. Known(again, Len(activations)) /\ again.report = r.report /\ again.op # "status"
    BY DEF Tells, Known, Quiet, r
  <2> HIDE DEF again
  <2> QED BY <2>1, AsideTells DEF r
<1>5. ASSUME r.op # "status"
      PROVE  Tells(add, activations) /\ Tells(remove, activations)
  <2>1. /\ Known(add, Len(activations)) /\ add.report = r.report /\ add.op # "status"
        /\ Known(remove, Len(activations)) /\ remove.report = r.report /\ remove.op # "status"
    BY <1>5 DEF Tells, Known, Quiet, r
  <2> HIDE DEF add, remove
  <2> QED BY <2>1, AsideTells DEF r
<1> QED BY <1>1, <1>2, <1>3, <1>4, <1>5 DEF Reading
(* A call is done that changes the entry of its device. *)
Rewritten(r, e) == [CallDone(r) EXCEPT !.report = [r.report EXCEPT ![r.dev] = e]]

LEMMA RewrittenTells ==
    ASSUME NEW log, NEW r, NEW e, Tells(r, log), r.reply = "none", r.calls # <<>>,
           DOMAIN e = DOMAIN r.report[r.dev],
           DOMAIN r.report[r.dev] = EntryFields => e.state = r.report[r.dev].state /\ e.conn = r.report[r.dev].conn,
           (r.op = "status" /\ DOMAIN r.report[r.dev] = EntryFields) =>
                e.path = IF Head(r.calls) = "profile" THEN log[r.conn].path ELSE r.report[r.dev].path
    PROVE  Tells(Rewritten(r, e), log)
<1> DEFINE d == CallDone(r)
           q == [d EXCEPT !.report = [r.report EXCEPT ![r.dev] = e]]
<1>1. /\ Known(d, Len(log)) /\ d.report = r.report /\ d.op = r.op /\ d.reply = "none" /\ d.calls = Tail(r.calls)
      /\ d.dev = r.dev /\ d.conn = r.conn
  BY DoneKnown DEF Tells
<1> HIDE DEF d
<1>2. /\ Known(q, Len(log)) /\ q.op = r.op /\ q.reply = "none" /\ q.calls = Tail(r.calls)
      /\ q.dev = r.dev /\ q.conn = r.conn
      /\ DOMAIN q.report = DOMAIN r.report
      /\ \A x \in DOMAIN r.report : q.report[x] = IF x = r.dev THEN e ELSE r.report[x]
  BY <1>1 DEF Known, Quiet
<1>0. q = Rewritten(r, e)
  BY DEF Rewritten, d
<1> HIDE DEF q
<1>3. Secured(r) => Secured(q)
  BY <1>2 DEF Secured
<1>4. ASSUME r.op = "status"
      PROVE  InStatus(q, log)
  <2>1. Head(r.calls) # "profile" => (Pending(q) <=> Pending(r))
    BY <1>2, <1>4, StatusHead DEF Pending
  <2>2. Head(r.calls) = "profile" => Pending(r)
    <3>1. r.calls \in Seq(StatusNames)
      BY <1>4 DEF Tells, InStatus
    <3>2. 1 \in 1..Len(r.calls) /\ Head(r.calls) = r.calls[1]
      BY <3>1, HeadTailProperties, LenProperties, EmptySeq
    <3> QED BY <3>2 DEF Pending
  <2>3. \A x \in DOMAIN r.report : Reported(r, x, log)
    BY <1>4 DEF Tells, InStatus
  <2>4. ASSUME NEW x \in DOMAIN q.report, x # r.dev
        PROVE  Reported(q, x, log)
    BY <1>2, <2>3, <2>4 DEF Reported
  <2>5. ASSUME r.dev \in DOMAIN q.report
        PROVE  Reported(q, r.dev, log)
    <3> DEFINE old == r.report[r.dev]
    <3>1. Reported(r, r.dev, log) /\ q.report[r.dev] = e
      BY <1>2, <2>3, <2>5
    <3>2. DOMAIN old = EntryFields /\ DOMAIN e = EntryFields /\ e.state = old.state /\ e.conn = old.conn
      BY <3>1 DEF Reported
    <3>3. CASE Head(r.calls) = "profile"
      <4>1. Pending(r) /\ e.path = log[r.conn].path
        BY <1>4, <2>2, <3>2, <3>3
      <4>2. old.state = "activated" /\ old.conn \in 1..Len(log) /\ r.conn = old.conn
        BY <3>1, <4>1 DEF Reported
      <4> HIDE DEF old
      <4> QED BY <1>2, <3>1, <3>2, <4>1, <4>2 DEF Reported
    <3>4. CASE Head(r.calls) # "profile"
      <4>1. e.path = old.path /\ (Pending(q) <=> Pending(r))
        BY <1>4, <2>1, <3>2, <3>4
      <4> QED BY <1>2, <3>1, <3>2, <4>1 DEF Reported
    <3> QED BY <3>3, <3>4
  <2>6. q.calls \in Seq(StatusNames)
    BY <1>2, <1>4, StatusHead
  <2> QED BY <1>2, <2>4, <2>5, <2>6 DEF InStatus
<1>5. InStatus(q, log)
  BY <1>2, <1>4 DEF InStatus
<1>6. Tells(q, log)
  BY <1>2, <1>3, <1>5 DEF Tells
<1> QED BY <1>0, <1>6
LEMMA ConnectionProfileStep ==
    ASSUME NEW c \in Readers, Tells(rd[c], activations), ReadConnectionProfile(c)
    PROVE  Reading(c)
<1> DEFINE r == rd[c]
           p == activations[r.conn].path
           old == r.report[r.dev]
           e == [old EXCEPT !.path = p]
           q == [CallDone(r) EXCEPT !.report[r.dev].path = p]
<1>1. r.reply = "none" /\ r.calls # <<>> /\ Head(r.calls) = "profile"
  BY DEF ReadConnectionProfile, Doing, Asking
<1>2. Becomes(c, q) \/ Becomes(c, Replied(r, "error"))
  BY DEF ReadConnectionProfile, Strictly, ConnectionFor
<1>3. q = Rewritten(r, e)
  <2>1. CallDone(r).report = r.report
    BY DoneKnown DEF Tells
  <2> QED BY <2>1 DEF Rewritten
<1>4. DOMAIN e = DOMAIN old /\ (DOMAIN old = EntryFields => e.state = old.state /\ e.conn = old.conn /\ e.path = p)
  BY DEF EntryFields
<1> HIDE DEF q, e
<1>5. Tells(Rewritten(r, e), activations)
  BY <1>1, <1>4, RewrittenTells
<1>6. Tells(Replied(r, "error"), activations)
  BY ErrorTells
<1> QED BY <1>2, <1>3, <1>5, <1>6 DEF Reading

LEMMA LeasesStep ==
    ASSUME NEW c \in Readers, Tells(rd[c], activations), ReadIp4(c) \/ ReadIp6(c) \/ ReadLeases(c)
    PROVE  Reading(c)
<1> DEFINE r == rd[c]
           old == r.report[r.dev]
<1>1. r.reply = "none" /\ r.calls # <<>> /\ Head(r.calls) # "profile"
  BY DEF ReadIp4, ReadIp6, ReadLeases, Doing, Asking
<1>2. CallDone(r).report = r.report
  BY DoneKnown DEF Tells
<1>3. \/ Becomes(c, [CallDone(r) EXCEPT !.report[r.dev].ip = Alive(r.conn)])
      \/ Becomes(c, [CallDone(r) EXCEPT !.report[r.dev].ip = old.ip /\ Alive(r.conn)])
  BY <1>2 DEF ReadIp4, ReadIp6, ReadLeases
<1>4. PICK v : Becomes(c, [CallDone(r) EXCEPT !.report[r.dev].ip = v])
  BY <1>3
<1> DEFINE e == [old EXCEPT !.ip = v]
           q == [CallDone(r) EXCEPT !.report[r.dev].ip = v]
<1>5. q = Rewritten(r, e)
  <2>1. CallDone(r).report = r.report
    BY DoneKnown DEF Tells
  <2> QED BY <2>1 DEF Rewritten
<1>6. DOMAIN e = DOMAIN old /\ (DOMAIN old = EntryFields => e.state = old.state /\ e.conn = old.conn /\ e.path = old.path)
  BY DEF EntryFields
<1>7. Becomes(c, q)
  BY <1>4
<1> HIDE DEF q, e
<1>8. Tells(Rewritten(r, e), activations)
  BY <1>1, <1>6, RewrittenTells
<1> QED BY <1>5, <1>7, <1>8 DEF Reading

LEMMA ActiveConnectionStep ==
    ASSUME NEW c \in Readers, Tells(rd[c], activations), ReadActiveConnection(c)
    PROVE  Reading(c)
<1> DEFINE r == rd[c]
           old == r.report[r.dev]
           p == IF r.conn # 0 /\ Alive(r.conn) THEN activations[r.conn].path ELSE 0
           e == [old EXCEPT !.path = p]
           q == [CallDone(r) EXCEPT !.report[r.dev].path = p]
<1>1. r.reply = "none" /\ r.calls # <<>> /\ Head(r.calls) \notin StatusNames
  BY DEF ReadActiveConnection, Doing, Asking, StatusNames
<1>2. r.op # "status"
  BY <1>1, StatusHead
<1>3. Becomes(c, q)
  BY DEF ReadActiveConnection
<1>4. q = Rewritten(r, e)
  <2>1. CallDone(r).report = r.report
    BY DoneKnown DEF Tells
  <2> QED BY <2>1 DEF Rewritten
<1>5. DOMAIN e = DOMAIN old /\ (DOMAIN old = EntryFields => e.state = old.state /\ e.conn = old.conn)
  BY DEF EntryFields
<1> HIDE DEF q, e
<1>6. Tells(Rewritten(r, e), activations)
  BY <1>1, <1>2, <1>5, RewrittenTells
<1> QED BY <1>3, <1>4, <1>6 DEF Reading

LEMMA AccessPointsStep ==
    ASSUME Managed, NEW c \in Readers, Tells(rd[c], activations), ListAccessPoints(c) \/ ReadNextAccessPoint(c)
    PROVE  Reading(c)
<1> DEFINE r == rd[c]
           na == Len(activations)
<1>1. r.reply = "none" /\ r.calls # <<>> /\ Head(r.calls) \notin StatusNames
  BY DEF ListAccessPoints, ReadNextAccessPoint, Doing, Asking, StatusNames
<1>2. r.op # "status" /\ Known(r, na) /\ (KeysNamed => Secured(r))
  BY <1>1, StatusHead DEF Tells
<1>3. Tells(Replied(r, "error"), activations) /\ Tells(CallDone(r), activations)
  BY <1>1, ErrorTells, CallTells DEF StatusNames
<1>4. ASSUME ListAccessPoints(c)
      PROVE  Reading(c)
  <2> DEFINE q == [r EXCEPT !.refs = seen, !.calls = <<"next">>]
  <2>1. Becomes(c, q) \/ Becomes(c, Replied(r, "error"))
    BY <1>4 DEF ListAccessPoints, Strictly
  <2> HIDE DEF r
  <2>2. Known(q, na) /\ q.report = r.report /\ q.op # "status"
    BY <1>2 DEF Known, Quiet
  <2> HIDE DEF q
  <2>3. Tells(q, activations)
    BY <2>2, AsideTells DEF r
  <2> QED BY <1>3, <2>1, <2>3 DEF Reading, r
<1>5. ASSUME ReadNextAccessPoint(c)
      PROVE  Reading(c)
  <2> DEFINE ap == CHOOSE a \in r.refs : TRUE
             keys == KeyMgmt(Beacon[ap])
             report == Over([x \in {ap} |-> keys], r.report)
             q == [r EXCEPT !.refs = @ \ {ap}, !.report = report]
  <2>1. Becomes(c, CallDone(r)) \/ Becomes(c, Replied(r, "error")) \/ (ap \in seen /\ Becomes(c, q))
    BY <1>5 DEF ReadNextAccessPoint, Strictly
  <2>2. ASSUME ap \in seen
        PROVE  Tells(q, activations)
    <3>1. ap \in AccessPoints
      BY <2>2 DEF Managed
    <3> HIDE DEF r, ap, keys
    <3>2. DOMAIN report = {ap} \cup DOMAIN r.report /\ \A x \in DOMAIN report : report[x] = IF x = ap THEN keys ELSE r.report[x]
      BY DEF Over
    <3> HIDE DEF report
    <3>3. Known(q, na) /\ q.report = report /\ q.op # "status"
      BY <1>2, <3>1, <3>2 DEF Known, Quiet
    <3> HIDE DEF q
    <3>4. KeysNamed /\ Asks(ap) => DOMAIN keys # {}
      BY <3>1, KeyMgmtIs DEF KeysNamed, Asks, keys
    <3>5. KeysNamed => Secured(q)
      BY <1>2, <3>2, <3>3, <3>4 DEF Secured
    <3>6. InStatus(q, activations)
      BY <3>3 DEF InStatus
    <3> QED BY <3>3, <3>5, <3>6 DEF Tells, na
  <2> QED BY <1>3, <2>1, <2>2 DEF Reading
<1> QED BY <1>4, <1>5
(* A device is entered in the report as it is found. *)
Enters(report, r, d) ==
    /\ DOMAIN report = {d} \cup DOMAIN r.report
    /\ \A x \in DOMAIN r.report : x # d => report[x] = r.report[x]
    /\ report[d] = [state |-> DeviceState(d), conn |-> ConnOn(d), path |-> 0, ip |-> FALSE]
    /\ KeysNamed => \A ap \in DOMAIN report \cap AccessPoints : Asks(ap) => DOMAIN report[ap] # {}

LEMMA EnteredIs ==
    ASSUME NEW r, NEW d, KeysNamed => Secured(r)
    PROVE  Enters(Entered(r, d), r, d)
<1> DEFINE entry == [state |-> DeviceState(d), conn |-> ConnOn(d), path |-> 0, ip |-> FALSE]
           report == Entered(r, d)
<1>1. DOMAIN entry # {}
  OBVIOUS
<1>2. report = Over([x \in {d} |-> entry], r.report)
  BY DEF Entered
<1> HIDE DEF entry
<1>3. DOMAIN report = {d} \cup DOMAIN r.report /\ \A x \in DOMAIN report : report[x] = IF x = d THEN entry ELSE r.report[x]
  BY <1>2 DEF Over
<1> HIDE DEF report
<1>4. KeysNamed => \A ap \in DOMAIN report \cap AccessPoints : Asks(ap) => DOMAIN report[ap] # {}
  BY <1>1, <1>3 DEF Secured
<1>5. Enters(report, r, d)
  BY <1>3, <1>4 DEF Enters, entry
<1> QED BY <1>5 DEF report

(* The connection that is on a device is one there is. *)
LEMMA ConnOnIs ==
    ASSUME Managed, NEW d
    PROVE  /\ ConnOn(d) \in 0..Len(activations)
           /\ DeviceState(d) = "activated" => ConnOn(d) \in 1..Len(activations)
<1>1. Len(activations) \in Nat /\ ActivePaths = 1..Len(activations)
  BY Counted
<1>2. On(d) # {} => (CHOOSE a \in On(d) : TRUE) \in 1..Len(activations)
  BY <1>1 DEF On
<1> QED BY <1>1, <1>2 DEF ConnOn, DeviceState

LEMMA StatusCallsAre ==
    ASSUME NEW d
    PROVE  /\ StatusCalls(d) \in Seq(StatusNames)
           /\ DeviceState(d) = "activated" <=> \E i \in 1..Len(StatusCalls(d)) : StatusCalls(d)[i] = "profile"
<1> DEFINE activated == DeviceState(d) = "activated"
           conn == <<"connection", "profile", "ip4", "ip6", "dhcp">>
           first == IF activated THEN conn ELSE <<>>
           second == IF d \notin Wifi THEN <<"wired">> ELSE IF activated THEN <<"wireless", "accessPoint">> ELSE <<"wireless">>
<1>1. StatusCalls(d) = first \o second
  BY DEF StatusCalls
<1>2. second \in Seq(StatusNames) /\ Len(second) \in Nat /\ \A i \in 1..Len(second) : second[i] # "profile"
  <2> DEFINE plain(s) == s \in Seq(StatusNames) /\ Len(s) \in Nat /\ \A i \in 1..Len(s) : s[i] # "profile"
  <2>1. plain(<<"wired">>) /\ plain(<<"wireless">>) /\ plain(<<"wireless", "accessPoint">>)
    BY DEF StatusNames
  <2> HIDE DEF plain
  <2>2. plain(second)
    BY <2>1
  <2> QED BY <2>2 DEF plain
<1>3. conn \in Seq(StatusNames) /\ Len(conn) = 5 /\ conn[2] = "profile"
  BY DEF StatusNames
<1>4. first \in Seq(StatusNames) /\ Len(first) \in Nat
  BY <1>3, EmptySeq
<1>5. activated => first = conn
  OBVIOUS
<1>6. ~activated => first = <<>> /\ Len(first) = 0
  BY EmptySeq
<1> HIDE DEF activated, first, second, conn
<1>7. /\ first \o second \in Seq(StatusNames) /\ Len(first \o second) = Len(first) + Len(second)
      /\ \A i \in 1..Len(first) + Len(second) :
            (first \o second)[i] = IF i <= Len(first) THEN first[i] ELSE second[i - Len(first)]
  BY <1>2, <1>4, ConcatProperties
<1>8. ASSUME activated
      PROVE  \E i \in 1..Len(first \o second) : (first \o second)[i] = "profile"
  <2>1. 2 \in 1..Len(first \o second) /\ 2 <= Len(first) /\ first[2] = "profile"
    <3>1. first = conn
      BY <1>5, <1>8
    <3>2. Len(first) = 5 /\ first[2] = "profile"
      BY <1>3, <3>1
    <3> QED BY <1>2, <1>7, <3>2
  <2>2. (first \o second)[2] = "profile"
    BY <1>7, <2>1
  <2> QED BY <2>1, <2>2
<1>9. ASSUME ~activated, NEW i \in 1..Len(first \o second)
      PROVE  (first \o second)[i] # "profile"
  <2>1. i \in 1..Len(second) /\ (first \o second)[i] = second[i]
    BY <1>2, <1>6, <1>7, <1>9
  <2> QED BY <1>2, <2>1
<1> QED BY <1>1, <1>7, <1>8, <1>9 DEF activated
LEMMA StatusOfTells ==
    ASSUME Managed, NEW r, NEW d \in Devices, Tells(r, activations), r.calls = <<>>, r.reply = "none", d = r.dev
    PROVE  Tells(StatusOf(r, d), activations)
<1> DEFINE report == Entered(r, d)
           calls == StatusCalls(d)
           conn == ConnOn(d)
           state == DeviceState(d)
           q == [r EXCEPT !.report = report, !.calls = calls, !.conn = conn]
           na == Len(activations)
<1>1. StatusOf(r, d) \in {r, q}
  BY DEF StatusOf
<1>2. /\ DOMAIN report = {d} \cup DOMAIN r.report
      /\ \A x \in DOMAIN r.report : x # d => report[x] = r.report[x]
      /\ report[d] = [state |-> state, conn |-> conn, path |-> 0, ip |-> FALSE]
      /\ KeysNamed => \A ap \in DOMAIN report \cap AccessPoints : Asks(ap) => DOMAIN report[ap] # {}
  <2>1. KeysNamed => Secured(r)
    BY DEF Tells
  <2>2. Enters(report, r, d)
    BY <2>1, EnteredIs
  <2> HIDE DEF report
  <2> QED BY <2>2 DEF Enters
<1>3. conn \in 0..na /\ (state = "activated" => conn \in 1..na)
  BY ConnOnIs
<1>4. calls \in Seq(StatusNames) /\ (state = "activated" <=> \E i \in 1..Len(calls) : calls[i] = "profile")
  BY StatusCallsAre
<1> HIDE DEF report, calls, conn, state
<1>5. /\ Known(q, na) /\ q.report = report /\ q.calls = calls /\ q.conn = conn /\ q.op = r.op /\ q.reply = "none"
      /\ q.dev = d
  BY <1>2, <1>3 DEF Tells, Known, Quiet
<1> HIDE DEF q
<1>6. ASSUME r.op = "status", NEW x \in DOMAIN report
      PROVE  Reported(q, x, activations)
  <2>1. Pending(q) <=> state = "activated"
    BY <1>4, <1>5 DEF Pending
  <2>2. CASE x = d
    BY <1>2, <1>3, <1>5, <2>1, <2>2 DEF Reported, EntryFields
  <2>3. CASE x # d
    <3>1. ~Pending(r)
      BY DEF Pending
    <3>2. x \in DOMAIN r.report /\ q.report[x] = r.report[x]
      BY <1>2, <1>5, <2>3
    <3>3. Reported(r, x, activations)
      BY <1>6, <3>2 DEF Tells, InStatus
    <3> QED BY <1>5, <2>3, <3>1, <3>2, <3>3 DEF Reported
  <2> QED BY <2>2, <2>3
<1>7. InStatus(q, activations)
  BY <1>4, <1>5, <1>6 DEF InStatus
<1>8. Tells(q, activations)
  BY <1>2, <1>5, <1>7 DEF Tells, Secured, na
<1> QED BY <1>1, <1>8

LEMMA ReadDeviceStep ==
    ASSUME Managed, NEW c \in Readers, Tells(rd[c], activations), ReadDevice(c)
    PROVE  Reading(c)
<1> DEFINE o == rd[c]
           d == CHOOSE x \in o.left : TRUE
           r == [o EXCEPT !.left = @ \ {d}, !.dev = d]
           na == Len(activations)
<1>1. o.reply = "none" /\ o.calls = <<>> /\ o.left # {} /\ Becomes(c, Strictly(r, d \in present, Examined(r, d)))
  BY DEF ReadDevice, Walking, Asking
<1>2. d \in Devices /\ d \in o.left
  BY <1>1 DEF Tells, Known
<1> HIDE DEF o, d
<1>3. /\ Known(r, na) /\ r.report = o.report /\ r.op = o.op /\ r.reply = "none" /\ r.calls = <<>> /\ r.dev = d
  BY <1>1, <1>2 DEF Tells, Known, Quiet, o
<1> HIDE DEF r
<1>4. Tells(r, activations)
  BY <1>1, <1>3, StillTells DEF o
<1>5. ASSUME r.op \in {"status", "interface"}
      PROVE  Tells(Examined(r, d), activations)
  <2>1. Examined(r, d) = StatusOf(r, d)
    BY <1>5 DEF Examined
  <2> QED BY <1>2, <1>3, <1>4, <2>1, StatusOfTells
<1>6. ASSUME r.op = "again"
      PROVE  Tells(Examined(r, d), activations)
  <2> DEFINE conn == ConnOn(d)
             refs == {p \in Paths : Exists(p) /\ ("iface" \in DOMAIN profiles[p] => profiles[p]["iface"] = d)}
             q == [r EXCEPT !.calls = <<"activeConnection", "available">>, !.conn = conn, !.left = {}, !.refs = refs]
  <2>1. Examined(r, d) \in {r, q}
    BY <1>6 DEF Examined, DetailOf
  <2>2. conn \in 0..na
    BY ConnOnIs
  <2> HIDE DEF conn, refs
  <2>3. Known(q, na) /\ q.report = r.report /\ q.op # "status"
    BY <1>3, <1>6, <2>2 DEF Known, Quiet
  <2> HIDE DEF q
  <2>4. Tells(q, activations)
    BY <1>4, <2>3, AsideTells
  <2> QED BY <1>4, <2>1, <2>4
<1>7. ASSUME r.op \in {"create", "delete"}
      PROVE  Tells(Examined(r, d), activations)
  <2> DEFINE report == Entered(r, d)
             q == [r EXCEPT !.report = report]
  <2>1. Examined(r, d) \in {r, q}
    BY <1>7 DEF Examined, NameOf
  <2>2. /\ DOMAIN report = {d} \cup DOMAIN r.report
        /\ KeysNamed => \A ap \in DOMAIN report \cap AccessPoints : Asks(ap) => DOMAIN report[ap] # {}
    <3>1. KeysNamed => Secured(r)
      BY <1>4 DEF Tells
    <3>2. Enters(report, r, d)
      BY <3>1, EnteredIs
    <3> HIDE DEF report
    <3> QED BY <3>2 DEF Enters
  <2> HIDE DEF report
  <2>3. Known(q, na) /\ q.report = report /\ q.op # "status"
    BY <1>2, <1>3, <1>7, <2>2 DEF Known, Quiet
  <2> HIDE DEF q
  <2>4. Tells(q, activations)
    BY <2>2, <2>3 DEF Tells, InStatus, Secured, na
  <2> QED BY <1>4, <2>1, <2>4
<1>8. ASSUME r.op \notin {"status", "interface", "again", "create", "delete"}
      PROVE  Tells(Examined(r, d), activations)
  <2> DEFINE q == [r EXCEPT !.calls = <<r.op>>]
  <2>1. Examined(r, d) \in {r, q}
    BY <1>8 DEF Examined
  <2>2. Known(q, na) /\ q.report = r.report /\ q.op # "status"
    BY <1>3, <1>8 DEF Known, Quiet
  <2> HIDE DEF q
  <2>3. Tells(q, activations)
    BY <1>4, <2>2, AsideTells
  <2> QED BY <1>4, <2>1, <2>3
<1>9. Tells(Examined(r, d), activations)
  BY <1>5, <1>6, <1>7, <1>8
<1>10. Tells(Replied(r, "error"), activations)
  BY <1>4, ErrorTells
<1> QED BY <1>1, <1>9, <1>10 DEF Reading, Strictly
LEMMA NothingReported == DOMAIN <<>> = {}
BY LenProperties, EmptySeq

LEMMA RadioStep ==
    ASSUME NEW c \in Readers, Tells(rd[c], activations), RadioIs(c) \/ RadioSet(c) \/ RadioPoll(c)
    PROVE  Reading(c)
<1> DEFINE r == rd[c]
           d == CallDone(r)
           na == Len(activations)
           reread == [r EXCEPT !.calls = <<"radioRead">>]
           later == [r EXCEPT !.polls = @ + 1]
           answered == [d EXCEPT !.reply = IF Len(r.calls) = 1 THEN "ok" ELSE @]
<1>1. r.reply = "none" /\ r.calls # <<>> /\ Head(r.calls) \notin StatusNames
  BY DEF RadioIs, RadioSet, RadioPoll, Doing, Asking, StatusNames
<1>2. r.op # "status" /\ Known(r, na)
  BY <1>1, StatusHead DEF Tells
<1>3. \/ Becomes(c, Replied(r, "error")) \/ Becomes(c, d) \/ Becomes(c, reread) \/ Becomes(c, answered)
      \/ (r.polls # MaxPolls /\ Becomes(c, later))
  BY DEF RadioIs, RadioSet, RadioPoll
<1> HIDE DEF r
<1>4. Known(d, na) /\ d.report = r.report /\ d.op # "status"
  BY <1>2, DoneKnown
<1> HIDE DEF d
<1>5. Known(reread, na) /\ reread.report = r.report /\ reread.op # "status"
  BY <1>2 DEF Known, Quiet
<1>6. Known(answered, na) /\ answered.report = r.report /\ answered.op # "status"
  BY <1>4 DEF Known, Quiet
<1>7. r.polls # MaxPolls => Known(later, na) /\ later.report = r.report /\ later.op # "status"
  BY <1>2, LimitsAssumption DEF Known, Quiet
<1> HIDE DEF reread, answered, later
<1>8. /\ Tells(d, activations) /\ Tells(reread, activations) /\ Tells(answered, activations)
      /\ r.polls # MaxPolls => Tells(later, activations)
  BY <1>4, <1>5, <1>6, <1>7, AsideTells DEF r
<1>9. Tells(Replied(r, "error"), activations)
  BY ErrorTells DEF r
<1> QED BY <1>3, <1>8, <1>9 DEF Reading

LEMMA VirtualStep ==
    ASSUME NEW c \in Readers, Tells(rd[c], activations), AddVirtual(c) \/ RemoveVirtual(c)
    PROVE  Reading(c)
<1> DEFINE r == rd[c]
           d == CallDone(r)
           na == Len(activations)
           reread == [d EXCEPT !.op = "interface", !.listed = FALSE, !.report = <<>>]
<1>1. r.reply = "none" /\ r.calls # <<>> /\ Head(r.calls) \notin StatusNames
  BY DEF AddVirtual, RemoveVirtual, Doing, Asking, StatusNames
<1>2. r.op # "status" /\ Known(r, na)
  BY <1>1, StatusHead DEF Tells
<1>3. (\E reply : Becomes(c, Replied(r, reply))) \/ Becomes(c, reread)
  BY DEF AddVirtual, RemoveVirtual
<1> HIDE DEF r
<1>4. Known(d, na)
  BY <1>2, DoneKnown
<1> HIDE DEF d
<1>5. Known(reread, na) /\ reread.op # "status" /\ DOMAIN reread.report = {}
  BY <1>4, NothingReported DEF Known, Quiet
<1> HIDE DEF reread
<1>6. Tells(reread, activations)
  BY <1>5 DEF Tells, InStatus, Secured, na
<1>7. \A reply : Tells(Replied(r, reply), activations)
  BY <1>2, EndTells DEF r
<1> QED BY <1>3, <1>6, <1>7 DEF Reading

(* An enquiry begins. *)
LEMMA QuietTells ==
    ASSUME NEW log, Len(log) \in Nat, NEW op, NEW target, NEW calls, op = "status" => calls = <<>>
    PROVE  Tells([Quiet EXCEPT !.op = op, !.target = target, !.calls = calls], log)
<1> DEFINE q == [Quiet EXCEPT !.op = op, !.target = target, !.calls = calls]
<1>1. Known(q, Len(log)) /\ q.op = op /\ q.reply = "none" /\ q.calls = calls /\ DOMAIN q.report = {}
  BY NothingReported, LimitsAssumption DEF Known, Quiet
<1> HIDE DEF q
<1>2. <<>> \in Seq(StatusNames)
  BY EmptySeq
<1>3. Tells(q, log)
  BY <1>1, <1>2 DEF Tells, InStatus, Secured
<1> QED BY <1>3 DEF q

LEMMA StatusBeginStep ==
    ASSUME Managed, NEW c \in Readers, StatusBegin(c)
    PROVE  Reading(c)
<1>1. PICK e \in Enquiries : Becomes(c, [Quiet EXCEPT !.op = e.op, !.target = e.target, !.calls = Calls(e.op)])
  BY DEF StatusBegin
<1>2. e.op = "status" => Calls(e.op) = <<>>
  BY DEF Calls
<1>3. Len(activations) \in Nat
  BY Counted
<1>4. Tells([Quiet EXCEPT !.op = e.op, !.target = e.target, !.calls = Calls(e.op)], activations)
  BY <1>2, <1>3, QuietTells
<1> QED BY <1>1, <1>4 DEF Reading
LEMMA EnquiryReads ==
    ASSUME Managed, NEW c \in Readers, Tells(rd[c], activations), EnquiryStep(c)
    PROVE  Reading(c)
<1>1. ASSUME \/ ReadConnection(c) \/ ReadAccessPoint(c) \/ ReadWired(c) \/ ReadWireless(c)
             \/ RequestScan(c) \/ ReadLastScan(c) \/ ReadSysfs(c) \/ ReadAvailable(c) \/ RadioRead(c)
      PROVE  Reading(c)
  BY <1>1, CallsStep
<1>2. ASSUME \/ ListDevices(c) \/ ReadDevice(c) \/ EndOfDevices(c) \/ ReadConnectionProfile(c)
             \/ ReadIp4(c) \/ ReadIp6(c) \/ ReadLeases(c) \/ ReadActiveConnection(c)
      PROVE  Reading(c)
  BY <1>2, ListDevicesStep, ReadDeviceStep, EndOfDevicesStep, ConnectionProfileStep, LeasesStep, ActiveConnectionStep
<1>3. ASSUME \/ ListAccessPoints(c) \/ ReadNextAccessPoint(c) \/ RadioIs(c) \/ RadioSet(c) \/ RadioPoll(c)
             \/ AddVirtual(c) \/ RemoveVirtual(c)
      PROVE  Reading(c)
  BY <1>3, AccessPointsStep, RadioStep, VirtualStep
<1> QED BY <1>1, <1>2, <1>3 DEF EnquiryStep

(* What an enquiry changes of NetworkManager: the radio, and the virtual interface. *)
LEMMA EnquiryManaged ==
    ASSUME Managed, Underway, NEW c \in Readers, EnquiryStep(c)
    PROVE  Managed' /\ Underway' /\ Extends(activations, activations')
<1>1. UNCHANGED profileVars /\ activations \in Seq(LogEntries)
  BY DEF EnquiryStep, Managed
<1>2. \/ UNCHANGED nm
      \/ UNCHANGED <<profiles, activations, seen>> /\ present' \subseteq Devices
      \/ /\ activations' = End(On("wlan1"), activations) /\ UNCHANGED <<profiles, seen>>
         /\ present' = present \ {"wlan1"}
  <2>1. ASSUME RadioSet(c)
        PROVE  UNCHANGED <<profiles, activations, seen>> /\ present' \subseteq Devices
    BY <2>1 DEF RadioSet, Managed
  <2>2. ASSUME AddVirtual(c)
        PROVE  UNCHANGED nm \/ (UNCHANGED <<profiles, activations, seen>> /\ present' \subseteq Devices)
    BY <2>2, DevicesAssumption DEF AddVirtual, Managed
  <2>3. ASSUME RemoveVirtual(c)
        PROVE  /\ activations' = End(On("wlan1"), activations) /\ UNCHANGED <<profiles, seen>>
               /\ present' = present \ {"wlan1"}
    BY <2>3 DEF RemoveVirtual
  <2>4. ASSUME \/ ListDevices(c) \/ ReadDevice(c) \/ EndOfDevices(c) \/ ReadConnection(c) \/ ReadConnectionProfile(c)
               \/ ReadIp4(c) \/ ReadIp6(c) \/ ReadLeases(c) \/ ReadAccessPoint(c) \/ ReadWired(c) \/ ReadWireless(c)
        PROVE  UNCHANGED nm
    BY <2>4 DEF ListDevices, ReadDevice, EndOfDevices, ReadConnection, ReadConnectionProfile, ReadIp4, ReadIp6, ReadLeases,
                ReadAccessPoint, ReadWired, ReadWireless
  <2>5. ASSUME \/ ReadActiveConnection(c) \/ ReadAvailable(c) \/ ListAccessPoints(c) \/ ReadNextAccessPoint(c)
               \/ RequestScan(c) \/ ReadLastScan(c) \/ ReadSysfs(c) \/ RadioIs(c) \/ RadioPoll(c) \/ RadioRead(c)
        PROVE  UNCHANGED nm
    BY <2>5 DEF ReadActiveConnection, ReadAvailable, ListAccessPoints, ReadNextAccessPoint, RequestScan, ReadLastScan,
                ReadSysfs, RadioIs, RadioPoll, RadioRead
  <2> QED BY <2>1, <2>2, <2>3, <2>4, <2>5 DEF EnquiryStep
<1>3. CASE UNCHANGED nm
  <2>1. Managed' /\ UNCHANGED <<profiles, activations>>
    BY <1>3 DEF Managed, nm, Paths, Exists, ActivePaths, Tied, Alive
  <2> QED BY <1>1, <2>1, Rests, SameExtends
<1>4. CASE UNCHANGED <<profiles, activations, seen>> /\ present' \subseteq Devices
  <2>1. Managed'
    BY <1>4 DEF Managed, Paths, Exists, ActivePaths, Tied, Alive
  <2> QED BY <1>1, <1>4, <2>1, Rests, SameExtends
<1>5. CASE /\ activations' = End(On("wlan1"), activations) /\ UNCHANGED <<profiles, seen>>
           /\ present' = present \ {"wlan1"}
  <2>1. present' \subseteq Devices /\ seen' \subseteq AccessPoints
    BY <1>5 DEF Managed
  <2>2. Managed' /\ Len(profiles') = Len(profiles) /\ Len(activations') = Len(activations)
    BY <1>5, <2>1, EndManaged
  <2>3. Extends(activations, activations')
    BY <1>1, <1>5, EndExtends
  <2> QED BY <1>1, <2>2, <2>3, Rests
<1> QED BY <1>2, <1>3, <1>4, <1>5

LEMMA StatusBeginManaged ==
    ASSUME Managed, Underway, NEW c \in Readers, StatusBegin(c)
    PROVE  Managed' /\ Underway' /\ Extends(activations, activations')
<1>1. UNCHANGED <<nm, rq, defaults>> /\ made < MaxRequests /\ made' = made + 1
  BY DEF StatusBegin
<1>2. Managed' /\ UNCHANGED <<profiles, activations>>
  BY <1>1 DEF Managed, nm, Paths, Exists, ActivePaths, Tied, Alive
<1>3. made' \in 0..MaxRequests
  BY <1>1, LimitsAssumption DEF Underway
<1>4. Underway'
  BY <1>1, <1>2, <1>3 DEF Underway
<1>5. activations \in Seq(LogEntries)
  BY DEF Managed
<1> QED BY <1>2, <1>4, <1>5, SameExtends

-----------------------------------------------------------------------------
(* The inductive invariant: NetworkManager's profiles and activations, where every *)
(* request is, and what every enquiry knows.                                       *)
Informed == rd = [c \in Readers |-> rd[c]] /\ \A c \in Readers : Tells(rd[c], activations)
NetworkInv == Managed /\ Underway /\ Informed

LEMMA ReadingInforms ==
    ASSUME Informed, NEW c \in Readers, Reading(c), Extends(activations, activations')
    PROVE  Informed'
<1>1. PICK q : Becomes(c, q) /\ Tells(q, activations)
  BY DEF Reading
<1>2. rd' = [d \in Readers |-> IF d = c THEN q ELSE rd[d]]
  BY <1>1 DEF Becomes, Informed
<1>3. ASSUME NEW d \in Readers
      PROVE  Tells(rd'[d], activations')
  <2>1. Tells(rd'[d], activations)
    BY <1>1, <1>2 DEF Informed
  <2> QED BY <2>1, TellsOn
<1> QED BY <1>2, <1>3 DEF Informed

LEMMA NetworkInit ==
    ASSUME StatusInit
    PROVE  NetworkInv
<1>1. /\ profiles = Stored /\ activations = Connected /\ present \subseteq Devices /\ seen \subseteq AccessPoints
  BY DEF StatusInit, Init, NMInit
<1>2. Stored \in Seq(Dictionaries) /\ DOMAIN Stored = 1..Len(Stored) /\ \A p \in DOMAIN Stored : Complete(Stored[p])
  <2>1. Len(Stored) \in Nat /\ Stored \in [1..Len(Stored) -> Dictionaries]
    BY StoredAssumption, DictionaryIs
  <2> QED BY <2>1, StoredAssumption, SeqDef
<1>3. Connected \in Seq(LogEntries) /\ \A a \in 1..Len(Connected) : Connected[a].path \in DOMAIN Stored
  <2>1. Len(Connected) \in Nat /\ \A a \in 1..Len(Connected) : Connected[a] \in [path : DOMAIN Stored, dev : Devices, state : States]
    BY ConnectedAssumption, ElementOfSeq, LenProperties
  <2>2. \A a \in 1..Len(Connected) : Connected[a] \in LogEntries /\ Connected[a].path \in DOMAIN Stored
    BY <1>2, <2>1, StoredAssumption DEF LogEntries
  <2>3. Connected \in [1..Len(Connected) -> LogEntries]
    BY <2>1, <2>2, ConnectedAssumption, LenProperties
  <2> QED BY <2>1, <2>2, <2>3, SeqDef
<1>4. Managed
  <2>1. \A p \in Paths : Complete(profiles[p]) /\ Exists(p)
    BY <1>1, <1>2, CompleteIs, ElementOfSeq DEF Paths, Exists
  <2>2. \A a \in ActivePaths : Tied(a)
    BY <1>1, <1>2, <1>3, <2>1 DEF ActivePaths, Tied, Paths
  <2> QED BY <1>1, <1>2, <1>3, <2>1, <2>2 DEF Managed
<1>5. Underway
  <2>1. Fresh(Idle)
    BY IdleIs DEF Fresh, Idle
  <2>2. Len(profiles) \in Nat /\ Len(activations) \in Nat
    BY <1>4, Counted
  <2>3. Block(<<>>, Idle.op) /\ Keyed(<<>>, Idle.op, "uuid" \in DOMAIN Idle.new)
    BY NothingIs, HarmlessKeyed
  <2>4. Sound([Idle EXCEPT !.todo = <<>>], Len(profiles), Len(activations))
    BY <2>1, <2>2, <2>3, FreshSound
  <2>5. [Idle EXCEPT !.todo = <<>>] = Idle
    <3>1. Idle.todo = <<>>
      BY DEF Idle
    <3>2. Idle \in Request
      BY IdleIs
    <3> HIDE DEF Idle
    <3> QED BY <3>1, <3>2 DEF Request
  <2>6. /\ rq \in [Clients -> Request] /\ \A c \in Clients : Sound(rq[c], Len(profiles), Len(activations))
    BY <2>4, <2>5, IdleIs DEF StatusInit, Init
  <2>7. defaults \in Dictionaries /\ made \in 0..MaxRequests
    BY DeletedIs, LimitsAssumption DEF StatusInit, Init
  <2> QED BY <2>6, <2>7 DEF Underway
<1>6. Informed
  <2>1. Len(activations) \in Nat
    BY <1>4, Counted
  <2>2. Known(Quiet, Len(activations)) /\ DOMAIN Quiet.report = {} /\ Quiet.op = "none"
    BY <2>1, NothingReported, LimitsAssumption DEF Known, Quiet
  <2>3. Tells(Quiet, activations)
    BY <2>2 DEF Tells, InStatus, Secured
  <2> QED BY <2>3 DEF Informed, StatusInit
<1> QED BY <1>4, <1>5, <1>6 DEF NetworkInv

LEMMA NetworkStep ==
    ASSUME NetworkInv, [StatusNext]_statusVars
    PROVE  NetworkInv'
<1> USE DEF NetworkInv
<1>1. ASSUME Next, UNCHANGED rd
      PROVE  NetworkInv'
  <2>1. Managed' /\ Underway' /\ Extends(activations, activations')
    BY <1>1, NextMoves
  <2>2. \A c \in Readers : Tells(rd[c], activations')
    BY <2>1, TellsOn DEF Informed
  <2> QED BY <1>1, <2>1, <2>2 DEF Informed
<1>2. ASSUME NEW c \in Readers, StatusBegin(c)
      PROVE  NetworkInv'
  BY <1>2, StatusBeginStep, StatusBeginManaged, ReadingInforms
<1>3. ASSUME NEW c \in Readers, EnquiryStep(c)
      PROVE  NetworkInv'
  <2>1. Tells(rd[c], activations)
    BY DEF Informed
  <2> QED BY <1>3, <2>1, EnquiryReads, EnquiryManaged, ReadingInforms
<1>4. ASSUME UNCHANGED statusVars
      PROVE  NetworkInv'
  <2>1. UNCHANGED nm /\ UNCHANGED <<rq, defaults, made>> /\ UNCHANGED rd
    BY <1>4 DEF statusVars, vars, profileVars
  <2>2. Managed' /\ UNCHANGED <<profiles, activations>>
    BY <2>1 DEF Managed, nm, Paths, Exists, ActivePaths, Tied, Alive
  <2>3. Underway' /\ Informed'
    BY <2>1, <2>2 DEF Underway, Informed
  <2> QED BY <2>2, <2>3
<1> QED BY <1>1, <1>2, <1>3, <1>4 DEF StatusNext

LEMMA NetworkInvariant == StatusSpec => []NetworkInv
<1>1. StatusInit => NetworkInv
  BY NetworkInit
<1>2. NetworkInv /\ [StatusNext]_statusVars => NetworkInv'
  BY NetworkStep
<1> QED BY <1>1, <1>2, PTL DEF StatusSpec
-----------------------------------------------------------------------------
(* A request that is answered as bad, or refused because it is about a factory         *)
(* profile, has made no call that changes anything, whatever the other requests did    *)
(* meanwhile; and every request, profile, activation and enquiry is what it should be. *)
THEOREM RefusedChangesNothing == StatusSpec => []RefusedUnchanged
<1>1. NetworkInv => RefusedUnchanged
  <2> SUFFICES ASSUME NetworkInv
               PROVE  RefusedUnchanged
    OBVIOUS
  <2>1. ASSUME NEW c \in Clients
        PROVE  /\ rq[c].path \in 0..Len(profiles) /\ rq[c].conn \in 0..Len(activations) /\ rq[c].polls \in 0..MaxPolls
               /\ DOMAIN rq[c].answer \subseteq Keys
               /\ rq[c].reply \in {"bad", "reserved"} => ~rq[c].wrote
    <3>1. Sound(rq[c], Len(profiles), Len(activations)) /\ rq[c] \in Request
      BY DEF NetworkInv, Underway
    <3>2. rq[c].answer \in Dictionaries
      BY <3>1 DEF Request
    <3>3. DOMAIN rq[c].answer \subseteq Keys
      BY <3>2, DictionaryDef
    <3> QED BY <3>1, <3>3 DEF Sound, Numbers, Unrefused
  <2>2. TypeOK
    BY <2>1 DEF TypeOK, NetworkInv, Managed, Underway, Tied
  <2>3. ASSUME NEW c \in Readers
        PROVE  /\ rd[c].conn \in 0..Len(activations) /\ rd[c].left \subseteq Devices /\ rd[c].polls \in 0..MaxPolls
               /\ DOMAIN rd[c].report \subseteq Devices \cup AccessPoints
    BY DEF NetworkInv, Informed, Tells, Known
  <2> QED BY <2>1, <2>2, <2>3 DEF RefusedUnchanged, StatusTypeOK, RefusedUnwritten
<1> QED BY <1>1, NetworkInvariant, PTL

(* A status names for every device the profile of the connection that was active on  *)
(* it when the device was read, though the profile is asked for in a later call and  *)
(* the device may have another connection, or none, by then.                         *)
THEOREM StatusIsOfOneMoment == StatusSpec => []StatusOneMoment
<1>1. NetworkInv => StatusOneMoment
  <2> SUFFICES ASSUME NetworkInv, NEW c \in Readers, rd[c].op = "status", rd[c].reply = "ok", NEW d \in DOMAIN rd[c].report
               PROVE  LET entry == rd[c].report[d] IN
                      IF entry.state = "activated" THEN entry.path = activations[entry.conn].path ELSE entry.path = 0
    BY DEF StatusOneMoment
  <2>1. InStatus(rd[c], activations)
    BY DEF NetworkInv, Informed, Tells
  <2>2. rd[c].calls = <<>> /\ Reported(rd[c], d, activations)
    BY <2>1 DEF InStatus
  <2>3. ~Pending(rd[c])
    BY <2>2 DEF Pending
  <2> QED BY <2>2, <2>3 DEF Reported
<1> QED BY <1>1, NetworkInvariant, PTL

(* An access point that asks for a key is not reported as open, if those that announce *)
(* WPA or RSN name one of the key managements the service knows.                       *)
THEOREM SecuredIsNotOpen ==
    ASSUME KeysNamed
    PROVE  StatusSpec => []SecuredNotOpen
<1>1. NetworkInv => SecuredNotOpen
  <2> SUFFICES ASSUME NetworkInv, NEW c \in Readers, NEW ap \in DOMAIN rd[c].report \cap AccessPoints,
                      Beacon[ap].privacy \/ Beacon[ap].rsn # {}
               PROVE  rd[c].report[ap] # <<>>
    BY DEF SecuredNotOpen
  <2>1. Secured(rd[c])
    BY DEF NetworkInv, Informed, Tells
  <2>2. DOMAIN rd[c].report[ap] # {}
    BY <2>1 DEF Secured, Asks
  <2> QED BY <2>2, NothingReported
<1> QED BY <1>1, NetworkInvariant, PTL
=============================================================================
