-------------------------------- MODULE AT_proof --------------------------------
(***************************************************************************)
(* The AT interface.  Whatever the host sends, in chunks of any size, and  *)
(* whichever task they cancel, for any commands and any number of lines:   *)
(* what the machine keeps, and what its editing makes of the buffer.  And  *)
(* for payloads of any length, on any connections and with buffers of any  *)
(* size: what is left over after a command, and what is handed over.       *)
(***************************************************************************)
EXTENDS Lists_proof, MCATCommandFSM, ATDataMode, FiniteSetTheorems

(* What may wait in the buffer of an idle machine. *)
NoLine == buffer # <<>> => Last(buffer) # CR

(* Where a task can be, state by state.  A transition that leaves validate_command *)
(* is the only one with a suspension before the state changes; the buffer is empty *)
(* from then until the machine is idle again, since process_command adds nothing.  *)
FsmInv ==
    /\ state \in States /\ step \in Steps
    /\ state = "idle" => step \in {"enter", "none"} /\ NoLine
    /\ state = "analyze_input" => step = "enter"
    /\ state = "validate_command" =>
         /\ step \in {"enter", "exit", "change"}
         /\ step = "change" => buffer = <<>>
         /\ step # "enter" => dest \in {"validate_command", "idle", "process_command"}
         /\ step # "enter" /\ dest = "process_command" => current # NoCommand
    /\ state = "process_command" =>
         /\ step \in {"enter", "await", "none"} /\ buffer = <<>> /\ current # NoCommand
         /\ step = "none" => current \in Data \cup Raising

-----------------------------------------------------------------------------
LEMMA FsmInit == Init => FsmInv
BY DEF Init, FsmInv, States, Steps, NoLine

LEMMA FsmStep == FsmInv /\ [Next]_vars => FsmInv'
<1> SUFFICES ASSUME FsmInv, [Next]_vars
             PROVE  FsmInv'
  OBVIOUS
<1> USE DEF FsmInv, States, Steps, NoLine
(* A chunk has the state entered again, or left for the analysis of the input. *)
<1>1. ASSUME NEW n \in 1 .. Len(todo), HostSends(n)
      PROVE  FsmInv'
  BY <1>1 DEF HostSends, Receive, Trigger
<1>2. CASE HostStartsLine \/ HostStartsPayload
  BY <1>2 DEF HostStartsLine, HostStartsPayload, fsm
<1>3. CASE EnterIdle
  BY <1>3 DEF EnterIdle
<1>4. CASE EnterAnalyzeInput
  BY <1>4 DEF EnterAnalyzeInput, Trigger
<1>5. CASE EnterValidateCommand
  BY <1>5 DEF EnterValidateCommand, Trigger
<1>6. CASE ExitValidateCommand
  BY <1>6 DEF ExitValidateCommand
<1>7. CASE ChangeState
  BY <1>7 DEF ChangeState
<1>8. CASE EnterProcessCommand
  <2>1. state = "process_command" /\ buffer' = buffer /\ buffer = <<>> /\ current # NoCommand
    BY <1>8 DEF EnterProcessCommand
  <2>2. CASE step' = "await" /\ UNCHANGED <<state, current>>
    BY <2>1, <2>2
  <2>3. CASE current \in Data /\ step' = "none" /\ UNCHANGED <<state, current>>
    BY <2>1, <2>3
  <2>4. CASE Complete
    BY <2>1, <2>4 DEF Complete, Trigger
  <2> QED BY <1>8, <2>2, <2>3, <2>4 DEF EnterProcessCommand
<1>9. CASE SlowDone
  BY <1>9 DEF SlowDone, Complete, Trigger
<1>10. CASE SlowRaises
  BY <1>10 DEF SlowRaises
<1>11. CASE UNCHANGED vars
  BY <1>11 DEF vars
<1> QED BY <1>1, <1>2, <1>3, <1>4, <1>5, <1>6, <1>7, <1>8, <1>9, <1>10, <1>11 DEF Next, Host, Task

(* process_command has its command, the machine rests idle, or with a command that waits *)
(* for its payload or has raised, and leaves no complete line in the buffer of an idle   *)
(* machine: for any commands, texts, lines and payload, and a host that sends at any time.*)
THEOREM HeadKept == Spec => []KeepsItsHead
<1>1. FsmInv => KeepsItsHead
  BY DEF FsmInv, KeepsItsHead, ProcessHasCommand, RestsIdle, NoLineLeftBehind, NoLine, States
<1> QED BY <1>1, FsmInit, FsmStep, PTL DEF Spec

-----------------------------------------------------------------------------
(***************************************************************************)
(* Editing: what the loop of on_input_received makes of the buffer and a   *)
(* chunk is computed round by round, and what is typed key by key; on a    *)
(* buffer without a backspace, and a chunk with one or none, they meet.    *)
(***************************************************************************)

(* A text without a backspace. *)
Clean(b) == b \in Seq(Keys) /\ \A i \in 1 .. Len(b) : b[i] # Del

(* A part of a text. *)
LEMMA PartIs ==
    ASSUME NEW b \in Seq(Keys), NEW m \in Int, NEW n \in Int, 1 <= m, n <= Len(b)
    PROVE  /\ SubSeq(b, m, n) \in Seq(Keys)
           /\ m <= n => Len(SubSeq(b, m, n)) = n - m + 1
           /\ ~(m <= n) => Len(SubSeq(b, m, n)) = 0
           /\ \A i \in 1 .. n - m + 1 : SubSeq(b, m, n)[i] = b[m + i - 1]
<1>1. Len(b) \in Nat
  BY LenProperties
<1>2. ASSUME NEW i \in m .. n
      PROVE  b[i] \in Keys
  <2>1. i \in 1 .. Len(b)
    BY <1>1
  <2> QED BY <2>1, ElementOfSeq
<1> QED BY <1>2, SubSeqProperties

LEMMA WhereDel ==
    ASSUME NEW b \in Seq(Keys)
    PROVE  Del \in ToSet(b) <=> \E i \in 1 .. Len(b) : b[i] = Del
BY LenProperties DEF ToSet

(* The first backspace is found. *)
LEMMA FirstDelIs ==
    ASSUME NEW b \in Seq(Keys), Del \in ToSet(b)
    PROVE  /\ FirstDel(b) \in 1 .. Len(b) /\ b[FirstDel(b)] = Del
           /\ \A j \in 1 .. FirstDel(b) - 1 : b[j] # Del
           /\ \A i \in 1 .. Len(b) : b[i] = Del /\ (\A j \in 1 .. i - 1 : b[j] # Del) => FirstDel(b) = i
<1> DEFINE at == {i \in 1 .. Len(b) : b[i] = Del}
<1>1. at # {} /\ at \in SUBSET Nat /\ Len(b) \in Nat
  BY WhereDel, LenProperties
<1>2. Min(at) \in at /\ \A i \in at : Min(at) <= i
  <2> HIDE DEF at
  <2> QED BY <1>1, Least
<1>3. \A j \in 1 .. Min(at) - 1 : b[j] # Del
  <2> SUFFICES ASSUME NEW j \in 1 .. Min(at) - 1, b[j] = Del
               PROVE  FALSE
    OBVIOUS
  <2>1. Min(at) \in 1 .. Len(b)
    BY <1>2
  <2>2. j \in at /\ ~(Min(at) <= j)
    BY <1>1, <2>1
  <2> QED BY <1>2, <2>2
<1>4. /\ FirstDel(b) \in 1 .. Len(b) /\ b[FirstDel(b)] = Del
      /\ \A j \in 1 .. FirstDel(b) - 1 : b[j] # Del
  BY <1>2, <1>3 DEF FirstDel
<1>5. ASSUME NEW i \in 1 .. Len(b), b[i] = Del, \A j \in 1 .. i - 1 : b[j] # Del
      PROVE  FirstDel(b) = i
  <2>1. CASE FirstDel(b) < i
    <3>1. FirstDel(b) \in 1 .. i - 1
      BY <1>4, <2>1
    <3> QED BY <1>4, <1>5, <3>1
  <2>2. CASE i < FirstDel(b)
    <3>1. i \in 1 .. FirstDel(b) - 1
      BY <1>4, <2>2
    <3> QED BY <1>4, <1>5, <3>1
  <2> QED BY <1>4, <2>1, <2>2
<1> QED BY <1>4, <1>5

(* A round takes a backspace, if there is one. *)
LEMMA RoundIs ==
    ASSUME NEW b \in Seq(Keys), NEW length \in Nat
    PROVE  /\ Round(b, length) \in Seq(Keys)
           /\ Clean(b) => Round(b, length) = b
           /\ ~Clean(b) => Len(Round(b, length)) < Len(b)
<1> DEFINE i == FirstDel(b)
           before == SubSeq(b, 1, i - 2)
           after == IF i # length THEN SubSeq(b, i + 1, Len(b)) ELSE <<>>
<1>1. Len(b) \in Nat /\ (Clean(b) <=> Del \notin ToSet(b))
  BY LenProperties, WhereDel DEF Clean
<1>2. CASE Clean(b)
  BY <1>1, <1>2 DEF Round
<1>3. CASE ~Clean(b) /\ length <= 1
  <2>1. Round(b, length) = <<>>
    BY <1>1, <1>3 DEF Round
  <2>2. Len(b) # 0
    BY <1>1, <1>3 DEF Clean
  <2> QED BY <1>1, <1>3, <2>1, <2>2, EmptySeq
<1>4. CASE ~Clean(b) /\ ~(length <= 1)
  <2>1. i \in 1 .. Len(b)
    BY <1>1, <1>4, FirstDelIs
  <2>2. Round(b, length) = before \o after
    BY <1>1, <1>4 DEF Round
  <2> HIDE DEF i
  <2>3. before \in Seq(Keys) /\ Len(before) \in 0 .. i - 1
    <3>1. before \in Seq(Keys) /\ (1 <= i - 2 => Len(before) = i - 2 - 1 + 1) /\ (~(1 <= i - 2) => Len(before) = 0)
      BY <1>1, <2>1, PartIs
    <3> QED BY <2>1, <3>1
  <2>4. after \in Seq(Keys) /\ Len(after) \in 0 .. Len(b) - i
    <3> DEFINE part == SubSeq(b, i + 1, Len(b))
    <3>1. part \in Seq(Keys) /\ (i + 1 <= Len(b) => Len(part) = Len(b) - (i + 1) + 1) /\ (~(i + 1 <= Len(b)) => Len(part) = 0)
      BY <1>1, <2>1, PartIs
    <3>2. Len(part) \in 0 .. Len(b) - i
      BY <1>1, <2>1, <3>1
    <3> HIDE DEF part
    <3>3. 0 \in 0 .. Len(b) - i
      BY <1>1, <2>1
    <3> QED BY <3>1, <3>2, <3>3, EmptySeq DEF part
  <2> HIDE DEF before, after
  <2>5. before \o after \in Seq(Keys) /\ Len(before \o after) = Len(before) + Len(after)
    BY <2>3, <2>4, ConcatProperties
  <2> QED BY <1>1, <1>4, <2>1, <2>2, <2>3, <2>4, <2>5
<1> QED BY <1>2, <1>3, <1>4

(* The loop, as the rounds that are left of it. *)
LEMMA EditComputed ==
    ASSUME NEW buf \in Seq(Keys), NEW chunk \in Seq(Keys)
    PROVE  \E f \in [0 .. Len(buf \o chunk) -> [Seq(Keys) -> Seq(Keys)]] :
              /\ \A b \in Seq(Keys) : f[0][b] = b
              /\ \A n \in 1 .. Len(buf \o chunk) : \A b \in Seq(Keys) : f[n][b] = f[n - 1][Round(b, Len(buf))]
              /\ Edit(buf, chunk) = f[Len(buf \o chunk)][buf \o chunk]
<1> DEFINE S == Seq(Keys)
           all == buf \o chunk
           N == Len(all)
           round == [b \in S |-> Round(b, Len(buf))]
           id == [b \in S |-> b]
           At(f, n) == [b \in S |-> IF n = 0 THEN b ELSE f[n - 1][Round(b, Len(buf))]]
           Body(f) == [n \in 0 .. N |-> At(f, n)]
           rounds == CHOOSE f : f = Body(f)
<1>1. all \in S /\ N \in Nat /\ Len(buf) \in Nat
  BY ConcatProperties, LenProperties
<1>2. \A b \in S : Round(b, Len(buf)) \in S
  BY <1>1, RoundIs
<1>3. \E f \in [0 .. N -> [S -> S]] : f = Body(f)
  <2> DEFINE next == [k \in 1 .. N |-> [h \in [S -> S] |-> [b \in S |-> h[Round(b, Len(buf))]]]]
  <2>1. next \in [1 .. N -> [[S -> S] -> [S -> S]]]
    <3> HIDE DEF S
    <3>1. \A h \in [S -> S] : [b \in S |-> h[Round(b, Len(buf))]] \in [S -> S]
      BY <1>2
    <3> QED BY <3>1
  <2>2. id \in [S -> S]
    OBVIOUS
  <2> DEFINE T == [S -> S]
  <2> HIDE DEF S, N, id
  <2>3. PICK f \in [0 .. N -> T] : f[0] = id /\ \A k \in 1 .. N : f[k] = next[k][f[k - 1]]
    <3>1. next \in [1 .. N -> [T -> T]]
      BY <2>1
    <3>2. id \in T
      BY <2>2
    <3>3. N \in Nat
      BY <1>1
    <3> HIDE DEF next, T
    <3>4. \E f : StepsFrom(id, f, next, T, N)
      BY <3>1, <3>2, <3>3, Stepwise
    <3> QED BY <3>4 DEF StepsFrom
  <2>4. ASSUME NEW n \in 0 .. N
        PROVE  f[n] = At(f, n)
    <3>1. CASE n = 0
      BY <2>3, <3>1 DEF id
    <3>2. CASE n # 0
      <4>1. n \in 1 .. N /\ n - 1 \in 0 .. N
        BY <1>1, <3>2
      <4>2. f[n] = next[n][f[n - 1]] /\ f[n - 1] \in [S -> S]
        BY <2>3, <4>1
      <4> QED BY <3>2, <4>1, <4>2
    <3> QED BY <3>1, <3>2
  <2> HIDE DEF At, next
  <2>5. f = Body(f)
    BY <2>3, <2>4
  <2> QED BY <2>3, <2>5 DEF T
<1>4. PICK g \in [0 .. N -> [S -> S]] : g = Body(g)
  BY <1>3
<1>5. rounds = Body(rounds)
  <2>1. \E f : f = Body(f)
    BY <1>4
  <2> HIDE DEF Body
  <2> QED BY <2>1
<1>6. Edit(buf, chunk) = rounds[N][all]
  BY DEF Edit
<1> HIDE DEF rounds, S, N, all
<1>7. \A n \in 0 .. N : rounds[n] = [b \in S |-> IF n = 0 THEN b ELSE rounds[n - 1][Round(b, Len(buf))]]
  <2>1. \A n \in 0 .. N : rounds[n] = At(rounds, n)
    <3> HIDE DEF At
    <3> QED BY <1>5
  <2> QED BY <2>1
<1>8. \A b \in S : rounds[0][b] = b
  <2>1. 0 \in 0 .. N
    BY <1>1
  <2> QED BY <1>7, <2>1
<1>9. \A n \in 1 .. N : \A b \in S : rounds[n][b] = rounds[n - 1][Round(b, Len(buf))]
  <2> TAKE n \in 1 .. N
  <2>1. n \in 0 .. N /\ n # 0
    BY <1>1
  <2>2. rounds[n] = [b \in S |-> IF n = 0 THEN b ELSE rounds[n - 1][Round(b, Len(buf))]]
    BY <1>7, <2>1
  <2>3. rounds[n] = [b \in S |-> rounds[n - 1][Round(b, Len(buf))]]
    BY <2>1, <2>2
  <2> QED BY <2>3
<1>10. rounds \in [0 .. N -> [S -> S]]
  <2> DEFINE good == {n \in 0 .. N : rounds[n] \in [S -> S]}
  <2>1. 0 \in good
    <3>1. 0 \in 0 .. N
      BY <1>1
    <3>2. rounds[0] = [b \in S |-> b]
      BY <1>7, <3>1
    <3> QED BY <3>1, <3>2
  <2>2. ASSUME NEW n \in 0 .. N - 1, n \in good
        PROVE  n + 1 \in good
    <3>1. n + 1 \in 0 .. N /\ n + 1 # 0 /\ (n + 1) - 1 = n /\ rounds[n] \in [S -> S]
      BY <1>1, <2>2
    <3>2. rounds[n + 1] = [b \in S |-> rounds[n][Round(b, Len(buf))]]
      BY <1>7, <3>1
    <3>3. rounds[n + 1] \in [S -> S]
      BY <1>2, <3>1, <3>2
    <3> QED BY <3>1, <3>3
  <2> HIDE DEF good
  <2>3. 0 .. N \subseteq good
    BY <1>1, <2>1, <2>2, Upward
  <2>4. \A n \in 0 .. N : rounds[n] \in [S -> S]
    BY <2>3 DEF good
  <2>5. rounds = [n \in 0 .. N |-> rounds[n]]
    BY <1>5
  <2> QED BY <2>4, <2>5
<1> QED BY <1>6, <1>8, <1>9, <1>10 DEF S, N, all

(* No backspace stays, and one round is enough if it leaves none. *)
LEMMA EditIs ==
    ASSUME NEW buf \in Seq(Keys), NEW chunk \in Seq(Keys)
    PROVE  /\ Clean(Edit(buf, chunk))
           /\ Clean(Round(buf \o chunk, Len(buf))) => Edit(buf, chunk) = Round(buf \o chunk, Len(buf))
<1> DEFINE S == Seq(Keys)
           all == buf \o chunk
           N == Len(all)
           first == Round(all, Len(buf))
<1>1. all \in S /\ N \in Nat /\ Len(buf) \in Nat
  BY ConcatProperties, LenProperties
<1> HIDE DEF all
<1>2. PICK f \in [0 .. N -> [S -> S]] :
         /\ \A b \in S : f[0][b] = b
         /\ \A n \in 1 .. N : \A b \in S : f[n][b] = f[n - 1][Round(b, Len(buf))]
         /\ Edit(buf, chunk) = f[N][all]
  BY EditComputed DEF all
<1>3. ASSUME NEW b \in S
      PROVE  /\ Round(b, Len(buf)) \in S /\ (Clean(b) => Round(b, Len(buf)) = b) /\ Len(b) \in Nat
             /\ Len(Round(b, Len(buf))) \in Nat /\ (~Clean(b) => Len(Round(b, Len(buf))) < Len(b))
             /\ (~Clean(b) => Len(b) # 0)
  <2>1. /\ Round(b, Len(buf)) \in S /\ (Clean(b) => Round(b, Len(buf)) = b)
        /\ (~Clean(b) => Len(Round(b, Len(buf))) < Len(b))
    BY <1>1, RoundIs
  <2>2. Len(b) \in Nat /\ Len(Round(b, Len(buf))) \in Nat
    BY <2>1, LenProperties
  <2> QED BY <2>1, <2>2 DEF Clean
<1> DEFINE good == {n \in 0 .. N : \A b \in S : (Clean(b) => f[n][b] = b) /\ (Clean(b) \/ Len(b) <= n => Clean(f[n][b]))}
<1> HIDE DEF S, N
<1>4. 0 \in good
  <2>1. ASSUME NEW b \in S
        PROVE  /\ Clean(b) => f[0][b] = b
               /\ Clean(b) \/ Len(b) <= 0 => Clean(f[0][b])
    BY <1>2, <1>3
  <2> QED BY <1>1, <2>1
<1>5. ASSUME NEW n \in 0 .. N - 1, n \in good
      PROVE  n + 1 \in good
  <2>1. n + 1 \in 1 .. N /\ (n + 1) - 1 = n /\ n + 1 \in 0 .. N
    BY <1>1
  <2>2. ASSUME NEW b \in S
        PROVE  /\ Clean(b) => f[n + 1][b] = b
               /\ Clean(b) \/ Len(b) <= n + 1 => Clean(f[n + 1][b])
    <3> DEFINE r == Round(b, Len(buf))
    <3>1. f[n + 1][b] = f[n][r] /\ r \in S
      BY <1>2, <1>3, <2>1
    <3>2. (Clean(r) => f[n][r] = r) /\ (Clean(r) \/ Len(r) <= n => Clean(f[n][r]))
      BY <1>5, <3>1
    <3>3. Clean(b) => r = b
      BY <1>3
    <3>4. Len(b) <= n + 1 /\ ~Clean(b) => Len(r) <= n
      BY <1>3
    <3> HIDE DEF r
    <3> QED BY <3>1, <3>2, <3>3, <3>4
  <2> QED BY <2>1, <2>2
<1>6. 0 .. N \subseteq good
  <2> HIDE DEF good
  <2> QED BY <1>1, <1>4, <1>5, Upward
<1>7. \A n \in 0 .. N, b \in S : (Clean(b) => f[n][b] = b) /\ (Clean(b) \/ Len(b) <= n => Clean(f[n][b]))
  BY <1>6
<1>8. Clean(Edit(buf, chunk))
  <2>1. N \in 0 .. N /\ Len(all) <= N
    BY <1>1 DEF N
  <2> QED BY <1>1, <1>2, <1>7, <2>1
<1>9. ASSUME Clean(first)
      PROVE  Edit(buf, chunk) = first
  <2>1. CASE N = 0
    <3>1. Clean(all)
      BY <1>1, <1>3, <2>1 DEF N
    <3> QED BY <1>1, <1>2, <1>3, <2>1, <3>1
  <2>2. CASE N # 0
    <3>1. N \in 1 .. N /\ N - 1 \in 0 .. N
      BY <1>1, <2>2
    <3>2. f[N][all] = f[N - 1][first] /\ first \in S
      BY <1>1, <1>2, <1>3, <3>1
    <3> QED BY <1>2, <1>7, <1>9, <3>1, <3>2
  <2> QED BY <2>1, <2>2
<1> QED BY <1>8, <1>9 DEF all

(* What is typed, key by key. *)
LEMMA TypedComputed ==
    ASSUME NEW buf \in Seq(Keys), NEW chunk \in Seq(Keys)
    PROVE  \E f \in [0 .. Len(chunk) -> Seq(Keys)] :
              /\ f[0] = buf
              /\ \A k \in 1 .. Len(chunk) : f[k] = Pressed(f[k - 1], chunk[k])
              /\ Typed(buf, chunk) = f[Len(chunk)]
<1> DEFINE S == Seq(Keys)
           N == Len(chunk)
           Body(f) == [k \in 0 .. N |-> IF k = 0 THEN buf ELSE Pressed(f[k - 1], chunk[k])]
           after == CHOOSE f : f = Body(f)
           next == [k \in 1 .. N |-> [h \in S |-> Pressed(h, chunk[k])]]
<1>1. N \in Nat /\ \A k \in 1 .. N : chunk[k] \in Keys
  BY LenProperties, ElementOfSeq
<1>2. ASSUME NEW h \in S, NEW key \in Keys
      PROVE  Pressed(h, key) \in S
  <2>1. CASE key # Del
    BY <2>1, AppendProperties DEF Pressed
  <2>2. CASE key = Del /\ h = <<>>
    BY <2>2 DEF Pressed
  <2>3. CASE key = Del /\ h # <<>>
    <3>1. Len(h) \in Nat /\ Len(h) # 0
      BY <2>3, EmptySeq, LenProperties
    <3>2. SubSeq(h, 1, Len(h) - 1) \in S
      BY <3>1, PartIs
    <3> QED BY <2>3, <3>2 DEF Pressed, Front
  <2> QED BY <2>1, <2>2, <2>3
<1> HIDE DEF S, N
<1>3. next \in [1 .. N -> [S -> S]]
  BY <1>1, <1>2 DEF N
<1>4. buf \in S
  BY DEF S
<1>5. PICK g \in [0 .. N -> S] : g[0] = buf /\ \A k \in 1 .. N : g[k] = next[k][g[k - 1]]
  <2> HIDE DEF next
  <2>1. N \in Nat
    BY <1>1
  <2>2. \E g : StepsFrom(buf, g, next, S, N)
    BY <1>3, <1>4, <2>1, Stepwise
  <2> QED BY <2>2 DEF StepsFrom
<1>6. ASSUME NEW k \in 1 .. N
      PROVE  k \in 0 .. N /\ k - 1 \in 0 .. N /\ k # 0 /\ next[k][g[k - 1]] = Pressed(g[k - 1], chunk[k])
  <2>1. k \in 0 .. N /\ k - 1 \in 0 .. N /\ k # 0
    BY <1>1
  <2>2. g[k - 1] \in S
    BY <2>1
  <2> QED BY <2>1, <2>2
<1>7. g = Body(g)
  <2> HIDE DEF next
  <2>1. ASSUME NEW k \in 0 .. N
        PROVE  g[k] = IF k = 0 THEN buf ELSE Pressed(g[k - 1], chunk[k])
    <3>1. CASE k = 0
      BY <1>5, <3>1
    <3>2. CASE k # 0
      <4>1. k \in 1 .. N
        BY <1>1, <3>2
      <4> QED BY <1>5, <1>6, <4>1, <3>2
    <3> QED BY <3>1, <3>2
  <2> QED BY <1>5, <2>1
<1>8. after = Body(after)
  <2>1. \E f : f = Body(f)
    BY <1>7
  <2> HIDE DEF Body
  <2> QED BY <2>1
<1> HIDE DEF after
<1>9. /\ after = [k \in 0 .. N |-> after[k]]
      /\ \A k \in 0 .. N : after[k] = IF k = 0 THEN buf ELSE Pressed(after[k - 1], chunk[k])
  BY <1>8
<1>10. after[0] = buf /\ \A k \in 1 .. N : after[k] = Pressed(after[k - 1], chunk[k])
  <2>1. 0 \in 0 .. N /\ \A k \in 1 .. N : k \in 0 .. N /\ k # 0
    BY <1>1
  <2> QED BY <1>9, <2>1
<1>11. after \in [0 .. N -> S]
  <2> DEFINE good == {k \in 0 .. N : after[k] \in S}
  <2>1. 0 \in good
    BY <1>1, <1>4, <1>10
  <2>2. ASSUME NEW k \in 0 .. N - 1, k \in good
        PROVE  k + 1 \in good
    <3>1. k + 1 \in 1 .. N /\ (k + 1) - 1 = k /\ after[k] \in S /\ k + 1 \in 0 .. N
      BY <1>1, <2>2
    <3>2. after[k + 1] = Pressed(after[k], chunk[k + 1]) /\ chunk[k + 1] \in Keys
      BY <1>1, <1>10, <3>1 DEF N
    <3>3. after[k + 1] \in S
      BY <1>2, <3>1, <3>2 DEF S
    <3> QED BY <3>1, <3>3
  <2> HIDE DEF good
  <2>3. 0 .. N \subseteq good
    BY <1>1, <2>1, <2>2, Upward
  <2>4. \A k \in 0 .. N : after[k] \in S
    BY <2>3 DEF good
  <2> QED BY <1>9, <2>4
<1>12. Typed(buf, chunk) = after[N]
  BY DEF Typed, after, N
<1> QED BY <1>10, <1>11, <1>12 DEF S, N

(* A key adds itself; a backspace takes the last key. *)
LEMMA PressedIs ==
    ASSUME NEW h \in Seq(Keys), NEW key \in Keys, key = Del => Len(h) > 0
    PROVE  /\ Pressed(h, key) \in Seq(Keys)
           /\ key = Del => Len(Pressed(h, key)) = Len(h) - 1
           /\ key # Del => Len(Pressed(h, key)) = Len(h) + 1
           /\ \A i \in 1 .. Len(Pressed(h, key)) : Pressed(h, key)[i] = IF i = Len(h) + 1 THEN key ELSE h[i]
<1>1. Len(h) \in Nat
  BY LenProperties
<1>2. CASE key # Del
  <2>1. Pressed(h, key) = Append(h, key)
    BY <1>2 DEF Pressed
  <2>2. /\ Append(h, key) \in Seq(Keys) /\ Len(Append(h, key)) = Len(h) + 1 /\ Append(h, key)[Len(h) + 1] = key
        /\ \A i \in 1 .. Len(h) : Append(h, key)[i] = h[i]
    BY AppendProperties
  <2> DEFINE more == Append(h, key)
  <2> HIDE DEF more
  <2>3. ASSUME NEW i \in 1 .. Len(more)
        PROVE  more[i] = IF i = Len(h) + 1 THEN key ELSE h[i]
    <3>1. i # Len(h) + 1 => i \in 1 .. Len(h)
      BY <1>1, <2>2 DEF more
    <3> QED BY <2>2, <3>1 DEF more
  <2> QED BY <1>2, <2>1, <2>2, <2>3 DEF more
<1>3. CASE key = Del
  <2> DEFINE less == SubSeq(h, 1, Len(h) - 1)
  <2>1. h # <<>>
    BY <1>1, <1>3
  <2>2. Pressed(h, key) = less
    BY <1>3, <2>1 DEF Pressed, Front
  <2>3. /\ less \in Seq(Keys) /\ Len(less) = Len(h) - 1
        /\ \A i \in 1 .. Len(h) - 1 : less[i] = h[i]
    <3>1. /\ less \in Seq(Keys)
          /\ 1 <= Len(h) - 1 => Len(less) = (Len(h) - 1) - 1 + 1
          /\ ~(1 <= Len(h) - 1) => Len(less) = 0
          /\ \A i \in 1 .. (Len(h) - 1) - 1 + 1 : less[i] = h[1 + i - 1]
      BY <1>1, <1>3, PartIs
    <3> HIDE DEF less
    <3>2. Len(less) = Len(h) - 1
      BY <1>1, <1>3, <3>1
    <3>3. ASSUME NEW i \in 1 .. Len(h) - 1
          PROVE  less[i] = h[i]
      <4>1. i \in 1 .. (Len(h) - 1) - 1 + 1 /\ 1 + i - 1 = i
        BY <1>1
      <4> QED BY <3>1, <4>1
    <3> QED BY <3>1, <3>2, <3>3
  <2> HIDE DEF less
  <2> QED BY <1>1, <1>3, <2>2, <2>3
<1> QED BY <1>2, <1>3

(* The text with the chunk, place by place. *)
LEMMA Joined ==
    ASSUME NEW buf \in Seq(Keys), NEW chunk \in Seq(Keys)
    PROVE  /\ buf \o chunk \in Seq(Keys) /\ Len(buf \o chunk) = Len(buf) + Len(chunk)
           /\ Len(buf) \in Nat /\ Len(chunk) \in Nat
           /\ \A i \in 1 .. Len(buf) : (buf \o chunk)[i] = buf[i]
           /\ \A i \in 1 .. Len(chunk) : (buf \o chunk)[Len(buf) + i] = chunk[i]
<1>1. Len(buf) \in Nat /\ Len(chunk) \in Nat
  BY LenProperties
<1>2. /\ buf \o chunk \in Seq(Keys) /\ Len(buf \o chunk) = Len(buf) + Len(chunk)
      /\ \A i \in 1 .. Len(buf) + Len(chunk) : (buf \o chunk)[i] =
            IF i <= Len(buf) THEN buf[i] ELSE chunk[i - Len(buf)]
  BY ConcatProperties
<1>3. ASSUME NEW i \in 1 .. Len(buf)
      PROVE  (buf \o chunk)[i] = buf[i]
  BY <1>1, <1>2
<1>4. ASSUME NEW i \in 1 .. Len(chunk)
      PROVE  (buf \o chunk)[Len(buf) + i] = chunk[i]
  <2>1. Len(buf) + i \in 1 .. Len(buf) + Len(chunk) /\ ~(Len(buf) + i <= Len(buf)) /\ (Len(buf) + i) - Len(buf) = i
    BY <1>1
  <2> QED BY <1>2, <2>1
<1> QED BY <1>1, <1>2, <1>3, <1>4

(* What is typed, if the chunk has a backspace at p, or none and p is past its end: *)
(* all but the backspace and the symbol before it.                                  *)
LEMMA TypedIs ==
    ASSUME NEW buf \in Seq(Keys), NEW chunk \in Seq(Keys), NEW p \in 1 .. Len(chunk) + 1,
           \A k \in 1 .. Len(chunk) : chunk[k] = Del <=> k = p,
           Len(buf) + p >= 2
    PROVE  /\ Typed(buf, chunk) \in Seq(Keys)
           /\ p <= Len(chunk) => Len(Typed(buf, chunk)) = Len(buf) + Len(chunk) - 2
           /\ ~(p <= Len(chunk)) => Len(Typed(buf, chunk)) = Len(buf) + Len(chunk)
           /\ \A i \in 1 .. Len(Typed(buf, chunk)) :
                 Typed(buf, chunk)[i] =
                   (buf \o chunk)[IF p <= Len(chunk) /\ i >= Len(buf) + p - 1 THEN i + 2 ELSE i]
<1> DEFINE L == Len(buf)
           M == Len(chunk)
           all == buf \o chunk
           Right(h, k) ==
             /\ h \in Seq(Keys)
             /\ p <= k => Len(h) = L + k - 2
             /\ ~(p <= k) => Len(h) = L + k
             /\ \A i \in 1 .. Len(h) : h[i] = all[IF p <= k /\ i >= L + p - 1 THEN i + 2 ELSE i]
<1>1. L \in Nat /\ M \in Nat
  BY LenProperties
<1>7. /\ Len(all) = L + M
      /\ \A i \in 1 .. L : all[i] = buf[i]
      /\ \A i \in 1 .. M : all[L + i] = chunk[i]
  BY Joined
<1>2. \A k \in 1 .. M : chunk[k] \in Keys
  BY ElementOfSeq
<1> HIDE DEF L, M, all
<1>3. PICK f \in [0 .. M -> Seq(Keys)] :
         f[0] = buf /\ (\A k \in 1 .. M : f[k] = Pressed(f[k - 1], chunk[k])) /\ Typed(buf, chunk) = f[M]
  BY TypedComputed DEF M
<1> DEFINE good == {k \in 0 .. M : Right(f[k], k)}
<1>4. 0 \in good
  <2>1. ~(p <= 0) /\ 0 \in 0 .. M
    BY <1>1 DEF M
  <2>2. Right(buf, 0)
    BY <1>1, <1>7, <2>1 DEF L
  <2> HIDE DEF Right
  <2> QED BY <1>3, <2>1, <2>2
<1>5. ASSUME NEW k \in 0 .. M - 1, k \in good
      PROVE  k + 1 \in good
  <2> DEFINE h == f[k]
             key == chunk[k + 1]
             g == Pressed(h, key)
  <2>1. k + 1 \in 1 .. M /\ (k + 1) - 1 = k /\ k \in Nat /\ k + 1 \in 0 .. M
    BY <1>1
  <2>2. f[k + 1] = g /\ key \in Keys /\ Right(h, k) /\ (key = Del <=> k + 1 = p) /\ all[L + (k + 1)] = key
    BY <1>1, <1>2, <1>3, <1>5, <1>7, <2>1 DEF M
  <2> HIDE DEF h, key, g
  <2>3. p \in Nat /\ p >= 1 /\ L + p >= 2
    BY <1>1 DEF L, M
  <2>9. h \in Seq(Keys) /\ Len(h) \in Nat /\ (p <= k => Len(h) = L + k - 2) /\ (~(p <= k) => Len(h) = L + k)
    <3>1. h \in Seq(Keys) /\ (p <= k => Len(h) = L + k - 2) /\ (~(p <= k) => Len(h) = L + k)
      BY <2>2
    <3>2. Len(h) \in Nat
      BY <3>1, LenProperties
    <3> QED BY <3>1, <3>2
  <2>10. key = Del <=> k + 1 = p
    BY <2>2
  <2>4. key = Del => Len(h) > 0
    BY <1>1, <2>1, <2>3, <2>9, <2>10
  <2>5. /\ g \in Seq(Keys) /\ (key = Del => Len(g) = Len(h) - 1) /\ (key # Del => Len(g) = Len(h) + 1)
        /\ \A i \in 1 .. Len(g) : g[i] = IF i = Len(h) + 1 THEN key ELSE h[i]
    <3>1. key \in Keys
      BY <2>2
    <3> QED BY <2>4, <2>9, <3>1, PressedIs DEF g
  <2>11. (key = Del => Len(g) = Len(h) - 1) /\ (key # Del => Len(g) = Len(h) + 1)
    BY <2>5
  <2>6. (p <= k + 1 => Len(g) = L + (k + 1) - 2) /\ (~(p <= k + 1) => Len(g) = L + (k + 1))
    BY <1>1, <2>1, <2>3, <2>9, <2>10, <2>11
  <2>12. \A i \in 1 .. Len(h) : h[i] = all[IF p <= k /\ i >= L + p - 1 THEN i + 2 ELSE i]
    BY <2>2
  <2>13. \A i \in 1 .. Len(g) : g[i] = IF i = Len(h) + 1 THEN key ELSE h[i]
    BY <2>5
  <2>7. ASSUME NEW i \in 1 .. Len(g)
        PROVE  g[i] = all[IF p <= k + 1 /\ i >= L + p - 1 THEN i + 2 ELSE i]
    <3>1. CASE k + 1 < p
      <4>1. Len(h) = L + k /\ Len(g) = L + k + 1 /\ key # Del
        BY <1>1, <2>1, <2>3, <2>9, <2>10, <2>11, <3>1
      <4>2. CASE i = L + (k + 1)
        <5>1. g[i] = key
          <6>1. i = Len(h) + 1
            BY <1>1, <2>1, <4>1, <4>2
          <6> QED BY <2>13, <6>1
        <5>2. all[i] = key
          BY <2>2, <4>2
        <5>3. ~(p <= k + 1)
          BY <2>1, <2>3, <3>1
        <5> QED BY <5>1, <5>2, <5>3
      <4>3. CASE i # L + (k + 1)
        <5>1. i \in 1 .. Len(h) /\ i # Len(h) + 1
          BY <1>1, <2>1, <4>1, <4>3
        <5>2. g[i] = h[i]
          BY <2>13, <5>1
        <5>3. ~(p <= k) /\ ~(p <= k + 1)
          BY <2>1, <2>3, <3>1
        <5>4. h[i] = all[i]
          BY <2>12, <5>1, <5>3
        <5> QED BY <5>2, <5>3, <5>4
      <4> QED BY <4>2, <4>3
    <3>2. CASE k + 1 = p
      <4> ~(p <= k) /\ key = Del
        BY <2>1, <2>3, <2>10, <3>2
      <4>1. Len(h) = L + k /\ Len(g) = L + k - 1
        <5>1. Len(h) = L + k
          BY <2>9
        <5>2. Len(g) = Len(h) - 1
          BY <2>11
        <5> QED BY <1>1, <2>1, <5>1, <5>2
      <4>2. i \in 1 .. Len(h) /\ i # Len(h) + 1 /\ ~(i >= L + p - 1)
        BY <1>1, <2>1, <3>2, <4>1
      <4>3. g[i] = h[i]
        BY <2>13, <4>2
      <4>4. h[i] = all[i]
        BY <2>12, <4>2
      <4> QED BY <4>2, <4>3, <4>4
    <3>3. CASE p < k + 1
      <4> p <= k /\ key # Del
        BY <2>1, <2>3, <2>10, <3>3
      <4>1. Len(h) = L + k - 2 /\ Len(g) = L + k - 1
        <5>1. Len(h) = L + k - 2
          BY <2>9
        <5>2. Len(g) = Len(h) + 1
          BY <2>11
        <5> QED BY <1>1, <2>1, <5>1, <5>2
      <4>2. CASE i = L + k - 1
        <5>1. i + 2 = L + (k + 1) /\ i = Len(h) + 1 /\ i >= L + p - 1 /\ p <= k + 1
          BY <1>1, <2>1, <2>3, <3>3, <4>1, <4>2
        <5>2. g[i] = key
          BY <2>5, <5>1
        <5>3. all[i + 2] = key
          BY <2>2, <5>1
        <5> QED BY <5>1, <5>2, <5>3
      <4>3. CASE i # L + k - 1
        <5>1. i \in 1 .. Len(h) /\ i # Len(h) + 1
          BY <1>1, <2>1, <4>1, <4>3
        <5>2. g[i] = h[i]
          BY <2>13, <5>1
        <5>3. p <= k /\ p <= k + 1
          BY <2>1, <2>3, <3>3
        <5>4. h[i] = all[IF i >= L + p - 1 THEN i + 2 ELSE i]
          BY <2>12, <5>1, <5>3
        <5> QED BY <5>2, <5>3, <5>4
      <4> QED BY <4>2, <4>3
    <3> QED BY <2>1, <2>3, <3>1, <3>2, <3>3
  <2>8. Right(g, k + 1)
    BY <2>5, <2>6, <2>7
  <2> HIDE DEF Right
  <2> QED BY <2>1, <2>2, <2>8
<1>6. Right(f[M], M)
  <2> HIDE DEF good
  <2>1. 0 .. M \subseteq good
    BY <1>1, <1>4, <1>5, Upward
  <2>2. M \in good
    BY <1>1, <2>1
  <2> QED BY <2>2 DEF good
<1> QED BY <1>3, <1>6 DEF L, M, all

(* The loop gives what is typed: for one key, and for a chunk with a backspace or *)
(* none once two symbols or more are in the buffer.                               *)
LEMMA OneBackspace ==
    ASSUME NEW buf \in Seq(Keys), Clean(buf), NEW chunk \in Seq(Keys), NEW p \in 1 .. Len(chunk) + 1,
           \A k \in 1 .. Len(chunk) : chunk[k] = Del <=> k = p,
           Len(chunk) = 1 \/ Len(buf) > 1
    PROVE  Edit(buf, chunk) = Typed(buf, chunk)
<1> DEFINE L == Len(buf)
           M == Len(chunk)
           all == buf \o chunk
           d == L + p
           shown == Typed(buf, chunk)
           first == Round(all, L)
<1>1. L \in Nat /\ M \in Nat /\ p \in Nat /\ p >= 1
  BY LenProperties
<1>2. all \in Seq(Keys) /\ Len(all) = L + M
  BY Joined
<1>3. ASSUME NEW i \in 1 .. L + M
      PROVE  all[i] = Del <=> i = d
  <2>1. CASE i <= L
    <3>1. i \in 1 .. L /\ i # d
      BY <1>1, <2>1
    <3> QED BY <3>1, Joined DEF Clean
  <2>2. CASE ~(i <= L)
    <3>1. i - L \in 1 .. M /\ L + (i - L) = i
      BY <1>1, <2>2
    <3>2. all[i] = chunk[i - L]
      BY <3>1, Joined
    <3>3. chunk[i - L] = Del <=> i - L = p
      BY <3>1
    <3> QED BY <1>1, <3>2, <3>3
  <2> QED BY <2>1, <2>2
<1>4. L + p >= 2 =>
         /\ shown \in Seq(Keys) /\ (p <= M => Len(shown) = L + M - 2) /\ (~(p <= M) => Len(shown) = L + M)
         /\ \A i \in 1 .. Len(shown) : shown[i] = all[IF p <= M /\ i >= L + p - 1 THEN i + 2 ELSE i]
  BY TypedIs
<1>5. (Clean(first) => Edit(buf, chunk) = first) /\ (Clean(all) => first = all)
  <2>1. Clean(all) => first = all
    BY <1>1, <1>2, RoundIs
  <2> QED BY <2>1, EditIs
<1>6. p <= M \/ p = M + 1
  BY <1>1
<1>7. L > 1 \/ M = 1
  OBVIOUS
<1>8. M = 1 /\ ~(L > 1) => shown = Pressed(buf, chunk[1])
  <2> SUFFICES ASSUME M = 1
               PROVE  shown = Pressed(buf, chunk[1])
    OBVIOUS
  <2>1. PICK f \in [0 .. M -> Seq(Keys)] :
           f[0] = buf /\ (\A k \in 1 .. M : f[k] = Pressed(f[k - 1], chunk[k])) /\ shown = f[M]
    BY TypedComputed
  <2> HIDE DEF shown
  <2>2. 1 \in 1 .. M /\ 1 - 1 = 0
    OBVIOUS
  <2>3. f[1] = Pressed(f[1 - 1], chunk[1])
    BY <2>1, <2>2
  <2> QED BY <2>1, <2>2, <2>3
<1>9. p <= M => Del \in ToSet(all) /\ FirstDel(all) = d
  <2> SUFFICES ASSUME p <= M
               PROVE  Del \in ToSet(all) /\ FirstDel(all) = d
    OBVIOUS
  <2>1. d \in 1 .. L + M /\ all[d] = Del /\ \A j \in 1 .. d - 1 : all[j] # Del
    <3>1. d \in 1 .. L + M
      BY <1>1
    <3>2. \A j \in 1 .. d - 1 : j \in 1 .. L + M /\ j # d
      BY <1>1, <3>1
    <3> QED BY <1>3, <3>1, <3>2
  <2>2. Del \in ToSet(all)
    BY <1>2, <2>1, WhereDel
  <2> QED BY <1>2, <2>1, <2>2, FirstDelIs
<1>10. first = IF Del \notin ToSet(all) THEN all
               ELSE IF L <= 1 THEN <<>>
               ELSE SubSeq(all, 1, FirstDel(all) - 2)
                      \o (IF FirstDel(all) # L THEN SubSeq(all, FirstDel(all) + 1, Len(all)) ELSE <<>>)
  BY DEF Round
<1> HIDE DEF shown, first, all, L, M
(* Without a backspace. *)
<1>11. CASE p = M + 1
  <2>1. ~(p <= M) /\ L + p >= 2
    BY <1>1, <1>7, <1>11
  <2>2. \A i \in 1 .. L + M : i # d
    BY <1>1, <1>11
  <2>3. Clean(all)
    BY <1>2, <1>3, <2>2 DEF Clean
  <2>4. Len(shown) = Len(all) /\ shown \in Seq(Keys)
    BY <1>2, <1>4, <2>1
  <2>5. \A i \in 1 .. Len(shown) : shown[i] = all[i]
    BY <1>4, <2>1
  <2>6. shown = all
    BY <1>2, <2>4, <2>5, SeqEqual
  <2> QED BY <1>5, <2>3, <2>6 DEF shown
(* With at most one symbol in the buffer: the only key is the backspace, and nothing stays. *)
<1>12. CASE p <= M /\ ~(L > 1)
  <2>1. M = 1 /\ p = 1
    BY <1>1, <1>7, <1>12
  <2>2. first = <<>>
    BY <1>1, <1>9, <1>10, <1>12
  <2>3. Clean(<<>>)
    BY EmptySeq DEF Clean
  <2>4. chunk[1] = Del
    BY <2>1 DEF M
  <2>5. shown = IF buf = <<>> THEN <<>> ELSE Front(buf)
    BY <1>8, <1>12, <2>1, <2>4 DEF Pressed
  <2>6. buf # <<>> => Front(buf) = <<>>
    <3> SUFFICES ASSUME buf # <<>>
                 PROVE  Front(buf) = <<>>
      OBVIOUS
    <3>1. L = 1
      BY <1>1, <1>12, EmptySeq DEF L
    <3>2. Front(buf) = SubSeq(buf, 1, 0)
      BY <3>1 DEF Front, L
    <3>3. SubSeq(buf, 1, 0) \in Seq(Keys) /\ Len(SubSeq(buf, 1, 0)) = 0
      BY <1>1, PartIs DEF L
    <3> QED BY <3>2, <3>3, EmptySeq
  <2> QED BY <1>5, <2>2, <2>3, <2>5, <2>6 DEF shown
(* The backspace goes with the symbol before it. *)
<1>13. CASE p <= M /\ L > 1
  <2> DEFINE before == SubSeq(all, 1, d - 2)
             after == SubSeq(all, d + 1, Len(all))
             both == before \o after
  <2>1. d \in Nat /\ d > 2 /\ d <= L + M /\ d # L /\ L + p >= 2
    BY <1>1, <1>13
  <2> HIDE DEF d
  <2>2. first = both
    <3>1. Del \in ToSet(all) /\ FirstDel(all) = d
      BY <1>9, <1>13 DEF d
    <3>2. ~(L <= 1)
      BY <1>1, <1>13
    <3> QED BY <1>10, <2>1, <3>1, <3>2
  <2>3. before \in Seq(Keys) /\ Len(before) = d - 2 /\ \A i \in 1 .. d - 2 : before[i] = all[i]
    <3>1. /\ before \in Seq(Keys) /\ (1 <= d - 2 => Len(before) = (d - 2) - 1 + 1)
          /\ \A i \in 1 .. (d - 2) - 1 + 1 : before[i] = all[1 + i - 1]
      BY <1>1, <1>2, <2>1, PartIs
    <3> HIDE DEF before
    <3>2. Len(before) = d - 2
      BY <2>1, <3>1
    <3>3. ASSUME NEW i \in 1 .. d - 2
          PROVE  before[i] = all[i]
      <4>1. i \in 1 .. (d - 2) - 1 + 1 /\ 1 + i - 1 = i
        BY <2>1
      <4> QED BY <3>1, <4>1
    <3> QED BY <3>1, <3>2, <3>3
  <2>4. after \in Seq(Keys) /\ Len(after) = L + M - d /\ \A i \in 1 .. L + M - d : after[i] = all[d + i]
    <3>1. /\ after \in Seq(Keys) /\ (d + 1 <= Len(all) => Len(after) = Len(all) - (d + 1) + 1)
          /\ (~(d + 1 <= Len(all)) => Len(after) = 0)
          /\ \A i \in 1 .. Len(all) - (d + 1) + 1 : after[i] = all[(d + 1) + i - 1]
      BY <1>1, <1>2, <2>1, PartIs
    <3> HIDE DEF after
    <3>2. Len(after) = L + M - d
      BY <1>1, <1>2, <2>1, <3>1
    <3>3. ASSUME NEW i \in 1 .. L + M - d
          PROVE  after[i] = all[d + i]
      <4>1. i \in 1 .. Len(all) - (d + 1) + 1 /\ (d + 1) + i - 1 = d + i
        BY <1>1, <1>2, <2>1
      <4> QED BY <3>1, <4>1
    <3> QED BY <3>1, <3>2, <3>3
  <2> HIDE DEF before, after
  <2>5. /\ both \in Seq(Keys) /\ Len(both) = Len(before) + Len(after)
        /\ \A i \in 1 .. Len(before) + Len(after) : both[i] = IF i <= Len(before) THEN before[i] ELSE after[i - Len(before)]
    BY <2>3, <2>4, ConcatProperties
  <2> HIDE DEF both
  <2>6. Len(both) = L + M - 2 /\ Len(before) + Len(after) = L + M - 2
    BY <1>1, <2>1, <2>3, <2>4, <2>5
  <2>7. ASSUME NEW i \in 1 .. L + M - 2
        PROVE  both[i] = all[IF i >= d - 1 THEN i + 2 ELSE i]
    <3>1. i \in 1 .. Len(before) + Len(after)
      BY <2>6
    <3>2. CASE i <= d - 2
      <4>1. i \in 1 .. d - 2 /\ ~(i >= d - 1)
        BY <2>1, <3>2
      <4> QED BY <2>3, <2>5, <3>1, <3>2, <4>1
    <3>3. CASE ~(i <= d - 2)
      <4>1. i - (d - 2) \in 1 .. L + M - d /\ d + (i - (d - 2)) = i + 2 /\ i >= d - 1
        BY <1>1, <2>1, <3>3
      <4>2. both[i] = after[i - (d - 2)]
        BY <2>3, <2>5, <3>1, <3>3
      <4> QED BY <2>4, <4>1, <4>2
    <3> QED BY <3>2, <3>3
  <2>8. Clean(both)
    <3>1. ASSUME NEW i \in 1 .. Len(both)
          PROVE  both[i] # Del
      <4> DEFINE j == IF i >= d - 1 THEN i + 2 ELSE i
      <4>1. j \in 1 .. L + M /\ j # d /\ i \in 1 .. L + M - 2
        BY <1>1, <2>1, <2>6
      <4> HIDE DEF j
      <4>2. all[j] # Del
        BY <1>3, <4>1
      <4> QED BY <2>7, <4>1, <4>2 DEF j
    <3> QED BY <2>5, <3>1 DEF Clean
  <2>9. shown \in Seq(Keys) /\ Len(shown) = L + M - 2
    BY <1>4, <1>13, <2>1
  <2>10. ASSUME NEW i \in 1 .. Len(both)
         PROVE  both[i] = shown[i]
    <3>1. i \in 1 .. L + M - 2 /\ i \in 1 .. Len(shown)
      BY <2>6, <2>9
    <3>2. i >= L + p - 1 <=> i >= d - 1
      BY <1>1 DEF d
    <3> QED BY <1>4, <1>13, <2>1, <2>7, <3>1, <3>2
  <2>11. both = shown
    BY <2>5, <2>6, <2>9, <2>10, SeqEqual
  <2> QED BY <1>5, <2>2, <2>8, <2>11 DEF shown
<1> QED BY <1>1, <1>6, <1>11, <1>12, <1>13

-----------------------------------------------------------------------------
(* At most one backspace is one at some place, or none. *)
LEMMA AtMostOne ==
    ASSUME NEW chunk \in Seq(Keys), Len(chunk) = 1 \/ Cardinality({i \in DOMAIN chunk : chunk[i] = Del}) <= 1
    PROVE  \E p \in 1 .. Len(chunk) + 1 : \A k \in 1 .. Len(chunk) : chunk[k] = Del <=> k = p
<1> DEFINE M == Len(chunk)
           dels == {i \in 1 .. M : chunk[i] = Del}
<1>1. M \in Nat /\ DOMAIN chunk = 1 .. M
  BY LenProperties
<1>2. ASSUME NEW i \in dels, NEW j \in dels, i # j
      PROVE  FALSE
  <2>1. M # 1
    BY <1>2
  <2>2. Cardinality(dels) <= 1
    BY <1>1, <2>1
  <2>3. IsFiniteSet(dels) /\ Cardinality(dels) \in Nat
    <3>1. dels \in SUBSET (1 .. M) /\ IsFiniteSet(1 .. M)
      BY <1>1, FS_Interval
    <3>2. IsFiniteSet(dels)
      BY <3>1, FS_Subset
    <3> QED BY <3>2, FS_CardinalityType
  <2>4. IsFiniteSet({i}) /\ Cardinality({i}) = 1
    BY FS_Singleton
  <2>5. Cardinality({i} \cup {j}) = Cardinality({i}) + 1
    <3>1. j \notin {i}
      BY <1>2
    <3> QED BY <2>4, <3>1, FS_AddElement
  <2>6. {i} \cup {j} \in SUBSET dels
    BY <1>2
  <2> HIDE DEF dels
  <2>7. Cardinality({i} \cup {j}) <= Cardinality(dels)
    BY <2>3, <2>6, FS_Subset
  <2>8. Cardinality({i}) + 1 <= Cardinality(dels)
    BY <2>5, <2>7
  <2>9. 1 + 1 <= Cardinality(dels)
    BY <2>4, <2>8
  <2> DEFINE many == Cardinality(dels)
  <2>10. many <= 1 /\ 1 + 1 <= many /\ many \in Nat
    BY <2>2, <2>3, <2>9
  <2> HIDE DEF many
  <2> QED BY <2>10
<1>3. CASE dels = {}
  <2>1. M + 1 \in 1 .. M + 1 /\ \A k \in 1 .. M : k # M + 1
    BY <1>1
  <2>2. \A k \in 1 .. M : chunk[k] # Del
    BY <1>3
  <2> QED BY <2>1, <2>2
<1>4. CASE dels # {}
  <2>1. PICK p \in dels : TRUE
    BY <1>4
  <2>2. p \in 1 .. M + 1
    BY <1>1, <2>1
  <2>3. \A k \in 1 .. M : chunk[k] = Del <=> k = p
    BY <1>2, <2>1
  <2> QED BY <2>2, <2>3
<1> QED BY <1>3, <1>4

(* The buffer of a machine never holds a backspace. *)
TextInv == TypeOK /\ Clean(buffer)

LEMMA TextInit == Init => TextInv
<1> SUFFICES ASSUME Init
             PROVE  TextInv
  OBVIOUS
<1>1. /\ <<>> \in Seq(Keys) /\ <<>> \in Seq(Results) /\ Clean(<<>>)
  BY EmptySeq DEF Clean
<1> QED BY <1>1 DEF Init, TextInv, TypeOK, States, Steps, Results

LEMMA ReceivedIs ==
    ASSUME TextInv, NEW n \in 1 .. Len(todo), HostSends(n)
    PROVE  TextInv'
<1> DEFINE chunk == SubSeq(todo, 1, n)
           rest == SubSeq(todo, n + 1, Len(todo))
<1>1. todo \in Seq(Keys) /\ buffer \in Seq(Keys) /\ Len(todo) \in Nat /\ n \in Int /\ n <= Len(todo) /\ 1 <= n
  BY LenProperties DEF TextInv, TypeOK
<1>2. chunk \in Seq(Keys) /\ rest \in Seq(Keys) /\ Len(chunk) \in Nat
  <2>1. chunk \in Seq(Keys)
    BY <1>1, PartIs
  <2>2. rest \in Seq(Keys)
    BY <1>1, PartIs
  <2> QED BY <2>1, <2>2, LenProperties
<1>3. Receive(chunk) /\ todo' = rest /\ UNCHANGED <<sent, ran, answers>>
  BY DEF HostSends, log
<1>4. Clean(Edit(buffer, chunk))
  BY <1>1, <1>2, EditIs
<1> HIDE DEF chunk, rest
<1>5. Clean(buffer')
  BY <1>3, <1>4 DEF Receive, TextInv
<1>6. got' \in Nat /\ UNCHANGED <<current, listening>>
  <2>1. got \in Nat
    BY DEF TextInv, TypeOK
  <2> QED BY <1>2, <1>3, <2>1 DEF Receive
<1>7. state' \in States /\ dest' \in States /\ step' \in Steps
  BY <1>3 DEF Receive, Trigger, TextInv, TypeOK, States, Steps
<1> QED BY <1>2, <1>3, <1>5, <1>6, <1>7 DEF TextInv, TypeOK, Clean

LEMMA StartedIs ==
    ASSUME TextInv, HostStartsLine \/ HostStartsPayload
    PROVE  TextInv'
<1>1. CASE HostStartsPayload
  BY <1>1, HostAssumption DEF HostStartsPayload, fsm, log, TextInv, TypeOK
<1>2. CASE HostStartsLine
  <2> DEFINE Entry(l) == IF l = <<>> THEN Empty
                         ELSE IF \E c \in Commands : Text[c] = l
                              THEN CHOOSE c \in Commands : Text[c] = l
                              ELSE NoCommand
  <2>1. PICK l \in Lines : todo' = l \o <<CR>> /\ sent' = Append(sent, Entry(l))
    BY <1>2 DEF HostStartsLine
  <2>2. Entry(l) \in Results
    <3>1. CASE \E c \in Commands : Text[c] = l
      BY <3>1 DEF Results
    <3>2. CASE ~\E c \in Commands : Text[c] = l
      BY <3>2 DEF Results
    <3> QED BY <3>1, <3>2
  <2> HIDE DEF Entry
  <2>3. sent' \in Seq(Results)
    BY <2>1, <2>2, AppendProperties DEF TextInv, TypeOK
  <2>4. todo' \in Seq(Keys)
    <3>1. l \in Seq(Keys) /\ <<CR>> \in Seq(Keys)
      BY HostAssumption DEF Keys
    <3> QED BY <2>1, <3>1, ConcatProperties
  <2>5. UNCHANGED <<state, buffer, current, step, dest, listening, got, ran, answers>>
    BY <1>2 DEF HostStartsLine, fsm, log
  <2> QED BY <2>3, <2>4, <2>5 DEF TextInv, TypeOK
<1> QED BY <1>1, <1>2

LEMMA TextStep == TextInv /\ [Next]_vars => TextInv'
<1> SUFFICES ASSUME TextInv, [Next]_vars
             PROVE  TextInv'
  OBVIOUS
<1>1. ASSUME NEW n \in 1 .. Len(todo), HostSends(n)
      PROVE  TextInv'
  BY <1>1, ReceivedIs
<1>2. CASE HostStartsLine \/ HostStartsPayload
  BY <1>2, StartedIs
<1> USE DEF TextInv, TypeOK, States, Steps
<1>3. CASE EnterIdle
  BY <1>3 DEF EnterIdle, log
<1>4. CASE EnterAnalyzeInput
  BY <1>4 DEF EnterAnalyzeInput, Trigger, log
<1>5. CASE EnterValidateCommand
  <2>1. Lookup(buffer) \in Results
    BY DEF Lookup, Results
  <2>2. NoCommand \in Results
    BY DEF Results
  <2>3. ran' \in Seq(Results) /\ answers' \in Nat
    <3>1. Append(ran, NoCommand) \in Seq(Results)
      BY <2>2, AppendProperties
    <3>2. CASE current' = NoCommand
      <4>1. ran' = Append(ran, NoCommand) /\ answers' = answers + 1
        BY <1>5, <3>2 DEF EnterValidateCommand
      <4> QED BY <3>1, <4>1
    <3>3. CASE current' # NoCommand
      <4>1. ran' = ran /\ answers' = answers
        BY <1>5, <3>3 DEF EnterValidateCommand
      <4> QED BY <4>1
    <3> QED BY <3>2, <3>3
  <2>4. /\ state' \in States /\ dest' \in States /\ step' \in Steps /\ current' \in Results
        /\ UNCHANGED <<buffer, listening, got, todo, sent>>
    BY <1>5, <2>1 DEF EnterValidateCommand, Trigger
  <2> QED BY <2>3, <2>4
<1>6. CASE ExitValidateCommand
  <2>1. <<>> \in Seq(Keys) /\ Clean(<<>>)
    BY EmptySeq DEF Clean
  <2> QED BY <1>6, <2>1 DEF ExitValidateCommand, log
<1>7. CASE ChangeState
  BY <1>7 DEF ChangeState, log
<1>8. CASE EnterProcessCommand
  <2>1. ran' \in Seq(Results)
    <3>1. Append(ran, current) \in Seq(Results)
      BY AppendProperties
    <3> QED BY <1>8, <3>1 DEF EnterProcessCommand
  <2>2. /\ state' \in States /\ dest' \in States /\ step' \in Steps /\ current' \in Results
        /\ listening' \in BOOLEAN /\ got' \in Nat /\ answers' \in Nat
    <3>1. CASE step' = "await" /\ UNCHANGED <<state, current, dest, listening, got, answers>>
      BY <3>1
    <3>2. CASE listening' = TRUE /\ step' = "none" /\ UNCHANGED <<state, current, dest, got, answers>>
      BY <3>2
    <3>3. CASE StopListening /\ Complete
      <4>1. state' \in States /\ dest' \in States /\ step' \in Steps
        BY <3>3 DEF Complete, Trigger
      <4>2. current' \in Results /\ answers' \in Nat
        BY <3>3 DEF Complete, Results
      <4>3. listening' \in BOOLEAN /\ got' \in Nat
        BY <3>3 DEF StopListening
      <4> QED BY <4>1, <4>2, <4>3
    <3> QED
      <4> HIDE DEF TextInv, TypeOK, States, Steps
      <4> QED BY <1>8, <3>1, <3>2, <3>3 DEF EnterProcessCommand
  <2>3. UNCHANGED <<buffer, todo, sent>>
    BY <1>8 DEF EnterProcessCommand
  <2> QED BY <2>1, <2>2, <2>3
<1>9. CASE SlowDone
  BY <1>9 DEF SlowDone, Complete, Trigger, Results
<1>10. CASE SlowRaises
  BY <1>10 DEF SlowRaises, log
<1>11. CASE UNCHANGED vars
  BY <1>11 DEF vars
<1> QED BY <1>1, <1>2, <1>3, <1>4, <1>5, <1>6, <1>7, <1>8, <1>9, <1>10, <1>11 DEF Next, Host, Task

(* Whatever the host has sent so far: the loop of on_input_received makes of the next *)
(* chunk what a user at a terminal expects, for one key at a time and for a chunk     *)
(* with at most one backspace once two symbols or more are in the buffer; and the     *)
(* variables keep their types.                                                        *)
THEOREM EditedAsTyped == ASSUME "a" \in Symbols PROVE Spec => []EditIsTyped
<1>1. TextInv => EditIsTyped
  <2> SUFFICES ASSUME TextInv, NEW c \in Chunks,
                      Len(c) = 1 \/ (Len(buffer) > 1 /\ Cardinality({i \in DOMAIN c : c[i] = Del}) <= 1)
               PROVE  Edit(buffer, c) = Typed(buffer, c)
    BY DEF EditIsTyped, TextInv
  <2>1. c \in Seq(Keys)
    <3>1. PICK n \in 1 .. 3 : c \in [1 .. n -> {"a", CR, Del}]
      BY DEF Chunks
    <3>2. c \in [1 .. n -> Keys]
      BY <3>1 DEF Keys
    <3> QED BY <3>2
  <2>2. PICK p \in 1 .. Len(c) + 1 : \A k \in 1 .. Len(c) : c[k] = Del <=> k = p
    BY <2>1, AtMostOne
  <2>3. buffer \in Seq(Keys) /\ Clean(buffer)
    BY DEF TextInv, TypeOK
  <2> QED BY <2>1, <2>2, <2>3, OneBackspace
<1> QED BY <1>1, TextInit, TextStep, PTL DEF Spec

-----------------------------------------------------------------------------
(***************************************************************************)
(* Data mode.  A command collects its payload as long as its listener is   *)
(* registered; between commands there is none, and a payload that is left  *)
(* in a buffer is one of a connection that has no endpoint, which cannot   *)
(* get one either before it is closed.                                     *)
(***************************************************************************)
(* Peers vanish between two commands or before the await of AT+CIPSTART returns, at *)
(* most, and the host stays in AT+FWSEND.                                           *)
Steady == Faults \subseteq {"early", "chunk"} /\ "fwsend" \notin Escapes

Collecting == listeners # <<>>
Done == iterations * BufferSize       \* what AT+FWSEND has handed over before
Unreached(i) == conns[i].connected /\ ~conns[i].protocol /\ conns[i].pending = 0

ConnRec == [connected : BOOLEAN, type : {"", "udp", "tcp", "ssl"}, ssl : BOOLEAN,
            protocol : BOOLEAN, pending : 0 .. MaxCommands]
DataRec == [buffer : Seq(Bytes), garbled : BOOLEAN, busy : BOOLEAN, listener : Nat \cup {-1}]

ConnGood(i) ==
    /\ conns[i].pending > 0 => phase = "idle" /\ conns[i].connected /\ conns[i].type = "udp" /\ conns[i].pending = 1
    /\ conns[i].protocol => conns[i].connected \/ (phase = "dial" /\ command.id = i)
ConnsGood ==
    /\ \A i \in Ids : ConnGood(i)
    /\ phase = "dial" => command.kind = "cipstart" /\ ~conns[command.id].connected

OwnerGood(o) ==
    /\ ~data[o].garbled
    /\ data[o].busy => Collecting /\ o = Owner
    /\ o = Http /\ data[o].listener # -1 => Collecting /\ o = Owner
    /\ data[o].buffer # <<>> => (Collecting /\ o = Owner) \/ \E i \in Ids : o = Cip(i) /\ Unreached(i)
OwnersGood == \A o \in Owners : OwnerGood(o)

Registers ==
    /\ listeners = <<Owner>> /\ command.kind \in PayloadKinds /\ Ready
    /\ data[Owner].busy /\ data[Owner].listener = 0 /\ Remaining > 0
EscapeGood(s) == escape[s] => phase = "run" /\ Collecting /\ s = Service(Owner) /\ command.kind # "fwsend"
ListenersGood ==
    /\ phase = "data" => Collecting
    /\ phase \notin {"data", "run"} => ~Collecting
    /\ Collecting => Registers
    /\ \A s \in Services : EscapeGood(s)

(* What is collected is what was typed for the command and not yet handed over. *)
OwnBytes ==
    /\ Len(data[Owner].buffer) = typed - Done
    /\ \A j \in 1 .. Len(data[Owner].buffer) : data[Owner].buffer[j] = <<command.n, Done + j>>
BytesGood ==
    /\ ~Collecting \/ command.kind # "fwsend" => iterations = 0
    /\ phase = "run" /\ ~Collecting => typed = 0
    /\ phase \in {"run", "data", "dial"} /\ iterations = 0 => handed.n < command.n
    /\ iterations > 0 => handed.n = command.n /\ Len(handed.bytes) = Done
    /\ Collecting /\ (command.kind = "cipsend" => conns[command.id].protocol) => OwnBytes
    /\ phase = "store" => command.kind = "filesup" /\ handed.n = command.n /\ Len(handed.bytes) = command.length
    /\ handed.n <= command.n /\ reply.n <= command.n
    /\ phase # "idle" => reply.n < command.n /\ command.kind \in Kinds /\ command.id \in Ids

(* What was handed over was typed for the command, to the byte. *)
HandedExactly == \A j \in 1 .. Len(handed.bytes) : handed.bytes[j] = <<handed.n, j>>
Transferred == HandedExactly /\ AllDelivered /\ EscapedSendsNothing

DataTyped ==
    /\ ModeTypeOK
    /\ command.length \in Nat /\ handed.n \in Nat /\ reply.n \in Nat /\ reply.length \in Nat
DataInv == DataTyped /\ ConnsGood /\ OwnersGood /\ ListenersGood /\ BytesGood /\ Transferred

-----------------------------------------------------------------------------
LEMMA OwnersApart ==
    /\ Http \in Owners /\ Files \in Owners /\ Http # Files
    /\ Service(Http) = "http" /\ Service(Files) = "files"
    /\ \A i \in Ids : /\ Cip(i) \in Owners /\ Cip(i) # Http /\ Cip(i) # Files /\ Service(Cip(i)) = "cip"
                      /\ \A j \in Ids : Cip(i) = Cip(j) => i = j
    /\ \A o \in Owners : Service(o) \in Services
BY DEF Owners, Http, Files, Cip, Service, Services

(* Who collects the payload of a command. *)
LEMMA OwnerIs ==
    /\ command.kind = "cipsend" => Owner = Cip(command.id)
    /\ command.kind = "httpexe" => Owner = Http
    /\ command.kind \notin {"cipsend", "httpexe"} => Owner = Files
BY DEF Owner

(* The invariant in the words that the steps use. *)
LEMMA DataFacts ==
    ASSUME DataInv
    PROVE  /\ conns \in [Ids -> ConnRec] /\ data \in [Owners -> DataRec]
           /\ iterations \in Nat /\ BufferSize \in Nat /\ BufferSize > 0 /\ Done \in Nat
           /\ command.n \in Nat /\ command.length \in Nat /\ handed.n \in Nat /\ reply.n \in Nat /\ typed \in Nat
           /\ command.kind = "cipsend" /\ phase # "idle" => command.id \in Ids
           /\ phase # "idle" => Owner \in Owners
           /\ ConnsGood /\ OwnersGood /\ ListenersGood /\ BytesGood /\ Transferred
<1>0. DataTyped /\ ConnsGood /\ OwnersGood /\ ListenersGood /\ BytesGood /\ Transferred
  BY DEF DataInv
<1>1. iterations \in Nat /\ BufferSize \in Nat /\ BufferSize > 0 /\ MaxTyped \in Nat /\ MaxCommands \in Nat
  <2>1. iterations \in Nat
    BY <1>0 DEF DataTyped, ModeTypeOK
  <2> QED BY <2>1, BoundsAssumption
<1>5. conns \in [Ids -> ConnRec] /\ data \in [Owners -> DataRec] /\ command.n \in 0 .. MaxCommands /\ typed \in 0 .. MaxTyped
  BY <1>0 DEF DataTyped, ModeTypeOK, ConnRec, DataRec
<1>6. command.length \in Nat /\ handed.n \in Nat /\ reply.n \in Nat
  BY <1>0 DEF DataTyped
<1>7. command.n \in Nat /\ typed \in Nat
  BY <1>1, <1>5
<1>2. Done \in Nat
  BY <1>1 DEF Done
<1>3. phase # "idle" => command.id \in Ids
  BY <1>0 DEF BytesGood
<1>4. phase # "idle" => Owner \in Owners
  BY <1>3, OwnerIs, OwnersApart
<1> QED BY <1>0, <1>1, <1>2, <1>3, <1>4, <1>5, <1>6, <1>7

-----------------------------------------------------------------------------
(* A command has its answer: nothing listens any more, and one owner may be left with *)
(* what nobody will take before its connection is closed.                             *)
LEMMA Finishes ==
    ASSUME DataInv, NEW result \in {"OK", "ERROR", "ESCAPED"}, phase # "idle", Finish(result),
           conns' \in [Ids -> ConnRec], \A i \in Ids : ConnGood(i)',
           command' = command, typed' = typed, count' = count, updating' \in BOOLEAN,
           listeners' = <<>>, iterations' = 0, escape' \in [Services -> BOOLEAN], \A s \in Services : ~escape'[s],
           NEW o \in Owners, NEW r \in DataRec, data' = [data EXCEPT ![o] = r], Collecting => o = Owner,
           ~r.garbled, ~r.busy, o = Http => r.listener = -1,
           r.buffer # <<>> => \E i \in Ids : o = Cip(i) /\ Unreached(i)',
           \A i \in Ids : Unreached(i) => Unreached(i)' \/ o = Cip(i),
           handed'.bytes \in Seq(Bytes), handed'.n \in Nat, handed'.n <= command.n, Transferred'
    PROVE  DataInv'
<1>0. /\ phase' = "idle" /\ reply' = [kind |-> command.kind, length |-> command.length, n |-> command.n, result |-> result]
      /\ ~Collecting'
  BY DEF Finish, Collecting
<1>1. data' \in [Owners -> DataRec] /\ data'[o] = r /\ \A p \in Owners : p # o => data'[p] = data[p]
  BY DataFacts
<1>2. DataTyped'
  <2>1. reply'.result \in DataResults /\ reply'.n \in Nat /\ reply'.length \in Nat
    BY <1>0, DataFacts DEF DataResults
  <2>2. /\ command'.kind \in Kinds \cup {"none"} /\ command'.n \in 0 .. MaxCommands /\ command'.length \in Nat
        /\ typed' \in 0 .. MaxTyped /\ count' \in [Services -> 0 .. 2]
    BY DEF DataInv, DataTyped, ModeTypeOK
  <2>3. listeners' \in Seq(Owners) /\ iterations' \in Nat /\ phase' \in {"idle", "run", "data", "dial", "store"}
    BY <1>0
  <2> QED BY <1>1, <2>1, <2>2, <2>3 DEF DataTyped, ModeTypeOK, ConnRec, DataRec
<1>3. ConnsGood'
  BY <1>0 DEF ConnsGood
<1>4. OwnersGood'
  <2> SUFFICES ASSUME NEW p \in Owners
               PROVE  OwnerGood(p)'
    BY DEF OwnersGood
  <2>1. CASE p = o
    BY <1>1, <2>1 DEF OwnerGood
  <2>2. CASE p # o
    <3>1. OwnerGood(p) /\ data'[p] = data[p] /\ ~(Collecting /\ p = Owner)
      BY <1>1, <2>2, DataFacts DEF OwnersGood
    <3>2. ASSUME data[p].buffer # <<>>
          PROVE  \E i \in Ids : p = Cip(i) /\ Unreached(i)'
      <4>1. PICK i \in Ids : p = Cip(i) /\ Unreached(i)
        BY <3>1, <3>2 DEF OwnerGood
      <4> QED BY <2>2, <4>1
    <3> QED BY <3>1, <3>2 DEF OwnerGood
  <2> QED BY <2>1, <2>2
<1>5. ListenersGood'
  BY <1>0 DEF ListenersGood, EscapeGood
<1>6. BytesGood'
  <2>1. command.n \in Nat /\ reply'.n = command.n
    BY <1>0, DataFacts
  <2> QED BY <1>0, <2>1 DEF BytesGood
<1> QED BY <1>2, <1>3, <1>4, <1>5, <1>6 DEF DataInv

(* What was handed over stays right when a command ends that has handed over nothing. *)
LEMMA NothingHanded ==
    ASSUME DataInv, NEW result \in {"OK", "ERROR", "ESCAPED"}, Finish(result), handed' = handed,
           result = "OK" => command.kind \notin PayloadKinds,
           result = "ESCAPED" => handed.n < command.n \/ command.kind = "fwsend"
    PROVE  Transferred' /\ handed'.bytes \in Seq(Bytes) /\ handed'.n \in Nat /\ handed'.n <= command.n
<1>1. reply' = [kind |-> command.kind, length |-> command.length, n |-> command.n, result |-> result]
  BY DEF Finish
<1>2. handed.bytes \in Seq(Bytes) /\ handed.n \in Nat /\ handed.n <= command.n /\ command.n \in Nat
  BY DataFacts DEF DataInv, DataTyped, ModeTypeOK, BytesGood
<1>3. HandedExactly'
  BY DEF DataInv, Transferred, HandedExactly
<1>4. AllDelivered'
  BY <1>1 DEF AllDelivered
<1>5. EscapedSendsNothing'
  BY <1>1, <1>2 DEF EscapedSendsNothing
<1> QED BY <1>2, <1>3, <1>4, <1>5 DEF Transferred

(* The connections stay when a command ends that has to do with none. *)
LEMMA ConnsStay ==
    ASSUME DataInv, phase \notin {"idle", "dial"}, conns' = conns
    PROVE  /\ conns' \in [Ids -> ConnRec]
           /\ \A i \in Ids : ConnGood(i)' /\ (Unreached(i)' <=> Unreached(i))
BY DataFacts DEF ConnsGood, ConnGood, Unreached

(* No endpoint is being made while a command runs. *)
LEMMA NothingPends ==
    ASSUME DataInv, NEW i \in Ids
    PROVE  conns[i] \in ConnRec /\ conns[i].pending \in Nat /\ (phase # "idle" => conns[i].pending = 0)
<1>1. conns[i] \in ConnRec /\ ConnGood(i)
  BY DataFacts DEF ConnsGood
<1>2. conns[i].pending \in 0 .. MaxCommands
  BY <1>1 DEF ConnRec
<1>3. conns[i].pending \in Nat
  BY <1>2, BoundsAssumption
<1> QED BY <1>1, <1>3 DEF ConnGood

(* No index is one of an empty list; the only listener has index 0. *)
LEMMA WhoIsPresent ==
    ASSUME DataInv, phase # "idle"
    PROVE  /\ ~Collecting => \A l \in Int : ~Present(l)
           /\ Collecting => /\ Registers /\ Owner \in Owners
                            /\ Present(data[Owner].listener) /\ Without(data[Owner].listener) = <<>>
           /\ ~Collecting /\ phase = "run" => data[Http].listener = -1
<1>1. ~Collecting => \A l \in Int : ~Present(l)
  BY DEF Collecting, Present
<1>2. ASSUME Collecting
      PROVE  /\ Registers /\ Owner \in Owners
             /\ Present(data[Owner].listener) /\ Without(data[Owner].listener) = <<>>
  <2>1. Registers /\ Owner \in Owners
    BY <1>2, DataFacts DEF ListenersGood
  <2> DEFINE o == Owner
             one == <<o>>
  <2>2. listeners = one /\ data[Owner].listener = 0
    BY <2>1 DEF Registers
  <2> HIDE DEF o
  <2>3. one \in Seq(Owners) /\ Len(one) = 1 /\ o \in Owners
    BY <2>1 DEF o
  <2> HIDE DEF one
  <2>4. RemoveAt(one, 1) = <<>>
    <3>1. 1 \in 1 .. Len(one)
      BY <2>3
    <3>2. RemoveAt(one, 1) \in Seq(Owners) /\ Len(RemoveAt(one, 1)) = Len(one) - 1
      BY <2>3, <3>1, Removed
    <3> QED BY <2>3, <3>2, EmptySeq
  <2>5. Present(0) /\ Without(0) = <<>>
    BY <2>2, <2>3, <2>4 DEF Present, Without
  <2> QED BY <2>1, <2>2, <2>5
<1>3. ~Collecting /\ phase = "run" => data[Http].listener = -1
  BY DataFacts, OwnersApart DEF OwnersGood, OwnerGood
<1> QED BY <1>1, <1>2, <1>3

(* A buffer that nobody collects into is empty, unless its connection has no endpoint. *)
LEMMA Leftover ==
    ASSUME DataInv, NEW o \in Owners, ~(Collecting /\ o = Owner)
    PROVE  /\ data[o] \in DataRec /\ ~data[o].garbled /\ ~data[o].busy
           /\ o = Http => data[o].listener = -1
           /\ data[o].buffer # <<>> => \E i \in Ids : o = Cip(i) /\ Unreached(i)
BY DataFacts DEF OwnersGood, OwnerGood

(* Nobody has escaped but from a command that collects. *)
LEMMA NobodyEscapes ==
    ASSUME DataInv, ~(phase = "run" /\ Collecting)
    PROVE  escape \in [Services -> BOOLEAN] /\ \A s \in Services : ~escape[s]
<1>1. escape \in [Services -> BOOLEAN]
  BY DEF DataInv, DataTyped, ModeTypeOK
<1> QED BY <1>1, DataFacts DEF ListenersGood, EscapeGood
LEMMA OnlyOwnerEscapes ==
    ASSUME DataInv, phase # "idle", ~escape[Service(Owner)]
    PROVE  escape \in [Services -> BOOLEAN] /\ \A s \in Services : ~escape[s]
<1>1. escape \in [Services -> BOOLEAN]
  BY DEF DataInv, DataTyped, ModeTypeOK
<1> QED BY <1>1, DataFacts DEF ListenersGood, EscapeGood

-----------------------------------------------------------------------------
(* The commands, one lemma for each way that one goes on or ends. *)
LEMMA IdsAre == ASSUME DataInv, phase # "idle" PROVE command.id \in Ids /\ command.n \in Nat /\ command.length \in Nat
BY DataFacts DEF BytesGood

(* An owner without a payload. *)
LEMMA Emptiness ==
    ASSUME NEW l \in Nat \cup {-1}
    PROVE  LET r == [NoPayload EXCEPT !.listener = l] IN
              r \in DataRec /\ ~r.garbled /\ ~r.busy /\ r.listener = l /\ r.buffer = <<>>
<1>1. <<>> \in Seq(Bytes)
  BY EmptySeq
<1>2. /\ NoPayload \in DataRec /\ ~NoPayload.garbled /\ ~NoPayload.busy
      /\ NoPayload.buffer = <<>> /\ NoPayload.listener = -1
  BY <1>1 DEF NoPayload, DataRec
<1> QED BY <1>2 DEF DataRec

LEMMA NotReadyStep == ASSUME DataInv, NotReady PROVE DataInv'
<1>1. /\ phase = "run" /\ ~Ready /\ Finish("ERROR") /\ conns' = conns /\ modes' = modes /\ updating' = updating
      /\ command' = command /\ typed' = typed /\ handed' = handed
  BY DEF NotReady, Executes
<1>2. ~Collecting
  BY <1>1, DataFacts DEF ListenersGood, Registers
<1>3. data' = [data EXCEPT ![Files] = data[Files]] /\ Files \in Owners /\ updating' \in BOOLEAN
  BY <1>1, DataFacts, OwnersApart DEF modes, DataInv, DataTyped, ModeTypeOK
<1>4. listeners' = <<>> /\ iterations' = 0 /\ count' = count /\ escape' = escape
  BY <1>1, <1>2, DataFacts DEF modes, Collecting, BytesGood
<1>5. Transferred' /\ handed'.bytes \in Seq(Bytes) /\ handed'.n \in Nat /\ handed'.n <= command.n
  BY <1>1, NothingHanded
<1> DEFINE r == data[Files]
<1>6. /\ r \in DataRec /\ ~r.garbled /\ ~r.busy /\ (Files = Http => r.listener = -1)
      /\ r.buffer # <<>> => \E i \in Ids : Files = Cip(i) /\ Unreached(i)'
  BY <1>1, <1>2, <1>3, Leftover, ConnsStay
<1>7. /\ conns' \in [Ids -> ConnRec] /\ \A i \in Ids : ConnGood(i)'
      /\ \A i \in Ids : Unreached(i) => Unreached(i)' \/ Files = Cip(i)
  BY <1>1, ConnsStay
<1>8. escape' \in [Services -> BOOLEAN] /\ \A s \in Services : ~escape'[s]
  BY <1>2, <1>4, NobodyEscapes
<1> HIDE DEF r
<1> QED BY <1>1, <1>2, <1>3, <1>4, <1>5, <1>6, <1>7, <1>8, Finishes DEF r

LEMMA EscapedStep == ASSUME DataInv, Escaped PROVE DataInv'
<1> DEFINE o == Owner
           l == IF o = Http /\ Present(data[o].listener) THEN -1 ELSE data[o].listener
           r == [NoPayload EXCEPT !.listener = l]
<1>1. /\ phase = "run" /\ escape[Service(o)] /\ conns' = conns /\ updating' = updating
      /\ command' = command /\ typed' = typed /\ handed' = handed /\ count' = count /\ iterations' = iterations
      /\ escape' = [escape EXCEPT ![Service(o)] = FALSE]
      /\ data' = [data EXCEPT ![o] = r]
      /\ Present(data[o].listener) => listeners' = Without(data[o].listener) /\ Finish("ESCAPED")
  BY DEF Escaped, Executes
<1>2. o \in Owners /\ Service(o) \in Services
  BY <1>1, DataFacts, OwnersApart
<1>3. Collecting /\ command.kind # "fwsend"
  BY <1>1, <1>2, DataFacts DEF ListenersGood, EscapeGood
<1>4. Registers /\ Present(data[o].listener) /\ Without(data[o].listener) = <<>>
  BY <1>1, <1>3, WhoIsPresent
<1>5. listeners' = <<>> /\ iterations' = 0 /\ updating' \in BOOLEAN /\ handed.n < command.n
  BY <1>1, <1>3, <1>4, DataFacts DEF BytesGood, DataInv, DataTyped, ModeTypeOK
<1>6. r \in DataRec /\ ~r.garbled /\ ~r.busy /\ (o = Http => r.listener = -1) /\ r.buffer = <<>>
  <2>1. data[o].listener \in Nat \cup {-1}
    BY <1>2, DataFacts DEF DataRec
  <2>2. l \in Nat \cup {-1} /\ (o = Http => l = -1)
    BY <1>4, <2>1
  <2> HIDE DEF l
  <2> QED BY <2>2, Emptiness
<1>7. escape' \in [Services -> BOOLEAN] /\ \A s \in Services : ~escape'[s]
  <2>1. escape \in [Services -> BOOLEAN] /\ \A s \in Services : escape[s] => s = Service(o)
    BY DataFacts DEF ListenersGood, EscapeGood, DataInv, DataTyped, ModeTypeOK
  <2> QED BY <1>1, <1>2, <2>1
<1>8. Transferred' /\ handed'.bytes \in Seq(Bytes) /\ handed'.n \in Nat /\ handed'.n <= command.n
  BY <1>1, <1>4, <1>5, NothingHanded
<1>9. /\ conns' \in [Ids -> ConnRec] /\ \A i \in Ids : ConnGood(i)'
      /\ \A i \in Ids : Unreached(i) => Unreached(i)' \/ o = Cip(i)
  BY <1>1, ConnsStay
<1> HIDE DEF o, l, r
<1>10. Collecting => o = Owner
  BY DEF o
<1> QED BY <1>1, <1>2, <1>4, <1>5, <1>6, <1>7, <1>8, <1>9, <1>10, Finishes

-----------------------------------------------------------------------------
(* The first k bytes of a buffer. *)
LEMMA UptoIs ==
    ASSUME NEW b \in Seq(Bytes), NEW k \in Nat, k <= Len(b)
    PROVE  /\ Upto(b, k) \in Seq(Bytes) /\ Len(Upto(b, k)) = k
           /\ \A j \in 1 .. k : Upto(b, k)[j] = b[j]
<1>1. Len(b) \in Nat /\ \A j \in 1 .. Len(b) : b[j] \in Bytes
  BY LenProperties, ElementOfSeq
<1>2. Upto(b, k) = SubSeq(b, 1, k)
  BY <1>1 DEF Upto
<1> QED BY <1>1, <1>2, SubSeqProperties

(* What is still to come of a payload. *)
LEMMA RemainingIs ==
    ASSUME DataInv, phase # "idle"
    PROVE  /\ Remaining \in Int /\ Remaining = command.length - Done
           /\ Done \in Nat /\ (iterations = 0 => Done = 0)
           /\ Collecting => Remaining > 0
<1>1. iterations \in Nat /\ BufferSize \in Nat /\ Done \in Nat /\ command.length \in Nat
  BY DataFacts
<1>2. iterations = 0 => Done = 0
  BY <1>1 DEF Done
<1>3. Remaining = command.length - Done
  <2>1. CASE command.kind = "fwsend"
    BY <2>1 DEF Remaining, Done
  <2>2. CASE command.kind # "fwsend"
    BY <1>1, <1>2, <2>2, DataFacts DEF Remaining, BytesGood
  <2> QED BY <2>1, <2>2
<1>4. Collecting => Remaining > 0
  BY DataFacts DEF ListenersGood, Registers
<1> QED BY <1>1, <1>2, <1>3, <1>4

LEMMA Behind ==
    ASSUME NEW s \in Seq(Bytes), NEW t \in Seq(Bytes)
    PROVE  /\ s \o t \in Seq(Bytes) /\ Len(s \o t) = Len(s) + Len(t)
           /\ \A i \in 1 .. Len(s) + Len(t) : (s \o t)[i] = IF i <= Len(s) THEN s[i] ELSE t[i - Len(s)]
BY ConcatProperties

(* What a command hands over comes after what it has handed over before, and was typed for it. *)
LEMMA HandsOver ==
    ASSUME DataInv, phase = "run", Collecting, command.kind = "cipsend" => conns[command.id].protocol,
           NEW k \in Nat, k <= Len(data[Owner].buffer), HandOver(Upto(data[Owner].buffer, k))
    PROVE  /\ handed'.n = command.n /\ handed'.bytes \in Seq(Bytes) /\ Len(handed'.bytes) = Done + k
           /\ HandedExactly'
<1> DEFINE b == data[Owner].buffer
           p == IF handed.n = command.n THEN handed.bytes ELSE <<>>
           u == Upto(b, k)
<1>1. b \in Seq(Bytes) /\ OwnBytes /\ Done \in Nat /\ handed.bytes \in Seq(Bytes) /\ handed.n \in Nat /\ command.n \in Nat
  <2>1. Owner \in Owners
    BY DataFacts
  <2>2. b \in Seq(Bytes)
    BY <2>1, DataFacts DEF DataRec
  <2>3. OwnBytes
    BY DataFacts DEF BytesGood
  <2>4. handed.bytes \in Seq(Bytes)
    BY DEF DataInv, DataTyped, ModeTypeOK
  <2> QED BY <2>2, <2>3, <2>4, DataFacts
<1>2. u \in Seq(Bytes) /\ Len(u) = k /\ \A j \in 1 .. k : u[j] = <<command.n, Done + j>>
  <2>1. u \in Seq(Bytes) /\ Len(u) = k /\ \A j \in 1 .. k : u[j] = b[j]
    BY <1>1, UptoIs
  <2>2. \A j \in 1 .. k : j \in 1 .. Len(b)
    BY <1>1, LenProperties
  <2> QED BY <1>1, <2>1, <2>2 DEF OwnBytes
<1>3. p \in Seq(Bytes) /\ Len(p) = Done /\ \A j \in 1 .. Len(p) : p[j] = <<command.n, j>>
  <2>1. CASE iterations = 0
    <3>1. p = <<>> /\ Done = 0
      BY <1>1, <2>1, DataFacts, RemainingIs DEF BytesGood
    <3>2. p \in Seq(Bytes) /\ Len(p) = 0
      BY <3>1, EmptySeq
    <3> HIDE DEF p
    <3> QED BY <3>1, <3>2
  <2>2. CASE iterations # 0
    <3>1. iterations > 0
      BY <2>2, DataFacts
    <3>2. handed.n = command.n /\ Len(handed.bytes) = Done
      BY <3>1, DataFacts DEF BytesGood
    <3>3. \A j \in 1 .. Len(handed.bytes) : handed.bytes[j] = <<handed.n, j>>
      BY DataFacts DEF Transferred, HandedExactly
    <3> QED BY <1>1, <3>2, <3>3
  <2> QED BY <2>1, <2>2
<1>4. handed' = [n |-> command.n, bytes |-> p \o u]
  BY DEF HandOver
<1> HIDE DEF b, p, u
<1>5. /\ p \o u \in Seq(Bytes) /\ Len(p \o u) = Done + k
      /\ \A i \in 1 .. Len(p) + Len(u) : (p \o u)[i] = IF i <= Len(p) THEN p[i] ELSE u[i - Len(p)]
  <2>1. p \in Seq(Bytes) /\ u \in Seq(Bytes) /\ Len(p) = Done /\ Len(u) = k
    BY <1>2, <1>3
  <2>2. /\ p \o u \in Seq(Bytes) /\ Len(p \o u) = Len(p) + Len(u)
        /\ \A i \in 1 .. Len(p) + Len(u) : (p \o u)[i] = IF i <= Len(p) THEN p[i] ELSE u[i - Len(p)]
    BY <2>1, Behind
  <2> QED BY <2>1, <2>2
<1>6. ASSUME NEW j \in 1 .. Len(p \o u)
      PROVE  (p \o u)[j] = <<command.n, j>>
  <2>1. j \in 1 .. Len(p) + Len(u) /\ j \in Int
    BY <1>2, <1>3, <1>5
  <2>2. CASE j <= Len(p)
    BY <1>1, <1>3, <1>5, <2>1, <2>2
  <2>3. CASE ~(j <= Len(p))
    <3>1. j - Done \in 1 .. k /\ Done + (j - Done) = j
      BY <1>1, <1>2, <1>3, <2>1, <2>3
    <3>2. (p \o u)[j] = u[j - Done]
      BY <1>3, <1>5, <2>1, <2>3
    <3> QED BY <1>2, <3>1, <3>2
  <2> QED BY <2>2, <2>3
<1> QED BY <1>4, <1>5, <1>6 DEF HandedExactly

(* A payload that is complete is handed over as a whole. *)
LEMMA Delivers ==
    ASSUME DataInv, phase = "run", Collecting, Len(data[Owner].buffer) >= Remaining,
           command.kind = "cipsend" => conns[command.id].protocol, HandOver(Upto(data[Owner].buffer, Remaining))
    PROVE  /\ handed'.n = command.n /\ handed'.bytes \in Seq(Bytes) /\ Len(handed'.bytes) = command.length
           /\ HandedExactly'
<1> DEFINE k == Remaining
<1>1. k \in Nat /\ k <= Len(data[Owner].buffer) /\ Done + k = command.length
  <2>1. Owner \in Owners /\ command.length \in Nat
    BY DataFacts
  <2>2. data[Owner].buffer \in Seq(Bytes)
    BY <2>1, DataFacts DEF DataRec
  <2>3. Len(data[Owner].buffer) \in Nat
    BY <2>2, LenProperties
  <2> QED BY <2>1, <2>3, RemainingIs
<1> HIDE DEF k
<1> QED BY <1>1, HandsOver DEF k

(* A command that has delivered is answered, with OK or with an error that came after. *)
LEMMA Answered ==
    ASSUME DataInv, NEW result \in {"OK", "ERROR"}, Finish(result), handed'.n = command.n, handed'.bytes \in Seq(Bytes),
           Len(handed'.bytes) = command.length, HandedExactly'
    PROVE  Transferred' /\ handed'.bytes \in Seq(Bytes) /\ handed'.n \in Nat /\ handed'.n <= command.n
<1>1. reply' = [kind |-> command.kind, length |-> command.length, n |-> command.n, result |-> result]
  BY DEF Finish
<1>2. command.n \in Nat
  BY DataFacts
<1>3. AllDelivered' /\ EscapedSendsNothing'
  BY <1>1 DEF AllDelivered, EscapedSendsNothing
<1> QED BY <1>2, <1>3 DEF Transferred

LEMMA CollectedRaisesStep == ASSUME DataInv, CollectedRaises PROVE DataInv'
<1> DEFINE o == Owner
           b == data[o].buffer
           r == [data[o] EXCEPT !.buffer = Upto(b, Remaining)]
<1>1. /\ phase = "run" /\ ~escape[Service(o)] /\ conns' = conns /\ updating' = updating /\ listeners' = listeners
      /\ command' = command /\ typed' = typed /\ handed' = handed /\ count' = count /\ iterations' = iterations
      /\ escape' = escape /\ data' = [data EXCEPT ![o] = r] /\ Finish("ERROR")
      /\ ~Present(data[o].listener) /\ Len(b) >= Remaining
  BY DEF CollectedRaises, Collected, Executes
<1>2. o \in Owners /\ ~Collecting
  BY <1>1, DataFacts, WhoIsPresent
<1>3. listeners' = <<>> /\ iterations' = 0 /\ updating' \in BOOLEAN
  BY <1>1, <1>2, DataFacts DEF Collecting, BytesGood, DataInv, DataTyped, ModeTypeOK
<1>4. /\ data[o] \in DataRec /\ ~data[o].garbled /\ ~data[o].busy /\ (o = Http => data[o].listener = -1)
      /\ b # <<>> => \E i \in Ids : o = Cip(i) /\ Unreached(i)
  BY <1>2, Leftover
<1>5. Upto(b, Remaining) \in Seq(Bytes) /\ (b = <<>> => Upto(b, Remaining) = <<>>)
  <2> DEFINE k == Remaining
  <2>1. b \in Seq(Bytes)
    BY <1>4 DEF DataRec
  <2>2. k \in Nat /\ k <= Len(b) /\ Len(b) \in Nat
    <3>1. command.length \in Nat
      BY DataFacts
    <3>2. iterations = 0
      BY <1>2, DataFacts DEF BytesGood
    <3>3. k = command.length
      BY <1>1, <3>1, <3>2, RemainingIs
    <3>4. Len(b) \in Nat
      BY <2>1, LenProperties
    <3> QED BY <1>1, <3>1, <3>3, <3>4
  <2> HIDE DEF b, k
  <2>3. Upto(b, k) \in Seq(Bytes) /\ Len(Upto(b, k)) = k
    BY <2>1, <2>2, UptoIs
  <2>4. ASSUME b = <<>>
        PROVE  Upto(b, k) = <<>>
    <3>1. k = 0
      BY <2>2, <2>4
    <3> QED BY <2>3, <3>1, EmptySeq
  <2> QED BY <2>3, <2>4 DEF k
<1> DEFINE u == Upto(b, Remaining)
<1>6. /\ r \in DataRec /\ ~r.garbled /\ ~r.busy /\ (o = Http => r.listener = -1)
      /\ r.buffer # <<>> => \E i \in Ids : o = Cip(i) /\ Unreached(i)'
  <2> HIDE DEF u, o
  <2>1. r = [data[o] EXCEPT !.buffer = u]
    BY DEF u
  <2>2. u \in Seq(Bytes) /\ (b = <<>> => u = <<>>)
    BY <1>5 DEF u
  <2>3. r \in DataRec /\ r.garbled = data[o].garbled /\ r.busy = data[o].busy /\ r.listener = data[o].listener /\ r.buffer = u
    BY <1>4, <2>1, <2>2 DEF DataRec
  <2>4. \A i \in Ids : Unreached(i) => Unreached(i)'
    BY <1>1, ConnsStay
  <2> HIDE DEF r, b
  <2> QED BY <1>4, <2>2, <2>3, <2>4
<1>7. escape' \in [Services -> BOOLEAN] /\ \A s \in Services : ~escape'[s]
  BY <1>1, <1>2, NobodyEscapes
<1>8. Transferred' /\ handed'.bytes \in Seq(Bytes) /\ handed'.n \in Nat /\ handed'.n <= command.n
  BY <1>1, NothingHanded
<1>9. /\ conns' \in [Ids -> ConnRec] /\ \A i \in Ids : ConnGood(i)'
      /\ \A i \in Ids : Unreached(i) => Unreached(i)' \/ o = Cip(i)
  BY <1>1, ConnsStay
<1> HIDE DEF o, r, b, u
<1> QED BY <1>1, <1>2, <1>3, <1>6, <1>7, <1>8, <1>9, Finishes

(* A listener that is deregistered was the only one. *)
LEMMA Gone ==
    ASSUME DataInv, phase = "run", Deregistered, Deregisters
    PROVE  /\ Collecting /\ Registers /\ Owner \in Owners /\ listeners' = <<>>
           /\ Len(data[Owner].buffer) >= Remaining
           /\ escape' \in [Services -> BOOLEAN] /\ \A s \in Services : ~escape'[s]
           /\ conns' = conns /\ command' = command /\ typed' = typed /\ count' = count
<1>1. /\ Present(data[Owner].listener) /\ listeners' = Without(data[Owner].listener) /\ ~escape[Service(Owner)]
      /\ conns' = conns /\ command' = command /\ typed' = typed /\ count' = count /\ escape' = escape
      /\ Len(data[Owner].buffer) >= Remaining
  BY DEF Deregistered, Collected
<1>2. data[Owner].listener \in Int
  BY DataFacts DEF DataRec
<1>3. Collecting
  BY <1>1, <1>2, WhoIsPresent
<1>4. escape' \in [Services -> BOOLEAN] /\ \A s \in Services : ~escape'[s]
  BY <1>1, OnlyOwnerEscapes
<1> QED BY <1>1, <1>3, <1>4, WhoIsPresent

(* What Emptied leaves of an owner. *)
LEMMA EmptiedIs ==
    ASSUME DataInv, NEW o \in Owners
    PROVE  Emptied(o) \in DataRec /\ ~Emptied(o).garbled /\ ~Emptied(o).busy /\ (o = Http => Emptied(o).listener = -1)
           /\ Emptied(o).buffer = <<>>
<1> DEFINE l == IF o = Http THEN -1 ELSE data[o].listener
<1>1. data[o].listener \in Nat \cup {-1}
  BY DataFacts DEF DataRec
<1>2. l \in Nat \cup {-1} /\ (o = Http => l = -1)
  BY <1>1
<1>3. Emptied(o) = [NoPayload EXCEPT !.listener = l]
  BY DEF Emptied
<1> HIDE DEF l
<1> QED BY <1>2, <1>3, Emptiness

LEMMA SendWrittenStep == ASSUME DataInv, SendWritten PROVE DataInv'
<1> DEFINE o == Owner
<1>1. phase = "run" /\ command.kind = "cipsend" /\ Deregistered /\ iterations' = iterations /\ updating' = updating
  BY DEF SendWritten, Deregistered, Collected, Executes
<1>2. o = Cip(command.id) /\ command.id \in Ids /\ o # Http
  BY <1>1, IdsAre, OwnerIs, OwnersApart
<1>3. Deregisters
  BY <1>2 DEF Deregisters
<1>4. /\ Collecting /\ Registers /\ o \in Owners /\ listeners' = <<>> /\ Len(data[o].buffer) >= Remaining
      /\ escape' \in [Services -> BOOLEAN] /\ \A s \in Services : ~escape'[s]
      /\ conns' = conns /\ command' = command /\ typed' = typed /\ count' = count
  BY <1>1, <1>3, Gone
<1>5. iterations' = 0 /\ updating' \in BOOLEAN
  BY <1>1, DataFacts DEF BytesGood, DataInv, DataTyped, ModeTypeOK
<1>6. /\ conns' \in [Ids -> ConnRec] /\ \A i \in Ids : ConnGood(i)'
      /\ \A i \in Ids : (Unreached(i)' <=> Unreached(i))
  BY <1>1, <1>4, ConnsStay
<1>7. CASE /\ conns[command.id].protocol /\ HandOver(Upto(data[Owner].buffer, Remaining))
           /\ data' = [data EXCEPT ![Owner] = Emptied(Owner)] /\ Finish("OK")
  <2> DEFINE r == Emptied(o)
  <2>1. r \in DataRec /\ ~r.garbled /\ ~r.busy /\ (o = Http => r.listener = -1) /\ r.buffer = <<>>
    BY <1>4, EmptiedIs
  <2>2. Transferred' /\ handed'.bytes \in Seq(Bytes) /\ handed'.n \in Nat /\ handed'.n <= command.n
    BY <1>1, <1>4, <1>7, Delivers, Answered
  <2>3. data' = [data EXCEPT ![o] = r] /\ Finish("OK") /\ (Collecting => o = Owner)
    BY <1>7
  <2> HIDE DEF o, r
  <2> QED BY <1>1, <1>4, <1>5, <1>6, <2>1, <2>2, <2>3, Finishes
<1>8. CASE /\ ~conns[command.id].protocol
           /\ data' = [data EXCEPT ![Owner].buffer = Upto(@, Remaining), ![Owner].busy = FALSE]
           /\ Finish("ERROR") /\ UNCHANGED handed
  <2> DEFINE u == Upto(data[o].buffer, Remaining)
             r == [data[o] EXCEPT !.buffer = u, !.busy = FALSE]
  <2>1. data[o] \in DataRec /\ ~data[o].garbled
    BY <1>4, DataFacts DEF OwnersGood, OwnerGood
  <2>2. u \in Seq(Bytes)
    <3> DEFINE b == data[o].buffer
               k == Remaining
    <3>1. b \in Seq(Bytes)
      BY <2>1 DEF DataRec
    <3>2. k \in Nat /\ k <= Len(b)
      <4>1. Len(b) \in Nat /\ k \in Int /\ k > 0
        BY <1>1, <1>4, <3>1, LenProperties, RemainingIs
      <4> QED BY <1>4, <4>1
    <3> HIDE DEF b, k
    <3> QED BY <3>1, <3>2, UptoIs DEF b, k
  <2> HIDE DEF u
  <2>3. r \in DataRec /\ r.garbled = data[o].garbled /\ r.busy = FALSE
    BY <2>1, <2>2 DEF DataRec
  <2>4. \E i \in Ids : o = Cip(i) /\ Unreached(i)'
    <3>1. conns[command.id].connected
      BY <1>1, <1>4 DEF Registers, Ready
    <3>3. conns[command.id].pending = 0
      BY <1>1, <1>2, NothingPends
    <3>4. Unreached(command.id)
      BY <1>8, <3>1, <3>3 DEF Unreached
    <3> QED BY <1>2, <1>6, <3>4
  <2>5. Transferred' /\ handed'.bytes \in Seq(Bytes) /\ handed'.n \in Nat /\ handed'.n <= command.n
    BY <1>8, NothingHanded
  <2>6. data' = [data EXCEPT ![o] = r]
    BY <1>4, <1>8, <2>1, DataFacts DEF u, DataRec
  <2>7. Finish("ERROR") /\ (Collecting => o = Owner)
    BY <1>8
  <2> HIDE DEF o, r
  <2> QED BY <1>1, <1>2, <1>4, <1>5, <1>6, <2>1, <2>3, <2>4, <2>5, <2>6, <2>7, Finishes
<1> QED BY <1>7, <1>8 DEF SendWritten

LEMMA HttpRequestedStep == ASSUME DataInv, Steady, HttpRequested PROVE DataInv'
<1> DEFINE o == Http
           r == Emptied(o)
<1>1. /\ phase = "run" /\ command.kind = "httpexe" /\ Deregistered /\ iterations' = iterations /\ updating' = updating
      /\ HandOver(Upto(data[o].buffer, Remaining)) /\ data' = [data EXCEPT ![o] = r]
  BY DEF HttpRequested, Deregistered, Collected, Executes
<1>0. PICK result \in {"OK", "ERROR"} : Finish(result)
  BY DEF HttpRequested
<1>2. o = Owner /\ o \in Owners
  BY <1>1, OwnerIs, OwnersApart
<1>3. /\ conns' = conns /\ command' = command /\ typed' = typed /\ count' = count /\ escape' = escape
      /\ ~escape[Service(Owner)] /\ Len(data[o].buffer) >= Remaining
  BY <1>1, <1>2 DEF Deregistered, Collected
<1>4. iterations' = 0 /\ updating' \in BOOLEAN
  BY <1>1, DataFacts DEF BytesGood, DataInv, DataTyped, ModeTypeOK
<1>5. /\ conns' \in [Ids -> ConnRec] /\ \A i \in Ids : ConnGood(i)'
      /\ \A i \in Ids : (Unreached(i)' <=> Unreached(i))
  BY <1>1, <1>3, ConnsStay
<1>6. r \in DataRec /\ ~r.garbled /\ ~r.busy /\ (o = Http => r.listener = -1) /\ r.buffer = <<>>
  BY <1>2, EmptiedIs
<1>7. escape' \in [Services -> BOOLEAN] /\ \A s \in Services : ~escape'[s]
  BY <1>1, <1>3, OnlyOwnerEscapes
<1>8. listeners' = <<>> /\ handed'.n = command.n /\ handed'.bytes \in Seq(Bytes)
      /\ Len(handed'.bytes) = command.length /\ HandedExactly'
  <2>1. CASE Deregisters
    <3>1. Collecting /\ listeners' = <<>>
      BY <1>1, <2>1, Gone
    <3> QED BY <1>1, <1>2, <1>3, <3>1, Delivers
  <2>2. CASE ~Deregisters
    <3>1. ~Collecting /\ listeners' = listeners
      BY <1>1, <1>2, <2>2, DataFacts DEF Deregisters, Deregistered, ListenersGood, Registers
    <3>2. data[o].buffer = <<>>
      BY <1>2, <3>1, Leftover, OwnersApart
    <3>3. Remaining = 0 /\ command.length = 0
      <4>1. Done = 0 /\ command.length \in Nat /\ Len(<<>>) = 0
        BY <1>1, DataFacts, RemainingIs DEF BytesGood
      <4>2. Remaining = command.length - 0
        BY <1>1, <4>1, RemainingIs
      <4> QED BY <1>3, <3>2, <4>1, <4>2
    <3>4. Upto(<<>>, 0) = <<>>
      <4> DEFINE e == <<>>
      <4>1. e \in Seq(Bytes) /\ 0 \in Nat /\ 0 <= Len(e)
        BY EmptySeq
      <4> HIDE DEF e
      <4>2. Upto(e, 0) \in Seq(Bytes) /\ Len(Upto(e, 0)) = 0
        BY <4>1, UptoIs
      <4> QED BY <4>2, EmptySeq DEF e
    <3>5. handed.n # command.n
      <4>1. handed.n < command.n /\ handed.n \in Nat /\ command.n \in Nat
        BY <1>1, DataFacts DEF BytesGood
      <4> QED BY <4>1
    <3>6. handed' = [n |-> command.n, bytes |-> <<>>]
      BY <1>1, <3>2, <3>3, <3>4, <3>5, EmptySeq DEF HandOver
    <3> QED BY <3>1, <3>3, <3>6, EmptySeq DEF Collecting, HandedExactly
  <2> QED BY <2>1, <2>2
<1>9. Transferred' /\ handed'.bytes \in Seq(Bytes) /\ handed'.n \in Nat /\ handed'.n <= command.n
  BY <1>0, <1>1, <1>8, Answered
<1>10. Collecting => o = Owner
  BY <1>2
<1> HIDE DEF o, r
<1> QED BY <1>0, <1>1, <1>2, <1>3, <1>4, <1>5, <1>6, <1>7, <1>8, <1>9, <1>10, Finishes

LEMMA LastPartSentStep == ASSUME DataInv, LastPartSent PROVE DataInv'
<1> DEFINE o == Files
           r == Emptied(o)
<1>1. /\ phase = "run" /\ command.kind = "fwsend" /\ Deregistered /\ iterations' = 0
      /\ HandOver(Upto(data[o].buffer, Remaining)) /\ data' = [data EXCEPT ![o] = r]
      /\ updating' = FALSE \/ updating' = updating
  BY DEF LastPartSent, Deregistered, Collected, Executes
<1>0. PICK result \in {"OK", "ERROR"} : Finish(result)
  BY DEF LastPartSent
<1>2. o = Owner /\ Deregisters
  BY <1>1, OwnerIs, OwnersApart DEF Deregisters
<1>3. /\ Collecting /\ o \in Owners /\ listeners' = <<>> /\ Len(data[o].buffer) >= Remaining
      /\ escape' \in [Services -> BOOLEAN] /\ \A s \in Services : ~escape'[s]
      /\ conns' = conns /\ command' = command /\ typed' = typed /\ count' = count
  BY <1>1, <1>2, Gone
<1>4. /\ conns' \in [Ids -> ConnRec] /\ \A i \in Ids : ConnGood(i)'
      /\ \A i \in Ids : (Unreached(i)' <=> Unreached(i))
  BY <1>1, <1>3, ConnsStay
<1>5. r \in DataRec /\ ~r.garbled /\ ~r.busy /\ (o = Http => r.listener = -1) /\ r.buffer = <<>>
  BY <1>3, EmptiedIs
<1>6. Transferred' /\ handed'.bytes \in Seq(Bytes) /\ handed'.n \in Nat /\ handed'.n <= command.n
  <2>1. /\ handed'.n = command.n /\ handed'.bytes \in Seq(Bytes) /\ Len(handed'.bytes) = command.length
        /\ HandedExactly'
    BY <1>1, <1>2, <1>3, Delivers
  <2> QED BY <1>0, <2>1, Answered
<1>7. (Collecting => o = Owner) /\ updating' \in BOOLEAN
  BY <1>1, <1>2 DEF DataInv, DataTyped, ModeTypeOK
<1> HIDE DEF o, r
<1> QED BY <1>0, <1>1, <1>3, <1>4, <1>5, <1>6, <1>7, Finishes

(* A last part that is refused and was the only one leaves nothing. *)
LEMMA LastPartRefusedStep == ASSUME DataInv, LastPartRefused, iterations = 0 PROVE DataInv'
<1> DEFINE o == Files
           r == Emptied(o)
<1>1. /\ phase = "run" /\ command.kind = "fwsend" /\ Deregistered /\ iterations' = iterations /\ updating' = updating
      /\ handed' = handed /\ data' = [data EXCEPT ![o] = r] /\ Finish("ERROR")
  BY DEF LastPartRefused, Deregistered, Collected, Executes
<1>2. o = Owner /\ Deregisters
  BY <1>1, OwnerIs, OwnersApart DEF Deregisters
<1>3. /\ Collecting /\ o \in Owners /\ listeners' = <<>>
      /\ escape' \in [Services -> BOOLEAN] /\ \A s \in Services : ~escape'[s]
      /\ conns' = conns /\ command' = command /\ typed' = typed /\ count' = count
  BY <1>1, <1>2, Gone
<1>4. /\ conns' \in [Ids -> ConnRec] /\ \A i \in Ids : ConnGood(i)'
      /\ \A i \in Ids : (Unreached(i)' <=> Unreached(i))
  BY <1>1, <1>3, ConnsStay
<1>5. r \in DataRec /\ ~r.garbled /\ ~r.busy /\ (o = Http => r.listener = -1) /\ r.buffer = <<>>
  BY <1>3, EmptiedIs
<1>6. Transferred' /\ handed'.bytes \in Seq(Bytes) /\ handed'.n \in Nat /\ handed'.n <= command.n
  BY <1>1, NothingHanded
<1>7. (Collecting => o = Owner) /\ updating' \in BOOLEAN /\ iterations' = 0
  BY <1>1, <1>2 DEF DataInv, DataTyped, ModeTypeOK
<1> HIDE DEF o, r
<1> QED BY <1>1, <1>3, <1>4, <1>5, <1>6, <1>7, Finishes

(* No character beyond ASCII is collected for a request, and no request fails. *)
LEMMA HttpNeverFails == ASSUME DataInv, Steady, HttpFails PROVE FALSE
<1> DEFINE b == data[Http].buffer
           k == Remaining
<1>1. phase = "run" /\ command.kind = "httpexe" /\ Len(b) >= k /\ Wide(Upto(b, k)) /\ Owner = Http
  BY OwnerIs DEF HttpFails, Deregistered, Collected, Executes, Steady
<1>2. b \in Seq(Bytes) /\ Len(b) \in Nat /\ Http \in Owners
  <2>1. b \in Seq(Bytes)
    BY DataFacts, OwnersApart DEF DataRec
  <2> QED BY <2>1, LenProperties, OwnersApart
<1>3. k \in Nat /\ k <= Len(b) /\ Done = 0
  <2>1. iterations = 0 /\ command.length \in Nat
    BY <1>1, DataFacts DEF BytesGood
  <2>2. Done = 0 /\ k = command.length - Done
    BY <1>1, <2>1, RemainingIs
  <2> QED BY <1>1, <1>2, <2>1, <2>2
<1> HIDE DEF k
<1>4. \A j \in 1 .. Len(b) : b[j] = <<command.n, 0 + j>>
  <2>1. CASE Collecting
    BY <1>1, <1>3, <2>1, DataFacts DEF BytesGood, OwnBytes
  <2>2. CASE ~Collecting
    <3>1. b = <<>>
      BY <1>2, <2>2, Leftover, OwnersApart
    <3> HIDE DEF b
    <3> QED BY <3>1
  <2> QED BY <2>1, <2>2
<1> HIDE DEF b
<1>5. Len(Upto(b, k)) = k /\ \A j \in 1 .. k : Upto(b, k)[j] = b[j]
  BY <1>2, <1>3, UptoIs
<1>6. PICK j \in 1 .. k : Upto(b, k)[j][2] = 0
  BY <1>1, <1>5 DEF Wide
<1>7. Upto(b, k)[j] = <<command.n, 0 + j>>
  BY <1>2, <1>3, <1>4, <1>5
<1> QED BY <1>3, <1>6, <1>7

(* AT+FILESUP ends when the file is stored. *)
LEMMA FileStoredStep == ASSUME DataInv, FileStored PROVE DataInv'
<1>1. /\ phase = "store" /\ conns' = conns /\ modes' = modes /\ updating' = updating
      /\ command' = command /\ typed' = typed /\ handed' = handed
  BY DEF FileStored
<1>2. PICK result \in {"OK", "ERROR"} : Finish(result)
  BY DEF FileStored
<1>3. ~Collecting
  BY <1>1, DataFacts DEF ListenersGood
<1>4. data' = [data EXCEPT ![Files] = data[Files]] /\ Files \in Owners /\ updating' \in BOOLEAN
  BY <1>1, DataFacts, OwnersApart DEF modes, DataInv, DataTyped, ModeTypeOK
<1>5. listeners' = <<>> /\ iterations' = 0 /\ count' = count /\ escape' = escape
  BY <1>1, <1>3, DataFacts DEF modes, Collecting, BytesGood
<1>6. handed.n = command.n /\ handed.bytes \in Seq(Bytes) /\ Len(handed.bytes) = command.length /\ HandedExactly
  BY <1>1, DataFacts DEF BytesGood, DataInv, DataTyped, ModeTypeOK, Transferred
<1>7. Transferred' /\ handed'.bytes \in Seq(Bytes) /\ handed'.n \in Nat /\ handed'.n <= command.n
  <2>1. CASE result = "OK"
    BY <1>1, <1>2, <1>6, <2>1, Answered DEF HandedExactly
  <2>2. CASE result = "ERROR"
    BY <1>1, <1>2, <2>2, NothingHanded
  <2> QED BY <2>1, <2>2
<1> DEFINE r == data[Files]
<1>8. /\ r \in DataRec /\ ~r.garbled /\ ~r.busy /\ (Files = Http => r.listener = -1)
      /\ r.buffer # <<>> => \E i \in Ids : Files = Cip(i) /\ Unreached(i)'
  BY <1>1, <1>3, <1>4, Leftover, ConnsStay
<1>9. /\ conns' \in [Ids -> ConnRec] /\ \A i \in Ids : ConnGood(i)'
      /\ \A i \in Ids : Unreached(i) => Unreached(i)' \/ Files = Cip(i)
  BY <1>1, ConnsStay
<1>10. escape' \in [Services -> BOOLEAN] /\ \A s \in Services : ~escape'[s]
  BY <1>3, <1>5, NobodyEscapes
<1> HIDE DEF r
<1> QED BY <1>1, <1>2, <1>3, <1>4, <1>5, <1>7, <1>8, <1>9, <1>10, Finishes DEF r

-----------------------------------------------------------------------------
(* One connection changes. *)
LEMMA OneConnects ==
    ASSUME DataInv, NEW i \in Ids, NEW c \in ConnRec, conns' = [conns EXCEPT ![i] = c], command' = command,
           phase = "idle" => phase' = "idle", phase = "dial" => phase' = "dial" \/ command.id = i,
           c.pending > 0 => phase' = "idle" /\ c.connected /\ c.type = "udp" /\ c.pending = 1,
           c.protocol => c.connected \/ (phase' = "dial" /\ command.id = i)
    PROVE  /\ conns' \in [Ids -> ConnRec] /\ conns'[i] = c
           /\ \A j \in Ids : ConnGood(j)'
           /\ \A j \in Ids : j # i => conns'[j] = conns[j] /\ (Unreached(j) <=> Unreached(j)')
<1>1. /\ conns' \in [Ids -> ConnRec] /\ conns'[i] = c
      /\ \A j \in Ids : j # i => conns'[j] = conns[j]
  BY DataFacts
<1>2. ConnGood(i)'
  BY <1>1 DEF ConnGood
<1>3. ASSUME NEW j \in Ids, j # i
      PROVE  ConnGood(j)' /\ (Unreached(j) <=> Unreached(j)')
  <2>1. conns'[j] = conns[j] /\ ConnGood(j)
    BY <1>1, <1>3, DataFacts DEF ConnsGood
  <2> QED BY <1>3, <2>1 DEF ConnGood, Unreached
<1> QED BY <1>1, <1>2, <1>3

(* A closed connection, and an owner that was cleared. *)
LEMMA Cleared ==
    /\ NoPayload \in DataRec /\ ~NoPayload.garbled /\ ~NoPayload.busy /\ NoPayload.listener = -1
    /\ NoPayload.buffer = <<>>
BY EmptySeq DEF NoPayload, DataRec

LEMMA ClosedIs ==
    ASSUME NEW c \in ConnRec
    PROVE  /\ Closed(c) \in ConnRec /\ ~Closed(c).connected /\ ~Closed(c).protocol
           /\ Closed(c).pending = c.pending
<1> DEFINE n == c.pending
           z == NoEndpoint
           m == 0 .. MaxCommands
<1>1. n \in m
  BY DEF ConnRec
<1>2. 0 \in m
  BY BoundsAssumption
<1> HIDE DEF n, m
<1>3. z.connected = FALSE /\ z.protocol = FALSE
  BY DEF NoEndpoint
<1>4. z \in [connected : BOOLEAN, type : {"", "udp", "tcp", "ssl"}, ssl : BOOLEAN, protocol : BOOLEAN, pending : m]
  BY <1>2 DEF NoEndpoint
<1>5. Closed(c) = [z EXCEPT !.pending = n]
  BY DEF Closed, n
<1> HIDE DEF z
<1>6. /\ Closed(c) \in [connected : BOOLEAN, type : {"", "udp", "tcp", "ssl"}, ssl : BOOLEAN, protocol : BOOLEAN, pending : m]
      /\ Closed(c).connected = FALSE /\ Closed(c).protocol = FALSE /\ Closed(c).pending = n
  BY <1>1, <1>3, <1>4, <1>5
<1> QED BY <1>6 DEF n, m, ConnRec

(* Connections change while a command goes on, or none runs. *)
LEMMA GoesOn ==
    ASSUME DataInv, conns' \in [Ids -> ConnRec], \A i \in Ids : ConnGood(i)',
           command' = command, typed' = typed, count' = count, escape' = escape, listeners' = listeners,
           iterations' = iterations, handed' = handed, reply' = reply, updating' \in BOOLEAN,
           phase' = phase \/ (phase = "run" /\ ~Collecting /\ phase' = "dial"),
           phase' = "dial" => command.kind = "cipstart" /\ ~conns'[command.id].connected,
           NEW o \in Owners, NEW r \in DataRec, data' = [data EXCEPT ![o] = r], ~Collecting \/ o # Owner,
           ~r.garbled, ~r.busy, o = Http => r.listener = -1,
           r.buffer # <<>> => \E i \in Ids : o = Cip(i) /\ Unreached(i)',
           \A i \in Ids : Unreached(i) => Unreached(i)' \/ o = Cip(i),
           Collecting => updating' = updating /\ (command.kind = "cipsend" => conns'[command.id] = conns[command.id])
    PROVE  DataInv'
<1>1. data' \in [Owners -> DataRec] /\ data'[o] = r /\ \A p \in Owners : p # o => data'[p] = data[p]
  BY DataFacts
<1>2. Owner' = Owner /\ (Collecting' <=> Collecting) /\ Done' = Done /\ Remaining' = Remaining
  BY DEF Owner, Collecting, Done, Remaining
<1>3. DataTyped'
  <2>1. phase' \in {"idle", "run", "data", "dial", "store"}
    BY DEF DataInv, DataTyped, ModeTypeOK
  <2>2. /\ listeners \in Seq(Owners) /\ escape \in [Services -> BOOLEAN] /\ count \in [Services -> 0 .. 2]
        /\ iterations \in Nat /\ command.kind \in Kinds \cup {"none"} /\ command.n \in 0 .. MaxCommands
        /\ typed \in 0 .. MaxTyped /\ handed.bytes \in Seq(Bytes) /\ reply.result \in DataResults
    BY DEF DataInv, DataTyped, ModeTypeOK
  <2>3. command.length \in Nat /\ handed.n \in Nat /\ reply.n \in Nat /\ reply.length \in Nat
    BY DEF DataInv, DataTyped
  <2> QED BY <1>1, <2>1, <2>2, <2>3 DEF DataTyped, ModeTypeOK, ConnRec, DataRec
<1>4. ConnsGood'
  BY DEF ConnsGood
<1>5. OwnersGood'
  <2> SUFFICES ASSUME NEW p \in Owners
               PROVE  OwnerGood(p)'
    BY DEF OwnersGood
  <2>1. CASE p = o
    BY <1>1, <1>2, <2>1 DEF OwnerGood
  <2>2. CASE p # o
    <3>1. OwnerGood(p) /\ data'[p] = data[p]
      BY <1>1, <2>2, DataFacts DEF OwnersGood
    <3>2. ASSUME data[p].buffer # <<>>
          PROVE  (Collecting /\ p = Owner) \/ \E i \in Ids : p = Cip(i) /\ Unreached(i)'
      <4>1. CASE Collecting /\ p = Owner
        BY <4>1
      <4>2. CASE \E i \in Ids : p = Cip(i) /\ Unreached(i)
        <5>1. PICK i \in Ids : p = Cip(i) /\ Unreached(i)
          BY <4>2
        <5> QED BY <2>2, <5>1
      <4> QED BY <3>1, <3>2, <4>1, <4>2 DEF OwnerGood
    <3> QED BY <1>2, <3>1, <3>2 DEF OwnerGood
  <2> QED BY <2>1, <2>2
<1>6. Collecting => phase # "idle" /\ Owner \in Owners /\ o # Owner /\ data'[Owner] = data[Owner] /\ phase' = phase
  <2>1. Collecting => phase # "idle"
    BY DataFacts DEF ListenersGood
  <2> QED BY <1>1, <2>1, DataFacts
<1>7. ListenersGood'
  <2>1. Collecting => Registers'
    <3> SUFFICES ASSUME Collecting
                 PROVE  Registers'
      OBVIOUS
    <3>1. Registers
      BY DataFacts DEF ListenersGood
    <3>2. Ready'
      BY <3>1 DEF Registers, Ready
    <3> QED BY <1>2, <1>6, <3>1, <3>2 DEF Registers
  <2>2. ASSUME NEW s \in Services
        PROVE  EscapeGood(s)'
    BY <1>2, <1>6, DataFacts DEF ListenersGood, EscapeGood
  <2>3. /\ phase' = "data" => Collecting
        /\ phase' \notin {"data", "run"} => ~Collecting
    BY DataFacts DEF ListenersGood
  <2> QED BY <1>2, <2>1, <2>2, <2>3 DEF ListenersGood
<1>8. BytesGood'
  <2>1. Collecting /\ (command.kind = "cipsend" => conns'[command.id].protocol) => OwnBytes'
    <3> SUFFICES ASSUME Collecting, command.kind = "cipsend" => conns'[command.id].protocol
                 PROVE  OwnBytes'
      OBVIOUS
    <3>1. OwnBytes
      BY DataFacts DEF BytesGood
    <3> QED BY <1>2, <1>6, <3>1 DEF OwnBytes
  <2>2. phase' = "run" /\ ~Collecting => typed = 0
    BY DataFacts DEF BytesGood
  <2>3. phase' \in {"run", "data", "dial"} /\ iterations = 0 => handed.n < command.n
    BY DataFacts DEF BytesGood
  <2>4. phase' # "idle" => phase # "idle"
    OBVIOUS
  <2>5. phase' = "store" => phase = "store"
    OBVIOUS
  <2> QED BY <1>2, <2>1, <2>2, <2>3, <2>4, <2>5, DataFacts DEF BytesGood
<1>9. Transferred'
  <2>1. HandedExactly /\ AllDelivered /\ EscapedSendsNothing
    BY DEF DataInv, Transferred
  <2> QED BY <2>1 DEF Transferred, HandedExactly, AllDelivered, EscapedSendsNothing
<1> QED BY <1>3, <1>4, <1>5, <1>7, <1>8, <1>9 DEF DataInv

-----------------------------------------------------------------------------
(* A command that has no payload finds no listener. *)
LEMMA NoListener ==
    ASSUME DataInv, phase # "idle", command.kind \notin PayloadKinds
    PROVE  ~Collecting /\ iterations = 0
BY DataFacts DEF ListenersGood, Registers, BytesGood

(* It is answered, and only its connection changes. *)
LEMMA EndsPlainly ==
    ASSUME DataInv, phase # "idle", command.kind \notin PayloadKinds, NEW result \in {"OK", "ERROR"}, Finish(result),
           modes' = modes, updating' = updating, command' = command, typed' = typed, handed' = handed,
           conns' \in [Ids -> ConnRec], \A i \in Ids : ConnGood(i)', \A i \in Ids : Unreached(i) => Unreached(i)'
    PROVE  DataInv'
<1>1. ~Collecting /\ iterations = 0
  BY NoListener
<1>2. data' = [data EXCEPT ![Files] = data[Files]] /\ Files \in Owners /\ updating' \in BOOLEAN
  BY DataFacts, OwnersApart DEF modes, DataInv, DataTyped, ModeTypeOK
<1>3. listeners' = <<>> /\ iterations' = 0 /\ count' = count /\ escape' = escape
  BY <1>1 DEF modes, Collecting
<1>4. Transferred' /\ handed'.bytes \in Seq(Bytes) /\ handed'.n \in Nat /\ handed'.n <= command.n
  BY NothingHanded
<1> DEFINE r == data[Files]
<1>5. /\ r \in DataRec /\ ~r.garbled /\ ~r.busy /\ (Files = Http => r.listener = -1)
      /\ r.buffer # <<>> => \E i \in Ids : Files = Cip(i) /\ Unreached(i)'
  BY <1>1, <1>2, Leftover
<1>6. escape' \in [Services -> BOOLEAN] /\ \A s \in Services : ~escape'[s]
  BY <1>1, <1>3, NobodyEscapes
<1>7. result \in {"OK", "ERROR", "ESCAPED"}
  OBVIOUS
<1> HIDE DEF r
<1> QED BY <1>1, <1>2, <1>3, <1>4, <1>5, <1>6, <1>7, Finishes DEF r

LEMMA CloseStep == ASSUME DataInv, Close PROVE DataInv'
<1> DEFINE i == command.id
           c == conns[i]
<1>1. /\ phase = "run" /\ command.kind = "cipclose" /\ listeners' = listeners /\ escape' = escape /\ count' = count
      /\ iterations' = iterations /\ updating' = updating /\ command' = command /\ typed' = typed /\ handed' = handed
  BY DEF Close, Executes
<1>2. command.kind \notin PayloadKinds
  BY <1>1 DEF PayloadKinds
<1>3. ~Collecting /\ iterations = 0 /\ i \in Ids
  BY <1>1, <1>2, NoListener, IdsAre
<1>4. CASE ~c.connected
  <2>1. conns' = conns /\ data' = data /\ Finish("ERROR")
    BY <1>4 DEF Close
  <2>2. modes' = modes
    BY <1>1, <2>1 DEF modes
  <2>3. /\ conns' \in [Ids -> ConnRec]
        /\ \A j \in Ids : ConnGood(j)' /\ (Unreached(j)' <=> Unreached(j))
    BY <1>1, <2>1, ConnsStay
  <2> QED BY <1>1, <1>2, <2>1, <2>2, <2>3, EndsPlainly
<1>5. CASE c.connected
  <2> DEFINE o == Cip(i)
             r == NoPayload
             d == Closed(c)
  <2>1. conns' = [conns EXCEPT ![i] = d] /\ data' = [data EXCEPT ![o] = r] /\ Finish("OK")
    BY <1>5 DEF Close
  <2>2. c \in ConnRec /\ c.pending = 0
    BY <1>1, <1>3, NothingPends
  <2>3. d \in ConnRec /\ ~d.connected /\ ~d.protocol /\ ~(d.pending > 0)
    BY <2>2, ClosedIs
  <2> HIDE DEF d
  <2>4. /\ conns' \in [Ids -> ConnRec]
        /\ \A j \in Ids : ConnGood(j)'
        /\ \A j \in Ids : j # i => (Unreached(j) <=> Unreached(j)')
    BY <1>1, <1>3, <2>1, <2>3, OneConnects
  <2>5. o \in Owners /\ o # Http /\ \A j \in Ids : Unreached(j) => Unreached(j)' \/ o = Cip(j)
    BY <1>3, <2>4, OwnersApart
  <2>6. r \in DataRec /\ ~r.garbled /\ ~r.busy /\ r.buffer = <<>>
    BY Cleared
  <2>7. Transferred' /\ handed'.bytes \in Seq(Bytes) /\ handed'.n \in Nat /\ handed'.n <= command.n
    BY <1>1, <1>2, <2>1, NothingHanded
  <2>8. listeners' = <<>> /\ iterations' = 0 /\ updating' \in BOOLEAN
    BY <1>1, <1>3 DEF Collecting, DataInv, DataTyped, ModeTypeOK
  <2>9. escape' \in [Services -> BOOLEAN] /\ \A s \in Services : ~escape'[s]
    BY <1>1, <1>3, NobodyEscapes
  <2> HIDE DEF o, r
  <2> QED BY <1>1, <1>3, <2>1, <2>4, <2>5, <2>6, <2>7, <2>8, <2>9, Finishes
<1> QED BY <1>4, <1>5

LEMMA ConfigureHttpStep == ASSUME DataInv, ConfigureHttp PROVE DataInv'
<1> DEFINE r == NoPayload
<1>1. /\ phase = "run" /\ command.kind = "httpconf" /\ listeners' = listeners /\ escape' = escape /\ count' = count
      /\ iterations' = iterations /\ updating' = updating /\ command' = command /\ typed' = typed /\ handed' = handed
      /\ conns' = conns /\ data' = [data EXCEPT ![Http] = r] /\ Finish("OK")
  BY DEF ConfigureHttp, Executes
<1>2. command.kind \notin PayloadKinds
  BY <1>1 DEF PayloadKinds
<1>3. ~Collecting /\ iterations = 0
  BY <1>1, <1>2, NoListener
<1>4. /\ conns' \in [Ids -> ConnRec] /\ \A j \in Ids : ConnGood(j)'
      /\ \A j \in Ids : Unreached(j) => Unreached(j)' \/ Http = Cip(j)
  BY <1>1, ConnsStay
<1>5. r \in DataRec /\ ~r.garbled /\ ~r.busy /\ r.listener = -1 /\ r.buffer = <<>>
  BY Cleared
<1>6. Transferred' /\ handed'.bytes \in Seq(Bytes) /\ handed'.n \in Nat /\ handed'.n <= command.n
  BY <1>1, <1>2, NothingHanded
<1>7. listeners' = <<>> /\ iterations' = 0 /\ updating' \in BOOLEAN /\ Http \in Owners
  BY <1>1, <1>3, OwnersApart DEF Collecting, DataInv, DataTyped, ModeTypeOK
<1>8. escape' \in [Services -> BOOLEAN] /\ \A s \in Services : ~escape'[s]
  BY <1>1, <1>3, NobodyEscapes
<1> HIDE DEF r
<1> QED BY <1>1, <1>3, <1>4, <1>5, <1>6, <1>7, <1>8, Finishes

(* The connection of a command that is running, as one of the others that it becomes. *)
LEMMA EndsConnected ==
    ASSUME DataInv, phase # "idle", command.kind \notin PayloadKinds, NEW result \in {"OK", "ERROR"}, Finish(result),
           modes' = modes, updating' = updating, command' = command, typed' = typed, handed' = handed,
           NEW c \in ConnRec, conns' = [conns EXCEPT ![command.id] = c],
           phase = "dial" \/ ~Unreached(command.id) \/ (c.connected /\ ~c.protocol /\ ~(c.pending > 0)),
           c.pending > 0 => c.connected /\ c.type = "udp" /\ c.pending = 1,
           c.protocol => c.connected
    PROVE  DataInv'
<1> DEFINE i == command.id
<1>1. i \in Ids /\ phase' = "idle"
  BY IdsAre DEF Finish
<1>2. /\ conns' \in [Ids -> ConnRec] /\ conns'[i] = c
      /\ \A j \in Ids : ConnGood(j)'
      /\ \A j \in Ids : j # i => (Unreached(j) <=> Unreached(j)')
  BY <1>1, OneConnects
<1>3. Unreached(i) => Unreached(i)'
  <2>1. CASE phase = "dial"
    BY <1>1, <2>1, DataFacts DEF ConnsGood, Unreached
  <2>2. CASE c.connected /\ ~c.protocol /\ ~(c.pending > 0)
    <3>1. c.pending \in 0 .. MaxCommands
      BY DEF ConnRec
    <3>2. c.pending = 0
      BY <2>2, <3>1
    <3> QED BY <1>2, <2>2, <3>2 DEF Unreached
  <2> QED BY <2>1, <2>2
<1>4. ASSUME NEW j \in Ids
      PROVE  Unreached(j) => Unreached(j)'
  <2>1. CASE j = i
    BY <1>3, <2>1
  <2>2. CASE j # i
    BY <1>2, <2>2
  <2> QED BY <2>1, <2>2
<1> HIDE DEF i
<1> QED BY <1>2, <1>4, EndsPlainly

LEMMA ConfigureSslStep == ASSUME DataInv, ConfigureSsl PROVE DataInv'
<1> DEFINE i == command.id
<1>1. /\ phase = "run" /\ command.kind = "cipssl" /\ modes' = modes /\ updating' = updating
      /\ command' = command /\ typed' = typed /\ handed' = handed
  BY DEF ConfigureSsl, Executes
<1>2. command.kind \notin PayloadKinds /\ i \in Ids /\ phase # "idle"
  BY <1>1, IdsAre DEF PayloadKinds
<1>3. PICK ok \in BOOLEAN : conns' = [conns EXCEPT ![i].ssl = ok] /\ Finish(IF ok THEN "OK" ELSE "ERROR")
  BY DEF ConfigureSsl
<1>4. conns[i] \in ConnRec /\ conns[i].pending = 0 /\ (conns[i].protocol => conns[i].connected)
  BY <1>1, <1>2, NothingPends, DataFacts DEF ConnsGood, ConnGood
<1> DEFINE c == [conns[i] EXCEPT !.ssl = ok]
<1>5. /\ c \in ConnRec /\ c.pending = 0 /\ (c.protocol <=> conns[i].protocol)
      /\ (c.connected <=> conns[i].connected)
  BY <1>4 DEF ConnRec
<1>6. conns' = [conns EXCEPT ![i] = c]
  BY <1>2, <1>3, DataFacts
<1>7. PICK result \in {"OK", "ERROR"} : Finish(result)
  BY <1>3
<1> HIDE DEF c
<1>8. ~Unreached(i) \/ (c.connected /\ ~c.protocol /\ ~(c.pending > 0))
  BY <1>5 DEF Unreached
<1>9. ~(c.pending > 0) /\ (c.protocol => c.connected)
  BY <1>4, <1>5
<1> QED BY <1>1, <1>2, <1>5, <1>6, <1>7, <1>8, <1>9, EndsConnected

(* The await of AT+CIPSTART ends in one of three ways. *)
LEMMA DialStep ==
    ASSUME DataInv, phase = "dial", NEW result \in {"OK", "ERROR"}, Finish(result),
           modes' = modes, updating' = updating, command' = command, typed' = typed, handed' = handed,
           NEW on \in BOOLEAN, NEW there \in BOOLEAN, there => on,
           conns' = [conns EXCEPT ![command.id].connected = on, ![command.id].protocol = there]
    PROVE  DataInv'
<1> DEFINE i == command.id
           c == [conns[i] EXCEPT !.connected = on, !.protocol = there]
<1>1. i \in Ids /\ command.kind \notin PayloadKinds /\ phase # "idle"
  BY IdsAre, DataFacts DEF ConnsGood, PayloadKinds
<1>2. conns[i] \in ConnRec /\ conns[i].pending = 0
  BY <1>1, NothingPends
<1>3. c \in ConnRec /\ c.pending = 0 /\ c.connected = on /\ c.protocol = there
  BY <1>2 DEF ConnRec
<1>4. conns' = [conns EXCEPT ![i] = c]
  BY <1>1, <1>2, DataFacts DEF ConnRec
<1> HIDE DEF c
<1>5. ~(c.pending > 0) /\ (c.protocol => c.connected)
  BY <1>3
<1> QED BY <1>1, <1>3, <1>4, <1>5, EndsConnected

LEMMA DialEnds == ASSUME DataInv, Dialled \/ DialledLost \/ DialFails PROVE DataInv'
<1> DEFINE i == command.id
<1>1. /\ phase = "dial" /\ modes' = modes /\ updating' = updating
      /\ command' = command /\ typed' = typed /\ handed' = handed
  BY DEF Dialled, DialledLost, DialFails
<1>2. i \in Ids /\ conns \in [Ids -> ConnRec] /\ conns[i] \in ConnRec
  BY <1>1, IdsAre, DataFacts
<1>3. CASE Dialled
  <2>1. conns[i].protocol = TRUE /\ conns' = [conns EXCEPT ![i].connected = TRUE] /\ Finish("OK")
    BY <1>2, <1>3 DEF Dialled, ConnRec
  <2>2. conns' = [conns EXCEPT ![i].connected = TRUE, ![i].protocol = TRUE]
    BY <1>2, <2>1 DEF ConnRec
  <2> QED BY <1>1, <2>1, <2>2, DialStep
<1>4. CASE DialledLost
  <2>1. conns' = [conns EXCEPT ![i].connected = TRUE, ![i].protocol = FALSE] /\ Finish("OK")
    BY <1>4 DEF DialledLost
  <2> QED BY <1>1, <2>1, DialStep
<1>5. CASE DialFails
  <2>1. conns[i].protocol = FALSE /\ conns' = [conns EXCEPT ![i].connected = FALSE] /\ Finish("ERROR")
    BY <1>2, <1>5 DEF DialFails, ConnRec
  <2>2. conns' = [conns EXCEPT ![i].connected = FALSE, ![i].protocol = FALSE]
    BY <1>2, <2>1 DEF ConnRec
  <2> QED BY <1>1, <2>1, <2>2, DialStep
<1> QED BY <1>3, <1>4, <1>5

(* AT+CIPSTART goes on to its await. *)
LEMMA GoesOnConnected ==
    ASSUME DataInv, NEW i \in Ids, NEW c \in ConnRec, conns' = [conns EXCEPT ![i] = c],
           command' = command, typed' = typed, modes' = modes, updating' = updating, handed' = handed, reply' = reply,
           phase' = phase \/ (phase = "run" /\ ~Collecting /\ phase' = "dial"),
           phase' = "dial" => command.kind = "cipstart" /\ (command.id = i => ~c.connected)
                              /\ (command.id # i => phase = "dial"),
           c.pending > 0 => phase' = "idle" /\ c.connected /\ c.type = "udp" /\ c.pending = 1,
           c.protocol => c.connected \/ (phase' = "dial" /\ command.id = i),
           Unreached(i) => c.connected /\ ~c.protocol /\ c.pending = 0,
           ~Collecting
    PROVE  DataInv'
<1>1. /\ conns' \in [Ids -> ConnRec] /\ conns'[i] = c
      /\ \A j \in Ids : ConnGood(j)'
      /\ \A j \in Ids : j # i => conns'[j] = conns[j] /\ (Unreached(j) <=> Unreached(j)')
  BY OneConnects
<1>2. ASSUME NEW j \in Ids
      PROVE  Unreached(j) => Unreached(j)'
  <2>1. CASE j = i
    BY <1>1, <2>1 DEF Unreached
  <2>2. CASE j # i
    BY <1>1, <2>2
  <2> QED BY <2>1, <2>2
<1>3. phase' = "dial" => command.kind = "cipstart" /\ ~conns'[command.id].connected
  <2> SUFFICES ASSUME phase' = "dial"
               PROVE  ~conns'[command.id].connected
    OBVIOUS
  <2>1. CASE command.id = i
    BY <1>1, <2>1
  <2>2. CASE command.id # i
    <3>1. phase = "dial"
      BY <2>2
    <3>2. command.id \in Ids /\ ~conns[command.id].connected
      BY <3>1, IdsAre, DataFacts DEF ConnsGood
    <3> QED BY <1>1, <2>2, <3>2
  <2> QED BY <2>1, <2>2
<1> DEFINE r == data[Files]
<1>4. data' = [data EXCEPT ![Files] = r] /\ Files \in Owners /\ updating' \in BOOLEAN
  BY DataFacts, OwnersApart DEF modes, DataInv, DataTyped, ModeTypeOK
<1>5. listeners' = listeners /\ iterations' = iterations /\ count' = count /\ escape' = escape
  BY DEF modes
<1>6. /\ r \in DataRec /\ ~r.garbled /\ ~r.busy /\ (Files = Http => r.listener = -1)
      /\ r.buffer # <<>> => \E j \in Ids : Files = Cip(j) /\ Unreached(j)'
  BY <1>2, <1>4, Leftover
<1> HIDE DEF r
<1> QED BY <1>1, <1>2, <1>3, <1>4, <1>5, <1>6, GoesOn

LEMMA StartStep == ASSUME DataInv, Start PROVE DataInv'
<1> DEFINE i == command.id
<1>1. /\ phase = "run" /\ command.kind = "cipstart" /\ modes' = modes /\ updating' = updating
      /\ command' = command /\ typed' = typed /\ handed' = handed
  BY DEF Start, Executes
<1>2. command.kind \notin PayloadKinds /\ i \in Ids /\ phase # "idle"
  BY <1>1, IdsAre DEF PayloadKinds
<1>3. ~Collecting /\ conns \in [Ids -> ConnRec] /\ conns[i] \in ConnRec /\ conns[i].pending = 0
      /\ (conns[i].protocol => conns[i].connected)
  BY <1>1, <1>2, NoListener, NothingPends, DataFacts DEF ConnsGood, ConnGood
<1>4. CASE conns[i].connected /\ Finish("ERROR") /\ UNCHANGED conns
  <2>1. /\ conns' \in [Ids -> ConnRec]
        /\ \A j \in Ids : ConnGood(j)' /\ (Unreached(j)' <=> Unreached(j))
    BY <1>1, <1>4, ConnsStay
  <2> QED BY <1>1, <1>2, <1>4, <2>1, EndsPlainly
<1>5. CASE /\ ~conns[i].connected
           /\ conns' = [conns EXCEPT ![i].type = "udp", ![i].connected = TRUE, ![i].pending = @ + 1]
           /\ Finish("OK")
  <2> DEFINE c == [conns[i] EXCEPT !.type = "udp", !.connected = TRUE, !.pending = 1]
  <2>1. conns' = [conns EXCEPT ![i] = c]
    <3>1. conns[i].pending + 1 = 1
      BY <1>3
    <3> QED BY <1>2, <1>3, <1>5, <3>1 DEF ConnRec
  <2>2. 1 \in 0 .. MaxCommands
    <3>1. command.n \in 0 .. MaxCommands
      BY DEF DataInv, DataTyped, ModeTypeOK
    <3>2. reply.n < command.n /\ reply.n \in Nat
      BY <1>1, DataFacts DEF BytesGood
    <3> QED BY <3>1, <3>2, BoundsAssumption
  <2>3. c.type = "udp" /\ c.connected = TRUE /\ c.pending = 1 /\ c.protocol = conns[i].protocol
    BY <1>3 DEF ConnRec
  <2> DEFINE m == 0 .. MaxCommands
  <2>4. c \in ConnRec
    <3>1. 1 \in m /\ conns[i] \in [connected : BOOLEAN, type : {"", "udp", "tcp", "ssl"}, ssl : BOOLEAN, protocol : BOOLEAN, pending : m]
      BY <1>3, <2>2 DEF ConnRec
    <3> HIDE DEF m
    <3>2. c \in [connected : BOOLEAN, type : {"", "udp", "tcp", "ssl"}, ssl : BOOLEAN, protocol : BOOLEAN, pending : m]
      BY <3>1
    <3> QED BY <3>2 DEF m, ConnRec
  <2> HIDE DEF c
  <2>5. ~Unreached(i)
    BY <1>5 DEF Unreached
  <2>6. (c.pending > 0 => c.connected /\ c.type = "udp" /\ c.pending = 1) /\ (c.protocol => c.connected)
    BY <2>3
  <2> QED BY <1>1, <1>2, <1>5, <2>1, <2>4, <2>5, <2>6, EndsConnected
<1>6. CASE /\ ~conns[i].connected
           /\ \E type \in {"tcp", "ssl"} : conns' = [conns EXCEPT ![i].type = type]
           /\ Finish("ERROR") \/ (phase' = "dial" /\ UNCHANGED reply)
  <2>1. PICK t \in {"tcp", "ssl"} : conns' = [conns EXCEPT ![i].type = t]
    BY <1>6
  <2> DEFINE c == [conns[i] EXCEPT !.type = t]
  <2>2. c \in ConnRec /\ c.pending = 0 /\ c.protocol = conns[i].protocol /\ c.connected = conns[i].connected
    BY <1>3, <2>1 DEF ConnRec
  <2>3. conns' = [conns EXCEPT ![i] = c]
    BY <1>2, <1>3, <2>1
  <2> HIDE DEF c
  <2>4. ~Unreached(i) /\ ~(c.pending > 0) /\ (c.protocol => c.connected) /\ ~c.connected
    BY <1>3, <1>6, <2>2 DEF Unreached
  <2>5. CASE Finish("ERROR")
    BY <1>1, <1>2, <2>2, <2>3, <2>4, <2>5, EndsConnected
  <2>6. CASE phase' = "dial" /\ UNCHANGED reply
    BY <1>1, <1>2, <1>3, <2>2, <2>3, <2>4, <2>6, GoesOnConnected
  <2> QED BY <1>6, <2>5, <2>6
<1> QED BY <1>4, <1>5, <1>6 DEF Start

LEMMA StreamMadeStep == ASSUME DataInv, StreamMade PROVE DataInv'
<1> DEFINE i == command.id
           c == [conns[i] EXCEPT !.protocol = TRUE]
<1>1. /\ phase = "dial" /\ conns' = [conns EXCEPT ![i].protocol = TRUE] /\ modes' = modes /\ updating' = updating
      /\ phase' = phase /\ command' = command /\ typed' = typed /\ handed' = handed /\ reply' = reply
  BY DEF StreamMade
<1>2. i \in Ids /\ conns[i] \in ConnRec /\ conns[i].pending = 0 /\ ~conns[i].connected /\ command.kind = "cipstart"
      /\ ~Collecting
  BY <1>1, IdsAre, NothingPends, DataFacts DEF ConnsGood, ListenersGood
<1>3. c \in ConnRec /\ c.pending = 0 /\ c.connected = conns[i].connected
  BY <1>2 DEF ConnRec
<1>4. conns' = [conns EXCEPT ![i] = c]
  BY <1>1, <1>2, DataFacts
<1>5. ~Unreached(i)
  BY <1>2 DEF Unreached
<1> HIDE DEF c
<1>6. ~(c.pending > 0) /\ ~c.connected
  BY <1>2, <1>3
<1> QED BY <1>1, <1>2, <1>3, <1>4, <1>5, <1>6, GoesOnConnected

LEMMA DatagramMadeStep == ASSUME DataInv, NEW i \in Ids, DatagramMade(i) PROVE DataInv'
<1>1. /\ phase # "run" /\ conns[i].pending > 0 /\ modes' = modes /\ updating' = updating /\ phase' = phase
      /\ command' = command /\ typed' = typed /\ handed' = handed /\ reply' = reply
  BY DEF DatagramMade
<1>2. PICK made \in BOOLEAN :
          conns' = [conns EXCEPT ![i].pending = conns[i].pending - 1, ![i].protocol = conns[i].protocol \/ made]
  BY DataFacts DEF DatagramMade, ConnRec
<1>3. conns[i] \in ConnRec /\ phase = "idle" /\ conns[i].connected /\ conns[i].pending = 1 /\ ~Collecting
  BY <1>1, DataFacts DEF ConnsGood, ConnGood, ListenersGood
<1> DEFINE on == conns[i].protocol \/ made
           less == conns[i].pending - 1
           c == [conns[i] EXCEPT !.pending = less, !.protocol = on]
<1>4. conns' = [conns EXCEPT ![i] = c]
  BY <1>2, <1>3, DataFacts DEF ConnRec
<1>5. on \in BOOLEAN /\ less = 0 /\ 0 \in 0 .. MaxCommands
  BY <1>3, BoundsAssumption
<1>6. /\ c \in ConnRec /\ c.pending = 0 /\ c.connected = conns[i].connected
  <2> DEFINE m == 0 .. MaxCommands
  <2>1. 0 \in m /\ conns[i] \in [connected : BOOLEAN, type : {"", "udp", "tcp", "ssl"}, ssl : BOOLEAN, protocol : BOOLEAN, pending : m]
    BY <1>3, <1>5 DEF ConnRec
  <2> HIDE DEF m, on, less
  <2>2. /\ c \in [connected : BOOLEAN, type : {"", "udp", "tcp", "ssl"}, ssl : BOOLEAN, protocol : BOOLEAN, pending : m]
        /\ c.pending = less /\ c.connected = conns[i].connected
    BY <1>5, <2>1
  <2> QED BY <1>5, <2>2 DEF m, ConnRec
<1>7. ~Unreached(i)
  BY <1>1, <1>3 DEF Unreached
<1> HIDE DEF c, on, less
<1>8. ~(c.pending > 0) /\ c.connected
  BY <1>3, <1>6
<1> QED BY <1>1, <1>3, <1>4, <1>6, <1>7, <1>8, GoesOnConnected

(* The peer closes a connection between two commands, or while another one is dialled or a *)
(* file is stored.                                                                         *)
LEMMA LostStep == ASSUME DataInv, Steady, NEW i \in Ids, Lost(i) PROVE DataInv'
<1> DEFINE d == Closed(conns[i])
           o == Cip(i)
           r == NoPayload
<1>1. /\ phase \notin {"run", "data"} /\ conns[i].connected /\ conns[i].type # "udp" /\ phase' = phase
      /\ listeners' = listeners /\ escape' = escape /\ count' = count /\ iterations' = iterations
      /\ updating' = updating /\ command' = command /\ typed' = typed /\ handed' = handed /\ reply' = reply
      /\ conns' = [conns EXCEPT ![i] = d] /\ data' = [data EXCEPT ![o] = r]
  BY DEF Lost, Steady
<1>2. ~Collecting /\ conns[i].pending = 0 /\ conns[i] \in ConnRec
  <2>1. ~Collecting /\ ConnGood(i)
    BY <1>1, DataFacts DEF ListenersGood, ConnsGood
  <2>2. conns[i] \in ConnRec /\ conns[i].pending \in Nat
    BY NothingPends
  <2> QED BY <1>1, <2>1, <2>2 DEF ConnGood
<1>3. d \in ConnRec /\ ~d.connected /\ ~d.protocol /\ ~(d.pending > 0)
  BY <1>2, ClosedIs
<1>4. phase = "dial" => command.id # i /\ command.id \in Ids /\ command.kind = "cipstart"
                        /\ ~conns[command.id].connected
  BY <1>1, IdsAre, DataFacts DEF ConnsGood
<1> HIDE DEF d
<1>5. /\ conns' \in [Ids -> ConnRec]
      /\ \A j \in Ids : ConnGood(j)'
      /\ \A j \in Ids : j # i => conns'[j] = conns[j] /\ (Unreached(j) <=> Unreached(j)')
  BY <1>1, <1>3, OneConnects
<1>6. phase' = "dial" => command.kind = "cipstart" /\ ~conns'[command.id].connected
  BY <1>1, <1>4, <1>5
<1>7. o \in Owners /\ o # Http /\ \A j \in Ids : Unreached(j) => Unreached(j)' \/ o = Cip(j)
  BY <1>5, OwnersApart
<1>8. r \in DataRec /\ ~r.garbled /\ ~r.busy /\ r.buffer = <<>>
  BY Cleared
<1>9. updating' \in BOOLEAN
  BY <1>1 DEF DataInv, DataTyped, ModeTypeOK
<1> HIDE DEF o, r
<1> QED BY <1>1, <1>2, <1>5, <1>6, <1>7, <1>8, <1>9, GoesOn

LEMMA UpdatingStep == ASSUME DataInv, Steady, Updating PROVE DataInv'
<1>1. /\ phase = "idle" /\ conns' = conns /\ modes' = modes /\ updating' = ~updating /\ phase' = phase
      /\ command' = command /\ typed' = typed /\ handed' = handed /\ reply' = reply
  BY DEF Updating, Steady
<1>2. ~Collecting /\ conns' \in [Ids -> ConnRec]
  BY <1>1, DataFacts DEF ListenersGood
<1>3. \A j \in Ids : ConnGood(j)'
  BY <1>1, DataFacts DEF ConnsGood, ConnGood
<1> DEFINE r == data[Files]
<1>4. data' = [data EXCEPT ![Files] = r] /\ Files \in Owners /\ updating' \in BOOLEAN
  BY <1>1, DataFacts, OwnersApart DEF modes
<1>5. listeners' = listeners /\ iterations' = iterations /\ count' = count /\ escape' = escape
  BY <1>1 DEF modes
<1>6. /\ r \in DataRec /\ ~r.garbled /\ ~r.busy /\ (Files = Http => r.listener = -1)
      /\ r.buffer = <<>>
  BY <1>2, <1>4, Leftover, OwnersApart
<1>7. \A j \in Ids : Unreached(j) => Unreached(j)' \/ Files = Cip(j)
  BY <1>1 DEF Unreached
<1> HIDE DEF r
<1> QED BY <1>1, <1>2, <1>3, <1>4, <1>5, <1>6, <1>7, GoesOn

-----------------------------------------------------------------------------
(* A command that has not ended waits for more, or stores its file. *)
LEMMA WaitsOrStores ==
    ASSUME DataInv, phase = "run", phase' \in {"data", "store"}, conns' = conns, command' = command, typed' = typed,
           count' = count, escape' = escape, ~escape[Service(Owner)], updating' = updating, reply' = reply,
           NEW r \in DataRec, data' = [data EXCEPT ![Owner] = r], ~r.garbled,
           handed' = handed \/ handed'.n = command.n, handed'.bytes \in Seq(Bytes), HandedExactly', iterations' \in Nat,
           phase' = "data" => /\ listeners' = <<Owner>> /\ command.kind \in PayloadKinds /\ Ready
                              /\ r.busy /\ r.listener = 0 /\ Remaining' > 0,
           phase' = "store" => listeners' = <<>> /\ r.buffer = <<>> /\ ~r.busy /\ (Owner = Http => r.listener = -1),
           BytesGood'
    PROVE  DataInv'
<1>1. Owner \in Owners /\ Owner' = Owner
  BY DataFacts DEF Owner
<1>2. data' \in [Owners -> DataRec] /\ data'[Owner] = r /\ \A p \in Owners : p # Owner => data'[p] = data[p]
  BY <1>1, DataFacts
<1>3. handed'.n \in Nat /\ command.n \in Nat /\ reply.n < command.n /\ reply.n \in Nat
  BY DataFacts DEF BytesGood
<1>4. Collecting' <=> phase' = "data"
  <2> DEFINE one == <<Owner>>
  <2>1. one # <<>>
    <3>1. Len(one) = 1 /\ Len(<<>>) = 0
      OBVIOUS
    <3> QED BY <3>1
  <2> QED BY <2>1 DEF Collecting
<1>5. DataTyped'
  <2>1. phase' \in {"idle", "run", "data", "dial", "store"}
    OBVIOUS
  <2>2. listeners' \in Seq(Owners)
    <3>1. <<Owner>> \in Seq(Owners) /\ <<>> \in Seq(Owners)
      BY <1>1, EmptySeq
    <3> QED BY <3>1
  <2>3. /\ escape \in [Services -> BOOLEAN] /\ count \in [Services -> 0 .. 2] /\ updating \in BOOLEAN
        /\ command.kind \in Kinds \cup {"none"} /\ command.n \in 0 .. MaxCommands
        /\ typed \in 0 .. MaxTyped /\ reply.result \in DataResults
    BY DEF DataInv, DataTyped, ModeTypeOK
  <2>4. command.length \in Nat /\ handed'.n \in Nat /\ reply.n \in Nat /\ reply.length \in Nat
    BY <1>3 DEF DataInv, DataTyped
  <2>5. conns' \in [Ids -> ConnRec]
    BY DataFacts
  <2> QED BY <1>2, <2>1, <2>2, <2>3, <2>4, <2>5 DEF DataTyped, ModeTypeOK, ConnRec, DataRec
<1>6. ConnsGood'
  <2>1. \A i \in Ids : ConnGood(i)'
    BY ConnsStay
  <2> QED BY <2>1 DEF ConnsGood
<1>7. \A i \in Ids : Unreached(i)' <=> Unreached(i)
  BY ConnsStay
<1>8. OwnersGood'
  <2> SUFFICES ASSUME NEW p \in Owners
               PROVE  OwnerGood(p)'
    BY DEF OwnersGood
  <2>1. CASE p = Owner
    BY <1>1, <1>2, <1>4, <2>1 DEF OwnerGood
  <2>2. CASE p # Owner
    <3>1. data'[p] = data[p]
      BY <1>2, <2>2
    <3>2. /\ ~data[p].garbled /\ ~data[p].busy
          /\ p = Http => data[p].listener = -1
          /\ data[p].buffer # <<>> => \E i \in Ids : p = Cip(i) /\ Unreached(i)
      BY <2>2, Leftover
    <3> QED BY <1>7, <3>1, <3>2 DEF OwnerGood
  <2> QED BY <2>1, <2>2
<1>9. ListenersGood'
  <2>1. \A s \in Services : ~escape[s]
    BY OnlyOwnerEscapes
  <2>2. Collecting' => Registers'
    BY <1>1, <1>2, <1>4 DEF Registers, Ready
  <2> QED BY <1>4, <2>1, <2>2 DEF ListenersGood, EscapeGood
<1>10. Transferred'
  <2>1. AllDelivered'
    BY DEF AllDelivered
  <2>2. EscapedSendsNothing'
    <3>1. EscapedSendsNothing
      BY DEF DataInv, Transferred
    <3> QED BY <1>3, <3>1 DEF EscapedSendsNothing
  <2> QED BY <2>1, <2>2 DEF Transferred
<1> QED BY <1>5, <1>6, <1>8, <1>9, <1>10 DEF DataInv

LEMMA FileCollectedStep == ASSUME DataInv, FileCollected PROVE DataInv'
<1> DEFINE o == Files
           r == Emptied(o)
<1>1. /\ phase = "run" /\ command.kind = "filesup" /\ Deregistered /\ iterations' = iterations /\ updating' = updating
      /\ HandOver(Upto(data[o].buffer, Remaining)) /\ data' = [data EXCEPT ![o] = r] /\ phase' = "store"
      /\ reply' = reply
  BY DEF FileCollected, Deregistered, Collected, Executes
<1>2. o = Owner /\ Deregisters
  BY <1>1, OwnerIs, OwnersApart DEF Deregisters
<1>3. /\ Collecting /\ o \in Owners /\ listeners' = <<>> /\ Len(data[o].buffer) >= Remaining
      /\ conns' = conns /\ command' = command /\ typed' = typed /\ count' = count
  BY <1>1, <1>2, Gone
<1>4. r \in DataRec /\ ~r.garbled /\ ~r.busy /\ (o = Http => r.listener = -1) /\ r.buffer = <<>>
  BY <1>3, EmptiedIs
<1>5. handed'.n = command.n /\ handed'.bytes \in Seq(Bytes) /\ Len(handed'.bytes) = command.length /\ HandedExactly'
  BY <1>1, <1>2, <1>3, Delivers
<1>6. escape' = escape /\ ~escape[Service(Owner)]
  BY <1>1 DEF Deregistered, Collected
<1>7. iterations' = 0 /\ iterations' \in Nat
  BY <1>1, DataFacts DEF BytesGood
<1>8. BytesGood'
  <2>1. ~Collecting'
    BY <1>3 DEF Collecting
  <2>2. command.n \in Nat /\ reply.n < command.n /\ command.kind \in Kinds /\ command.id \in Ids /\ reply.n \in Nat
    BY <1>1, DataFacts DEF BytesGood
  <2> QED BY <1>1, <1>3, <1>5, <1>7, <2>1, <2>2 DEF BytesGood
<1> HIDE DEF o, r
<1> QED BY <1>1, <1>2, <1>3, <1>4, <1>5, <1>6, <1>7, <1>8, WaitsOrStores

LEMMA PartSentStep == ASSUME DataInv, PartSent PROVE DataInv'
<1> DEFINE o == Files
           b == data[o].buffer
           u == SubSeq(b, BufferSize + 1, Len(b))
           r == [data[o] EXCEPT !.buffer = u]
<1>1. /\ phase = "run" /\ command.kind = "fwsend" /\ Ready /\ ~escape["files"] /\ Len(b) \in BufferSize .. (Remaining - 1)
      /\ HandOver(Upto(b, BufferSize)) /\ data' = [data EXCEPT ![o] = r] /\ iterations' = iterations + 1
      /\ phase' = "data" /\ conns' = conns /\ listeners' = listeners /\ escape' = escape /\ count' = count
      /\ updating' = updating /\ command' = command /\ typed' = typed /\ reply' = reply
  BY DEF PartSent, PartReady, Executes
<1>2. o = Owner /\ o \in Owners /\ ~escape[Service(Owner)] /\ command.kind \in PayloadKinds
  BY <1>1, OwnerIs, OwnersApart DEF PayloadKinds
<1>3. b \in Seq(Bytes) /\ data[o] \in DataRec /\ Len(b) \in Nat /\ BufferSize \in Nat /\ BufferSize > 0 /\ Remaining \in Int
  <2>1. b \in Seq(Bytes) /\ data[o] \in DataRec
    BY <1>2, DataFacts DEF DataRec
  <2>2. Len(b) \in Nat
    BY <2>1, LenProperties
  <2> QED BY <1>1, <2>1, <2>2, DataFacts, RemainingIs
<1>4. BufferSize <= Len(b) /\ Len(b) < Remaining
  BY <1>1, <1>3
<1>5. Collecting
  <2> SUFFICES ASSUME ~Collecting
               PROVE  FALSE
    OBVIOUS
  <2>1. b = <<>>
    BY <1>2, Leftover, OwnersApart
  <2> HIDE DEF b
  <2> QED BY <1>3, <1>4, <2>1
<1>6. listeners = <<Owner>> /\ data[o].busy /\ data[o].listener = 0 /\ ~data[o].garbled
  BY <1>2, <1>5, DataFacts DEF ListenersGood, Registers, OwnersGood, OwnerGood
<1>7. handed'.n = command.n /\ handed'.bytes \in Seq(Bytes) /\ Len(handed'.bytes) = Done + BufferSize /\ HandedExactly'
  <2>1. Len(data[Owner].buffer) >= BufferSize /\ BufferSize <= Len(data[Owner].buffer)
    BY <1>2, <1>3, <1>4
  <2> QED BY <1>1, <1>2, <1>3, <1>5, <2>1, HandsOver
<1>8. Done' = Done + BufferSize /\ Done \in Nat /\ iterations' \in Nat /\ iterations' > 0
  <2>1. iterations \in Nat /\ Done \in Nat
    BY DataFacts
  <2>2. (iterations + 1) * BufferSize = iterations * BufferSize + BufferSize
    BY <1>3, <2>1
  <2> QED BY <1>1, <2>1, <2>2 DEF Done
<1>9. Remaining' > 0
  <2>1. Remaining = command.length - Done /\ command.length \in Nat
    BY <1>1, DataFacts, RemainingIs
  <2>2. Remaining' = command.length - Done'
    BY <1>1 DEF Remaining, Done
  <2> QED BY <1>3, <1>4, <1>8, <2>1, <2>2
<1>10. /\ u \in Seq(Bytes) /\ Len(u) = Len(b) - BufferSize
       /\ \A j \in 1 .. Len(u) : u[j] = b[BufferSize + j]
  <2> HIDE DEF b
  <2>1. \A j \in BufferSize + 1 .. Len(b) : b[j] \in Bytes
    <3> SUFFICES ASSUME NEW j \in BufferSize + 1 .. Len(b)
                 PROVE  b[j] \in Bytes
      OBVIOUS
    <3>1. j \in 1 .. Len(b)
      BY <1>3
    <3> QED BY <1>3, <3>1, ElementOfSeq
  <2> QED BY <1>3, <1>4, <2>1, SubSeqProperties
<1>11. r \in DataRec /\ r.garbled = data[o].garbled /\ r.busy = data[o].busy /\ r.listener = data[o].listener /\ r.buffer = u
  <2> HIDE DEF u
  <2> QED BY <1>3, <1>10 DEF DataRec
<1>12. data'[o] = r
  BY <1>1, <1>2, DataFacts
<1>13. BytesGood'
  <2>1. command.n \in Nat /\ reply.n < command.n /\ command.kind \in Kinds /\ command.id \in Ids /\ reply.n \in Nat
    BY <1>1, DataFacts DEF BytesGood
  <2>2. OwnBytes'
    <3>1. Owner' = o
      BY <1>1, <1>2 DEF Owner
    <3>2. /\ Len(b) = typed - Done /\ typed \in Nat
          /\ \A j \in 1 .. Len(b) : b[j] = <<command.n, Done + j>>
      BY <1>1, <1>2, <1>5, DataFacts DEF BytesGood, OwnBytes
    <3> HIDE DEF b, u, r, o
    <3>3. Len(u) = typed - Done'
      BY <1>3, <1>8, <1>10, <3>2
    <3>4. ASSUME NEW j \in 1 .. Len(u)
          PROVE  u[j] = <<command.n, Done' + j>>
      <4>1. BufferSize + j \in 1 .. Len(b) /\ Done + (BufferSize + j) = Done' + j
        BY <1>3, <1>4, <1>8, <1>10
      <4> QED BY <1>10, <3>2, <4>1
    <3> QED BY <1>1, <1>11, <1>12, <3>1, <3>3, <3>4 DEF OwnBytes
  <2>3. Collecting'
    BY <1>1, <1>5 DEF Collecting
  <2> QED BY <1>1, <1>7, <1>8, <2>1, <2>2, <2>3 DEF BytesGood
<1> HIDE DEF o, b, u, r
<1> QED BY <1>1, <1>2, <1>6, <1>7, <1>8, <1>9, <1>11, <1>13, WaitsOrStores

LEMMA WaitsStep == ASSUME DataInv, Waits PROVE DataInv'
<1> DEFINE o == Owner
           b == data[o].buffer
<1>1. /\ phase = "run" /\ command.kind \in PayloadKinds /\ Ready /\ ~escape[Service(o)] /\ Len(b) < Remaining
      /\ phase' = "data" /\ conns' = conns /\ escape' = escape /\ count' = count /\ iterations' = iterations
      /\ updating' = updating /\ command' = command /\ typed' = typed /\ handed' = handed /\ reply' = reply
  BY DEF Waits, Executes
<1>2. o \in Owners /\ data[o] \in DataRec /\ b \in Seq(Bytes) /\ Len(b) \in Nat /\ o' = o
  <2>1. o \in Owners /\ o' = o
    BY <1>1, DataFacts DEF Owner
  <2>2. data[o] \in DataRec /\ b \in Seq(Bytes)
    BY <2>1, DataFacts DEF DataRec
  <2>3. Len(b) \in Nat
    BY <2>2, LenProperties
  <2> QED BY <2>1, <2>2, <2>3
<1>3. Remaining \in Int /\ Remaining > 0 /\ Remaining' = Remaining /\ Done' = Done
  <2>1. Remaining \in Int /\ Remaining > 0
    BY <1>1, <1>2, RemainingIs
  <2> QED BY <1>1, <2>1 DEF Remaining, Done
<1>4. handed.bytes \in Seq(Bytes) /\ HandedExactly' /\ iterations \in Nat /\ ~data[o].garbled
  BY <1>1, <1>2, DataFacts DEF DataInv, DataTyped, ModeTypeOK, Transferred, HandedExactly, OwnersGood, OwnerGood
<1>5. /\ command.kind # "fwsend" \/ ~Collecting => iterations = 0
      /\ iterations = 0 => handed.n < command.n
      /\ iterations > 0 => handed.n = command.n /\ Len(handed.bytes) = Done
      /\ handed.n <= command.n /\ reply.n <= command.n
      /\ reply.n < command.n /\ command.kind \in Kinds /\ command.id \in Ids
      /\ ~Collecting => typed = 0
  BY <1>1, DataFacts DEF BytesGood
<1>6. CASE Listening(o)
  <2> DEFINE r == data[o]
  <2>1. data' = data /\ listeners' = listeners
    BY <1>6 DEF Waits
  <2>2. Collecting
    <3>1. OwnerGood(o)
      BY <1>2, DataFacts DEF OwnersGood
    <3> QED BY <1>6, <3>1 DEF OwnerGood, Listening
  <2>3. listeners = <<o>> /\ data[o].busy /\ data[o].listener = 0
    BY <2>2, DataFacts DEF ListenersGood, Registers
  <2>4. data' = [data EXCEPT ![o] = r]
    BY <1>2, <2>1, DataFacts
  <2>5. BytesGood'
    <3>1. Collecting'
      BY <2>1, <2>2 DEF Collecting
    <3>2. (command.kind = "cipsend" => conns[command.id].protocol) => OwnBytes
      BY <2>2, DataFacts DEF BytesGood
    <3>3. OwnBytes' <=> OwnBytes
      BY <1>1, <1>2, <1>3, <2>1 DEF OwnBytes
    <3>4. (command.kind = "cipsend" => conns[command.id].protocol)' => OwnBytes'
      BY <1>1, <3>2, <3>3
    <3> HIDE DEF o, b
    <3> QED BY <1>1, <1>3, <1>5, <3>1, <3>4 DEF BytesGood
  <2> HIDE DEF r
  <2> QED BY <1>1, <1>2, <1>3, <1>4, <2>1, <2>3, <2>4, <2>5, WaitsOrStores DEF r
<1>7. CASE ~Listening(o)
  <2> DEFINE r == [data[o] EXCEPT !.busy = TRUE, !.listener = 0]
  <2>1. data' = [data EXCEPT ![o].busy = TRUE, ![o].listener = Len(listeners)] /\ listeners' = Append(listeners, o)
    BY <1>7 DEF Waits, Registered
  <2>2. ~Collecting
    BY <1>7, DataFacts DEF ListenersGood, Registers, Listening
  <2>3. listeners = <<>> /\ Len(listeners) = 0 /\ listeners' = <<o>>
    <3>1. listeners = <<>>
      BY <2>2 DEF Collecting
    <3>2. Append(<<>>, o) = <<o>> /\ Len(<<>>) = 0
      OBVIOUS
    <3> QED BY <2>1, <3>1, <3>2
  <2>4. r \in DataRec /\ r.garbled = data[o].garbled /\ r.busy = TRUE /\ r.listener = 0 /\ r.buffer = b
    BY <1>2 DEF DataRec
  <2>5. data' = [data EXCEPT ![o] = r]
    <3>1. data \in [Owners -> DataRec] /\ o \in Owners /\ Len(listeners) = 0
      BY <1>2, <2>3, DataFacts
    <3>2. data' = [data EXCEPT ![o].busy = TRUE, ![o].listener = 0]
      BY <2>1, <3>1
    <3> HIDE DEF o
    <3> QED BY <3>1, <3>2
  <2>6. data'[o] = r
    BY <1>2, <2>5, DataFacts
  <2>7. (command.kind = "cipsend" => conns[command.id].protocol) => b = <<>>
    <3> SUFFICES ASSUME b # <<>>, command.kind = "cipsend" => conns[command.id].protocol
                 PROVE  FALSE
      OBVIOUS
    <3>1. PICK i \in Ids : o = Cip(i) /\ Unreached(i)
      BY <1>2, <2>2, Leftover
    <3>2. command.kind = "cipsend" /\ command.id = i
      <4>1. command.kind = "cipsend"
        BY <3>1, OwnerIs, OwnersApart
      <4> QED BY <1>5, <3>1, <4>1, OwnerIs, OwnersApart
    <3> QED BY <3>1, <3>2 DEF Unreached
  <2>8. BytesGood'
    <3>1. iterations = 0 /\ typed = 0 /\ Done = 0
      BY <1>1, <1>5, <2>2, RemainingIs
    <3>2. (command.kind = "cipsend" => conns[command.id].protocol)' => OwnBytes'
      <4> SUFFICES ASSUME (command.kind = "cipsend" => conns[command.id].protocol)'
                   PROVE  OwnBytes'
        OBVIOUS
      <4>1. command.kind = "cipsend" => conns[command.id].protocol
        BY <1>1
      <4>2. b = <<>>
        BY <2>7, <4>1
      <4>3. Len(<<>>) = 0
        OBVIOUS
      <4>4. data'[o'].buffer = <<>> /\ Len(data'[o'].buffer) = 0
        BY <1>2, <2>4, <2>6, <4>2, <4>3
      <4>5. typed' = 0 /\ Done' = 0
        BY <1>1, <1>3, <3>1
      <4> HIDE DEF r, b
      <4> QED BY <4>4, <4>5 DEF OwnBytes
    <3> HIDE DEF o, b, r
    <3> QED BY <1>1, <1>3, <1>5, <3>1, <3>2 DEF BytesGood
  <2> HIDE DEF r
  <2> QED BY <1>1, <1>2, <1>3, <1>4, <2>3, <2>4, <2>5, <2>8, WaitsOrStores
<1> QED BY <1>6, <1>7

(* The next command begins where the one before has left nothing. *)
LEMMA HostCommandStep == ASSUME DataInv, Steady, HostCommand PROVE DataInv'
<1>1. /\ phase = "idle" /\ phase' = "run" /\ typed' = 0 /\ command.n < MaxCommands
      /\ conns' = conns /\ modes' = modes /\ updating' = updating /\ handed' = handed /\ reply' = reply
      /\ \A i \in Ids : conns[i].pending = 0
  BY DEF HostCommand, Steady
<1>2. PICK kind \in Kinds, id \in Ids, length \in Lengths :
          command' = [kind |-> kind, id |-> id, length |-> length, n |-> command.n + 1]
  BY DEF HostCommand
<1>3. /\ data' = data /\ listeners' = listeners /\ escape' = escape /\ count' = count /\ iterations' = iterations
  BY <1>1 DEF modes
<1>4. /\ ~Collecting /\ ~Collecting' /\ iterations = 0
      /\ handed.n <= command.n /\ reply.n <= command.n /\ handed.n \in Nat /\ reply.n \in Nat /\ command.n \in Nat
  BY <1>1, <1>3, DataFacts DEF ListenersGood, BytesGood, Collecting
<1>5. length \in Nat /\ command.n + 1 \in 0 .. MaxCommands /\ 0 \in 0 .. MaxTyped
  BY <1>1, <1>4, BoundsAssumption, DataSetsAssumption
<1>6. DataTyped'
  <2>1. /\ listeners \in Seq(Owners) /\ escape \in [Services -> BOOLEAN] /\ count \in [Services -> 0 .. 2]
        /\ iterations \in Nat /\ updating \in BOOLEAN
        /\ handed.bytes \in Seq(Bytes) /\ reply.result \in DataResults
        /\ handed.n \in Nat /\ reply.n \in Nat /\ reply.length \in Nat
    BY DEF DataInv, DataTyped, ModeTypeOK
  <2>2. conns' \in [Ids -> ConnRec] /\ data' \in [Owners -> DataRec]
    BY <1>1, <1>3, DataFacts
  <2>3. command'.kind \in Kinds \cup {"none"} /\ command'.n \in 0 .. MaxCommands /\ command'.length \in Nat
    BY <1>2, <1>5
  <2> QED BY <1>1, <1>3, <1>5, <2>1, <2>2, <2>3 DEF DataTyped, ModeTypeOK, ConnRec, DataRec
<1>7. ConnsGood'
  <2>1. ASSUME NEW i \in Ids
        PROVE  ConnGood(i)'
    <3>1. ConnGood(i)
      BY DataFacts DEF ConnsGood
    <3> QED BY <1>1, <3>1 DEF ConnGood
  <2> QED BY <1>1, <2>1 DEF ConnsGood
<1>8. OwnersGood'
  <2> SUFFICES ASSUME NEW p \in Owners
               PROVE  OwnerGood(p)'
    BY DEF OwnersGood
  <2>1. /\ ~data[p].garbled /\ ~data[p].busy
        /\ p = Http => data[p].listener = -1
        /\ data[p].buffer # <<>> => \E i \in Ids : p = Cip(i) /\ Unreached(i)
    BY <1>4, Leftover
  <2> QED BY <1>1, <1>3, <2>1 DEF OwnerGood, Unreached
<1>9. ListenersGood'
  <2>1. \A s \in Services : ~escape[s]
    BY <1>1, NobodyEscapes
  <2> QED BY <1>1, <1>3, <1>4, <2>1 DEF ListenersGood, EscapeGood
<1>10. BytesGood'
  <2>1. command'.n = command.n + 1 /\ command'.kind \in Kinds /\ command'.id \in Ids
    BY <1>2
  <2> QED BY <1>1, <1>3, <1>4, <2>1 DEF BytesGood
<1>11. Transferred'
  <2>1. HandedExactly /\ EscapedSendsNothing
    BY DEF DataInv, Transferred
  <2> QED BY <1>1, <2>1 DEF Transferred, HandedExactly, AllDelivered, EscapedSendsNothing
<1> QED BY <1>6, <1>7, <1>8, <1>9, <1>10, <1>11 DEF DataInv

-----------------------------------------------------------------------------
(* The only listener is called once. *)
Before == [data |-> data, count |-> count, escape |-> escape, called |-> {}, raised |-> FALSE]

LEMMA OneTold ==
    ASSUME NEW o, listeners = <<o>>, NEW chunk
    PROVE  Told(chunk) = Called(Before, o, chunk)
<1> DEFINE Body(f) == [k \in 0 .. Len(listeners) |->
                         IF k = 0 THEN [data |-> data, count |-> count, escape |-> escape, called |-> {}, raised |-> FALSE]
                         ELSE Called(f[k - 1], listeners[k], chunk)]
           all == CHOOSE f : f = Body(f)
           one == Called(Before, o, chunk)
           g == [k \in 0 .. 1 |-> IF k = 0 THEN Before ELSE one]
<1>1. Len(listeners) = 1 /\ listeners[1] = o
  OBVIOUS
<1>2. g = Body(g)
  <2> DEFINE body == [k \in 0 .. 1 |-> IF k = 0 THEN Before ELSE Called(g[k - 1], listeners[k], chunk)]
  <2>1. Body(g) = body
    BY <1>1 DEF Before
  <2>2. ASSUME NEW k \in 0 .. 1
        PROVE  (IF k = 0 THEN Before ELSE Called(g[k - 1], listeners[k], chunk)) = IF k = 0 THEN Before ELSE one
    <3>1. CASE k = 0
      BY <3>1
    <3>2. CASE k # 0
      <4>1. k = 1
        BY <3>2
      <4>2. g[0] = Before
        OBVIOUS
      <4> HIDE DEF g
      <4> QED BY <1>1, <4>1, <4>2
    <3> QED BY <3>1, <3>2
  <2> HIDE DEF one
  <2>3. body = g
    BY <2>2
  <2> QED BY <2>1, <2>3
<1>3. all = Body(all)
  <2> HIDE DEF g
  <2> QED BY <1>2
<1>4. all[1] = one
  <2> HIDE DEF all
  <2>1. all[0] = Before
    <3>1. 0 \in 0 .. Len(listeners)
      BY <1>1
    <3> QED BY <1>3, <3>1 DEF Before
  <2>2. all[1] = Called(all[0], listeners[1], chunk)
    <3>1. 1 \in 0 .. Len(listeners) /\ 1 # 0 /\ 1 - 1 = 0
      BY <1>1
    <3> QED BY <1>3, <3>1
  <2> QED BY <1>1, <2>1, <2>2
<1>5. Told(chunk) = all[Len(listeners)]
  BY DEF Told
<1> HIDE DEF all, one
<1> QED BY <1>1, <1>4, <1>5 DEF one

(* A listener that is given text takes it and counts the plus signs. *)
LEMMA TakesText ==
    ASSUME DataInv, NEW o \in Owners, ~data[o].garbled, NEW chunk, chunk.text = TRUE, chunk.wide = FALSE
    PROVE  LET after == Called(Before, o, chunk)
               c == count[Service(o)]
           IN  /\ after.raised = FALSE
               /\ after.data = [data EXCEPT ![o] = [data[o] EXCEPT !.buffer = data[o].buffer \o chunk.bytes, !.garbled = FALSE]]
               /\ after.count = [count EXCEPT ![Service(o)] = Count(c, chunk.plus, chunk.quick)]
               /\ after.escape = [escape EXCEPT ![Service(o)] = escape[Service(o)] \/ Third(c, chunk.plus, chunk.quick)]
<1> DEFINE c == count[Service(o)]
           grown == data[o].buffer \o chunk.bytes
           kept == [data[o] EXCEPT !.buffer = grown, !.garbled = FALSE]
           after == Called(Before, o, chunk)
           s == Service(o)
           garbled == ~chunk.text \/ (s = "cip" /\ Before.data[o].garbled)
           taken == IF o = Http THEN Characters(chunk) ELSE chunk.bytes
           kept0 == [Before.data[o] EXCEPT !.buffer = Before.data[o].buffer \o taken, !.garbled = garbled /\ s = "cip"]
           more == Before.called \cup {s}
           n == Count(Before.count[s], chunk.plus /\ ~garbled, chunk.quick \/ s \in Before.called)
           third == Before.escape[s] \/ Third(Before.count[s], chunk.plus /\ ~garbled, chunk.quick \/ s \in Before.called)
<1>2. /\ Before.data = data /\ Before.count = count /\ Before.escape = escape /\ Before.called = {}
      /\ Before.raised = FALSE
  BY DEF Before
<1>3. ~garbled /\ (chunk.plus /\ ~garbled <=> chunk.plus) /\ (chunk.quick \/ s \in Before.called <=> chunk.quick)
  BY <1>2
<1>4. after = [Before EXCEPT !.data[o] = kept0, !.called = more, !.count[s] = n, !.escape[s] = third]
  BY <1>2, <1>3 DEF Called
<1>5. kept0 = kept
  <2>1. taken = chunk.bytes
    BY DEF Characters
  <2> QED BY <1>2, <1>3, <2>1
<1>6. n = Count(c, chunk.plus, chunk.quick)
  BY <1>2, <1>3 DEF Count
<1>7. third <=> (escape[s] \/ Third(c, chunk.plus, chunk.quick))
  BY <1>2, <1>3 DEF Third
<1> HIDE DEF taken, kept0, more, n, third, kept, c, garbled, s
<1>8. /\ after.data = [data EXCEPT ![o] = kept0] /\ after.count = [count EXCEPT ![s] = n]
      /\ after.escape = [escape EXCEPT ![s] = third] /\ after.raised = FALSE
  BY <1>4 DEF Before
<1> QED BY <1>5, <1>6, <1>7, <1>8 DEF kept, c, s

(* What has been collected of a payload grows by what was typed. *)
LEMMA HostTypesStep == ASSUME DataInv, Steady, HostTypes PROVE DataInv'
<1>1. PICK size \in 1 .. 2, plus, quick, text, wide \in BOOLEAN :
          /\ plus => text /\ command.kind \in Escapes
          /\ ~text => "binary" \in Faults
          /\ wide => "wide" \in Faults
          /\ Chunk(size, plus, quick, text, wide)
  BY DEF HostTypes
<1> DEFINE o == Owner
           b == data[o].buffer
           bytes == [j \in 1 .. size |-> <<command.n, typed + j>>]
           grown == b \o bytes
           r == [data[o] EXCEPT !.buffer = grown, !.garbled = FALSE]
           s == Service(o)
           chunk == [bytes |-> bytes, plus |-> plus, quick |-> quick, text |-> text, wide |-> wide]
           after == Told(chunk)
<1>2. text = TRUE /\ wide = FALSE /\ (plus => command.kind # "fwsend")
  BY <1>1 DEF Steady
<1>3. /\ phase = "data" /\ typed + size <= MaxTyped /\ typed' = typed + size
      /\ data' = after.data /\ count' = after.count /\ escape' = after.escape
      /\ phase' = (IF after.raised THEN phase ELSE "run")
      /\ conns' = conns /\ listeners' = listeners /\ iterations' = iterations /\ updating' = updating
      /\ command' = command /\ handed' = handed /\ reply' = reply
  BY <1>1 DEF Chunk
<1>4. /\ Collecting /\ Registers /\ o \in Owners /\ data[o] \in DataRec /\ ~data[o].garbled /\ b \in Seq(Bytes)
      /\ listeners = <<o>> /\ s \in Services
  BY <1>3, DataFacts, OwnersApart DEF ListenersGood, Registers, OwnersGood, OwnerGood, DataRec
<1>5. command.n \in 1 .. MaxCommands /\ typed \in Nat /\ typed + size \in 0 .. MaxTyped /\ MaxTyped \in Nat
  <2>1. command.n \in 0 .. MaxCommands
    BY DEF DataInv, DataTyped, ModeTypeOK
  <2>2. reply.n < command.n /\ reply.n \in Nat /\ typed \in Nat
    BY <1>3, DataFacts DEF BytesGood
  <2> QED BY <1>3, <2>1, <2>2, BoundsAssumption
<1>6. bytes \in Seq(Bytes) /\ Len(bytes) = size
  <2>1. ASSUME NEW j \in 1 .. size
        PROVE  <<command.n, typed + j>> \in Bytes
    <3>1. typed + j \in 1 .. MaxTyped
      BY <1>3, <1>5
    <3> QED BY <1>5, <3>1 DEF Bytes
  <2>2. bytes \in [1 .. size -> Bytes]
    BY <2>1
  <2>3. size \in Nat
    OBVIOUS
  <2> HIDE DEF bytes
  <2>4. bytes \in Seq(Bytes)
    BY <2>2, <2>3, IsASeq
  <2> QED BY <2>2, <2>3, <2>4, LenProperties
<1>7. /\ grown \in Seq(Bytes) /\ Len(grown) = Len(b) + size /\ Len(b) \in Nat
      /\ \A j \in 1 .. Len(b) + size : grown[j] = IF j <= Len(b) THEN b[j] ELSE bytes[j - Len(b)]
  <2> HIDE DEF b, bytes
  <2> QED BY <1>4, <1>6, Behind, LenProperties
<1>8. /\ after.raised = FALSE
      /\ after.data = [data EXCEPT ![o] = r]
      /\ after.count = [count EXCEPT ![s] = Count(count[s], plus, quick)]
      /\ after.escape = [escape EXCEPT ![s] = escape[s] \/ Third(count[s], plus, quick)]
  <2> HIDE DEF bytes
  <2>1. chunk.bytes = bytes /\ chunk.text = TRUE /\ chunk.wide = FALSE /\ (chunk.plus <=> plus) /\ (chunk.quick <=> quick)
    BY <1>2
  <2>3. /\ Count(count[s], chunk.plus, chunk.quick) = Count(count[s], plus, quick)
        /\ Third(count[s], chunk.plus, chunk.quick) <=> Third(count[s], plus, quick)
    BY <2>1 DEF Count, Third
  <2>2. Told(chunk) = Called(Before, o, chunk)
    BY <1>4, OneTold
  <2> HIDE DEF chunk, o
  <2> DEFINE told == Called(Before, o, chunk)
             c == count[Service(o)]
  <2>4. /\ told.raised = FALSE
        /\ told.data = [data EXCEPT ![o] = [data[o] EXCEPT !.buffer = data[o].buffer \o chunk.bytes, !.garbled = FALSE]]
        /\ told.count = [count EXCEPT ![Service(o)] = Count(c, chunk.plus, chunk.quick)]
        /\ told.escape = [escape EXCEPT ![Service(o)] = escape[Service(o)] \/ Third(c, chunk.plus, chunk.quick)]
    BY <1>4, <2>1, TakesText
  <2>5. after = told
    BY <2>2
  <2>6. (escape[Service(o)] \/ Third(c, chunk.plus, chunk.quick)) = (escape[Service(o)] \/ Third(c, plus, quick))
    BY <2>3
  <2> HIDE DEF told
  <2> QED BY <2>1, <2>3, <2>4, <2>5, <2>6
<1> HIDE DEF after
<1>9. phase' = "run" /\ data' = [data EXCEPT ![o] = r] /\ (Collecting' <=> Collecting) /\ o' = o /\ Done' = Done
      /\ Remaining' = Remaining
  BY <1>3, <1>8 DEF Collecting, Owner, Done, Remaining
<1>10. /\ r \in DataRec /\ r.garbled = FALSE /\ r.busy = data[o].busy /\ r.listener = data[o].listener /\ r.buffer = grown
  <2> HIDE DEF grown
  <2> QED BY <1>4, <1>7 DEF DataRec
<1> HIDE DEF r
<1>11. data' \in [Owners -> DataRec] /\ data'[o] = r /\ \A p \in Owners : p # o => data'[p] = data[p]
  BY <1>4, <1>9, <1>10, DataFacts
<1>12. count' \in [Services -> 0 .. 2] /\ escape' \in [Services -> BOOLEAN]
       /\ \A t \in Services : escape'[t] => t = s /\ plus
  <2>1. count \in [Services -> 0 .. 2] /\ escape \in [Services -> BOOLEAN]
    BY DEF DataInv, DataTyped, ModeTypeOK
  <2>2. \A t \in Services : ~escape[t]
    BY <1>3, NobodyEscapes
  <2> DEFINE n == Count(count[s], plus, quick)
             third == escape[s] \/ Third(count[s], plus, quick)
  <2>3. n \in 0 .. 2
    <3>1. count[s] \in 0 .. 2
      BY <1>4, <2>1
    <3> QED BY <3>1 DEF Count
  <2>4. third \in BOOLEAN /\ (third => plus)
    BY <1>4, <2>2 DEF Third
  <2> HIDE DEF n, third
  <2>5. count' = [count EXCEPT ![s] = n] /\ escape' = [escape EXCEPT ![s] = third]
    BY <1>3, <1>8 DEF n, third
  <2> HIDE DEF s
  <2> QED BY <1>4, <2>1, <2>2, <2>3, <2>4, <2>5
<1>13. DataTyped'
  <2>1. /\ listeners \in Seq(Owners) /\ iterations \in Nat /\ updating \in BOOLEAN
        /\ command.kind \in Kinds \cup {"none"} /\ command.n \in 0 .. MaxCommands
        /\ handed.bytes \in Seq(Bytes) /\ reply.result \in DataResults
    BY DEF DataInv, DataTyped, ModeTypeOK
  <2>2. command.length \in Nat /\ handed.n \in Nat /\ reply.n \in Nat /\ reply.length \in Nat
    BY DEF DataInv, DataTyped
  <2>3. conns' \in [Ids -> ConnRec] /\ typed' \in 0 .. MaxTyped /\ phase' \in {"idle", "run", "data", "dial", "store"}
    BY <1>3, <1>5, <1>9, DataFacts
  <2>4. data' \in [Owners -> DataRec]
    BY <1>11
  <2> QED BY <1>3, <1>12, <2>1, <2>2, <2>3, <2>4 DEF DataTyped, ModeTypeOK, ConnRec, DataRec
<1>14. /\ \A i \in Ids : ConnGood(i)' /\ (Unreached(i)' <=> Unreached(i))
  BY <1>3, ConnsStay
<1>15. ConnsGood'
  BY <1>9, <1>14 DEF ConnsGood
<1>16. OwnersGood'
  <2> SUFFICES ASSUME NEW p \in Owners
               PROVE  OwnerGood(p)'
    BY DEF OwnersGood
  <2>1. CASE p = o
    <3>1. data'[p].garbled = FALSE /\ Collecting' /\ p = Owner'
      BY <1>4, <1>9, <1>10, <1>11, <2>1
    <3> QED BY <3>1 DEF OwnerGood
  <2>2. CASE p # o
    <3>1. data'[p] = data[p]
      BY <1>11, <2>2
    <3>2. /\ ~data[p].garbled /\ ~data[p].busy
          /\ p = Http => data[p].listener = -1
          /\ data[p].buffer # <<>> => \E i \in Ids : p = Cip(i) /\ Unreached(i)
      BY <2>2, Leftover
    <3> QED BY <1>14, <3>1, <3>2 DEF OwnerGood
  <2> QED BY <2>1, <2>2
<1>17. ListenersGood'
  <2>1. Registers'
    <3>1. data'[o'].busy = data[o].busy /\ data'[o'].listener = data[o].listener
      BY <1>9, <1>10, <1>11
    <3>2. Ready'
      BY <1>3, <1>4 DEF Registers, Ready
    <3> QED BY <1>3, <1>4, <1>9, <3>1, <3>2 DEF Registers
  <2>2. \A t \in Services : EscapeGood(t)'
    BY <1>2, <1>3, <1>4, <1>9, <1>12 DEF EscapeGood
  <2> QED BY <1>4, <1>9, <2>1, <2>2 DEF ListenersGood
<1>18. BytesGood'
  <2>1. (command.kind = "cipsend" => conns[command.id].protocol) => OwnBytes'
    <3> SUFFICES ASSUME command.kind = "cipsend" => conns[command.id].protocol
                 PROVE  OwnBytes'
      OBVIOUS
    <3>1. Len(b) = typed - Done /\ \A j \in 1 .. Len(b) : b[j] = <<command.n, Done + j>>
      BY <1>4, DataFacts DEF BytesGood, OwnBytes
    <3>2. Done \in Nat /\ \A j \in 1 .. size : bytes[j] = <<command.n, typed + j>>
      BY DataFacts
    <3> HIDE DEF b, bytes, grown, o
    <3>3. ASSUME NEW j \in 1 .. Len(grown)
          PROVE  grown[j] = <<command.n, Done + j>>
      <4>1. j \in 1 .. Len(b) + size
        BY <1>7
      <4>2. CASE j <= Len(b)
        BY <1>7, <3>1, <4>1, <4>2
      <4>3. CASE ~(j <= Len(b))
        <5>1. j - Len(b) \in 1 .. size /\ typed + (j - Len(b)) = Done + j
          <6>1. Len(b) \in Nat /\ Done \in Nat /\ typed \in Nat /\ Len(b) = typed - Done /\ size \in Nat /\ j \in Int
            BY <1>5, <1>7, <3>1, <3>2, <4>1
          <6>2. 1 <= j /\ j <= Len(b) + size /\ ~(j <= Len(b))
            BY <4>1, <4>3, <6>1
          <6> QED BY <6>1, <6>2
        <5>2. grown[j] = bytes[j - Len(b)]
          BY <1>7, <4>1, <4>3
        <5> QED BY <3>2, <5>1, <5>2
      <4> QED BY <4>2, <4>3
    <3>4. Len(grown) = typed' - Done'
      BY <1>3, <1>5, <1>7, <1>9, <3>1, <3>2
    <3>5. data'[o'].buffer = grown
      BY <1>9, <1>10, <1>11
    <3> QED BY <1>3, <1>9, <3>3, <3>4, <3>5 DEF OwnBytes, o
  <2>2. BytesGood
    BY DataFacts
  <2> HIDE DEF o, b, bytes, grown, s
  <2> QED BY <1>3, <1>4, <1>9, <2>1, <2>2 DEF BytesGood
<1>19. Transferred'
  <2>1. HandedExactly /\ EscapedSendsNothing
    BY DEF DataInv, Transferred
  <2> QED BY <1>3, <1>9, <2>1 DEF Transferred, HandedExactly, AllDelivered, EscapedSendsNothing
<1> QED BY <1>13, <1>15, <1>16, <1>17, <1>18, <1>19 DEF DataInv

-----------------------------------------------------------------------------
LEMMA DataInitially == ASSUME DataInit PROVE DataInv
<1>1. /\ conns = [i \in Ids |-> NoEndpoint] /\ data = [o \in Owners |-> NoPayload] /\ listeners = <<>>
      /\ escape = [s \in Services |-> FALSE] /\ count = [s \in Services |-> 0]
      /\ iterations = 0 /\ updating = FALSE /\ phase = "idle" /\ typed = 0
      /\ command = [kind |-> "none", id |-> 0, length |-> 0, n |-> 0]
      /\ handed = [n |-> 0, bytes |-> <<>>]
      /\ reply = [kind |-> "none", length |-> 0, n |-> 0, result |-> "none"]
  BY DEF DataInit
<1>2. 0 \in 0 .. MaxCommands /\ 0 \in 0 .. MaxTyped /\ <<>> \in Seq(Bytes) /\ <<>> \in Seq(Owners) /\ Len(<<>>) = 0
  BY BoundsAssumption, EmptySeq
<1>3. /\ NoEndpoint \in ConnRec /\ NoEndpoint.pending = 0 /\ ~NoEndpoint.protocol
  <2> DEFINE m == 0 .. MaxCommands
  <2>1. 0 \in m
    BY <1>2
  <2> HIDE DEF m
  <2>2. NoEndpoint \in [connected : BOOLEAN, type : {"", "udp", "tcp", "ssl"}, ssl : BOOLEAN, protocol : BOOLEAN, pending : m]
    BY <2>1 DEF NoEndpoint
  <2>3. NoEndpoint.pending = 0 /\ ~NoEndpoint.protocol
    BY DEF NoEndpoint
  <2> QED BY <2>2, <2>3 DEF m, ConnRec
<1>4. conns \in [Ids -> ConnRec] /\ data \in [Owners -> DataRec]
  BY <1>1, <1>3, Cleared
<1>5. ~Collecting
  BY <1>1 DEF Collecting
<1>6. DataTyped
  <2>1. reply.result \in DataResults /\ handed.bytes \in Seq(Bytes) /\ command.kind \in Kinds \cup {"none"}
    BY <1>1, <1>2 DEF DataResults
  <2>2. command.n = 0 /\ command.length = 0 /\ handed.n = 0 /\ reply.n = 0 /\ reply.length = 0
    BY <1>1
  <2>3. escape \in [Services -> BOOLEAN] /\ count \in [Services -> 0 .. 2] /\ listeners \in Seq(Owners)
    BY <1>1, <1>2
  <2> QED BY <1>1, <1>2, <1>4, <2>1, <2>2, <2>3 DEF DataTyped, ModeTypeOK, ConnRec, DataRec
<1>7. ConnsGood
  <2>1. ASSUME NEW i \in Ids
        PROVE  ConnGood(i)
    <3>1. conns[i] = NoEndpoint
      BY <1>1
    <3> QED BY <1>3, <3>1 DEF ConnGood
  <2> QED BY <1>1, <2>1 DEF ConnsGood
<1>8. OwnersGood
  <2>1. ASSUME NEW o \in Owners
        PROVE  OwnerGood(o)
    <3>1. data[o] = NoPayload
      BY <1>1
    <3> QED BY <3>1, Cleared DEF OwnerGood
  <2> QED BY <2>1 DEF OwnersGood
<1>9. ListenersGood
  BY <1>1, <1>5 DEF ListenersGood, EscapeGood
<1>10. BytesGood
  <2>1. command.n = 0 /\ handed.n = 0 /\ reply.n = 0
    BY <1>1
  <2> QED BY <1>1, <1>5, <2>1 DEF BytesGood
<1>11. Transferred
  BY <1>1, <1>2, EmptySeq DEF Transferred, HandedExactly, AllDelivered, EscapedSendsNothing
<1> QED BY <1>6, <1>7, <1>8, <1>9, <1>10, <1>11 DEF DataInv

LEMMA DataStays == ASSUME DataInv, UNCHANGED dataMode PROVE DataInv'
<1>1. /\ conns' = conns /\ data' = data /\ listeners' = listeners /\ escape' = escape /\ count' = count
      /\ iterations' = iterations /\ updating' = updating /\ phase' = phase /\ command' = command
      /\ typed' = typed /\ handed' = handed /\ reply' = reply
  BY DEF dataMode
<1>2. Owner' = Owner /\ Remaining' = Remaining /\ Done' = Done /\ (Ready' <=> Ready) /\ (Collecting' <=> Collecting)
  BY <1>1 DEF Owner, Remaining, Done, Ready, Collecting
<1>3. DataTyped'
  BY <1>1 DEF DataInv, DataTyped, ModeTypeOK
<1>4. ConnsGood' /\ OwnersGood'
  BY <1>1, <1>2 DEF DataInv, ConnsGood, ConnGood, OwnersGood, OwnerGood, Unreached
<1>5. ListenersGood'
  BY <1>1, <1>2 DEF DataInv, ListenersGood, Registers, EscapeGood
<1>6. BytesGood' /\ Transferred'
  BY <1>1, <1>2 DEF DataInv, BytesGood, OwnBytes, Transferred, HandedExactly, AllDelivered, EscapedSendsNothing
<1> QED BY <1>3, <1>4, <1>5, <1>6 DEF DataInv

LEMMA DataSteps ==
    ASSUME Steady, DataInv, [DataNext]_dataMode, ~PartRefused, LastPartRefused => iterations = 0
    PROVE  DataInv'
<1>1. CASE UNCHANGED dataMode
  BY <1>1, DataStays
<1>2. CASE HostCommand
  BY <1>2, HostCommandStep
<1>3. CASE HostTypes
  BY <1>3, HostTypesStep
<1>4. CASE Execute
  BY <1>4, NotReadyStep, EscapedStep, CollectedRaisesStep, SendWrittenStep, HttpRequestedStep, HttpNeverFails,
     FileCollectedStep, LastPartSentStep, LastPartRefusedStep, PartSentStep, WaitsStep, CloseStep, ConfigureSslStep,
     ConfigureHttpStep, StartStep DEF Execute
<1>5. CASE Loop
  BY <1>5, FileStoredStep, StreamMadeStep, DialEnds DEF Loop
<1>6. CASE Environment
  <2>1. PICK i \in Ids : DatagramMade(i) \/ Lost(i)
    BY <1>6 DEF Environment
  <2> QED BY <2>1, DatagramMadeStep, LostStep
<1>7. CASE Updating
  BY <1>7, UpdatingStep
<1> QED BY <1>1, <1>2, <1>3, <1>4, <1>5, <1>6, <1>7 DEF DataNext

(* Only a part that the update refuses, or a request that fails, leaves a part of a payload. *)
LEMMA LeavesParts ==
    ASSUME [DataNext]_dataMode
    PROVE  /\ stale \subseteq stale'
           /\ ~PartRefused /\ ~(LastPartRefused /\ iterations # 0) /\ ~HttpFails => stale' = stale
           /\ PartRefused \/ (LastPartRefused /\ iterations # 0) => "files" \in stale'
<1>0. /\ HttpFails => stale' = stale \cup {"http"}
      /\ PartRefused => stale' = stale \cup {"files"}
      /\ LastPartRefused => stale' = IF iterations = 0 THEN stale ELSE stale \cup {"files"}
  BY DEF HttpFails, PartRefused, LastPartRefused
<1>1. CASE Execute
  <2>1. NotReady \/ Escaped \/ CollectedRaises \/ SendWritten \/ HttpRequested \/ FileCollected => stale' = stale
    BY DEF NotReady, Escaped, CollectedRaises, SendWritten, HttpRequested, FileCollected
  <2>2. LastPartSent \/ PartSent \/ Waits \/ Close \/ ConfigureSsl \/ ConfigureHttp \/ Start => stale' = stale
    BY DEF LastPartSent, PartSent, Waits, Close, ConfigureSsl, ConfigureHttp, Start
  <2>3. stale' = stale \/ HttpFails \/ PartRefused \/ LastPartRefused
    BY <1>1, <2>1, <2>2 DEF Execute
  <2> QED BY <1>0, <2>3
<1>2. CASE ~Execute
  <2>1. stale' = stale
    <3>0. ASSUME NEW size \in 1 .. 2, NEW plus \in BOOLEAN, NEW quick \in BOOLEAN, NEW text \in BOOLEAN,
                 NEW wide \in BOOLEAN, Chunk(size, plus, quick, text, wide)
          PROVE  stale' = stale
      BY <3>0 DEF Chunk
    <3>1. HostCommand \/ HostTypes \/ Updating \/ UNCHANGED dataMode => stale' = stale
      BY <3>0 DEF HostCommand, HostTypes, Updating, dataMode
    <3>2. Loop => stale' = stale
      BY DEF Loop, FileStored, StreamMade, Dialled, DialledLost, DialFails
    <3>3. Environment => stale' = stale
      BY DEF Environment, DatagramMade, Lost
    <3> QED BY <1>2, <3>1, <3>2, <3>3 DEF DataNext
  <2>2. ~PartRefused /\ ~LastPartRefused
    BY <1>2 DEF Execute
  <2> QED BY <2>1, <2>2
<1> QED BY <1>1, <1>2

(* Nothing is left of a payload, or a part of a firmware. *)
DataSafe == "files" \in stale \/ (stale = {} /\ DataInv)

LEMMA DataInvariant == Steady => (DataSpec => []DataSafe)
<1> SUFFICES ASSUME Steady
             PROVE  DataSpec => []DataSafe
  OBVIOUS
<1>1. DataInit => DataSafe
  BY DataInitially DEF DataInit, DataSafe
<1>2. ASSUME DataSafe, [DataNext]_dataMode
      PROVE  DataSafe'
  <2>1. CASE "files" \in stale
    BY <1>2, <2>1, LeavesParts DEF DataSafe
  <2>2. CASE PartRefused \/ (LastPartRefused /\ iterations # 0)
    BY <1>2, <2>2, LeavesParts DEF DataSafe
  <2>3. CASE stale = {} /\ DataInv /\ ~PartRefused /\ ~(LastPartRefused /\ iterations # 0)
    <3>1. ~HttpFails
      BY <2>3, HttpNeverFails
    <3>2. DataInv'
      BY <1>2, <2>3, DataSteps
    <3> QED BY <1>2, <2>3, <3>1, <3>2, LeavesParts DEF DataSafe
  <2> QED BY <1>2, <2>1, <2>2, <2>3 DEF DataSafe
<1>3. DataSafe /\ [DataNext]_dataMode => DataSafe'
  BY <1>2
<1> QED BY <1>1, <1>3, PTL DEF DataSpec

(* Between two commands nothing is left over, no listener, no transfer in process and no   *)
(* endpoint of a closed connection, and the variables have their types, until the update   *)
(* refuses a part of an AT+FWSEND: for any connections, commands, lengths and buffer size, *)
(* when peers vanish between two commands or before AT+CIPSTART is answered, the text is   *)
(* UTF-8, that for HTTP ASCII, requests succeed, and the host stays in AT+FWSEND.          *)
THEOREM LeavesNothing ==
    ASSUME Faults \subseteq {"early", "chunk"}, "fwsend" \notin Escapes
    PROVE  DataSpec => []NothingLeftOver
<1>1. DataSafe => NothingLeftOver
  <2> SUFFICES ASSUME DataInv, stale = {}
               PROVE  NothingLeftOver
    BY DEF DataSafe, NothingLeftOver
  <2>1. DataTypeOK
    BY DEF DataInv, DataTyped, DataTypeOK
  <2>2. DataModeListens
    BY DataFacts DEF DataModeListens, ListenersGood, Registers, Collecting
  <2>3. TransferIsReal
    <3> SUFFICES ASSUME data[Files].busy
                 PROVE  phase # "idle" /\ command.kind \in {"filesup", "fwsend"}
      BY DEF TransferIsReal
    <3>1. Collecting /\ Files = Owner
      BY OwnersApart, DataFacts DEF OwnersGood, OwnerGood
    <3>2. phase # "idle" /\ command.kind \in PayloadKinds
      BY <3>1, DataFacts DEF ListenersGood, Registers
    <3>3. command.kind = "cipsend" => command.id \in Ids
      BY <3>2, IdsAre
    <3> QED BY <3>1, <3>2, <3>3, OwnerIs, OwnersApart DEF PayloadKinds
  <2>4. ClosedIsClosed
    BY DataFacts DEF ConnsGood, ConnGood, ClosedIsClosed
  <2> QED BY <2>1, <2>2, <2>3, <2>4 DEF NothingLeftOver
<1>2. Steady
  BY DEF Steady
<1>3. DataSpec => []DataSafe
  BY <1>2, DataInvariant
<1> QED BY <1>1, <1>3, PTL

(* Every command hands over its own payload, in order, all of it when it answers OK and   *)
(* nothing when the host has escaped from it: under the same conditions, and until the    *)
(* update has refused a part as well.                                                     *)
THEOREM TransfersAreRight ==
    ASSUME Faults \subseteq {"early", "chunk"}, "fwsend" \notin Escapes
    PROVE  DataSpec => []TransfersRight
<1>1. DataSafe => TransfersRight
  BY DEF DataSafe, DataInv, Transferred, HandedExactly, TransfersRight, PayloadIntact
<1>2. Steady
  BY DEF Steady
<1>3. DataSpec => []DataSafe
  BY <1>2, DataInvariant
<1> QED BY <1>1, <1>3, PTL
=============================================================================
