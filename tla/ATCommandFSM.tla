----------------------------- MODULE ATCommandFSM -----------------------------
(***************************************************************************)
(* The finite state machine of the AT interface (at_interface/fsm.py) and  *)
(* its host on the serial line.                                            *)
(*                                                                         *)
(* Every chunk that arrives gets a task of its own (data_received), which  *)
(* handles the chunk and triggers input_received; the triggers that follow *)
(* run nested in that task.  A transition of the library cancels every     *)
(* other task that is inside a trigger, and awaits the callbacks of the    *)
(* state it leaves and of the state it enters.  So at most one task is     *)
(* alive, and what it does next is the variable step:                      *)
(*   "enter"   the entry callback of the current state is to run           *)
(*   "exit"    the exit callback of validate_command is to run             *)
(*   "change"  that callback has run, the state is to change to dest       *)
(*   "await"   a command is suspended in its execute                       *)
(*   "none"    no task is alive                                            *)
(***************************************************************************)
EXTENDS LineEdit

CONSTANTS
    Commands,      \* the commands the host sends
    Text,          \* Text[c]: the symbols of command c
    Slow,          \* commands whose execute awaits something
    Data,          \* commands that ask for a payload: execute returns (False, "") until it is there
    Raising,       \* slow commands whose execute may raise
    Payload,       \* the payload the host sends after the prompt
    Lines,         \* what the host may send: texts, each followed by CR
    MaxLines       \* bound on the lines the host sends

NoCommand == "none"    \* lookup_command found nothing
Empty     == "empty"   \* EmptyCommand

ASSUME SetsAssumption == Slow \cup Data \cup Raising \subseteq Commands /\ Raising \subseteq Slow
ASSUME TextAssumption == Text \in [Commands -> Seq(Symbols)]
ASSUME HostAssumption == Lines \subseteq Seq(Keys) /\ Payload \in Seq(Keys)

VARIABLES
    state, buffer, current,   \* the state, the command buffer and the current command
    step, dest,               \* what the live task does next, and the state it is changing to
    listening, got,            \* a listener is registered; how much of the payload has come
    todo,                     \* what the host has still to send of the line or payload
    sent, ran, answers,       \* lines sent, commands started, answers given
    polite                    \* the host sends nothing while it waits for an answer, and what
                              \* its commands await does not fail

vars == <<state, buffer, current, step, dest, listening, got, todo, sent, ran, answers, polite>>
fsm  == <<state, buffer, current, step, dest, listening, got>>
log  == <<ran, answers, polite>>

States == {"idle", "analyze_input", "validate_command", "process_command"}
Steps  == {"enter", "exit", "change", "await", "none"}

Init ==
    /\ state = "idle" /\ buffer = <<>> /\ current = NoCommand
    /\ step = "none" /\ dest = "idle"
    /\ listening = FALSE /\ got = 0
    /\ todo = <<>>
    /\ sent = <<>> /\ ran = <<>> /\ answers = 0
    /\ polite \in BOOLEAN

(* lookup_command: the buffer without the white space around it. *)
Strip(b) ==
    LET text == {i \in 1..Len(b) : b[i] # CR}
    IN  IF text = {} THEN <<>>
        ELSE SubSeq(b, CHOOSE i \in text : \A j \in text : i <= j,
                       CHOOSE i \in text : \A j \in text : j <= i)

Lookup(b) ==
    IF Strip(b) = <<>> THEN Empty
    ELSE IF \E c \in Commands : Text[c] = Strip(b)
         THEN CHOOSE c \in Commands : Text[c] = Strip(b)
         ELSE NoCommand

-----------------------------------------------------------------------------
(* A transition up to its first suspension: the other tasks are cancelled; only *)
(* validate_command has an exit callback.                                       *)
Trigger(target) ==
    IF state = "validate_command"
    THEN step' = "exit" /\ dest' = target /\ UNCHANGED state
    ELSE step' = "enter" /\ state' = target /\ dest' = target

(* on_input_received and input_received: the chunk goes to the buffer, to the *)
(* listeners, or nowhere; then the state is entered (again).                  *)
Receive(chunk) ==
    /\ buffer' = IF state \in {"idle", "analyze_input"} THEN Edit(buffer, chunk) ELSE buffer
    /\ got' = IF state = "process_command" /\ listening THEN got + Len(chunk) ELSE got
    /\ Trigger(IF state = "idle" THEN "analyze_input" ELSE state)
    /\ UNCHANGED <<current, listening>>

(* The host sends the next part of what it has to send; the serial driver *)
(* delivers it in chunks of any size.                                     *)
HostSends(n) ==
    /\ n \in 1..Len(todo)
    /\ Receive(SubSeq(todo, 1, n))
    /\ todo' = SubSeq(todo, n + 1, Len(todo))
    /\ UNCHANGED <<sent, log>>

(* The example client (ATSession.execute_command) writes a command when the one *)
(* before has been answered, and it looks for the answer every 0.1 s: the loop  *)
(* is at rest by then.                                                          *)
AtRest == step = "none" /\ answers = Len(sent)

HostStartsLine ==
    /\ todo = <<>>
    /\ Len(sent) < MaxLines
    /\ polite => AtRest
    /\ \E l \in Lines :
          /\ todo' = l \o <<CR>>
          /\ sent' = Append(sent, IF l = <<>> THEN Empty
                                  ELSE IF \E c \in Commands : Text[c] = l
                                       THEN CHOOSE c \in Commands : Text[c] = l
                                       ELSE NoCommand)
    /\ UNCHANGED <<fsm, log>>

HostStartsPayload ==
    /\ todo = <<>>
    /\ step = "none" /\ listening /\ got < Len(Payload)
    /\ todo' = Payload
    /\ UNCHANGED <<fsm, sent, log>>

-----------------------------------------------------------------------------

(* on_enter_idle *)
EnterIdle ==
    /\ step = "enter" /\ state = "idle"
    /\ step' = "none"
    /\ UNCHANGED <<state, buffer, current, dest, listening, got, todo, sent, log>>

(* Mutant of EnterAnalyzeInput: carriage_return_not_found is not triggered. *)
EnterAnalyzeInputStays ==
    /\ step = "enter" /\ state = "analyze_input"
    /\ IF buffer # <<>> /\ Last(buffer) = CR
       THEN Trigger("validate_command")
       ELSE step' = "none" /\ UNCHANGED <<state, dest>>
    /\ UNCHANGED <<buffer, current, listening, got, todo, sent, log>>

(* on_enter_analyze_input: carriage_return_found or carriage_return_not_found. *)
EnterAnalyzeInput ==
    /\ step = "enter" /\ state = "analyze_input"
    /\ Trigger(IF buffer # <<>> /\ Last(buffer) = CR THEN "validate_command" ELSE "idle")
    /\ UNCHANGED <<buffer, current, listening, got, todo, sent, log>>

(* on_enter_validate_command: valid_command, or ERROR and invalid_command. *)
EnterValidateCommand ==
    /\ step = "enter" /\ state = "validate_command"
    /\ current' = Lookup(buffer)
    /\ Trigger(IF current' = NoCommand THEN "idle" ELSE "process_command")
    /\ IF current' = NoCommand
       THEN ran' = Append(ran, NoCommand) /\ answers' = answers + 1
       ELSE UNCHANGED <<ran, answers>>
    /\ UNCHANGED <<buffer, listening, got, todo, sent, polite>>

(* Mutant of ExitValidateCommand: the command buffer is not cleared. *)
ExitValidateCommandKeeps ==
    /\ step = "exit"
    /\ step' = "change"
    /\ UNCHANGED <<state, buffer, current, dest, listening, got, todo, sent, log>>

(* on_exit_validate_command *)
ExitValidateCommand ==
    /\ step = "exit"
    /\ buffer' = <<>>
    /\ step' = "change"
    /\ UNCHANGED <<state, current, dest, listening, got, todo, sent, log>>

(* The rest of that transition: the state is set. *)
ChangeState ==
    /\ step = "change"
    /\ state' = dest
    /\ step' = "enter"
    /\ UNCHANGED <<buffer, current, dest, listening, got, todo, sent, log>>

(* The end of on_enter_process_command: the answer, and command_complete. *)
Complete ==
    /\ answers' = answers + 1
    /\ current' = NoCommand
    /\ Trigger("idle")

(* The command deregisters its listener and resets its count. *)
StopListening == listening' = FALSE /\ got' = 0

HasPayload == listening /\ got >= Len(Payload)

(* on_enter_process_command up to its first suspension: a command that awaits  *)
(* something suspends; one that wants data registers a listener and returns,   *)
(* or has the data and is done; any other is done.                             *)
EnterProcessCommand ==
    /\ step = "enter" /\ state = "process_command"
    /\ ran' = IF listening THEN ran ELSE Append(ran, current)
    /\ \/ /\ current \in Slow
          /\ step' = "await"
          /\ UNCHANGED <<state, current, dest, listening, got, answers>>
       \/ /\ current \in Data /\ ~HasPayload
          /\ listening' = TRUE
          /\ step' = "none"
          /\ UNCHANGED <<state, current, dest, got, answers>>
       \/ /\ current \notin Slow
          /\ current \in Data => HasPayload
          /\ StopListening
          /\ Complete
    /\ UNCHANGED <<buffer, todo, sent, polite>>

(* What the command awaits arrives. *)
SlowDone ==
    /\ step = "await"
    /\ Complete
    /\ UNCHANGED <<buffer, listening, got, todo, sent, ran, polite>>

(* Its execute raises: the exception ends the task, in process_command. *)
SlowRaises ==
    /\ step = "await" /\ current \in Raising /\ ~polite
    /\ step' = "none"
    /\ UNCHANGED <<state, buffer, current, dest, listening, got, todo, sent, log>>

Host == HostStartsLine \/ HostStartsPayload
        \/ \E n \in 1..Len(todo) : HostSends(n)
Task == EnterIdle \/ EnterAnalyzeInput \/ EnterValidateCommand \/ ExitValidateCommand
        \/ ChangeState \/ EnterProcessCommand \/ SlowDone \/ SlowRaises

Next == Host \/ Task

Spec == Init /\ [][Next]_vars

(* The event loop runs the live task; what a command awaits arrives in the end; *)
(* a host finishes the line or payload it has begun.                            *)
FairSpec ==
    Spec /\ WF_vars(Task) /\ WF_vars(\E n \in 1..Len(todo) : HostSends(n))
         /\ WF_vars(HostStartsPayload)

-----------------------------------------------------------------------------
(***************************************************************************)
(* Properties.                                                             *)
(***************************************************************************)
Results == Commands \cup {NoCommand, Empty}

(* The variables hold values the code gives them. *)
TypeOK ==
    /\ state \in States /\ dest \in States /\ step \in Steps
    /\ buffer \in Seq(Keys) /\ todo \in Seq(Keys)
    /\ current \in Results
    /\ listening \in BOOLEAN /\ got \in Nat
    /\ sent \in Seq(Results) /\ ran \in Seq(Results) /\ answers \in Nat

(* Whatever is received, and whichever task is cancelled where: process_command is *)
(* never entered, or entered again, without a command (on_enter_process_command    *)
(* reads current_command and would raise on None).                                 *)
ProcessHasCommand == state = "process_command" => current # NoCommand

(* Between tasks the machine is idle; it only stays in process_command for a command *)
(* that waits for its payload, or whose execute has raised.  No cancelled transition *)
(* leaves it in analyze_input or validate_command.                                   *)
RestsIdle ==
    step = "none" =>
        \/ state = "idle"
        \/ state = "process_command" /\ current \in Data \cup Raising

(* No complete line is left behind: an idle machine without a task has no carriage  *)
(* return at the end of its buffer that nobody will look at.                        *)
NoLineLeftBehind == step = "none" /\ state = "idle" /\ buffer # <<>> => Last(buffer) # CR

(* What holds however the chunks arrive: the three together. *)
KeepsItsHead == ProcessHasCommand /\ RestsIdle /\ NoLineLeftBehind

(* The machine comes to rest again and again, however the chunks arrive. *)
ComesToRest == []<>(step = "none")

(* With a host that waits for its answers, and commands that do not raise, the      *)
(* machine is a server: each line is run once and answered once, in order, however   *)
(* the driver cuts it into chunks.                                                   *)
Seen(entries) == IF polite THEN entries ELSE <<>>
Server == INSTANCE ATServer WITH lines <- Seen(sent), ran <- Seen(ran),
                                 replies <- IF polite THEN answers ELSE 0
ServesLines == Server!FairSpec

(* As a server and as a machine that any host may talk to, it goes on. *)
ServesAndRests == ServesLines /\ ComesToRest
=============================================================================
