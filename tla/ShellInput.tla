----------------------------- MODULE ShellInput -----------------------------
(* The loop of shell_start in shell/shell.c: it takes key events, halts the    *)
(* processor when there are none, edits the command line and walks through the *)
(* command history of shell/terminal.c.  A line of text stands for its length: *)
(* lines of one length are not told apart.  The keyboard and the timer         *)
(* interrupt anywhere, also between the look at the queue and the hlt.         *)
(* ArrowUp can step off the start of a full history and copy what lies before  *)
(* it.  When that does not fit command_buffer the stack is overwritten, and    *)
(* nothing is known of what the shell does then: the model ends there.         *)
EXTENDS Integers, Sequences

CONSTANTS
  Events,       \* key events: "Released", "None" (no keymap entry), "Char", "Tab", ...
  QueueSize,    \* key events that wait to be read
  MaxLength,    \* sizeof(command_buffer), and COMMAND_MAX_LENGTH
  HistorySize,  \* COMMAND_HISTORY_SIZE
  MaxKeys,      \* bound on the key events
  MaxEnters     \* bound on how many of them are "Enter"

ASSUME ShellAssumption ==
  /\ QueueSize \in Nat \ {0} /\ HistorySize \in Nat \ {0}
  /\ MaxLength \in Nat /\ MaxLength > 4

VARIABLES
  pending,           \* key events not yet read (the ring of Ps2Keyboard)
  pc,                \* "get", "halt" (saw no event) or "asleep" (in hlt)
  length,            \* command_length: the line typed so far
  commands, current_index, history_count, history_position,   \* cmd_history
  entered, back,     \* auxiliary: all commands, how far back the user has gone
  keys, enters       \* counters of the environment

history == <<commands, current_index, history_count, history_position>>
shell == <<length, history, entered, back>>
vars == <<pending, pc, shell, keys, enters>>

Init ==
  /\ pending = <<>> /\ pc = "get" /\ length = 0
  /\ commands = [i \in 0 .. HistorySize - 1 |-> 0]
  /\ current_index = 0 /\ history_count = 0 /\ history_position = -1
  /\ entered = <<>> /\ back = 0
  /\ keys = 0 /\ enters = 0

-----------------------------------------------------------------------------
(* Interrupts: any of them ends hlt *)

Woken == IF pc = "asleep" THEN "get" ELSE pc

Key(e) ==
  /\ keys < MaxKeys /\ keys' = keys + 1
  /\ e = "Enter" => enters < MaxEnters
  /\ enters' = IF e = "Enter" THEN enters + 1 ELSE enters
  /\ pending' = Append(IF Len(pending) >= QueueSize THEN Tail(pending) ELSE pending, e)
  /\ pc' = Woken
  /\ UNCHANGED shell

SleepsOn == pc                                                       \* mutant
WokenByTimer == Woken
Tick ==
  /\ pc = "asleep" /\ pc' = WokenByTimer
  /\ UNCHANGED <<pending, shell, keys, enters>>

-----------------------------------------------------------------------------
(* The command history *)

\* add_command_to_history
ForgetsToWrap(i) == i + 1                                            \* mutant
NextIndex(i) == (i + 1) % HistorySize
ResetPosition(p) == -1
AddToHistory(line) ==
  /\ commands' = [commands EXCEPT ![current_index] = line]
  /\ current_index' = NextIndex(current_index)
  /\ history_count' = IF history_count < HistorySize THEN history_count + 1 ELSE history_count
  /\ history_position' = ResetPosition(history_position)

\* strcpy from an entry.  What lies before the first one is a string of any length: the
\* length MaxLength stands for all that do not fit.
Overrun == length = MaxLength
CopyFrom(position) ==
  IF position \in DOMAIN commands THEN length' = commands[position]
                                  ELSE length' \in 0 .. MaxLength

ArrowUp ==
  IF history_count = 0 THEN UNCHANGED shell
  ELSE /\ history_position' =
            IF history_position < 0 THEN current_index - 1
            ELSE IF history_position = 0 THEN history_count - 1 ELSE history_position - 1
       /\ CopyFrom(history_position')
       /\ back' = (back % history_count) + 1
       /\ UNCHANGED <<commands, current_index, history_count, entered>>

StopsAtNewest(p) == IF p + 1 >= history_count THEN p ELSE p + 1      \* mutant
Newer(p) == IF p + 1 >= history_count THEN -1 ELSE p + 1
ArrowDown ==
  IF history_count = 0 \/ history_position < 0 THEN UNCHANGED shell
  ELSE /\ history_position' = Newer(history_position)
       /\ IF history_position' >= 0 THEN CopyFrom(history_position') ELSE length' = 0
       /\ back' = IF back > 0 THEN back - 1 ELSE 0
       /\ UNCHANGED <<commands, current_index, history_count, entered>>

-----------------------------------------------------------------------------
(* The line *)

Edit(n) == length' = n /\ UNCHANGED <<history, entered, back>>

\* Each byte of the key's text goes in while there is room for it and the final zero.
Typed(n) == IF length + n <= MaxLength - 1 THEN length + n ELSE MaxLength - 1

\* parse_command runs the command; it changes neither the line nor the history.
Enter ==
  IF length = 0 THEN UNCHANGED shell
  ELSE /\ AddToHistory(length) /\ length' = 0
       /\ entered' = Append(entered, length) /\ back' = 0

Handle(e) ==
  CASE e = "Char" -> Edit(Typed(1))
    [] e = "Accent" -> Edit(Typed(2))       \* two bytes of UTF-8
    [] e = "Tab" -> Edit(IF length > 0 /\ length + 4 < MaxLength THEN length + 4 ELSE length)
    [] e = "Backspace" -> Edit(IF length > 0 THEN length - 1 ELSE 0)
    [] e = "Enter" -> Enter
    [] e = "ArrowUp" -> ArrowUp
    [] e = "ArrowDown" -> ArrowDown
    [] OTHER -> UNCHANGED shell             \* releases, and keys without text

\* An unmapped key reads as KEY_NONE: the shell halts though there may be more.
Get ==
  /\ pc = "get" /\ ~Overrun
  /\ IF pending = <<>> THEN pc' = "halt" /\ UNCHANGED <<pending, shell>>
     ELSE /\ pending' = Tail(pending) /\ Handle(Head(pending))
          /\ pc' = IF Head(pending) = "None" THEN "halt" ELSE "get"
  /\ UNCHANGED <<keys, enters>>

Halt ==
  /\ pc = "halt" /\ pc' = "asleep"
  /\ UNCHANGED <<pending, shell, keys, enters>>

Next == (\E e \in Events : Key(e)) \/ Tick \/ Get \/ Halt
Spec == Init /\ [][Next]_vars
\* The processor runs, and the timer ticks every millisecond.
FairSpec == Spec /\ WF_vars(Get) /\ WF_vars(Halt) /\ WF_vars(Tick)
-----------------------------------------------------------------------------
(* Properties *)

\* history_position names an entry or none.  The line leaves room for its final zero,
\* unless ArrowUp stepped off the start of a full ring: nothing else lets it outgrow its buffer.
OffTheStart == history_count = HistorySize /\ current_index = 0 /\ history_position = -1
TypeOK ==
  /\ pc \in {"get", "halt", "asleep"} /\ Len(pending) <= QueueSize
  /\ length \in 0 .. MaxLength - 1 \/ (Overrun /\ OffTheStart)
  /\ \A i \in 0 .. HistorySize - 1 : commands[i] \in 0 .. MaxLength - 1
  /\ current_index \in 0 .. HistorySize - 1 /\ history_count \in 0 .. HistorySize
  /\ history_position \in -1 .. history_count - 1

\* The ring holds the last commands, oldest first from current_index once it is full; every
\* one of them fits the line, which is overrun by what is no command only.
HistoryIsLatest ==
  /\ TypeOK
  /\ history_count = IF Len(entered) < HistorySize THEN Len(entered) ELSE HistorySize
  /\ \A i \in 1 .. history_count :
       commands[(current_index - i) % HistorySize] = entered[Len(entered) - i + 1]

\* Until the ring is full, each ArrowUp shows the command before, from the newest to the
\* oldest and round again, each ArrowDown the one after, and past the newest a blank line.
Walked == IF back' = 0 THEN length' = 0 ELSE length' = entered[Len(entered) - back' + 1]
NavigationFollowsHistory ==
  [][history_position' # history_position /\ entered' = entered /\ Len(entered) < HistorySize
       => Walked]_vars

\* No key waits for another: a key that comes between the look at the queue and the hlt,
\* or behind an unmapped one, is handled although the processor went to sleep; unless the
\* stack was overwritten.
KeysHandled == <>[](pending = <<>> \/ Overrun)
=============================================================================
