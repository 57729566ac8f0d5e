---------------------------- MODULE ConsoleProofs ----------------------------
(* The console, for any size of it.  Of ShellInput: the history ring holds the *)
(* last commands, and the arrow keys walk through them.  Of Terminal: no write *)
(* leaves the buffer, and the screen shows the part of the buffer it should.   *)
EXTENDS ShellInput, Terminal, SequenceTheorems, TLAPS

Lines == 0 .. MaxLength - 1
Places == 0 .. HistorySize - 1

Types ==
  /\ pending \in Seq(Events) /\ Len(pending) <= QueueSize
  /\ pc \in {"get", "halt", "asleep"}
  /\ length \in Lines \/ (Overrun /\ OffTheStart)
  /\ commands \in [Places -> Lines]
  /\ current_index \in Places /\ history_count \in 0 .. HistorySize
  /\ history_position \in -1 .. history_count - 1
  /\ entered \in Seq(Lines) /\ back \in Nat

\* The entries from current_index backwards are the last commands.
Latest ==
  /\ history_count = IF Len(entered) < HistorySize THEN Len(entered) ELSE HistorySize
  /\ \A i \in 1 .. history_count :
       commands[(current_index - i) % HistorySize] = entered[Len(entered) - i + 1]

\* Until the ring is full, history_position says how far back the user has gone.
Walking ==
  Len(entered) < HistorySize =>
    /\ current_index = Len(entered) /\ back \in 0 .. history_count
    /\ history_position = IF back = 0 THEN -1 ELSE history_count - back

IInv == Types /\ Latest /\ Walking

-----------------------------------------------------------------------------
(* Indexes of the ring *)

Wrapped(a) == IF a < 0 THEN a + HistorySize ELSE IF a < HistorySize THEN a ELSE a - HistorySize

LEMMA Wraps ==
  ASSUME NEW a \in -HistorySize .. 2 * HistorySize - 1
  PROVE  a % HistorySize = Wrapped(a)
BY ShellAssumption DEF Wrapped

\* The place a command was put is the first behind the next one, and what lay i places
\* behind lies one further; only the entry HistorySize places behind is overwritten.
LEMMA OneFurther ==
  ASSUME NEW c \in Places
  PROVE  /\ (c + 1) % HistorySize \in Places
         /\ (((c + 1) % HistorySize) - 1) % HistorySize = c
         /\ \A i \in 1 .. HistorySize - 1 :
              /\ (((c + 1) % HistorySize) - (i + 1)) % HistorySize = (c - i) % HistorySize
              /\ (c - i) % HistorySize \in Places \ {c}
<1>1. (c + 1) % HistorySize = Wrapped(c + 1)
  BY Wraps, ShellAssumption DEF Places
<1>2. Wrapped(c + 1) \in Places
  BY ShellAssumption DEF Places, Wrapped
<1>3. (Wrapped(c + 1) - 1) % HistorySize = c
  <2>1. (Wrapped(c + 1) - 1) % HistorySize = Wrapped(Wrapped(c + 1) - 1)
    BY <1>2, Wraps, ShellAssumption DEF Places
  <2> QED
    BY <2>1, ShellAssumption DEF Places, Wrapped
<1>4. ASSUME NEW i \in 1 .. HistorySize - 1
      PROVE  /\ (Wrapped(c + 1) - (i + 1)) % HistorySize = (c - i) % HistorySize
             /\ (c - i) % HistorySize \in Places \ {c}
  <2>1. (Wrapped(c + 1) - (i + 1)) % HistorySize = Wrapped(Wrapped(c + 1) - (i + 1))
    BY <1>2, Wraps, ShellAssumption DEF Places
  <2>2. (c - i) % HistorySize = Wrapped(c - i)
    BY Wraps, ShellAssumption DEF Places
  <2> QED
    BY <2>1, <2>2, ShellAssumption DEF Places, Wrapped
<1> QED
  BY <1>1, <1>2, <1>3, <1>4

-----------------------------------------------------------------------------
(* The keys *)

\* An entry the user has walked to is the command that far back.
LEMMA EntryBack ==
  ASSUME IInv, Len(entered) < HistorySize, NEW k \in 1 .. history_count
  PROVE  /\ history_count - k \in Places
         /\ commands[history_count - k] = entered[Len(entered) - k + 1]
<1>1. /\ history_count = Len(entered) /\ current_index = history_count
      /\ history_count \in Nat /\ history_count < HistorySize
  BY ShellAssumption DEF IInv, Types, Latest, Walking
<1>2. history_count - k \in Places
  BY <1>1, ShellAssumption DEF Places
<1>3. (current_index - k) % HistorySize = Wrapped(history_count - k)
  BY <1>1, <1>2, Wraps, ShellAssumption DEF Places
<1>4. Wrapped(history_count - k) = history_count - k
  BY <1>2, ShellAssumption DEF Places, Wrapped
<1> QED
  BY <1>1, <1>2, <1>3, <1>4 DEF IInv, Latest

\* What a key may do to the line and the history: add_command_to_history moves every
\* command one place further back, and the arrow keys go one command back or forth.
LEMMA EnterStep ==
  ASSUME IInv, ~Overrun, length # 0, AddToHistory(length), length' = 0, entered' = Append(entered, length),
         back' = 0, pending' \in Seq(Events), Len(pending') <= QueueSize, pc' \in {"get", "halt", "asleep"}
  PROVE  IInv'
<1> DEFINE n == Len(entered)
<1>0. length \in Lines
  BY DEF IInv, Types
<1>1. /\ n \in Nat /\ Len(entered') = n + 1 /\ entered' \in Seq(Lines) /\ entered'[n + 1] = length
      /\ \A i \in 1 .. n : entered'[i] = entered[i]
  BY <1>0, AppendProperties, LenProperties DEF IInv, Types
<1>2. /\ current_index \in Places /\ current_index' = (current_index + 1) % HistorySize
      /\ current_index' \in Places
  BY OneFurther DEF IInv, Types, AddToHistory, NextIndex
<1>3. /\ history_count' \in 0 .. HistorySize /\ history_position' \in -1 .. history_count' - 1
      /\ history_count' = IF n + 1 < HistorySize THEN n + 1 ELSE HistorySize
  BY <1>1, ShellAssumption DEF IInv, Types, Latest, AddToHistory, ResetPosition
<1>4. commands' \in [Places -> Lines]
  BY <1>0 DEF IInv, Types, AddToHistory
<1>5. Types'
  BY <1>1, <1>2, <1>3, <1>4, ShellAssumption DEF Types, Lines
<1>6. ASSUME NEW i \in 1 .. history_count'
      PROVE  commands'[(current_index' - i) % HistorySize] = entered'[n + 1 - i + 1]
  <2>1. CASE i = 1
    <3>1. commands'[current_index] = length
      BY <1>2 DEF IInv, Types, AddToHistory
    <3>2. (current_index' - i) % HistorySize = current_index
      BY <1>2, <2>1, OneFurther
    <3> QED
      BY <1>1, <2>1, <3>1, <3>2
  <2>2. CASE i # 1
    <3> DEFINE j == i - 1
    <3>1. j \in 1 .. HistorySize - 1 /\ j \in 1 .. history_count /\ j + 1 = i /\ n - j + 1 \in 1 .. n
      BY <1>1, <1>3, <2>2, ShellAssumption DEF IInv, Latest
    <3> HIDE DEF j
    <3>2. /\ (current_index' - (j + 1)) % HistorySize = (current_index - j) % HistorySize
          /\ (current_index - j) % HistorySize \in Places \ {current_index}
      BY <1>2, <3>1, OneFurther
    <3>3. commands'[(current_index - j) % HistorySize] = commands[(current_index - j) % HistorySize]
      BY <3>2 DEF IInv, Types, AddToHistory
    <3>4. commands[(current_index - j) % HistorySize] = entered[n - j + 1]
      BY <3>1 DEF IInv, Latest
    <3>5. n + 1 - (j + 1) + 1 = n - j + 1
      BY <1>1, <3>1
    <3> HIDE DEF n
    <3> QED
      BY <1>1, <3>1, <3>2, <3>3, <3>4, <3>5
  <2> QED
    BY <2>1, <2>2
<1>7. Latest'
  BY <1>1, <1>3, <1>6 DEF Latest
<1>8. Walking'
  <2> SUFFICES ASSUME n + 1 < HistorySize PROVE current_index' = n + 1 /\ history_position' = -1
    BY <1>1, <1>3, ShellAssumption DEF Walking
  <2>1. current_index = n
    BY <1>1, ShellAssumption DEF IInv, Walking
  <2>2. (n + 1) % HistorySize = Wrapped(n + 1)
    BY <1>1, Wraps, ShellAssumption
  <2> QED
    BY <1>1, <1>2, <2>1, <2>2, ShellAssumption DEF Wrapped, AddToHistory, ResetPosition
<1> QED
  BY <1>5, <1>7, <1>8 DEF IInv

LEMMA UpStep ==
  ASSUME IInv, history_count # 0, ArrowUp, pending' \in Seq(Events), Len(pending') <= QueueSize,
         pc' \in {"get", "halt", "asleep"}
  PROVE  IInv' /\ (Len(entered) < HistorySize => Walked)
<1>1. /\ history_count \in 1 .. HistorySize /\ back \in Nat
      /\ UNCHANGED <<commands, current_index, history_count, entered>>
      /\ back' = (back % history_count) + 1 /\ CopyFrom(history_position')
      /\ history_position' = IF history_position < 0 THEN current_index - 1
                             ELSE IF history_position = 0 THEN history_count - 1 ELSE history_position - 1
  BY ShellAssumption DEF IInv, Types, ArrowUp
<1>2. back' \in 1 .. history_count
  BY <1>1
<1>3. ASSUME Len(entered) < HistorySize
      PROVE  history_position' = history_count - back' /\ current_index = history_count
             /\ history_count = Len(entered)
  <2>1. /\ current_index = history_count /\ back \in 0 .. history_count /\ history_count = Len(entered)
        /\ history_position = IF back = 0 THEN -1 ELSE history_count - back
    BY <1>3, <1>1 DEF IInv, Latest, Walking
  <2>2. back % history_count = IF back = history_count THEN 0 ELSE back
    BY SMTT(60), <1>1, <2>1
  <2> QED
    BY <1>1, <2>1, <2>2
<1>4. current_index - 1 \in -1 .. history_count - 1
  BY <1>1, ShellAssumption DEF IInv, Types, Latest, Walking, Places
<1>5. history_position' \in -1 .. history_count - 1
  BY <1>1, <1>4 DEF IInv, Types
<1>6. length' \in Lines \/ (Overrun' /\ OffTheStart')
  <2>1. CASE history_position' \in Places
    BY <1>1, <2>1 DEF CopyFrom, IInv, Types
  <2>2. CASE history_position' \notin Places
    <3>1. history_position' = -1 /\ current_index = 0
      BY <1>1, <1>5, <2>2, ShellAssumption DEF IInv, Types, Places
    <3>2. history_count = HistorySize
      BY <1>1, <1>3, <3>1, ShellAssumption DEF IInv, Types, Latest
    <3>3. length' \in 0 .. MaxLength
      BY <1>1, <2>2 DEF CopyFrom, IInv, Types
    <3> QED
      BY <1>1, <3>1, <3>2, <3>3, ShellAssumption DEF Lines, Overrun, OffTheStart
  <2> QED
    BY <2>1, <2>2
<1>7. IInv'
  <2>1. Types' /\ Latest'
    BY SMTT(60), <1>1, <1>2, <1>5, <1>6 DEF IInv, Types, Latest
  <2>2. Walking'
    BY <1>1, <1>2, <1>3 DEF IInv, Types, Walking
  <2> QED
    BY <2>1, <2>2 DEF IInv
<1>8. ASSUME Len(entered) < HistorySize PROVE Walked
  <2>1. /\ history_count - back' \in Places
        /\ commands[history_count - back'] = entered[Len(entered) - back' + 1]
    BY <1>2, <1>8, EntryBack
  <2>2. length' = commands[history_count - back']
    BY <1>1, <1>3, <1>8, <2>1 DEF CopyFrom, IInv, Types
  <2> QED
    BY <1>1, <1>2, <2>1, <2>2 DEF Walked
<1> QED
  BY <1>7, <1>8

LEMMA DownStep ==
  ASSUME IInv, history_count # 0, history_position >= 0, ArrowDown, pending' \in Seq(Events),
         Len(pending') <= QueueSize, pc' \in {"get", "halt", "asleep"}
  PROVE  IInv' /\ (Len(entered) < HistorySize => Walked)
<1>1. /\ history_count \in 1 .. HistorySize /\ back \in Nat
      /\ history_position \in 0 .. history_count - 1
      /\ UNCHANGED <<commands, current_index, history_count, entered>>
      /\ history_position' = Newer(history_position)
      /\ back' = IF back > 0 THEN back - 1 ELSE 0
      /\ IF history_position' >= 0 THEN CopyFrom(history_position') ELSE length' = 0
  BY ShellAssumption DEF IInv, Types, ArrowDown
<1>2. history_position' \in -1 .. history_count - 1 /\ back' \in Nat
  BY <1>1 DEF Newer
<1>3. ASSUME Len(entered) < HistorySize
      PROVE  /\ back' \in 0 .. history_count /\ history_count = Len(entered)
             /\ history_position' = IF back' = 0 THEN -1 ELSE history_count - back'
  <2>1. /\ back \in 0 .. history_count /\ history_count = Len(entered)
        /\ history_position = IF back = 0 THEN -1 ELSE history_count - back
    BY <1>3, <1>1 DEF IInv, Latest, Walking
  <2> QED
    BY <1>1, <2>1 DEF Newer
<1>4. length' \in Lines
  <2>1. CASE history_position' >= 0
    <3>1. history_position' \in Places /\ commands \in [Places -> Lines]
      BY <1>1, <1>2, <2>1, ShellAssumption DEF IInv, Types, Places
    <3> QED
      BY <1>1, <2>1, <3>1 DEF CopyFrom
  <2>2. CASE ~(history_position' >= 0)
    BY <1>1, <2>2, ShellAssumption DEF Lines
  <2> QED
    BY <2>1, <2>2
<1>5. IInv'
  BY <1>1, <1>2, <1>3, <1>4, ShellAssumption DEF IInv, Types, Latest, Walking, Overrun, OffTheStart
<1>6. ASSUME Len(entered) < HistorySize, back' # 0 PROVE Walked
  <2>1. back' \in 1 .. history_count
    BY <1>3, <1>6
  <2>2. /\ history_count - back' \in Places
        /\ commands[history_count - back'] = entered[Len(entered) - back' + 1]
    BY <1>6, <2>1, EntryBack
  <2>3. length' = commands[history_count - back']
    BY <1>1, <1>3, <1>6, <2>1, <2>2 DEF CopyFrom, IInv, Types
  <2> QED
    BY <1>1, <1>6, <2>2, <2>3 DEF Walked
<1>7. ASSUME Len(entered) < HistorySize, back' = 0 PROVE Walked
  BY <1>1, <1>3, <1>7 DEF Walked
<1> QED
  BY <1>5, <1>6, <1>7

\* Everything else leaves the history alone.
LEMMA QuietStep ==
  ASSUME IInv, UNCHANGED <<history, entered, back>>, length' \in Lines \cup {length}, pending' \in Seq(Events),
         Len(pending') <= QueueSize, pc' \in {"get", "halt", "asleep"}
  PROVE  IInv'
BY DEF IInv, Types, Latest, Walking, history, Overrun, OffTheStart

-----------------------------------------------------------------------------
(* The steps *)

Walks == history_position' # history_position /\ entered' = entered /\ Len(entered) < HistorySize => Walked

LEMMA InitIInv == Init => IInv
BY ShellAssumption DEF Init, IInv, Types, Latest, Walking, Lines, Places

LEMMA HandleStep ==
  ASSUME IInv, ~Overrun, NEW e, Handle(e), pending' \in Seq(Events), Len(pending') <= QueueSize,
         pc' \in {"get", "halt", "asleep"}
  PROVE  IInv' /\ Walks
<1>1. ASSUME UNCHANGED shell PROVE IInv' /\ Walks
  BY <1>1, QuietStep DEF shell, history, Walks, IInv, Types
<1>2. ASSUME NEW n \in Lines, Edit(n) PROVE IInv' /\ Walks
  BY <1>2, QuietStep DEF Edit, history, Walks
<1>3. length \in Lines
  BY DEF IInv, Types
<1>4. CASE e = "Char"
  <2>1. Edit(Typed(1)) /\ Typed(1) \in Lines
    BY <1>3, <1>4, ShellAssumption DEF Handle, Typed, Lines
  <2> QED
    BY <2>1, <1>2
<1>5. CASE e = "Accent"
  <2>1. Edit(Typed(2)) /\ Typed(2) \in Lines
    BY <1>3, <1>5, ShellAssumption DEF Handle, Typed, Lines
  <2> QED
    BY <2>1, <1>2
<1>6. CASE e = "Tab"
  <2> DEFINE n == IF length > 0 /\ length + 4 < MaxLength THEN length + 4 ELSE length
  <2>1. Edit(n) /\ n \in Lines
    BY <1>3, <1>6, ShellAssumption DEF Handle, Lines
  <2> QED
    BY <2>1, <1>2
<1>7. CASE e = "Backspace"
  <2> DEFINE n == IF length > 0 THEN length - 1 ELSE 0
  <2>1. Edit(n) /\ n \in Lines
    BY <1>3, <1>7, ShellAssumption DEF Handle, Lines
  <2> QED
    BY <2>1, <1>2
<1>8. CASE e = "Enter"
  <2>1. Enter
    BY <1>8 DEF Handle
  <2>2. CASE length = 0
    BY <2>1, <2>2, <1>1 DEF Enter
  <2>3. CASE length # 0
    <3>1. IInv'
      BY <2>1, <2>3, EnterStep DEF Enter
    <3>2. entered' # entered
      BY <2>1, <2>3, <1>3, AppendProperties DEF Enter, IInv, Types
    <3> QED
      BY <3>1, <3>2 DEF Walks
  <2> QED
    BY <2>2, <2>3
<1>9. CASE e = "ArrowUp"
  <2>1. ArrowUp
    BY <1>9 DEF Handle
  <2> QED
    BY <2>1, <1>1, UpStep DEF ArrowUp, Walks
<1>10. CASE e = "ArrowDown"
  <2>1. ArrowDown
    BY <1>10 DEF Handle
  <2>2. ASSUME ~(history_count = 0 \/ history_position < 0) PROVE history_count # 0 /\ history_position >= 0
    BY <2>2 DEF IInv, Types
  <2> QED
    BY <2>1, <2>2, <1>1, DownStep DEF ArrowDown, Walks
<1>11. CASE e \notin {"Char", "Accent", "Tab", "Backspace", "Enter", "ArrowUp", "ArrowDown"}
  BY <1>1, <1>11 DEF Handle
<1> QED
  BY <1>4, <1>5, <1>6, <1>7, <1>8, <1>9, <1>10, <1>11

LEMMA NextStep == IInv /\ [Next]_vars => IInv' /\ Walks
<1> SUFFICES ASSUME IInv, [Next]_vars PROVE IInv' /\ Walks
  OBVIOUS
<1>1. ASSUME NEW e \in Events, Key(e) PROVE IInv' /\ Walks
  <2> DEFINE kept == IF Len(pending) >= QueueSize THEN Tail(pending) ELSE pending
  <2>1. pending \in Seq(Events) /\ Len(pending) <= QueueSize /\ Len(pending) \in Nat
    BY LenProperties DEF IInv, Types
  <2>2. kept \in Seq(Events) /\ Len(kept) + 1 <= QueueSize
    <3>1. CASE Len(pending) >= QueueSize
      <4>1. pending # <<>>
        BY <2>1, <3>1, ShellAssumption
      <4>2. Tail(pending) \in Seq(Events) /\ Len(Tail(pending)) = Len(pending) - 1
        BY <2>1, <4>1, HeadTailProperties
      <4> QED
        BY <2>1, <3>1, <4>2, ShellAssumption
    <3>2. CASE ~(Len(pending) >= QueueSize)
      BY <2>1, <3>2, ShellAssumption
    <3> QED
      BY <3>1, <3>2
  <2>3. pending' = Append(kept, e)
    BY <1>1 DEF Key
  <2> HIDE DEF kept
  <2>4. pending' \in Seq(Events) /\ Len(pending') <= QueueSize
    BY <2>2, <2>3, AppendProperties
  <2>5. pc' \in {"get", "halt", "asleep"} /\ UNCHANGED shell
    BY <1>1 DEF Key, Woken, IInv, Types
  <2> QED
    BY <2>4, <2>5, QuietStep DEF shell, history, Walks, IInv, Types
<1>2. CASE Get
  <2>1. CASE pending = <<>>
    BY <1>2, <2>1, QuietStep DEF Get, shell, history, Walks, IInv, Types
  <2>2. CASE pending # <<>>
    <3>1. pending' = Tail(pending) /\ Handle(Head(pending)) /\ pc' \in {"halt", "get"} /\ ~Overrun
      BY <1>2, <2>2 DEF Get
    <3>2. pending' \in Seq(Events) /\ Len(pending') <= QueueSize
      BY <2>2, <3>1, HeadTailProperties, LenProperties, ShellAssumption DEF IInv, Types
    <3> QED
      BY <3>1, <3>2, HandleStep
  <2> QED
    BY <2>1, <2>2
<1>3. CASE Tick \/ Halt \/ UNCHANGED vars
  BY <1>3, QuietStep DEF Tick, Halt, WokenByTimer, Woken, vars, shell, history, Walks, IInv, Types
<1> QED
  BY <1>1, <1>2, <1>3 DEF Next

-----------------------------------------------------------------------------
LEMMA ImpliesHistory == IInv => HistoryIsLatest
BY DEF IInv, Types, Latest, HistoryIsLatest, TypeOK, Lines, Places

\* The invariant the others follow from.
THEOREM ShellInvariant == Spec => []IInv
BY InitIInv, NextStep, PTL DEF Spec

\* For a ring and lines of any size: the ring holds the last commands in order, each of a
\* length that fits; and only where ArrowUp steps off the start of a full ring can the line
\* outgrow its buffer, by the strcpy of what is no command (add_command_to_history, shell_start).
THEOREM HistoryKept == Spec => []HistoryIsLatest
BY ShellInvariant, ImpliesHistory, PTL

\* However the user goes back and forth between commands, edits and enters more: until the ring
\* is full an arrow key shows the command it should.
THEOREM ArrowsFollowHistory == Spec => NavigationFollowsHistory
<1>1. IInv /\ [Next]_vars =>
        [history_position' # history_position /\ entered' = entered /\ Len(entered) < HistorySize
           => Walked]_vars
  BY NextStep DEF Walks
<1> QED
  BY <1>1, ShellInvariant, PTL DEF Spec, NavigationFollowsHistory

-----------------------------------------------------------------------------
(* The terminal *)

\* A redraw from any start row that fits reads characters only.
LEMMA WindowType ==
  ASSUME NEW buf \in [Cells -> Chars], NEW from \in Nat, from + Visible <= Height
  PROVE  Window(buf, from) \in [Seen -> Chars]
<1>1. \A p \in Seen : <<p[1], p[2] + from>> \in Cells
  BY TerminalAssumption DEF Seen, Cells, Columns
<1> QED
  BY <1>1 DEF Window, Cells, Seen, Columns

TypeBounds == TermTypeOK /\ InBounds

\* Both together are inductive: a write is typed because it is in bounds.
THEOREM TerminalInBounds == TermSpec => [](TermTypeOK /\ InBounds)
<1>1. TermInit => TypeBounds
  <2> SUFFICES ASSUME TermInit PROVE TypeBounds
    OBVIOUS
  <2>1. buffer \in [Cells -> Chars]
    BY TerminalAssumption DEF TermInit
  <2>2. screen \in [Seen -> Chars]
    BY <2>1, WindowType, TerminalAssumption DEF TermInit
  <2>3. start = 0 /\ row = 0 /\ col = 0 /\ gui = FALSE
    BY DEF TermInit
  <2>4. InBounds
    BY <2>3, TerminalAssumption DEF InBounds
  <2> QED
    BY <2>1, <2>2, <2>3, <2>4 DEF TypeBounds, TermTypeOK
<1>2. TypeBounds /\ [TermNext]_termVars => TypeBounds'
  <2> SUFFICES ASSUME TypeBounds, [TermNext]_termVars PROVE TypeBounds'
    OBVIOUS
  <2> USE TerminalAssumption DEF TypeBounds, TermTypeOK, InBounds, Line
  <2>0. ASSUME NEW buf \in [Cells -> Chars], NEW scr \in [Seen -> Chars], NextRow(buf, scr)
        PROVE  /\ row' \in Nat /\ row' < Visible
               /\ start' \in Nat /\ start' + Visible <= Height
               /\ screen' \in [Seen -> Chars]
    <3>1. CASE row + 1 < Visible
      BY <2>0, <3>1 DEF NextRow
    <3>2. CASE ~(row + 1 < Visible)
      <4>1. /\ row' \in Nat /\ row' < Visible
            /\ start' \in Nat /\ start' + Visible <= Height
        BY <2>0, <3>2 DEF NextRow, Scrolled, LastRow
      <4>2. screen' = Window(buf, start')
        BY <2>0, <3>2 DEF NextRow, Redraw
      <4> QED
        BY <4>1, <4>2, WindowType
    <3> QED
      BY <3>1, <3>2
  <2>1. CASE Newline
    BY <2>0, <2>1 DEF Newline
  <2>2. CASE Backspace
    BY <2>2 DEF Backspace, Back
  <2>3. CASE Put
    <3>1. PICK ch \in Chars :
            LET scr == [screen EXCEPT ![<<col, row>>] = ch] IN
            /\ buffer' = [buffer EXCEPT ![<<col, Line>>] = ch]
            /\ IF col + 1 < Width
                 THEN col' = col + 1 /\ screen' = scr /\ UNCHANGED <<start, row>>
                 ELSE col' = 0 /\ NextRow(buffer', scr)
      BY <2>3 DEF Put
    <3> DEFINE scr == [screen EXCEPT ![<<col, row>>] = ch]
    <3>2. buffer' \in [Cells -> Chars] /\ scr \in [Seen -> Chars] /\ gui' \in BOOLEAN
      BY <2>3, <3>1 DEF Put
    <3>3. CASE col + 1 < Width
      BY <3>1, <3>2, <3>3
    <3>4. CASE ~(col + 1 < Width)
      <4>1. col' = 0 /\ NextRow(buffer', scr)
        BY <3>1, <3>4
      <4> HIDE DEF scr
      <4> QED
        BY <2>0, <3>2, <4>1
    <3> QED
      BY <3>3, <3>4
  <2>4. CASE Clear
    <3>1. buffer' \in [Cells -> Chars]
      BY <2>4 DEF Clear, Cleared
    <3>2. screen' \in [Seen -> Chars]
      BY <2>4, <3>1, WindowType DEF Clear
    <3> QED
      BY <2>4, <3>1, <3>2 DEF Clear
  <2>5. CASE GuiStarts
    BY <2>5 DEF GuiStarts
  <2>6. CASE GuiEnds
    BY <2>6, WindowType DEF GuiEnds
  <2>7. CASE UNCHANGED termVars
    BY <2>7 DEF termVars
  <2> QED
    BY <2>1, <2>2, <2>3, <2>4, <2>5, <2>6, <2>7 DEF TermNext
<1> QED
  BY <1>1, <1>2, PTL DEF TermSpec, TypeBounds

\* The screen is right after every step: drawn cell by cell or all of it again.
THEOREM ScreenFollowsBuffer == TermSpec => []ScreenShowsBuffer
<1>1. TermInit => ScreenShowsBuffer
  BY DEF TermInit, ScreenShowsBuffer
<1>2. TypeBounds /\ ScreenShowsBuffer /\ [TermNext]_termVars => ScreenShowsBuffer'
  <2> SUFFICES ASSUME TypeBounds, ScreenShowsBuffer, [TermNext]_termVars, ~gui'
               PROVE  screen' = Window(buffer', start')
    BY DEF ScreenShowsBuffer
  <2> USE TerminalAssumption DEF TypeBounds, TermTypeOK, InBounds, Line
  <2>0. ASSUME NEW buf, NEW scr, scr = Window(buf, start), NextRow(buf, scr)
        PROVE  screen' = Window(buf, start')
    BY <2>0 DEF NextRow, Redraw
  <2>1. CASE Newline
    BY <2>0, <2>1 DEF Newline, ScreenShowsBuffer
  <2>2. CASE Backspace
    BY <2>2 DEF Backspace, ScreenShowsBuffer
  <2>3. CASE Put
    <3>1. PICK ch \in Chars :
            LET scr == [screen EXCEPT ![<<col, row>>] = ch] IN
            /\ buffer' = [buffer EXCEPT ![<<col, Line>>] = ch]
            /\ IF col + 1 < Width
                 THEN col' = col + 1 /\ screen' = scr /\ UNCHANGED <<start, row>>
                 ELSE col' = 0 /\ NextRow(buffer', scr)
      BY <2>3 DEF Put
    <3> DEFINE scr == [screen EXCEPT ![<<col, row>>] = ch]
    <3>2. scr = Window(buffer', start)
      <4>1. screen = Window(buffer, start)
        BY <2>3 DEF Put, ScreenShowsBuffer
      <4>2. scr \in [Seen -> Chars] /\ buffer' \in [Cells -> Chars]
        BY <3>1
      <4>3. ASSUME NEW x \in Columns, NEW y \in 0 .. Visible - 1
            PROVE  scr[<<x, y>>] = buffer'[<<x, y + start>>]
        <5>1. <<x, y>> \in Seen /\ <<x, y + start>> \in Cells
          BY <4>3 DEF Seen, Cells, Columns
        <5>2. screen[<<x, y>>] = buffer[<<x, y + start>>]
          BY <4>1, <5>1 DEF Window
        <5>3. <<x, y>> = <<col, row>> <=> <<x, y + start>> = <<col, start + row>>
          BY <4>3
        <5> QED
          BY <3>1, <5>1, <5>2, <5>3
      <4> HIDE DEF scr
      <4>4. ASSUME NEW p \in Seen PROVE scr[p] = buffer'[<<p[1], p[2] + start>>]
        BY <4>3, <4>4 DEF Seen
      <4> QED
        BY <4>2, <4>4 DEF Window
    <3>3. CASE col + 1 < Width
      BY <3>1, <3>2, <3>3
    <3>4. CASE ~(col + 1 < Width)
      <4>1. NextRow(buffer', scr)
        BY <3>1, <3>4
      <4> HIDE DEF scr
      <4> QED
        BY <2>0, <3>2, <4>1
    <3> QED
      BY <3>3, <3>4
  <2>4. CASE Clear
    BY <2>4 DEF Clear
  <2>5. CASE GuiStarts
    BY <2>5 DEF GuiStarts
  <2>6. CASE GuiEnds
    BY <2>6 DEF GuiEnds
  <2>7. CASE UNCHANGED termVars
    BY <2>7 DEF termVars, ScreenShowsBuffer
  <2> QED
    BY <2>1, <2>2, <2>3, <2>4, <2>5, <2>6, <2>7 DEF TermNext
<1> QED
  BY <1>1, <1>2, TerminalInBounds, PTL DEF TermSpec, TypeBounds

\* No write moves the cursor up in the buffer: what scrolls away is left behind.
LEMMA NeverUp ==
  ASSUME TypeBounds, NEW buf, NEW scr, NextRow(buf, scr)
  PROVE  Line <= Line'
  BY TerminalAssumption DEF NextRow, Scrolled, LastRow, Line, TypeBounds, TermTypeOK, InBounds

\* Nothing old waits below the cursor, in sight or still to be scrolled to.
THEOREM NothingBelow == TermSpec => []BelowIsBlank
<1>1. TermInit => BelowIsBlank
  BY DEF TermInit, BelowIsBlank
<1>2. ASSUME TypeBounds, Line' \in Nat, BelowIsBlank, [TermNext]_termVars,
             NEW x \in Columns, NEW y \in 0 .. Height - 1, y > Line'
      PROVE  buffer'[<<x, y>>] = Blank
  <2> DEFINE p == <<x, y>>
  <2>0. p \in Cells /\ y \in Int /\ Line \in Nat
    BY <1>2, TerminalAssumption DEF TypeBounds, TermTypeOK, Cells, Line
  <2>1. Line <= Line' => y > Line /\ buffer[p] = Blank
    <3>1. Line <= Line' => y > Line
      BY <1>2, <2>0
    <3>2. y > Line => buffer[p] = Blank
      BY <1>2, <2>0 DEF BelowIsBlank
    <3> QED
      BY <3>1, <3>2
  <2>2. CASE Put
    <3>1. PICK ch \in Chars :
            LET scr == [screen EXCEPT ![<<col, row>>] = ch] IN
            /\ buffer' = [buffer EXCEPT ![<<col, Line>>] = ch]
            /\ IF col + 1 < Width
                 THEN col' = col + 1 /\ screen' = scr /\ UNCHANGED <<start, row>>
                 ELSE col' = 0 /\ NextRow(buffer', scr)
      BY <2>2 DEF Put
    <3>2. Line <= Line'
      <4>1. CASE UNCHANGED <<start, row>>
        BY <2>0, <4>1 DEF Line
      <4>2. CASE ~UNCHANGED <<start, row>>
        BY <1>2, <3>1, <4>2, NeverUp
      <4> QED
        BY <4>1, <4>2
    <3>3. buffer[p] = Blank /\ p # <<col, Line>>
      BY <2>0, <2>1, <3>2
    <3>4. buffer \in [Cells -> Chars]
      BY <1>2 DEF TypeBounds, TermTypeOK
    <3> QED
      BY <2>0, <3>1, <3>3, <3>4
  <2>3. CASE Clear
    BY <2>0, <2>3 DEF Clear, Cleared
  <2>4. CASE Newline
    BY <1>2, <2>1, <2>4, NeverUp DEF Newline
  <2>5. CASE Backspace \/ GuiStarts \/ GuiEnds \/ UNCHANGED termVars
    <3>1. buffer' = buffer /\ Line' = Line
      BY <2>5 DEF Backspace, GuiStarts, GuiEnds, termVars, Line
    <3> QED
      BY <2>0, <2>1, <3>1
  <2> QED
    BY <1>2, <2>2, <2>3, <2>4, <2>5 DEF TermNext
<1>3. TypeBounds => Line \in Nat
  BY DEF TypeBounds, TermTypeOK, Line
<1>4. TypeBounds /\ (Line \in Nat)' /\ BelowIsBlank /\ [TermNext]_termVars => BelowIsBlank'
  <2> SUFFICES ASSUME TypeBounds, Line' \in Nat, BelowIsBlank, [TermNext]_termVars,
                      NEW p \in Cells, p[2] > Line'
               PROVE  buffer'[p] = Blank
    BY DEF BelowIsBlank
  <2>1. PICK x \in Columns, y \in 0 .. Height - 1 : p = <<x, y>>
    BY DEF Cells
  <2> QED
    BY <1>2, <2>1
<1> QED
  BY <1>1, <1>3, <1>4, TerminalInBounds, PTL DEF TermSpec, TypeBounds
=============================================================================
