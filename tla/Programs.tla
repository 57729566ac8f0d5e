------------------------------ MODULE Programs ------------------------------
(* What runs once the kernel has come up: the shell's commands, and the three  *)
(* programs with loops of their own that they lead to, one at a time.          *)
(*   shell --guiload--> desktop --Escape, close--> panic                       *)
(*   shell --recovery--> main_menu and its tests --Escape--> forever           *)
(*                       main_menu --Enter--> desktop,  --P--> pong --> panic  *)
EXTENDS Draw

CONSTANTS U8, Grey, Height, Period, Places, Cursor, MaxEvents, MaxKeys,
          Tree, Arguments, Numbers, PathSize, MAX_ARGUMENTS, IntSize, MaxText, MaxNumber

ASSUME U8Assumption == U8 \in Nat /\ Grey \in 4 .. U8 - 1
\* The mouse stays within the words of the frame buffer, not before them; the pointer is 16
\* pixels wide and high.
ASSUME PlacesAssumption ==
  /\ Places \subseteq {p \in Int \X Int : 1920 * p[2] + p[1] >= 0} /\ <<0, 0>> \in Places
  /\ Cursor \subseteq (0 .. 15) \X (0 .. 15)
\* The volume is a tree: names are not empty and have no slash in them, and what leads to a
\* file or a directory are directories.
Names == Seq(Nat \ {47}) \ {<<>>}
ASSUME TreeAssumption ==
  \A at \in DOMAIN Tree :
    /\ at \in Seq(Names) \ {<<>>} /\ Tree[at] \in {"dir", "file"}
    /\ \A k \in 1 .. Len(at) - 1 : LET up == SubSeq(at, 1, k) IN up \in DOMAIN Tree /\ Tree[up] = "dir"
ASSUME ArgumentsAssumption == Arguments \subseteq Seq(Nat)

VARIABLES
  running, keys,
  currentDir, s_fat_fs, font, held, task,                         \* Commands
  keyboard, tick, selected_option, need_redraw, selected_test,    \* Recovery
  redraw_tests, mode, shown,
  paused, started, debug, input_locked, iteration, game_tick,     \* Pong
  bot_pos, player_pos,
  window, MousePosition, screen, under, picture, covered, events  \* Desktop

C == INSTANCE Commands
R == INSTANCE Recovery
P == INSTANCE Pong
D == INSTANCE Desktop

commandVars == <<currentDir, s_fat_fs, font, held, task>>
recoveryVars == <<keyboard, tick, selected_option, need_redraw, selected_test, redraw_tests, mode, shown>>
pongVars == <<paused, started, debug, input_locked, iteration, game_tick, bot_pos, player_pos>>
desktopVars == <<window, MousePosition, screen, under, picture, covered, events>>
vars == <<running, keys, commandVars, recoveryVars, pongVars, desktopVars>>

Init ==
  /\ running = "shell" /\ keys = 0
  /\ C!Init /\ R!Init /\ P!Init /\ D!Init

\* What a program that is left for good had in its variables does not matter any more.
ForgetCommands ==
  /\ currentDir' = <<>> /\ s_fat_fs' = FALSE /\ font' = FALSE
  /\ held' = [k \in DOMAIN held |-> 0] /\ task' = [task EXCEPT !.in = "gone"]
ForgetRecovery ==
  /\ keyboard' = FALSE /\ tick' = 0 /\ selected_option' = 0 /\ need_redraw' = FALSE
  /\ selected_test' = 0 /\ redraw_tests' = FALSE /\ mode' = 0 /\ shown' = [shown EXCEPT !.page = "gone"]

\* The step with which one program starts another is a step of both.
DesktopFromShell ==
  /\ C!guiload /\ running' = "desktop" /\ D!start_desktop
  /\ ForgetCommands /\ UNCHANGED <<recoveryVars, pongVars>>
RecoveryFromShell ==
  /\ C!recovery /\ R!start_recovery
  /\ ForgetCommands /\ UNCHANGED <<pongVars, desktopVars>>
DesktopFromRecovery ==
  /\ R!MenuCalls("desktop") /\ running' = "desktop" /\ D!start_desktop
  /\ ForgetRecovery /\ UNCHANGED <<commandVars, pongVars>>
PongFromRecovery ==
  /\ R!MenuCalls("pong") /\ running' = "pong"
  /\ ForgetRecovery /\ UNCHANGED <<commandVars, pongVars, desktopVars>>

ShellStep == C!Next /\ UNCHANGED <<recoveryVars, pongVars, desktopVars>>
RecoveryStep ==
  R!Next /\ UNCHANGED <<commandVars, pongVars, desktopVars>>
PongStep == P!Next /\ UNCHANGED <<commandVars, recoveryVars, desktopVars>>
DesktopStep == D!Next /\ UNCHANGED <<commandVars, recoveryVars, pongVars>>

Next ==
  \/ ShellStep \/ RecoveryStep \/ PongStep \/ DesktopStep
  \/ DesktopFromShell \/ RecoveryFromShell \/ DesktopFromRecovery \/ PongFromRecovery

\* Nothing interrupts the loops of the recovery for good: the processor goes on.
Spec == Init /\ [][Next]_vars /\ WF_vars(RecoveryStep)
-----------------------------------------------------------------------------
(* Properties, of the modules *)
NothingLeaks == C!NothingLeaks
CurrentDirExists == C!CurrentDirExists
MenusShowSelection == R!MenusShowSelection
SelectionShown == R!SelectionShown
PointerLeavesNoTrace == D!PointerLeavesNoTrace
RestoreKeepsGeometry == D!RestoreKeepsGeometry
\* Of pure operators, and so looked at once.
FiguresExact == Init => LinesReach /\ CirclesRound /\ DotRunsOn
TextHandled == Init => C!TextHandled
=============================================================================
