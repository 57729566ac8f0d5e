------------------------------ MODULE Recovery ------------------------------
(* The menus of recovery/recovery.cpp.  Each menu is a loop that reads one key *)
(* event a turn and calls the next menu from within; "running" says whose turn *)
(* it is.  A key sets a lock that a few turns later lets the next one in.      *)
(*                                                                             *)
(* The buffer of the whole screen is allocated a tenth of its size.  What is   *)
(* drawn into it from row 108 on goes past the arena of the heap, over the     *)
(* variables that the linker puts behind it, the statics of this file with     *)
(* them: whatever fills the screen sets them to bytes of its colour.  (The     *)
(* third static, option_mode, is cleared by draw_main before it looks at it:  *)
(* the line of help is always the same, and both are left out.)                *)
EXTENDS Integers

CONSTANTS U8,        \* number of values of a uint8_t
          Grey,      \* a byte of the grey of a selected option, 0xAA
          MaxKeys    \* bound on the keys pressed

VARIABLES
  running,                        \* the loop that runs, of all programs
  keyboard, tick,                 \* statics of recovery.cpp
  selected_option, need_redraw,   \* of main_menu
  selected_test, redraw_tests,    \* of test_menu: its selected_option, need_redraw
  mode,                           \* of the GUI tests
  shown,                          \* what is on the screen: a page and its option
  keys                            \* keys pressed

lock == <<keyboard, tick>>
menu == <<selected_option, need_redraw>>
tests == <<selected_test, redraw_tests>>
recoveryVars == <<lock, menu, tests, mode, shown>>

Loops == {"main_menu", "test_menu", "gui_tests", "vbe_tests", "rgb_test", "sys_info"}
Keys == {"Escape", "ArrowUp", "ArrowDown", "ArrowLeft", "ArrowRight", "Enter", "P", "1"}
NoOption == U8 - 1      \* (uint8_t) -1
Page(page, option) == [page |-> page, option |-> option]

Init ==
  /\ keyboard = FALSE /\ tick = 0
  /\ selected_option = NoOption /\ need_redraw = TRUE
  /\ selected_test = NoOption /\ redraw_tests = TRUE /\ mode = 0
  /\ shown = Page("text", NoOption)

\* ps2_get_key_event: a key, or none.  Its release comes as a key event of its own.
Read(key) ==
  /\ key \in Keys \cup {"NONE"}
  /\ key # "NONE" => keys < MaxKeys
  /\ keys' = IF key = "NONE" THEN keys ELSE keys + 1

\* The screen is filled with a colour of these bytes, and the statics with it.
Filled(bytes) ==
  /\ keyboard' \in {b # 0 : b \in bytes} /\ tick' \in bytes
Black == {0}
AnyByte == 0 .. U8 - 1

\* A turn begins with tick++ and, when its time has come, unlocks the keyboard; only the
\* loop of the GUI tests unlocks late, too.
NextTick == (tick + 1) % U8
Unlocks == IF running = "gui_tests" THEN NextTick >= 3 ELSE NextTick = 3
Ticks == keyboard' = FALSE /\ tick' = IF keyboard THEN 0 ELSE NextTick
LocksKeyboard == keyboard' = TRUE /\ tick' = 0

\* The lock holds: the key is read and dropped.
StaysLocked == tick' = tick                                          \* mutant
CountsLocked == tick' = NextTick
Locked(key) ==
  /\ running \in {"main_menu", "test_menu", "sys_info"}
  /\ keyboard /\ ~Unlocks /\ Read(key)
  /\ CountsLocked
  /\ UNCHANGED <<running, keyboard, menu, tests, mode, shown>>

\* A turn with the lock open, of the loop that runs.
Open(loop, key) == running = loop /\ (keyboard => Unlocks) /\ Read(key)

Up(option) == (option - 1) % U8
Down(option) == (option + 1) % U8

\* start_recovery.  Without room for the buffer what it draws goes over the kernel itself.
start_recovery ==
  \/ /\ running' = "main_menu" /\ Filled(Black)
     /\ selected_option' = NoOption /\ need_redraw' = TRUE
     /\ shown' = Page("main_menu", NoOption)
     /\ UNCHANGED <<tests, mode>>
  \/ running' = "panic" /\ UNCHANGED recoveryVars

-----------------------------------------------------------------------------
(* main_menu *)

MainArrow(key) ==
  /\ Open("main_menu", key) /\ key \in {"ArrowUp", "ArrowDown"}
  /\ LET stop == IF key = "ArrowUp" THEN 0 ELSE 2 IN
     IF selected_option = stop THEN Ticks /\ UNCHANGED menu
     ELSE /\ LocksKeyboard /\ need_redraw' = TRUE
          /\ selected_option' = IF key = "ArrowUp" THEN Up(selected_option) ELSE Down(selected_option)
  /\ UNCHANGED <<running, tests, mode, shown>>

\* Whatever Enter called has returned.
BackInMain ==
  /\ shown' = Page("main_menu", NoOption)
  /\ selected_option' = NoOption /\ need_redraw' = TRUE /\ LocksKeyboard

Called(option) ==
  CASE option = 0 -> "test_menu" [] option = 1 -> "desktop" [] option = 2 -> "sys_info"
    [] OTHER -> "main_menu"
Enters(key) ==
  /\ Open("main_menu", key) /\ key = "Enter" /\ Called(selected_option) # "desktop"
  /\ running' = Called(selected_option)
  /\ UNCHANGED mode
  /\ CASE running' = "main_menu" -> BackInMain /\ UNCHANGED tests
       [] running' = "test_menu" ->
            /\ Filled(Black) /\ need_redraw' = TRUE /\ selected_test' = NoOption /\ redraw_tests' = TRUE
            /\ UNCHANGED <<selected_option, shown>>
       [] running' = "sys_info" ->
            /\ Filled(Black) /\ need_redraw' = TRUE /\ shown' = Page("sys_info", NoOption)
            /\ UNCHANGED <<selected_option, tests>>

\* The desktop and the game, which P starts from whatever option, do not come back.
MenuCalls(program) ==
  \E key \in {"Enter", "P"} :
    /\ Open("main_menu", key)
    /\ program = IF key = "P" THEN "pong" ELSE Called(selected_option)

\* A turn that neither moves the selection nor calls a menu ends with the redraw, whose last
\* option decides the colour.  Escape leaves for the endless loop of start_recovery.
NeverRedrawn == need_redraw' = FALSE /\ Ticks /\ UNCHANGED shown   \* mutant
RedrawMain ==
  /\ need_redraw' = FALSE
  /\ IF need_redraw
       THEN /\ Filled(IF selected_option = 2 THEN {0, Grey} ELSE Black)
            /\ shown' = Page("main_menu", selected_option)
       ELSE Ticks /\ UNCHANGED shown
MainTurn(key) ==
  /\ Open("main_menu", key) /\ key \notin {"ArrowUp", "ArrowDown", "Enter", "P"}
  /\ running' = IF key = "Escape" THEN "forever" ELSE "main_menu"
  /\ IF running' = "main_menu" THEN RedrawMain ELSE Ticks /\ UNCHANGED <<need_redraw, shown>>
  /\ UNCHANGED <<selected_option, tests, mode>>

-----------------------------------------------------------------------------
(* test_menu, its three tests, and sys_info *)

\* The end of a turn of test_menu, with the option that is then selected.
RedrawTests(option) ==
  /\ redraw_tests' = FALSE /\ selected_test' = option
  /\ shown' = Page("test_menu", option)
  /\ Filled(IF option = 3 THEN {0, Grey} ELSE Black)

TestArrow(key) ==
  /\ Open("test_menu", key) /\ key \in {"ArrowUp", "ArrowDown"}
  /\ IF selected_test = (IF key = "ArrowUp" THEN 0 ELSE 3)
       THEN Ticks /\ UNCHANGED <<tests, shown>>
       ELSE RedrawTests(IF key = "ArrowUp" THEN Up(selected_test) ELSE Down(selected_test))
  /\ UNCHANGED <<running, menu, mode>>

LeaveTests(key) ==
  /\ Open("test_menu", key)
  /\ key = "Escape" \/ (key = "Enter" /\ selected_test = 0)
  /\ running' = "main_menu" /\ BackInMain
  /\ UNCHANGED <<tests, mode>>

\* The VBE tests end black, the RGB test begins with a grey of its own; the GUI tests may
\* draw over the statics wherever these are.
Test(option) == CASE option = 1 -> "gui_tests" [] option = 2 -> "vbe_tests" [] option = 3 -> "rgb_test"
StartTest(key) ==
  /\ Open("test_menu", key) /\ key = "Enter" /\ selected_test \in 1 .. 3
  /\ running' = Test(selected_test)
  /\ Filled(IF selected_test = 2 THEN Black ELSE AnyByte)
  /\ shown' = Page(Test(selected_test), NoOption)
  /\ mode' = 0
  /\ UNCHANGED <<menu, tests>>

TestTurn(key) ==
  /\ Open("test_menu", key)
  /\ key \notin {"Escape", "ArrowUp", "ArrowDown"}
  /\ key = "Enter" => selected_test \notin 0 .. 3
  /\ IF redraw_tests THEN RedrawTests(selected_test)
                     ELSE Ticks /\ UNCHANGED <<tests, shown>>
  /\ UNCHANGED <<running, menu, mode>>

\* The GUI tests draw before they read the key, and then the lock is any.  Leaving them the
\* menu is drawn, with an option that is not the last.
GuiTests(key) ==
  /\ running = "gui_tests" /\ Read(key)
  /\ \/ /\ key = "Escape" /\ running' = "test_menu" /\ RedrawTests(selected_test)
        /\ UNCHANGED mode
     \/ /\ mode' \in {mode, CASE key = "ArrowLeft" -> 0 [] key = "ArrowRight" -> 1 [] OTHER -> mode}
        /\ Filled(AnyByte) /\ UNCHANGED <<running, tests, shown>>
  /\ UNCHANGED menu

\* The VBE and RGB tests neither tick nor ask for a redraw, and the arrow that chose them
\* has done the last: their picture stays.
OtherTests(key) ==
  /\ running \in {"vbe_tests", "rgb_test"} /\ Read(key)
  /\ running' = IF key = "Escape" THEN "test_menu" ELSE running
  /\ IF key = "1" /\ running = "rgb_test" THEN Filled(AnyByte) ELSE UNCHANGED lock
  /\ UNCHANGED <<menu, tests, mode, shown>>

SysInfo(key) ==
  /\ Open("sys_info", key)
  /\ IF key = "Escape" THEN running' = "main_menu" /\ BackInMain
     ELSE Ticks /\ UNCHANGED <<running, menu, shown>>
  /\ UNCHANGED <<tests, mode>>

Turn(key) ==
  \/ Locked(key) \/ MainArrow(key) \/ Enters(key) \/ MainTurn(key)
  \/ TestArrow(key) \/ LeaveTests(key) \/ StartTest(key) \/ TestTurn(key)
  \/ GuiTests(key) \/ OtherTests(key) \/ SysInfo(key)
Next == \E key \in Keys \cup {"NONE"} : Turn(key)

-----------------------------------------------------------------------------
(* Properties *)

\* The main menu and the list of tests, when no redraw is wanted: each shows its own page with
\* the option Enter would take.  Not so while a redraw is wanted, when an Enter may come first,
\* nor after a VBE or RGB test, whose picture the list of tests leaves where it is.
MenusShowSelection ==
  /\ running = "main_menu" /\ ~need_redraw =>
       shown.page = "main_menu" /\ shown.option = selected_option
  /\ running = "test_menu" /\ ~redraw_tests =>
       \/ shown.page = "test_menu" /\ shown.option = selected_test
       \/ shown.page \in {"vbe_tests", "rgb_test"}

\* The lock waits for tick to be exactly 3, from whatever the drawing left in it: once the
\* keys stop, the main menu has drawn the option that was chosen last.
SelectionShown ==
  running = "main_menu" /\ need_redraw ~> running # "main_menu" \/ ~need_redraw
=============================================================================
