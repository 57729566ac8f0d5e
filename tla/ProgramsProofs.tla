--------------------------- MODULE ProgramsProofs ---------------------------
(* What the programs that run after the boot keep, whatever is typed, pressed  *)
(* and moved and whichever access or allocation fails: the shell's commands    *)
(* give back what they take and stay within the volume, menus that want no     *)
(* redraw show what is selected, the pointer leaves traces only where the      *)
(* window was drawn under it, and the window gets its place back.              *)
EXTENDS Programs, SequenceTheorems, WellFoundedInduction, TLAPS

-----------------------------------------------------------------------------
(* Whose turn it is *)

LEMMA ShellTurn == C!Next => running = "shell" /\ running' \in {"shell", "overwritten", "panic"}
BY DEF C!Next, C!FAT_Init, C!NoDevice, C!LoadFont, C!cd_up, C!FAT_ListFiles, C!ListName, C!ListEnd,
       C!pause, C!cd, C!cat, C!Overruns, C!Enters, C!Shows, C!ls, C!calc, C!beep, C!Prompt

Menus == {"main_menu", "test_menu", "gui_tests", "vbe_tests", "rgb_test", "sys_info"}
LEMMA RecoveryTurn == R!Next => running \in Menus /\ running' \in Menus \cup {"forever"}
<1> SUFFICES ASSUME NEW key, R!Turn(key)
             PROVE  running \in Menus /\ running' \in Menus \cup {"forever"}
  BY DEF R!Next
<1>1. CASE R!Locked(key) BY <1>1 DEF R!Locked, Menus
<1>2. CASE R!MainArrow(key) BY <1>2 DEF R!MainArrow, R!Open, Menus
<1>3. CASE R!Enters(key) BY <1>3 DEF R!Enters, R!Open, R!Called, Menus
<1>4. CASE R!MainTurn(key) BY <1>4 DEF R!MainTurn, R!Open, Menus
<1>5. CASE R!TestArrow(key) BY <1>5 DEF R!TestArrow, R!Open, Menus
<1>6. CASE R!LeaveTests(key) BY <1>6 DEF R!LeaveTests, R!Open, Menus
<1>7. CASE R!StartTest(key) BY <1>7 DEF R!StartTest, R!Open, R!Test, Menus
<1>8. CASE R!TestTurn(key) BY <1>8 DEF R!TestTurn, R!Open, Menus
<1>9. CASE R!GuiTests(key) BY <1>9 DEF R!GuiTests, Menus
<1>10. CASE R!OtherTests(key) BY <1>10 DEF R!OtherTests, Menus
<1>11. CASE R!SysInfo(key) BY <1>11 DEF R!SysInfo, R!Open, Menus
<1> QED BY <1>1, <1>2, <1>3, <1>4, <1>5, <1>6, <1>7, <1>8, <1>9, <1>10, <1>11 DEF R!Turn

LEMMA PongTurn == P!Next => running = "pong" /\ running' \in {"pong", "panic"}
BY DEF P!Next, P!Unlock, P!Space, P!Move, P!Other, P!Leave

LEMMA DesktopTurn == D!Next => running = "desktop" /\ running' \in {"desktop", "overwritten", "panic"}
BY DEF D!Next, D!Escape, D!Moves, D!Event, D!Button, D!LeftClick, D!DrawsBase, D!Wait

LEMMA MenuCallsTurn ==
  ASSUME NEW program, R!MenuCalls(program)
  PROVE  running = "main_menu"
BY DEF R!MenuCalls, R!Open

LEMMA RecoveryStarts == C!recovery /\ R!start_recovery => running = "shell" /\ running' \in {"main_menu", "panic"}
BY DEF C!recovery, C!Prompt, R!start_recovery

-----------------------------------------------------------------------------
(* The menus *)

\* A VBE or RGB test shows its own picture.
OwnPicture == running \in {"vbe_tests", "rgb_test"} => shown.page = running
MenusInv == MenusShowSelection /\ OwnPicture

LEMMA MenusTurn == MenusInv /\ R!Next => MenusInv'
<1> SUFFICES ASSUME MenusInv, NEW key, R!Turn(key) PROVE MenusInv'
  BY DEF R!Next
<1> USE DEF MenusInv, MenusShowSelection, R!MenusShowSelection, OwnPicture, R!Page
<1>1. CASE R!Locked(key) BY <1>1 DEF R!Locked, R!menu, R!tests
<1>2. CASE R!MainArrow(key)
  <2>1. running' = "main_menu" /\ UNCHANGED shown BY <1>2 DEF R!MainArrow, R!Open
  <2>2. need_redraw' = TRUE \/ UNCHANGED <<selected_option, need_redraw>>
    BY <1>2 DEF R!MainArrow, R!menu
  <2>3. running = "main_menu" BY <1>2 DEF R!MainArrow, R!Open
  <2> QED BY <2>1, <2>2, <2>3
<1>3. CASE R!Enters(key)
  <2>1. running' \in {"test_menu", "sys_info", "main_menu"} BY <1>3 DEF R!Enters, R!Called
  <2>2. running' = "main_menu" => need_redraw' = TRUE BY <1>3 DEF R!Enters, R!BackInMain
  <2>3. running' = "test_menu" => redraw_tests' = TRUE BY <1>3 DEF R!Enters
  <2> QED BY <2>1, <2>2, <2>3
<1>4. CASE R!MainTurn(key)
  <2>1. running = "main_menu" /\ UNCHANGED selected_option BY <1>4 DEF R!MainTurn, R!Open
  <2>2. CASE running' = "main_menu"
    <3>1. R!RedrawMain BY <1>4, <2>2 DEF R!MainTurn
    <3> QED BY <2>1, <2>2, <3>1 DEF R!RedrawMain
  <2>3. CASE running' = "forever" BY <2>3
  <2> QED BY <1>4, <2>2, <2>3 DEF R!MainTurn
<1>5. CASE R!TestArrow(key)
  <2>1. running = "test_menu" /\ running' = "test_menu" BY <1>5 DEF R!TestArrow, R!Open
  <2>2. UNCHANGED <<selected_test, redraw_tests, shown>> \/ \E option : R!RedrawTests(option)
    BY <1>5 DEF R!TestArrow, R!tests
  <2> QED BY <2>1, <2>2 DEF R!RedrawTests
<1>6. CASE R!LeaveTests(key) BY <1>6 DEF R!LeaveTests, R!BackInMain
<1>7. CASE R!StartTest(key)
  <2>1. running' \in {"gui_tests", "vbe_tests", "rgb_test"} BY <1>7 DEF R!StartTest, R!Test
  <2>2. shown'.page = running' BY <1>7 DEF R!StartTest
  <2> QED BY <2>1, <2>2
<1>8. CASE R!TestTurn(key)
  <2>1. running = "test_menu" /\ running' = "test_menu" BY <1>8 DEF R!TestTurn, R!Open
  <2>2. UNCHANGED <<selected_test, redraw_tests, shown>> \/ \E option : R!RedrawTests(option)
    BY <1>8 DEF R!TestTurn, R!tests
  <2> QED BY <2>1, <2>2 DEF R!RedrawTests
<1>9. CASE R!GuiTests(key)
  <2>1. running = "gui_tests" /\ running' \in {"gui_tests", "test_menu"} BY <1>9 DEF R!GuiTests
  <2>2. running' = "test_menu" => R!RedrawTests(selected_test) BY <1>9 DEF R!GuiTests
  <2> QED BY <2>1, <2>2 DEF R!RedrawTests
<1>10. CASE R!OtherTests(key) BY <1>10 DEF R!OtherTests, R!menu, R!tests
<1>11. CASE R!SysInfo(key) BY <1>11 DEF R!SysInfo, R!Open, R!BackInMain, R!menu, R!tests
<1> QED BY <1>1, <1>2, <1>3, <1>4, <1>5, <1>6, <1>7, <1>8, <1>9, <1>10, <1>11 DEF R!Turn

LEMMA MenusKept == MenusInv /\ [Next]_vars => MenusInv'
<1> SUFFICES ASSUME MenusInv, [Next]_vars PROVE MenusInv' OBVIOUS
<1>1. CASE running' \notin Menus
  BY <1>1 DEF MenusInv, MenusShowSelection, R!MenusShowSelection, OwnPicture, Menus
<1>2. CASE RecoveryStep BY <1>2, MenusTurn DEF RecoveryStep
<1>3. CASE RecoveryFromShell /\ running' \in Menus
  BY <1>3 DEF RecoveryFromShell, R!start_recovery, Menus, MenusInv, MenusShowSelection, R!MenusShowSelection, OwnPicture
<1>4. CASE UNCHANGED vars
  BY <1>4 DEF vars, recoveryVars, MenusInv, MenusShowSelection, R!MenusShowSelection, OwnPicture
<1>5. ShellStep => running' \notin Menus BY ShellTurn DEF ShellStep, Menus
<1>6. PongStep => running' \notin Menus BY PongTurn DEF PongStep, Menus
<1>7. DesktopStep => running' \notin Menus BY DesktopTurn DEF DesktopStep, Menus
<1>8. DesktopFromShell \/ DesktopFromRecovery \/ PongFromRecovery => running' \notin Menus
  BY DEF DesktopFromShell, DesktopFromRecovery, PongFromRecovery, Menus
<1> QED BY <1>1, <1>2, <1>3, <1>4, <1>5, <1>6, <1>7, <1>8 DEF Next

\* The main menu and the list of tests, whichever way one goes through them, and whatever the
\* drawing leaves in their lock: one that wants no redraw shows the option Enter would take.
\* Nothing is said while a redraw is wanted, nor of the list of tests under the picture of a
\* VBE or RGB test.
THEOREM MenusShowTheirSelection == Spec => []MenusShowSelection
<1>1. Init => MenusInv
  BY DEF Init, MenusInv, MenusShowSelection, R!MenusShowSelection, OwnPicture
<1>2. MenusInv => MenusShowSelection BY DEF MenusInv
<1> QED BY <1>1, <1>2, MenusKept, PTL DEF Spec

-----------------------------------------------------------------------------
(* The desktop *)

\* What a maximized window will get back is what it had.
WindowInv ==
  /\ window.state = "Open" => window.at = D!First
  /\ window.state = "Maximized" => window.mm = D!First
  /\ window.state \in {"Open", "Maximized"}
  /\ window = [at |-> window.at, mm |-> window.mm, state |-> window.state,
               is_dragging |-> window.is_dragging, buffer |-> window.buffer]

\* While the desktop runs, the buffer of the pointer holds what the picture has there, unless it
\* was drawn anew under it.
PointerInv ==
  running = "desktop" =>
    /\ MousePosition \in Places
    /\ \A a \in D!Pixels \ D!Pointer(MousePosition) : screen[a] # picture[a] => a \in covered
    /\ \A c \in D!Seen(MousePosition) :
         under[c] # picture[D!At(MousePosition, c)] => D!At(MousePosition, c) \in covered

LEMMA ClickKeepsWindow == WindowInv /\ D!LeftClick => WindowInv'
<1> SUFFICES ASSUME WindowInv, D!LeftClick PROVE WindowInv' OBVIOUS
<1> USE DEF WindowInv
<1>1. CASE UNCHANGED window BY <1>1
<1>2. CASE window' = D!change_state(window)
  <2>1. CASE window.state = "Open"
    <3>1. D!change_state(window) = [window EXCEPT !.state = "Maximized", !.mm = window.at, !.at = D!FullScreen]
      BY <2>1 DEF D!change_state, D!Maximized
    <3> QED BY <1>2, <2>1, <3>1
  <2>2. CASE window.state = "Maximized"
    <3>1. D!change_state(window) = [window EXCEPT !.state = "Open", !.at = window.mm]
      BY <2>2 DEF D!change_state, D!Restored
    <3> QED BY <1>2, <2>2, <3>1
  <2> QED BY <2>1, <2>2
<1> QED BY <1>1, <1>2 DEF D!LeftClick

LEMMA StartsWindow == D!start_desktop => WindowInv'
BY DEF D!start_desktop, D!NewWindow, WindowInv

LEMMA WindowKept == WindowInv /\ [Next]_vars => WindowInv'
<1> SUFFICES ASSUME WindowInv, [Next]_vars PROVE WindowInv' OBVIOUS
<1>1. UNCHANGED window => WindowInv' BY DEF WindowInv
<1>2. CASE DesktopStep
  <2>1. CASE D!Escape BY <1>1, <2>1 DEF D!Escape, D!desktopVars
  <2>2. CASE \E to \in Places : D!Moves(to) BY <1>1, <2>2 DEF D!Moves
  <2>3. CASE \E key \in {"NONE", "1"} : D!Button(key)
    <3>1. D!LeftClick BY <2>3 DEF D!Button
    <3> QED BY <3>1, ClickKeepsWindow
  <2>4. CASE \E key \in {"NONE", "1"} : D!Wait(key) BY <1>1, <2>4 DEF D!Wait, D!desktopVars
  <2> QED BY <1>2, <2>1, <2>2, <2>3, <2>4 DEF DesktopStep, D!Next
<1>3. CASE DesktopFromShell \/ DesktopFromRecovery
  BY <1>3, StartsWindow DEF DesktopFromShell, DesktopFromRecovery
<1>4. CASE ShellStep \/ RecoveryStep \/ PongStep \/ RecoveryFromShell \/ PongFromRecovery \/ UNCHANGED vars
  BY <1>1, <1>4 DEF ShellStep, RecoveryStep, PongStep, RecoveryFromShell, PongFromRecovery, vars, desktopVars
<1> QED BY <1>2, <1>3, <1>4 DEF Next

\* The window: however often it is maximized, when it is open it has the place and size it was
\* created with, unless render_base, drawing past the buffer, went over what the desktop uses.
THEOREM WindowGetsItsPlaceBack == Spec => []RestoreKeepsGeometry
<1>1. Init => WindowInv BY DEF Init, D!Init, D!NewWindow, WindowInv
<1>2. WindowInv => RestoreKeepsGeometry BY DEF WindowInv, RestoreKeepsGeometry, D!RestoreKeepsGeometry
<1> QED BY <1>1, <1>2, WindowKept, PTL DEF Spec

\* A pixel the pointer has is one of the screen.
LEMMA PointerPixels ==
  ASSUME NEW p \in Places
  PROVE  /\ \A c \in D!Seen(p) : D!At(p, c) \in D!Pointer(p)
         /\ D!Pointer(p) \subseteq D!Pixels
BY DEF D!Pointer, D!Pixels

\* Drawing a window anew makes a pixel the same in both.
LEMMA RenderedAt ==
  ASSUME NEW scr, NEW w, NEW p \in D!Pixels
  PROVE  D!Rendered(scr, w)[p] =
           IF ~D!In(p, w.at) THEN scr[p] ELSE IF w.buffer = "null" THEN "blue" ELSE w.state
BY DEF D!Rendered

LEMMA RedrawKeepsPointer ==
  ASSUME PointerInv, running = "desktop", NEW w, D!Redrawn(w), UNCHANGED <<MousePosition, under>>
  PROVE  PointerInv'
<1> DEFINE mine == D!Pointer(MousePosition)
<1>1. /\ MousePosition \in Places
      /\ \A a \in D!Pixels \ mine : screen[a] # picture[a] => a \in covered
      /\ \A c \in D!Seen(MousePosition) :
           under[c] # picture[D!At(MousePosition, c)] => D!At(MousePosition, c) \in covered
  BY DEF PointerInv
<1>2. /\ screen' = D!Rendered(screen, w) /\ picture' = D!Rendered(picture, w)
      /\ covered' = {a \in covered : ~D!In(a, w.at)} \cup {a \in mine : D!In(a, w.at)}
  BY DEF D!Redrawn, D!DrawnUnder
<1>3. mine \subseteq D!Pixels /\ \A c \in D!Seen(MousePosition) : D!At(MousePosition, c) \in mine
  BY <1>1, PointerPixels
<1> HIDE DEF mine
<1>4. ASSUME NEW a \in D!Pixels \ mine, screen'[a] # picture'[a]
      PROVE  a \in covered'
  BY <1>1, <1>2, <1>4, RenderedAt
<1>5. ASSUME NEW c \in D!Seen(MousePosition), under[c] # picture'[D!At(MousePosition, c)]
      PROVE  D!At(MousePosition, c) \in covered'
  BY <1>1, <1>2, <1>3, <1>5, RenderedAt
<1>6. D!Seen(MousePosition)' = D!Seen(MousePosition) /\ D!Pointer(MousePosition)' = mine
      /\ \A c : D!At(MousePosition, c)' = D!At(MousePosition, c)
  BY DEF D!Seen, D!Pointer, D!At, mine
<1> QED BY <1>1, <1>4, <1>5, <1>6 DEF PointerInv

\* The pointer gives back what it covered, and takes what it covers now.
LEMMA MoveKeepsPointer ==
  ASSUME PointerInv, running = "desktop", NEW to \in Places, D!MovesPointer(to),
         UNCHANGED <<picture, covered>>
  PROVE  PointerInv'
<1> DEFINE old == MousePosition
           cleared == D!Cleared(old)
<1>1. /\ old \in Places
      /\ \A a \in D!Pixels \ D!Pointer(old) : screen[a] # picture[a] => a \in covered
      /\ \A c \in D!Seen(old) : under[c] # picture[D!At(old, c)] => D!At(old, c) \in covered
  BY DEF PointerInv
<1>2. /\ MousePosition' = to /\ screen' = D!Pointed(cleared, to)
      /\ under' = D!Saved(cleared, to)
  BY DEF D!MovesPointer
<1>3. ASSUME NEW a \in D!Pixels, cleared[a] # picture[a]
      PROVE  a \in covered
  <2>1. CASE a \in D!Pointer(old)
    <3> DEFINE c == CHOOSE k \in D!Seen(old) : D!At(old, k) = a
    <3>1. \E k \in D!Seen(old) : D!At(old, k) = a BY <2>1 DEF D!Pointer
    <3>2. c \in D!Seen(old) /\ D!At(old, c) = a BY <3>1
    <3>3. cleared[a] = under[c] BY <2>1 DEF D!Cleared
    <3> QED BY <1>1, <1>3, <3>2, <3>3
  <2>2. CASE a \notin D!Pointer(old)
    <3>1. cleared[a] = screen[a] BY <2>2 DEF D!Cleared
    <3> QED BY <1>1, <1>3, <2>2, <3>1
  <2> QED BY <2>1, <2>2
<1>4. D!Pointer(to) \subseteq D!Pixels /\ \A c \in D!Seen(to) : D!At(to, c) \in D!Pointer(to)
  BY PointerPixels
<1> HIDE DEF cleared
<1>5. ASSUME NEW a \in D!Pixels \ D!Pointer(to), screen'[a] # picture[a]
      PROVE  a \in covered
  <2>1. screen'[a] = cleared[a] BY <1>2 DEF D!Pointed
  <2> QED BY <1>3, <1>5, <2>1
<1>6. ASSUME NEW c \in D!Seen(to), under'[c] # picture[D!At(to, c)]
      PROVE  D!At(to, c) \in covered
  <2>1. under'[c] = cleared[D!At(to, c)] BY <1>2 DEF D!Saved, D!Seen
  <2> QED BY <1>3, <1>4, <1>6, <2>1
<1>7. D!Seen(MousePosition)' = D!Seen(to) /\ D!Pointer(MousePosition)' = D!Pointer(to)
      /\ \A c : D!At(MousePosition, c)' = D!At(to, c)
  BY <1>2 DEF D!Seen, D!Pointer, D!At
<1> QED BY <1>2, <1>5, <1>6, <1>7 DEF PointerInv

LEMMA StartsPointer == D!start_desktop => PointerInv'
<1> SUFFICES ASSUME D!start_desktop PROVE PointerInv' OBVIOUS
<1> DEFINE blue == [a \in D!Pixels |-> "blue"]
           corner == <<0, 0>>
           mine == D!Pointer(corner)
<1>1. PICK buffer \in {"heap", "null"} :
        /\ MousePosition' = corner /\ under' = D!Saved(blue, corner)
        /\ covered' = IF buffer = "null" THEN {} ELSE D!DrawnUnder(corner, D!NewWindow(buffer))
        /\ screen' = IF buffer = "null" THEN D!Pointed(blue, corner)
                     ELSE D!Rendered(D!Pointed(blue, corner), D!NewWindow(buffer))
        /\ picture' = IF buffer = "null" THEN blue ELSE D!Rendered(blue, D!NewWindow(buffer))
  BY DEF D!start_desktop
<1>2. corner \in Places BY PlacesAssumption
<1>3. mine \subseteq D!Pixels /\ \A c \in D!Seen(corner) : D!At(corner, c) \in mine
  BY <1>2, PointerPixels
<1>4. \A c \in D!Seen(corner) : under'[c] = "blue"
  BY <1>1, <1>3 DEF D!Saved, D!Seen
<1>5. covered' = IF buffer = "null" THEN {} ELSE {a \in mine : D!In(a, D!NewWindow(buffer).at)}
  BY <1>1 DEF D!DrawnUnder
<1>6. D!Seen(MousePosition)' = D!Seen(corner) /\ D!Pointer(MousePosition)' = mine
      /\ \A c : D!At(MousePosition, c)' = D!At(corner, c)
  BY <1>1 DEF D!Seen, D!Pointer, D!At
<1>7. \A a \in D!Pixels : blue[a] = "blue"
                          /\ D!Pointed(blue, corner)[a] = IF a \in mine THEN "pointer" ELSE "blue"
  BY DEF D!Pointed
<1> HIDE DEF corner, mine, blue
<1>8. ASSUME NEW a \in D!Pixels \ mine PROVE screen'[a] = picture'[a]
  BY <1>1, <1>7, <1>8, RenderedAt
<1>9. ASSUME NEW c \in D!Seen(corner), under'[c] # picture'[D!At(corner, c)]
      PROVE  D!At(corner, c) \in covered'
  BY <1>1, <1>3, <1>4, <1>5, <1>7, <1>9, RenderedAt
<1> QED BY <1>1, <1>2, <1>6, <1>8, <1>9 DEF PointerInv

LEMMA PointerKept == PointerInv /\ [Next]_vars => PointerInv'
<1> SUFFICES ASSUME PointerInv, [Next]_vars PROVE PointerInv' OBVIOUS
<1>1. running' # "desktop" => PointerInv' BY DEF PointerInv
<1>2. UNCHANGED <<running, MousePosition, screen, under, picture, covered>> => PointerInv'
  BY DEF PointerInv, D!Seen, D!Pointer, D!At
<1>3. CASE DesktopStep
  <2>1. CASE D!Escape BY <1>1, <2>1 DEF D!Escape
  <2>2. CASE \E to \in Places : D!Moves(to)
    <3>1. PICK to \in Places : D!Moves(to) BY <2>2
    <3>2. running = "desktop" /\ D!MovesPointer(to) /\ UNCHANGED <<picture, covered>>
      BY <3>1 DEF D!Moves, D!Event
    <3> QED BY <3>2, MoveKeepsPointer
  <2>3. CASE \E key \in {"NONE", "1"} : D!Button(key)
    <3>1. D!LeftClick /\ running = "desktop" /\ UNCHANGED <<MousePosition, under>>
      BY <2>3 DEF D!Button, D!Event
    <3>2. CASE UNCHANGED <<screen, picture, covered>> /\ running' = "desktop"
      BY <1>2, <3>1, <3>2
    <3>3. CASE \E w : D!Redrawn(w) BY <3>1, <3>3, RedrawKeepsPointer
    <3>4. UNCHANGED <<screen, picture, covered>> \/ \E w : D!Redrawn(w)
      BY <3>1 DEF D!LeftClick
    <3>5. running' \in {"desktop", "overwritten", "panic"} BY <1>3, DesktopTurn DEF DesktopStep
    <3> QED BY <1>1, <3>2, <3>3, <3>4, <3>5
  <2>4. CASE \E key \in {"NONE", "1"} : D!Wait(key) BY <1>2, <2>4 DEF D!Wait, D!desktopVars, D!screens
  <2> QED BY <1>3, <2>1, <2>2, <2>3, <2>4 DEF DesktopStep, D!Next
<1>4. CASE DesktopFromShell \/ DesktopFromRecovery
  BY <1>4, StartsPointer DEF DesktopFromShell, DesktopFromRecovery
<1>5. CASE ShellStep BY <1>1, <1>5, ShellTurn DEF ShellStep
<1>6. CASE RecoveryStep BY <1>1, <1>6, RecoveryTurn DEF RecoveryStep, Menus
<1>7. CASE PongStep BY <1>1, <1>7, PongTurn DEF PongStep
<1>8. CASE RecoveryFromShell BY <1>1, <1>8, RecoveryStarts DEF RecoveryFromShell
<1>9. CASE PongFromRecovery BY <1>1, <1>9 DEF PongFromRecovery
<1>10. CASE UNCHANGED vars BY <1>2, <1>10 DEF vars, desktopVars
<1> QED BY <1>3, <1>4, <1>5, <1>6, <1>7, <1>8, <1>9, <1>10 DEF Next

\* The pointer: wherever it goes, also past the edges of the screen, and however the window is
\* drawn in between, the pixels it is not on are as they would be without it, but for those
\* it was on when the window was last drawn over them.
THEOREM PointerRestoresScreen == Spec => []PointerLeavesNoTrace
<1>1. Init => PointerInv BY DEF Init, PointerInv
<1>2. PointerInv => PointerLeavesNoTrace
  BY DEF PointerInv, PointerLeavesNoTrace, D!PointerLeavesNoTrace
<1> QED BY <1>1, <1>2, PointerKept, PTL DEF Spec

-----------------------------------------------------------------------------
(* The names in a path *)

LEMMA Smallest ==
  ASSUME NEW S, S \subseteq Nat, S # {}
  PROVE  \E n \in S : \A m \in S : n <= m
<1>1. PICK n \in S : \A m \in S : ~(<<m, n>> \in OpToRel(<, Nat))
  BY NatLessThanWellFounded, WFMin
<1>2. \A m \in S : ~(m < n) BY <1>1, Zenon DEF OpToRel
<1> QED BY <1>2

\* f is what Components goes through, in the first m characters of the path.
Splits(f, path, m) ==
  f = [i \in 0 .. m |-> IF i = 0 THEN [done |-> <<>>, name |-> <<>>] ELSE C!NextChar(f[i - 1], path[i])]

LEMMA SplitsAt ==
  ASSUME NEW f, NEW path, NEW m \in Nat, Splits(f, path, m)
  PROVE  /\ f[0] = [done |-> <<>>, name |-> <<>>]
         /\ \A i \in 1 .. m : f[i] = C!NextChar(f[i - 1], path[i])
<1>1. \A i \in 0 .. m : f[i] = IF i = 0 THEN [done |-> <<>>, name |-> <<>>] ELSE C!NextChar(f[i - 1], path[i])
  BY Zenon DEF Splits
<1> QED BY <1>1

LEMMA SplitExists == \A path : \A m \in Nat : \E f : Splits(f, path, m)
<1> TAKE path
<1> DEFINE Bad == {m \in Nat : ~ \E f : Splits(f, path, m)}
<1>1. SUFFICES ASSUME Bad # {} PROVE FALSE OBVIOUS
<1>2. PICK m \in Bad : \A k \in Bad : m <= k
  <2>1. Bad \subseteq Nat OBVIOUS
  <2> HIDE DEF Bad
  <2> QED BY <1>1, <2>1, Smallest
<1>3. m \in Nat /\ ~ \E f : Splits(f, path, m) OBVIOUS
<1>4. CASE m = 0
  <2>1. Splits([i \in 0 .. 0 |-> [done |-> <<>>, name |-> <<>>]], path, 0) BY DEF Splits
  <2> QED BY <1>3, <1>4, <2>1
<1>5. CASE m # 0
  <2>1. m - 1 \in Nat /\ m - 1 \notin Bad BY <1>2, <1>3, <1>5
  <2>2. PICK f : Splits(f, path, m - 1) BY <2>1
  <2> DEFINE g == [i \in 0 .. m |-> IF i = m THEN C!NextChar(f[m - 1], path[m]) ELSE f[i]]
  <2>3. f[0] = [done |-> <<>>, name |-> <<>>] /\ \A i \in 1 .. m - 1 : f[i] = C!NextChar(f[i - 1], path[i])
    BY <2>1, <2>2, SplitsAt
  <2>4. g[m] = C!NextChar(f[m - 1], path[m]) /\ \A i \in 0 .. m - 1 : g[i] = f[i] BY <1>3, <1>5
  <2>5. g = [i \in 0 .. m |-> g[i]] OBVIOUS
  <2> HIDE DEF g
  <2>6. ASSUME NEW i \in 0 .. m
        PROVE  g[i] = IF i = 0 THEN [done |-> <<>>, name |-> <<>>] ELSE C!NextChar(g[i - 1], path[i])
    <3>1. CASE i = m
      <4>1. g[m - 1] = f[m - 1] BY <1>3, <1>5, <2>4
      <4> QED BY <1>5, <2>4, <3>1, <4>1
    <3>2. CASE i \in 0 .. m - 1
      <4>1. i # 0 => i - 1 \in 0 .. m - 1 /\ i \in 1 .. m - 1 BY <1>3, <3>2
      <4> QED BY <2>3, <2>4, <3>2, <4>1
    <3> QED BY <1>3, <3>1, <3>2
  <2>7. Splits(g, path, m) BY <2>5, <2>6 DEF Splits
  <2> QED BY <1>3, <2>7
<1> QED BY <1>4, <1>5

LEMMA ComponentsAre ==
  ASSUME NEW path \in Seq(Nat)
  PROVE  \E f : Splits(f, path, Len(path)) /\ C!Components(path) = C!NameEnds(f[Len(path)])
<1> DEFINE split == CHOOSE f : f = [i \in 0 .. Len(path) |->
             IF i = 0 THEN [done |-> <<>>, name |-> <<>>] ELSE C!NextChar(f[i - 1], path[i])]
<1>1. Len(path) \in Nat OBVIOUS
<1>2. \E f : Splits(f, path, Len(path)) BY <1>1, SplitExists
<1>3. Splits(split, path, Len(path)) BY <1>2, Zenon DEF Splits
<1>4. C!Components(path) = C!NameEnds(split[Len(path)]) BY DEF C!Components
<1> QED BY <1>3, <1>4

\* What has been split so far.
SplitOK(s) == s = [done |-> s.done, name |-> s.name] /\ s.done \in Seq(Seq(Nat)) /\ s.name \in Seq(Nat)

LEMMA NothingOK == SplitOK([done |-> <<>>, name |-> <<>>])
<1> DEFINE s == [done |-> <<>>, name |-> <<>>]
<1>1. s.done = <<>> /\ s.name = <<>> OBVIOUS
<1>2. <<>> \in Seq(Seq(Nat)) /\ <<>> \in Seq(Nat) OBVIOUS
<1> QED BY <1>1, <1>2 DEF SplitOK

LEMMA NotEmpty == \A S : \A s \in Seq(S), e \in S : Append(s, e) # <<>>
BY AppendProperties, EmptySeq

LEMMA NextCharOK ==
  ASSUME NEW s, SplitOK(s), NEW ch \in Nat
  PROVE  SplitOK(C!NextChar(s, ch)) /\ C!NameEnds(s) \in Seq(Seq(Nat))
<1>1. s.done \in Seq(Seq(Nat)) /\ s.name \in Seq(Nat) BY DEF SplitOK
<1>2. C!NameEnds(s) \in Seq(Seq(Nat)) BY <1>1 DEF C!NameEnds
<1>3. CASE ch = C!Slash
  <2>1. C!NextChar(s, ch) = [done |-> C!NameEnds(s), name |-> <<>>] BY <1>3 DEF C!NextChar
  <2> QED BY <1>2, <2>1 DEF SplitOK
<1>4. CASE ch # C!Slash
  <2>1. C!NextChar(s, ch) = [done |-> s.done, name |-> Append(s.name, ch)] BY <1>4 DEF C!NextChar
  <2>2. Append(s.name, ch) \in Seq(Nat) BY <1>1
  <2> QED BY <1>1, <1>2, <2>1, <2>2 DEF SplitOK
<1> QED BY <1>3, <1>4

LEMMA SplitTypes ==
  ASSUME NEW path \in Seq(Nat), NEW m \in 0 .. Len(path), NEW f, Splits(f, path, m)
  PROVE  \A i \in 0 .. m : SplitOK(f[i])
<1> DEFINE Bad == {i \in 0 .. m : ~SplitOK(f[i])}
<1>0. m \in Nat /\ Bad \subseteq Nat OBVIOUS
<1>1. SUFFICES ASSUME Bad # {} PROVE FALSE OBVIOUS
<1>2. PICK i \in Bad : \A k \in Bad : i <= k
  <2> HIDE DEF Bad
  <2> QED BY <1>0, <1>1, Smallest
<1>3. i \in 0 .. m /\ ~SplitOK(f[i]) OBVIOUS
<1>4. f[0] = [done |-> <<>>, name |-> <<>>] /\ \A k \in 1 .. m : f[k] = C!NextChar(f[k - 1], path[k])
  BY <1>0, SplitsAt
<1>5. CASE i = 0 BY <1>3, <1>4, <1>5, NothingOK
<1>6. CASE i # 0
  <2>1. i \in 1 .. m /\ i - 1 \in 0 .. m /\ i - 1 \notin Bad BY <1>2, <1>3, <1>6
  <2>2. SplitOK(f[i - 1]) BY <2>1
  <2>3. path[i] \in Nat BY <2>1
  <2>4. f[i] = C!NextChar(f[i - 1], path[i]) BY <1>4, <2>1
  <2> QED BY <1>3, <2>2, <2>3, <2>4, NextCharOK
<1> QED BY <1>5, <1>6

LEMMA ComponentsType == ASSUME NEW path \in Seq(Nat) PROVE C!Components(path) \in Seq(Seq(Nat))
<1>1. PICK f : Splits(f, path, Len(path)) /\ C!Components(path) = C!NameEnds(f[Len(path)])
  BY ComponentsAre
<1>2. Len(path) \in 0 .. Len(path) OBVIOUS
<1>3. SplitOK(f[Len(path)]) BY <1>1, <1>2, SplitTypes
<1> QED BY <1>1, <1>3, NextCharOK

\* The names of the empty path are none; a name without a slash is no empty path.
LEMMA NoComponents == C!Components(<<>>) = <<>>
<1>1. <<>> \in Seq(Nat) /\ Len(<<>>) = 0 OBVIOUS
<1>2. PICK f : Splits(f, <<>>, 0) /\ C!Components(<<>>) = C!NameEnds(f[0]) BY <1>1, ComponentsAre
<1>3. f[0] = [done |-> <<>>, name |-> <<>>] BY <1>2, SplitsAt
<1> QED BY <1>2, <1>3 DEF C!NameEnds

LEMMA NameIsComponent ==
  ASSUME NEW name \in Names
  PROVE  name \in Seq(Nat) /\ C!Components(name) # <<>>
<1>1. name \in Seq(Nat) /\ Len(name) \in Nat \ {0} /\ \A i \in 1 .. Len(name) : name[i] \in Nat \ {47}
  BY DEF Names
<1>2. PICK f : Splits(f, name, Len(name)) /\ C!Components(name) = C!NameEnds(f[Len(name)])
  BY <1>1, ComponentsAre
<1>3. \A i \in 0 .. Len(name) : SplitOK(f[i]) BY <1>1, <1>2, SplitTypes
<1>4. f[Len(name)] = C!NextChar(f[Len(name) - 1], name[Len(name)]) BY <1>1, <1>2, SplitsAt
<1>5. f[Len(name)] = [done |-> f[Len(name) - 1].done, name |-> Append(f[Len(name) - 1].name, name[Len(name)])]
  BY <1>1, <1>4 DEF C!NextChar, C!Slash
<1>6. SplitOK(f[Len(name) - 1]) /\ SplitOK(f[Len(name)])
  <2>1. Len(name) - 1 \in 0 .. Len(name) /\ Len(name) \in 0 .. Len(name) BY <1>1
  <2> QED BY <1>3, <2>1
<1>7. f[Len(name) - 1].name \in Seq(Nat) /\ name[Len(name)] \in Nat
  BY <1>1, <1>6 DEF SplitOK
<1>8. f[Len(name)].name # <<>> BY <1>5, <1>7, NotEmpty
<1>9. C!Components(name) = Append(f[Len(name)].done, f[Len(name)].name) BY <1>2, <1>8 DEF C!NameEnds
<1>10. f[Len(name)].done \in Seq(Seq(Nat)) /\ f[Len(name)].name \in Seq(Nat) BY <1>6 DEF SplitOK
<1> QED BY <1>1, <1>9, <1>10, NotEmpty

Begins(a, b) == Len(a) <= Len(b) /\ \A k \in 1 .. Len(a) : a[k] = b[k]

LEMMA BeginsLonger ==
  ASSUME NEW S, NEW a \in Seq(S), NEW b \in Seq(S), NEW e \in S, Begins(a, b)
  PROVE  Begins(a, Append(b, e))
<1>1. Len(a) \in Nat /\ Len(b) \in Nat /\ Len(Append(b, e)) = Len(b) + 1 BY AppendProperties
<1>2. Len(a) <= Len(b) /\ \A k \in 1 .. Len(a) : a[k] = b[k] BY DEF Begins
<1>3. \A k \in 1 .. Len(b) : Append(b, e)[k] = b[k] BY AppendProperties
<1>4. \A k \in 1 .. Len(a) : k \in 1 .. Len(b) BY <1>1, <1>2
<1>5. \A k \in 1 .. Len(a) : a[k] = Append(b, e)[k] BY <1>2, <1>3, <1>4
<1>6. Len(a) <= Len(Append(b, e)) BY <1>1, <1>2
<1> QED BY <1>5, <1>6 DEF Begins

LEMMA SplitGrows ==
  ASSUME NEW s, SplitOK(s), NEW ch \in Nat, NEW a \in Seq(Seq(Nat)), Begins(a, s.done)
  PROVE  Begins(a, C!NameEnds(s)) /\ Begins(a, C!NextChar(s, ch).done)
<1>1. s.done \in Seq(Seq(Nat)) /\ s.name \in Seq(Nat) BY DEF SplitOK
<1>2. Begins(a, C!NameEnds(s)) BY <1>1, BeginsLonger DEF C!NameEnds
<1>3. C!NextChar(s, ch).done \in {s.done, C!NameEnds(s)} BY DEF C!NextChar
<1> QED BY <1>2, <1>3

\* What is before a slash is split the same, and what comes after it only adds names.
LEMMA BeforeSlash ==
  ASSUME NEW p \in Seq(Nat), NEW slash \in 1 .. Len(p), p[slash] = C!Slash,
         NEW q \in Seq(Nat), Len(q) = slash - 1, \A i \in 1 .. slash - 1 : q[i] = p[i]
  PROVE  Begins(C!Components(q), C!Components(p))
<1>0. Len(p) \in Nat /\ slash - 1 \in Nat OBVIOUS
<1>1. PICK f : Splits(f, p, Len(p)) /\ C!Components(p) = C!NameEnds(f[Len(p)]) BY ComponentsAre
<1>2. PICK g : Splits(g, q, slash - 1) /\ C!Components(q) = C!NameEnds(g[slash - 1]) BY ComponentsAre
<1>3. f[0] = [done |-> <<>>, name |-> <<>>] /\ \A i \in 1 .. Len(p) : f[i] = C!NextChar(f[i - 1], p[i])
  BY <1>0, <1>1, SplitsAt
<1>4. g[0] = [done |-> <<>>, name |-> <<>>] /\ \A i \in 1 .. slash - 1 : g[i] = C!NextChar(g[i - 1], q[i])
  BY <1>0, <1>2, SplitsAt
<1>5. g[slash - 1] = f[slash - 1]
  <2> DEFINE Bad == {i \in 0 .. slash - 1 : g[i] # f[i]}
  <2>1. SUFFICES ASSUME Bad # {} PROVE FALSE BY <1>0
  <2>2. PICK i \in Bad : \A k \in Bad : i <= k
    <3>1. Bad \subseteq Nat OBVIOUS
    <3> HIDE DEF Bad
    <3> QED BY <2>1, <3>1, Smallest
  <2>3. i \in 0 .. slash - 1 /\ g[i] # f[i] OBVIOUS
  <2>4. CASE i = 0 BY <1>3, <1>4, <2>3, <2>4
  <2>5. CASE i # 0
    <3>0. i \in 1 .. slash - 1 /\ i \in 1 .. Len(p) /\ i - 1 \in 0 .. slash - 1
      BY <1>0, <2>3, <2>5
    <3>1. i - 1 \notin Bad
      <4>1. i \in Int /\ ~(i <= i - 1) BY <3>0
      <4> HIDE DEF Bad
      <4> QED BY <2>2, <4>1
    <3>2. g[i - 1] = f[i - 1] /\ q[i] = p[i] BY <3>0, <3>1
    <3> QED BY <1>3, <1>4, <2>3, <3>0, <3>2
  <2> QED BY <2>4, <2>5
<1>6. \A i \in 0 .. Len(p) : SplitOK(f[i])
  <2>1. Len(p) \in 0 .. Len(p) BY <1>0
  <2> QED BY <1>1, <2>1, SplitTypes
<1>7. C!Components(q) \in Seq(Seq(Nat)) BY ComponentsType
<1>8. f[slash].done = C!Components(q)
  <2>1. f[slash] = [done |-> C!NameEnds(f[slash - 1]), name |-> <<>>] BY <1>3 DEF C!NextChar
  <2> QED BY <1>2, <1>5, <2>1
<1>9. Begins(C!Components(q), f[Len(p)].done)
  <2> DEFINE Bad == {i \in slash .. Len(p) : ~Begins(C!Components(q), f[i].done)}
  <2>1. SUFFICES ASSUME Bad # {} PROVE FALSE BY <1>0
  <2>2. PICK i \in Bad : \A k \in Bad : i <= k
    <3>1. Bad \subseteq Nat OBVIOUS
    <3> HIDE DEF Bad
    <3> QED BY <2>1, <3>1, Smallest
  <2>3. i \in slash .. Len(p) /\ ~Begins(C!Components(q), f[i].done) OBVIOUS
  <2>4. CASE i = slash BY <1>7, <1>8, <2>3, <2>4 DEF Begins
  <2>5. CASE i # slash
    <3>0. i \in 1 .. Len(p) /\ i - 1 \in slash .. Len(p) /\ i - 1 \in 0 .. Len(p)
      BY <1>0, <2>3, <2>5
    <3>1. i - 1 \notin Bad
      <4>1. i \in Int /\ ~(i <= i - 1) BY <3>0
      <4> HIDE DEF Bad
      <4> QED BY <2>2, <4>1
    <3>2. Begins(C!Components(q), f[i - 1].done) /\ SplitOK(f[i - 1]) /\ p[i] \in Nat BY <1>6, <3>0, <3>1
    <3>3. f[i] = C!NextChar(f[i - 1], p[i]) BY <1>3, <3>0
    <3> QED BY <1>7, <2>3, <3>2, <3>3, SplitGrows
  <2> QED BY <2>4, <2>5
<1>10. SplitOK(f[Len(p)]) BY <1>0, <1>6
<1> QED BY <1>1, <1>7, <1>9, <1>10, SplitGrows

-----------------------------------------------------------------------------
(* Opening a path *)

Counts == [C!Blocks -> Int]

\* What is open after the first k names of a path: nothing, the root, or what these names are
\* the path of; and one block more is held in the last case.
Reached(o, names, k, h) ==
  \/ o = [file |-> C!NULL, held |-> h]
  \/ k = 0 /\ o = [file |-> C!RootFile, held |-> h]
  \/ /\ k # 0 /\ SubSeq(names, 1, k) \in DOMAIN Tree
     /\ o = [file |-> [at |-> SubSeq(names, 1, k), kind |-> Tree[SubSeq(names, 1, k)]],
             held |-> C!Allocated(h, {"file"})]

LEMMA FreedAllocated ==
  ASSUME NEW h \in Counts
  PROVE  /\ C!Allocated(h, {"file"}) \in Counts
         /\ C!Freed(C!Allocated(h, {"file"}), {"file"}) = h
         /\ C!Freed(C!Allocated(C!Allocated(h, {"file"}), {"file"}), {"file"}) = C!Allocated(h, {"file"})
<1>1. h = [k \in C!Blocks |-> h[k]] /\ \A k \in C!Blocks : h[k] \in Int BY DEF Counts
<1>2. C!Allocated(h, {"file"}) = [k \in C!Blocks |-> h[k] + IF k \in {"file"} THEN 1 ELSE 0]
  BY DEF C!Allocated
<1>3. C!Allocated(h, {"file"}) \in Counts BY <1>1, <1>2 DEF Counts
<1>4. ASSUME NEW g \in Counts PROVE C!Freed(C!Allocated(g, {"file"}), {"file"}) = g
  <2> DEFINE more == C!Allocated(g, {"file"})
  <2>1. g = [k \in C!Blocks |-> g[k]] /\ \A k \in C!Blocks : g[k] \in Int BY DEF Counts
  <2>2. \A k \in C!Blocks : more[k] = g[k] + IF k \in {"file"} THEN 1 ELSE 0 BY DEF C!Allocated
  <2> HIDE DEF more
  <2>3. C!Freed(more, {"file"}) = [k \in C!Blocks |-> more[k] - IF k \in {"file"} THEN 1 ELSE 0]
    BY DEF C!Freed
  <2>4. \A k \in C!Blocks : more[k] - (IF k \in {"file"} THEN 1 ELSE 0) = g[k] BY <2>1, <2>2
  <2>5. C!Freed(more, {"file"}) = [k \in C!Blocks |-> g[k]] BY <2>3, <2>4
  <2> QED BY <2>1, <2>5 DEF more
<1> QED BY <1>3, <1>4

LEMMA OneNameMore ==
  ASSUME NEW S, NEW names \in Seq(S), NEW k \in 1 .. Len(names)
  PROVE  /\ SubSeq(names, 1, k) \in Seq(S) /\ Len(SubSeq(names, 1, k)) = k
         /\ SubSeq(names, 1, k) # <<>> /\ SubSeq(names, 1, 0) = <<>>
         /\ Append(SubSeq(names, 1, k - 1), names[k]) = SubSeq(names, 1, k)
<1>1. k \in Nat /\ k - 1 \in Nat /\ \A i \in 1 .. k : names[i] \in S BY ElementOfSeq
<1>2. /\ SubSeq(names, 1, k) \in Seq(S) /\ Len(SubSeq(names, 1, k)) = k
      /\ \A i \in 1 .. k : SubSeq(names, 1, k)[i] = names[i]
  BY <1>1, SubSeqProperties
<1>3. \A i \in 1 .. k - 1 : names[i] \in S BY <1>1
<1>4. /\ SubSeq(names, 1, k - 1) \in Seq(S) /\ Len(SubSeq(names, 1, k - 1)) = k - 1
      /\ \A i \in 1 .. k - 1 : SubSeq(names, 1, k - 1)[i] = names[i]
  BY <1>1, <1>3, SubSeqProperties
<1> DEFINE b == SubSeq(names, 1, k)
           a == SubSeq(names, 1, k - 1)
<1> HIDE DEF a, b
<1>5. names[k] \in S BY <1>1
<1>6. /\ Append(a, names[k]) \in Seq(S) /\ Len(Append(a, names[k])) = k
      /\ \A i \in 1 .. k : Append(a, names[k])[i] = b[i]
  <2>1. a \in Seq(S) /\ Len(a) = k - 1 /\ \A i \in 1 .. k - 1 : a[i] = names[i] BY <1>4 DEF a
  <2>2. /\ Append(a, names[k]) \in Seq(S) /\ Len(Append(a, names[k])) = k
        /\ \A i \in 1 .. k - 1 : Append(a, names[k])[i] = a[i]
        /\ Append(a, names[k])[k] = names[k]
    BY <1>1, <1>5, <2>1, AppendProperties
  <2>3. \A i \in 1 .. k : b[i] = names[i] BY <1>2 DEF b
  <2> QED BY <1>1, <2>1, <2>2, <2>3
<1>7. Append(a, names[k]) = b BY <1>2, <1>6, SeqEqual DEF b
<1>8. SubSeq(names, 1, 0) = <<>> BY SubSeqEmpty
<1>9. SubSeq(names, 1, k) # <<>> BY <1>1, <1>2, EmptySeq
<1> QED BY <1>2, <1>7, <1>8, <1>9 DEF a, b

\* One directory is closed when the next is open.
LEMMA NextReached ==
  ASSUME NEW h \in Counts, NEW names \in Seq(Seq(Nat)), NEW k \in 1 .. Len(names),
         NEW o, Reached(o, names, k - 1, h), NEW q \in C!OpenNext(o, names[k])
  PROVE  Reached(q, names, k, h)
<1>1. CASE o = [file |-> C!NULL, held |-> h]
  BY <1>1 DEF C!OpenNext, Reached
<1>2. CASE o.file # C!NULL
  <2>1. PICK r \in C!FAT_Open(o.file, names[k], o.held) :
          q = [r EXCEPT !.held = C!FAT_Close(o.file, r.held)]
    BY <1>2 DEF C!OpenNext
  <2> DEFINE at == Append(o.file.at, names[k])
  <2>2. \/ r = [file |-> C!NULL, held |-> o.held]
        \/ at \in DOMAIN Tree /\ r = [file |-> [at |-> at, kind |-> Tree[at]], held |-> C!Allocated(o.held, {"file"})]
    BY <2>1 DEF C!FAT_Open
  <2>3. at = SubSeq(names, 1, k) /\ C!FAT_Close(o.file, o.held) = h
        /\ C!FAT_Close(o.file, C!Allocated(o.held, {"file"})) = C!Allocated(h, {"file"})
    <3>1. CASE k - 1 = 0 /\ o = [file |-> C!RootFile, held |-> h]
      <4>1. o.file.at = <<>> /\ o.held = h BY <3>1 DEF C!RootFile
      <4>2. Append(<<>>, names[k]) = SubSeq(names, 1, k) BY <3>1, OneNameMore
      <4> QED BY <3>1, <4>1, <4>2 DEF C!FAT_Close
    <3>2. CASE k - 1 # 0 /\ o = [file |-> [at |-> SubSeq(names, 1, k - 1), kind |-> Tree[SubSeq(names, 1, k - 1)]],
                                 held |-> C!Allocated(h, {"file"})]
      <4>1. o.file.at = SubSeq(names, 1, k - 1) /\ o.held = C!Allocated(h, {"file"}) BY <3>2
      <4>2. Append(SubSeq(names, 1, k - 1), names[k]) = SubSeq(names, 1, k) BY OneNameMore
      <4>3. SubSeq(names, 1, k - 1) # <<>>
        <5>1. k - 1 \in 1 .. Len(names) BY <3>2
        <5> QED BY <5>1, OneNameMore
      <4> QED BY <4>1, <4>2, <4>3, FreedAllocated DEF C!FAT_Close
    <3> QED BY <1>2, <3>1, <3>2 DEF Reached
  <2> HIDE DEF at
  <2>4. CASE r = [file |-> C!NULL, held |-> o.held]
    <3>1. q = [file |-> C!NULL, held |-> h] BY <2>1, <2>3, <2>4
    <3> QED BY <3>1 DEF Reached
  <2>5. CASE at \in DOMAIN Tree /\ r = [file |-> [at |-> at, kind |-> Tree[at]], held |-> C!Allocated(o.held, {"file"})]
    <3>1. q = [file |-> [at |-> at, kind |-> Tree[at]], held |-> C!Allocated(h, {"file"})]
      BY <2>1, <2>3, <2>5
    <3> QED BY <2>3, <2>5, <3>1 DEF Reached
  <2> QED BY <2>2, <2>4, <2>5
<1>3. o = [file |-> C!NULL, held |-> h] \/ o.file # C!NULL
  <2>1. C!RootFile # C!NULL BY DEF C!RootFile, C!NULL
  <2>2. \A at \in DOMAIN Tree : [at |-> at, kind |-> Tree[at]] # C!NULL
    BY TreeAssumption DEF C!NULL
  <2>3. CASE o = [file |-> C!RootFile, held |-> h] BY <2>1, <2>3
  <2>4. CASE SubSeq(names, 1, k - 1) \in DOMAIN Tree /\
             o.file = [at |-> SubSeq(names, 1, k - 1), kind |-> Tree[SubSeq(names, 1, k - 1)]]
    BY <2>2, <2>4
  <2> QED BY <2>3, <2>4 DEF Reached
<1> QED BY <1>1, <1>2, <1>3

\* f is what FAT_OpenAbsolute goes through, in the first m names.
Walks(f, names, h, m) ==
  f = [k \in 0 .. m |-> IF k = 0 THEN {[file |-> C!RootFile, held |-> h]}
                        ELSE UNION {C!OpenNext(o, names[k]) : o \in f[k - 1]}]

LEMMA WalksAt ==
  ASSUME NEW f, NEW names, NEW h, NEW m \in Nat, Walks(f, names, h, m)
  PROVE  /\ f[0] = {[file |-> C!RootFile, held |-> h]}
         /\ \A k \in 1 .. m : f[k] = UNION {C!OpenNext(o, names[k]) : o \in f[k - 1]}
<1>1. \A k \in 0 .. m : f[k] = IF k = 0 THEN {[file |-> C!RootFile, held |-> h]}
                               ELSE UNION {C!OpenNext(o, names[k]) : o \in f[k - 1]}
  BY Zenon DEF Walks
<1>2. 0 \in 0 .. m /\ \A k \in 1 .. m : k \in 0 .. m /\ k # 0 OBVIOUS
<1> QED BY <1>1, <1>2, Zenon

LEMMA WalkExists == \A names, h : \A m \in Nat : \E f : Walks(f, names, h, m)
<1> TAKE names, h
<1> DEFINE Root == {[file |-> C!RootFile, held |-> h]}
           After(S, k) == UNION {C!OpenNext(o, names[k]) : o \in S}
           Bad == {m \in Nat : ~ \E f : Walks(f, names, h, m)}
<1>1. SUFFICES ASSUME Bad # {} PROVE FALSE OBVIOUS
<1>2. PICK m \in Bad : \A k \in Bad : m <= k
  <2>1. Bad \subseteq Nat OBVIOUS
  <2> HIDE DEF Bad
  <2> QED BY <1>1, <2>1, Smallest
<1>3. m \in Nat /\ ~ \E f : Walks(f, names, h, m) OBVIOUS
<1>4. CASE m = 0
  <2>1. Walks([k \in 0 .. 0 |-> Root], names, h, 0) BY DEF Walks
  <2> QED BY <1>3, <1>4, <2>1
<1>5. CASE m # 0
  <2>1. m - 1 \in Nat /\ m - 1 \notin Bad BY <1>2, <1>3, <1>5
  <2>2. PICK f : Walks(f, names, h, m - 1) BY <2>1
  <2>3. f[0] = Root /\ \A k \in 1 .. m - 1 : f[k] = After(f[k - 1], k)
    BY <2>1, <2>2, WalksAt
  <2> HIDE DEF After
  <2> DEFINE g == [k \in 0 .. m |-> IF k = m THEN After(f[m - 1], m) ELSE f[k]]
  <2>4. g[m] = After(f[m - 1], m) /\ \A k \in 0 .. m - 1 : g[k] = f[k] BY <1>3, <1>5
  <2>5. g = [k \in 0 .. m |-> g[k]] OBVIOUS
  <2> HIDE DEF g, Root
  <2>6. ASSUME NEW k \in 0 .. m PROVE g[k] = IF k = 0 THEN Root ELSE After(g[k - 1], k)
    <3>1. CASE k = m
      <4>1. g[m - 1] = f[m - 1] BY <1>3, <1>5, <2>4
      <4> QED BY <1>5, <2>4, <3>1, <4>1
    <3>2. CASE k \in 0 .. m - 1
      <4>1. k # 0 => k - 1 \in 0 .. m - 1 /\ k \in 1 .. m - 1 BY <1>3, <3>2
      <4> QED BY <2>3, <2>4, <3>2, <4>1
    <3> QED BY <1>3, <3>1, <3>2
  <2>7. g = [k \in 0 .. m |-> IF k = 0 THEN Root ELSE After(g[k - 1], k)] BY <2>5, <2>6
  <2>8. Walks(g, names, h, m) BY <2>7 DEF Walks, Root, After
  <2> QED BY <1>3, <2>8
<1> QED BY <1>4, <1>5

\* A path that can be opened is that of a file or a directory of the volume, or of the root; what
\* is held is what was held, and the file if there is one.
Opened(o, names, h) ==
  \/ o = [file |-> C!NULL, held |-> h]
  \/ names = <<>> /\ o = [file |-> C!RootFile, held |-> h]
  \/ names # <<>> /\ names \in DOMAIN Tree
     /\ o = [file |-> [at |-> names, kind |-> Tree[names]], held |-> C!Allocated(h, {"file"})]

LEMMA OpenAbsolute ==
  ASSUME NEW path \in Seq(Nat), NEW h \in Counts, NEW o \in C!FAT_OpenAbsolute(path, h)
  PROVE  Opened(o, C!Components(path), h)
<1>1. PICK names : names = C!Components(path) OBVIOUS
<1>2. names \in Seq(Seq(Nat)) /\ Len(names) \in Nat BY <1>1, ComponentsType
<1> DEFINE f == CHOOSE g : g = [k \in 0 .. Len(names) |->
                   IF k = 0 THEN {[file |-> C!RootFile, held |-> h]}
                   ELSE UNION {C!OpenNext(p, names[k]) : p \in g[k - 1]}]
<1>3. o \in f[Len(names)] BY <1>1 DEF C!FAT_OpenAbsolute
<1>4. \E g : Walks(g, names, h, Len(names)) BY <1>2, WalkExists
<1>5. Walks(f, names, h, Len(names)) BY <1>4, Zenon DEF Walks
<1> HIDE DEF f
<1>6. /\ f[0] = {[file |-> C!RootFile, held |-> h]}
      /\ \A k \in 1 .. Len(names) : f[k] = UNION {C!OpenNext(p, names[k]) : p \in f[k - 1]}
  BY <1>2, <1>5, WalksAt
<1>7. \A k \in 0 .. Len(names) : \A p \in f[k] : Reached(p, names, k, h)
  <2> DEFINE Bad == {k \in 0 .. Len(names) : ~ \A p \in f[k] : Reached(p, names, k, h)}
  <2>1. SUFFICES ASSUME Bad # {} PROVE FALSE BY <1>2
  <2>2. PICK k \in Bad : \A j \in Bad : k <= j
    <3>1. Bad \subseteq Nat BY <1>2
    <3> HIDE DEF Bad
    <3> QED BY <2>1, <3>1, Smallest
  <2>3. k \in 0 .. Len(names) /\ ~ \A p \in f[k] : Reached(p, names, k, h) OBVIOUS
  <2>4. CASE k = 0
    <3>1. \A p \in f[k] : p = [file |-> C!RootFile, held |-> h] BY <1>6, <2>4
    <3> QED BY <2>3, <2>4, <3>1 DEF Reached
  <2>5. CASE k # 0
    <3>1. k \in 1 .. Len(names) /\ k - 1 \in 0 .. Len(names) /\ ~(k <= k - 1) BY <1>2, <2>3, <2>5
    <3>2. k - 1 \notin Bad
      <4> HIDE DEF Bad
      <4> QED BY <2>2, <3>1
    <3>3. \A p \in f[k - 1] : Reached(p, names, k - 1, h) BY <3>1, <3>2
    <3>4. ASSUME NEW q \in f[k] PROVE Reached(q, names, k, h)
      <4>1. PICK p \in f[k - 1] : q \in C!OpenNext(p, names[k]) BY <1>6, <3>1
      <4> QED BY <1>2, <3>1, <3>3, <4>1, NextReached
    <3> QED BY <2>3, <3>4
  <2> QED BY <2>4, <2>5
<1>8. Reached(o, names, Len(names), h) BY <1>2, <1>3, <1>7
<1>9. SubSeq(names, 1, Len(names)) = names BY <1>2, SubSeqFull
<1>10. Len(names) = 0 <=> names = <<>> BY <1>2, EmptySeq
<1> QED BY <1>1, <1>8, <1>9, <1>10 DEF Reached, Opened

-----------------------------------------------------------------------------
(* The commands *)

\* What stays allocated at the prompt, and with it what a function at work has by now.
Stands(k) == IF k \in {"fat_sector_buffer", "filesystem"} /\ s_fat_fs THEN 1
             ELSE IF k \in {"font", "header", "glyphs"} /\ font THEN 1 ELSE 0
Carries(h, kinds) == h \in Counts /\ \A k \in C!Blocks : h[k] = Stands(k) + IF k \in kinds THEN 1 ELSE 0
Holds(kinds) == Carries(held, kinds)
InitHolds(at) == CASE at = 1 -> {} [] at = 5 -> {"sector_buffer", "fat_sector_buffer"} [] OTHER -> {"sector_buffer"}

\* While ls is at work: the file, and any number of names with their list.
Listing ==
  /\ held \in Counts
  /\ held["names"] \in {0, 1} /\ held["name"] \in Nat
  /\ \A k \in C!Blocks \ {"names", "name"} :
       held[k] = Stands(k) + IF k = "file" /\ task.file.at # <<>> THEN 1 ELSE 0

ShellInv ==
  running = "shell" =>
    /\ task = [in |-> task.in, at |-> task.at, file |-> task.file]
    /\ \/ task.in = "FAT_Init" /\ ~s_fat_fs /\ ~font /\ task.at \in 1 .. 5 /\ Holds(InitHolds(task.at))
       \/ task.in = "LoadFont" /\ ~font /\ task.at \in 1 .. 7 /\ Holds(C!FontFrees(task.at))
       \/ task.in = "prompt" /\ Holds({})
       \/ task.in \in {"FAT_ListFiles", "ls"} /\ Listing

DirInv == currentDir \in Seq(Nat) /\ C!DirExists

LEMMA CountsAllocated ==
  ASSUME NEW h \in Counts, NEW kinds
  PROVE  /\ C!Allocated(h, kinds) \in Counts
         /\ \A k \in C!Blocks : C!Allocated(h, kinds)[k] = h[k] + IF k \in kinds THEN 1 ELSE 0
<1>1. C!Allocated(h, kinds) = [k \in C!Blocks |-> h[k] + IF k \in kinds THEN 1 ELSE 0] BY DEF C!Allocated
<1>2. \A k \in C!Blocks : h[k] \in Int BY DEF Counts
<1>3. \A k \in C!Blocks : h[k] + (IF k \in kinds THEN 1 ELSE 0) \in Int BY <1>2
<1> QED BY <1>1, <1>3 DEF Counts

LEMMA CountsFreed ==
  ASSUME NEW h \in Counts, NEW kinds
  PROVE  /\ C!Freed(h, kinds) \in Counts
         /\ \A k \in C!Blocks : C!Freed(h, kinds)[k] = h[k] - IF k \in kinds THEN 1 ELSE 0
<1>1. C!Freed(h, kinds) = [k \in C!Blocks |-> h[k] - IF k \in kinds THEN 1 ELSE 0] BY DEF C!Freed
<1>2. \A k \in C!Blocks : h[k] \in Int BY DEF Counts
<1>3. \A k \in C!Blocks : h[k] - (IF k \in kinds THEN 1 ELSE 0) \in Int BY <1>2
<1> QED BY <1>1, <1>3 DEF Counts

LEMMA StandsInt == \A k : Stands(k) \in {0, 1}
BY DEF Stands

LEMMA Takes ==
  ASSUME NEW h, NEW A, NEW B, Carries(h, A), A \cap B = {}
  PROVE  Carries(C!Allocated(h, B), A \cup B)
<1>1. h \in Counts /\ \A k \in C!Blocks : h[k] = Stands(k) + IF k \in A THEN 1 ELSE 0 BY DEF Carries
<1>2. ASSUME NEW k \in C!Blocks
      PROVE  C!Allocated(h, B)[k] = Stands(k) + IF k \in A \cup B THEN 1 ELSE 0
  <2>1. C!Allocated(h, B)[k] = h[k] + IF k \in B THEN 1 ELSE 0 BY <1>1, CountsAllocated
  <2>2. h[k] = Stands(k) + IF k \in A THEN 1 ELSE 0 BY <1>1
  <2>3. Stands(k) \in Int BY StandsInt
  <2>4. ~(k \in A /\ k \in B) OBVIOUS
  <2> QED BY <2>1, <2>2, <2>3, <2>4
<1> QED BY <1>1, <1>2, CountsAllocated DEF Carries

LEMMA Gives ==
  ASSUME NEW h, NEW A, NEW B, Carries(h, A), B \subseteq A
  PROVE  Carries(C!Freed(h, B), A \ B)
<1>1. h \in Counts /\ \A k \in C!Blocks : h[k] = Stands(k) + IF k \in A THEN 1 ELSE 0 BY DEF Carries
<1>2. ASSUME NEW k \in C!Blocks
      PROVE  C!Freed(h, B)[k] = Stands(k) + IF k \in A \ B THEN 1 ELSE 0
  <2>1. C!Freed(h, B)[k] = h[k] - IF k \in B THEN 1 ELSE 0 BY <1>1, CountsFreed
  <2>2. h[k] = Stands(k) + IF k \in A THEN 1 ELSE 0 BY <1>1
  <2>3. Stands(k) \in Int BY StandsInt
  <2>4. k \in B => k \in A OBVIOUS
  <2> QED BY <2>1, <2>2, <2>3, <2>4
<1> QED BY <1>1, <1>2, CountsFreed DEF Carries

LEMMA CarriesOn ==
  ASSUME NEW A, UNCHANGED <<s_fat_fs, font>>, Carries(held', A)
  PROVE  Holds(A)'
<1>1. \A k : Stands(k)' = Stands(k) BY DEF Stands
<1> QED BY <1>1 DEF Holds, Carries, Counts

-----------------------------------------------------------------------------
(* Setting up *)

LEMMA InitStepSets ==
  /\ C!InitSteps[1] = {"sector_buffer"} /\ C!InitSteps[2] = {} /\ C!InitSteps[3] = {}
  /\ C!InitSteps[4] = {"fat_sector_buffer"} /\ C!InitSteps[5] = {"filesystem"}
BY DEF C!InitSteps

LEMMA InitSets ==
  ASSUME NEW n \in 1 .. 5
  PROVE  /\ InitHolds(n) \cap C!InitSteps[n] = {} /\ C!InitFrees(n) = InitHolds(n)
         /\ n < 5 => InitHolds(n) \cup C!InitSteps[n] = InitHolds(n + 1)
         /\ n = 5 => (InitHolds(n) \cup C!InitSteps[n]) \ {"sector_buffer"} = {"fat_sector_buffer", "filesystem"}
<1>1. n \in {1, 2, 3, 4, 5} OBVIOUS
<1>2. CASE n = 1 BY <1>2, InitStepSets DEF InitHolds, C!InitFrees
<1>3. CASE n = 2 BY <1>3, InitStepSets DEF InitHolds, C!InitFrees
<1>4. CASE n = 3 BY <1>4, InitStepSets DEF InitHolds, C!InitFrees
<1>5. CASE n = 4 BY <1>5, InitStepSets DEF InitHolds, C!InitFrees
<1>6. CASE n = 5 BY <1>6, InitStepSets DEF InitHolds, C!InitFrees
<1> QED BY <1>1, <1>2, <1>3, <1>4, <1>5, <1>6

LEMMA InitKeepsShell == ShellInv /\ C!FAT_Init => ShellInv'
<1> SUFFICES ASSUME ShellInv, C!FAT_Init PROVE ShellInv' OBVIOUS
<1>1. running = "shell" /\ task.in = "FAT_Init" /\ UNCHANGED font BY DEF C!FAT_Init
<1>2. PICK n \in 1 .. 5 : n = task.at BY <1>1 DEF ShellInv
<1>3. /\ ~s_fat_fs /\ ~font /\ Carries(held, InitHolds(n))
      /\ task = [in |-> task.in, at |-> task.at, file |-> task.file]
  BY <1>1, <1>2 DEF ShellInv, Holds
<1> DEFINE next == [in |-> "LoadFont", at |-> 1, file |-> C!NULL]
<1>4. [C!Idle EXCEPT !.in = "LoadFont", !.at = 1] = next
  <2>1. PICK x : x = [C!Idle EXCEPT !.in = "LoadFont", !.at = 1] OBVIOUS
  <2>2. x.in = "LoadFont" /\ x.at = 1 /\ x.file = C!NULL BY <2>1 DEF C!Idle
  <2>3. x = [in |-> x.in, at |-> x.at, file |-> x.file] BY <2>1 DEF C!Idle
  <2> QED BY <2>1, <2>2, <2>3
<1>5. C!FontFrees(1) = {} BY DEF C!FontFrees
<1>6. CASE held' = C!Freed(held, C!InitFrees(n)) /\ task' = next /\ UNCHANGED s_fat_fs
  <2>1. Carries(held', {}) BY <1>3, <1>6, Gives, InitSets
  <2>2. Holds({})' BY <1>1, <1>6, <2>1, CarriesOn
  <2> QED BY <1>1, <1>3, <1>5, <1>6, <2>2 DEF ShellInv
<1>7. CASE n < 5 /\ held' = C!Allocated(held, C!InitSteps[n]) /\ task' = [task EXCEPT !.at = n + 1] /\ UNCHANGED s_fat_fs
  <2>1. Carries(held', InitHolds(n + 1)) BY <1>3, <1>7, Takes, InitSets
  <2>2. Holds(InitHolds(n + 1))' BY <1>1, <1>7, <2>1, CarriesOn
  <2>3. task' = [in |-> "FAT_Init", at |-> n + 1, file |-> task.file] BY <1>1, <1>2, <1>3, <1>7
  <2> QED BY <1>1, <1>3, <1>7, <2>2, <2>3 DEF ShellInv
<1>8. CASE n = 5 /\ held' = C!Freed(C!Allocated(held, C!InitSteps[n]), {"sector_buffer"}) /\ task' = next /\ s_fat_fs' = TRUE
  <2>1. Carries(C!Allocated(held, C!InitSteps[n]), InitHolds(n) \cup C!InitSteps[n]) BY <1>3, Takes, InitSets
  <2>2. {"sector_buffer"} \subseteq InitHolds(n) \cup C!InitSteps[n] BY <1>8 DEF InitHolds
  <2>3. Carries(held', {"fat_sector_buffer", "filesystem"}) BY <1>8, <2>1, <2>2, Gives, InitSets
  <2>4. Holds({})'
    <3>1. \A k : Stands(k)' = IF k \in {"fat_sector_buffer", "filesystem"} THEN 1 ELSE 0
      BY <1>1, <1>3, <1>8 DEF Stands
    <3>2. \A k : Stands(k) = 0 BY <1>3 DEF Stands
    <3>3. \A k \in C!Blocks : held'[k] = Stands(k)' + IF k \in {} THEN 1 ELSE 0
      BY <2>3, <3>1, <3>2 DEF Carries
    <3> QED BY <2>3, <3>3 DEF Holds, Carries, Counts
  <2> QED BY <1>1, <1>3, <1>5, <1>8, <2>4 DEF ShellInv
<1> QED BY <1>1, <1>2, <1>4, <1>6, <1>7, <1>8 DEF C!FAT_Init

\* What LoadFont gives back on a failure grows by what each step takes.
LEMMA FontStepSets ==
  /\ C!FontSteps[1] = {"file"} /\ C!FontSteps[2] = {"font"} /\ C!FontSteps[3] = {"header"}
  /\ C!FontSteps[4] = {} /\ C!FontSteps[5] = {} /\ C!FontSteps[6] = {"glyphs"} /\ C!FontSteps[7] = {}
BY DEF C!FontSteps

LEMMA FontSets ==
  /\ C!FontFrees(1) = {} /\ C!FontFrees(2) = {"file"} /\ C!FontFrees(3) = {"file", "font"}
  /\ C!FontFrees(4) = {"file", "font", "header"} /\ C!FontFrees(5) = {"file", "font", "header"}
  /\ C!FontFrees(6) = {"file", "font", "header"} /\ C!FontFrees(7) = {"file", "font", "header", "glyphs"}
<1>1. ASSUME NEW n \in Nat, NEW m, m = n + 1, n # 0 PROVE C!FontFrees(m) = C!FontFrees(n) \cup C!FontSteps[n]
  <2>1. 1 .. m - 1 = (1 .. n - 1) \cup {n} BY <1>1
  <2> QED BY <2>1 DEF C!FontFrees
<1>2. C!FontFrees(1) = {} BY DEF C!FontFrees
<1>3. C!FontFrees(2) = {"file"} BY <1>1, <1>2, FontStepSets
<1>4. C!FontFrees(3) = {"file", "font"} BY <1>1, <1>3, FontStepSets
<1>5. C!FontFrees(4) = {"file", "font", "header"} BY <1>1, <1>4, FontStepSets
<1>6. C!FontFrees(5) = {"file", "font", "header"} BY <1>1, <1>5, FontStepSets
<1>7. C!FontFrees(6) = {"file", "font", "header"} BY <1>1, <1>6, FontStepSets
<1>8. C!FontFrees(7) = {"file", "font", "header", "glyphs"} BY <1>1, <1>7, FontStepSets
<1> QED BY <1>2, <1>3, <1>4, <1>5, <1>6, <1>7, <1>8

LEMMA FontTakes ==
  ASSUME NEW n \in 1 .. 7
  PROVE  /\ C!FontFrees(n) \cap C!FontSteps[n] = {}
         /\ n < 7 => C!FontFrees(n) \cup C!FontSteps[n] = C!FontFrees(n + 1)
         /\ n = 7 => (C!FontFrees(n) \cup C!FontSteps[n]) \ {"file"} = {"font", "header", "glyphs"}
<1>1. n \in {1, 2, 3, 4, 5, 6, 7} OBVIOUS
<1>2. CASE n = 1 BY <1>2, FontStepSets, FontSets
<1>3. CASE n = 2 BY <1>3, FontStepSets, FontSets
<1>4. CASE n = 3 BY <1>4, FontStepSets, FontSets
<1>5. CASE n = 4 BY <1>5, FontStepSets, FontSets
<1>6. CASE n = 5 BY <1>6, FontStepSets, FontSets
<1>7. CASE n = 6 BY <1>7, FontStepSets, FontSets
<1>8. CASE n = 7 BY <1>8, FontStepSets, FontSets
<1> QED BY <1>1, <1>2, <1>3, <1>4, <1>5, <1>6, <1>7, <1>8

LEMMA FontKeepsShell == ShellInv /\ C!LoadFont => ShellInv'
<1> SUFFICES ASSUME ShellInv, C!LoadFont PROVE ShellInv' OBVIOUS
<1>1. running = "shell" /\ task.in = "LoadFont" /\ UNCHANGED s_fat_fs BY DEF C!LoadFont
<1>2. PICK n \in 1 .. 7 : n = task.at BY <1>1 DEF ShellInv
<1>3. /\ ~font /\ Carries(held, C!FontFrees(n))
      /\ task = [in |-> task.in, at |-> task.at, file |-> task.file]
  BY <1>1, <1>2 DEF ShellInv, Holds
<1>4. C!Idle = [in |-> "prompt", at |-> 0, file |-> C!NULL] BY DEF C!Idle
<1>5. CASE held' = C!Freed(held, C!FontFrees(n)) /\ task' = C!Idle /\ UNCHANGED <<running, font>>
  <2>1. C!FontFrees(n) \ C!FontFrees(n) = {} OBVIOUS
  <2>2. Carries(held', {}) BY <1>3, <1>5, <2>1, Gives
  <2>3. Holds({})' BY <1>1, <1>5, <2>2, CarriesOn
  <2> QED BY <1>4, <1>5, <2>3 DEF ShellInv
<1>6. CASE n < 7 /\ held' = C!Allocated(held, C!FontSteps[n]) /\ task' = [task EXCEPT !.at = n + 1] /\ UNCHANGED <<running, font>>
  <2>1. Carries(held', C!FontFrees(n + 1)) BY <1>3, <1>6, Takes, FontTakes
  <2>2. Holds(C!FontFrees(n + 1))' BY <1>1, <1>6, <2>1, CarriesOn
  <2>3. task' = [in |-> "LoadFont", at |-> n + 1, file |-> task.file] BY <1>1, <1>2, <1>3, <1>6
  <2> QED BY <1>3, <1>6, <2>2, <2>3 DEF ShellInv
<1>7. CASE n = 7 /\ held' = C!Freed(C!Allocated(held, C!FontSteps[n]), {"file"}) /\ task' = C!Idle /\ font' = TRUE
  <2>1. Carries(C!Allocated(held, C!FontSteps[n]), C!FontFrees(n) \cup C!FontSteps[n]) BY <1>3, Takes, FontTakes
  <2>2. {"file"} \subseteq C!FontFrees(n) \cup C!FontSteps[n] BY <1>7, FontSets
  <2>3. Carries(held', {"font", "header", "glyphs"}) BY <1>7, <2>1, <2>2, Gives, FontTakes
  <2>4. Holds({})'
    <3>1. \A k : Stands(k)' = IF k \in {"font", "header", "glyphs"} THEN 1 ELSE Stands(k)
      BY <1>1, <1>3, <1>7 DEF Stands
    <3>2. \A k \in {"font", "header", "glyphs"} : Stands(k) = 0 BY <1>3 DEF Stands
    <3>3. \A k \in C!Blocks : held'[k] = Stands(k)' + IF k \in {} THEN 1 ELSE 0
      <4> SUFFICES ASSUME NEW k \in C!Blocks PROVE held'[k] = Stands(k)' + IF k \in {} THEN 1 ELSE 0
        OBVIOUS
      <4>1. held'[k] = Stands(k) + IF k \in {"font", "header", "glyphs"} THEN 1 ELSE 0 BY <2>3 DEF Carries
      <4> QED BY <3>1, <3>2, <4>1, StandsInt
    <3> QED BY <2>3, <3>3 DEF Holds, Carries, Counts
  <2> QED BY <1>4, <1>7, <2>4 DEF ShellInv
<1>8. CASE running' = "panic" BY <1>8 DEF ShellInv
<1> QED BY <1>1, <1>2, <1>5, <1>6, <1>7, <1>8 DEF C!LoadFont

-----------------------------------------------------------------------------
(* Commands that open a path *)

\* What a path opened is given back by closing the file.
LEMMA CloseOpened ==
  ASSUME NEW o, NEW names, NEW h \in Counts, Opened(o, names, h)
  PROVE  C!FAT_Close(o.file, o.held) = h
<1>1. CASE o = [file |-> C!NULL, held |-> h] BY <1>1 DEF C!FAT_Close, C!NULL
<1>2. CASE o = [file |-> C!RootFile, held |-> h] BY <1>2 DEF C!FAT_Close, C!RootFile
<1>3. CASE names # <<>> /\ o = [file |-> [at |-> names, kind |-> Tree[names]], held |-> C!Allocated(h, {"file"})]
  BY <1>3, FreedAllocated DEF C!FAT_Close
<1> QED BY <1>1, <1>2, <1>3 DEF Opened

\* Whether it opened, and what is held if it did.
LEMMA WasOpened ==
  ASSUME NEW o, NEW names, NEW h \in Counts, Opened(o, names, h)
  PROVE  \/ o.file = C!NULL /\ o.held = h
         \/ names = <<>> /\ o.file # C!NULL /\ o.file = C!RootFile /\ o.held = h
         \/ /\ names # <<>> /\ o.file # C!NULL /\ names \in DOMAIN Tree
            /\ o.file = [at |-> names, kind |-> Tree[names]] /\ o.held = C!Allocated(h, {"file"})
<1>1. C!RootFile # C!NULL BY DEF C!RootFile, C!NULL
<1>2. \A at \in DOMAIN Tree : [at |-> at, kind |-> Tree[at]] # C!NULL
  BY TreeAssumption DEF C!NULL
<1>3. CASE o = [file |-> C!NULL, held |-> h] BY <1>3
<1>4. CASE names = <<>> /\ o = [file |-> C!RootFile, held |-> h] BY <1>1, <1>4
<1>5. CASE names # <<>> /\ names \in DOMAIN Tree /\
           o = [file |-> [at |-> names, kind |-> Tree[names]], held |-> C!Allocated(h, {"file"})]
  <2>1. o.file = [at |-> names, kind |-> Tree[names]] /\ o.held = C!Allocated(h, {"file"}) BY <1>5
  <2>2. o.file # C!NULL BY <1>2, <1>5, <2>1
  <2> QED BY <1>5, <2>1, <2>2
<1> QED BY <1>3, <1>4, <1>5 DEF Opened

LEMMA PathTypes ==
  ASSUME NEW path \in Seq(Nat)
  PROVE  /\ C!Root \in Seq(Nat) /\ <<C!Slash>> \in Seq(Nat) /\ C!ListedPath(path) \in Seq(Nat)
         /\ \A arg \in Arguments : arg \in Seq(Nat) /\ path \o arg \in Seq(Nat)
              /\ path \o <<C!Slash>> \o arg \in Seq(Nat)
<1>1. C!Root \in Seq(Nat) /\ <<C!Slash>> \in Seq(Nat) /\ <<>> \in Seq(Nat) BY DEF C!Root, C!Slash
<1>2. ASSUME NEW p \in Seq(Nat), NEW m \in Nat PROVE SubSeq(p, m + 1, Len(p)) \in Seq(Nat)
  <2>1. m + 1 \in Int /\ Len(p) \in Int BY LenProperties
  <2>2. \A i \in m + 1 .. Len(p) : p[i] \in Nat BY <2>1, ElementOfSeq
  <2> QED BY <2>1, <2>2, SubSeqProperties
<1>3. Len(C!Root \o <<C!Slash>>) \in Nat
  <2>1. C!Root \o <<C!Slash>> \in Seq(Nat) BY <1>1, ConcatProperties
  <2> QED BY <2>1, LenProperties
<1>4. C!ListedPath(path) \in Seq(Nat) BY <1>1, <1>2, <1>3 DEF C!ListedPath
<1>5. ASSUME NEW arg \in Arguments
      PROVE arg \in Seq(Nat) /\ path \o arg \in Seq(Nat) /\ path \o <<C!Slash>> \o arg \in Seq(Nat)
  <2>1. arg \in Seq(Nat) BY ArgumentsAssumption
  <2>2. path \o arg \in Seq(Nat) BY <2>1, ConcatProperties
  <2>3. path \o <<C!Slash>> \in Seq(Nat) BY <1>1, ConcatProperties
  <2> QED BY <2>1, <2>2, <2>3, ConcatProperties
<1> QED BY <1>1, <1>4, <1>5

LEMMA PromptHolds ==
  ASSUME ShellInv, C!Prompt
  PROVE  running = "shell" /\ task.in = "prompt" /\ held \in Counts /\ Carries(held, {})
BY DEF ShellInv, C!Prompt, Holds, Carries

\* cd and cat close what they open.
LEMMA CloseKeepsShell ==
  ASSUME ShellInv, C!Prompt, NEW path \in Seq(Nat), NEW o \in C!FAT_OpenAbsolute(path, held),
         held' = C!FAT_Close(o.file, o.held), UNCHANGED <<running, s_fat_fs, font, task>>
  PROVE  ShellInv'
<1>1. running = "shell" /\ task.in = "prompt" /\ held \in Counts /\ Carries(held, {}) BY PromptHolds
<1>2. Opened(o, C!Components(path), held) BY <1>1, OpenAbsolute
<1>3. held' = held BY <1>1, <1>2, CloseOpened
<1>4. Holds({})' BY <1>1, <1>3, CarriesOn
<1> QED BY <1>1, <1>4 DEF ShellInv

LEMMA ListKeepsShell ==
  ASSUME ShellInv, NEW path \in Seq(Nat), C!ls(path)
  PROVE  ShellInv'
<1>1. running = "shell" /\ task.in = "prompt" /\ held \in Counts /\ Carries(held, {})
  BY PromptHolds DEF C!ls
<1>2. PICK p \in Seq(Nat) : p = C!ListedPath(path) BY PathTypes
<1>3. PICK o \in C!FAT_OpenAbsolute(p, held) :
        /\ held' = o.held
        /\ task' = IF o.file = C!NULL THEN C!Idle ELSE [in |-> "FAT_ListFiles", at |-> 0, file |-> o.file]
  BY <1>2 DEF C!ls
<1>4. UNCHANGED <<running, s_fat_fs, font>> BY DEF C!ls
<1>5. Opened(o, C!Components(p), held) BY <1>1, OpenAbsolute
<1>6. CASE o.file = C!NULL /\ o.held = held
  <2>1. Holds({})' BY <1>1, <1>3, <1>4, <1>6, CarriesOn
  <2>2. task' = [in |-> "prompt", at |-> 0, file |-> C!NULL] BY <1>3, <1>6 DEF C!Idle
  <2> QED BY <2>1, <2>2 DEF ShellInv
<1>7. CASE o.file # C!NULL
  <2>1. task' = [in |-> "FAT_ListFiles", at |-> 0, file |-> o.file] BY <1>3, <1>7
  <2>2. \/ o.file.at = <<>> /\ Carries(held', {})
        \/ o.file.at # <<>> /\ Carries(held', {"file"})
    <3>1. CASE o.file = C!RootFile /\ o.held = held BY <1>1, <1>3, <3>1 DEF C!RootFile
    <3>2. CASE /\ C!Components(p) # <<>> /\ o.file = [at |-> C!Components(p), kind |-> Tree[C!Components(p)]]
               /\ o.held = C!Allocated(held, {"file"})
      <4>1. Carries(C!Allocated(held, {"file"}), {} \cup {"file"}) BY <1>1, Takes
      <4>2. {} \cup {"file"} = {"file"} OBVIOUS
      <4>3. o.file.at = C!Components(p) BY <3>2
      <4> QED BY <1>3, <3>2, <4>1, <4>2, <4>3
    <3> QED BY <1>1, <1>5, <1>7, <3>1, <3>2, WasOpened
  <2>3. \A k : Stands(k)' = Stands(k) BY <1>4 DEF Stands
  <2>4. Stands("names") = 0 /\ Stands("name") = 0 BY DEF Stands
  <2>5. Listing'
    <3>1. held' \in Counts
          /\ \A k \in C!Blocks : held'[k] = Stands(k) + IF k = "file" /\ o.file.at # <<>> THEN 1 ELSE 0
      BY <2>2 DEF Carries
    <3>2. "names" \in C!Blocks /\ "name" \in C!Blocks BY DEF C!Blocks
    <3>3. held'["names"] = 0 /\ held'["name"] = 0 BY <2>4, <3>1, <3>2
    <3>4. task'.file = o.file BY <2>1
    <3> QED BY <2>3, <3>1, <3>3, <3>4 DEF Listing, Counts
  <2> QED BY <2>1, <2>5 DEF ShellInv
<1> QED BY <1>1, <1>5, <1>6, <1>7, WasOpened

LEMMA ListingHolds ==
  ASSUME ShellInv, running = "shell", task.in \in {"FAT_ListFiles", "ls"}
  PROVE  Listing /\ task = [in |-> task.in, at |-> task.at, file |-> task.file]
BY DEF ShellInv

\* A count of names and their list may change, as long as no other does.
LEMMA ListingOn ==
  ASSUME Listing, UNCHANGED <<s_fat_fs, font>>, task'.file = task.file, held' \in Counts,
         held'["names"] \in {0, 1}, held'["name"] \in Nat,
         \A k \in C!Blocks \ {"names", "name"} : held'[k] = held[k]
  PROVE  Listing'
<1>1. \A k : Stands(k)' = Stands(k) BY DEF Stands
<1>2. \A k \in C!Blocks \ {"names", "name"} :
        held[k] = Stands(k) + IF k = "file" /\ task.file.at # <<>> THEN 1 ELSE 0
  BY DEF Listing
<1> QED BY <1>1, <1>2 DEF Listing, Counts

LEMMA ListFilesKeepsShell == ShellInv /\ C!FAT_ListFiles => ShellInv'
<1> SUFFICES ASSUME ShellInv, C!FAT_ListFiles PROVE ShellInv' OBVIOUS
<1>1. running = "shell" /\ task.in = "FAT_ListFiles" /\ UNCHANGED <<running, s_fat_fs, font>>
  BY DEF C!FAT_ListFiles
<1>2. Listing /\ task = [in |-> task.in, at |-> task.at, file |-> task.file] BY <1>1, ListingHolds
<1>3. held \in Counts /\ held["names"] \in {0, 1} /\ held["name"] \in Nat BY <1>2 DEF Listing
<1>4. CASE held' = C!Appended(held) /\ task' = [task EXCEPT !.at = task.at + 1]
  <2>1. task' = [in |-> "FAT_ListFiles", at |-> task.at + 1, file |-> task.file] BY <1>1, <1>2, <1>4
  <2> DEFINE kinds == IF held["names"] = 0 THEN {"names", "name"} ELSE {"name"}
  <2>2. held' = C!Allocated(held, kinds) BY <1>4 DEF C!Appended
  <2>3. /\ held' \in Counts
        /\ \A k \in C!Blocks : held'[k] = held[k] + IF k \in kinds THEN 1 ELSE 0
    BY <1>3, <2>2, CountsAllocated
  <2>4. "names" \in C!Blocks /\ "name" \in C!Blocks BY DEF C!Blocks
  <2>5. held'["names"] \in {0, 1} /\ held'["name"] \in Nat BY <1>3, <2>3, <2>4
  <2>6. \A k \in C!Blocks \ {"names", "name"} : held[k] \in Int /\ held'[k] = held[k]
    BY <1>3, <2>3 DEF Counts
  <2>7. task'.file = task.file BY <2>1
  <2>8. Listing' BY <1>1, <1>2, <2>3, <2>5, <2>6, <2>7, ListingOn
  <2> QED BY <2>1, <2>8 DEF ShellInv
<1>5. CASE task' = [task EXCEPT !.in = "ls"] /\ UNCHANGED held
  <2>1. task' = [in |-> "ls", at |-> task.at, file |-> task.file] BY <1>2, <1>5
  <2>2. task'.file = task.file BY <2>1
  <2>3. Listing' BY <1>1, <1>2, <1>3, <1>5, <2>2, ListingOn
  <2> QED BY <2>1, <2>3 DEF ShellInv
<1> QED BY <1>4, <1>5 DEF C!FAT_ListFiles

\* The name looked up is freed; a file found under it is freed as well.
LEMMA ListNameKeepsShell == ShellInv /\ C!ListName => ShellInv'
<1> SUFFICES ASSUME ShellInv, C!ListName PROVE ShellInv' OBVIOUS
<1>1. running = "shell" /\ task.in = "ls" /\ held["name"] > 0 /\ UNCHANGED <<running, s_fat_fs, font, task>>
  BY DEF C!ListName
<1>2. Listing /\ task = [in |-> task.in, at |-> task.at, file |-> task.file] BY <1>1, ListingHolds
<1>3. held \in Counts /\ held["names"] \in {0, 1} /\ held["name"] \in Nat BY <1>2 DEF Listing
<1>4. PICK at \in C!Children(task.file) : \E o \in C!FAT_OpenAbsolute(C!Last(at), held) :
        held' = C!Freed(IF o.file = C!NULL THEN o.held ELSE C!Freed(o.held, {"file"}), {"name"})
  BY DEF C!ListName
<1>5. at \in DOMAIN Tree /\ at \in Seq(Names) /\ at # <<>> BY <1>4, TreeAssumption DEF C!Children
<1>6. PICK name \in Names : name = C!Last(at)
  <2>1. Len(at) \in 1 .. Len(at) BY <1>5, EmptySeq
  <2> QED BY <1>5, <2>1, ElementOfSeq DEF C!Last
<1>7. name \in Seq(Nat) /\ C!Components(name) # <<>> BY NameIsComponent
<1>8. PICK o \in C!FAT_OpenAbsolute(name, held) :
        held' = C!Freed(IF o.file = C!NULL THEN o.held ELSE C!Freed(o.held, {"file"}), {"name"})
  BY <1>4, <1>6
<1>9. Opened(o, C!Components(name), held) BY <1>3, <1>7, OpenAbsolute
<1>10. (IF o.file = C!NULL THEN o.held ELSE C!Freed(o.held, {"file"})) = held
  BY <1>3, <1>7, <1>9, WasOpened, FreedAllocated
<1>11. /\ held' \in Counts
       /\ \A k \in C!Blocks : held'[k] = held[k] - IF k \in {"name"} THEN 1 ELSE 0
  BY <1>3, <1>8, <1>10, CountsFreed
<1>12. "names" \in C!Blocks /\ "name" \in C!Blocks BY DEF C!Blocks
<1>13. held'["names"] = held["names"] - 0 /\ held'["name"] = held["name"] - 1 BY <1>11, <1>12
<1>14. held'["names"] \in {0, 1} /\ held'["name"] \in Nat BY <1>1, <1>3, <1>13
<1>15. \A k \in C!Blocks \ {"names", "name"} : held[k] \in Int /\ held'[k] = held[k]
  BY <1>3, <1>11 DEF Counts
<1>16. Listing' BY <1>1, <1>2, <1>11, <1>14, <1>15, ListingOn
<1> QED BY <1>1, <1>2, <1>16 DEF ShellInv

LEMMA ListEndKeepsShell == ShellInv /\ C!ListEnd => ShellInv'
<1> SUFFICES ASSUME ShellInv, C!ListEnd PROVE ShellInv' OBVIOUS
<1>1. running = "shell" /\ task.in = "ls" /\ held["name"] = 0 /\ UNCHANGED <<running, s_fat_fs, font>>
  BY DEF C!ListEnd
<1>2. Listing BY <1>1, ListingHolds
<1>3. held \in Counts /\ held["names"] \in {0, 1} BY <1>2 DEF Listing
<1>4. PICK rest : rest = IF held["names"] = 0 THEN held ELSE C!Freed(held, {"names"}) OBVIOUS
<1>5. held' = C!FAT_Close(task.file, rest) /\ task' = C!Idle BY <1>4 DEF C!ListEnd
<1>6. rest \in Counts /\ \A k \in C!Blocks : rest[k] = IF k = "names" THEN 0 ELSE held[k]
  <2>1. CASE held["names"] = 0 BY <1>3, <1>4, <2>1
  <2>2. CASE held["names"] = 1
    <3>1. rest = C!Freed(held, {"names"}) BY <1>4, <2>2
    <3>2. /\ rest \in Counts
          /\ \A k \in C!Blocks : rest[k] = held[k] - IF k \in {"names"} THEN 1 ELSE 0
      BY <1>3, <3>1, CountsFreed
    <3>3. \A k \in C!Blocks : held[k] \in Int BY <1>3 DEF Counts
    <3> QED BY <2>2, <3>2, <3>3
  <2> QED BY <1>3, <2>1, <2>2
<1>7. Stands("names") = 0 /\ Stands("name") = 0 BY DEF Stands
<1>8. \A k \in C!Blocks : rest[k] = Stands(k) + IF k = "file" /\ task.file.at # <<>> THEN 1 ELSE 0
  BY <1>1, <1>2, <1>6, <1>7 DEF Listing
<1>9. Carries(held', {})
  <2>1. CASE task.file.at = <<>>
    <3>1. held' = rest BY <1>5, <2>1 DEF C!FAT_Close
    <3> QED BY <1>6, <1>8, <2>1, <3>1 DEF Carries
  <2>2. CASE task.file.at # <<>>
    <3>1. held' = C!Freed(rest, {"file"}) BY <1>5, <2>2 DEF C!FAT_Close
    <3>2. Carries(rest, {"file"}) BY <1>6, <1>8, <2>2 DEF Carries
    <3>3. {"file"} \ {"file"} = {} OBVIOUS
    <3> QED BY <3>1, <3>2, <3>3, Gives
  <2> QED BY <2>1, <2>2
<1>10. Holds({})' BY <1>1, <1>9, CarriesOn
<1>11. task' = [in |-> "prompt", at |-> 0, file |-> C!NULL] BY <1>5 DEF C!Idle
<1> QED BY <1>10, <1>11 DEF ShellInv

-----------------------------------------------------------------------------
(* All of the shell *)

LEMMA SameShell ==
  ASSUME ShellInv, C!Prompt, UNCHANGED <<currentDir, s_fat_fs, font, held, task>>
  PROVE  ShellInv'
<1>1. task.in = "prompt" /\ Carries(held, {}) BY PromptHolds
<1>2. task = [in |-> task.in, at |-> task.at, file |-> task.file] BY DEF ShellInv, C!Prompt
<1>3. Holds({})' BY <1>1, CarriesOn
<1> QED BY <1>1, <1>2, <1>3 DEF ShellInv

LEMMA ShellTurnKeeps == ShellInv /\ DirInv /\ C!Next => ShellInv'
<1> SUFFICES ASSUME ShellInv, DirInv, C!Next PROVE ShellInv' OBVIOUS
<1>0. currentDir \in Seq(Nat) BY DEF DirInv
<1>1. CASE C!FAT_Init BY <1>1, InitKeepsShell
<1>2. CASE C!NoDevice BY <1>2 DEF C!NoDevice, ShellInv
<1>3. CASE C!LoadFont BY <1>3, FontKeepsShell
<1>4. CASE C!cd_up
  <2>1. C!Prompt /\ UNCHANGED <<running, s_fat_fs, font, held, task>> BY <1>4 DEF C!cd_up
  <2>2. task.in = "prompt" /\ Carries(held, {}) BY <2>1, PromptHolds
  <2>3. task = [in |-> task.in, at |-> task.at, file |-> task.file] BY <2>1 DEF ShellInv, C!Prompt
  <2>4. Holds({})' BY <2>1, <2>2, CarriesOn
  <2> QED BY <2>1, <2>2, <2>3, <2>4 DEF ShellInv
<1>5. CASE C!FAT_ListFiles BY <1>5, ListFilesKeepsShell
<1>6. CASE C!ListName BY <1>6, ListNameKeepsShell
<1>7. CASE C!ListEnd BY <1>7, ListEndKeepsShell
<1>8. CASE C!pause BY <1>8, SameShell DEF C!pause, C!commandVars
<1>9. ASSUME NEW arg \in Arguments, C!cd(arg) PROVE ShellInv'
  <2>1. PICK path \in Seq(Nat) : path = IF currentDir = C!Root THEN arg ELSE currentDir \o <<C!Slash>> \o arg
    BY <1>0, PathTypes
  <2>2. CASE C!Overruns(path) BY <2>2 DEF C!Overruns, ShellInv
  <2>3. CASE C!Enters(path)
    <3>1. C!Prompt /\ UNCHANGED <<running, s_fat_fs, font, task>> BY <1>9, <2>3 DEF C!cd, C!Enters
    <3>2. \E o \in C!FAT_OpenAbsolute(path, held) : held' = C!FAT_Close(o.file, o.held)
      BY <2>3 DEF C!Enters
    <3> QED BY <3>1, <3>2, CloseKeepsShell
  <2> QED BY <1>9, <2>1, <2>2, <2>3 DEF C!cd
<1>10. ASSUME NEW arg \in Arguments, C!cat(arg) PROVE ShellInv'
  <2>1. PICK path \in Seq(Nat) : path = currentDir \o arg BY <1>0, PathTypes
  <2>2. CASE C!Overruns(path) BY <2>2 DEF C!Overruns, ShellInv
  <2>3. CASE C!Shows(path)
    <3>1. C!Prompt /\ UNCHANGED <<running, s_fat_fs, font, task>> BY <1>10, <2>3 DEF C!cat, C!Shows
    <3>2. \E o \in C!FAT_OpenAbsolute(path, held) : held' = C!FAT_Close(o.file, o.held)
      BY <2>3 DEF C!Shows
    <3> QED BY <3>1, <3>2, CloseKeepsShell
  <2> QED BY <1>10, <2>1, <2>2, <2>3 DEF C!cat
<1>11. ASSUME NEW arg \in Arguments, C!ls(arg) PROVE ShellInv'
  BY <1>0, <1>11, PathTypes, ListKeepsShell
<1>12. CASE C!ls(currentDir) BY <1>0, <1>12, ListKeepsShell
<1>13. ASSUME NEW u, NEW v, NEW operation, C!calc(u, operation, v) PROVE ShellInv'
  BY <1>13, SameShell DEF C!calc, C!commandVars
<1>14. ASSUME NEW frequency, C!beep(frequency) PROVE ShellInv'
  BY <1>13, <1>14 DEF C!beep
<1> QED BY <1>1, <1>2, <1>3, <1>4, <1>5, <1>6, <1>7, <1>8, <1>9, <1>10, <1>11, <1>12, <1>13, <1>14 DEF C!Next

\* The last slash of a path, if there is one.
LEMMA LastSlash ==
  ASSUME NEW p \in Seq(Nat)
  PROVE  C!find_last_slash(p) = 0 \/ (C!find_last_slash(p) \in 1 .. Len(p) /\ p[C!find_last_slash(p)] = C!Slash)
<1> DEFINE I == {i \in 1 .. Len(p) : p[i] = C!Slash}
<1>1. C!find_last_slash(p) = IF I # {} THEN C!Max(I) ELSE 0
  BY DEF C!find_last_slash, C!SelectLastInSeq
<1>2. ASSUME I # {} PROVE C!Max(I) \in I
  <2> DEFINE Ends == {Len(p) - i : i \in I}
  <2>0. Len(p) \in Nat OBVIOUS
  <2>1. Ends \subseteq Nat /\ Ends # {} BY <1>2, <2>0
  <2> HIDE DEF Ends
  <2>2. PICK e \in Ends : \A d \in Ends : e <= d BY <2>1, Smallest
  <2> USE DEF Ends
  <2>3. PICK i \in I : e = Len(p) - i OBVIOUS
  <2>4. ASSUME NEW j \in I PROVE i >= j
    <3>1. Len(p) - j \in Ends BY <2>3
    <3>2. Len(p) - i <= Len(p) - j BY <2>2, <2>3, <3>1
    <3>3. i \in Nat /\ j \in Nat OBVIOUS
    <3> QED BY <2>0, <3>2, <3>3
  <2> HIDE DEF I
  <2> QED BY <2>4, Zenon DEF C!Max
<1> QED BY <1>1, <1>2

\* The directory of the shell, after a cd up: it is before it in the volume, or the root.
LEMMA ParentExists ==
  ASSUME DirInv
  PROVE  /\ C!Parent(currentDir) \in Seq(Nat)
         /\ LET at == IF C!Parent(currentDir) = C!Root THEN <<>> ELSE C!Components(C!Parent(currentDir))
            IN at = <<>> \/ (at \in DOMAIN Tree /\ Tree[at] = "dir")
<1>1. PICK p \in Seq(Nat) : p = currentDir BY DEF DirInv
<1>2. CASE p \in {C!Root, <<>>}
  <2>1. C!Parent(p) = p BY <1>2 DEF C!Parent
  <2> QED BY <1>1, <1>2, <2>1, NoComponents
<1>3. CASE p \notin {C!Root, <<>>} /\ C!find_last_slash(p) = 0
  <2>1. C!Parent(p) = C!Root BY <1>3 DEF C!Parent
  <2> QED BY <1>1, <2>1, PathTypes
<1>4. CASE p \notin {C!Root, <<>>} /\ C!find_last_slash(p) # 0
  <2>1. PICK slash \in 1 .. Len(p) : slash = C!find_last_slash(p) /\ p[slash] = C!Slash BY <1>4, LastSlash
  <2>2. PICK q : q = SubSeq(p, 1, slash - 1) OBVIOUS
  <2>3. C!Parent(p) = q BY <1>4, <2>1, <2>2 DEF C!Parent
  <2>4. q \in Seq(Nat) /\ Len(q) = slash - 1 /\ \A i \in 1 .. slash - 1 : q[i] = p[i]
    <3>1. slash - 1 \in Nat /\ \A i \in 1 .. slash - 1 : p[i] \in Nat OBVIOUS
    <3> QED BY <2>2, <3>1, SubSeqProperties
  <2>5. PICK a \in Seq(Seq(Nat)), b \in Seq(Seq(Nat)) : a = C!Components(q) /\ b = C!Components(p)
    BY <2>4, ComponentsType
  <2>6. Len(a) <= Len(b) /\ \A k \in 1 .. Len(a) : a[k] = b[k] BY <2>1, <2>4, <2>5, BeforeSlash DEF Begins
  <2>7. b = <<>> \/ (b \in DOMAIN Tree /\ Tree[b] = "dir")
    BY <1>1, <1>4, <2>5 DEF DirInv, C!DirExists
  <2>8. Len(a) \in Nat /\ Len(b) \in Nat OBVIOUS
  <2>9. a = SubSeq(b, 1, Len(a))
    <3>1. \A k \in 1 .. Len(a) : b[k] \in Seq(Nat) BY <2>6, <2>8
    <3>2. PICK c : c = SubSeq(b, 1, Len(a)) OBVIOUS
    <3>3. c \in Seq(Seq(Nat)) /\ Len(c) = Len(a) /\ \A k \in 1 .. Len(a) : c[k] = b[k]
      <4>1. Len(SubSeq(b, 1, Len(a))) = IF 1 <= Len(a) THEN Len(a) - 1 + 1 ELSE 0
        BY <2>8, <3>1, SubSeqProperties
      <4>2. SubSeq(b, 1, Len(a)) \in Seq(Seq(Nat)) BY <2>8, <3>1, SubSeqProperties
      <4>3. \A k \in 1 .. Len(a) : SubSeq(b, 1, Len(a))[k] = b[k] BY <2>8, <3>1, SubSeqProperties
      <4> QED BY <2>8, <3>2, <4>1, <4>2, <4>3
    <3> QED BY <2>6, <3>2, <3>3, SeqEqual
  <2>10. CASE b = <<>>
    <3>1. a = <<>> BY <2>6, <2>8, <2>10, EmptySeq
    <3> QED BY <1>1, <2>3, <2>4, <2>5, <3>1
  <2>11. CASE b \in DOMAIN Tree /\ Tree[b] = "dir"
    <3>1. CASE Len(a) = 0
      <4>1. a = <<>> BY <3>1, EmptySeq
      <4> QED BY <1>1, <2>3, <2>4, <2>5, <4>1
    <3>2. CASE Len(a) = Len(b)
      <4>1. a = b BY <2>5, <2>9, <3>2, SubSeqFull
      <4> QED BY <1>1, <2>3, <2>4, <2>5, <2>11, <4>1
    <3>3. CASE Len(a) \in 1 .. Len(b) - 1
      <4>1. SubSeq(b, 1, Len(a)) \in DOMAIN Tree /\ Tree[SubSeq(b, 1, Len(a))] = "dir"
        BY <2>11, <3>3, TreeAssumption
      <4> QED BY <1>1, <2>3, <2>4, <2>5, <2>9, <4>1
    <3> QED BY <2>6, <2>8, <3>1, <3>2, <3>3
  <2> QED BY <2>7, <2>10, <2>11
<1> QED BY <1>2, <1>3, <1>4

LEMMA CdKeepsDir ==
  ASSUME ShellInv, DirInv, NEW arg \in Arguments, C!cd(arg)
  PROVE  DirInv'
<1>1. PICK path \in Seq(Nat) : path = IF currentDir = C!Root THEN arg ELSE currentDir \o <<C!Slash>> \o arg
  BY PathTypes DEF DirInv
<1>0. C!Overruns(path) => DirInv' BY DEF C!Overruns, C!commandVars, DirInv, C!DirExists
<1> SUFFICES ASSUME C!Enters(path) PROVE DirInv' BY <1>0, <1>1 DEF C!cd
<1>2. PICK o \in C!FAT_OpenAbsolute(path, held) :
        currentDir' = IF C!MayEnter(o.file) THEN path ELSE currentDir
  BY DEF C!Enters
<1>3. held \in Counts BY PromptHolds DEF C!cd
<1>4. Opened(o, C!Components(path), held) BY <1>3, OpenAbsolute
<1>5. CASE ~C!MayEnter(o.file)
  <2>1. currentDir' = currentDir BY <1>2, <1>5
  <2> QED BY <2>1 DEF DirInv, C!DirExists
<1>6. CASE C!MayEnter(o.file)
  <2>1. currentDir' = path BY <1>2, <1>6
  <2>2. o.file.kind = "dir" BY <1>6 DEF C!MayEnter, C!FAT_IsDirectory
  <2>3. PICK names : names = C!Components(path) OBVIOUS
  <2>4. names = <<>> \/ (names \in DOMAIN Tree /\ Tree[names] = "dir")
    <3>1. CASE o.file = C!NULL BY <2>2, <3>1 DEF C!NULL
    <3>2. CASE names \in DOMAIN Tree /\ o.file = [at |-> names, kind |-> Tree[names]] BY <2>2, <3>2
    <3> QED BY <1>3, <1>4, <2>3, <3>1, <3>2, WasOpened
  <2> QED BY <2>1, <2>3, <2>4 DEF DirInv, C!DirExists
<1> QED BY <1>5, <1>6

LEMMA CommandsKept == ShellInv /\ DirInv /\ [Next]_vars => ShellInv' /\ DirInv'
<1> SUFFICES ASSUME ShellInv, DirInv, [Next]_vars PROVE ShellInv' /\ DirInv' OBVIOUS
<1>1. UNCHANGED currentDir => DirInv' BY DEF DirInv, C!DirExists
<1>2. running' # "shell" => ShellInv' BY DEF ShellInv
<1>3. ForgetCommands => DirInv'
  BY NoComponents DEF ForgetCommands, DirInv, C!DirExists
<1>4. CASE ShellStep
  <2>1. C!Next BY <1>4 DEF ShellStep
  <2>2. CASE UNCHANGED currentDir BY <1>1, <2>1, <2>2, ShellTurnKeeps
  <2>3. CASE C!cd_up
    <3>1. currentDir' = C!Parent(currentDir) BY <2>3 DEF C!cd_up
    <3>2. DirInv' BY <3>1, ParentExists DEF DirInv, C!DirExists
    <3> QED BY <2>1, <3>2, ShellTurnKeeps
  <2>4. CASE \E arg \in Arguments : C!cd(arg) BY <2>1, <2>4, CdKeepsDir, ShellTurnKeeps
  <2>5. UNCHANGED currentDir \/ C!cd_up \/ \E arg \in Arguments : C!cd(arg)
    BY <2>1 DEF C!Next, C!FAT_Init, C!NoDevice, C!LoadFont, C!FAT_ListFiles, C!ListName, C!ListEnd,
                C!pause, C!cat, C!Overruns, C!Shows, C!ls, C!calc, C!beep, C!commandVars
  <2> QED BY <2>2, <2>3, <2>4, <2>5
<1>5. CASE RecoveryStep
  BY <1>1, <1>2, <1>5, RecoveryTurn DEF RecoveryStep, Menus, commandVars
<1>6. CASE PongStep BY <1>1, <1>2, <1>6, PongTurn DEF PongStep, commandVars
<1>7. CASE DesktopStep BY <1>1, <1>2, <1>7, DesktopTurn DEF DesktopStep, commandVars
<1>8. CASE DesktopFromShell BY <1>2, <1>3, <1>8 DEF DesktopFromShell
<1>9. CASE RecoveryFromShell BY <1>2, <1>3, <1>9, RecoveryStarts DEF RecoveryFromShell
<1>10. CASE DesktopFromRecovery BY <1>1, <1>2, <1>10 DEF DesktopFromRecovery, commandVars
<1>11. CASE PongFromRecovery BY <1>1, <1>2, <1>11 DEF PongFromRecovery, commandVars
<1>12. CASE UNCHANGED vars
  <2>1. UNCHANGED <<running, currentDir, s_fat_fs, font, held, task>> BY <1>12 DEF vars, commandVars
  <2>2. \A k : Stands(k)' = Stands(k) BY <2>1 DEF Stands
  <2>3. ShellInv' BY <2>1, <2>2 DEF ShellInv, Holds, Carries, Listing, Counts
  <2> QED BY <1>1, <2>1, <2>3
<1> QED BY <1>4, <1>5, <1>6, <1>7, <1>8, <1>9, <1>10, <1>11, <1>12 DEF Next

LEMMA CommandsBegin == Init => ShellInv /\ DirInv
<1> SUFFICES ASSUME Init PROVE ShellInv /\ DirInv OBVIOUS
<1>1. /\ currentDir = C!Root /\ s_fat_fs = FALSE /\ font = FALSE /\ held = [k \in C!Blocks |-> 0]
      /\ task = [C!Idle EXCEPT !.in = "FAT_Init", !.at = 1]
  BY DEF Init, C!Init
<1>2. DirInv BY <1>1, PathTypes, EmptySeq DEF DirInv, C!DirExists
<1>3. task.in = "FAT_Init" /\ task.at = 1 BY <1>1 DEF C!Idle
<1>4. task = [in |-> task.in, at |-> task.at, file |-> task.file] BY <1>1 DEF C!Idle
<1>5. held \in Counts /\ \A k \in C!Blocks : held[k] = 0 BY <1>1 DEF Counts
<1>6. Holds(InitHolds(1)) BY <1>1, <1>5 DEF Holds, Carries, Stands, InitHolds
<1> QED BY <1>1, <1>2, <1>3, <1>4, <1>6 DEF ShellInv

\* The commands, and what the shell sets up before them: whichever allocation or access fails,
\* at the prompt nothing is held but the filesystem and the font that are there.
THEOREM CommandsGiveBack == Spec => []NothingLeaks
<1>1. ASSUME ShellInv PROVE NothingLeaks
  <2> SUFFICES ASSUME running = "shell", task.in = "prompt"
               PROVE  held = [k \in C!Blocks |->
                        IF k \in {"fat_sector_buffer", "filesystem"} /\ s_fat_fs THEN 1
                        ELSE IF k \in {"font", "header", "glyphs"} /\ font THEN 1 ELSE 0]
    BY DEF NothingLeaks, C!NothingLeaks
  <2>1. held \in Counts /\ \A k \in C!Blocks : held[k] = Stands(k) + IF k \in {} THEN 1 ELSE 0
    BY <1>1 DEF ShellInv, Holds, Carries
  <2>2. \A k \in C!Blocks : held[k] = Stands(k) BY <2>1, StandsInt
  <2> QED BY <2>1, <2>2 DEF Counts, Stands
<1> QED BY <1>1, CommandsBegin, CommandsKept, PTL DEF Spec

\* cd: in and out of directories, with slashes doubled or at the end, however the shell puts
\* the path together, the current directory is a directory of the volume, as long as no path
\* outgrows its array.
THEOREM DirectoryStaysInVolume == Spec => []CurrentDirExists
<1>1. DirInv => CurrentDirExists BY DEF DirInv, CurrentDirExists, C!CurrentDirExists
<1> QED BY <1>1, CommandsBegin, CommandsKept, PTL DEF Spec
====
