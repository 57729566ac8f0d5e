------------------------------ MODULE Desktop ------------------------------
(* start_desktop of gui/desktop.cpp with its one window (gui/window/           *)
(* window.cpp) and the fallback window manager (window/manager/manager.cpp).   *)
(* The mouse goes from one of a few Places to another, and the screen is seen  *)
(* at the pixels the pointer has there.                                        *)
EXTENDS Integers

CONSTANTS Places,      \* positions <<x, y>> of the mouse; <<0, 0>> is one of them
          Cursor,      \* the pixels of the pointer, relative to its position
          MaxEvents,   \* bound on the mouse events of a session
          MaxKeys      \* bound on the keys pressed

VARIABLES
  running,             \* the loop that runs, of all programs; "overwritten" when a drawing
                       \* past a buffer has changed what the loop uses
  window,              \* windows[1] of the manager, which is the active one
  MousePosition,
  screen, under,       \* the frame buffer at Pixels; MouseCursorBuffer
  picture, covered,    \* auxiliary: the screen without pointers; pixels where it was drawn
                       \* anew under the pointer
  events, keys         \* mouse events, and keys pressed

screens == <<MousePosition, screen, under, picture, covered>>
desktopVars == <<window, screens, events>>

Rect(x, y, width, height) == [x |-> x, y |-> y, width |-> width, height |-> height]
Inside(p, r) == p[1] >= r.x /\ p[1] < r.x + r.width /\ p[2] >= r.y /\ p[2] < r.y + r.height

\* Window(10, 10, 500, 500, ...): its buffer is there only if kmalloc had the room.
First == Rect(10, 10, 500, 500)
NewWindow(buffer) ==
  [at |-> First, mm |-> First, state |-> "Open", is_dragging |-> FALSE, buffer |-> buffer]
FullScreen == Rect(0, 0, 1920, 1080)

\* A pixel is the word of the frame buffer it is in: what is left of the screen is in the row
\* above.  The pointer is clipped at the right and at the bottom only.
Address(x, y) == y * 1920 + x
At(p, c) == Address(p[1] + c[1], p[2] + c[2])
Seen(p) == {c \in Cursor : p[1] + c[1] < 1920 /\ p[2] + c[2] < 1080}
Pointer(p) == {At(p, c) : c \in Seen(p)}
Pixels == UNION {Pointer(p) : p \in Places}
In(a, r) == Inside(<<a % 1920, a \div 1920>>, r)

\* draw_pointer saves what it covers, and clear_pointer puts it back.
Pointed(scr, p) == [a \in Pixels |-> IF a \in Pointer(p) THEN "pointer" ELSE scr[a]]
Saved(scr, p) == [c \in Cursor |-> IF c \in Seen(p) THEN scr[At(p, c)] ELSE under[c]]
Cleared(p) ==
  [a \in Pixels |-> IF a \in Pointer(p) THEN under[CHOOSE c \in Seen(p) : At(p, c) = a] ELSE screen[a]]

\* derender and render of a window: its rectangle is blue, then the picture of its buffer.
Rendered(scr, w) ==
  [a \in Pixels |-> IF ~In(a, w.at) THEN scr[a]
                    ELSE IF w.buffer = "null" THEN "blue" ELSE w.state]
DrawnUnder(p, w) == {a \in Pointer(p) : In(a, w.at)}

Init ==
  /\ window = NewWindow("heap") /\ MousePosition = <<0, 0>>
  /\ screen = [a \in Pixels |-> "text"] /\ picture = screen /\ under = [c \in Cursor |-> "text"]
  /\ covered = {} /\ events = 0

\* What happens before the loop, when another program calls start_desktop: the pointer is
\* drawn first, and the window over a part of it, if it has a buffer.  What render_base draws
\* past the buffer ends in the heap, or without a buffer below the kernel: nothing of it is
\* used any more.
start_desktop ==
  \E buffer \in {"heap", "null"} :
    LET w == NewWindow(buffer)
        blue == [a \in Pixels |-> "blue"]
        drawn(scr) == IF buffer = "null" THEN scr ELSE Rendered(scr, w)
    IN /\ window' = w /\ MousePosition' = <<0, 0>> /\ events' = 0
       /\ under' = Saved(blue, <<0, 0>>)
       /\ screen' = drawn(Pointed(blue, <<0, 0>>)) /\ picture' = drawn(blue)
       /\ covered' = IF buffer = "null" THEN {} ELSE DrawnUnder(<<0, 0>>, w)

-----------------------------------------------------------------------------
(* handle_mouse_event *)

\* The manager is told the position before the event moves it.  A button counts when it
\* is pressed and again when it is released.
CloseBox(w) == Rect(w.at.x + w.at.width - 25, w.at.y + 5, 20, 20)
InCloseColumn(p, w) == p[1] >= CloseBox(w).x /\ p[1] < CloseBox(w).x + 20
MaximizeBox(w) == Rect(w.at.width - 55, 5, 20, 20)   \* not relative to the window's place

SavesLate(w) == [w EXCEPT !.state = "Maximized", !.at = FullScreen, !.mm = FullScreen]   \* mutant
Maximized(w) == [w EXCEPT !.state = "Maximized", !.mm = w.at, !.at = FullScreen]
Restored(w) == [w EXCEPT !.state = "Open", !.at = w.mm]
change_state(w) == IF w.state = "Open" THEN Maximized(w) ELSE Restored(w)

Redrawn(w) ==
  /\ screen' = Rendered(screen, w) /\ picture' = Rendered(picture, w)
  /\ covered' = {a \in covered : ~In(a, w.at)} \cup DrawnUnder(MousePosition, w)

\* render_base draws a maximized window past its 500 by 500 buffer: behind the heap, where
\* depending on the build are variables that the loop uses, or nothing that it does.  Without
\* a buffer it draws over low memory, where the window itself is kept.
Overwrites(w) == w.state = "Maximized"
DrawsBase(w) ==
  running' \in (IF Overwrites(w) THEN {"overwritten"} ELSE {})
              \cup (IF Overwrites(w) /\ w.buffer = "null" THEN {} ELSE {"desktop"})

\* ~Window frees the window, which is not in the heap: kfree panics.
LeftClick ==
  IF InCloseColumn(MousePosition, window)
    THEN /\ running' = IF Inside(MousePosition, CloseBox(window)) THEN "panic" ELSE running
         /\ UNCHANGED <<window, screen, picture, covered>>
  ELSE IF Inside(MousePosition, MaximizeBox(window))
    THEN /\ window' = change_state(window)
         /\ Redrawn(window') /\ DrawsBase(window')
    ELSE UNCHANGED <<running, window, screen, picture, covered>>  \* the test before a drag is never false

-----------------------------------------------------------------------------
(* The loop: a key, then a mouse event.  Escape ends it, and with it the       *)
(* window on the stack, whose destructor panics like that of the copy.         *)

ReadsKey(key) ==
  /\ key \in {"NONE", "Escape", "1"} /\ (key # "NONE" => keys < MaxKeys)
  /\ keys' = IF key = "NONE" THEN keys ELSE keys + 1

Escape ==
  /\ running = "desktop" /\ ReadsKey("Escape")
  /\ running' = "panic"
  /\ UNCHANGED desktopVars

Event == running = "desktop" /\ events < MaxEvents /\ events' = events + 1

Button(key) ==
  /\ Event /\ key # "Escape" /\ ReadsKey(key)
  /\ LeftClick
  /\ UNCHANGED <<MousePosition, under>>

ClearsThere(to) ==                                                   \* mutant
  /\ MousePosition' = to
  /\ screen' = Pointed(Cleared(to), to) /\ under' = Saved(Cleared(to), to)
MovesPointer(to) ==
  /\ MousePosition' = to
  /\ screen' = Pointed(Cleared(MousePosition), to) /\ under' = Saved(Cleared(MousePosition), to)
Moves(to) ==
  /\ Event /\ ReadsKey("NONE")
  /\ MovesPointer(to)
  /\ UNCHANGED <<running, window, picture, covered>>

\* Without a mouse event the processor halts until an interrupt, if only the timer's.
Wait(key) ==
  /\ running = "desktop" /\ key # "Escape" /\ ReadsKey(key)
  /\ UNCHANGED <<running, desktopVars>>

Next ==
  \/ Escape \/ \E to \in Places : Moves(to)
  \/ \E key \in {"NONE", "1"} : Button(key) \/ Wait(key)

-----------------------------------------------------------------------------
(* Properties *)

\* However often it was maximized, an open window has the place and size it began with, as
\* long as no drawing past its buffer went over what the desktop uses.
RestoreKeepsGeometry ==
  running = "desktop" /\ window.state = "Open" => window.at = First

\* The pointer saves what it covers and puts it back: away from it, the screen is the
\* picture, but for the pixels the pointer was on when the window was last drawn over them.
\* These begin with the window's corner, which is drawn over the pointer at the start.
PointerLeavesNoTrace ==
  running = "desktop" =>
    \A a \in Pixels \ Pointer(MousePosition) : screen[a] # picture[a] => a \in covered
=============================================================================
