------------------------------ MODULE Terminal ------------------------------
(* The text terminal of shell/terminal.c: a buffer of Height rows, of which    *)
(* Visible are on the screen from buffer_start_row on.  Every write goes to    *)
(* the buffer and to the screen; scrolling moves the window and draws all of   *)
(* it again.  The cell at offset y * width + x is the cell <<x, y>>.  Where    *)
(* the hardware cursor blinks is left out: nothing reads it back.              *)
EXTENDS Integers

CONSTANTS Width, Height, Visible,  \* s_term_info: width, height, visible_height
          Chars                    \* characters written, blank among them

Blank == " "
ASSUME TerminalAssumption ==
  /\ Width \in Nat \ {0} /\ Height \in Nat /\ Visible \in 1 .. Height
  /\ Blank \in Chars

VARIABLES
  buffer,       \* s_term_info.buffer
  start,        \* buffer_start_row
  row, col,     \* where the next character goes
  screen,       \* what set_char drew last in each visible cell
  gui           \* a graphical program has the screen

termVars == <<buffer, start, row, col, screen, gui>>

Columns == 0 .. Width - 1
Cells == Columns \X (0 .. Height - 1)
Seen == Columns \X (0 .. Visible - 1)

\* The row of the buffer that is written to.
Line == start + row

\* term_rerender_buffer
Window(buf, from) == [p \in Seen |-> buf[<<p[1], p[2] + from>>]]

TermInit ==
  /\ buffer = [p \in Cells |-> Blank] /\ start = 0
  /\ row = 0 /\ col = 0
  /\ screen = Window(buffer, 0)
  /\ gui = FALSE

-----------------------------------------------------------------------------
Scrolled(from) == IF from < Height - Visible THEN from + 1 ELSE from

StaysBelow == Visible                                                \* mutant
LastRow == Visible - 1

\* Down one row: by scrolling if there is none below.  The screen is drawn again from
\* buf, the buffer with what was just written.
DrawsFromOldStart(buf) == screen' = Window(buf, start)               \* mutant
Redraw(buf) == screen' = Window(buf, start')
NextRow(buf, scr) ==
  IF row + 1 < Visible THEN row' = row + 1 /\ start' = start /\ screen' = scr
  ELSE row' = LastRow /\ start' = Scrolled(start) /\ Redraw(buf)

Newline ==
  /\ ~gui
  /\ col' = 0 /\ NextRow(buffer, screen)
  /\ UNCHANGED <<buffer, gui>>

Back == IF col > 0 THEN col - 1 ELSE col
Backspace ==
  /\ ~gui
  /\ col' = Back
  /\ UNCHANGED <<buffer, start, row, screen, gui>>

\* Any other character.  A tab is four blanks, one after the other.
Put ==
  /\ ~gui
  /\ \E ch \in Chars :
       LET scr == [screen EXCEPT ![<<col, row>>] = ch] IN
       /\ buffer' = [buffer EXCEPT ![<<col, Line>>] = ch]
       /\ IF col + 1 < Width
            THEN col' = col + 1 /\ screen' = scr /\ UNCHANGED <<start, row>>
            ELSE col' = 0 /\ NextRow(buffer', scr)
  /\ UNCHANGED gui

\* The buffer is blanked from its first row to its last, not from the start row on.
ClearsWindowOnly ==                                                  \* mutant
  [p \in Cells |-> IF p[2] < Visible THEN Blank ELSE buffer[p]]
Cleared == [p \in Cells |-> Blank]
Clear ==
  /\ ~gui
  /\ buffer' = Cleared /\ screen' = Window(buffer', start)
  /\ row' = 0 /\ col' = 0
  /\ UNCHANGED <<start, gui>>

\* guiload and recovery draw on the screen, and end with term_rerender_buffer.
GuiStarts ==
  /\ ~gui /\ gui' = TRUE
  /\ \E ch \in Chars : screen' = [p \in Seen |-> ch]
  /\ UNCHANGED <<buffer, start, row, col>>
GuiEnds ==
  /\ gui /\ gui' = FALSE
  /\ screen' = Window(buffer, start)
  /\ UNCHANGED <<buffer, start, row, col>>

\* The scroll of shell.c:329-332 is not an action: it asks for row >= height, which
\* InBounds rules out.
TermNext == Newline \/ Backspace \/ Put \/ Clear \/ GuiStarts \/ GuiEnds
TermSpec == TermInit /\ [][TermNext]_termVars
-----------------------------------------------------------------------------
(* Properties *)

\* The buffer and the screen keep a character in every cell, and no position is below zero.
TermTypeOK ==
  /\ buffer \in [Cells -> Chars] /\ screen \in [Seen -> Chars]
  /\ start \in Nat /\ row \in Nat /\ col \in Nat /\ gui \in BOOLEAN

\* Wherever start row, row and column have got to, the next write is inside the buffer
\* and on the screen, and so is everything a redraw reads (terminal.c:131-137, 222).
InBounds ==
  /\ col < Width /\ row < Visible
  /\ start + Visible <= Height

\* The screen shows the rows of the buffer from the start row on, whatever was scrolled
\* and whoever had the screen in between (term_scroll, term_rerender_buffer).
ScreenShowsBuffer == ~gui => screen = Window(buffer, start)

\* Rows below the cursor are blank: text that comes next never runs into older text in
\* rows a scroll or a clear has brought back into sight (terminal.c:142-160, 187-194).
BelowIsBlank == \A p \in Cells : p[2] > Line => buffer[p] = Blank
=============================================================================
