-------------------------------- MODULE Draw --------------------------------
(* What the drawing routines put where: gui/window/gui.cpp on buffers, and     *)
(* drivers/vbe.c and drivers/vga.c, whose copies of them are the same, on the  *)
(* screen.  A figure is the set of pixels <<x, y>> a routine puts; a loop is   *)
(* the sequence of the states it goes through.  Coordinates are unsigned, here *)
(* modulo Wrap in place of 2^32.                                               *)
EXTENDS Integers, SequencesExt

CONSTANTS Wrap,             \* number of values of a coordinate
          Extent, MaxRadius \* bounds on the lines and circles that are checked
ASSUME WrapAssumption == Wrap \in Nat /\ Wrap > 0

\* Opaque (0) replaces, transparent (255) leaves, anything else mixes; one channel.
Blend(src, dst, alpha) == (src * (255 - alpha) + dst * alpha) \div 255
put_pixel(colour, existing) ==
  CASE colour.alpha = 255 -> existing
    [] colour.alpha = 0   -> colour.value
    [] OTHER              -> Blend(colour.value, existing, colour.alpha)

abs(x) == IF x < 0 THEN -x ELSE x

-----------------------------------------------------------------------------
(* Lines and rectangles *)

Sign(from, to) == IF from < to THEN 1 ELSE -1
Delta(a, b) == <<abs(b[1] - a[1]), -abs(b[2] - a[2])>>

\* One turn of the loop: from the pixel just put to the next one.
OneAxis(pen, a, b) ==                                                \* mutant
  LET d == Delta(a, b)
      e2 == 2 * pen.err
      alongX == e2 >= d[2]
      alongY == ~alongX /\ e2 <= d[1]
  IN [at |-> <<pen.at[1] + IF alongX THEN Sign(a[1], b[1]) ELSE 0,
               pen.at[2] + IF alongY THEN Sign(a[2], b[2]) ELSE 0>>,
      err |-> pen.err + (IF alongX THEN d[2] ELSE 0) + (IF alongY THEN d[1] ELSE 0)]
NextPen(pen, a, b) ==
  LET d == Delta(a, b)
      e2 == 2 * pen.err
      alongX == e2 >= d[2]
      alongY == e2 <= d[1]
  IN [at |-> <<pen.at[1] + IF alongX THEN Sign(a[1], b[1]) ELSE 0,
               pen.at[2] + IF alongY THEN Sign(a[2], b[2]) ELSE 0>>,
      err |-> pen.err + (IF alongX THEN d[2] ELSE 0) + (IF alongY THEN d[1] ELSE 0)]

\* The pens of the first turns; the loop ends with the first that is at b.
Pens(a, b, turns) ==
  LET d == Delta(a, b) IN
  FoldLeft(LAMBDA pens, k : IF Last(pens).at = b THEN pens ELSE Append(pens, NextPen(Last(pens), a, b)),
           <<[at |-> a, err |-> d[1] + d[2]]>>, [k \in 1 .. turns |-> k])
Turns(a, b) == abs(b[1] - a[1]) + abs(b[2] - a[2])
draw_line(a, b) == LET pens == Pens(a, b, Turns(a, b)) IN {pens[k].at : k \in DOMAIN pens}

\* The four sides run to x + width and y + height, both included.
rect(x, y, width, height) ==
  LET ex == x + width
      ey == y + height
  IN draw_line(<<x, y>>, <<ex, y>>) \cup draw_line(<<ex, y>>, <<ex, ey>>)
     \cup draw_line(<<x, ey>>, <<ex, ey>>) \cup draw_line(<<x, ey>>, <<x, y>>)

\* A rectangle whose far edge wraps around is empty.
fill_rect(x, y, width, height) ==
  ((x % Wrap) .. ((x + width) % Wrap) - 1) \X ((y % Wrap) .. ((y + height) % Wrap) - 1)

point_in_rect(p, x, y, width, height) ==
  /\ p[1] % Wrap >= x /\ p[1] % Wrap < x + width
  /\ p[2] % Wrap >= y /\ p[2] % Wrap < y + height

-----------------------------------------------------------------------------
(* Circles: the centre of the circle of radius r at (x, y) is (x + r, y + r). *)

\* The eight pixels of a turn of draw_circle, relative to the centre.
Octants(x, y) == {<<x, y>>, <<-x, y>>, <<x, -y>>, <<-x, -y>>, <<y, x>>, <<-y, x>>, <<y, -x>>, <<-y, -x>>}
\* x and y are unsigned: y of a circle of radius 0 falls below 0 in the first turn and wraps.
AsInt(n) == ((n + Wrap \div 2) % Wrap) - Wrap \div 2
NextArc(c) ==
  LET x == (c.x + 1) % Wrap IN
  IF c.d > 0 THEN [x |-> x, y |-> (c.y - 1) % Wrap, d |-> AsInt(c.d + 4 * (c.x - c.y) + 10)]
             ELSE [x |-> x, y |-> c.y, d |-> AsInt(c.d + 4 * c.x + 6)]
\* The loop, in rounds of eight turns; as x rises, it takes at most Wrap turns.
Round(arc) ==
  FoldLeft(LAMBDA a, k : IF Last(a).x > Last(a).y THEN a ELSE Append(a, NextArc(Last(a))),
           arc, [k \in 1 .. 8 |-> k])
Arc(r) ==
  FoldLeft(LAMBDA arc, k : IF Last(arc).x > Last(arc).y THEN arc ELSE Round(arc),
           <<[x |-> 0, y |-> r, d |-> 3 - 2 * r]>>, [k \in 1 .. Wrap \div 8 + 1 |-> k])
Moved(offsets, x, y, r) == {<<(x + r + o[1]) % Wrap, (y + r + o[2]) % Wrap>> : o \in offsets}
draw_circle(x, y, r) ==
  Moved(UNION {Octants(c.x, c.y) : c \in {a \in ToSet(Arc(r)) : a.x <= a.y}}, x, y, r)

\* The four rows of a turn of draw_filled_circle, relative to the centre.
Rows(x, y) == ((-x .. x) \X {y, -y}) \cup ((-y .. y) \X {x, -x})
NextDisc(c) ==
  LET y == c.y + 1 IN
  IF c.d <= 0 THEN [x |-> c.x, y |-> y, d |-> c.d + 2 * y + 1]
              ELSE [x |-> c.x - 1, y |-> y, d |-> c.d + 2 * (y - (c.x - 1)) + 1]
Disc(r) == FoldLeft(LAMBDA disc, k : IF Last(disc).y > Last(disc).x THEN disc ELSE Append(disc, NextDisc(Last(disc))),
                    <<[x |-> r, y |-> 0, d |-> 1 - r]>>, [k \in 1 .. r + 1 |-> k])
draw_filled_circle(x, y, r) ==
  Moved(UNION {Rows(c.x, c.y) : c \in {a \in ToSet(Disc(r)) : a.y <= a.x}}, x, y, r)

-----------------------------------------------------------------------------
(* From a buffer to the screen, and characters *)

\* What the pixel (x, y) of the screen gets of a buffer of this width: the part is taken
\* from the buffer's corner, wherever the rectangle says it begins.
vbe_render_part(buffer, bufferWidth, point, width, height) ==
  [p \in (point[1] .. point[1] + width - 1) \X (point[2] .. point[2] + height - 1) |->
     buffer[(p[2] - point[2]) * bufferWidth + (p[1] - point[1])]]

\* The pixels of a string in drivers/vbe.c, where glyph[ch] is the set of bits <<column, row>>
\* of the character.
print_string(str, glyph, x, y) ==
  UNION {{<<x + 8 * (k - 1) + bit[1], y + bit[2]>> : bit \in glyph[str[k]]} : k \in DOMAIN str}

\* The window's draw_text, with the bits <<column, row>> of all glyphs one below the other.
text_draw_char(bits, charsize, c, x, y, width, height) ==
  {<<x + b[1], y + b[2] - c * charsize>> :
     b \in {d \in bits : d[1] < width /\ d[2] \in c * charsize .. c * charsize + height - 1}}

\* Where the cursor goes after a character: <<column, row>>, in pixels.
NextCursor(cursor, ch, font_width, font_height) ==
  LET next == CASE ch = 10 -> <<0, cursor[2] + font_height>>
                [] ch = 13 -> <<0, cursor[2]>>
                [] OTHER   -> IF cursor[1] + font_width >= 1920 THEN <<0, cursor[2] + font_height>>
                                                                ELSE <<cursor[1] + font_width, cursor[2]>>
  IN IF next[2] >= 1080 THEN <<next[1], 0>> ELSE next

AsChar(n) == ((n + 128) % 256) - 128

\* The arguments go to other parameters than they are meant for: the cursor is the glyph and
\* its size, the character a row.  On the first row a glyph has no height, and nothing is
\* drawn, where gui.hpp:303 says "Draws text on the window".
draw_text(text, bits, charsize, font_width, font_height) ==
  FoldLeft(LAMBDA t, ch :
             [cursor |-> NextCursor(t.cursor, ch, font_width, font_height),
              pixels |-> t.pixels \cup
                IF ch \in {10, 13} THEN {}
                ELSE text_draw_char(bits, charsize, AsChar(t.cursor[1]), t.cursor[2], ch, t.cursor[1], t.cursor[2])],
           [cursor |-> <<0, 0>>, pixels |-> {}], text).pixels

-----------------------------------------------------------------------------
(* Properties *)

\* Every line ends, as many turns after its start as it has pixels: at its end point, with
\* each pixel next to the one before, between the two ends, and no more than half a pixel
\* away from the straight line.
Between(p, a, b) == \A i \in {1, 2} : p[i] \in (a[i] .. b[i]) \cup (b[i] .. a[i])
HalfAPixel(p, a, b) ==
  LET off == (b[1] - a[1]) * (p[2] - a[2]) - (b[2] - a[2]) * (p[1] - a[1]) IN
  2 * abs(off) <= Delta(a, b)[1] \/ 2 * abs(off) <= -Delta(a, b)[2]
LinesReach ==
  \A a, b \in (0 .. Extent) \X (0 .. Extent) :
    LET pens == Pens(a, b, Turns(a, b)) IN
    /\ Last(pens).at = b
    /\ \A k \in DOMAIN pens : Between(pens[k].at, a, b) /\ HalfAPixel(pens[k].at, a, b)
    /\ \A k \in 2 .. Len(pens) : \A i \in {1, 2} : abs(pens[k].at[i] - pens[k - 1].at[i]) <= 1

\* Two loops that decide differently draw the same circle, from radius 1 on: the outline has
\* a pixel in each column and none off the radius by more than half a pixel, and the disc has
\* every pixel within, none beyond, and covers the outline.
CirclesRound ==
  \A r \in 1 .. MaxRadius :
    LET circle == draw_circle(0, 0, r)
        disc == draw_filled_circle(0, 0, r)
        square(p) == (p[1] - r) * (p[1] - r) + (p[2] - r) * (p[2] - r)
    IN /\ \A p \in circle : abs(square(p) - r * r) <= r
       /\ \A x \in 0 .. 2 * r : \E y \in r .. 2 * r : <<x, y>> \in circle
       /\ \A p \in disc : square(p) <= r * r + r
       /\ \A p \in (0 .. 2 * r) \X (0 .. 2 * r) : square(p) <= r * r - r => p \in disc
       /\ circle \subseteq disc

\* A circle of radius 0 is no dot: the loop goes on for at least half of all coordinates and
\* puts pixels in every column; the disc is one.
DotRunsOn ==
  /\ Len(Arc(0)) > Wrap \div 2
  /\ {p[1] : p \in draw_circle(0, 0, 0)} = 0 .. Wrap - 1
  /\ draw_filled_circle(0, 0, 0) = {<<0, 0>>}
=============================================================================
