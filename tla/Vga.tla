-------------------------------- MODULE Vga --------------------------------
(* vga_text_init of drivers/vga.c: the registers of the 80x25 text mode        *)
(* written over whatever mode the machine is in, then the font.                *)
(* The adapter, as far as it decides what a write does, is external: the CRTC  *)
(* protects its first eight registers, one port takes the index and the value  *)
(* of an attribute in turn, and plane and addressing registers decide where    *)
(* the processor writes.                                                       *)
EXTENDS Integers, Sequences

CONSTANTS Left,     \* bytes that may be in the registers, before
          Glyphs    \* of the font

Bit(byte, bit) == (byte \div bit) % 2 = 1
With(byte, bit) == IF Bit(byte, bit) THEN byte ELSE byte + bit
Without(byte, bit) == IF Bit(byte, bit) THEN byte - bit ELSE byte

\* mode_80x25_text; the register i of a group is the element i + 1.
Mode ==
  [misc |-> <<103>>,
   seq  |-> <<3, 0, 3, 0, 2>>,
   crtc |-> <<95, 79, 80, 130, 85, 129, 191, 31, 0, 79, 13, 14, 0, 0, 0, 80,
              156, 14, 143, 40, 31, 150, 185, 163, 255>>,
   gc   |-> <<0, 0, 0, 0, 0, 16, 14, 0, 255>>,
   ac   |-> <<0, 1, 2, 3, 4, 5, 20, 7, 56, 57, 58, 59, 60, 61, 62, 63, 12, 0, 15, 8, 0>>]

VARIABLES
  regs,         \* the registers of the adapter, as groups like Mode; external
  port,         \* of the attributes: what it takes next, and the index it holds; external
  glyphs,       \* the glyphs that are where the adapter looks for them; external
  vga_pc, vga_i,  \* where vga_text_init is, and its loop variable
  saved,        \* what write_font saved
  segment       \* where VGA_address points: bits 2 and 3 of GC 6

vgaVars == <<regs, port, glyphs, vga_pc, vga_i, saved, segment>>

VgaInit ==
  /\ \E left \in Left : regs = [g \in DOMAIN Mode |-> [k \in DOMAIN Mode[g] |-> left]]
  /\ port \in [takes : {"index", "value"}, index : Left]
  /\ glyphs = {} /\ vga_pc = "misc" /\ vga_i = 0
  /\ saved = <<>> /\ segment = 0

-----------------------------------------------------------------------------
(* The adapter *)

\* Register 17 of the CRTC protects 0 to 7.
Protected(group, i) == group = "crtc" /\ i < 8 /\ Bit(regs.crtc[18], 128)
Out(group, i, value) == IF Protected(group, i) THEN regs ELSE [regs EXCEPT ![group][i + 1] = value]

\* An index without bit 5 blanks the display.  Indexes from 21 on name no attribute.
PutAttribute(i, value) == IF i < 21 THEN [regs EXCEPT !.ac[i + 1] = value] ELSE regs

\* In text mode the adapter takes glyphs from plane 2, 32 bytes each, in the order of the
\* addresses: only writes to that plane alone, with nothing that takes even and odd
\* addresses apart, get there.
Flat == regs.seq[3] = 4 /\ Bit(regs.seq[5], 4) /\ ~Bit(regs.gc[6], 16) /\ ~Bit(regs.gc[7], 2)

-----------------------------------------------------------------------------
(* write_registers *)

\* The loops over the registers of a group.
After == [misc |-> "seq", seq |-> "unlock", crtc |-> "gc", gc |-> "ac", ac |-> "unblank"]
WriteGroup ==
  /\ vga_pc \in {"misc", "seq", "crtc", "gc"}
  /\ regs' = Out(vga_pc, vga_i, Mode[vga_pc][vga_i + 1])
  /\ IF vga_i + 1 < Len(Mode[vga_pc]) THEN vga_i' = vga_i + 1 /\ UNCHANGED vga_pc
                                      ELSE vga_i' = 0 /\ vga_pc' = After[vga_pc]
  /\ UNCHANGED <<port, glyphs, saved, segment>>

\* Register 3, and register 17 with the protection; the table agrees with both bits.
OnlyReads == regs                                                    \* mutant
Unlocked == [Out("crtc", 3, With(regs.crtc[4], 128)) EXCEPT !.crtc[18] = Without(@, 128)]
Unlock ==
  /\ vga_pc = "unlock"
  /\ regs' = Unlocked
  /\ vga_pc' = "crtc"
  /\ UNCHANGED <<port, glyphs, vga_i, saved, segment>>

\* A read of the status: the port takes an index next.
ReadStatus == [port EXCEPT !.takes = "index"]
Aligned == ReadStatus.takes = "index"
WriteAttribute ==
  /\ vga_pc = "ac"
  /\ LET value == Mode.ac[vga_i + 1] IN
     /\ regs' = IF Aligned THEN PutAttribute(vga_i, value) ELSE PutAttribute(port.index, vga_i)
     /\ port' = [ReadStatus EXCEPT !.index = IF Aligned THEN vga_i ELSE value]
  /\ IF vga_i < 20 THEN vga_i' = vga_i + 1 /\ UNCHANGED vga_pc
                   ELSE vga_i' = 0 /\ vga_pc' = "unblank"
  /\ UNCHANGED <<glyphs, saved, segment>>

Unblank ==
  /\ vga_pc = "unblank"
  /\ regs' = IF Aligned THEN regs ELSE PutAttribute(port.index, 32)
  /\ port' = IF Aligned THEN [takes |-> "value", index |-> 32] ELSE [port EXCEPT !.takes = "index"]
  /\ vga_pc' = "address"
  /\ UNCHANGED <<glyphs, vga_i, saved, segment>>

-----------------------------------------------------------------------------
(* get_fb_address, write_font, vga_clear_screen *)

Address ==
  /\ vga_pc = "address"
  /\ segment' = (regs.gc[7] \div 4) % 4
  /\ vga_pc' = "flatten"
  /\ UNCHANGED <<regs, port, glyphs, vga_i, saved>>

\* The registers that decide where writes go are saved, and changed; set_plane chooses the
\* plane.
Flatten ==
  /\ vga_pc = "flatten"
  /\ saved' = <<regs.seq[3], regs.seq[5], regs.gc[5], regs.gc[6], regs.gc[7]>>
  /\ regs' = [regs EXCEPT !.seq[5] = With(@, 4), !.gc[6] = Without(@, 16), !.gc[7] = Without(@, 2),
                          !.gc[5] = 2, !.seq[3] = 4]
  /\ vga_pc' = "glyphs"
  /\ UNCHANGED <<port, glyphs, vga_i, segment>>

WriteGlyph ==
  /\ vga_pc = "glyphs" /\ vga_i < Glyphs
  /\ glyphs' = IF Flat THEN glyphs \cup {vga_i} ELSE glyphs
  /\ vga_i' = vga_i + 1
  /\ UNCHANGED <<regs, port, vga_pc, saved, segment>>

Restored == [regs EXCEPT !.seq[3] = saved[1], !.seq[5] = saved[2],
                         !.gc[5] = saved[3], !.gc[6] = saved[4], !.gc[7] = saved[5]]
Restore ==
  /\ vga_pc = "glyphs" /\ vga_i = Glyphs
  /\ regs' = Restored
  /\ vga_i' = 0 /\ vga_pc' = "clear"
  /\ UNCHANGED <<port, glyphs, saved, segment>>

\* One byte for each cell, of the two a cell has: the upper half of the screen.  term_init
\* draws all of it afterwards (Terminal).
Clear ==
  /\ vga_pc = "clear"
  /\ vga_pc' = "done"
  /\ UNCHANGED <<regs, port, glyphs, vga_i, saved, segment>>

VgaNext ==
  \/ WriteGroup \/ Unlock \/ WriteAttribute \/ Unblank
  \/ Address \/ Flatten \/ WriteGlyph \/ Restore \/ Clear

-----------------------------------------------------------------------------
(* Properties *)

\* Whatever the registers were, in the end they are those of the text mode, the ones write_font
\* changes too; the display is on, the whole font is in, and VGA_address is that of text
\* (segment 3, 0xB8000).
TextModeReady ==
  vga_pc = "done" =>
    /\ regs = Mode /\ port.index >= 32
    /\ glyphs = 0 .. Glyphs - 1
    /\ segment = 3
=============================================================================
