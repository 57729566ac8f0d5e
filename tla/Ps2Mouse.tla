------------------------------ MODULE Ps2Mouse ------------------------------
(* drivers/ps2_mouse.c once the mouse is enabled: the mouse sends packets of   *)
(* three or four bytes, the IRQ12 handler gathers them and turns a packet into *)
(* button, movement and wheel events in a ring, and ps2_get_mouse_event takes  *)
(* them in the main thread.  How the id was found out is in module Ps2Queue.   *)
EXTENDS Integers, Sequences, FiniteSets

CONSTANTS Ids,          \* ids after the handshake: 0 plain, 3 wheel, 4 wheel and extra buttons
          Buttons,      \* buttons pressed: 0 .. 4, of which 3 and 4 need id 4
          Moves,        \* movements <<x, y>> of -256 .. 255
          Wheel,        \* turns of the wheel, -8 .. 7
          QueueSize,    \* PS2_EVENT_QUEUE_SIZE
          MaxPackets, MaxLost   \* bounds on packets sent and bytes lost

\* A packet makes up to seven events, and PS2_EVENT_QUEUE_SIZE is 32: room for the most
\* that one packet brings is always room for as many that are there already.
ASSUME QueueSizeAssumption ==
  IsFiniteSet(Buttons) /\ QueueSize \in Nat /\ QueueSize >= 2 * (Cardinality(Buttons) + 2)
ASSUME InputAssumption ==
  /\ Ids \subseteq {0, 3, 4} /\ Buttons \subseteq 0 .. 4 /\ Wheel \subseteq -8 .. 7
  /\ Moves \subseteq (-256 .. 255) \X (-256 .. 255)

VARIABLES
  id,                        \* mouse_info.id
  wire, reported,            \* the mouse: bytes not yet read, buttons of the last packet
  byte_buffer,               \* ps2_device_t, the bytes of the packet so far
  queue, head, tail, len,    \* ps2_device_t, the event ring
  button_mask,               \* mouse_info.button_mask
  pc, enabled, out,          \* main thread: place in ps2_get_mouse_event, IF, *out
  due,                       \* auxiliary: what happened to the mouse in the packet on its way
  packets, lost              \* packets sent, bytes lost

ring == <<queue, head, tail, len>>
driver == <<byte_buffer, ring, button_mask>>
main == <<pc, enabled, out>>
vars == <<id, wire, reported, driver, main, due, packets, lost>>

NONE == [type |-> "none"]
ButtonEvent(i, pressed) == [type |-> "button", button |-> i, pressed |-> pressed]
MoveEvent(x, y) == [type |-> "move", rel_x |-> x, rel_y |-> y]
ScrollEvent(z) == [type |-> "scroll", value |-> z]
Slots == 0 .. QueueSize - 1

Init ==
  /\ id \in Ids /\ wire = <<>> /\ reported = {}
  /\ byte_buffer = <<>> /\ button_mask = {}
  /\ queue = [i \in Slots |-> NONE] /\ head = 0 /\ tail = 0 /\ len = 0
  /\ pc = "idle" /\ enabled = TRUE /\ out = NONE
  /\ due = <<>> /\ packets = 0 /\ lost = 0

Bit(byte, i) == (byte \div 2^i) % 2

Maybe(happens, event) == IF happens THEN <<event>> ELSE <<>>

\* The events of buttons that were in one set, or are in the other, in their order.
Change(i, from, to) == Maybe(i \in from <=> i \notin to, ButtonEvent(i, i \in to))
Changes(from, to) ==
  Change(0, from, to) \o Change(1, from, to) \o Change(2, from, to)
  \o Change(3, from, to) \o Change(4, from, to)

-----------------------------------------------------------------------------
(* The mouse *)

Packet(buttons, x, y, z, odd) ==
  LET bit(set, i) == IF set THEN 2^i ELSE 0
      first == bit(0 \in buttons, 0) + bit(1 \in buttons, 1) + bit(2 \in buttons, 2) + 8
               + bit(x < 0, 4) + bit(y < 0, 5)
      extra == bit(3 \in buttons, 4) + bit(4 \in buttons, 5) + bit(odd, 6)
  IN <<first, x % 256, y % 256>> \o
     CASE id = 0 -> <<>> [] id = 3 -> <<z % 256>> [] id = 4 -> <<extra + (z % 16)>>

\* The changes in one packet, as a user sees them: buttons in order, then x and y, then
\* the wheel.
Happened(buttons, x, y, z) ==
  Changes(reported, buttons)
  \o Maybe(x # 0 \/ y # 0, MoveEvent(x, y)) \o Maybe(z # 0, ScrollEvent(z))

\* The mouse reports its state.  QEMU's odd packets carry a mark, and what is in them is
\* left to the packet that follows.
Report(buttons, x, y, z, odd) ==
  /\ packets < MaxPackets /\ packets' = packets + 1 /\ wire = <<>>
  /\ id # 4 => buttons \subseteq 0 .. 2 /\ ~odd
  /\ id = 0 => z = 0
  /\ wire' = Packet(buttons, x, y, z, odd)
  /\ due' = IF odd THEN <<>> ELSE Happened(buttons, x, y, z)
  /\ reported' = IF odd THEN reported ELSE buttons
  /\ UNCHANGED <<id, driver, main, lost>>

Lose ==
  /\ lost < MaxLost /\ wire # <<>>
  /\ wire' = Tail(wire) /\ lost' = lost + 1
  /\ UNCHANGED <<id, reported, driver, main, due, packets>>

-----------------------------------------------------------------------------
(* ps2_mouse_new_byte, in the interrupt *)

PacketSize == IF id = 0 THEN 3 ELSE 4

SameSign(p, byte, signBit) == p[byte] - 256 * Bit(p[1], 4)           \* mutant
Relative(p, byte, signBit) == p[byte] - 256 * Bit(p[1], signBit)

Scroll(p) == IF id = 0 THEN 0 ELSE (p[4] % 16) - 16 * Bit(p[4], 3)

Mask(p) ==
  {i \in 0 .. 2 : Bit(p[1], i) = 1}
    \cup IF id = 4 THEN {i \in {3, 4} : Bit(p[4], i + 1) = 1} ELSE {}

NewEvents(p) ==
  LET x == Relative(p, 2, 4)
      y == Relative(p, 3, 5)
  IN Changes(button_mask, Mask(p))
     \o Maybe(x # 0 \/ y # 0, MoveEvent(x, y)) \o Maybe(Scroll(p) # 0, ScrollEvent(Scroll(p)))

MakeRoom(n) ==
  LET full == len + n >= QueueSize IN
  /\ tail' = IF full THEN (tail + n) % QueueSize ELSE tail
  /\ len' = (IF full THEN len - n ELSE len) + n

Enqueue(events) ==
  LET n == Len(events) IN
  /\ MakeRoom(n)
  /\ queue' = [i \in Slots |-> LET k == ((i - head) % QueueSize) + 1 IN
                               IF k \in 1 .. n THEN events[k] ELSE queue[i]]
  /\ head' = (head + n) % QueueSize

KeepsMask(p) == button_mask                                          \* mutant
NewMask(p) == Mask(p)

NewByte(byte) ==
  LET p == Append(byte_buffer, byte) IN
  CASE Bit(p[1], 3) = 0      -> byte_buffer' = <<>> /\ UNCHANGED <<ring, button_mask>>
    [] Bit(p[1], 3) = 1 /\ Len(p) # PacketSize
                             -> byte_buffer' = p /\ UNCHANGED <<ring, button_mask>>
    [] OTHER -> /\ byte_buffer' = <<>>
                /\ IF id = 4 /\ p[4] >= 64
                     THEN UNCHANGED <<ring, button_mask>>
                     ELSE Enqueue(NewEvents(p)) /\ button_mask' = NewMask(p)

Irq12 ==
  /\ enabled /\ wire # <<>>
  /\ wire' = Tail(wire) /\ NewByte(Head(wire))
  /\ UNCHANGED <<id, reported, main, due, packets, lost>>

-----------------------------------------------------------------------------
(* ps2_get_mouse_event, in the main thread, with interrupts between its steps *)

StaysEnabled == pc = "idle" /\ pc' = "look" /\ UNCHANGED enabled     \* mutant
EnterCritical == pc = "idle" /\ pc' = "look" /\ enabled' = FALSE
Enter == EnterCritical /\ UNCHANGED <<id, wire, reported, driver, out, due, packets, lost>>

Empty ==
  /\ pc = "look" /\ len = 0
  /\ pc' = "idle" /\ out' = NONE /\ enabled' = TRUE
  /\ UNCHANGED <<id, wire, reported, driver, due, packets, lost>>

Copy ==
  /\ pc = "look" /\ len # 0
  /\ out' = queue[tail] /\ pc' = "drop"
  /\ UNCHANGED <<id, wire, reported, driver, enabled, due, packets, lost>>

Drop ==
  /\ pc = "drop"
  /\ tail' = (tail + 1) % QueueSize /\ len' = len - 1
  /\ pc' = "idle" /\ enabled' = TRUE
  /\ UNCHANGED <<id, wire, reported, byte_buffer, queue, head, button_mask, out, due, packets, lost>>

GetMouseEvent == Enter \/ Empty \/ Copy \/ Drop

Next ==
  \/ \E buttons \in SUBSET Buttons, m \in Moves, z \in Wheel, odd \in BOOLEAN :
       Report(buttons, m[1], m[2], z, odd)
  \/ Lose \/ Irq12 \/ GetMouseEvent
Spec == Init /\ [][Next]_vars
-----------------------------------------------------------------------------
(* Properties *)

\* Each packet leaves fewer bytes than make one, and the ring, which gives way to as many
\* events as come, never holds fewer than none or as many as it has slots.
TypeOK ==
  /\ byte_buffer \in Seq(0 .. 255) /\ Len(byte_buffer) < PacketSize
  /\ head \in Slots /\ tail \in Slots /\ len \in 0 .. QueueSize - 1
  /\ head = (tail + len) % QueueSize
  /\ button_mask \subseteq 0 .. 4 /\ reported \subseteq Buttons
  /\ pc \in {"idle", "look", "drop"} /\ enabled \in BOOLEAN

Entries == [i \in 1 .. len |-> queue[(tail + i - 1) % QueueSize]]

\* A packet that came whole is decoded to exactly what happened to the mouse, signs and
\* extra buttons included, and that is the end of the ring.
EventsMatchMotion ==
  [][Irq12 /\ wire' = <<>> /\ lost = 0 =>
       LET entries == Entries' IN
       /\ Len(entries) >= Len(due) /\ SubSeq(entries, Len(entries) - Len(due) + 1, Len(entries)) = due
       /\ button_mask' = reported]_vars

\* In the ring each button is pressed and released in turn, and was last put where
\* button_mask has it, however packets were torn by lost bytes or events dropped.  The
\* variables keep their types.
SameButton(e, f) == e.type = "button" /\ f.type = "button" /\ e.button = f.button
Alternates(es, mask) ==
  \A k \in DOMAIN es : es[k].type = "button" =>
    LET elsewhere(from, to) == \A n \in from .. to : ~SameButton(es[n], es[k]) IN
    /\ elsewhere(k + 1, Len(es)) => (es[k].pressed <=> es[k].button \in mask)
    /\ \A j \in k + 1 .. Len(es) : SameButton(es[j], es[k]) /\ elsewhere(k + 1, j - 1) =>
         (es[j].pressed <=> ~es[k].pressed)
ButtonsAlternate == TypeOK /\ Alternates(Entries, button_mask)

\* To its reader the ring is a queue that drops its oldest events, as many as come.
MouseEvent == [type : {"button"}, button : 0 .. 4, pressed : BOOLEAN]
             \cup [type : {"move"}, rel_x : -256 .. 255, rel_y : -256 .. 255]
             \cup [type : {"scroll"}, value : -8 .. 7]
Abstract == INSTANCE DropOldestQueue WITH
  Events <- MouseEvent, Size <- QueueSize - 1, Batch <- 7, None <- NONE,
  q <- IF pc = "drop" THEN Tail(Entries) ELSE Entries
ImplementsQueue == Abstract!Spec
=============================================================================
