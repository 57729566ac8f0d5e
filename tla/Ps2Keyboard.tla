---------------------------- MODULE Ps2Keyboard ----------------------------
(* drivers/ps2_keyboard.c once scanning is enabled: the keyboard sends scan    *)
(* codes, the IRQ1 handler gathers their bytes, tracks the modifiers and puts  *)
(* key events in a ring, and the main thread takes them with                   *)
(* ps2_get_key_event, whose critical section keeps the handler out.            *)
(* A scan code is E0? F0? code; codes keep the names of their hexadecimal      *)
(* value.  The byte OVR stands for 00 and FF, which the keyboard sends in      *)
(* place of a scan code when its own buffer is full.                           *)
EXTENDS Integers, SequencesExt

CONSTANTS Keys,       \* the keys pressed: records [ext |-> BOOLEAN, code |-> STRING]
          QueueSize,  \* PS2_EVENT_QUEUE_SIZE
          WireSize,   \* bytes the keyboard buffers before it reports an overrun
          MaxSent     \* bound on key presses and releases

ASSUME QueueSizeAssumption == QueueSize \in Nat \ {0}
KeyNames == {"LeftShift", "RightShift", "LeftCtrl", "RightCtrl", "CapsLock", "1", "ExclamationMark"}
\* Codes are bytes other than the prefixes and 00 and FF, and not names of keys.
ASSUME KeysAssumption ==
  Keys \subseteq [ext : BOOLEAN, code : STRING \ ({"E0", "F0", "OVR"} \cup KeyNames)]

VARIABLES
  held, wire,                \* the keyboard: keys down, bytes not yet read
  byte_buffer,               \* ps2_device_t, the bytes of the scan code so far
  queue, head, tail, len,    \* ps2_device_t, the event ring
  modifiers,                 \* keyboard_info.modifiers
  pc, enabled, out,          \* main thread: place in ps2_get_key_event, IF, *out
  sent, done                 \* auxiliary: scan codes sent, how many were handled

driver == <<byte_buffer, queue, head, tail, len, modifiers>>
main == <<pc, enabled, out>>
vars == <<held, wire, driver, main, sent, done>>

NONE == [key |-> "KEY_NONE", modifiers |-> {}]
Slots == 0 .. QueueSize - 1

Init ==
  /\ held = {} /\ wire = <<>> /\ byte_buffer = <<>>
  /\ queue = [i \in Slots |-> NONE] /\ head = 0 /\ tail = 0 /\ len = 0
  /\ modifiers = {}
  /\ pc = "idle" /\ enabled = TRUE /\ out = NONE
  /\ sent = <<>> /\ done = 0

-----------------------------------------------------------------------------
(* The keyboard *)

OVR == [ext |-> FALSE, code |-> "OVR", released |-> FALSE]
Bytes(c) ==
  (IF c.ext THEN <<"E0">> ELSE <<>>) \o (IF c.released THEN <<"F0">> ELSE <<>>) \o <<c.code>>

\* A key is pressed, repeats or is released; without room an overrun is reported once.
Key(k, released) ==
  LET c == [ext |-> k.ext, code |-> k.code, released |-> released] IN
  /\ Len(sent) < MaxSent
  /\ released => k \in held
  /\ held' = IF released THEN held \ {k} ELSE held \cup {k}
  /\ LET item == IF Len(wire) + Len(Bytes(c)) <= WireSize THEN c ELSE OVR IN
     IF item = OVR /\ wire # <<>> /\ Last(wire) = "OVR"
       THEN UNCHANGED <<wire, sent>>
       ELSE wire' = wire \o Bytes(item) /\ sent' = Append(sent, item)
  /\ UNCHANGED <<driver, main, done>>

-----------------------------------------------------------------------------
(* ps2_keyboard_new_byte, in the interrupt *)

\* The keymaps, for the keys that matter here: modifiers, a key that SHIFT changes, and
\* any other key.
Keymap(ext, shifted, code) ==
  CASE code = "12" /\ ~ext -> "LeftShift"
    [] code = "59" /\ ~ext -> "RightShift"
    [] code = "14" /\ ~ext -> "LeftCtrl"
    [] code = "14" /\ ext  -> "RightCtrl"
    [] code = "58" /\ ~ext -> "CapsLock"
    [] code = "16" /\ ~ext -> IF shifted THEN "ExclamationMark" ELSE "1"
    [] OTHER -> code

ShiftStays(key, released) ==                                         \* mutant
  CASE key \in {"LeftShift", "RightShift"} -> modifiers \cup {"SHIFT"}
    [] OTHER -> modifiers
NewModifiers(key, released) ==
  LET set(flag) == IF released THEN modifiers \ {flag} ELSE modifiers \cup {flag} IN
  CASE key \in {"LeftShift", "RightShift"} -> set("SHIFT")
    [] key \in {"LeftCtrl", "RightCtrl"} -> set("CONTROL")
    [] key = "CapsLock" /\ ~released -> IF "CAPS_LOCK" \in modifiers
                                          THEN modifiers \ {"CAPS_LOCK"}
                                          ELSE modifiers \cup {"CAPS_LOCK"}
    [] OTHER -> modifiers

Enqueue(event) ==
  LET full == len >= QueueSize IN
  /\ tail' = IF full THEN (tail + 1) % QueueSize ELSE tail
  /\ queue' = [queue EXCEPT ![head] = event]
  /\ head' = (head + 1) % QueueSize
  /\ len' = (IF full THEN len - 1 ELSE len) + 1

\* The scan code in buf is complete: make its event.
Decode(buf) ==
  LET extended == buf[1] = "E0"
      rest == IF extended THEN Tail(buf) ELSE buf
      released == rest # <<>> /\ rest[1] = "F0"
      code == IF released THEN Tail(rest) ELSE rest
  IN IF Len(code) # 1
       THEN UNCHANGED <<queue, head, tail, len, modifiers>>
       ELSE LET mods == modifiers \cup (IF released THEN {"RELEASED"} ELSE {})
                key == Keymap(extended, "SHIFT" \in mods, code[1])
            IN  /\ Enqueue([key |-> key, modifiers |-> mods])
                /\ modifiers' = NewModifiers(key, released)

ExtendedOnly(byte) == byte = "E0"                                    \* mutant
Prefix(byte) == byte \in {"E0", "F0"}

NewByte(byte) ==
  LET buf == Append(byte_buffer, byte) IN
  IF Prefix(byte)
    THEN byte_buffer' = buf /\ UNCHANGED <<queue, head, tail, len, modifiers, done>>
    ELSE /\ byte_buffer' = <<>> /\ done' = done + 1
         /\ IF byte = "OVR" \/ Len(buf) > 3
              THEN UNCHANGED <<queue, head, tail, len, modifiers>>
              ELSE Decode(buf)

Irq1 ==
  /\ enabled /\ wire # <<>>
  /\ wire' = Tail(wire) /\ NewByte(Head(wire))
  /\ UNCHANGED <<held, main, sent>>

-----------------------------------------------------------------------------
(* ps2_get_key_event, in the main thread, with interrupts between its steps *)

StaysEnabled == pc = "idle" /\ pc' = "look" /\ UNCHANGED enabled     \* mutant
EnterCritical == pc = "idle" /\ pc' = "look" /\ enabled' = FALSE
Enter == EnterCritical /\ UNCHANGED <<held, wire, driver, out, sent, done>>

ForgetsToLeave == UNCHANGED enabled                                  \* mutant
LeaveEmpty == enabled' = TRUE
Empty ==
  /\ pc = "look" /\ len = 0
  /\ pc' = "idle" /\ out' = NONE /\ LeaveEmpty
  /\ UNCHANGED <<held, wire, driver, sent, done>>

Copy ==
  /\ pc = "look" /\ len # 0
  /\ out' = queue[tail] /\ pc' = "drop"
  /\ UNCHANGED <<held, wire, driver, enabled, sent, done>>

Drop ==
  /\ pc = "drop"
  /\ tail' = (tail + 1) % QueueSize /\ len' = len - 1
  /\ pc' = "idle" /\ enabled' = TRUE
  /\ UNCHANGED <<held, wire, byte_buffer, queue, head, modifiers, out, sent, done>>

GetKeyEvent == Enter \/ Empty \/ Copy \/ Drop

Next == (\E k \in Keys, released \in BOOLEAN : Key(k, released)) \/ Irq1 \/ GetKeyEvent
Spec == Init /\ [][Next]_vars
\* A byte on the wire raises IRQ1 until it is read; the shell polls for events.
FairSpec == Spec /\ SF_vars(Irq1) /\ WF_vars(GetKeyEvent)
-----------------------------------------------------------------------------
(* Properties *)

Modifiers == {"SHIFT", "CONTROL", "CAPS_LOCK"}
EventMods == SUBSET (Modifiers \cup {"RELEASED"})

\* The scan code being gathered never outgrows three bytes of byte_buffer[32].
TypeOK ==
  /\ byte_buffer \in BoundedSeq({"E0", "F0"}, 2)
  /\ \A i \in Slots : queue[i].modifiers \in EventMods
  /\ head \in Slots /\ tail \in Slots /\ len \in 0 .. QueueSize
  /\ modifiers \subseteq Modifiers
  /\ pc \in {"idle", "look", "drop"} /\ enabled \in BOOLEAN
  /\ done \in 0 .. Len(sent)

\* Each scan code handled becomes one event, with its key and whether it was a release,
\* in the ring's newest entry; an overrun becomes none.
EventOf(c, mods) ==
  [key |-> Keymap(c.ext, "SHIFT" \in mods, c.code),
   modifiers |-> mods \cup (IF c.released THEN {"RELEASED"} ELSE {})]
EventsMatchScanCodes ==
  [][done' # done =>
       LET c == sent[done'] IN
       IF c = OVR THEN UNCHANGED <<queue, head, tail, len>>
       ELSE head' = (head + 1) % QueueSize /\ queue'[head] = EventOf(c, modifiers)]_vars

\* Two keys of a kind share a flag, and it is what the latest scan code of the kind said.
\* So, however often a key is pressed, repeats and is released: SHIFT and CONTROL are never
\* reported without such a key being down; and a key that is down is reported, unless the
\* other key of its kind was released after it was pressed, which takes the flag with it.
\* Down is what the scan codes handled so far say; when all are handled and none was lost
\* to an overrun, it is the keys held.  The variables keep their types.
IsOf(c, k) == c.ext = k.ext /\ c.code = k.code
DownSince(i, k) ==
  /\ IsOf(sent[i], k) /\ ~sent[i].released
  /\ \A j \in i + 1 .. done : IsOf(sent[j], k) => ~sent[j].released
Down(kind) == {k \in kind : \E i \in 1 .. done : DownSince(i, k)}
Shifts == {[ext |-> FALSE, code |-> "12"], [ext |-> FALSE, code |-> "59"]}
Ctrls == {[ext |-> FALSE, code |-> "14"], [ext |-> TRUE, code |-> "14"]}
Follows(flag, kind) ==
  /\ flag \in modifiers => Down(kind) # {}
  /\ \A k \in kind, i \in 1 .. done :
       DownSince(i, k) =>
         \/ flag \in modifiers
         \/ \E j \in i + 1 .. done, other \in kind \ {k} : IsOf(sent[j], other) /\ sent[j].released
  /\ done = Len(sent) /\ (\A i \in 1 .. done : sent[i] # OVR) => Down(kind) = kind \cap held
ModifiersFollowKeys == TypeOK /\ Follows("SHIFT", Shifts) /\ Follows("CONTROL", Ctrls)

\* To its reader the ring is a queue that drops its oldest events: what is read is read
\* whole, once and in order, whenever the interrupt comes.
Codes == {k.code : k \in Keys}
Event == [key : Codes \cup KeyNames,
          modifiers : EventMods]
Entries == [i \in 1 .. len |-> queue[(tail + i - 1) % QueueSize]]
Abstract == INSTANCE DropOldestQueue WITH
  Events <- Event, Size <- QueueSize, Batch <- 1, None <- NONE,
  q <- IF pc = "drop" THEN Tail(Entries) ELSE Entries
ImplementsQueue == Abstract!Spec

\* When the keys rest, every byte gets handled and every event taken: the critical
\* section is always left.
AllHandled == <>[](wire = <<>> /\ len = 0)
=============================================================================
