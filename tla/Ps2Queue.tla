------------------------------ MODULE Ps2Queue ------------------------------
(* The command queue of drivers/ps2.c and the mouse handshake that feeds it.  *)
(* Init is the state at the end of ps2_init: the commands that set up both    *)
(* devices are queued and interrupts are on.  The main thread then starts the *)
(* queue (ps2_update_command_queue); from there on each answer's interrupt    *)
(* sends the next byte.  The handler runs with interrupts off, so it is one   *)
(* step; the main thread is preempted anywhere outside its critical section.  *)
EXTENDS Integers, SequencesExt

CONSTANTS
  Setups,      \* what may be on port 0 and on port 1: functions to "keyboard", "mouse", "none"
  Extensions,  \* the best ids a mouse may have: a subset of {"00", "03", "04"}
  QueueSize,   \* PS2_COMMAND_QUEUE_SIZE
  MaxInput,    \* bound on the input packets (or keys) of each device
  MaxResends,  \* bound on the times a device asks for a byte again
  MaxLost      \* bound on the times a device does not answer

Ports == {0, 1}

\* PS2_COMMAND_QUEUE_SIZE is 32; two mice need twenty entries, and one stays free.
ASSUME QueueSizeAssumption == QueueSize \in Nat /\ QueueSize > 20
ASSUME SetupsAssumption == Setups \subseteq [Ports -> {"keyboard", "mouse", "none"}]
ASSUME ExtensionsAssumption == Extensions \subseteq {"00", "03", "04"}

VARIABLES
  types,                     \* what was found on the ports
  slots, read, write,        \* s_command_queue and its indices
  enabled, id, byte_buffer,  \* by device: mouse_info, and the bytes gathered
  events,                    \* by device: the packets or keys handed on
  pc,                        \* the main thread in ps2_update_command_queue
  inbox, wire,               \* by device: bytes from the host, bytes to the host
  accepted,                  \* by device: the bytes it acknowledged
  scanning, cap, rates, mode,\* by device: reports on?; a mouse's best id, last rates, its id
  inputs, resends, lost      \* what the environment did: packets by device, and faults

queue == <<slots, read, write>>
driver == <<enabled, id, byte_buffer, events>>
devices == <<types, scanning, cap, rates, mode>>
counters == <<inputs, resends, lost>>
vars == <<queue, driver, pc, inbox, wire, accepted, devices, counters>>

ACK == "FA"
RESEND == "FE"

\* A queued command: its bytes, how many were acknowledged, the answer bytes to come.
NewCommand(d, data, data_size, resp_size) ==
  [device |-> d, data |-> data, data_size |-> data_size, data_sent |-> 0,
   resp_size |-> resp_size, state |-> "NORMAL"]
Command(d, byte, resp_size) == NewCommand(d, <<byte, "00">>, 1, resp_size)
WithData(d, byte0, byte1) == NewCommand(d, <<byte0, byte1>>, 2, 0)

Rate(d, r) == WithData(d, "F3", r)
Magic(d, r) == <<Rate(d, "200"), Rate(d, r), Rate(d, "80"), Command(d, "F2", 1)>>
Finish(d) == <<Rate(d, "100"), Command(d, "F4", 0)>>
InitKeyboard(d) == <<WithData(d, "ED", "00"), WithData(d, "F0", "02"), Command(d, "F4", 0)>>
InitCommands(type, d) ==
  CASE type = "keyboard" -> InitKeyboard(d)
    [] type = "mouse" -> Magic(d, "100")
    [] OTHER -> <<>>

\* ps2_device_append_command_queue, once for each of cmds: a full ring ignores the rest.  It
\* is full when write is one behind read, and read may be past the end.
Room(q) == IF q.read = QueueSize THEN QueueSize ELSE (q.read - q.write - 1) % QueueSize
Appended(q, cmds) ==
  LET n == IF Len(cmds) <= Room(q) THEN Len(cmds) ELSE Room(q)
      place(i) == ((i - q.write) % QueueSize) + 1
  IN [slots |-> [i \in 0 .. QueueSize |->
                   IF i < QueueSize /\ place(i) <= n THEN cmds[place(i)] ELSE q.slots[i]],
      read |-> q.read, write |-> (q.write + n) % QueueSize]

\* slots[QueueSize] stands for whatever lies behind the ring: read++ does not wrap.
EmptyQueue == [slots |-> [i \in 0 .. QueueSize |-> [Command(0, "00", 0) EXCEPT !.state = "UNUSED"]],
               read |-> 0, write |-> 0]

Init ==
  /\ types \in Setups
  /\ LET q == Appended(EmptyQueue, InitCommands(types[0], 0) \o InitCommands(types[1], 1))
     IN slots = q.slots /\ read = 0 /\ write = q.write
  /\ enabled = [d \in Ports |-> FALSE] /\ id = [d \in Ports |-> "FF"]
  /\ byte_buffer = [d \in Ports |-> <<>>] /\ events = [d \in Ports |-> <<>>]
  /\ pc = "look"
  /\ inbox = [d \in Ports |-> <<>>] /\ wire = [d \in Ports |-> <<>>]
  /\ accepted = [d \in Ports |-> <<>>]
  /\ scanning = [d \in Ports |-> FALSE] /\ rates = [d \in Ports |-> <<>>]
  /\ cap \in {c \in [Ports -> Extensions \cup {"00"}] :
                \A d \in Ports : IF types[d] = "mouse" THEN c[d] \in Extensions ELSE c[d] = "00"}
  /\ mode = [d \in Ports |-> "00"]
  /\ inputs = [d \in Ports |-> 0] /\ resends = 0 /\ lost = 0

-----------------------------------------------------------------------------
(* The interrupt handler: ps2_irq_handler, the device's callback, and at its  *)
(* end ps2_update_command_queue.  Sending there cannot time out: the clock    *)
(* stands still, and the controller takes the byte.                           *)

SendsInAnyState(q) == q.read # q.write                               \* mutant
MaySend(q) == q.read # q.write /\ q.slots[q.read].state = "NORMAL"

Update(q) ==
  LET c == q.slots[q.read] IN
  /\ read' = q.read /\ write' = q.write
  /\ IF MaySend(q)
       THEN /\ slots' = [q.slots EXCEPT ![q.read].state = "WAIT_ACK"]
            /\ inbox' = [inbox EXCEPT ![c.device] = Append(@, c.data[c.data_sent + 1])]
       ELSE slots' = q.slots /\ UNCHANGED inbox

\* ps2_mouse_initialize_extensions: the mouse told its id.
AlwaysAsksAgain(d, byte) == byte = "03"                              \* mutant
AsksAgain(d, byte) == byte = "03" /\ id[d] # "03"

MouseIdentified(d, byte, q) ==
  LET more == IF AsksAgain(d, byte) THEN Magic(d, "200")
              ELSE Finish(d) IN
  /\ id' = [id EXCEPT ![d] = IF byte \in {"03", "04"} THEN byte ELSE "00"]
  /\ enabled' = [enabled EXCEPT ![d] = ~AsksAgain(d, byte)]
  /\ Update(Appended(q, more))
  /\ UNCHANGED <<byte_buffer, events>>

\* ps2_mouse_new_byte and ps2_keyboard_new_byte, as far as packets are framed: a mouse
\* packet begins with a byte that has bit 3 set ("p0") and has 3 bytes, or 4 extended.
PacketSize(d) == IF id[d] = "00" THEN 3 ELSE 4

InputByte(d, byte) ==
  LET buf == Append(byte_buffer[d], byte)
      complete == types[d] = "keyboard" \/ Len(buf) = PacketSize(d)
      corrupted == types[d] = "mouse" /\ buf[1] # "p0"
  IN /\ byte_buffer' = [byte_buffer EXCEPT ![d] = IF corrupted \/ complete THEN <<>> ELSE buf]
     /\ events' = [events EXCEPT ![d] = IF ~corrupted /\ complete THEN Append(@, buf) ELSE @]
     /\ UNCHANGED <<enabled, id>>

ToDevice(d, byte, q) ==
  IF types[d] = "mouse" /\ ~enabled[d]
    THEN MouseIdentified(d, byte, q)
    ELSE InputByte(d, byte) /\ Update(q)

AnyDevice(c, d) == TRUE                                              \* mutant
ForDevice(c, d) == c.device = d
Ignored(c) == c                                                      \* mutant
Resend(c) == [c EXCEPT !.state = "NORMAL"]

IrqHandler(d) ==
  LET byte == Head(wire[d])
      c == slots[read]
      sent == c.data_sent + 1
      with(cmd) == [slots |-> [slots EXCEPT ![read] = cmd], read |-> read, write |-> write]
      popped(cmd) == [with(cmd) EXCEPT !.read = read + 1]
      handle == read # write /\ ForDevice(c, d) /\ c.state # "NORMAL"
  IN
  /\ wire[d] # <<>>
  /\ wire' = [wire EXCEPT ![d] = Tail(@)]
  /\ \/ /\ handle /\ c.state = "WAIT_ACK"
        /\ CASE byte = ACK ->
                  IF sent < c.data_size
                    THEN Update(with([c EXCEPT !.data_sent = sent, !.state = "NORMAL"]))
                  ELSE IF c.resp_size > 0
                    THEN Update(with([c EXCEPT !.data_sent = sent, !.state = "WAIT_RESP"]))
                    ELSE Update(popped([c EXCEPT !.data_sent = sent]))
             [] byte = RESEND -> Update(with(Resend(c)))
             [] OTHER -> Update(with(c))
        /\ UNCHANGED driver
     \/ /\ handle /\ c.state = "WAIT_RESP"
        /\ LET left == [c EXCEPT !.resp_size = @ - 1] IN
           IF left.resp_size <= 0
             THEN ToDevice(d, byte, popped(left))
             ELSE Update(with(left)) /\ UNCHANGED driver
     \/ ~handle /\ ToDevice(d, byte, with(c))
  /\ UNCHANGED <<pc, accepted, devices, counters>>

-----------------------------------------------------------------------------
(* The main thread: ps2_update_command_queue at the end of ps2_init.          *)

Look ==
  /\ pc = "look"
  /\ pc' = IF read # write /\ slots[read].state = "NORMAL" THEN "mark" ELSE "done"
  /\ UNCHANGED <<queue, driver, inbox, wire, accepted, devices, counters>>

Mark ==
  /\ pc = "mark"
  /\ pc' = "send"
  /\ slots' = [slots EXCEPT ![read].state = "WAIT_ACK"]
  /\ UNCHANGED <<read, write, driver, inbox, wire, accepted, devices, counters>>

\* For port 1 the controller is told first; nothing else writes to it meanwhile.
Send ==
  /\ pc = "send"
  /\ LET c == slots[read] IN
     inbox' = [inbox EXCEPT ![c.device] = Append(@, c.data[c.data_sent + 1])]
  /\ pc' = "done"
  /\ UNCHANGED <<queue, driver, wire, accepted, devices, counters>>

\* The controller takes no byte for 100 ms.
SendTimeout ==
  /\ pc = "send" /\ lost < MaxLost
  /\ lost' = lost + 1
  /\ slots' = [slots EXCEPT ![read].state = "NORMAL"]
  /\ pc' = "done"
  /\ UNCHANGED <<read, write, driver, inbox, wire, accepted, devices, inputs, resends>>

-----------------------------------------------------------------------------
(* The devices *)

\* A mouse changes its id when the last three rates are the magic ones.
NewMode(d, r) ==
  CASE r = <<"200", "100", "80">> /\ cap[d] \in {"03", "04"} -> "03"
    [] r = <<"200", "200", "80">> /\ cap[d] = "04" -> "04"
    [] OTHER -> mode[d]

Answer(d) ==
  LET byte == Head(inbox[d])
      param == accepted[d] # <<>> /\ Last(accepted[d]) \in {"F3", "ED", "F0"}
      isRate == param /\ Last(accepted[d]) = "F3"
      last3 == LET all == Append(rates[d], byte) IN IF Len(all) > 3 THEN Tail(all) ELSE all
      ident == ~param /\ byte = "F2"
  IN
  /\ inbox[d] # <<>>
  /\ inbox' = [inbox EXCEPT ![d] = Tail(@)]
  /\ accepted' = [accepted EXCEPT ![d] = Append(@, byte)]
  /\ wire' = [wire EXCEPT ![d] = @ \o IF ident THEN <<ACK, mode[d]>> ELSE <<ACK>>]
  /\ scanning' = [scanning EXCEPT ![d] = @ \/ (~param /\ byte = "F4")]
  /\ rates' = IF isRate THEN [rates EXCEPT ![d] = last3] ELSE rates
  /\ mode' = IF isRate THEN [mode EXCEPT ![d] = NewMode(d, last3)] ELSE mode
  /\ UNCHANGED <<queue, driver, pc, types, cap, counters>>

AskAgain(d) ==
  /\ inbox[d] # <<>> /\ resends < MaxResends
  /\ resends' = resends + 1
  /\ inbox' = [inbox EXCEPT ![d] = Tail(@)]
  /\ wire' = [wire EXCEPT ![d] = Append(@, RESEND)]
  /\ UNCHANGED <<queue, driver, pc, accepted, devices, inputs, lost>>

StaySilent(d) ==
  /\ inbox[d] # <<>> /\ lost < MaxLost
  /\ lost' = lost + 1
  /\ inbox' = [inbox EXCEPT ![d] = Tail(@)]
  /\ UNCHANGED <<queue, driver, pc, wire, accepted, devices, inputs, resends>>

Packet(d) ==
  IF types[d] = "keyboard" THEN <<"key">>
  ELSE <<"p0", "p1", "p2">> \o (IF mode[d] = "00" THEN <<>> ELSE <<"p3">>)
Input(d) ==
  /\ scanning[d] /\ inputs[d] < MaxInput
  /\ inputs' = [inputs EXCEPT ![d] = @ + 1]
  /\ wire' = [wire EXCEPT ![d] = @ \o Packet(d)]
  /\ UNCHANGED <<queue, driver, pc, inbox, accepted, devices, resends, lost>>

Main == Look \/ Mark \/ Send \/ SendTimeout
Next ==
  \/ Main
  \/ \E d \in Ports : IrqHandler(d) \/ Answer(d) \/ AskAgain(d) \/ StaySilent(d) \/ Input(d)
Spec == Init /\ [][Next]_vars
\* Interrupts are taken, the main thread runs, and a device answers in the end.
FairSpec ==
  Spec /\ WF_vars(Main) /\ \A d \in Ports : WF_vars(IrqHandler(d)) /\ WF_vars(Answer(d))

-----------------------------------------------------------------------------
(* Properties *)

Bytes == {"ED", "F0", "F2", "F3", "F4", "00", "02", "80", "100", "200"}
Ids == {"00", "03", "04"}
InputBytes == {"key", "p0", "p1", "p2", "p3"}

\* Types and ranges, for the ring, the driver's mouse state and both devices: in
\* particular a mouse's partial packet is always shorter than a whole one.
TypeOK ==
  /\ types \in Setups
  /\ \A i \in DOMAIN slots :
       /\ slots[i].device \in Ports /\ slots[i].data \in [1 .. 2 -> Bytes]
       /\ slots[i].data_size \in 1 .. 2 /\ slots[i].data_sent \in 0 .. slots[i].data_size
       /\ slots[i].resp_size \in 0 .. 1
       /\ slots[i].state \in {"NORMAL", "WAIT_ACK", "WAIT_RESP", "UNUSED"}
  /\ read \in 0 .. QueueSize /\ write \in 0 .. QueueSize - 1
  /\ pc \in {"look", "mark", "send", "done"}
  /\ \A d \in Ports :
       /\ enabled[d] \in BOOLEAN /\ id[d] \in Ids \cup {"FF"} /\ mode[d] \in Ids
       /\ Range(inbox[d]) \subseteq Bytes
       /\ Range(wire[d]) \subseteq {ACK, RESEND} \cup Ids \cup InputBytes
       /\ Range(byte_buffer[d]) \subseteq InputBytes /\ Len(byte_buffer[d]) <= 3

\* read is advanced without a wrap where write wraps (ps2.c:214,221 against 158): the
\* setup of two devices must never use the whole ring, nor meet a full one.
RingNeverWraps == read <= write /\ write < QueueSize

\* The ring never wraps; a command byte is on its way, or its answer is, only while its
\* command waits, and no other byte is: the devices answer in lock step with the queue, and
\* an answer comes before all input of its device.
AnswersAt(d) == {i \in DOMAIN wire[d] : wire[d][i] \notin InputBytes}
Outstanding(d) == inbox[d] # <<>> \/ AnswersAt(d) # {}
OneOutstanding ==
  TypeOK /\ RingNeverWraps /\ \A d \in Ports : Outstanding(d) =>
    /\ read # write /\ slots[read].device = d
    /\ slots[read].state \in {"WAIT_ACK", "WAIT_RESP"}
    /\ Len(inbox[d]) <= 1 /\ (inbox[d] # <<>> => AnswersAt(d) = {})
    /\ AnswersAt(d) \subseteq 1 .. 1 + slots[read].resp_size
    /\ ~Outstanding(1 - d)

\* Whatever is resent or lost, each device accepts its setup once and in order: what
\* ps2_init_keyboard sends, or the rates a mouse's extensions ask for until its id shows them.
Program(d) ==
  IF types[d] = "keyboard" THEN <<"ED", "00", "F0", "02", "F4">>
  ELSE IF types[d] = "none" THEN <<>>
  ELSE IF cap[d] = "00" THEN <<"F3", "200", "F3", "100", "F3", "80", "F2", "F3", "100", "F4">>
  ELSE <<"F3", "200", "F3", "100", "F3", "80", "F2", "F3", "200", "F3", "200", "F3", "80", "F2",
         "F3", "100", "F4">>
CommandsInOrder == \A d \in Ports : IsPrefix(accepted[d], Program(d))

\* No input is lost, taken for an answer or cut up: what was handed on are packets of the
\* device, each of the size it now sends; and what is gathered, with what is on the wire behind
\* the answers, are the rest of them, byte after byte.
InputIntact ==
  \A d \in Ports :
    LET size == Len(Packet(d))
        gathered == byte_buffer[d] \o SubSeq(wire[d], Cardinality(AnswersAt(d)) + 1, Len(wire[d]))
    IN /\ AnswersAt(d) = 1 .. Cardinality(AnswersAt(d))
       /\ \A i \in DOMAIN events[d] : events[d][i] = Packet(d)
       /\ Len(gathered) = (inputs[d] - Len(events[d])) * size
       /\ \A k \in DOMAIN gathered : gathered[k] = Packet(d)[((k - 1) % size) + 1]

\* When no byte and no answer is lost, the setup ends: every command was accepted, and
\* the driver knows the mouse's id.
SetUp == \A d \in Ports : accepted[d] = Program(d) /\ (types[d] = "mouse" => id[d] = cap[d])
SetupCompletes == [](lost = 0) => <>[](read = write /\ SetUp)
=============================================================================
