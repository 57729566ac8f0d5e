--------------------------- MODULE Ps2QueueProofs ---------------------------
(* Theorems about Ps2Queue, for any devices on the ports and any faults: the   *)
(* ring is large enough, the devices answer in lock step with it, each accepts *)
(* its setup in order, and its input is handed on whole.                       *)
EXTENDS Ps2Queue, SequenceTheorems, FiniteSetTheorems, TLAPS

Kinds == {"keyboard", "mouse", "none"}
States == {"NORMAL", "WAIT_ACK", "WAIT_RESP", "UNUSED"}
WireBytes == {ACK, RESEND} \cup Ids \cup InputBytes
CommandFields == [device : Ports, data : [1 .. 2 -> Bytes], data_size : 1 .. 2, data_sent : 0 .. 2,
                  resp_size : 0 .. 1, state : States]
Commands == {c \in CommandFields : c.data_sent <= c.data_size}

Types ==
  /\ types \in [Ports -> Kinds] /\ types \in Setups
  /\ slots \in [0 .. QueueSize -> Commands]
  /\ enabled \in [Ports -> BOOLEAN] /\ id \in [Ports -> Ids \cup {"FF"}]
  /\ byte_buffer \in [Ports -> Seq(InputBytes)]
  /\ pc \in {"look", "mark", "send", "done"}
  /\ inbox \in [Ports -> Seq(Bytes)] /\ wire \in [Ports -> Seq(WireBytes)]
  /\ scanning \in [Ports -> BOOLEAN] /\ mode \in [Ports -> Ids]

\* At most as many commands were queued as the setup of the devices takes so far.
Count(d) ==
  IF types[d] = "keyboard" THEN 3
  ELSE IF types[d] = "none" THEN 0
  ELSE IF enabled[d] THEN 10
  ELSE IF id[d] = "03" THEN 8 ELSE 4
Counted ==
  /\ read \in Nat /\ write \in Nat /\ read <= write /\ write <= Count(0) + Count(1)
  /\ \A d \in Ports : types[d] = "mouse" /\ ~enabled[d] => id[d] \in {"FF", "03"}

\* The commands that wait are those of the setup: what asks for the id, what turns the
\* reports on, and settings.
Identifies(c) == c.data_size = 1 /\ c.data[1] = "F2" /\ c.resp_size = 1
TurnsOn(c) == c.data_size = 1 /\ c.data[1] = "F4" /\ c.resp_size = 0
Sets(c) ==
  c.data_size = 2 /\ c.resp_size = 0 /\ c.data[1] \notin {"F2", "F4"} /\ c.data[2] \notin {"F2", "F4"}
Untouched(c) == c.state = "NORMAL" /\ c.data_sent = 0

\* What follows is said of any queue q = [slots, read, write], because a step of the handler
\* changes the queue first and then sends.  e, ib, wi and sc stand for enabled, inbox, wire
\* and scanning.
Now == [slots |-> slots, read |-> read, write |-> write]
Waiting(q) == q.read .. q.write - 1
LastOfDevice(q, i) == \A j \in i + 1 .. q.write - 1 : q.slots[j].device # q.slots[i].device

\* Before a mouse's id is known, and once its reports are on, nothing else is queued for it.
Queued(q, e, i) ==
  LET c == q.slots[i] IN
  /\ types[c.device] # "none"
  /\ \/ Sets(c)
     \/ Identifies(c) /\ types[c.device] = "mouse" /\ ~e[c.device] /\ LastOfDevice(q, i)
     \/ TurnsOn(c) /\ (types[c.device] = "mouse" => e[c.device]) /\ LastOfDevice(q, i)
  /\ i # q.read => Untouched(c)
  /\ i = q.read => c.state # "UNUSED" /\ (c.state # "WAIT_RESP" => c.data_sent < c.data_size)
QueueOK(q, e) == \A i \in Waiting(q) : Queued(q, e, i)

\* Where the bytes are.  The owner is the device whose command is at the head of the ring.
Owner(q, d) == q.read # q.write /\ q.slots[q.read].device = d
Quiet(ib, wi, d) == ib[d] = <<>> /\ \A k \in 1 .. Len(wi[d]) : wi[d][k] \in InputBytes
AckFirst(c, w) ==
  /\ w # <<>> /\ w[1] = ACK
  /\ \/ \A k \in 2 .. Len(w) : w[k] \in InputBytes
     \/ Identifies(c) /\ Len(w) = 2 /\ w[2] \in Ids
AwaitsAck(c, ib, wi, d) ==
  \/ ib[d] = <<c.data[c.data_sent + 1]>> /\ wi[d] = <<>>
  \/ ib[d] = <<>> /\ (wi[d] = <<>> \/ wi[d] = <<RESEND>> \/ AckFirst(c, wi[d]))
AwaitsId(c, ib, wi, d) ==
  /\ Identifies(c) /\ ib[d] = <<>>
  /\ wi[d] = <<>> \/ (Len(wi[d]) = 1 /\ wi[d][1] \in Ids)
InLock(q, ib, wi, d) ==
  LET c == q.slots[q.read] IN
  /\ ~Owner(q, d) \/ c.state = "NORMAL" => Quiet(ib, wi, d)
  /\ Owner(q, d) /\ c.state = "WAIT_ACK" => AwaitsAck(c, ib, wi, d)
  /\ Owner(q, d) /\ c.state = "WAIT_RESP" => AwaitsId(c, ib, wi, d)

\* Input comes from devices that accepted the last of their commands.
Reports(q, wi, e, sc, d) ==
  /\ (\E k \in 1 .. Len(wi[d]) : wi[d][k] \in InputBytes) => sc[d]
  /\ sc[d] =>
       /\ types[d] = "mouse" => e[d]
       /\ \A i \in Waiting(q) : q.slots[i].device = d =>
            /\ i = q.read /\ TurnsOn(q.slots[i]) /\ q.slots[i].state = "WAIT_ACK"
            /\ wi[d] # <<>> /\ wi[d][1] = ACK
Consistent(q, e, ib, wi, sc) ==
  QueueOK(q, e) /\ \A d \in Ports : InLock(q, ib, wi, d) /\ Reports(q, wi, e, sc, d)

\* A partial packet is there only once packets are framed.
Framed(d) ==
  /\ types[d] = "mouse" /\ ~enabled[d] => byte_buffer[d] = <<>>
  /\ types[d] = "keyboard" => byte_buffer[d] = <<>>
  /\ Len(byte_buffer[d]) < PacketSize(d)

\* Until the main thread has sent the first byte nothing happens.
Starting ==
  /\ pc # "done" => \A d \in Ports : inbox[d] = <<>> /\ wire[d] = <<>> /\ ~scanning[d]
  /\ pc = "look" => (read # write => slots[read].state = "NORMAL")
  /\ pc = "mark" => read # write /\ slots[read].state = "NORMAL"
  /\ pc = "send" => read # write /\ slots[read].state = "WAIT_ACK"

IInv ==
  /\ Types /\ Counted /\ Starting
  /\ Consistent(Now, enabled, inbox, wire, scanning)
  /\ \A d \in Ports : Framed(d)

-----------------------------------------------------------------------------
(* The ring *)

QueueType == [slots : [0 .. QueueSize -> Commands], read : Nat, write : Nat]

LEMMA Places ==
  ASSUME NEW w \in 0 .. QueueSize - 1, NEW i \in 0 .. QueueSize - 1
  PROVE  (i - w) % QueueSize = IF i >= w THEN i - w ELSE i - w + QueueSize
BY QueueSizeAssumption

LEMMA Fits ==
  ASSUME NEW r \in Nat, NEW w \in Nat, NEW n \in Nat, r <= w, w + n < QueueSize
  PROVE  (r - w - 1) % QueueSize >= n /\ (w + n) % QueueSize = w + n
<1>1. (r - w - 1) % QueueSize = r - w - 1 + QueueSize
  BY QueueSizeAssumption
<1>2. (w + n) % QueueSize = w + n
  BY QueueSizeAssumption
<1> QED
  BY <1>1, <1>2, QueueSizeAssumption

\* With room for them commands go behind the others.
LEMMA AppendFits ==
  ASSUME NEW q \in QueueType, NEW cmds \in Seq(Commands), q.read <= q.write,
         q.write + Len(cmds) < QueueSize
  PROVE  LET a == Appended(q, cmds) IN
         /\ a \in QueueType /\ a.read = q.read /\ a.write = q.write + Len(cmds)
         /\ \A i \in 0 .. q.write - 1 : a.slots[i] = q.slots[i]
         /\ \A i \in q.write .. a.write - 1 : a.slots[i] = cmds[i - q.write + 1]
<1> DEFINE n == Len(cmds)
           place(i) == ((i - q.write) % QueueSize) + 1
           s == [i \in 0 .. QueueSize |-> IF i < QueueSize /\ place(i) <= n THEN cmds[place(i)] ELSE q.slots[i]]
<1>1. n \in Nat /\ q.read \in Nat /\ q.write \in Nat /\ q.write \in 0 .. QueueSize - 1
  BY QueueSizeAssumption, LenProperties DEF QueueType
<1>2. Room(q) >= n /\ (q.write + n) % QueueSize = q.write + n
  <2>1. q.read # QueueSize
    BY <1>1, QueueSizeAssumption
  <2> QED
    BY <1>1, <2>1, Fits DEF Room
<1>3. Room(q) \in Int
  BY <1>1, QueueSizeAssumption DEF Room
<1>4. Appended(q, cmds) = [slots |-> s, read |-> q.read, write |-> q.write + n]
  BY <1>1, <1>2, <1>3 DEF Appended
<1>5. ASSUME NEW i \in 0 .. QueueSize - 1
      PROVE  place(i) = IF i >= q.write THEN i - q.write + 1 ELSE i - q.write + QueueSize + 1
  BY <1>1, Places, QueueSizeAssumption
<1> HIDE DEF place
<1>6. ASSUME NEW i \in 0 .. q.write + n - 1
      PROVE  s[i] = IF i < q.write THEN q.slots[i] ELSE cmds[i - q.write + 1]
  <2>1. i \in 0 .. QueueSize - 1 /\ s[i] = IF place(i) <= n THEN cmds[place(i)] ELSE q.slots[i]
    BY <1>1, QueueSizeAssumption
  <2>2. CASE i < q.write
    <3>1. ~(place(i) <= n)
      BY <1>1, <1>5, <2>1, <2>2, QueueSizeAssumption
    <3> QED
      BY <2>1, <2>2, <3>1
  <2>3. CASE ~(i < q.write)
    <3>1. place(i) = i - q.write + 1
      BY <1>1, <1>5, <2>1, <2>3
    <3> HIDE DEF n, s
    <3>2. i \in Nat /\ i <= q.write + n - 1 /\ q.write <= i
      BY <1>1, <2>3
    <3>3. place(i) <= n
      BY <1>1, <3>1, <3>2
    <3> QED
      BY <2>1, <2>3, <3>1, <3>3
  <2> QED
    BY <2>2, <2>3
<1>7. s \in [0 .. QueueSize -> Commands]
  <2>1. q.slots \in [0 .. QueueSize -> Commands]
    BY DEF QueueType
  <2>2. ASSUME NEW i \in 0 .. QueueSize, i < QueueSize, place(i) <= n PROVE cmds[place(i)] \in Commands
    <3>1. i \in 0 .. QueueSize - 1
      BY <2>2, QueueSizeAssumption
    <3>2. place(i) = IF i >= q.write THEN i - q.write + 1 ELSE i - q.write + QueueSize + 1
      BY <1>5, <3>1
    <3>3. place(i) \in 1 .. n
      BY <1>1, <3>1, <3>2, <2>2, QueueSizeAssumption
    <3> QED
      BY <3>3, ElementOfSeq
  <2> QED
    BY <2>1, <2>2
<1> HIDE DEF n, s
<1>8. /\ \A i \in 0 .. q.write - 1 : s[i] = q.slots[i]
      /\ \A i \in q.write .. q.write + n - 1 : s[i] = cmds[i - q.write + 1]
  BY <1>1, <1>6
<1> QED
  BY <1>1, <1>4, <1>7, <1>8 DEF QueueType, n

\* The commands of the setup.
LEMMA CommandTypes ==
  ASSUME NEW d \in Ports, NEW b \in Bytes, NEW b1 \in Bytes, NEW n \in 0 .. 1
  PROVE  /\ Command(d, b, n) \in Commands /\ WithData(d, b, b1) \in Commands
         /\ Untouched(Command(d, b, n)) /\ Untouched(WithData(d, b, b1))
         /\ Command(d, b, n).device = d /\ WithData(d, b, b1).device = d
         /\ Command(d, b, n).data_size = 1 /\ WithData(d, b, b1).data_size = 2
         /\ Command(d, b, n).resp_size = n /\ WithData(d, b, b1).resp_size = 0
         /\ Command(d, b, n).data[1] = b /\ WithData(d, b, b1).data[1] = b /\ WithData(d, b, b1).data[2] = b1
<1>1. "00" \in Bytes /\ "NORMAL" \in States
  BY DEF Bytes, States
<1>2. <<b, "00">> \in [1 .. 2 -> Bytes] /\ <<b, b1>> \in [1 .. 2 -> Bytes]
  BY <1>1
<1>3. Command(d, b, n) = [device |-> d, data |-> <<b, "00">>, data_size |-> 1, data_sent |-> 0,
                          resp_size |-> n, state |-> "NORMAL"]
  BY DEF Command, NewCommand
<1>4. WithData(d, b, b1) = [device |-> d, data |-> <<b, b1>>, data_size |-> 2, data_sent |-> 0,
                            resp_size |-> 0, state |-> "NORMAL"]
  BY DEF WithData, NewCommand
<1>5. Command(d, b, n) \in Commands
  BY <1>1, <1>2, <1>3 DEF Commands, CommandFields
<1>6. WithData(d, b, b1) \in Commands
  BY <1>1, <1>2, <1>4 DEF Commands, CommandFields
<1> QED
  BY <1>3, <1>4, <1>5, <1>6 DEF Untouched

\* A part of the setup that ends with the command asking for the id or turning reports on.
Part(cmds, d, n, final) ==
  /\ cmds \in Seq(Commands) /\ Len(cmds) = n
  /\ \A k \in 1 .. n : cmds[k].device = d /\ Untouched(cmds[k])
  /\ \A k \in 1 .. n - 1 : Sets(cmds[k])
  /\ IF final = "F2" THEN Identifies(cmds[n]) ELSE TurnsOn(cmds[n])

LEMMA MagicPart ==
  ASSUME NEW d \in Ports, NEW r \in {"100", "200"}
  PROVE  Part(Magic(d, r), d, 4, "F2")
<1>1. {"F3", "F2", "200", "100", "80"} \subseteq Bytes
  BY DEF Bytes
<1>2. ASSUME NEW x \in {"200", "100", "80"}
      PROVE  Rate(d, x) \in Commands /\ Sets(Rate(d, x)) /\ Untouched(Rate(d, x)) /\ Rate(d, x).device = d
  <2>1. x \in Bytes /\ "F3" \in Bytes /\ x \notin {"F2", "F4"}
    BY <1>1
  <2> QED
    BY <2>1, CommandTypes DEF Rate, Sets
<1>3. LET c == Command(d, "F2", 1) IN c \in Commands /\ Identifies(c) /\ Untouched(c) /\ c.device = d
  BY <1>1, CommandTypes DEF Identifies
<1> QED
  BY <1>2, <1>3 DEF Magic, Part

LEMMA FinishPart ==
  ASSUME NEW d \in Ports
  PROVE  Part(Finish(d), d, 2, "F4")
<1>1. {"F3", "F4", "100"} \subseteq Bytes
  BY DEF Bytes
<1>2. Rate(d, "100") \in Commands /\ Sets(Rate(d, "100")) /\ Untouched(Rate(d, "100")) /\ Rate(d, "100").device = d
  BY <1>1, CommandTypes DEF Rate, Sets
<1>3. LET c == Command(d, "F4", 0) IN c \in Commands /\ TurnsOn(c) /\ Untouched(c) /\ c.device = d
  BY <1>1, CommandTypes DEF TurnsOn
<1> QED
  BY <1>2, <1>3 DEF Finish, Part

LEMMA KeyboardPart ==
  ASSUME NEW d \in Ports
  PROVE  Part(InitKeyboard(d), d, 3, "F4")
<1>1. {"ED", "F0", "F4", "00", "02"} \subseteq Bytes
  BY DEF Bytes
<1>2. LET c == WithData(d, "ED", "00") IN c \in Commands /\ Sets(c) /\ Untouched(c) /\ c.device = d
  BY <1>1, CommandTypes DEF Sets
<1>3. LET c == WithData(d, "F0", "02") IN c \in Commands /\ Sets(c) /\ Untouched(c) /\ c.device = d
  BY <1>1, CommandTypes DEF Sets
<1>4. LET c == Command(d, "F4", 0) IN c \in Commands /\ TurnsOn(c) /\ Untouched(c) /\ c.device = d
  BY <1>1, CommandTypes DEF TurnsOn
<1> QED
  BY <1>2, <1>3, <1>4 DEF InitKeyboard, Part

-----------------------------------------------------------------------------
(* What a step of the handler does to the queue before it sends *)

WireType == [Ports -> Seq(WireBytes)]
InboxType == [Ports -> Seq(Bytes)]

\* ps2_update_command_queue: a command that is sent has its byte on the way, and its device
\* had nothing on its way before.
LEMMA Sends ==
  ASSUME NEW q \in QueueType, q.read <= q.write, q.write < QueueSize, inbox \in InboxType,
         NEW e, NEW wi \in WireType, NEW sc, Consistent(q, e, inbox, wi, sc), Update(q)
  PROVE  /\ read' = q.read /\ write' = q.write
         /\ slots' \in [0 .. QueueSize -> Commands] /\ inbox' \in InboxType
         /\ Consistent([slots |-> slots', read |-> read', write |-> write'], e, inbox', wi, sc)
<1> DEFINE c == q.slots[q.read]
           n == [slots |-> slots', read |-> read', write |-> write']
<1>1. /\ read' = q.read /\ write' = q.write /\ q.slots \in [0 .. QueueSize -> Commands]
      /\ q.read \in 0 .. QueueSize /\ c \in Commands
  BY QueueSizeAssumption DEF Update, QueueType
<1>2. CASE ~MaySend(q)
  <2>1. slots' = q.slots /\ inbox' = inbox
    BY <1>2 DEF Update
  <2>2. n = q
    BY <1>1, <2>1 DEF QueueType
  <2> QED
    BY <1>1, <2>1, <2>2
<1>3. CASE MaySend(q)
  <2> DEFINE byte == c.data[c.data_sent + 1]
             d0 == c.device
  <2>1. q.read # q.write /\ c.state = "NORMAL" /\ q.read \in Waiting(q)
    BY <1>1, <1>3 DEF MaySend, Waiting, QueueType
  <2>2. /\ slots' = [q.slots EXCEPT ![q.read] = [c EXCEPT !.state = "WAIT_ACK"]]
        /\ inbox' = [inbox EXCEPT ![d0] = Append(inbox[d0], byte)]
    BY <1>3, <1>1 DEF Update, InboxType
  <2>3. c.data_sent < c.data_size /\ d0 \in Ports /\ byte \in Bytes
    <3>1. c.data_sent < c.data_size
      BY <2>1 DEF Consistent, QueueOK, Queued
    <3>2. c.data_sent + 1 \in 1 .. 2 /\ d0 \in Ports
      BY <1>1, <3>1 DEF Commands, CommandFields
    <3> QED
      BY <1>1, <3>1, <3>2 DEF Commands, CommandFields
  <2>4. [c EXCEPT !.state = "WAIT_ACK"] \in Commands
    BY <1>1 DEF Commands, CommandFields, States
  <2>5. slots' \in [0 .. QueueSize -> Commands]
    BY <1>1, <2>2, <2>4
  <2>6. inbox' \in InboxType
    BY <2>2, <2>3, AppendProperties DEF InboxType
  <2>7. /\ slots'[q.read] = [c EXCEPT !.state = "WAIT_ACK"]
        /\ \A i \in Waiting(q) : i # q.read => slots'[i] = q.slots[i]
        /\ \A i \in Waiting(q) : slots'[i].device = q.slots[i].device
    <3>1. Waiting(q) \subseteq 0 .. QueueSize
      BY <1>1, QueueSizeAssumption DEF Waiting, QueueType
    <3>2. [c EXCEPT !.state = "WAIT_ACK"].device = c.device
      BY <1>1 DEF Commands, CommandFields
    <3> QED
      BY <1>1, <2>2, <3>1, <3>2
  <2>8. ~sc[d0] /\ wi[d0] = <<>> /\ inbox[d0] = <<>>
    <3>1. Owner(q, d0)
      BY <2>1 DEF Owner
    <3>2. Quiet(inbox, wi, d0)
      BY <2>1, <2>3, <3>1 DEF Consistent, InLock
    <3>3. ~sc[d0]
      BY <2>1, <2>3 DEF Consistent, Reports
    <3>4. ~(\E k \in 1 .. Len(wi[d0]) : wi[d0][k] \in InputBytes)
      BY <2>3, <3>3 DEF Consistent, Reports
    <3>5. Len(wi[d0]) = 0
      BY SMTT(60), <2>3, <3>2, <3>4, LenProperties DEF Quiet, WireType
    <3> QED
      BY <2>3, <3>2, <3>3, <3>5, EmptySeq DEF Quiet, WireType
  <2> DEFINE m == [c EXCEPT !.state = "WAIT_ACK"]
  <2>9. /\ m.device = c.device /\ m.data = c.data /\ m.data_size = c.data_size /\ m.data_sent = c.data_sent
        /\ m.resp_size = c.resp_size /\ m.state = "WAIT_ACK"
    BY <1>1 DEF Commands, CommandFields
  <2>10. n.slots = slots' /\ n.read = q.read /\ n.write = q.write /\ Waiting(n) = Waiting(q)
    BY <1>1 DEF Waiting
  <2> HIDE DEF n, m
  <2>11. ASSUME NEW i \in Waiting(q) PROVE Queued(n, e, i)
    <3>1. Queued(q, e, i)
      BY DEF Consistent, QueueOK
    <3>2. LastOfDevice(q, i) => LastOfDevice(n, i)
      <4>1. \A j \in i + 1 .. q.write - 1 : j \in Waiting(q)
        BY DEF Waiting, QueueType
      <4> QED
        BY <4>1, <2>7, <2>10 DEF LastOfDevice
    <3>3. CASE i = q.read
      <4>1. n.slots[i] = m /\ q.slots[i] = c
        BY <2>7, <2>10, <3>3 DEF m
      <4>2. (Sets(c) => Sets(m)) /\ (Identifies(c) => Identifies(m)) /\ (TurnsOn(c) => TurnsOn(m))
        BY <2>9 DEF Sets, Identifies, TurnsOn
      <4> HIDE DEF c
      <4> QED
        BY <2>3, <2>9, <2>10, <3>1, <3>2, <3>3, <4>1, <4>2 DEF Queued
    <3>4. CASE i # q.read
      BY <2>7, <2>10, <3>1, <3>2, <3>4 DEF Queued
    <3> QED
      BY <3>3, <3>4
  <2>12. ASSUME NEW d \in Ports PROVE InLock(n, inbox', wi, d)
    <3>1. n.slots[n.read] = m /\ (Owner(n, d) <=> d = d0)
      BY <2>1, <2>7, <2>9, <2>10 DEF Owner, m
    <3>2. CASE d = d0
      <4>1. inbox'[d] = <<byte>>
        BY <2>2, <2>3, <2>8, <3>2 DEF InboxType
      <4> QED
        BY <4>1, <2>8, <2>9, <3>1, <3>2 DEF InLock, AwaitsAck
    <3>3. CASE d # d0
      <4>1. inbox'[d] = inbox[d]
        BY <2>2, <3>3 DEF InboxType
      <4>2. ~Owner(q, d) /\ InLock(q, inbox, wi, d)
        BY <3>3 DEF Owner, Consistent
      <4>3. Quiet(inbox', wi, d)
        BY <4>1, <4>2 DEF InLock, Quiet
      <4> QED
        BY <3>1, <3>3, <4>3 DEF InLock
    <3> QED
      BY <3>2, <3>3
  <2>13. ASSUME NEW d \in Ports PROVE Reports(n, wi, e, sc, d)
    <3>1. Reports(q, wi, e, sc, d)
      BY DEF Consistent
    <3>2. ASSUME sc[d], NEW i \in Waiting(q), n.slots[i].device = d PROVE FALSE
      BY <2>1, <2>7, <2>10, <3>1, <3>2 DEF Reports
    <3> QED
      BY <2>10, <3>1, <3>2 DEF Reports
  <2>14. Consistent(n, e, inbox', wi, sc)
    BY <2>10, <2>11, <2>12, <2>13 DEF Consistent, QueueOK
  <2> QED
    BY <1>1, <2>5, <2>6, <2>14 DEF n
<1> QED
  BY <1>2, <1>3

With(cmd) == [slots |-> [slots EXCEPT ![read] = cmd], read |-> read, write |-> write]
Popped(cmd) == [slots |-> [slots EXCEPT ![read] = cmd], read |-> read + 1, write |-> write]
Same(cmd, c) ==
  /\ cmd.device = c.device /\ cmd.data = c.data /\ cmd.data_size = c.data_size
  /\ cmd.resp_size = c.resp_size

LEMMA Bounds ==
  ASSUME Types, Counted
  PROVE  /\ read \in Nat /\ write \in Nat /\ read <= write /\ write <= 20 /\ write < QueueSize
         /\ Now \in QueueType /\ read \in 0 .. QueueSize /\ slots[read] \in Commands
         /\ \A cmd \in Commands : With(cmd) \in QueueType /\ Popped(cmd) \in QueueType
<1>1. Count(0) <= 10 /\ Count(1) <= 10 /\ Count(0) \in Nat /\ Count(1) \in Nat
  BY DEF Count
<1>2. read \in Nat /\ write \in Nat /\ read <= write /\ write <= 20 /\ write < QueueSize
  BY <1>1, QueueSizeAssumption DEF Counted
<1>3. read \in 0 .. QueueSize /\ slots \in [0 .. QueueSize -> Commands]
  BY <1>2, QueueSizeAssumption DEF Types
<1> QED
  BY <1>2, <1>3 DEF Now, With, Popped, QueueType

\* The rest of the wire after its first byte.
Shorter(d) == [wire EXCEPT ![d] = Tail(@)]
LEMMA TailOfWire ==
  ASSUME Types, NEW d \in Ports, wire[d] # <<>>
  PROVE  /\ Head(wire[d]) = wire[d][1] /\ wire[d][1] \in WireBytes
         /\ Shorter(d) \in WireType /\ \A x \in Ports : x # d => Shorter(d)[x] = wire[x]
         /\ Len(wire[d]) \in Nat /\ Len(wire[d]) >= 1 /\ Len(Shorter(d)[d]) = Len(wire[d]) - 1
         /\ \A k \in 1 .. Len(Shorter(d)[d]) : k + 1 \in 2 .. Len(wire[d]) /\ Shorter(d)[d][k] = wire[d][k + 1]
         /\ Shorter(d)[d] = <<>> <=> Len(wire[d]) = 1
<1>1. wire[d] \in Seq(WireBytes) /\ wire \in WireType
  BY DEF Types, WireType
<1>2. Shorter(d)[d] = Tail(wire[d]) /\ \A x \in Ports : x # d => Shorter(d)[x] = wire[x]
  BY <1>1 DEF Shorter, WireType
<1>3. /\ Head(wire[d]) \in WireBytes /\ Tail(wire[d]) \in Seq(WireBytes)
      /\ Len(Tail(wire[d])) = Len(wire[d]) - 1
      /\ \A k \in 1 .. Len(Tail(wire[d])) : Tail(wire[d])[k] = wire[d][k + 1]
  BY <1>1, HeadTailProperties
<1>4. Len(wire[d]) \in Nat /\ Len(wire[d]) >= 1 /\ Head(wire[d]) = wire[d][1]
  BY <1>1, LenProperties, EmptySeq
<1>5. Shorter(d) \in WireType
  BY <1>1, <1>3 DEF Shorter, WireType
<1>6. Tail(wire[d]) = <<>> <=> Len(wire[d]) = 1
  <2>1. Tail(wire[d]) = <<>> <=> Len(Tail(wire[d])) = 0
    BY <1>3, EmptySeq
  <2> QED
    BY <1>3, <1>4, <2>1
<1> QED
  BY <1>2, <1>3, <1>4, <1>5, <1>6

\* The command at the head goes on, and its device, which has not turned reports on, follows.
LEMMA HeadChanges ==
  ASSUME IInv, NEW d \in Ports, Owner(Now, d), ~scanning[d],
         NEW cmd \in Commands, Same(cmd, slots[read]), cmd.state # "UNUSED",
         cmd.state # "WAIT_RESP" => cmd.data_sent < cmd.data_size,
         NEW wi \in WireType, \A x \in Ports : x # d => wi[x] = wire[x],
         \A k \in 1 .. Len(wi[d]) : wi[d][k] \notin InputBytes,
         InLock(With(cmd), inbox, wi, d)
  PROVE  Consistent(With(cmd), enabled, inbox, wi, scanning)
<1> DEFINE q == With(cmd)
<1>1. /\ read \in Waiting(Now) /\ read # write /\ slots[read].device = d /\ read \in 0 .. QueueSize
      /\ slots \in [0 .. QueueSize -> Commands] /\ Consistent(Now, enabled, inbox, wire, scanning)
  BY Bounds DEF IInv, Owner, Now, Waiting, Types
<1>2. /\ Waiting(q) = Waiting(Now) /\ q.read = read /\ q.write = write /\ Waiting(Now) \subseteq 0 .. QueueSize
  BY Bounds, QueueSizeAssumption DEF IInv, With, Now, Waiting
<1>3. /\ q.slots[read] = cmd /\ \A i \in Waiting(q) : i # read => q.slots[i] = slots[i]
      /\ \A i \in Waiting(q) : q.slots[i].device = slots[i].device
  BY <1>1, <1>2 DEF With, Same
<1> HIDE DEF q
<1>4. ASSUME NEW i \in Waiting(q) PROVE Queued(q, enabled, i)
  <2>1. Queued(Now, enabled, i)
    BY <1>1, <1>2 DEF Consistent, QueueOK
  <2>2. LastOfDevice(Now, i) => LastOfDevice(q, i)
    <3>1. \A j \in i + 1 .. write - 1 : j \in Waiting(q)
      BY <1>2, Bounds DEF Waiting, Now, IInv
    <3> QED
      BY <1>2, <1>3, <3>1 DEF LastOfDevice, Now
  <2>3. CASE i = read
    <3>1. (Sets(slots[i]) => Sets(cmd)) /\ (Identifies(slots[i]) => Identifies(cmd)) /\ (TurnsOn(slots[i]) => TurnsOn(cmd))
      BY <2>3 DEF Sets, Identifies, TurnsOn, Same
    <3> QED
      BY <1>2, <1>3, <2>1, <2>2, <2>3, <3>1 DEF Queued, Now, Same
  <2>4. CASE i # read
    BY <1>2, <1>3, <2>1, <2>2, <2>4 DEF Queued, Now
  <2> QED
    BY <2>3, <2>4
<1>5. ASSUME NEW x \in Ports PROVE InLock(q, inbox, wi, x)
  <2>1. CASE x = d
    BY <2>1 DEF q
  <2>2. CASE x # d
    <3>1. ~Owner(q, x) /\ ~Owner(Now, x)
      BY <1>1, <1>2, <1>3, <2>2 DEF Owner, Now
    <3>2. Quiet(inbox, wi, x)
      BY <1>1, <2>2, <3>1 DEF Consistent, InLock, Quiet
    <3> QED
      BY <3>1, <3>2 DEF InLock
  <2> QED
    BY <2>1, <2>2
<1>6. ASSUME NEW x \in Ports PROVE Reports(q, wi, enabled, scanning, x)
  <2>1. CASE x = d
    BY <2>1 DEF Reports
  <2>2. CASE x # d
    <3>1. Reports(Now, wire, enabled, scanning, x)
      BY <1>1 DEF Consistent
    <3>2. ASSUME scanning[x], NEW i \in Waiting(q), q.slots[i].device = x PROVE FALSE
      BY <1>1, <1>2, <1>3, <2>2, <3>1, <3>2 DEF Reports, Now
    <3> QED
      BY <2>2, <3>1, <3>2 DEF Reports
  <2> QED
    BY <2>1, <2>2
<1>7. QueueOK(q, enabled)
  BY <1>4 DEF QueueOK
<1> QED
  BY <1>5, <1>6, <1>7 DEF Consistent, q

\* The command at the head is done: what is left on the wire of its device is input.
LEMMA HeadGoes ==
  ASSUME IInv, NEW d \in Ports, Owner(Now, d), NEW cmd \in Commands,
         NEW wi \in WireType, \A x \in Ports : x # d => wi[x] = wire[x],
         (\E k \in 1 .. Len(wi[d]) : wi[d][k] \in InputBytes) => scanning[d], Quiet(inbox, wi, d)
  PROVE  Consistent(Popped(cmd), enabled, inbox, wi, scanning)
<1> DEFINE q == Popped(cmd)
<1>1. /\ read \in Waiting(Now) /\ read # write /\ slots[read].device = d /\ read \in 0 .. QueueSize
      /\ slots \in [0 .. QueueSize -> Commands] /\ Consistent(Now, enabled, inbox, wire, scanning)
  BY Bounds DEF IInv, Owner, Now, Waiting, Types
<1>2. /\ Waiting(q) = Waiting(Now) \ {read} /\ q.read = read + 1 /\ q.write = write
      /\ Waiting(Now) \subseteq 0 .. QueueSize /\ q.read # read
  BY Bounds, QueueSizeAssumption DEF IInv, Popped, Now, Waiting
<1>3. \A i \in Waiting(q) : q.slots[i] = slots[i] /\ i # read /\ i \in Waiting(Now)
  BY <1>1, <1>2 DEF Popped
<1> HIDE DEF q
<1>4. ASSUME NEW i \in Waiting(q) PROVE Queued(q, enabled, i)
  <2>1. Queued(Now, enabled, i)
    BY <1>1, <1>3 DEF Consistent, QueueOK
  <2>2. LastOfDevice(Now, i) => LastOfDevice(q, i)
    <3>1. \A j \in i + 1 .. write - 1 : j \in Waiting(q)
      BY <1>2, Bounds DEF Waiting, Now, IInv
    <3> QED
      BY <1>2, <1>3, <3>1 DEF LastOfDevice, Now
  <2>3. Untouched(slots[i]) /\ slots[i] \in Commands
    BY <1>1, <1>2, <1>3, <2>1 DEF Queued, Now
  <2>4. slots[i].state = "NORMAL" /\ slots[i].data_sent < slots[i].data_size
    BY <2>3 DEF Untouched, Commands, CommandFields
  <2> QED
    BY <1>3, <2>1, <2>2, <2>3, <2>4 DEF Queued, Now
<1>5. ASSUME NEW x \in Ports PROVE InLock(q, inbox, wi, x)
  <2>1. Quiet(inbox, wi, x)
    <3>1. CASE x = d
      BY <3>1
    <3>2. CASE x # d
      BY <1>1, <3>2 DEF Consistent, InLock, Quiet, Owner, Now
    <3> QED
      BY <3>1, <3>2
  <2>2. Owner(q, x) => q.slots[q.read].state = "NORMAL"
    <3>1. Owner(q, x) => q.read \in Waiting(q)
      BY <1>1, <1>2, Bounds DEF Owner, Waiting, IInv
    <3>2. q.read \in Waiting(q) => Untouched(slots[q.read]) /\ q.slots[q.read] = slots[q.read]
      BY <1>1, <1>2, <1>3 DEF Consistent, QueueOK, Queued, Now
    <3> QED
      BY <3>1, <3>2 DEF Untouched
  <2> QED
    BY <2>1, <2>2 DEF InLock
<1>6. ASSUME NEW x \in Ports PROVE Reports(q, wi, enabled, scanning, x)
  <2>1. Reports(Now, wire, enabled, scanning, x)
    BY <1>1 DEF Consistent
  <2>2. ASSUME scanning[x], NEW i \in Waiting(q), q.slots[i].device = x PROVE FALSE
    BY <1>1, <1>2, <1>3, <2>1, <2>2 DEF Reports, Now
  <2>3. CASE x = d
    BY <2>1, <2>2, <2>3 DEF Reports
  <2>4. CASE x # d
    BY <2>1, <2>2, <2>4 DEF Reports
  <2> QED
    BY <2>3, <2>4
<1>7. QueueOK(q, enabled)
  BY <1>4 DEF QueueOK
<1> QED
  BY <1>5, <1>6, <1>7 DEF Consistent, q

\* More commands for a mouse that has none waiting.
LEMMA MoreForMouse ==
  ASSUME types \in [Ports -> Kinds], enabled \in [Ports -> BOOLEAN],
         NEW q \in QueueType, q.read <= q.write, NEW d \in Ports, types[d] = "mouse", ~enabled[d],
         NEW wi, ~scanning[d], \A i \in Waiting(q) : q.slots[i].device # d,
         NEW n \in {2, 4}, q.write + n < QueueSize, NEW final \in {"F2", "F4"},
         NEW cmds, Part(cmds, d, n, final), NEW e, e = [enabled EXCEPT ![d] = (final = "F4")],
         Consistent(q, enabled, inbox, wi, scanning)
  PROVE  Consistent(Appended(q, cmds), e, inbox, wi, scanning)
<1> DEFINE a == Appended(q, cmds)
<1>1. /\ a.read = q.read /\ a.write = q.write + n /\ q.read \in Nat /\ q.write \in Nat
      /\ \A i \in 0 .. q.write - 1 : a.slots[i] = q.slots[i]
      /\ \A i \in q.write .. a.write - 1 : a.slots[i] = cmds[i - q.write + 1]
  BY AppendFits DEF Part, QueueType
<1> HIDE DEF a
<1>2. /\ Waiting(q) \subseteq Waiting(a) /\ Waiting(q) \subseteq 0 .. q.write - 1
      /\ Waiting(a) \ Waiting(q) = q.write .. a.write - 1
      /\ \A i \in Waiting(q) : a.slots[i] = q.slots[i]
  BY <1>1 DEF Waiting
<1>3. ASSUME NEW i \in q.write .. a.write - 1
      PROVE  /\ a.slots[i].device = d /\ Untouched(a.slots[i]) /\ a.slots[i] \in Commands
             /\ i # a.write - 1 => Sets(a.slots[i])
             /\ i = a.write - 1 => IF final = "F2" THEN Identifies(a.slots[i]) ELSE TurnsOn(a.slots[i])
  <2> DEFINE k == i - q.write + 1
  <2>1. k \in 1 .. n /\ (i = a.write - 1 <=> k = n) /\ a.slots[i] = cmds[k]
    BY <1>1
  <2> HIDE DEF k
  <2>2. cmds[k] \in Commands
    BY <2>1, ElementOfSeq DEF Part
  <2>3. k # n => k \in 1 .. n - 1
    BY <2>1
  <2> QED
    BY <2>1, <2>2, <2>3 DEF Part
<1>4. ASSUME NEW i \in Waiting(a) PROVE Queued(a, e, i)
  <2>1. CASE i \in Waiting(q)
    <3>1. Queued(q, enabled, i) /\ a.slots[i] = q.slots[i] /\ q.slots[i].device # d /\ q.slots[i].device \in Ports
      <4>1. q.slots[i] \in Commands
        BY <1>1, <1>2, <2>1, QueueSizeAssumption DEF QueueType
      <4> QED
        BY <1>2, <2>1, <4>1 DEF Consistent, QueueOK, Commands, CommandFields
    <3>2. e[q.slots[i].device] = enabled[q.slots[i].device]
      BY <3>1
    <3>3. LastOfDevice(q, i) => LastOfDevice(a, i)
      <4>1. \A j \in i + 1 .. a.write - 1 : j \in Waiting(q) \/ j \in q.write .. a.write - 1
        BY <1>1, <2>1 DEF Waiting
      <4>2. \A j \in i + 1 .. a.write - 1 : j \in Waiting(q) => j \in i + 1 .. q.write - 1
        BY <1>1 DEF Waiting
      <4> QED
        BY <1>2, <1>3, <3>1, <4>1, <4>2 DEF LastOfDevice
    <3> QED
      BY <1>1, <3>1, <3>2, <3>3 DEF Queued
  <2>2. CASE i \notin Waiting(q)
    <3>1. i \in q.write .. a.write - 1 /\ i \in Nat
      BY <1>1, <1>2, <2>2
    <3>2. i = a.write - 1 => LastOfDevice(a, i)
      BY <1>1 DEF LastOfDevice
    <3>3. e[d] = (final = "F4")
      OBVIOUS
    <3>4. a.slots[i].state = "NORMAL" /\ a.slots[i].data_sent < a.slots[i].data_size
      BY <1>3, <3>1 DEF Untouched, Commands, CommandFields
    <3> QED
      BY <1>3, <3>1, <3>2, <3>3, <3>4 DEF Queued
  <2> QED
    BY <2>1, <2>2
<1>5. ASSUME NEW x \in Ports PROVE InLock(a, inbox, wi, x)
  <2>1. InLock(q, inbox, wi, x)
    BY DEF Consistent
  <2>2. CASE q.read = q.write
    <3>1. a.slots[a.read].state = "NORMAL" /\ Quiet(inbox, wi, x)
      BY <1>1, <1>3, <2>1, <2>2 DEF InLock, Owner, Untouched
    <3> QED
      BY <3>1 DEF InLock
  <2>3. CASE q.read # q.write
    <3>1. q.read \in Waiting(q) /\ a.read # a.write
      BY <1>1, <2>3 DEF Waiting
    <3>2. a.slots[a.read] = q.slots[q.read] /\ (Owner(a, x) <=> Owner(q, x))
      BY <1>1, <1>2, <2>3, <3>1 DEF Owner
    <3> QED
      BY <2>1, <3>2 DEF InLock
  <2> QED
    BY <2>2, <2>3
<1>6. ASSUME NEW x \in Ports PROVE Reports(a, wi, e, scanning, x)
  <2>1. Reports(q, wi, enabled, scanning, x)
    BY DEF Consistent
  <2>2. CASE x = d
    BY <2>1, <2>2 DEF Reports
  <2>3. CASE x # d
    <3>1. e[x] = enabled[x] /\ \A i \in Waiting(a) : a.slots[i].device = x => i \in Waiting(q)
      BY <1>2, <1>3, <2>3
    <3> QED
      BY <1>1, <1>2, <2>1, <3>1 DEF Reports
  <2> QED
    BY <2>2, <2>3
<1> QED
  BY <1>4, <1>5, <1>6 DEF Consistent, QueueOK, a

-----------------------------------------------------------------------------
(* The interrupt handler *)

Sent(c) == [c EXCEPT !.data_sent = c.data_sent + 1]
Answered(c) == [c EXCEPT !.resp_size = c.resp_size - 1]
InState(c, state) == [c EXCEPT !.state = state]

LEMMA IrqCases ==
  ASSUME IInv, NEW d \in Ports, IrqHandler(d)
  PROVE  LET c == slots[read]
             byte == wire[d][1]
             handle == Owner(Now, d) /\ c.state # "NORMAL"
         IN
         /\ wire[d] # <<>> /\ wire' = Shorter(d) /\ UNCHANGED <<pc, accepted, devices, counters>>
         /\ \/ /\ handle /\ c.state = "WAIT_ACK" /\ UNCHANGED driver
               /\ \/ byte = ACK /\ c.data_sent + 1 < c.data_size /\ Update(With(InState(Sent(c), "NORMAL")))
                  \/ /\ byte = ACK /\ ~(c.data_sent + 1 < c.data_size) /\ c.resp_size > 0
                     /\ Update(With(InState(Sent(c), "WAIT_RESP")))
                  \/ /\ byte = ACK /\ ~(c.data_sent + 1 < c.data_size) /\ ~(c.resp_size > 0)
                     /\ Update(Popped(Sent(c)))
                  \/ byte = RESEND /\ Update(With(InState(c, "NORMAL")))
                  \/ byte \notin {ACK, RESEND}
            \/ /\ handle /\ c.state = "WAIT_RESP"
               /\ c.resp_size <= 1 => ToDevice(d, byte, Popped(Answered(c)))
            \/ ~handle /\ ToDevice(d, byte, With(c))
<1> DEFINE c == slots[read]
<1>1. c \in Commands /\ wire \in WireType /\ slots \in [0 .. QueueSize -> Commands]
  BY Bounds DEF IInv, Types, WireType
<1>2. wire[d] # <<>> /\ Head(wire[d]) = wire[d][1]
  BY TailOfWire DEF IInv, IrqHandler
<1>3. /\ InState(Sent(c), "NORMAL") = [c EXCEPT !.data_sent = c.data_sent + 1, !.state = "NORMAL"]
      /\ InState(Sent(c), "WAIT_RESP") = [c EXCEPT !.data_sent = c.data_sent + 1, !.state = "WAIT_RESP"]
  BY <1>1 DEF InState, Sent, Commands, CommandFields
<1>4. ASSUME NEW cmd PROVE [With(cmd) EXCEPT !.read = read + 1] = Popped(cmd)
  BY DEF With, Popped
<1>5. Owner(Now, d) <=> (read # write /\ slots[read].device = d)
  BY DEF Owner, Now
<1>6. (Answered(c).resp_size <= 0) <=> c.resp_size <= 1
  BY <1>1 DEF Answered, Commands, CommandFields
<1> QED
  BY <1>2, <1>3, <1>4, <1>5, <1>6 DEF IrqHandler, ForDevice, Resend, InState, Sent, Answered, With, Shorter, ACK, RESEND

\* What the byte of a device may be while its command waits for the acknowledgment.
LEMMA HeadWaits ==
  ASSUME IInv, NEW d \in Ports, Owner(Now, d), slots[read].state = "WAIT_ACK", wire[d] # <<>>
  PROVE  LET c == slots[read]
             rest == Shorter(d)[d]
         IN
         /\ c.data_sent < c.data_size /\ inbox[d] = <<>>
         /\ Sets(c) \/ Identifies(c) \/ TurnsOn(c)
         /\ scanning[d] => TurnsOn(c)
         /\ \/ wire[d][1] = RESEND /\ Len(rest) = 0 /\ ~scanning[d]
            \/ wire[d][1] = ACK /\ \A k \in 1 .. Len(rest) : rest[k] \in InputBytes
            \/ wire[d][1] = ACK /\ Identifies(c) /\ Len(rest) = 1 /\ rest[1] \in Ids
         /\ (\E k \in 1 .. Len(rest) : rest[k] \in InputBytes) => scanning[d]
<1> DEFINE c == slots[read]
           rest == Shorter(d)[d]
<1>1. /\ read \in Waiting(Now) /\ c \in Commands /\ Now.slots[Now.read] = c /\ c.device = d
      /\ Queued(Now, enabled, read) /\ Now.slots[read] = c /\ Now.read = read
      /\ InLock(Now, inbox, wire, d) /\ Reports(Now, wire, enabled, scanning, d)
  BY Bounds DEF IInv, Owner, Now, Waiting, Consistent, QueueOK
<1>2. /\ Len(wire[d]) \in Nat /\ Len(wire[d]) >= 1 /\ Len(rest) = Len(wire[d]) - 1
      /\ \A k \in 1 .. Len(rest) : k + 1 \in 2 .. Len(wire[d]) /\ rest[k] = wire[d][k + 1]
  BY TailOfWire DEF IInv
<1> HIDE DEF c, rest
<1>3. c.data_sent < c.data_size /\ (Sets(c) \/ Identifies(c) \/ TurnsOn(c))
  BY <1>1 DEF Queued, c
<1>4. scanning[d] => TurnsOn(c) /\ wire[d][1] = ACK
  BY <1>1 DEF Reports
<1>5. inbox[d] = <<>> /\ (wire[d] = <<RESEND>> \/ AckFirst(c, wire[d]))
  BY <1>1 DEF InLock, AwaitsAck, c
<1>6. CASE wire[d] = <<RESEND>>
  <2>1. wire[d][1] = RESEND /\ Len(rest) = 0 /\ ~scanning[d]
    BY <1>2, <1>4, <1>6 DEF ACK, RESEND
  <2> QED
    BY <1>3, <1>4, <1>5, <2>1 DEF c, rest
<1>7. CASE AckFirst(c, wire[d])
  <2>1. \/ \A k \in 1 .. Len(rest) : rest[k] \in InputBytes
        \/ Identifies(c) /\ Len(rest) = 1 /\ rest[1] \in Ids
    BY <1>2, <1>7 DEF AckFirst
  <2>2. (\E k \in 1 .. Len(rest) : rest[k] \in InputBytes) => scanning[d]
    BY <1>1, <1>2 DEF Reports
  <2> QED
    BY <1>3, <1>4, <1>5, <1>7, <2>1, <2>2 DEF AckFirst, c, rest
<1> QED
  BY <1>5, <1>6, <1>7

LEMMA NextConsistent ==
  ASSUME types' = types,
         Consistent([slots |-> slots', read |-> read', write |-> write'], enabled', inbox', wire', scanning')
  PROVE  Consistent(Now, enabled, inbox, wire, scanning)'
BY DEF Consistent, QueueOK, Waiting, Queued, LastOfDevice, InLock, Quiet, Owner, AwaitsAck, AwaitsId, AckFirst,
   Reports, Identifies, TurnsOn, Sets, Untouched, Now

\* The whole invariant after the handler: q is the queue before it sends.
LEMMA HandlerKeeps ==
  ASSUME IInv, NEW d \in Ports, wire[d] # <<>>, wire' = Shorter(d), UNCHANGED <<pc, devices>>,
         NEW q \in QueueType, q.read <= q.write, q.write < QueueSize, Update(q),
         enabled' \in [Ports -> BOOLEAN], id' \in [Ports -> Ids \cup {"FF"}],
         byte_buffer' \in [Ports -> Seq(InputBytes)],
         Consistent(q, enabled', inbox, Shorter(d), scanning),
         q.write <= (Count(0) + Count(1))',
         \A x \in Ports : types[x] = "mouse" /\ ~enabled'[x] => id'[x] \in {"FF", "03"},
         \A x \in Ports : Framed(x)'
  PROVE  IInv'
<1>1. /\ read' = q.read /\ write' = q.write /\ slots' \in [0 .. QueueSize -> Commands] /\ inbox' \in InboxType
      /\ Consistent([slots |-> slots', read |-> read', write |-> write'], enabled', inbox', Shorter(d), scanning)
  <2>1. inbox \in InboxType /\ Shorter(d) \in WireType
    BY TailOfWire DEF IInv, Types, InboxType
  <2> QED
    BY <2>1, Sends
<1>2. types' = types /\ scanning' = scanning /\ mode' = mode /\ pc' = pc
  BY DEF devices
<1>3. pc = "done" /\ Types
  BY DEF IInv, Types, Starting
<1>4. Types'
  <2>1. Shorter(d) \in WireType
    BY TailOfWire DEF IInv
  <2> QED
    BY <1>1, <1>2, <1>3, <2>1 DEF Types, WireType, InboxType
<1>5. Counted'
  BY <1>1, <1>2 DEF Counted, QueueType
<1>6. Starting'
  BY <1>2, <1>3 DEF Starting
<1>7. Consistent(Now, enabled, inbox, wire, scanning)'
  BY <1>1, <1>2, NextConsistent
<1> QED
  BY <1>4, <1>5, <1>6, <1>7 DEF IInv

\* Nothing changes for the driver: the cases of WAIT_ACK.
LEMMA DriverStays ==
  ASSUME IInv, NEW d \in Ports, wire[d] # <<>>, wire' = Shorter(d), UNCHANGED <<pc, devices, driver>>,
         NEW q \in QueueType, q.read <= q.write, q.write = write, Update(q),
         Consistent(q, enabled, inbox, Shorter(d), scanning)
  PROVE  IInv'
<1>1. /\ enabled' = enabled /\ id' = id /\ byte_buffer' = byte_buffer /\ types' = types
      /\ (Count(0) + Count(1))' = Count(0) + Count(1)
  BY DEF driver, devices, Count
<1>2. \A x \in Ports : Framed(x)'
  BY <1>1 DEF IInv, Framed, PacketSize
<1>3. Types /\ Counted /\ write < QueueSize
  BY Bounds DEF IInv
<1> QED
  BY <1>1, <1>2, <1>3, HandlerKeeps DEF Types, Counted

LEMMA Acknowledged ==
  ASSUME IInv, NEW d \in Ports, wire[d] # <<>>, wire' = Shorter(d), UNCHANGED <<pc, devices, driver>>,
         Owner(Now, d), slots[read].state = "WAIT_ACK",
         LET c == slots[read] IN
           \/ /\ wire[d][1] = ACK /\ c.data_sent + 1 < c.data_size
              /\ Update(With(InState(Sent(c), "NORMAL")))
           \/ /\ wire[d][1] = ACK /\ ~(c.data_sent + 1 < c.data_size) /\ c.resp_size > 0
              /\ Update(With(InState(Sent(c), "WAIT_RESP")))
           \/ /\ wire[d][1] = ACK /\ ~(c.data_sent + 1 < c.data_size) /\ ~(c.resp_size > 0)
              /\ Update(Popped(Sent(c)))
           \/ wire[d][1] = RESEND /\ Update(With(InState(c, "NORMAL")))
           \/ wire[d][1] \notin {ACK, RESEND}
  PROVE  IInv'
<1> DEFINE c == slots[read]
           w == Shorter(d)
<1>1. /\ c \in Commands /\ c.device = d /\ w \in WireType /\ Len(w[d]) \in Nat
      /\ \A x \in Ports : x # d => w[x] = wire[x]
      /\ read \in Nat /\ write \in Nat /\ read + 1 <= write
  BY Bounds, TailOfWire DEF IInv, Owner, Now
<1>2. /\ c.data_sent < c.data_size /\ inbox[d] = <<>>
      /\ Sets(c) \/ Identifies(c) \/ TurnsOn(c)
      /\ scanning[d] => TurnsOn(c)
      /\ \/ wire[d][1] = RESEND /\ Len(w[d]) = 0 /\ ~scanning[d]
         \/ wire[d][1] = ACK /\ \A k \in 1 .. Len(w[d]) : w[d][k] \in InputBytes
         \/ wire[d][1] = ACK /\ Identifies(c) /\ Len(w[d]) = 1 /\ w[d][1] \in Ids
      /\ (\E k \in 1 .. Len(w[d]) : w[d][k] \in InputBytes) => scanning[d]
  BY HeadWaits
<1>3. ASSUME NEW st \in States
      PROVE  /\ InState(c, st) \in Commands /\ Same(InState(c, st), c) /\ InState(c, st).state = st
             /\ InState(c, st).data_sent = c.data_sent
             /\ InState(Sent(c), st) \in Commands /\ Same(InState(Sent(c), st), c)
             /\ InState(Sent(c), st).state = st /\ InState(Sent(c), st).data_sent = c.data_sent + 1
             /\ Sent(c) \in Commands
  <2>1. /\ Sent(c) \in Commands /\ Same(Sent(c), c) /\ Sent(c).data_sent = c.data_sent + 1
    BY <1>1, <1>2 DEF Sent, Same, Commands, CommandFields
  <2>2. ASSUME NEW x \in Commands
        PROVE  InState(x, st) \in Commands /\ Same(InState(x, st), x) /\ InState(x, st).state = st
               /\ InState(x, st).data_sent = x.data_sent
    BY DEF InState, Same, Commands, CommandFields
  <2> HIDE DEF c
  <2> QED
    BY <1>1, <2>1, <2>2 DEF Same
<1>4. {"NORMAL", "WAIT_RESP"} \subseteq States
  BY DEF States
<1>5. ASSUME NEW cmd \in Commands, cmd.device = d
      PROVE  With(cmd).slots[With(cmd).read] = cmd /\ With(cmd).read # With(cmd).write
             /\ Owner(With(cmd), d) /\ With(cmd) \in QueueType /\ With(cmd).read <= With(cmd).write
             /\ With(cmd).write = write
  <2>1. slots \in [0 .. QueueSize -> Commands] /\ read \in 0 .. QueueSize /\ With(cmd) \in QueueType
    BY Bounds DEF IInv, Types
  <2> QED
    BY <1>1, <1>5, <2>1 DEF With, Owner
<1> HIDE DEF c, w
<1>6. CASE wire[d][1] = ACK /\ c.data_sent + 1 < c.data_size /\ Update(With(InState(Sent(c), "NORMAL")))
  <2> DEFINE cmd == InState(Sent(c), "NORMAL")
  <2>1. cmd \in Commands /\ Same(cmd, c) /\ cmd.state = "NORMAL" /\ cmd.data_sent = c.data_sent + 1
    BY <1>3, <1>4
  <2> HIDE DEF cmd
  <2>2. ~TurnsOn(c) /\ ~Identifies(c)
    BY <1>1, <1>6 DEF TurnsOn, Identifies, Commands, CommandFields
  <2>3. ~scanning[d] /\ \A k \in 1 .. Len(w[d]) : w[d][k] \in InputBytes
    BY <1>2, <1>6, <2>2 DEF ACK, RESEND
  <2>4. \A k \in 1 .. Len(w[d]) : w[d][k] \notin InputBytes
    BY <1>2, <2>3
  <2>5. InLock(With(cmd), inbox, w, d)
    BY <1>1, <1>2, <1>5, <2>1, <2>3 DEF InLock, Quiet, Same
  <2>6. Consistent(With(cmd), enabled, inbox, w, scanning)
    BY <1>1, <1>6, <2>1, <2>3, <2>4, <2>5, HeadChanges DEF c, Same
  <2> QED
    BY <1>1, <1>5, <1>6, <2>1, <2>6, DriverStays DEF w, Same, cmd
<1>7. CASE /\ wire[d][1] = ACK /\ ~(c.data_sent + 1 < c.data_size) /\ c.resp_size > 0
           /\ Update(With(InState(Sent(c), "WAIT_RESP")))
  <2> DEFINE cmd == InState(Sent(c), "WAIT_RESP")
  <2>1. cmd \in Commands /\ Same(cmd, c) /\ cmd.state = "WAIT_RESP"
    BY <1>3, <1>4
  <2> HIDE DEF cmd
  <2>2. ~TurnsOn(c) /\ Identifies(c)
    BY <1>1, <1>2, <1>7 DEF TurnsOn, Sets, Commands, CommandFields
  <2>3. /\ ~scanning[d] /\ \A k \in 1 .. Len(w[d]) : w[d][k] \notin InputBytes
    BY <1>2, <2>2
  <2>4. Len(w[d]) = 0 \/ (Len(w[d]) = 1 /\ w[d][1] \in Ids)
    BY <1>1, <1>2, <1>7, <2>3 DEF ACK, RESEND
  <2>5. w[d] = <<>> \/ (Len(w[d]) = 1 /\ w[d][1] \in Ids)
    BY <1>1, <2>4, EmptySeq DEF WireType
  <2>6. Identifies(cmd)
    BY <2>1, <2>2 DEF Identifies, Same
  <2>7. InLock(With(cmd), inbox, w, d)
    BY <1>1, <1>2, <1>5, <2>1, <2>5, <2>6 DEF InLock, AwaitsId, Same
  <2>8. Consistent(With(cmd), enabled, inbox, w, scanning)
    BY <1>1, <2>1, <2>3, <2>7, HeadChanges DEF c, Same
  <2> QED
    BY <1>1, <1>5, <1>7, <2>1, <2>8, DriverStays DEF w, Same, cmd
<1>8. CASE /\ wire[d][1] = ACK /\ ~(c.data_sent + 1 < c.data_size) /\ ~(c.resp_size > 0)
           /\ Update(Popped(Sent(c)))
  <2> DEFINE cmd == Sent(c)
  <2>1. cmd \in Commands /\ Popped(cmd) \in QueueType
    BY <1>3, <1>4, Bounds DEF IInv
  <2> HIDE DEF cmd
  <2>2. ~Identifies(c)
    BY <1>8 DEF Identifies
  <2>3. Quiet(inbox, w, d)
    BY <1>2, <1>8, <2>2 DEF Quiet, ACK, RESEND
  <2>4. Consistent(Popped(cmd), enabled, inbox, w, scanning)
    BY <1>1, <1>2, <2>1, <2>3, HeadGoes
  <2>5. Popped(cmd).read <= Popped(cmd).write /\ Popped(cmd).write = write
    BY <1>1 DEF Popped
  <2> QED
    BY <1>8, <2>1, <2>4, <2>5, DriverStays DEF w, cmd
<1>9. CASE wire[d][1] = RESEND /\ Update(With(InState(c, "NORMAL")))
  <2> DEFINE cmd == InState(c, "NORMAL")
  <2>1. cmd \in Commands /\ Same(cmd, c) /\ cmd.state = "NORMAL" /\ cmd.data_sent = c.data_sent
    BY <1>3, <1>4
  <2> HIDE DEF cmd
  <2>2. Len(w[d]) = 0 /\ ~scanning[d]
    BY <1>2, <1>9 DEF ACK, RESEND
  <2>3. \A k \in 1 .. Len(w[d]) : FALSE
    BY <2>2
  <2>4. InLock(With(cmd), inbox, w, d)
    BY <1>1, <1>2, <1>5, <2>1, <2>3 DEF InLock, Quiet, Same
  <2>5. Consistent(With(cmd), enabled, inbox, w, scanning)
    BY <1>1, <1>2, <2>1, <2>2, <2>3, <2>4, HeadChanges DEF c, Same
  <2> QED
    BY <1>1, <1>5, <1>9, <2>1, <2>5, DriverStays DEF w, Same, cmd
<1>10. wire[d][1] \in {ACK, RESEND}
  BY <1>2
<1> QED
  BY <1>6, <1>7, <1>8, <1>9, <1>10 DEF c

\* The answer to a question for the mouse's id: more commands follow.
LEMMA Identified ==
  ASSUME IInv, NEW d \in Ports, wire[d] # <<>>, wire' = Shorter(d), UNCHANGED <<pc, devices>>,
         Owner(Now, d), slots[read].state = "WAIT_RESP",
         slots[read].resp_size <= 1 => ToDevice(d, wire[d][1], Popped(Answered(slots[read])))
  PROVE  IInv'
<1> DEFINE c == slots[read]
           w == Shorter(d)
           byte == wire[d][1]
           q == Popped(Answered(c))
<1>1. /\ read \in Waiting(Now) /\ c \in Commands /\ Now.slots[read] = c /\ c.device = d /\ Now.read = read
      /\ Queued(Now, enabled, read) /\ AwaitsId(c, inbox, wire, d) /\ Reports(Now, wire, enabled, scanning, d)
      /\ read \in Nat /\ write \in Nat /\ read + 1 <= write /\ write < QueueSize
  BY Bounds DEF IInv, Owner, Now, Waiting, Consistent, QueueOK, InLock
<1>2. Identifies(c) /\ inbox[d] = <<>> /\ Len(wire[d]) = 1 /\ byte \in Ids
  BY <1>1 DEF AwaitsId
<1>3. /\ types[d] = "mouse" /\ ~enabled[d] /\ ~scanning[d] /\ LastOfDevice(Now, read)
      /\ c.data_size = 1 /\ c.resp_size = 1
  BY <1>1, <1>2 DEF Queued, Reports, Identifies, Sets, TurnsOn
<1>4. /\ types \in [Ports -> Kinds] /\ enabled \in [Ports -> BOOLEAN] /\ id \in [Ports -> Ids \cup {"FF"}]
      /\ byte_buffer \in [Ports -> Seq(InputBytes)] /\ w \in WireType /\ Len(w[d]) = 0
      /\ \A x \in Ports : x # d => w[x] = wire[x]
      /\ read <= write /\ write <= Count(0) + Count(1) /\ id[d] \in {"FF", "03"}
      /\ \A x \in Ports : types[x] = "mouse" /\ ~enabled[x] => id[x] \in {"FF", "03"}
      /\ \A x \in Ports : Framed(x)
  BY <1>2, <1>3, TailOfWire DEF IInv, Types, Counted
<1>5. Answered(c) \in Commands
  BY <1>1, <1>3 DEF Answered, Commands, CommandFields
<1>6. q \in QueueType /\ q.read = read + 1 /\ q.write = write
  BY <1>5, Bounds DEF IInv, Popped
<1>7. \A i \in Waiting(q) : q.slots[i].device # d
  <2>1. \A i \in Waiting(q) : i \in read + 1 .. write - 1 /\ i \in 0 .. QueueSize /\ i # read
    BY <1>1, <1>6, QueueSizeAssumption DEF Waiting
  <2>2. \A i \in Waiting(q) : q.slots[i] = slots[i]
    BY <2>1, <1>1 DEF Popped, IInv, Types
  <2> QED
    BY <1>1, <1>3, <2>1, <2>2 DEF LastOfDevice, Now
<1> HIDE DEF c, w, q, byte
<1>8. Consistent(q, enabled, inbox, w, scanning)
  <2>1. Quiet(inbox, w, d)
    BY <1>2, <1>4 DEF Quiet
  <2>2. \A k \in 1 .. Len(w[d]) : w[d][k] \notin InputBytes
    BY <1>4
  <2> QED
    BY <1>4, <1>5, <2>1, <2>2, HeadGoes DEF q
<1> DEFINE more == IF AsksAgain(d, byte) THEN Magic(d, "200") ELSE Finish(d)
           n == IF AsksAgain(d, byte) THEN 4 ELSE 2
           final == IF AsksAgain(d, byte) THEN "F2" ELSE "F4"
           e == [enabled EXCEPT ![d] = ~AsksAgain(d, byte)]
           a == Appended(q, more)
<1>9. /\ Update(a) /\ id' = [id EXCEPT ![d] = IF byte \in {"03", "04"} THEN byte ELSE "00"]
      /\ enabled' = e /\ byte_buffer' = byte_buffer
  BY <1>3 DEF ToDevice, MouseIdentified, c, q, byte
<1>10. Part(more, d, n, final) /\ n \in {2, 4} /\ final \in {"F2", "F4"} /\ (final = "F4") = ~AsksAgain(d, byte)
  BY MagicPart, FinishPart
<1>11. /\ id' \in [Ports -> Ids \cup {"FF"}] /\ enabled' \in [Ports -> BOOLEAN]
       /\ \A x \in Ports : types[x] = "mouse" /\ ~enabled'[x] => id'[x] \in {"FF", "03"}
  BY <1>2, <1>4, <1>9 DEF Ids, AsksAgain
<1>12. types' = types
  BY DEF devices
<1>13. Count(d)' >= Count(d) + n /\ \A x \in Ports : x # d => Count(x)' = Count(x)
  <2>1. CASE AsksAgain(d, byte)
    <3>1. id[d] = "FF" /\ id'[d] = "03" /\ ~enabled'[d] /\ n = 4
      BY <1>2, <1>4, <1>9, <2>1 DEF AsksAgain
    <3> QED
      BY <1>3, <1>4, <1>9, <1>12, <3>1 DEF Count
  <2>2. CASE ~AsksAgain(d, byte)
    <3>1. enabled'[d] /\ n = 2
      BY <1>4, <1>9, <2>2
    <3> QED
      BY <1>3, <1>4, <1>9, <1>12, <3>1 DEF Count
  <2> QED
    BY <2>1, <2>2
<1> HIDE DEF more, n, final
<1>15. write + n <= Count(0)' + Count(1)' /\ write + n < QueueSize
  <2>1. Count(0)' + Count(1)' <= 20 /\ Count(0)' \in Nat /\ Count(1)' \in Nat
    BY DEF Count
  <2>2. Count(0) \in Nat /\ Count(1) \in Nat /\ n \in Nat
    BY <1>10 DEF Count
  <2>3. CASE d = 0
    <3>1. Count(0)' >= Count(0) + n /\ Count(1)' = Count(1)
      BY <1>13, <2>3 DEF Ports
    <3> QED
      BY <1>1, <1>4, <2>1, <2>2, <3>1, QueueSizeAssumption
  <2>4. CASE d = 1
    <3>1. Count(1)' >= Count(1) + n /\ Count(0)' = Count(0)
      BY <1>13, <2>4 DEF Ports
    <3> QED
      BY <1>1, <1>4, <2>1, <2>2, <3>1, QueueSizeAssumption
  <2> QED
    BY <2>3, <2>4 DEF Ports
<1>16. Consistent(a, e, inbox, w, scanning)
  <2>1. e = [enabled EXCEPT ![d] = (final = "F4")]
    BY <1>10
  <2>2. q.read <= q.write /\ q.write + n < QueueSize
    BY <1>1, <1>6, <1>15
  <2> HIDE DEF e
  <2> QED
    BY ZenonT(60), <1>3, <1>4, <1>6, <1>7, <1>8, <1>10, <2>1, <2>2, MoreForMouse
<1>17. a \in QueueType /\ a.read = read + 1 /\ a.write = write + n
  BY <1>1, <1>6, <1>10, <1>15, AppendFits DEF Part
<1>18. \A x \in Ports : Framed(x)'
  <2>1. \A x \in Ports : x # d => Framed(x)'
    BY <1>4, <1>9, <1>12 DEF Framed, PacketSize
  <2>2. Framed(d)'
    <3>1. byte_buffer[d] = <<>> /\ Len(byte_buffer[d]) = 0
      BY <1>3, <1>4 DEF Framed
    <3> QED
      BY <1>3, <1>9, <1>12, <3>1 DEF Framed, PacketSize
  <2> QED
    BY <2>1, <2>2
<1> HIDE DEF a, e
<1>19. a.read <= a.write /\ a.write < QueueSize /\ a.write <= (Count(0) + Count(1))'
  BY <1>1, <1>10, <1>15, <1>17
<1> QED
  BY <1>4, <1>9, <1>11, <1>16, <1>17, <1>18, <1>19, HandlerKeeps DEF w

\* A byte of input: it comes from a device whose setup is over.
LEMMA InputComes ==
  ASSUME IInv, NEW d \in Ports, wire[d] # <<>>, ~Owner(Now, d) \/ slots[read].state = "NORMAL"
  PROVE  /\ wire[d][1] \in InputBytes /\ scanning[d] /\ (types[d] = "mouse" => enabled[d])
         /\ Now.slots[Now.read] = slots[read] /\ With(slots[read]) = Now /\ Quiet(inbox, wire, d)
<1>1. Len(wire[d]) >= 1 /\ Len(wire[d]) \in Nat
  BY TailOfWire DEF IInv
<1>2. /\ Now.slots[Now.read] = slots[read] /\ InLock(Now, inbox, wire, d) /\ Reports(Now, wire, enabled, scanning, d)
      /\ Quiet(inbox, wire, d)
  BY DEF IInv, Now, Consistent, InLock
<1>3. wire[d][1] \in InputBytes /\ scanning[d] /\ (types[d] = "mouse" => enabled[d])
  BY <1>1, <1>2 DEF Quiet, Reports
<1>4. With(slots[read]) = Now
  <2>1. slots \in [0 .. QueueSize -> Commands] /\ read \in 0 .. QueueSize
    BY Bounds DEF IInv, Types
  <2> QED
    BY <2>1 DEF With, Now
<1> QED
  BY <1>2, <1>3, <1>4

LEMMA InputTaken ==
  ASSUME IInv, NEW d \in Ports, wire[d] # <<>>, wire' = Shorter(d), UNCHANGED <<pc, devices>>,
         ~Owner(Now, d) \/ slots[read].state = "NORMAL", ToDevice(d, wire[d][1], With(slots[read]))
  PROVE  IInv'
<1> DEFINE w == Shorter(d)
           byte == wire[d][1]
           buf == Append(byte_buffer[d], byte)
<1>1. /\ wire[d][1] \in WireBytes /\ w \in WireType /\ Len(wire[d]) >= 1 /\ Len(wire[d]) \in Nat
      /\ \A x \in Ports : x # d => w[x] = wire[x]
      /\ \A k \in 1 .. Len(w[d]) : k + 1 \in 1 .. Len(wire[d]) /\ w[d][k] = wire[d][k + 1]
  BY SMTT(60), TailOfWire DEF IInv
<1>2. /\ Now.slots[Now.read] = slots[read] /\ Reports(Now, wire, enabled, scanning, d) /\ Quiet(inbox, wire, d)
  BY InputComes DEF IInv, Consistent
<1>3. byte \in InputBytes /\ scanning[d] /\ (types[d] = "mouse" => enabled[d])
  BY InputComes
<1>4. With(slots[read]) = Now
  BY InputComes
<1>5. \A i \in Waiting(Now) : Now.slots[i].device # d
  <2>1. \A i \in Waiting(Now) : Now.slots[i].device = d => Owner(Now, d) /\ Now.slots[Now.read].state = "WAIT_ACK"
    <3>1. \A i \in Waiting(Now) : i = Now.read => Now.read # Now.write
      BY Bounds DEF IInv, Waiting, Now
    <3> QED
      BY <1>2, <1>3, <3>1 DEF Reports, Owner
  <2> QED
    BY <1>2, <2>1
<1> HIDE DEF w, byte
<1>6. Consistent(Now, enabled, inbox, w, scanning)
  <2>1. ASSUME NEW x \in Ports PROVE InLock(Now, inbox, w, x)
    <3>1. CASE x = d
      <4>1. Quiet(inbox, w, d)
        BY <1>1, <1>2 DEF Quiet
      <4> QED
        BY <1>2, <4>1, <3>1 DEF InLock
    <3>2. CASE x # d
      BY <1>1, <3>2 DEF IInv, Consistent, InLock, Quiet, AwaitsAck, AwaitsId
    <3> QED
      BY <3>1, <3>2
  <2>2. ASSUME NEW x \in Ports PROVE Reports(Now, w, enabled, scanning, x)
    <3>1. CASE x = d
      BY <1>3, <1>5, <3>1 DEF Reports
    <3>2. CASE x # d
      BY <1>1, <3>2 DEF IInv, Consistent, Reports
    <3> QED
      BY <3>1, <3>2
  <2> QED
    BY <2>1, <2>2 DEF IInv, Consistent
<1>7. InputByte(d, byte) /\ Update(Now)
  BY <1>3, <1>4 DEF ToDevice, byte
<1>8. types' = types /\ enabled' = enabled /\ id' = id /\ (Count(0) + Count(1))' = Count(0) + Count(1)
  BY <1>7 DEF InputByte, devices, Count
<1>9. /\ byte_buffer \in [Ports -> Seq(InputBytes)] /\ buf \in Seq(InputBytes)
      /\ Len(buf) = Len(byte_buffer[d]) + 1 /\ Len(byte_buffer[d]) \in Nat
  BY <1>3, AppendProperties, LenProperties DEF IInv, Types
<1> HIDE DEF buf
<1>10. /\ byte_buffer'[d] = <<>> \/ (byte_buffer'[d] = buf /\ types[d] # "keyboard" /\ Len(buf) # PacketSize(d))
       /\ byte_buffer' \in [Ports -> Seq(InputBytes)]
       /\ \A x \in Ports : x # d => byte_buffer'[x] = byte_buffer[x]
  BY <1>7, <1>9 DEF InputByte, buf
<1>11. ASSUME NEW x \in Ports PROVE Framed(x)'
  <2>1. Framed(x) /\ PacketSize(x)' = PacketSize(x) /\ PacketSize(x) \in {3, 4}
    BY <1>8 DEF IInv, PacketSize
  <2>2. CASE x = d
    <3>1. CASE byte_buffer'[d] = <<>>
      <4>1. Len(byte_buffer'[d]) = 0
        BY <3>1
      <4> QED
        BY <2>1, <2>2, <3>1, <4>1 DEF Framed
    <3>2. CASE byte_buffer'[d] = buf /\ types[d] # "keyboard" /\ Len(buf) # PacketSize(d)
      BY <1>3, <1>8, <1>9, <2>1, <2>2, <3>2 DEF Framed
    <3> QED
      BY <1>10, <3>1, <3>2
  <2>3. CASE x # d
    BY <1>8, <1>10, <2>1, <2>3 DEF Framed
  <2> QED
    BY <2>2, <2>3
<1>12. /\ Now \in QueueType /\ Now.read <= Now.write /\ Now.write < QueueSize /\ Now.write = write
       /\ write <= Count(0) + Count(1) /\ id \in [Ports -> Ids \cup {"FF"}] /\ enabled \in [Ports -> BOOLEAN]
       /\ \A x \in Ports : types[x] = "mouse" /\ ~enabled[x] => id[x] \in {"FF", "03"}
  BY Bounds DEF IInv, Types, Counted, Now
<1> QED
  BY <1>6, <1>7, <1>8, <1>10, <1>11, <1>12, HandlerKeeps DEF w

LEMMA HeadStates ==
  ASSUME IInv, NEW d \in Ports, Owner(Now, d)
  PROVE  slots[read].state \in {"WAIT_ACK", "WAIT_RESP", "NORMAL"}
<1>1. read \in Waiting(Now) /\ Now.read = read /\ Now.slots[read] = slots[read] /\ slots[read].state \in States
  BY Bounds DEF IInv, Owner, Now, Waiting, Commands, CommandFields
<1> QED
  BY <1>1 DEF IInv, Consistent, QueueOK, Queued, States

LEMMA IrqStep ==
  ASSUME IInv, NEW d \in Ports, IrqHandler(d)
  PROVE  IInv'
<1> DEFINE c == slots[read]
           byte == wire[d][1]
<1>1. wire[d] # <<>> /\ wire' = Shorter(d) /\ UNCHANGED <<pc, devices>>
  BY IrqCases
<1>2. CASE Owner(Now, d) /\ c.state = "WAIT_ACK"
  <2>1. /\ UNCHANGED driver
        /\ \/ byte = ACK /\ c.data_sent + 1 < c.data_size /\ Update(With(InState(Sent(c), "NORMAL")))
           \/ /\ byte = ACK /\ ~(c.data_sent + 1 < c.data_size) /\ c.resp_size > 0
              /\ Update(With(InState(Sent(c), "WAIT_RESP")))
           \/ /\ byte = ACK /\ ~(c.data_sent + 1 < c.data_size) /\ ~(c.resp_size > 0)
              /\ Update(Popped(Sent(c)))
           \/ byte = RESEND /\ Update(With(InState(c, "NORMAL")))
           \/ byte \notin {ACK, RESEND}
    BY <1>2, IrqCases
  <2> QED
    BY <1>1, <1>2, <2>1, Acknowledged
<1>3. CASE Owner(Now, d) /\ c.state = "WAIT_RESP"
  <2>1. c.resp_size <= 1 => ToDevice(d, byte, Popped(Answered(c)))
    BY <1>3, IrqCases
  <2> QED
    BY <1>1, <1>3, <2>1, Identified
<1>4. CASE ~Owner(Now, d) \/ c.state = "NORMAL"
  <2>1. ToDevice(d, byte, With(c))
    BY <1>4, IrqCases
  <2> QED
    BY <1>1, <1>4, <2>1, InputTaken
<1> QED
  BY <1>2, <1>3, <1>4, HeadStates

-----------------------------------------------------------------------------
(* The main thread *)

LEMMA MainKeeps ==
  ASSUME IInv, UNCHANGED <<driver, devices>>, read' = read, write' = write, wire' = wire,
         slots' \in [0 .. QueueSize -> Commands], inbox' \in InboxType, pc' \in {"look", "mark", "send", "done"},
         Consistent([slots |-> slots', read |-> read, write |-> write], enabled, inbox', wire, scanning),
         Starting'
  PROVE  IInv'
<1>1. /\ types' = types /\ enabled' = enabled /\ id' = id /\ byte_buffer' = byte_buffer
      /\ scanning' = scanning /\ mode' = mode
  BY DEF driver, devices
<1>2. Types' /\ Counted'
  BY <1>1 DEF IInv, Types, Counted, Count, InboxType
<1>3. \A x \in Ports : Framed(x)'
  BY <1>1 DEF IInv, Framed, PacketSize
<1>4. Consistent(Now, enabled, inbox, wire, scanning)'
  BY <1>1, NextConsistent
<1> QED
  BY <1>2, <1>3, <1>4 DEF IInv

LEMMA LookStep ==
  ASSUME IInv, Look
  PROVE  IInv'
<1>1. /\ pc = "look" /\ pc' = IF read # write /\ slots[read].state = "NORMAL" THEN "mark" ELSE "done"
      /\ UNCHANGED <<driver, devices>> /\ slots' = slots /\ read' = read /\ write' = write
      /\ inbox' = inbox /\ wire' = wire /\ scanning' = scanning
  BY DEF Look, queue, devices
<1>2. Starting'
  BY <1>1 DEF IInv, Starting
<1>3. slots' \in [0 .. QueueSize -> Commands] /\ inbox' \in InboxType /\ pc' \in {"look", "mark", "send", "done"}
  BY <1>1 DEF IInv, Types, InboxType
<1> QED
  BY <1>1, <1>2, <1>3, MainKeeps DEF IInv, Now

\* While it has not sent, it may change the state of the command at the head.
LEMMA StateChanges ==
  ASSUME IInv, pc \in {"mark", "send"}, NEW st \in {"NORMAL", "WAIT_ACK"},
         slots' = [slots EXCEPT ![read].state = st], UNCHANGED <<driver, devices>>, read' = read, write' = write,
         wire' = wire, inbox' = inbox, pc' \in {"send", "done"}, pc' = "send" => st = "WAIT_ACK"
  PROVE  IInv'
<1> DEFINE c == slots[read]
           cmd == InState(c, st)
           d == c.device
<1>1. /\ read # write /\ c.state \in {"NORMAL", "WAIT_ACK"} /\ c \in Commands /\ d \in Ports
      /\ \A x \in Ports : inbox[x] = <<>> /\ wire[x] = <<>> /\ ~scanning[x]
  BY Bounds DEF IInv, Starting, Commands, CommandFields
<1>2. /\ Owner(Now, d) /\ read \in Waiting(Now) /\ Now.slots[Now.read] = c /\ Now.slots[read] = c /\ Now.read = read
      /\ Queued(Now, enabled, read) /\ read \in 0 .. QueueSize /\ slots \in [0 .. QueueSize -> Commands]
  BY <1>1, Bounds DEF IInv, Owner, Now, Waiting, Consistent, QueueOK, Types
<1>3. c.data_sent < c.data_size
  BY <1>1, <1>2 DEF Queued
<1>4. cmd \in Commands /\ Same(cmd, c) /\ cmd.state = st /\ cmd.data_sent = c.data_sent
  BY <1>1 DEF InState, Same, Commands, CommandFields, States
<1>5. slots' = [slots EXCEPT ![read] = cmd]
  BY <1>2 DEF InState
<1>6. With(cmd).slots[With(cmd).read] = cmd /\ With(cmd) = [slots |-> slots', read |-> read, write |-> write]
  BY <1>2, <1>5 DEF With
<1>7. wire \in WireType
  BY DEF IInv, Types, WireType
<1> HIDE DEF cmd, c, d
<1>8. InLock(With(cmd), inbox, wire, d)
  <2>1. Quiet(inbox, wire, d)
    BY <1>1 DEF Quiet
  <2> QED
    BY <1>1, <1>4, <1>6, <2>1 DEF InLock, AwaitsAck
<1>9. Consistent(With(cmd), enabled, inbox, wire, scanning)
  <2>1. \A k \in 1 .. Len(wire[d]) : wire[d][k] \notin InputBytes
    BY <1>1
  <2> QED
    BY <1>1, <1>2, <1>3, <1>4, <1>7, <1>8, <2>1, HeadChanges DEF c, Same
<1>10. Starting'
  <2>1. slots'[read].state = st /\ scanning' = scanning
    BY <1>2, <1>4, <1>5 DEF devices
  <2> QED
    BY <1>1, <2>1 DEF Starting
<1>11. slots' \in [0 .. QueueSize -> Commands] /\ inbox' \in InboxType
  BY ZenonT(60), <1>2, <1>4, <1>5 DEF IInv, Types, InboxType
<1> QED
  BY <1>6, <1>9, <1>10, <1>11, MainKeeps

LEMMA SendStep ==
  ASSUME IInv, Send
  PROVE  IInv'
<1> DEFINE c == slots[read]
           d == c.device
           byte == c.data[c.data_sent + 1]
<1>1. /\ pc = "send" /\ pc' = "done" /\ inbox' = [inbox EXCEPT ![d] = Append(inbox[d], byte)]
      /\ UNCHANGED <<driver, devices>> /\ slots' = slots /\ read' = read /\ write' = write /\ wire' = wire
  BY DEF Send, queue, IInv, Types
<1>2. /\ read # write /\ c.state = "WAIT_ACK" /\ c \in Commands /\ d \in Ports
      /\ inbox[d] = <<>> /\ wire[d] = <<>> /\ \A x \in Ports : ~scanning[x]
  BY <1>1, Bounds DEF IInv, Starting, Commands, CommandFields
<1>3. /\ Owner(Now, d) /\ Now.slots[Now.read] = c /\ read \in Waiting(Now) /\ Queued(Now, enabled, read)
      /\ Now.slots[read] = c /\ Now.read = read
  BY <1>2, Bounds DEF IInv, Owner, Now, Waiting, Consistent, QueueOK
<1>4. byte \in Bytes
  <2>1. c.data_sent < c.data_size
    BY <1>2, <1>3 DEF Queued
  <2>2. c.data_sent + 1 \in 1 .. 2 /\ c.data \in [1 .. 2 -> Bytes]
    BY <1>2, <2>1 DEF Commands, CommandFields
  <2> QED
    BY <2>2
<1>5. inbox'[d] = <<byte>> /\ inbox' \in InboxType /\ \A x \in Ports : x # d => inbox'[x] = inbox[x]
  BY <1>1, <1>2, <1>4, AppendProperties DEF IInv, Types, InboxType
<1> HIDE DEF c, d
<1>6. ASSUME NEW x \in Ports PROVE InLock(Now, inbox', wire, x)
  <2>1. CASE x = d
    BY <1>2, <1>3, <1>5, <2>1 DEF InLock, AwaitsAck
  <2>2. CASE x # d
    BY <1>3, <1>5, <2>2 DEF IInv, Consistent, InLock, Quiet, Owner
  <2> QED
    BY <2>1, <2>2
<1>7. Consistent(Now, enabled, inbox', wire, scanning)
  BY <1>6 DEF IInv, Consistent
<1>8. Starting'
  BY <1>1 DEF Starting
<1>9. slots' \in [0 .. QueueSize -> Commands]
  BY <1>1 DEF IInv, Types
<1> QED
  BY <1>1, <1>5, <1>7, <1>8, <1>9, MainKeeps DEF Now

-----------------------------------------------------------------------------
(* The devices *)

LEMMA DeviceKeeps ==
  ASSUME IInv, NEW d \in Ports, pc = "done", UNCHANGED <<queue, driver, pc, types>>,
         inbox' \in InboxType, wire' \in WireType, scanning' \in [Ports -> BOOLEAN], mode' \in [Ports -> Ids],
         \A x \in Ports : x # d => inbox'[x] = inbox[x] /\ wire'[x] = wire[x] /\ scanning'[x] = scanning[x],
         InLock(Now, inbox', wire', d), Reports(Now, wire', enabled, scanning', d)
  PROVE  IInv'
<1>1. /\ slots' = slots /\ read' = read /\ write' = write /\ enabled' = enabled /\ id' = id
      /\ byte_buffer' = byte_buffer /\ types' = types /\ pc' = pc
  BY DEF queue, driver
<1>2. Types' /\ Counted' /\ Starting'
  BY <1>1 DEF IInv, Types, Counted, Count, Starting, InboxType, WireType
<1>3. \A x \in Ports : Framed(x)'
  BY <1>1 DEF IInv, Framed, PacketSize
<1>4. ASSUME NEW x \in Ports PROVE InLock(Now, inbox', wire', x) /\ Reports(Now, wire', enabled, scanning', x)
  <2>1. CASE x = d
    BY <2>1
  <2>2. CASE x # d
    BY <2>2 DEF IInv, Consistent, InLock, Quiet, AwaitsAck, AwaitsId, Reports
  <2> QED
    BY <2>1, <2>2
<1>5. Consistent([slots |-> slots', read |-> read', write |-> write'], enabled', inbox', wire', scanning')
  BY <1>1, <1>4 DEF IInv, Consistent, Now
<1> QED
  BY <1>1, <1>2, <1>3, <1>5, NextConsistent DEF IInv

\* A byte is on its way only to the device whose command waits for the acknowledgment.
LEMMA Asked ==
  ASSUME IInv, NEW d \in Ports, inbox[d] # <<>>
  PROVE  LET c == slots[read]
             byte == Head(inbox[d])
         IN
         /\ pc = "done" /\ Owner(Now, d) /\ c.state = "WAIT_ACK" /\ Tail(inbox[d]) = <<>>
         /\ wire[d] = <<>> /\ ~scanning[d] /\ c.device = d
         /\ byte = "F2" => Identifies(c)
         /\ byte = "F4" => TurnsOn(c) /\ LastOfDevice(Now, read) /\ (types[d] = "mouse" => enabled[d])
<1> DEFINE c == slots[read]
<1>1. pc = "done" /\ Now.slots[Now.read] = c /\ Now.slots[read] = c /\ Now.read = read /\ c \in Commands
  BY Bounds DEF IInv, Starting, Types, Now
<1>2. InLock(Now, inbox, wire, d) /\ Reports(Now, wire, enabled, scanning, d)
  BY DEF IInv, Consistent
<1>3. Owner(Now, d) /\ read \in Waiting(Now) /\ Queued(Now, enabled, read) /\ c.device = d
  <2>1. Owner(Now, d)
    BY <1>2 DEF InLock, Quiet
  <2>2. read \in Waiting(Now)
    BY <2>1, Bounds DEF IInv, Owner, Now, Waiting
  <2> QED
    BY <1>1, <2>1, <2>2 DEF IInv, Consistent, QueueOK, Owner
<1> HIDE DEF c
<1>4. c.state = "WAIT_ACK" /\ inbox[d] = <<c.data[c.data_sent + 1]>> /\ wire[d] = <<>>
  BY <1>1, <1>2, <1>3 DEF InLock, Quiet, AwaitsAck, AwaitsId, Queued, Commands, CommandFields, States
<1>5. c.data_sent < c.data_size /\ ~scanning[d]
  BY <1>1, <1>2, <1>3, <1>4 DEF Queued, Reports
<1>6. Head(inbox[d]) = c.data[c.data_sent + 1] /\ Tail(inbox[d]) = <<>>
  BY <1>4
<1>7. Sets(c) => c.data[c.data_sent + 1] \notin {"F2", "F4"}
  BY <1>1, <1>5 DEF Sets, Commands, CommandFields
<1>8. c.data_size = 1 => c.data_sent + 1 = 1
  BY <1>1, <1>5 DEF Commands, CommandFields
<1>9. c.data[c.data_sent + 1] = "F2" => Identifies(c)
  BY <1>1, <1>3, <1>7, <1>8 DEF Queued, Identifies, TurnsOn
<1>10. c.data[c.data_sent + 1] = "F4" =>
         TurnsOn(c) /\ LastOfDevice(Now, read) /\ (types[d] = "mouse" => enabled[d])
  BY <1>1, <1>3, <1>7, <1>8 DEF Queued, Identifies, TurnsOn
<1> QED
  BY <1>1, <1>3, <1>4, <1>5, <1>6, <1>9, <1>10 DEF c

LEMMA AnswerStep ==
  ASSUME IInv, NEW d \in Ports, Answer(d)
  PROVE  IInv'
<1> DEFINE c == slots[read]
           byte == Head(inbox[d])
           param == accepted[d] # <<>> /\ Last(accepted[d]) \in {"F3", "ED", "F0"}
           isRate == param /\ Last(accepted[d]) = "F3"
           last3 == LET all == Append(rates[d], byte) IN IF Len(all) > 3 THEN Tail(all) ELSE all
           ident == ~param /\ byte = "F2"
           on == ~param /\ byte = "F4"
<1>1. /\ inbox[d] # <<>> /\ inbox' = [inbox EXCEPT ![d] = Tail(inbox[d])]
      /\ wire' = [wire EXCEPT ![d] = wire[d] \o IF ident THEN <<ACK, mode[d]>> ELSE <<ACK>>]
      /\ scanning' = [scanning EXCEPT ![d] = scanning[d] \/ on]
      /\ mode' = IF isRate THEN [mode EXCEPT ![d] = NewMode(d, last3)] ELSE mode
      /\ UNCHANGED <<queue, driver, pc, types>>
  BY DEF Answer, IInv, Types
<1> HIDE DEF param, isRate, last3, ident, on
<1>2. /\ pc = "done" /\ Owner(Now, d) /\ c.state = "WAIT_ACK" /\ Tail(inbox[d]) = <<>>
      /\ wire[d] = <<>> /\ ~scanning[d] /\ c.device = d
      /\ ident => Identifies(c)
      /\ on => TurnsOn(c) /\ LastOfDevice(Now, read) /\ (types[d] = "mouse" => enabled[d])
  BY <1>1, Asked DEF ident, on
<1>3. inbox \in InboxType /\ wire \in WireType /\ scanning \in [Ports -> BOOLEAN] /\ mode \in [Ports -> Ids]
  BY DEF IInv, Types, InboxType, WireType
<1>4. mode' \in [Ports -> Ids]
  BY <1>1, <1>3 DEF NewMode, Ids
<1>5. inbox' \in InboxType /\ scanning' \in [Ports -> BOOLEAN]
  BY <1>1, <1>2, <1>3 DEF InboxType
<1>6. wire'[d] = (IF ident THEN <<ACK, mode[d]>> ELSE <<ACK>>) /\ wire' \in WireType
  <2>1. ACK \in WireBytes /\ mode[d] \in WireBytes
    BY <1>3 DEF WireBytes
  <2>2. <<ACK, mode[d]>> \in Seq(WireBytes) /\ <<ACK>> \in Seq(WireBytes)
    BY <2>1
  <2>3. wire[d] \o <<ACK, mode[d]>> = <<ACK, mode[d]>> /\ wire[d] \o <<ACK>> = <<ACK>>
    BY <1>2
  <2> QED
    BY <1>1, <1>3, <2>2, <2>3 DEF WireType
<1>7. inbox'[d] = <<>> /\ scanning'[d] = on
  BY <1>1, <1>2, <1>3 DEF InboxType, on
<1>8. wire'[d] # <<>> /\ wire'[d][1] = ACK /\ \A k \in 1 .. Len(wire'[d]) : wire'[d][k] \notin InputBytes
  <2>1. ACK \notin InputBytes /\ mode[d] \notin InputBytes
    <3>1. mode[d] \in Ids
      BY <1>3
    <3> QED
      BY <3>1 DEF ACK, InputBytes, Ids
  <2> QED
    BY <1>6, <2>1
<1>9. Now.slots[Now.read] = c /\ Now.read = read /\ Now.slots[read] = c
  BY DEF Now
<1> HIDE DEF c
<1>10. InLock(Now, inbox', wire', d)
  <2>1. AckFirst(c, wire'[d])
    <3>1. CASE ident
      BY <1>2, <1>3, <1>6, <3>1 DEF AckFirst
    <3>2. CASE ~ident
      <4>1. wire'[d] = <<ACK>>
        BY <1>6, <3>2
      <4> QED
        BY <4>1 DEF AckFirst
    <3> QED
      BY <3>1, <3>2
  <2> QED
    BY <1>2, <1>7, <1>9, <2>1 DEF InLock, AwaitsAck
<1>11. Reports(Now, wire', enabled, scanning', d)
  <2>1. ASSUME on, NEW i \in Waiting(Now), Now.slots[i].device = d PROVE i = read
    <3>1. i \in read .. write - 1 /\ read \in Nat /\ write \in Nat
      BY Bounds DEF IInv, Waiting, Now
    <3>2. i \in read + 1 .. write - 1 => FALSE
      BY <1>2, <1>9, <2>1 DEF LastOfDevice, Now
    <3> QED
      BY <3>1, <3>2
  <2> QED
    BY <1>2, <1>7, <1>8, <1>9, <2>1 DEF Reports
<1>12. \A x \in Ports : x # d => inbox'[x] = inbox[x] /\ wire'[x] = wire[x] /\ scanning'[x] = scanning[x]
  BY <1>1, <1>3 DEF InboxType, WireType
<1> QED
  BY <1>1, <1>2, <1>4, <1>5, <1>6, <1>10, <1>11, <1>12, DeviceKeeps

LEMMA AskAgainStep ==
  ASSUME IInv, NEW d \in Ports, AskAgain(d)
  PROVE  IInv'
<1>1. /\ inbox[d] # <<>> /\ inbox' = [inbox EXCEPT ![d] = Tail(inbox[d])]
      /\ wire' = [wire EXCEPT ![d] = Append(wire[d], RESEND)]
      /\ scanning' = scanning /\ mode' = mode /\ UNCHANGED <<queue, driver, pc, types>>
  BY DEF AskAgain, devices, IInv, Types
<1>2. /\ pc = "done" /\ Owner(Now, d) /\ slots[read].state = "WAIT_ACK" /\ Tail(inbox[d]) = <<>>
      /\ wire[d] = <<>> /\ ~scanning[d]
  BY <1>1, Asked
<1>3. inbox \in InboxType /\ wire \in WireType /\ scanning \in [Ports -> BOOLEAN] /\ mode \in [Ports -> Ids]
  BY DEF IInv, Types, InboxType, WireType
<1>4. RESEND \in WireBytes /\ RESEND \notin InputBytes
  BY DEF WireBytes, RESEND, InputBytes
<1>5. inbox'[d] = <<>> /\ inbox' \in InboxType /\ wire'[d] = <<RESEND>> /\ wire' \in WireType
  BY <1>1, <1>2, <1>3, <1>4, AppendProperties DEF InboxType, WireType
<1>6. InLock(Now, inbox', wire', d)
  BY <1>2, <1>5 DEF InLock, AwaitsAck, Now
<1>7. Reports(Now, wire', enabled, scanning', d)
  <2>1. \A k \in 1 .. Len(wire'[d]) : wire'[d][k] \notin InputBytes
    BY <1>4, <1>5
  <2> QED
    BY <1>1, <1>2, <2>1 DEF Reports
<1>8. \A x \in Ports : x # d => inbox'[x] = inbox[x] /\ wire'[x] = wire[x] /\ scanning'[x] = scanning[x]
  BY <1>1, <1>3 DEF InboxType, WireType
<1> QED
  BY <1>1, <1>2, <1>3, <1>5, <1>6, <1>7, <1>8, DeviceKeeps

LEMMA StaySilentStep ==
  ASSUME IInv, NEW d \in Ports, StaySilent(d)
  PROVE  IInv'
<1>1. /\ inbox[d] # <<>> /\ inbox' = [inbox EXCEPT ![d] = Tail(inbox[d])] /\ wire' = wire
      /\ scanning' = scanning /\ mode' = mode /\ UNCHANGED <<queue, driver, pc, types>>
  BY DEF StaySilent, devices, IInv, Types
<1>2. /\ pc = "done" /\ Owner(Now, d) /\ slots[read].state = "WAIT_ACK" /\ Tail(inbox[d]) = <<>>
      /\ wire[d] = <<>> /\ ~scanning[d]
  BY <1>1, Asked
<1>3. inbox \in InboxType /\ wire \in WireType /\ scanning \in [Ports -> BOOLEAN] /\ mode \in [Ports -> Ids]
  BY DEF IInv, Types, InboxType, WireType
<1>4. inbox'[d] = <<>> /\ inbox' \in InboxType /\ \A x \in Ports : x # d => inbox'[x] = inbox[x]
  BY <1>1, <1>2, <1>3, AppendProperties DEF InboxType
<1>5. InLock(Now, inbox', wire', d)
  BY <1>1, <1>2, <1>4 DEF InLock, AwaitsAck, Now
<1>6. Reports(Now, wire', enabled, scanning', d)
  BY <1>1 DEF IInv, Consistent
<1> QED
  BY <1>1, <1>2, <1>3, <1>4, <1>5, <1>6, DeviceKeeps

LEMMA PacketType ==
  ASSUME NEW d \in Ports
  PROVE  Packet(d) \in Seq(InputBytes) /\ Len(Packet(d)) \in 1 .. 4
<1> DEFINE p == Packet(d)
<1>1. {"key", "p0", "p1", "p2", "p3"} \subseteq InputBytes
  BY DEF InputBytes
<1>2. CASE types[d] = "keyboard"
  <2>1. p = <<"key">>
    BY <1>2 DEF Packet
  <2> QED
    BY <1>1, <2>1
<1>3. CASE types[d] # "keyboard" /\ mode[d] = "00"
  <2>1. p = <<"p0", "p1", "p2">>
    BY <1>3 DEF Packet
  <2> QED
    BY <1>1, <2>1
<1>4. CASE types[d] # "keyboard" /\ mode[d] # "00"
  <2>1. p = <<"p0", "p1", "p2">> \o <<"p3">>
    BY <1>4 DEF Packet
  <2>2. <<"p0", "p1", "p2">> \in Seq(InputBytes) /\ <<"p3">> \in Seq(InputBytes)
    BY <1>1
  <2> QED
    BY <2>1, <2>2, ConcatProperties
<1> QED
  BY <1>2, <1>3, <1>4

LEMMA InputStep ==
  ASSUME IInv, NEW d \in Ports, Input(d)
  PROVE  IInv'
<1> DEFINE p == Packet(d)
           w == wire[d]
           c == slots[read]
<1>1. /\ scanning[d] /\ wire' = [wire EXCEPT ![d] = w \o p] /\ inbox' = inbox
      /\ scanning' = scanning /\ mode' = mode /\ UNCHANGED <<queue, driver, pc, types>>
  BY DEF Input, devices, IInv, Types
<1>2. inbox \in InboxType /\ wire \in WireType /\ scanning \in [Ports -> BOOLEAN] /\ mode \in [Ports -> Ids]
  BY DEF IInv, Types, InboxType, WireType
<1>3. p \in Seq(InputBytes) /\ Len(p) \in 1 .. 4
  BY PacketType
<1> HIDE DEF p
<1>4. w \in Seq(WireBytes) /\ Len(w) \in Nat
  BY <1>2 DEF WireType
<1>5. /\ w \o p \in Seq(WireBytes) /\ Len(w \o p) = Len(w) + Len(p)
      /\ \A k \in 1 .. Len(w) + Len(p) : (w \o p)[k] = IF k <= Len(w) THEN w[k] ELSE p[k - Len(w)]
  <2>1. p \in Seq(WireBytes)
    <3>1. InputBytes \subseteq WireBytes
      BY DEF WireBytes
    <3> QED
      BY <1>3, <3>1
  <2> QED
    BY <1>4, <2>1, ConcatProperties
<1>6. \A k \in 1 .. Len(w) + Len(p) : k > Len(w) => (w \o p)[k] \in InputBytes
  <2>1. ASSUME NEW k \in 1 .. Len(w) + Len(p), k > Len(w) PROVE (w \o p)[k] \in InputBytes
    <3>1. k - Len(w) \in 1 .. Len(p) /\ (w \o p)[k] = p[k - Len(w)]
      BY <1>3, <1>4, <1>5, <2>1
    <3> QED
      BY <1>3, <3>1, ElementOfSeq
  <2> QED
    BY <2>1
<1>7. wire'[d] = w \o p /\ wire' \in WireType /\ \A x \in Ports : x # d => wire'[x] = wire[x]
  BY <1>1, <1>2, <1>5 DEF WireType
<1> HIDE DEF w
<1>8. InLock(Now, inbox, wire, d) /\ Reports(Now, wire, enabled, scanning, d) /\ w = wire[d]
  BY DEF IInv, Consistent, w
<1>9. pc = "done"
  BY <1>1 DEF IInv, Starting
<1>10. Owner(Now, d) => /\ TurnsOn(c) /\ c.state = "WAIT_ACK" /\ Now.slots[Now.read] = c
                        /\ w # <<>> /\ w[1] = ACK /\ inbox[d] = <<>> /\ \A k \in 2 .. Len(w) : w[k] \in InputBytes
  <2>1. Owner(Now, d) => read \in Waiting(Now) /\ c.device = d /\ Now.slots[Now.read] = c /\ Now.slots[read] = c
    BY Bounds DEF IInv, Owner, Now, Waiting
  <2>2. Owner(Now, d) => TurnsOn(c) /\ c.state = "WAIT_ACK" /\ w # <<>> /\ w[1] = ACK
    BY <1>1, <1>8, <2>1 DEF Reports
  <2>3. ~(TurnsOn(c) /\ Identifies(c))
    BY DEF TurnsOn, Identifies
  <2>4. Owner(Now, d) => AwaitsAck(c, inbox, wire, d) /\ w # <<RESEND>>
    BY <1>8, <2>1, <2>2 DEF InLock, ACK, RESEND
  <2> QED
    BY <1>8, <2>1, <2>2, <2>3, <2>4 DEF AwaitsAck, AckFirst
<1>11. InLock(Now, inbox', wire', d)
  <2>1. CASE ~Owner(Now, d)
    <3>1. inbox[d] = <<>> /\ \A k \in 1 .. Len(w) : w[k] \in InputBytes
      BY <1>8, <2>1 DEF InLock, Quiet
    <3>2. \A k \in 1 .. Len(w) + Len(p) : (w \o p)[k] \in InputBytes
      BY <1>3, <1>4, <1>5, <1>6, <3>1
    <3> QED
      BY <1>1, <1>5, <1>7, <2>1, <3>1, <3>2 DEF InLock, Quiet
  <2>2. CASE Owner(Now, d)
    <3>1. 1 \in 1 .. Len(w)
      BY <1>4, <1>10, <2>2, EmptySeq
    <3>2. (w \o p)[1] = ACK /\ w \o p # <<>>
      BY <1>3, <1>4, <1>5, <1>10, <2>2, <3>1
    <3>3. \A k \in 2 .. Len(w) + Len(p) : (w \o p)[k] \in InputBytes
      BY <1>3, <1>4, <1>5, <1>6, <1>10, <2>2
    <3>4. AckFirst(c, wire'[d])
      BY <1>5, <1>7, <3>2, <3>3 DEF AckFirst
    <3> QED
      BY <1>1, <1>10, <2>2, <3>4 DEF InLock, AwaitsAck
  <2> QED
    BY <2>1, <2>2
<1>12. Reports(Now, wire', enabled, scanning', d)
  <2>1. w # <<>> => w \o p # <<>> /\ (w \o p)[1] = w[1]
    <3>1. w # <<>> => 1 \in 1 .. Len(w)
      BY <1>4, EmptySeq
    <3> QED
      BY <1>3, <1>4, <1>5, <3>1
  <2> QED
    BY <1>1, <1>7, <1>8, <2>1 DEF Reports
<1> QED
  BY <1>1, <1>2, <1>7, <1>9, <1>11, <1>12, DeviceKeeps

-----------------------------------------------------------------------------
(* The initial states, and the theorems *)

\* The setup of a device: at most one of its commands asks for the id or turns reports on,
\* and it is the last.
LEMMA SetupPart ==
  ASSUME types \in [Ports -> Kinds], NEW d \in Ports,
         enabled = [x \in Ports |-> FALSE], id = [x \in Ports |-> "FF"]
  PROVE  LET cmds == InitCommands(types[d], d) IN
         /\ cmds \in Seq(Commands) /\ Len(cmds) = Count(d)
         /\ \A k \in 1 .. Count(d) :
              /\ cmds[k].device = d /\ Untouched(cmds[k]) /\ types[d] # "none"
              /\ k # Count(d) => Sets(cmds[k])
              /\ k = Count(d) => IF types[d] = "mouse" THEN Identifies(cmds[k]) ELSE TurnsOn(cmds[k])
<1>1. CASE types[d] = "keyboard"
  <2>1. InitCommands(types[d], d) = InitKeyboard(d) /\ Count(d) = 3
    BY <1>1 DEF InitCommands, Count
  <2> QED
    BY <1>1, <2>1, KeyboardPart DEF Part
<1>2. CASE types[d] = "mouse"
  <2>1. InitCommands(types[d], d) = Magic(d, "100") /\ Count(d) = 4
    BY <1>2 DEF InitCommands, Count
  <2> QED
    BY <1>2, <2>1, MagicPart DEF Part
<1>3. CASE types[d] = "none"
  <2>1. InitCommands(types[d], d) = <<>> /\ Count(d) = 0
    BY <1>3 DEF InitCommands, Count
  <2> QED
    BY <2>1
<1> QED
  BY <1>1, <1>2, <1>3 DEF Kinds

\* The commands that wait at first are the setup of port 0 and then that of port 1.
LEMMA InitSlots ==
  ASSUME Init
  PROVE  /\ types \in [Ports -> Kinds] /\ enabled = [x \in Ports |-> FALSE] /\ id = [x \in Ports |-> "FF"]
         /\ slots \in [0 .. QueueSize -> Commands] /\ read = 0
         /\ write = Count(0) + Count(1) /\ write \in Nat /\ write < QueueSize
         /\ \A i \in 0 .. write - 1 :
              slots[i] = IF i < Count(0) THEN InitCommands(types[0], 0)[i + 1]
                         ELSE InitCommands(types[1], 1)[i - Count(0) + 1]
<1> DEFINE A == InitCommands(types[0], 0)
           B == InitCommands(types[1], 1)
           a == Count(0)
           b == Count(1)
           q == Appended(EmptyQueue, A \o B)
<1>1. /\ types \in [Ports -> Kinds] /\ enabled = [x \in Ports |-> FALSE] /\ id = [x \in Ports |-> "FF"]
      /\ slots = q.slots /\ read = 0 /\ write = q.write
  BY SetupsAssumption DEF Init, Kinds
<1>2. 0 \in Ports /\ 1 \in Ports /\ a \in 0 .. 10 /\ b \in 0 .. 10
  BY DEF Ports, Count
<1>3. A \in Seq(Commands) /\ Len(A) = a
  BY <1>1, <1>2, SetupPart
<1>4. B \in Seq(Commands) /\ Len(B) = b
  BY <1>1, <1>2, SetupPart
<1>5. EmptyQueue \in QueueType /\ EmptyQueue.read = 0 /\ EmptyQueue.write = 0
  <2>1. [Command(0, "00", 0) EXCEPT !.state = "UNUSED"] \in Commands
    <3>1. Command(0, "00", 0) \in Commands
      <4>1. "00" \in Bytes /\ 0 \in 0 .. 1
        BY DEF Bytes
      <4> QED
        BY <1>2, <4>1, CommandTypes, ZenonT(60)
    <3> QED
      BY <3>1 DEF Commands, CommandFields, States
  <2> QED
    BY <2>1 DEF EmptyQueue, QueueType
<1> HIDE DEF A, B, a, b
<1>6. /\ A \o B \in Seq(Commands) /\ Len(A \o B) = a + b
      /\ \A k \in 1 .. a + b : (A \o B)[k] = IF k <= a THEN A[k] ELSE B[k - a]
  BY <1>3, <1>4, ConcatProperties
<1>7. a + b < QueueSize /\ EmptyQueue.write + Len(A \o B) < QueueSize /\ EmptyQueue.read <= EmptyQueue.write
  BY <1>2, <1>5, <1>6, QueueSizeAssumption
<1>8. /\ q \in QueueType /\ write = a + b /\ write \in Nat
      /\ \A i \in 0 .. write - 1 : slots[i] = (A \o B)[i + 1]
  <2> DEFINE e == EmptyQueue
             cmds == A \o B
  <2>1. e \in QueueType /\ cmds \in Seq(Commands) /\ e.read <= e.write /\ e.write + Len(cmds) < QueueSize
    BY <1>5, <1>6, <1>7
  <2> HIDE DEF e, cmds
  <2>2. LET x == Appended(e, cmds) IN
        /\ x \in QueueType /\ x.write = e.write + Len(cmds)
        /\ \A i \in e.write .. x.write - 1 : x.slots[i] = cmds[i - e.write + 1]
    BY <2>1, AppendFits
  <2>3. q = Appended(e, cmds)
    BY DEF e, cmds
  <2> HIDE DEF q
  <2>4. e.write = 0 /\ Len(cmds) = a + b
    BY <1>5, <1>6 DEF e, cmds
  <2>5. write = a + b /\ write \in Nat
    BY <1>1, <1>2, <2>2, <2>3, <2>4
  <2>6. \A i \in 0 .. write - 1 : slots[i] = cmds[i + 1]
    BY <1>1, <2>2, <2>3, <2>4, <2>5
  <2> QED
    BY <2>2, <2>3, <2>5, <2>6 DEF cmds
<1> HIDE DEF q
<1>9. ASSUME NEW i \in 0 .. write - 1
      PROVE  slots[i] = IF i < a THEN A[i + 1] ELSE B[i - a + 1]
  <2>1. slots[i] = (A \o B)[i + 1] /\ i + 1 \in 1 .. a + b
    <3>1. slots[i] = (A \o B)[i + 1]
      BY <1>8
    <3>2. a + b \in Nat /\ write = a + b
      BY <1>2, <1>8
    <3> QED
      BY <3>1, <3>2
  <2>2. (i + 1) - a = i - a + 1 /\ (i + 1 <= a <=> i < a)
    BY <1>1, <1>2, <1>8
  <2> QED
    BY <1>6, <2>1, <2>2
<1>10. slots \in [0 .. QueueSize -> Commands]
  BY <1>1, <1>8 DEF QueueType
<1> QED
  BY <1>1, <1>7, <1>8, <1>9, <1>10 DEF a, b, A, B

LEMMA InitQueue ==
  ASSUME Init
  PROVE  QueueOK(Now, enabled) /\ (write # 0 => Untouched(slots[0]))
<1> DEFINE A == InitCommands(types[0], 0)
           B == InitCommands(types[1], 1)
           a == Count(0)
           b == Count(1)
<1>1. /\ types \in [Ports -> Kinds] /\ enabled = [x \in Ports |-> FALSE] /\ id = [x \in Ports |-> "FF"]
      /\ slots \in [0 .. QueueSize -> Commands] /\ read = 0
  BY InitSlots
<1>2. 0 \in Ports /\ 1 \in Ports /\ a \in 0 .. 10 /\ b \in 0 .. 10
  BY DEF Ports, Count
<1>3. /\ A \in Seq(Commands) /\ Len(A) = a
      /\ \A k \in 1 .. a :
           /\ A[k].device = 0 /\ Untouched(A[k]) /\ types[0] # "none"
           /\ k # a => Sets(A[k])
           /\ k = a => IF types[0] = "mouse" THEN Identifies(A[k]) ELSE TurnsOn(A[k])
  BY <1>1, <1>2, SetupPart
<1>4. /\ B \in Seq(Commands) /\ Len(B) = b
      /\ \A k \in 1 .. b :
           /\ B[k].device = 1 /\ Untouched(B[k]) /\ types[1] # "none"
           /\ k # b => Sets(B[k])
           /\ k = b => IF types[1] = "mouse" THEN Identifies(B[k]) ELSE TurnsOn(B[k])
  BY <1>1, <1>2, SetupPart
<1>5. write = a + b /\ write \in Nat /\ write < QueueSize
  BY InitSlots
<1>6. \A i \in 0 .. write - 1 : slots[i] = IF i < a THEN A[i + 1] ELSE B[i - a + 1]
  BY InitSlots
<1> HIDE DEF A, B, a, b
<1>7. Now.slots = slots /\ Now.read = 0 /\ Now.write = write /\ Waiting(Now) = 0 .. write - 1
  BY <1>1 DEF Now, Waiting
<1>8. \A d \in Ports : ~enabled[d]
  BY <1>1
<1>9. ASSUME NEW i \in 0 .. write - 1 PROVE Queued(Now, enabled, i) /\ Untouched(slots[i])
  <2>1. slots[i] \in Commands
    <3>1. i \in 0 .. QueueSize
      BY <1>5, QueueSizeAssumption
    <3> QED
      BY <1>1, <3>1
  <2>2. Untouched(slots[i]) => slots[i].state = "NORMAL" /\ slots[i].data_sent < slots[i].data_size
    BY <2>1 DEF Untouched, Commands, CommandFields
  <2>3. CASE i < a
    <3>1. i + 1 \in 1 .. a /\ slots[i] = A[i + 1]
      BY <1>2, <1>6, <2>3
    <3>2. i + 1 = a => LastOfDevice(Now, i)
      <4>1. ASSUME i + 1 = a, NEW j \in i + 1 .. write - 1 PROVE slots[j].device = 1
        <5>1. j \in 0 .. write - 1 /\ ~(j < a) /\ j - a + 1 \in 1 .. b
          BY <1>1, <1>2, <1>5, <4>1
        <5>2. slots[j] = B[j - a + 1]
          BY <1>6, <5>1
        <5> QED
          BY <1>4, <5>1, <5>2
      <4> QED
        BY <1>3, <1>7, <3>1, <4>1 DEF LastOfDevice
    <3>3. /\ slots[i].device = 0 /\ Untouched(slots[i]) /\ types[0] # "none"
          /\ i + 1 # a => Sets(slots[i])
          /\ i + 1 = a => IF types[0] = "mouse" THEN Identifies(slots[i]) ELSE TurnsOn(slots[i])
      BY <1>3, <3>1
    <3> QED
      BY <1>2, <1>7, <1>8, <2>2, <3>2, <3>3 DEF Queued
  <2>4. CASE ~(i < a)
    <3> DEFINE k == i - a + 1
    <3>1. k \in 1 .. b /\ slots[i] = B[k] /\ (k = b <=> i = write - 1)
      <4>1. a \in Nat /\ b \in Nat /\ write = a + b
        BY <1>2, <1>5
      <4>2. k \in 1 .. b /\ (k = b <=> i = write - 1)
        BY <2>4, <4>1
      <4>3. slots[i] = B[k]
        BY <1>6, <2>4
      <4> QED
        BY <4>2, <4>3
    <3>2. i = write - 1 => LastOfDevice(Now, i)
      BY <1>7 DEF LastOfDevice
    <3> HIDE DEF k
    <3>3. /\ slots[i].device = 1 /\ Untouched(slots[i]) /\ types[1] # "none"
          /\ k # b => Sets(slots[i])
          /\ k = b => IF types[1] = "mouse" THEN Identifies(slots[i]) ELSE TurnsOn(slots[i])
      BY <1>4, <3>1
    <3> QED
      BY <1>2, <1>7, <1>8, <2>2, <3>1, <3>2, <3>3 DEF Queued
  <2> QED
    BY <2>3, <2>4
<1>10. QueueOK(Now, enabled)
  BY <1>7, <1>9 DEF QueueOK
<1>11. write # 0 => Untouched(slots[0])
  <2>1. write # 0 => 0 \in 0 .. write - 1
    BY <1>5
  <2> QED
    BY <1>9, <2>1
<1> QED
  BY <1>10, <1>11

LEMMA InitIInv ==
  ASSUME Init
  PROVE  IInv
<1>1. /\ types \in [Ports -> Kinds] /\ slots \in [0 .. QueueSize -> Commands] /\ read = 0
      /\ write = Count(0) + Count(1) /\ QueueOK(Now, enabled)
      /\ write # 0 => slots[0].state = "NORMAL"
  BY InitSlots, InitQueue DEF Untouched
<1>2. /\ types \in Setups /\ enabled = [d \in Ports |-> FALSE] /\ id = [d \in Ports |-> "FF"]
      /\ byte_buffer = [d \in Ports |-> <<>>] /\ pc = "look"
      /\ inbox = [d \in Ports |-> <<>>] /\ wire = [d \in Ports |-> <<>>]
      /\ scanning = [d \in Ports |-> FALSE] /\ mode = [d \in Ports |-> "00"]
  BY DEF Init
<1>3. Types
  BY <1>1, <1>2 DEF Types, Ids
<1>4. Counted
  BY <1>1, <1>2 DEF Counted, Count
<1>5. Starting
  BY <1>1, <1>2 DEF Starting
<1>6. \A d \in Ports : Framed(d)
  BY <1>2 DEF Framed, PacketSize
<1>7. ASSUME NEW d \in Ports PROVE InLock(Now, inbox, wire, d) /\ Reports(Now, wire, enabled, scanning, d)
  <2>1. inbox[d] = <<>> /\ wire[d] = <<>> /\ Len(wire[d]) = 0 /\ ~scanning[d]
    BY <1>2
  <2>2. Quiet(inbox, wire, d)
    BY <2>1 DEF Quiet
  <2>3. Owner(Now, d) => Now.slots[Now.read].state = "NORMAL"
    BY <1>1 DEF Owner, Now
  <2> QED
    BY <2>1, <2>2, <2>3 DEF InLock, Reports
<1> QED
  BY <1>1, <1>3, <1>4, <1>5, <1>6, <1>7 DEF IInv, Consistent

LEMMA NextStep ==
  ASSUME IInv, [Next]_vars
  PROVE  IInv'
<1>1. CASE Look
  BY <1>1, LookStep
<1>2. CASE Mark
  <2>1. pc = "mark" /\ pc' = "send" /\ slots' = [slots EXCEPT ![read].state = "WAIT_ACK"]
        /\ UNCHANGED <<driver, devices>> /\ read' = read /\ write' = write /\ wire' = wire /\ inbox' = inbox
    BY <1>2 DEF Mark
  <2> QED
    BY <2>1, StateChanges
<1>3. CASE Send
  BY <1>3, SendStep
<1>4. CASE SendTimeout
  <2>1. pc = "send" /\ pc' = "done" /\ slots' = [slots EXCEPT ![read].state = "NORMAL"]
        /\ UNCHANGED <<driver, devices>> /\ read' = read /\ write' = write /\ wire' = wire /\ inbox' = inbox
    BY <1>4 DEF SendTimeout
  <2> QED
    BY <2>1, StateChanges
<1>5. ASSUME NEW d \in Ports, IrqHandler(d) PROVE IInv'
  BY <1>5, IrqStep
<1>6. ASSUME NEW d \in Ports, Answer(d) PROVE IInv'
  BY <1>6, AnswerStep
<1>7. ASSUME NEW d \in Ports, AskAgain(d) PROVE IInv'
  BY <1>7, AskAgainStep
<1>8. ASSUME NEW d \in Ports, StaySilent(d) PROVE IInv'
  BY <1>8, StaySilentStep
<1>9. ASSUME NEW d \in Ports, Input(d) PROVE IInv'
  BY <1>9, InputStep
<1>10. CASE UNCHANGED vars
  <2>1. /\ UNCHANGED <<driver, devices>> /\ slots' = slots /\ read' = read /\ write' = write /\ pc' = pc
        /\ inbox' = inbox /\ wire' = wire /\ scanning' = scanning
    BY <1>10 DEF vars, queue, devices
  <2>2. Starting'
    BY <2>1 DEF IInv, Starting
  <2> QED
    BY <2>1, <2>2, MainKeeps DEF IInv, Types, Now, InboxType
<1> QED
  BY <1>1, <1>2, <1>3, <1>4, <1>5, <1>6, <1>7, <1>8, <1>9, <1>10 DEF Next, Main

\* The setup never needs more of the ring than there is, commands are sent one byte at a
\* time, and each device's answer comes before anything else it sends.
THEOREM LockStepInvariant == Spec => []IInv
BY InitIInv, NextStep, PTL DEF Spec

LEMMA TypesOK ==
  ASSUME IInv
  PROVE  TypeOK /\ RingNeverWraps
<1>1. /\ types \in Setups /\ slots \in [0 .. QueueSize -> Commands]
      /\ enabled \in [Ports -> BOOLEAN] /\ id \in [Ports -> Ids \cup {"FF"}] /\ mode \in [Ports -> Ids]
      /\ byte_buffer \in [Ports -> Seq(InputBytes)] /\ pc \in {"look", "mark", "send", "done"}
      /\ inbox \in [Ports -> Seq(Bytes)] /\ wire \in [Ports -> Seq(WireBytes)]
  BY DEF IInv, Types
<1>2. read \in 0 .. QueueSize /\ write \in 0 .. QueueSize - 1 /\ RingNeverWraps
  BY Bounds, QueueSizeAssumption DEF IInv, RingNeverWraps
<1>3. ASSUME NEW i \in DOMAIN slots
      PROVE  /\ slots[i].device \in Ports /\ slots[i].data \in [1 .. 2 -> Bytes]
             /\ slots[i].data_size \in 1 .. 2 /\ slots[i].data_sent \in 0 .. slots[i].data_size
             /\ slots[i].resp_size \in 0 .. 1
             /\ slots[i].state \in {"NORMAL", "WAIT_ACK", "WAIT_RESP", "UNUSED"}
  <2>1. slots[i] \in Commands
    BY <1>1
  <2> QED
    BY <2>1 DEF Commands, CommandFields, States
<1>4. ASSUME NEW S, NEW s \in Seq(S) PROVE Range(s) \subseteq S
  <2>1. \A k \in DOMAIN s : s[k] \in S
    BY <1>4, LenProperties, ElementOfSeq
  <2> QED
    BY <2>1 DEF Range
<1>5. ASSUME NEW d \in Ports
      PROVE  /\ enabled[d] \in BOOLEAN /\ id[d] \in Ids \cup {"FF"} /\ mode[d] \in Ids
             /\ Range(inbox[d]) \subseteq Bytes
             /\ Range(wire[d]) \subseteq {ACK, RESEND} \cup Ids \cup InputBytes
             /\ Range(byte_buffer[d]) \subseteq InputBytes /\ Len(byte_buffer[d]) <= 3
  <2>1. inbox[d] \in Seq(Bytes) /\ wire[d] \in Seq(WireBytes) /\ byte_buffer[d] \in Seq(InputBytes)
    BY <1>1
  <2>2. Len(byte_buffer[d]) \in Nat /\ Len(byte_buffer[d]) < PacketSize(d) /\ PacketSize(d) \in {3, 4}
    BY <2>1, LenProperties DEF IInv, Framed, PacketSize
  <2>3. /\ Range(inbox[d]) \subseteq Bytes /\ Range(wire[d]) \subseteq WireBytes
        /\ Range(byte_buffer[d]) \subseteq InputBytes
    BY <1>4, <2>1
  <2> QED
    BY <1>1, <2>2, <2>3 DEF WireBytes
<1> QED
  BY <1>1, <1>2, <1>3, <1>5 DEF TypeOK

LEMMA OnlyTheOwner ==
  ASSUME IInv, NEW d \in Ports
  PROVE  /\ Outstanding(d) => read # write /\ slots[read].device = d
         /\ Outstanding(d) => slots[read].state \in {"WAIT_ACK", "WAIT_RESP"}
         /\ Outstanding(d) => Len(inbox[d]) <= 1 /\ (inbox[d] # <<>> => AnswersAt(d) = {})
         /\ Outstanding(d) => AnswersAt(d) \subseteq 1 .. 1 + slots[read].resp_size
<1> DEFINE c == slots[read]
<1>1. /\ Now.slots[Now.read] = c /\ Now.slots[read] = c /\ Now.read = read /\ Now.write = write /\ c \in Commands
      /\ InLock(Now, inbox, wire, d) /\ wire[d] \in Seq(WireBytes) /\ Len(wire[d]) \in Nat
      /\ DOMAIN wire[d] = 1 .. Len(wire[d])
  BY Bounds DEF IInv, Types, Now, Consistent
<1> HIDE DEF c
<1>2. SUFFICES ASSUME Outstanding(d)
               PROVE  /\ read # write /\ c.device = d /\ c.state \in {"WAIT_ACK", "WAIT_RESP"}
                      /\ Len(inbox[d]) <= 1 /\ (inbox[d] # <<>> => AnswersAt(d) = {})
                      /\ AnswersAt(d) \subseteq 1 .. 1 + c.resp_size
  BY <1>2 DEF c
<1>3. ~Quiet(inbox, wire, d)
  BY <1>1, <1>2 DEF Outstanding, AnswersAt, Quiet
<1>4. Owner(Now, d) /\ c.state # "NORMAL"
  BY <1>1, <1>3 DEF InLock
<1>5. read # write /\ c.device = d
  BY <1>1, <1>4 DEF Owner
<1>6. c.state \in {"WAIT_ACK", "WAIT_RESP"}
  <2>1. read \in Waiting(Now)
    BY <1>1, <1>5, Bounds DEF IInv, Waiting
  <2>2. c.state # "UNUSED"
    BY <1>1, <2>1 DEF IInv, Consistent, QueueOK, Queued
  <2> QED
    BY <1>1, <1>4, <2>2 DEF Commands, CommandFields, States
<1>7. c.resp_size \in 0 .. 1 /\ Len(<<>>) = 0
  BY <1>1 DEF Commands, CommandFields
<1>8. CASE c.state = "WAIT_ACK"
  <2>1. AwaitsAck(c, inbox, wire, d)
    BY <1>1, <1>4, <1>8 DEF InLock
  <2>2. CASE inbox[d] # <<>>
    <3>1. Len(inbox[d]) = 1 /\ wire[d] = <<>>
      BY <2>1, <2>2 DEF AwaitsAck
    <3>2. AnswersAt(d) = {}
      BY <3>1 DEF AnswersAt
    <3> QED
      BY <1>5, <1>6, <3>1, <3>2
  <2>3. CASE inbox[d] = <<>>
    <3>1. \A k \in DOMAIN wire[d] : k = 1 \/ wire[d][k] \in InputBytes \/ (c.resp_size = 1 /\ k = 2)
      <4>1. CASE wire[d] = <<>> \/ wire[d] = <<RESEND>>
        BY <4>1
      <4>2. CASE AckFirst(c, wire[d])
        BY <1>1, <4>2 DEF AckFirst, Identifies
      <4> QED
        BY <2>1, <2>3, <4>1, <4>2 DEF AwaitsAck
    <3>2. AnswersAt(d) \subseteq 1 .. 1 + c.resp_size
      BY <1>7, <3>1 DEF AnswersAt
    <3> QED
      BY <1>5, <1>6, <1>7, <2>3, <3>2
  <2> QED
    BY <2>2, <2>3
<1>9. CASE c.state = "WAIT_RESP"
  <2>1. AwaitsId(c, inbox, wire, d)
    BY <1>1, <1>4, <1>9 DEF InLock
  <2>2. inbox[d] = <<>> /\ \A k \in DOMAIN wire[d] : k = 1
    <3>1. inbox[d] = <<>> /\ (wire[d] = <<>> \/ Len(wire[d]) = 1)
      BY <2>1 DEF AwaitsId
    <3>2. CASE wire[d] = <<>>
      BY <3>1, <3>2
    <3>3. CASE Len(wire[d]) = 1
      <4>1. \A k \in 1 .. 1 : k = 1
        OBVIOUS
      <4> QED
        BY <1>1, <3>1, <3>3, <4>1
    <3> QED
      BY <3>1, <3>2, <3>3
  <2>3. AnswersAt(d) \subseteq 1 .. 1 + c.resp_size
    BY <1>7, <2>2 DEF AnswersAt
  <2> QED
    BY <1>5, <1>6, <1>7, <2>2, <2>3
<1> QED
  BY <1>6, <1>8, <1>9

\* The devices answer in lock step with the queue, however they are set up, whatever is
\* asked for again and whatever is lost: the callbacks of ps2.c, mouse.c and keyboard.c
\* never meet a byte they would take for something else.
THEOREM DevicesInLockStep == Spec => []OneOutstanding
<1>1. ASSUME IInv PROVE OneOutstanding
  <2>1. \A d \in Ports : Outstanding(d) => ~Outstanding(1 - d)
    <3>1. ASSUME NEW d \in Ports, Outstanding(d), Outstanding(1 - d) PROVE FALSE
      <4>1. 1 - d \in Ports /\ 1 - d # d
        BY DEF Ports
      <4>2. slots[read].device = d /\ slots[read].device = 1 - d
        BY <1>1, <3>1, <4>1, OnlyTheOwner
      <4> QED
        BY <4>1, <4>2
    <3> QED
      BY <3>1
  <2> QED
    BY <1>1, <2>1, TypesOK, OnlyTheOwner DEF OneOutstanding
<1> QED
  BY <1>1, LockStepInvariant, PTL

-----------------------------------------------------------------------------
(* The order of the commands.  The second invariant says where each queued     *)
(* command stands in the program of its device.                                *)

\* How much of its program was queued for a device, and where the last part of that begins.
Total(d, e, ids) ==
  IF types[d] # "mouse" \/ e[d] THEN Len(Program(d)) ELSE IF ids[d] = "03" THEN 14 ELSE 7
Since(d, e, ids) ==
  IF types[d] # "mouse" THEN 0 ELSE IF e[d] THEN Len(Program(d)) - 3 ELSE IF ids[d] = "03" THEN 7 ELSE 0

\* The commands of a device that were ever queued are its program: off[i] counts the bytes in
\* the slots before i, and a is how many there are before the head.
Size(c, d) == IF c.device = d THEN c.data_size ELSE 0
Carries(c, d, n) == c.device = d => \A k \in 1 .. c.data_size : c.data[k] = Program(d)[n + k]
Ordered(s, w, d, off) ==
  \A i \in 0 .. w - 1 :
    off[i + 1] = off[i] + Size(s[i], d) /\ off[i + 1] <= off[w] /\ Carries(s[i], d, off[i])
Placed(q, e, ids, a, d) ==
  \E off \in [0 .. q.write -> Nat] :
    /\ Ordered(q.slots, q.write, d, off) /\ off[q.write] = Total(d, e, ids)
    /\ off[q.read] = a /\ Since(d, e, ids) <= a

\* The bytes of the command at the head that were accepted.
Acked(w) == IF w # <<>> /\ w[1] = ACK THEN 1 ELSE 0
Taken(q, wi, d) ==
  IF ~Owner(q, d) THEN 0
  ELSE LET c == q.slots[q.read] IN c.data_sent + (IF c.state = "WAIT_ACK" THEN Acked(wi[d]) ELSE 0)
AllSent(q) ==
  q.read # q.write /\ q.slots[q.read].state = "WAIT_RESP" =>
    q.slots[q.read].data_sent = q.slots[q.read].data_size
InOrder(q, e, ids, wi, ac, d) == Placed(q, e, ids, Len(ac[d]) - Taken(q, wi, d), d)
\* The mode and the last rates of a mouse that can do c, after n bytes.
ModeAt(c, n) == IF c = "00" \/ n < 6 THEN "00" ELSE IF c = "04" /\ n >= 13 THEN "04" ELSE "03"
RatesAt(c, n) ==
  IF n < 2 THEN <<>>
  ELSE IF n < 4 THEN <<"200">>
  ELSE IF n < 6 THEN <<"200", "100">>
  ELSE IF n < 9 THEN <<"200", "100", "80">>
  ELSE IF c = "00" THEN <<"100", "80", "100">>
  ELSE IF n < 11 THEN <<"100", "80", "200">>
  ELSE IF n < 13 THEN <<"80", "200", "200">>
  ELSE IF n < 16 THEN <<"200", "200", "80">> ELSE <<"200", "80", "100">>

\* What a device accepted is the beginning of its program, and a mouse does what that says.
SoFar(d) ==
  /\ Len(accepted[d]) <= Len(Program(d))
  /\ \A k \in 1 .. Len(accepted[d]) : accepted[d][k] = Program(d)[k]
  /\ types[d] = "mouse" =>
       mode[d] = ModeAt(cap[d], Len(accepted[d])) /\ rates[d] = RatesAt(cap[d], Len(accepted[d]))
Knows(e, ids, d) == types[d] = "mouse" => IF e[d] THEN ids[d] = cap[d] ELSE ids[d] = "03" => cap[d] # "00"
Tells(wi, d) == \A k \in 1 .. Len(wi[d]) : wi[d][k] \in Ids => wi[d][k] = mode[d]
OrderInv ==
  /\ accepted \in [Ports -> Seq(Bytes)] /\ cap \in [Ports -> Ids] /\ DOMAIN rates = Ports
  /\ AllSent(Now)
  /\ \A d \in Ports : /\ SoFar(d) /\ InOrder(Now, enabled, id, wire, accepted, d)
                      /\ Knows(enabled, id, d) /\ Tells(wire, d)

-----------------------------------------------------------------------------
(* Commands in their order *)

\* What the places of the commands depend on.
Alike(s, s2, w) == \A i \in 0 .. w - 1 :
  s2[i].device = s[i].device /\ s2[i].data = s[i].data /\ s2[i].data_size = s[i].data_size

LEMMA SameOrder ==
  ASSUME NEW s, NEW s2, NEW w \in Nat, NEW d \in Ports, NEW off, Ordered(s, w, d, off), Alike(s, s2, w)
  PROVE  Ordered(s2, w, d, off)
<1>1. ASSUME NEW i \in 0 .. w - 1
      PROVE  off[i + 1] = off[i] + Size(s2[i], d) /\ off[i + 1] <= off[w] /\ Carries(s2[i], d, off[i])
  <2>1. off[i + 1] = off[i] + Size(s[i], d) /\ off[i + 1] <= off[w] /\ Carries(s[i], d, off[i])
    BY DEF Ordered
  <2>2. s2[i].device = s[i].device /\ s2[i].data = s[i].data /\ s2[i].data_size = s[i].data_size
    BY DEF Alike
  <2>3. Size(s2[i], d) = Size(s[i], d) /\ (Carries(s[i], d, off[i]) => Carries(s2[i], d, off[i]))
    BY <2>2 DEF Size, Carries
  <2> QED
    BY <2>1, <2>3
<1> QED
  BY <1>1 DEF Ordered

LEMMA SamePlaced ==
  ASSUME NEW q \in QueueType, NEW q2 \in QueueType, NEW e, NEW ids, NEW a, NEW d \in Ports,
         Placed(q, e, ids, a, d), q2.write = q.write, q2.read = q.read, Alike(q.slots, q2.slots, q.write)
  PROVE  Placed(q2, e, ids, a, d)
<1>1. PICK off \in [0 .. q.write -> Nat] :
        /\ Ordered(q.slots, q.write, d, off) /\ off[q.write] = Total(d, e, ids) /\ off[q.read] = a
        /\ Since(d, e, ids) <= a
  BY DEF Placed
<1>2. Ordered(q2.slots, q2.write, d, off)
  BY <1>1, SameOrder DEF QueueType
<1> QED
  BY <1>1, <1>2 DEF Placed

\* The command at the head has its bytes from byte a + 1 of the program.
Continues(c, d, a, total) ==
  a + c.data_size <= total /\ \A k \in 1 .. c.data_size : c.data[k] = Program(d)[a + k]
LEMMA HeadPlaced ==
  ASSUME NEW q \in QueueType, q.read < q.write, q.write < QueueSize, NEW e, NEW ids, NEW a, NEW d \in Ports,
         Placed(q, e, ids, a, d), q.slots[q.read].device = d
  PROVE  Continues(q.slots[q.read], d, a, Total(d, e, ids))
<1>1. PICK off \in [0 .. q.write -> Nat] :
        /\ Ordered(q.slots, q.write, d, off) /\ off[q.write] = Total(d, e, ids) /\ off[q.read] = a
  BY DEF Placed
<1>2. q.read \in 0 .. q.write - 1
  BY DEF QueueType
<1> QED
  BY <1>1, <1>2 DEF Ordered, Size, Carries, Continues

LEMMA PoppedPlaced ==
  ASSUME NEW q \in QueueType, NEW q2 \in QueueType, NEW e, NEW ids, NEW a, NEW d \in Ports,
         Placed(q, e, ids, a, d), q.read < q.write, q.write < QueueSize, q2.write = q.write,
         q2.read = q.read + 1, Alike(q.slots, q2.slots, q.write)
  PROVE  Placed(q2, e, ids, a + Size(q.slots[q.read], d), d)
<1>1. PICK off \in [0 .. q.write -> Nat] :
        /\ Ordered(q.slots, q.write, d, off) /\ off[q.write] = Total(d, e, ids) /\ off[q.read] = a
        /\ Since(d, e, ids) <= a
  BY DEF Placed
<1>2. q.read \in 0 .. q.write - 1 /\ q.read \in 0 .. QueueSize /\ q.slots[q.read] \in Commands
  BY QueueSizeAssumption DEF QueueType
<1>3. off[q.read + 1] = a + Size(q.slots[q.read], d)
  BY <1>1, <1>2 DEF Ordered
<1>4. Size(q.slots[q.read], d) \in Nat /\ a \in Nat /\ Since(d, e, ids) \in Int
  <2>1. Size(q.slots[q.read], d) \in Nat
    BY <1>2 DEF Size, Commands, CommandFields
  <2>2. Len(Program(d)) \in Nat
    BY DEF Program
  <2>3. a \in Nat
    BY <1>1, <1>2 DEF QueueType
  <2> QED
    BY <2>1, <2>2, <2>3 DEF Since
<1>5. Ordered(q2.slots, q2.write, d, off)
  BY <1>1, SameOrder DEF QueueType
<1>6. Since(d, e, ids) <= a + Size(q.slots[q.read], d)
  BY <1>1, <1>4
<1> QED
  BY <1>1, <1>3, <1>5, <1>6 DEF Placed

\* Where the commands cmds go in the program: sz counts their bytes, n in all.
Pieces(cmds, d, t, n) ==
  \E sz \in [0 .. Len(cmds) -> Nat] :
    /\ sz[0] = 0 /\ sz[Len(cmds)] = n
    /\ \A k \in 1 .. Len(cmds) :
         sz[k] = sz[k - 1] + Size(cmds[k], d) /\ sz[k] <= n /\ Carries(cmds[k], d, t + sz[k - 1])

Runs(s, w, d, off, t) == off \in [0 .. w -> Nat] /\ Ordered(s, w, d, off) /\ off[w] = t
Adds(s, s2, w, cmds) ==
  /\ \A i \in 0 .. w - 1 : s2[i] = s[i]
  /\ \A i \in w .. w + Len(cmds) - 1 : s2[i] = cmds[i - w + 1]

Grown(s, v, d, off, w, t) == \E off2 : Runs(s, v, d, off2, t) /\ \A i \in 0 .. w : off2[i] = off[i]

LEMMA Longer ==
  ASSUME NEW s, NEW s2, NEW w \in Nat, NEW d \in Ports, NEW cmds \in Seq(Commands), NEW t \in Nat, NEW n \in Nat,
         NEW off, Runs(s, w, d, off, t), Pieces(cmds, d, t, n), Adds(s, s2, w, cmds)
  PROVE  Grown(s2, w + Len(cmds), d, off, w, t + n)
<1>0. /\ off \in [0 .. w -> Nat] /\ Ordered(s, w, d, off) /\ off[w] = t
      /\ \A i \in 0 .. w - 1 : s2[i] = s[i]
      /\ \A i \in w .. w + Len(cmds) - 1 : s2[i] = cmds[i - w + 1]
  BY DEF Runs, Adds
<1>1. PICK m \in Nat : m = Len(cmds)
  BY LenProperties
<1>2. PICK sz \in [0 .. m -> Nat] :
        /\ sz[0] = 0 /\ sz[m] = n
        /\ \A k \in 1 .. m :
             sz[k] = sz[k - 1] + Size(cmds[k], d) /\ sz[k] <= n /\ Carries(cmds[k], d, t + sz[k - 1])
  BY <1>1 DEF Pieces
<1> DEFINE off2 == [i \in 0 .. w + m |-> IF i <= w THEN off[i] ELSE t + sz[i - w]]
<1>3. ASSUME NEW i \in 0 .. w + m PROVE off2[i] = (IF i <= w THEN off[i] ELSE t + sz[i - w]) /\ off2[i] \in Nat
  <2>1. i > w => i - w \in 0 .. m /\ sz[i - w] \in Nat
    <3>1. i > w => i - w \in 0 .. m
      BY <1>1
    <3> QED
      BY <1>2, <3>1
  <2>2. i <= w => i \in 0 .. w /\ off[i] \in Nat
    BY <1>0
  <2>3. off2[i] = IF i <= w THEN off[i] ELSE t + sz[i - w]
    OBVIOUS
  <2> HIDE DEF off2
  <2> QED
    BY <2>1, <2>2, <2>3
<1>4. off2 \in [0 .. w + m -> Nat]
  BY <1>3
<1> HIDE DEF off2
<1>5. ASSUME NEW i \in w .. w + m PROVE off2[i] = t + sz[i - w]
  <2>1. i \in 0 .. w + m /\ (i = w \/ i > w)
    OBVIOUS
  <2>2. CASE i = w
    <3>1. i - w = 0 /\ i <= w
      BY <2>2
    <3>2. off2[i] = off[w]
      BY <1>3, <2>1, <2>2, <3>1
    <3> QED
      BY <1>0, <1>2, <3>1, <3>2
  <2>3. CASE i > w
    <3>1. ~(i <= w)
      BY <2>3
    <3> QED
      BY <1>3, <2>1, <3>1
  <2> QED
    BY <2>1, <2>2, <2>3
<1>6. off2[w + m] = t + n
  <2>1. w + m \in w .. w + m /\ w + m - w = m
    BY <1>1
  <2> QED
    BY <1>2, <1>5, <2>1
<1>7. ASSUME NEW i \in 0 .. w + m - 1
      PROVE  /\ off2[i + 1] = off2[i] + Size(s2[i], d) /\ off2[i + 1] <= t + n
             /\ Carries(s2[i], d, off2[i])
  <2>1. CASE i < w
    <3>1. i \in 0 .. w - 1 /\ i \in 0 .. w /\ i + 1 \in 0 .. w /\ i \in 0 .. w + m /\ i + 1 \in 0 .. w + m
      BY <2>1
    <3>2. off2[i] = off[i] /\ off2[i + 1] = off[i + 1] /\ s2[i] = s[i]
      BY <1>0, <1>3, <3>1
    <3>3. off[i + 1] = off[i] + Size(s[i], d) /\ off[i + 1] <= t /\ Carries(s[i], d, off[i]) /\ off[i + 1] \in Nat
      BY <1>0, <3>1 DEF Ordered
    <3> QED
      BY <3>2, <3>3
  <2>2. CASE ~(i < w)
    <3>1. PICK k \in 1 .. m : k = i - w + 1
      BY <1>1, <2>2
    <3>2. i \in w .. w + m /\ i + 1 \in w .. w + m /\ i \in w .. w + m - 1 /\ i - w = k - 1 /\ i + 1 - w = k
      BY <2>2, <3>1
    <3>3. off2[i] = t + sz[k - 1] /\ off2[i + 1] = t + sz[k] /\ s2[i] = cmds[k]
      <4>1. s2[i] = cmds[k]
        BY <1>0, <1>1, <3>1, <3>2
      <4>2. off2[i] = t + sz[k - 1] /\ off2[i + 1] = t + sz[k]
        BY SMTT(60), <1>5, <3>2
      <4> QED
        BY <4>1, <4>2
    <3>4. sz[k] = sz[k - 1] + Size(cmds[k], d) /\ sz[k] <= n /\ Carries(cmds[k], d, t + sz[k - 1])
          /\ sz[k] \in Nat /\ sz[k - 1] \in Nat
      BY <1>2, <3>1
    <3>5. Size(cmds[k], d) \in Int
      <4>1. cmds[k] \in Commands
        BY <1>1, <3>1, ElementOfSeq
      <4> QED
        BY <4>1 DEF Size, Commands, CommandFields
    <3>6. Carries(s2[i], d, off2[i]) /\ Size(s2[i], d) = Size(cmds[k], d)
      BY <3>3, <3>4, Zenon
    <3>7. PICK x \in Nat, y \in Nat, z \in Int : x = sz[k - 1] /\ y = sz[k] /\ z = Size(cmds[k], d)
      BY <3>4, <3>5
    <3>8. off2[i] = t + x /\ off2[i + 1] = t + y /\ Size(s2[i], d) = z /\ y = x + z /\ y <= n
      BY <3>3, <3>4, <3>6, <3>7
    <3> QED
      BY SMTT(60), <3>6, <3>8
  <2> QED
    BY <2>1, <2>2
<1>8. Ordered(s2, w + m, d, off2)
  BY <1>6, <1>7 DEF Ordered
<1>9. \A i \in 0 .. w : off2[i] = off[i]
  BY <1>3
<1> QED
  BY <1>1, <1>4, <1>6, <1>8, <1>9 DEF Runs, Grown

\* With room for them, commands that carry on the program go behind the others.
LEMMA MorePlaced ==
  ASSUME NEW q \in QueueType, q.read <= q.write, NEW cmds \in Seq(Commands), q.write + Len(cmds) < QueueSize,
         NEW e, NEW ids, NEW e2, NEW ids2, NEW a, NEW d \in Ports, Placed(q, e, ids, a, d),
         NEW n \in Nat, Pieces(cmds, d, Total(d, e, ids), n),
         Total(d, e2, ids2) = Total(d, e, ids) + n, Since(d, e2, ids2) <= a
  PROVE  Placed(Appended(q, cmds), e2, ids2, a, d)
<1> DEFINE b == Appended(q, cmds)
<1>1. /\ b.read = q.read /\ b.write = q.write + Len(cmds) /\ q.write \in Nat /\ q.read \in 0 .. q.write
      /\ \A i \in 0 .. q.write - 1 : b.slots[i] = q.slots[i]
      /\ \A i \in q.write .. b.write - 1 : b.slots[i] = cmds[i - q.write + 1]
  BY AppendFits DEF QueueType
<1> HIDE DEF b
<1>2. PICK off \in [0 .. q.write -> Nat] :
        /\ Ordered(q.slots, q.write, d, off) /\ off[q.write] = Total(d, e, ids) /\ off[q.read] = a
  BY DEF Placed
<1>3. Total(d, e, ids) \in Nat
  BY <1>1, <1>2
<1>4. PICK w \in Nat, t \in Nat : w = q.write /\ t = Total(d, e, ids)
  BY <1>1, <1>3
<1>5. Runs(q.slots, w, d, off, t) /\ Adds(q.slots, b.slots, w, cmds) /\ Pieces(cmds, d, t, n)
  <2>1. Runs(q.slots, w, d, off, t)
    BY <1>2, <1>4 DEF Runs
  <2>2. PICK v : v = w + Len(cmds) /\ b.write = v
    BY <1>1, <1>4
  <2>3. /\ \A i \in 0 .. w - 1 : b.slots[i] = q.slots[i]
        /\ \A i \in w .. v - 1 : b.slots[i] = cmds[i - w + 1]
    BY <1>1, <1>4, <2>2
  <2>4. Adds(q.slots, b.slots, w, cmds)
    BY <2>2, <2>3 DEF Adds
  <2> QED
    BY <1>4, <2>1, <2>4
<1>6. Grown(b.slots, w + Len(cmds), d, off, w, t + n)
  BY <1>5, Longer
<1>7. PICK off2 : Runs(b.slots, b.write, d, off2, t + n) /\ \A i \in 0 .. w : off2[i] = off[i]
  BY <1>1, <1>4, <1>6 DEF Grown
<1> QED
  BY <1>1, <1>2, <1>4, <1>7 DEF Placed, Runs, b

LEMMA PartPieces ==
  ASSUME NEW d \in Ports, NEW n \in 1 .. 4, NEW final \in {"F2", "F4"}, NEW cmds, Part(cmds, d, n, final), NEW t \in Nat,
         \A k \in 1 .. n : \A j \in 1 .. cmds[k].data_size : cmds[k].data[j] = Program(d)[t + 2 * (k - 1) + j]
  PROVE  Pieces(cmds, d, t, 2 * n - 1)
<1> DEFINE sz == [k \in 0 .. n |-> IF k = n THEN 2 * n - 1 ELSE 2 * k]
<1>1. \A k \in 0 .. n : sz[k] = (IF k = n THEN 2 * n - 1 ELSE 2 * k) /\ sz[k] \in Nat
  OBVIOUS
<1>2. sz \in [0 .. n -> Nat] /\ sz[0] = 0 /\ sz[n] = 2 * n - 1
  BY <1>1
<1> HIDE DEF sz
<1>3. ASSUME NEW k \in 1 .. n
      PROVE  /\ sz[k] = sz[k - 1] + Size(cmds[k], d) /\ sz[k] <= 2 * n - 1
             /\ Carries(cmds[k], d, t + sz[k - 1])
  <2>1. cmds[k].device = d /\ cmds[k].data_size = (IF k = n THEN 1 ELSE 2)
    <3>1. k # n => k \in 1 .. n - 1
      OBVIOUS
    <3> QED
      BY <3>1 DEF Part, Sets, Identifies, TurnsOn
  <2>2. sz[k - 1] = 2 * (k - 1) /\ sz[k] = (IF k = n THEN 2 * n - 1 ELSE 2 * k)
    BY <1>1
  <2>3. Size(cmds[k], d) = IF k = n THEN 1 ELSE 2
    BY <2>1 DEF Size
  <2>4. Carries(cmds[k], d, t + sz[k - 1])
    BY <2>2 DEF Carries
  <2> QED
    BY <2>2, <2>3, <2>4
<1>4. Len(cmds) = n
  BY DEF Part
<1> QED
  BY <1>2, <1>3, <1>4 DEF Pieces

LEMMA OtherPieces ==
  ASSUME NEW d \in Ports, NEW n \in 1 .. 4, NEW final, NEW cmds, Part(cmds, d, n, final), NEW t,
         NEW x \in Ports, x # d
  PROVE  Pieces(cmds, x, t, 0)
<1> DEFINE sz == [k \in 0 .. n |-> 0]
<1>1. \A k \in 1 .. n : cmds[k].device # x
  BY DEF Part
<1>2. sz \in [0 .. n -> Nat] /\ sz[0] = 0 /\ sz[n] = 0
  OBVIOUS
<1>3. ASSUME NEW k \in 1 .. n
      PROVE  sz[k] = sz[k - 1] + Size(cmds[k], x) /\ sz[k] <= 0 /\ Carries(cmds[k], x, t + sz[k - 1])
  <2>1. sz[k] = 0 /\ sz[k - 1] = 0 /\ Size(cmds[k], x) = 0
    BY <1>1 DEF Size
  <2>2. Carries(cmds[k], x, t + sz[k - 1])
    BY <1>1 DEF Carries
  <2> QED
    BY <2>1, <2>2
<1>4. Len(cmds) = n
  BY DEF Part
<1> QED
  BY <1>2, <1>3, <1>4 DEF Pieces

LEMMA Data ==
  ASSUME NEW d, NEW b, NEW b1, NEW n
  PROVE  /\ Command(d, b, n).data_size = 1 /\ Command(d, b, n).data[1] = b
         /\ WithData(d, b, b1).data_size = 2 /\ WithData(d, b, b1).data[1] = b /\ WithData(d, b, b1).data[2] = b1
BY DEF Command, WithData, NewCommand

\* Each part of the setup carries its part of the program.
LEMMA MagicPieces ==
  ASSUME NEW d \in Ports, types[d] = "mouse", NEW r \in {"100", "200"}, NEW t,
         (r = "100" /\ t = 0) \/ (r = "200" /\ t = 7 /\ cap[d] # "00")
  PROVE  Pieces(Magic(d, r), d, t, 7)
<1> DEFINE P == Program(d)
           cmds == Magic(d, r)
<1>1. /\ P[t + 1] = "F3" /\ P[t + 2] = "200" /\ P[t + 3] = "F3" /\ P[t + 4] = r
      /\ P[t + 5] = "F3" /\ P[t + 6] = "80" /\ P[t + 7] = "F2"
  <2>1. CASE r = "100" /\ t = 0
    BY <2>1 DEF Program
  <2>2. CASE r = "200" /\ t = 7 /\ cap[d] # "00"
    BY <2>2 DEF Program
  <2> QED
    BY <2>1, <2>2
<1> HIDE DEF P
<1>2. /\ cmds[1] = Rate(d, "200") /\ cmds[2] = Rate(d, r) /\ cmds[3] = Rate(d, "80") /\ cmds[4] = Command(d, "F2", 1)
  BY DEF Magic
<1> HIDE DEF cmds
<1>3. ASSUME NEW k \in 1 .. 4, NEW j \in 1 .. cmds[k].data_size
      PROVE  cmds[k].data[j] = P[t + 2 * (k - 1) + j]
  <2>1. t \in Nat
    OBVIOUS
  <2>2. CASE k = 4
    <3>1. j = 1 /\ cmds[k].data[1] = "F2" /\ t + 2 * (k - 1) + j = t + 7
      BY <1>2, <2>1, <2>2, Data
    <3> QED
      BY <1>1, <3>1
  <2>3. CASE k # 4
    <3>1. /\ j \in 1 .. 2 /\ cmds[k].data[1] = "F3"
          /\ cmds[k].data[2] = (IF k = 1 THEN "200" ELSE IF k = 2 THEN r ELSE "80")
      BY <1>2, <2>3, Data DEF Rate
    <3>2. k \in {1, 2, 3} /\ j \in {1, 2}
      BY <2>3, <3>1
    <3> QED
      BY <1>1, <2>1, <3>1, <3>2
  <2> QED
    BY <2>2, <2>3
<1>4. Pieces(cmds, d, t, 2 * 4 - 1)
  <2>1. Part(cmds, d, 4, "F2")
    BY MagicPart DEF cmds
  <2> QED
    BY <1>3, <2>1, PartPieces DEF P
<1> QED
  BY <1>4 DEF cmds

LEMMA FinishPieces ==
  ASSUME NEW d \in Ports, types[d] = "mouse", NEW t, t = IF cap[d] = "00" THEN 7 ELSE 14
  PROVE  Pieces(Finish(d), d, t, 3)
<1> DEFINE P == Program(d)
           cmds == Finish(d)
<1>1. P[t + 1] = "F3" /\ P[t + 2] = "100" /\ P[t + 3] = "F4"
  BY DEF Program
<1> HIDE DEF P
<1>2. cmds[1] = Rate(d, "100") /\ cmds[2] = Command(d, "F4", 0)
  BY DEF Finish
<1> HIDE DEF cmds
<1>3. ASSUME NEW k \in 1 .. 2, NEW j \in 1 .. cmds[k].data_size
      PROVE  cmds[k].data[j] = P[t + 2 * (k - 1) + j]
  <2>1. t \in Nat
    OBVIOUS
  <2>2. CASE k = 2
    <3>1. j = 1 /\ cmds[k].data[1] = "F4" /\ t + 2 * (k - 1) + j = t + 3
      BY <1>2, <2>1, <2>2, Data
    <3> QED
      BY <1>1, <3>1
  <2>3. CASE k = 1
    <3>1. j \in {1, 2} /\ cmds[k].data[1] = "F3" /\ cmds[k].data[2] = "100" /\ t + 2 * (k - 1) + j = t + j
      BY <1>2, <2>1, <2>3, Data DEF Rate
    <3> QED
      BY <1>1, <3>1
  <2> QED
    BY <2>2, <2>3
<1>4. Pieces(cmds, d, t, 2 * 2 - 1)
  <2>1. Part(cmds, d, 2, "F4") /\ t \in Nat
    BY FinishPart DEF cmds
  <2> QED
    BY <1>3, <2>1, PartPieces DEF P
<1> QED
  BY <1>4 DEF cmds

LEMMA KeyboardPieces ==
  ASSUME NEW d \in Ports, types[d] = "keyboard"
  PROVE  Pieces(InitKeyboard(d), d, 0, 5)
<1> DEFINE P == Program(d)
           cmds == InitKeyboard(d)
<1>1. P[1] = "ED" /\ P[2] = "00" /\ P[3] = "F0" /\ P[4] = "02" /\ P[5] = "F4"
  BY DEF Program
<1> HIDE DEF P
<1>2. cmds[1] = WithData(d, "ED", "00") /\ cmds[2] = WithData(d, "F0", "02") /\ cmds[3] = Command(d, "F4", 0)
  BY DEF InitKeyboard
<1> HIDE DEF cmds
<1>3. ASSUME NEW k \in 1 .. 3, NEW j \in 1 .. cmds[k].data_size
      PROVE  cmds[k].data[j] = P[0 + 2 * (k - 1) + j]
  <2>1. CASE k = 3
    <3>1. j = 1 /\ cmds[k].data[1] = "F4" /\ 0 + 2 * (k - 1) + j = 5
      BY <1>2, <2>1, Data
    <3> QED
      BY <1>1, <3>1
  <2>2. CASE k # 3
    <3>1. /\ j \in {1, 2} /\ k \in {1, 2} /\ cmds[k].data[1] = (IF k = 1 THEN "ED" ELSE "F0")
          /\ cmds[k].data[2] = (IF k = 1 THEN "00" ELSE "02")
      BY <1>2, <2>2, Data
    <3> QED
      BY <1>1, <3>1
  <2> QED
    BY <2>1, <2>2
<1>4. Pieces(cmds, d, 0, 2 * 3 - 1)
  <2>1. Part(cmds, d, 3, "F4")
    BY KeyboardPart DEF cmds
  <2> QED
    BY <1>3, <2>1, PartPieces DEF P
<1> QED
  BY <1>4 DEF cmds

-----------------------------------------------------------------------------
(* What a mouse does with the rates of its program *)

Last3(r, byte) == LET all == Append(r, byte) IN IF Len(all) > 3 THEN Tail(all) ELSE all

LEMMA Last3Is ==
  ASSUME NEW r, NEW b, NEW all, all = Append(r, b)
  PROVE  Last3(r, b) = IF Len(all) > 3 THEN Tail(all) ELSE all
BY DEF Last3

LEMMA Shift0 ==
  ASSUME NEW b \in Bytes
  PROVE  Last3(<<>>, b) = <<b>>
<1>1. Append(<<>>, b) = <<b>> /\ Len(<<b>>) = 1
  OBVIOUS
<1> QED
  BY <1>1 DEF Last3

LEMMA Shift1 ==
  ASSUME NEW x \in Bytes, NEW b \in Bytes
  PROVE  Last3(<<x>>, b) = <<x, b>>
<1>1. <<x>> \in Seq(Bytes) /\ <<x, b>> \in Seq(Bytes) /\ Len(<<x>>) = 1 /\ Len(<<x, b>>) = 2
  OBVIOUS
<1>2. PICK all : all = Append(<<x>>, b)
  OBVIOUS
<1>3. all \in Seq(Bytes) /\ Len(all) = 2 /\ \A i \in 1 .. 2 : all[i] = <<x, b>>[i]
  BY <1>1, <1>2, AppendProperties
<1>4. all = <<x, b>>
  BY <1>1, <1>3, SeqEqual
<1>5. Last3(<<x>>, b) = IF Len(all) > 3 THEN Tail(all) ELSE all
  BY <1>2, Last3Is
<1> QED
  BY <1>3, <1>4, <1>5

LEMMA Shift2 ==
  ASSUME NEW x \in Bytes, NEW y \in Bytes, NEW b \in Bytes
  PROVE  Last3(<<x, y>>, b) = <<x, y, b>>
<1>1. <<x, y>> \in Seq(Bytes) /\ <<x, y, b>> \in Seq(Bytes) /\ Len(<<x, y>>) = 2 /\ Len(<<x, y, b>>) = 3
  OBVIOUS
<1>2. PICK all : all = Append(<<x, y>>, b)
  OBVIOUS
<1>3. all \in Seq(Bytes) /\ Len(all) = 3 /\ \A i \in 1 .. 3 : all[i] = <<x, y, b>>[i]
  BY <1>1, <1>2, AppendProperties
<1>4. all = <<x, y, b>>
  BY <1>1, <1>3, SeqEqual
<1>5. Last3(<<x, y>>, b) = IF Len(all) > 3 THEN Tail(all) ELSE all
  BY <1>2, Last3Is
<1> QED
  BY <1>3, <1>4, <1>5

LEMMA Shift3 ==
  ASSUME NEW x \in Bytes, NEW y \in Bytes, NEW z \in Bytes, NEW b \in Bytes
  PROVE  Last3(<<x, y, z>>, b) = <<y, z, b>>
<1>1. <<x, y, z>> \in Seq(Bytes) /\ <<x, y, z, b>> \in Seq(Bytes) /\ Len(<<x, y, z>>) = 3 /\ Len(<<x, y, z, b>>) = 4
  OBVIOUS
<1>2. PICK all : all = Append(<<x, y, z>>, b)
  OBVIOUS
<1>3. all \in Seq(Bytes) /\ Len(all) = 4 /\ \A i \in 1 .. 4 : all[i] = <<x, y, z, b>>[i]
  BY <1>1, <1>2, AppendProperties
<1>4. all = <<x, y, z, b>>
  BY <1>1, <1>3, SeqEqual
<1>5. all # <<>> /\ <<y, z, b>> \in Seq(Bytes) /\ Len(<<y, z, b>>) = 3
  BY <1>3
<1>6. PICK rest : rest = Tail(all)
  OBVIOUS
<1>7. rest \in Seq(Bytes) /\ Len(rest) = Len(all) - 1 /\ \A i \in 1 .. Len(rest) : rest[i] = all[i + 1]
  BY <1>3, <1>5, <1>6, HeadTailProperties
<1>8. Len(rest) = 3 /\ \A i \in 1 .. 3 : rest[i] = <<y, z, b>>[i]
  <2>1. Len(rest) = 3
    BY <1>3, <1>7
  <2>2. rest[1] = y /\ rest[2] = z /\ rest[3] = b
    BY <1>4, <1>7, <2>1
  <2> QED
    BY <2>1, <2>2
<1>9. rest = <<y, z, b>>
  BY <1>5, <1>7, <1>8, SeqEqual
<1>10. Last3(<<x, y, z>>, b) = IF Len(all) > 3 THEN rest ELSE all
  BY <1>2, <1>6, Last3Is
<1>11. Len(all) > 3
  BY <1>3
<1> QED
  BY <1>9, <1>10, <1>11

LEMMA Modes ==
  ASSUME NEW d, NEW x, NEW y, NEW z
  PROVE  /\ NewMode(d, <<x>>) = mode[d] /\ NewMode(d, <<x, y>>) = mode[d]
         /\ NewMode(d, <<x, y, z>>) =
              IF x = "200" /\ y = "100" /\ z = "80" /\ cap[d] \in {"03", "04"} THEN "03"
              ELSE IF x = "200" /\ y = "200" /\ z = "80" /\ cap[d] = "04" THEN "04" ELSE mode[d]
<1>1. NewMode(d, <<x>>) = mode[d]
  BY DEF NewMode
<1>2. NewMode(d, <<x, y>>) = mode[d]
  BY DEF NewMode
<1>3. NewMode(d, <<x, y, z>>) =
        IF x = "200" /\ y = "100" /\ z = "80" /\ cap[d] \in {"03", "04"} THEN "03"
        ELSE IF x = "200" /\ y = "200" /\ z = "80" /\ cap[d] = "04" THEN "04" ELSE mode[d]
  BY DEF NewMode
<1> QED
  BY <1>1, <1>2, <1>3

RateAt(d, n) == n > 0 /\ Program(d)[n] = "F3"
LEMMA RatesFollow ==
  ASSUME NEW d \in Ports, types[d] = "mouse", cap[d] \in Ids, NEW n \in 0 .. Len(Program(d)) - 1,
         mode[d] = ModeAt(cap[d], n)
  PROVE  LET last3 == Last3(RatesAt(cap[d], n), Program(d)[n + 1]) IN
         /\ RateAt(d, n) => RatesAt(cap[d], n + 1) = last3 /\ ModeAt(cap[d], n + 1) = NewMode(d, last3)
         /\ ~RateAt(d, n) => RatesAt(cap[d], n + 1) = RatesAt(cap[d], n) /\ ModeAt(cap[d], n + 1) = ModeAt(cap[d], n)
<1> DEFINE P == Program(d)
           c == cap[d]
           last3 == Last3(RatesAt(c, n), P[n + 1])
<1> SUFFICES /\ RateAt(d, n) => RatesAt(c, n + 1) = last3 /\ ModeAt(c, n + 1) = NewMode(d, last3)
             /\ ~RateAt(d, n) => RatesAt(c, n + 1) = RatesAt(c, n) /\ ModeAt(c, n + 1) = ModeAt(c, n)
  OBVIOUS
<1>0. {"200", "100", "80"} \subseteq Bytes /\ c = cap[d] /\ mode[d] = ModeAt(c, n)
  BY DEF Bytes
<1>1. CASE c = "00"
  <2>1. P = <<"F3", "200", "F3", "100", "F3", "80", "F2", "F3", "100", "F4">> /\ Len(P) = 10
    BY <1>1 DEF Program
  <2>2. n \in {0, 1, 2, 3, 4, 5, 6, 7, 8, 9}
    BY <2>1
  <2>3. RateAt(d, n) <=> n \in {1, 3, 5, 8}
    BY <2>1, <2>2 DEF RateAt
  <2> HIDE DEF P, c, last3
  <2>4. CASE n = 1
    <3>1. P[n + 1] = "200" /\ n + 1 = 2 /\ RateAt(d, n)
      BY <2>1, <2>3, <2>4
    <3>2. RatesAt(c, n) = <<>> /\ RatesAt(c, n + 1) = <<"200">>
      BY <1>1, <3>1, <2>4 DEF RatesAt
    <3>3. last3 = <<"200">>
      <4>1. Last3(<<>>, "200") = <<"200">>
        BY <1>0, Shift0
      <4> QED
        BY <3>1, <3>2, <4>1 DEF last3
    <3>4. ModeAt(c, n + 1) = NewMode(d, <<"200">>)
      <4>1. NewMode(d, <<"200">>) = mode[d]
        BY Modes
      <4> QED
        BY <1>0, <1>1, <3>1, <2>4, <4>1 DEF ModeAt
    <3> QED
      BY <3>1, <3>2, <3>3, <3>4
  <2>5. CASE n = 3
    <3>1. P[n + 1] = "100" /\ n + 1 = 4 /\ RateAt(d, n)
      BY <2>1, <2>3, <2>5
    <3>2. RatesAt(c, n) = <<"200">> /\ RatesAt(c, n + 1) = <<"200", "100">>
      BY <1>1, <3>1, <2>5 DEF RatesAt
    <3>3. last3 = <<"200", "100">>
      <4>1. Last3(<<"200">>, "100") = <<"200", "100">>
        BY <1>0, Shift1
      <4> QED
        BY <3>1, <3>2, <4>1 DEF last3
    <3>4. ModeAt(c, n + 1) = NewMode(d, <<"200", "100">>)
      <4>1. NewMode(d, <<"200", "100">>) = mode[d]
        BY Modes
      <4> QED
        BY <1>0, <1>1, <3>1, <2>5, <4>1 DEF ModeAt
    <3> QED
      BY <3>1, <3>2, <3>3, <3>4
  <2>6. CASE n = 5
    <3>1. P[n + 1] = "80" /\ n + 1 = 6 /\ RateAt(d, n)
      BY <2>1, <2>3, <2>6
    <3>2. RatesAt(c, n) = <<"200", "100">> /\ RatesAt(c, n + 1) = <<"200", "100", "80">>
      BY <1>1, <3>1, <2>6 DEF RatesAt
    <3>3. last3 = <<"200", "100", "80">>
      <4>1. Last3(<<"200", "100">>, "80") = <<"200", "100", "80">>
        BY <1>0, Shift2
      <4> QED
        BY <3>1, <3>2, <4>1 DEF last3
    <3>4. ModeAt(c, n + 1) = NewMode(d, <<"200", "100", "80">>)
      <4>1. NewMode(d, <<"200", "100", "80">>) = (IF cap[d] \in {"03", "04"} THEN "03" ELSE mode[d])
        BY Modes
      <4> QED
        BY <1>0, <1>1, <3>1, <2>6, <4>1 DEF ModeAt
    <3> QED
      BY <3>1, <3>2, <3>3, <3>4
  <2>7. CASE n = 8
    <3>1. P[n + 1] = "100" /\ n + 1 = 9 /\ RateAt(d, n)
      BY <2>1, <2>3, <2>7
    <3>2. RatesAt(c, n) = <<"200", "100", "80">> /\ RatesAt(c, n + 1) = <<"100", "80", "100">>
      BY <1>1, <3>1, <2>7 DEF RatesAt
    <3>3. last3 = <<"100", "80", "100">>
      <4>1. Last3(<<"200", "100", "80">>, "100") = <<"100", "80", "100">>
        BY <1>0, Shift3
      <4> QED
        BY <3>1, <3>2, <4>1 DEF last3
    <3>4. ModeAt(c, n + 1) = NewMode(d, <<"100", "80", "100">>)
      <4>1. NewMode(d, <<"100", "80", "100">>) = mode[d]
        BY Modes
      <4> QED
        BY <1>0, <1>1, <3>1, <2>7, <4>1 DEF ModeAt
    <3> QED
      BY <3>1, <3>2, <3>3, <3>4
  <2>8. CASE n \in {0, 2, 4, 6, 7, 9}
    BY <1>1, <2>3, <2>8 DEF RatesAt, ModeAt, c
  <2> QED
    BY <2>2, <2>4, <2>5, <2>6, <2>7, <2>8
<1>2. CASE c \in {"03", "04"}
  <2>1. /\ P = <<"F3", "200", "F3", "100", "F3", "80", "F2", "F3", "200", "F3", "200", "F3", "80", "F2",
                 "F3", "100", "F4">>
        /\ Len(P) = 17
    BY <1>2 DEF Program
  <2>2. n \in {0, 1, 2, 3, 4, 5, 6, 7, 8, 9, 10, 11, 12, 13, 14, 15, 16}
    BY <2>1
  <2>3. RateAt(d, n) <=> n \in {1, 3, 5, 8, 10, 12, 15}
    BY <2>1, <2>2 DEF RateAt
  <2> HIDE DEF P, c, last3
  <2>4. CASE n = 1
    <3>1. P[n + 1] = "200" /\ n + 1 = 2 /\ RateAt(d, n)
      BY <2>1, <2>3, <2>4
    <3>2. RatesAt(c, n) = <<>> /\ RatesAt(c, n + 1) = <<"200">>
      BY <1>2, <3>1, <2>4 DEF RatesAt
    <3>3. last3 = <<"200">>
      <4>1. Last3(<<>>, "200") = <<"200">>
        BY <1>0, Shift0
      <4> QED
        BY <3>1, <3>2, <4>1 DEF last3
    <3>4. ModeAt(c, n + 1) = NewMode(d, <<"200">>)
      <4>1. NewMode(d, <<"200">>) = mode[d]
        BY Modes
      <4> QED
        BY <1>0, <1>2, <3>1, <2>4, <4>1 DEF ModeAt
    <3> QED
      BY <3>1, <3>2, <3>3, <3>4
  <2>5. CASE n = 3
    <3>1. P[n + 1] = "100" /\ n + 1 = 4 /\ RateAt(d, n)
      BY <2>1, <2>3, <2>5
    <3>2. RatesAt(c, n) = <<"200">> /\ RatesAt(c, n + 1) = <<"200", "100">>
      BY <1>2, <3>1, <2>5 DEF RatesAt
    <3>3. last3 = <<"200", "100">>
      <4>1. Last3(<<"200">>, "100") = <<"200", "100">>
        BY <1>0, Shift1
      <4> QED
        BY <3>1, <3>2, <4>1 DEF last3
    <3>4. ModeAt(c, n + 1) = NewMode(d, <<"200", "100">>)
      <4>1. NewMode(d, <<"200", "100">>) = mode[d]
        BY Modes
      <4> QED
        BY <1>0, <1>2, <3>1, <2>5, <4>1 DEF ModeAt
    <3> QED
      BY <3>1, <3>2, <3>3, <3>4
  <2>6. CASE n = 5
    <3>1. P[n + 1] = "80" /\ n + 1 = 6 /\ RateAt(d, n)
      BY <2>1, <2>3, <2>6
    <3>2. RatesAt(c, n) = <<"200", "100">> /\ RatesAt(c, n + 1) = <<"200", "100", "80">>
      BY <1>2, <3>1, <2>6 DEF RatesAt
    <3>3. last3 = <<"200", "100", "80">>
      <4>1. Last3(<<"200", "100">>, "80") = <<"200", "100", "80">>
        BY <1>0, Shift2
      <4> QED
        BY <3>1, <3>2, <4>1 DEF last3
    <3>4. ModeAt(c, n + 1) = NewMode(d, <<"200", "100", "80">>)
      <4>1. NewMode(d, <<"200", "100", "80">>) = (IF cap[d] \in {"03", "04"} THEN "03" ELSE mode[d])
        BY Modes
      <4> QED
        BY <1>0, <1>2, <3>1, <2>6, <4>1 DEF ModeAt
    <3> QED
      BY <3>1, <3>2, <3>3, <3>4
  <2>7. CASE n = 8
    <3>1. P[n + 1] = "200" /\ n + 1 = 9 /\ RateAt(d, n)
      BY <2>1, <2>3, <2>7
    <3>2. RatesAt(c, n) = <<"200", "100", "80">> /\ RatesAt(c, n + 1) = <<"100", "80", "200">>
      BY <1>2, <3>1, <2>7 DEF RatesAt
    <3>3. last3 = <<"100", "80", "200">>
      <4>1. Last3(<<"200", "100", "80">>, "200") = <<"100", "80", "200">>
        BY <1>0, Shift3
      <4> QED
        BY <3>1, <3>2, <4>1 DEF last3
    <3>4. ModeAt(c, n + 1) = NewMode(d, <<"100", "80", "200">>)
      <4>1. NewMode(d, <<"100", "80", "200">>) = mode[d]
        BY Modes
      <4> QED
        BY <1>0, <1>2, <3>1, <2>7, <4>1 DEF ModeAt
    <3> QED
      BY <3>1, <3>2, <3>3, <3>4
  <2>8. CASE n = 10
    <3>1. P[n + 1] = "200" /\ n + 1 = 11 /\ RateAt(d, n)
      BY <2>1, <2>3, <2>8
    <3>2. RatesAt(c, n) = <<"100", "80", "200">> /\ RatesAt(c, n + 1) = <<"80", "200", "200">>
      BY <1>2, <3>1, <2>8 DEF RatesAt
    <3>3. last3 = <<"80", "200", "200">>
      <4>1. Last3(<<"100", "80", "200">>, "200") = <<"80", "200", "200">>
        BY <1>0, Shift3
      <4> QED
        BY <3>1, <3>2, <4>1 DEF last3
    <3>4. ModeAt(c, n + 1) = NewMode(d, <<"80", "200", "200">>)
      <4>1. NewMode(d, <<"80", "200", "200">>) = mode[d]
        BY Modes
      <4> QED
        BY <1>0, <1>2, <3>1, <2>8, <4>1 DEF ModeAt
    <3> QED
      BY <3>1, <3>2, <3>3, <3>4
  <2>9. CASE n = 12
    <3>1. P[n + 1] = "80" /\ n + 1 = 13 /\ RateAt(d, n)
      BY <2>1, <2>3, <2>9
    <3>2. RatesAt(c, n) = <<"80", "200", "200">> /\ RatesAt(c, n + 1) = <<"200", "200", "80">>
      BY <1>2, <3>1, <2>9 DEF RatesAt
    <3>3. last3 = <<"200", "200", "80">>
      <4>1. Last3(<<"80", "200", "200">>, "80") = <<"200", "200", "80">>
        BY <1>0, Shift3
      <4> QED
        BY <3>1, <3>2, <4>1 DEF last3
    <3>4. ModeAt(c, n + 1) = NewMode(d, <<"200", "200", "80">>)
      <4>1. NewMode(d, <<"200", "200", "80">>) = (IF cap[d] = "04" THEN "04" ELSE mode[d])
        BY Modes
      <4> QED
        BY <1>0, <1>2, <3>1, <2>9, <4>1 DEF ModeAt
    <3> QED
      BY <3>1, <3>2, <3>3, <3>4
  <2>10. CASE n = 15
    <3>1. P[n + 1] = "100" /\ n + 1 = 16 /\ RateAt(d, n)
      BY <2>1, <2>3, <2>10
    <3>2. RatesAt(c, n) = <<"200", "200", "80">> /\ RatesAt(c, n + 1) = <<"200", "80", "100">>
      BY <1>2, <3>1, <2>10 DEF RatesAt
    <3>3. last3 = <<"200", "80", "100">>
      <4>1. Last3(<<"200", "200", "80">>, "100") = <<"200", "80", "100">>
        BY <1>0, Shift3
      <4> QED
        BY <3>1, <3>2, <4>1 DEF last3
    <3>4. ModeAt(c, n + 1) = NewMode(d, <<"200", "80", "100">>)
      <4>1. NewMode(d, <<"200", "80", "100">>) = mode[d]
        BY Modes
      <4> QED
        BY <1>0, <1>2, <3>1, <2>10, <4>1 DEF ModeAt
    <3> QED
      BY <3>1, <3>2, <3>3, <3>4
  <2>11. CASE n \in {0, 2, 4, 6, 7, 9, 11, 13, 14, 16}
    <3>1. ~RateAt(d, n) /\ n \in Nat
      BY SMTT(60), <2>3, <2>11
    <3>2. ModeAt(c, n + 1) = ModeAt(c, n)
      BY <1>2, <2>11 DEF ModeAt
    <3>3. RatesAt(c, n + 1) = RatesAt(c, n)
      <4>1. CASE n \in {0, 2, 4, 6, 7}
        BY <1>2, <4>1 DEF RatesAt
      <4>2. CASE n \in {9, 11, 13, 14, 16}
        BY <1>2, <4>2 DEF RatesAt
      <4> QED
        BY <2>11, <4>1, <4>2
    <3> QED
      BY <3>1, <3>2, <3>3
  <2> QED
    BY <2>2, <2>4, <2>5, <2>6, <2>7, <2>8, <2>9, <2>10, <2>11
<1> QED
  BY <1>1, <1>2 DEF Ids

-----------------------------------------------------------------------------
(* The steps *)

LEMMA NextOrder ==
  ASSUME types' = types, cap' = cap, NEW d \in Ports, NEW a,
         Placed([slots |-> slots', read |-> read', write |-> write'], enabled', id', a, d),
         a = Len(accepted'[d]) - Taken([slots |-> slots', read |-> read', write |-> write'], wire', d)
  PROVE  InOrder(Now, enabled, id, wire, accepted, d)'
<1>1. /\ Taken([slots |-> slots', read |-> read', write |-> write'], wire', d) = Taken(Now, wire, d)'
  BY DEF Taken, Owner, Acked, Now
<1>2. Placed(Now, enabled, id, a, d)'
  <2>1. Program(d)' = Program(d)
    BY DEF Program
  <2>2. Total(d, enabled, id)' = Total(d, enabled', id') /\ Since(d, enabled, id)' = Since(d, enabled', id')
    BY <2>1 DEF Total, Since
  <2>3. PICK off \in [0 .. write' -> Nat] :
          /\ Ordered(slots', write', d, off) /\ off[write'] = Total(d, enabled', id')
          /\ off[read'] = a /\ Since(d, enabled', id') <= a
    BY DEF Placed
  <2>4. /\ Now.write' = write' /\ Now.read' = read' /\ Now.slots' = slots'
    BY DEF Now
  <2>5. Ordered(Now.slots, Now.write, d, off)'
    BY <2>1, <2>3, <2>4 DEF Ordered, Carries, Size
  <2> QED
    BY <2>2, <2>3, <2>4, <2>5 DEF Placed
<1> QED
  BY <1>1, <1>2 DEF InOrder

LEMMA SoFarStays ==
  ASSUME types' = types, cap' = cap, NEW d \in Ports, SoFar(d),
         accepted'[d] = accepted[d], mode'[d] = mode[d], rates'[d] = rates[d]
  PROVE  SoFar(d)'
BY DEF SoFar, Program

LEMMA TotalFits ==
  ASSUME Types, OrderInv, NEW d \in Ports
  PROVE  Total(d, enabled, id) <= Len(Program(d)) /\ Total(d, enabled, id) \in Nat /\ Len(Program(d)) \in Nat
<1>1. Len(Program(d)) \in Nat /\ (types[d] = "mouse" => Len(Program(d)) = IF cap[d] = "00" THEN 10 ELSE 17)
  BY DEF Program
<1>2. PICK l \in Nat : l = Len(Program(d))
  BY <1>1
<1>3. types[d] = "mouse" /\ ~enabled[d] /\ id[d] = "03" => l = 17
  BY <1>1, <1>2 DEF OrderInv, Knows
<1>4. types[d] = "mouse" => l >= 7
  BY <1>1, <1>2
<1> QED
  BY <1>2, <1>3, <1>4 DEF Total

\* The byte a device is asked for is the next of its program.
LEMMA AskedByte ==
  ASSUME IInv, OrderInv, NEW d \in Ports, inbox[d] # <<>>
  PROVE  LET n == Len(accepted[d]) IN
         /\ n \in Nat /\ n + 1 <= Len(Program(d)) /\ Head(inbox[d]) = Program(d)[n + 1]
         /\ Taken(Now, wire, d) = slots[read].data_sent /\ slots[read].data_sent \in Nat
<1> DEFINE c == slots[read]
           n == Len(accepted[d])
<1>1. /\ Owner(Now, d) /\ c.state = "WAIT_ACK" /\ wire[d] = <<>> /\ c.device = d
  BY Asked
<1>2. /\ Now.slots[Now.read] = c /\ Now.slots[read] = c /\ Now.read = read /\ Now.write = write /\ c \in Commands
      /\ read \in Waiting(Now) /\ Now \in QueueType /\ read < write /\ write < QueueSize
  BY <1>1, Bounds DEF IInv, Owner, Now, Waiting
<1>3. inbox[d] = <<c.data[c.data_sent + 1]>> /\ c.data_sent < c.data_size
  <2>1. InLock(Now, inbox, wire, d) /\ Queued(Now, enabled, read)
    BY <1>2 DEF IInv, Consistent, QueueOK
  <2> QED
    BY <1>1, <1>2, <2>1 DEF InLock, AwaitsAck, Queued
<1>4. Taken(Now, wire, d) = c.data_sent
  <2>1. Acked(wire[d]) = 0 /\ c.data_sent \in Nat
    BY <1>1, <1>2 DEF Acked, Commands, CommandFields
  <2> QED
    BY <1>1, <1>2, <2>1 DEF Taken
<1>5. n \in Nat /\ c.data_sent \in Nat /\ c.data_size \in 1 .. 2 /\ c.data_sent + 1 \in 1 .. c.data_size
  <2>1. n \in Nat
    BY LenProperties DEF OrderInv
  <2>2. c.data_sent \in Nat /\ c.data_size \in 1 .. 2
    BY <1>2 DEF Commands, CommandFields
  <2> QED
    BY <1>3, <2>1, <2>2
<1>6. PICK a : a = n - c.data_sent /\ Placed(Now, enabled, id, a, d)
  BY <1>4 DEF OrderInv, InOrder
<1>7. a + c.data_size <= Total(d, enabled, id) /\ c.data[c.data_sent + 1] = Program(d)[a + (c.data_sent + 1)]
  <2>1. Now.read < Now.write /\ Now.write < QueueSize /\ Now.slots[Now.read].device = d
    BY <1>1, <1>2
  <2>2. Continues(Now.slots[Now.read], d, a, Total(d, enabled, id))
    BY <1>2, <1>6, <2>1, HeadPlaced
  <2> QED
    BY <1>2, <1>5, <2>2 DEF Continues
<1>8. a + (c.data_sent + 1) = n + 1 /\ n + 1 <= Len(Program(d))
  <2>1. Total(d, enabled, id) <= Len(Program(d)) /\ Total(d, enabled, id) \in Nat /\ Len(Program(d)) \in Nat
    BY TotalFits DEF IInv
  <2> HIDE DEF n, c
  <2> QED
    BY <1>5, <1>6, <1>7, <2>1
<1>9. Head(inbox[d]) = c.data[c.data_sent + 1]
  BY <1>3
<1> QED
  BY <1>4, <1>5, <1>7, <1>8, <1>9

\* A device accepts a byte.
LEMMA AnswerOrder ==
  ASSUME IInv, OrderInv, NEW d \in Ports, Answer(d)
  PROVE  OrderInv'
<1> DEFINE c == slots[read]
           n == Len(accepted[d])
           byte == Head(inbox[d])
           param == accepted[d] # <<>> /\ Last(accepted[d]) \in {"F3", "ED", "F0"}
           isRate == param /\ Last(accepted[d]) = "F3"
           last3 == Last3(rates[d], byte)
           ident == ~param /\ byte = "F2"
<1>1. /\ inbox[d] # <<>> /\ accepted' = [accepted EXCEPT ![d] = Append(accepted[d], byte)]
      /\ wire' = [wire EXCEPT ![d] = wire[d] \o IF ident THEN <<ACK, mode[d]>> ELSE <<ACK>>]
      /\ rates' = IF isRate THEN [rates EXCEPT ![d] = last3] ELSE rates
      /\ mode' = IF isRate THEN [mode EXCEPT ![d] = NewMode(d, last3)] ELSE mode
      /\ slots' = slots /\ read' = read /\ write' = write /\ enabled' = enabled /\ id' = id
      /\ types' = types /\ cap' = cap
  BY DEF Answer, Last3, queue, driver, OrderInv, IInv, Types
<1>2. /\ accepted \in [Ports -> Seq(Bytes)] /\ cap \in [Ports -> Ids] /\ DOMAIN rates = Ports
      /\ mode \in [Ports -> Ids] /\ wire \in [Ports -> Seq(WireBytes)] /\ inbox[d] \in Seq(Bytes)
  BY DEF OrderInv, IInv, Types
<1>3. /\ n \in Nat /\ n + 1 <= Len(Program(d)) /\ byte = Program(d)[n + 1] /\ byte \in Bytes
      /\ Taken(Now, wire, d) = c.data_sent /\ c.data_sent \in Nat
  BY <1>1, <1>2, AskedByte, HeadTailProperties
<1>4. Owner(Now, d) /\ c.state = "WAIT_ACK" /\ wire[d] = <<>> /\ Now.slots[Now.read] = c
  BY <1>1, Asked DEF Now
<1>5. /\ accepted' \in [Ports -> Seq(Bytes)] /\ Len(accepted'[d]) = n + 1
      /\ \A k \in 1 .. n : accepted'[d][k] = accepted[d][k]
      /\ accepted'[d][n + 1] = byte
  BY <1>1, <1>2, <1>3, AppendProperties
<1>6. isRate <=> RateAt(d, n)
  <2>1. accepted[d] # <<>> <=> n > 0
    BY <1>2, <1>3, EmptySeq
  <2>2. n > 0 => Last(accepted[d]) = Program(d)[n]
    <3>1. Last(accepted[d]) = accepted[d][n]
      BY DEF Last
    <3> QED
      BY <1>3, <3>1 DEF OrderInv, SoFar
  <2> QED
    BY <2>1, <2>2 DEF RateAt
<1>7. ASSUME NEW x \in Ports, x # d
      PROVE  /\ accepted'[x] = accepted[x] /\ wire'[x] = wire[x] /\ rates'[x] = rates[x] /\ mode'[x] = mode[x]
  BY <1>1, <1>2, <1>7
<1>8. wire'[d] = IF ident THEN <<ACK, mode[d]>> ELSE <<ACK>>
  <2>1. <<>> \o <<ACK, mode[d]>> = <<ACK, mode[d]>> /\ <<>> \o <<ACK>> = <<ACK>>
    OBVIOUS
  <2> QED
    BY <1>1, <1>2, <1>4, <2>1
<1>9. /\ rates'[d] = IF isRate THEN last3 ELSE rates[d]
      /\ mode'[d] = IF isRate THEN NewMode(d, last3) ELSE mode[d]
  BY <1>1, <1>2
<1>10. DOMAIN rates' = Ports
  BY <1>1, <1>2
<1>11. ident => ~isRate
  OBVIOUS
<1> HIDE DEF byte, param, isRate, last3, ident
<1>12. SoFar(d)'
  <2>1. SoFar(d) /\ Program(d)' = Program(d)
    BY <1>1 DEF OrderInv, Program
  <2>2. Len(accepted'[d]) <= Len(Program(d))
    BY <1>3, <1>5
  <2>3. \A k \in 1 .. Len(accepted'[d]) : accepted'[d][k] = Program(d)[k]
    <3>1. \A k \in 1 .. n : accepted'[d][k] = Program(d)[k]
      BY <1>5, <2>1 DEF SoFar
    <3>2. \A k \in 1 .. n + 1 : k \in 1 .. n \/ k = n + 1
      BY <1>3
    <3> QED
      BY <1>3, <1>5, <3>1, <3>2
  <2>4. types[d] = "mouse" => mode'[d] = ModeAt(cap[d], n + 1) /\ rates'[d] = RatesAt(cap[d], n + 1)
    <3>1. SUFFICES ASSUME types[d] = "mouse"
                   PROVE  mode'[d] = ModeAt(cap[d], n + 1) /\ rates'[d] = RatesAt(cap[d], n + 1)
      OBVIOUS
    <3>2. n \in 0 .. Len(Program(d)) - 1 /\ cap[d] \in Ids
      <4>1. Len(Program(d)) \in Nat
        BY DEF Program
      <4> QED
        BY <1>2, <1>3, <4>1
    <3>3. mode[d] = ModeAt(cap[d], n) /\ rates[d] = RatesAt(cap[d], n)
      BY <2>1, <3>1 DEF SoFar
    <3>4. last3 = Last3(RatesAt(cap[d], n), Program(d)[n + 1])
      BY <1>3, <3>3 DEF last3
    <3>5. /\ RateAt(d, n) => RatesAt(cap[d], n + 1) = last3 /\ ModeAt(cap[d], n + 1) = NewMode(d, last3)
          /\ ~RateAt(d, n) => RatesAt(cap[d], n + 1) = RatesAt(cap[d], n)
                              /\ ModeAt(cap[d], n + 1) = ModeAt(cap[d], n)
      BY <3>1, <3>2, <3>3, <3>4, RatesFollow
    <3> QED
      BY <1>6, <1>9, <3>3, <3>5
  <2> QED
    BY <1>1, <1>5, <2>1, <2>2, <2>3, <2>4 DEF SoFar
<1>13. InOrder(Now, enabled, id, wire, accepted, d)'
  <2> DEFINE N == [slots |-> slots', read |-> read', write |-> write']
  <2>1. N = Now
    BY <1>1 DEF Now
  <2>2. Taken(N, wire', d) = c.data_sent + 1
    <3>1. wire'[d] # <<>> /\ wire'[d][1] = ACK
      BY <1>8
    <3> QED
      BY <1>4, <2>1, <3>1 DEF Taken, Acked
  <2>3. PICK a : a = n - c.data_sent /\ Placed(N, enabled', id', a, d)
    BY <1>1, <1>3, <2>1 DEF OrderInv, InOrder
  <2>4. a = Len(accepted'[d]) - Taken(N, wire', d)
    <3>1. PICK m \in Nat, l \in Nat : m = c.data_sent /\ l = n
      BY <1>3
    <3>2. a = l - m /\ Len(accepted'[d]) = l + 1 /\ Taken(N, wire', d) = m + 1
      BY <1>5, <2>2, <2>3, <3>1
    <3>3. (l + 1) - (m + 1) = l - m
      OBVIOUS
    <3> HIDE DEF N
    <3> QED
      BY <3>2, <3>3
  <2> QED
    BY <1>1, <2>3, <2>4, NextOrder
<1>14. Tells(wire, d)'
  <2>1. ACK \notin Ids
    BY DEF ACK, Ids
  <2>2. ident => mode'[d] = mode[d]
    BY <1>9, <1>11
  <2> QED
    BY <1>8, <2>1, <2>2 DEF Tells
<1>15. ASSUME NEW x \in Ports, x # d
       PROVE  SoFar(x)' /\ InOrder(Now, enabled, id, wire, accepted, x)' /\ Tells(wire, x)'
  <2> DEFINE N == [slots |-> slots', read |-> read', write |-> write']
  <2>1. N = Now
    BY <1>1 DEF Now
  <2>2. Taken(N, wire', x) = Taken(Now, wire, x)
    BY <1>7, <1>15, <2>1 DEF Taken
  <2>3. PICK a : a = Len(accepted[x]) - Taken(Now, wire, x) /\ Placed(N, enabled', id', a, x)
    BY <1>1, <2>1 DEF OrderInv, InOrder
  <2>4. InOrder(Now, enabled, id, wire, accepted, x)'
    BY <1>1, <1>7, <1>15, <2>2, <2>3, NextOrder
  <2>5. SoFar(x)'
    BY <1>1, <1>7, <1>15, SoFarStays DEF OrderInv
  <2>6. Tells(wire, x)'
    BY <1>7, <1>15 DEF OrderInv, Tells
  <2> QED
    BY <2>4, <2>5, <2>6
<1>16. \A x \in Ports : Knows(enabled, id, x)'
  BY <1>1 DEF OrderInv, Knows
<1>17. AllSent(Now)' /\ (cap \in [Ports -> Ids])'
  BY <1>1, <1>2 DEF OrderInv, AllSent, Now
<1> QED
  BY <1>5, <1>10, <1>12, <1>13, <1>14, <1>15, <1>16, <1>17 DEF OrderInv

Then == [slots |-> slots', read |-> read', write |-> write']
Settled == <<types, cap, accepted, mode, rates>>

LEMMA OrderKept ==
  ASSUME OrderInv, UNCHANGED Settled, AllSent(Then),
         \A x \in Ports : Knows(enabled', id', x) /\ Tells(wire', x),
         \A x \in Ports : Placed(Then, enabled', id', Len(accepted[x]) - Taken(Then, wire', x), x)
  PROVE  OrderInv'
<1>1. /\ types' = types /\ cap' = cap /\ accepted' = accepted /\ mode' = mode /\ rates' = rates
  BY DEF Settled
<1>2. ASSUME NEW x \in Ports
      PROVE  SoFar(x)' /\ InOrder(Now, enabled, id, wire, accepted, x)' /\ Knows(enabled, id, x)' /\ Tells(wire, x)'
  <2>1. SoFar(x)'
    BY <1>1, SoFarStays DEF OrderInv
  <2>2. InOrder(Now, enabled, id, wire, accepted, x)'
    <3>1. PICK a : a = Len(accepted'[x]) - Taken(Then, wire', x) /\ Placed(Then, enabled', id', a, x)
      BY <1>1
    <3> QED
      BY <1>1, <3>1, NextOrder DEF Then
  <2>3. Knows(enabled, id, x)' /\ Tells(wire, x)'
    BY <1>1 DEF Knows, Tells
  <2> QED
    BY <2>1, <2>2, <2>3
<1>3. AllSent(Now)'
  BY DEF AllSent, Now, Then
<1>4. (accepted \in [Ports -> Seq(Bytes)] /\ cap \in [Ports -> Ids] /\ DOMAIN rates = Ports)'
  BY <1>1 DEF OrderInv
<1> QED
  BY <1>2, <1>3, <1>4 DEF OrderInv

\* The same commands wait, and as many of their bytes are acknowledged or their answers on the way.
LEMMA SameCommands ==
  ASSUME IInv, OrderInv, UNCHANGED Settled, enabled' = enabled, id' = id, read' = read, write' = write,
         Then \in QueueType, Alike(slots, slots', write), AllSent(Then), \A x \in Ports : Tells(wire', x),
         \A x \in Ports : Taken(Then, wire', x) = Taken(Now, wire, x)
  PROVE  OrderInv'
<1>1. Now \in QueueType
  BY Bounds DEF IInv
<1>2. ASSUME NEW x \in Ports PROVE Placed(Then, enabled', id', Len(accepted[x]) - Taken(Then, wire', x), x)
  <2>1. PICK a : a = Len(accepted[x]) - Taken(Now, wire, x) /\ Placed(Now, enabled, id, a, x)
    BY DEF OrderInv, InOrder
  <2>2. Placed(Then, enabled, id, a, x)
    <3>1. Then.read = Now.read /\ Then.write = Now.write /\ Alike(Now.slots, Then.slots, Now.write)
      BY DEF Then, Now
    <3> QED
      BY <1>1, <2>1, <3>1, SamePlaced
  <2> QED
    BY <2>1, <2>2
<1>3. \A x \in Ports : Knows(enabled', id', x)
  BY DEF OrderInv
<1> QED
  BY <1>2, <1>3, OrderKept

LEMMA ThenIsQueue ==
  ASSUME IInv'
  PROVE  Then \in QueueType /\ read' <= write' /\ write' < QueueSize
<1>1. (Now \in QueueType /\ read <= write /\ write < QueueSize)'
  BY Bounds, PTL DEF IInv
<1> QED
  BY <1>1 DEF Now, Then, QueueType

LEMMA WireOrder ==
  ASSUME IInv, OrderInv, UNCHANGED Settled, enabled' = enabled, id' = id, slots' = slots, read' = read,
         write' = write, \A x \in Ports : Tells(wire', x) /\ Acked(wire'[x]) = Acked(wire[x])
  PROVE  OrderInv'
<1>1. Then = Now /\ Now \in QueueType
  BY Bounds DEF IInv, Then, Now
<1>2. \A x \in Ports : Taken(Then, wire', x) = Taken(Now, wire, x)
  BY <1>1 DEF Taken
<1>3. Alike(slots, slots', write) /\ AllSent(Then)
  BY <1>1 DEF Alike, OrderInv
<1> QED
  BY <1>1, <1>2, <1>3, SameCommands

LEMMA AskAgainOrder ==
  ASSUME IInv, OrderInv, NEW d \in Ports, AskAgain(d)
  PROVE  OrderInv'
<1>1. /\ inbox[d] # <<>> /\ wire' = [wire EXCEPT ![d] = Append(wire[d], RESEND)]
      /\ UNCHANGED Settled /\ enabled' = enabled /\ id' = id /\ slots' = slots /\ read' = read /\ write' = write
  BY DEF AskAgain, queue, driver, devices, Settled
<1>2. wire[d] = <<>> /\ wire \in [Ports -> Seq(WireBytes)]
  BY <1>1, Asked DEF IInv, Types
<1>3. wire'[d] = <<RESEND>> /\ \A x \in Ports : x # d => wire'[x] = wire[x]
  BY <1>1, <1>2
<1>4. RESEND # ACK /\ RESEND \notin Ids
  BY DEF RESEND, ACK, Ids
<1>5. ASSUME NEW x \in Ports PROVE Tells(wire', x) /\ Acked(wire'[x]) = Acked(wire[x])
  <2>1. CASE x = d
    BY <1>2, <1>3, <1>4, <2>1 DEF Tells, Acked
  <2>2. CASE x # d
    BY <1>3, <2>2 DEF OrderInv, Tells
  <2> QED
    BY <2>1, <2>2
<1> QED
  BY <1>1, <1>5, WireOrder

LEMMA InputOrder ==
  ASSUME IInv, OrderInv, NEW d \in Ports, Input(d)
  PROVE  OrderInv'
<1> DEFINE p == Packet(d)
           w == wire[d]
<1>1. /\ wire' = [wire EXCEPT ![d] = w \o p]
      /\ UNCHANGED Settled /\ enabled' = enabled /\ id' = id /\ slots' = slots /\ read' = read /\ write' = write
  BY DEF Input, queue, driver, devices, Settled
<1>2. p \in Seq(InputBytes) /\ Len(p) \in 1 .. 4
  BY PacketType
<1>3. wire \in [Ports -> Seq(WireBytes)] /\ w \in Seq(WireBytes) /\ Len(w) \in Nat /\ InputBytes \subseteq WireBytes
  BY LenProperties DEF IInv, Types, WireBytes
<1> HIDE DEF p
<1>4. /\ Len(w \o p) = Len(w) + Len(p)
      /\ \A k \in 1 .. Len(w) + Len(p) : (w \o p)[k] = IF k <= Len(w) THEN w[k] ELSE p[k - Len(w)]
  <2>1. p \in Seq(WireBytes)
    BY <1>2, <1>3, SeqMonotonic
  <2> QED
    BY <1>3, <2>1, ConcatProperties
<1>5. \A k \in 1 .. Len(w) + Len(p) : k > Len(w) => (w \o p)[k] \in InputBytes
  <2>1. ASSUME NEW k \in 1 .. Len(w) + Len(p), k > Len(w) PROVE (w \o p)[k] \in InputBytes
    <3>1. k - Len(w) \in 1 .. Len(p) /\ (w \o p)[k] = p[k - Len(w)]
      BY <1>2, <1>3, <1>4, <2>1
    <3> QED
      BY <1>2, <3>1, ElementOfSeq
  <2> QED
    BY <2>1
<1>6. wire'[d] = w \o p /\ \A x \in Ports : x # d => wire'[x] = wire[x]
  BY <1>1, <1>3
<1>7. ACK \notin InputBytes /\ \A b \in InputBytes : b \notin Ids
  BY DEF ACK, InputBytes, Ids
<1>8. Tells(wire, d) /\ w = wire[d]
  BY DEF OrderInv
<1> HIDE DEF w
<1>9. Tells(wire', d)
  <2>1. \A k \in 1 .. Len(w) : (w \o p)[k] = w[k]
    BY <1>2, <1>3, <1>4
  <2>2. ASSUME NEW k \in 1 .. Len(w) + Len(p), (w \o p)[k] \in Ids PROVE (w \o p)[k] = mode[d]
    <3>1. ~(k > Len(w))
      BY <1>5, <1>7, <2>2
    <3>2. k \in 1 .. Len(w)
      BY <1>3, <3>1
    <3> QED
      BY <1>8, <2>1, <2>2, <3>2 DEF Tells
  <2> QED
    BY <1>4, <1>6, <2>2 DEF Tells
<1>10. Acked(wire'[d]) = Acked(wire[d])
  <2>1. CASE w = <<>>
    <3>1. Len(w) = 0 /\ 1 \in 1 .. Len(w) + Len(p)
      BY <1>2, <2>1
    <3>2. (w \o p)[1] # ACK
      BY <1>5, <1>7, <3>1
    <3> QED
      BY <1>6, <1>8, <2>1, <3>2 DEF Acked
  <2>2. CASE w # <<>>
    <3>1. Len(w) > 0
      BY <1>3, <2>2, EmptySeq
    <3>2. (w \o p)[1] = w[1] /\ Len(w \o p) > 0
      BY <1>2, <1>3, <1>4, <3>1
    <3>3. w \o p # <<>>
      BY <3>2
    <3> QED
      BY <1>6, <1>8, <2>2, <3>2, <3>3 DEF Acked
  <2> QED
    BY <2>1, <2>2
<1>11. ASSUME NEW x \in Ports PROVE Tells(wire', x) /\ Acked(wire'[x]) = Acked(wire[x])
  <2>1. CASE x = d
    BY <1>9, <1>10, <2>1
  <2>2. CASE x # d
    BY <1>6, <2>2 DEF OrderInv, Tells
  <2> QED
    BY <2>1, <2>2
<1> QED
  BY <1>1, <1>11, WireOrder

\* The main thread marks the command at the head, or takes the mark back.
LEMMA StateOrder ==
  ASSUME IInv, OrderInv, IInv', pc \in {"mark", "send"}, NEW st \in {"NORMAL", "WAIT_ACK"},
         slots' = [slots EXCEPT ![read].state = st], UNCHANGED <<driver, devices, accepted>>, read' = read,
         write' = write, wire' = wire
  PROVE  OrderInv'
<1> DEFINE c == slots[read]
<1>1. /\ read # write /\ c \in Commands /\ c.state \in {"NORMAL", "WAIT_ACK"}
      /\ \A x \in Ports : wire[x] = <<>>
  BY Bounds DEF IInv, Starting
<1>2. /\ slots \in [0 .. QueueSize -> Commands] /\ read \in 0 .. QueueSize /\ write < QueueSize /\ write \in Nat
  BY Bounds DEF IInv, Types
<1>3. slots' = [slots EXCEPT ![read] = InState(c, st)]
  BY <1>2 DEF InState
<1>4. /\ slots'[read].state = st /\ slots'[read].device = c.device /\ slots'[read].data_sent = c.data_sent
      /\ slots'[read].data_size = c.data_size /\ slots'[read].data = c.data
  BY <1>1, <1>2, <1>3 DEF InState, Commands, CommandFields
<1>5. Alike(slots, slots', write)
  <2>1. ASSUME NEW i \in 0 .. write - 1
        PROVE  slots'[i].device = slots[i].device /\ slots'[i].data = slots[i].data /\ slots'[i].data_size = slots[i].data_size
    <3>1. i \in 0 .. QueueSize
      BY <1>2, QueueSizeAssumption
    <3>2. i # read => slots'[i] = slots[i]
      BY <1>2, <1>3, <3>1
    <3> QED
      BY <1>4, <3>2
  <2> QED
    BY <2>1 DEF Alike
<1>6. Then.slots = slots' /\ Then.read = read /\ Then.write = write /\ Now.slots = slots /\ Now.read = read /\ Now.write = write
  BY DEF Then, Now
<1> HIDE DEF c
<1>7. ASSUME NEW x \in Ports PROVE Taken(Then, wire', x) = Taken(Now, wire, x)
  <2>1. Acked(wire'[x]) = 0 /\ Acked(wire[x]) = 0
    BY <1>1 DEF Acked
  <2>2. c.data_sent \in Nat
    BY <1>1 DEF Commands, CommandFields
  <2>3. Owner(Then, x) <=> Owner(Now, x)
    BY <1>4, <1>6 DEF Owner, c
  <2>4. Taken(Now, wire, x) = IF ~Owner(Now, x) THEN 0 ELSE c.data_sent
    BY <1>1, <1>6, <2>1, <2>2 DEF Taken, c
  <2>5. Taken(Then, wire', x) = IF ~Owner(Now, x) THEN 0 ELSE c.data_sent
    BY <1>4, <1>6, <2>1, <2>2, <2>3 DEF Taken
  <2> QED
    BY <2>4, <2>5
<1>8. AllSent(Then)
  BY <1>4, <1>6 DEF AllSent
<1>9. \A x \in Ports : Tells(wire', x)
  BY DEF OrderInv
<1>10. UNCHANGED Settled /\ enabled' = enabled /\ id' = id
  BY DEF Settled, devices, driver
<1> QED
  BY <1>5, <1>7, <1>8, <1>9, <1>10, ThenIsQueue, SameCommands

LEMMA MainOrder ==
  ASSUME IInv, OrderInv, IInv', Main
  PROVE  OrderInv'
<1>1. CASE Look \/ Send
  <2>1. /\ UNCHANGED Settled /\ enabled' = enabled /\ id' = id /\ slots' = slots /\ read' = read
        /\ write' = write /\ wire' = wire
    BY <1>1 DEF Look, Send, queue, driver, devices, Settled
  <2>2. \A x \in Ports : Tells(wire', x) /\ Acked(wire'[x]) = Acked(wire[x])
    BY <2>1 DEF OrderInv
  <2> QED
    BY <2>1, <2>2, WireOrder
<1>2. CASE Mark
  <2>1. /\ pc = "mark" /\ slots' = [slots EXCEPT ![read].state = "WAIT_ACK"]
        /\ UNCHANGED <<driver, devices, accepted>> /\ read' = read /\ write' = write /\ wire' = wire
    BY <1>2 DEF Mark
  <2> QED
    BY <2>1, StateOrder
<1>3. CASE SendTimeout
  <2>1. /\ pc = "send" /\ slots' = [slots EXCEPT ![read].state = "NORMAL"]
        /\ UNCHANGED <<driver, devices, accepted>> /\ read' = read /\ write' = write /\ wire' = wire
    BY <1>3 DEF SendTimeout
  <2> QED
    BY <2>1, StateOrder
<1> QED
  BY <1>1, <1>2, <1>3 DEF Main

-----------------------------------------------------------------------------
(* The interrupt handler *)

\* Sending changes no command's place, and what is sent is not acknowledged yet.
LEMMA SendsOrder ==
  ASSUME IInv, IInv', NEW q \in QueueType, q.read <= q.write, q.write < QueueSize, Update(q), AllSent(q)
  PROVE  /\ Then \in QueueType /\ Then.read = q.read /\ Then.write = q.write
         /\ Alike(q.slots, Then.slots, q.write) /\ AllSent(Then)
         /\ \A x \in Ports : Taken(Then, wire', x) = Taken(q, wire', x)
<1> DEFINE c == q.slots[q.read]
<1>1. /\ read' = q.read /\ write' = q.write /\ q.slots \in [0 .. QueueSize -> Commands]
      /\ q.read \in 0 .. QueueSize /\ c \in Commands /\ Then \in QueueType
  BY QueueSizeAssumption, ThenIsQueue DEF Update, QueueType
<1>2. Then.slots = slots' /\ Then.read = q.read /\ Then.write = q.write
  BY <1>1 DEF Then
<1>3. CASE ~MaySend(q)
  <2>1. slots' = q.slots
    BY <1>3 DEF Update
  <2>2. Then = q
    BY <1>1, <2>1 DEF Then, QueueType
  <2> QED
    BY <1>1, <2>2 DEF Alike
<1>4. CASE MaySend(q)
  <2> DEFINE d == c.device
  <2>1. /\ q.read # q.write /\ c.state = "NORMAL" /\ inbox \in [Ports -> Seq(Bytes)]
        /\ slots' = [q.slots EXCEPT ![q.read] = InState(c, "WAIT_ACK")]
        /\ inbox' = [inbox EXCEPT ![d] = Append(inbox[d], c.data[c.data_sent + 1])]
    BY <1>1, <1>4 DEF MaySend, Update, InState, IInv, Types
  <2>2. /\ slots'[q.read].state = "WAIT_ACK" /\ slots'[q.read].device = c.device
        /\ slots'[q.read].data_sent = c.data_sent /\ slots'[q.read].data_size = c.data_size
        /\ slots'[q.read].data = c.data /\ d \in Ports
    BY <1>1, <2>1 DEF InState, Commands, CommandFields
  <2>3. Alike(q.slots, Then.slots, q.write)
    <3>1. ASSUME NEW i \in 0 .. q.write - 1
          PROVE  /\ slots'[i].device = q.slots[i].device /\ slots'[i].data = q.slots[i].data
                 /\ slots'[i].data_size = q.slots[i].data_size
      <4>1. i \in 0 .. QueueSize
        BY QueueSizeAssumption DEF QueueType
      <4>2. i # q.read => slots'[i] = q.slots[i]
        BY <1>1, <2>1, <4>1
      <4> QED
        BY <2>2, <4>2
    <3> QED
      BY <1>2, <3>1 DEF Alike
  <2>4. Owner(Now, d)' /\ (slots[read].state)' = "WAIT_ACK" /\ (Now.slots[Now.read])' = slots'[q.read]
    BY <1>1, <2>1, <2>2 DEF Owner, Now
  <2>5. c.data_sent < c.data_size
    <3>1. (read \in Waiting(Now) /\ Now.read = read /\ Now.slots[read] = slots[read])'
      BY <1>1, <2>1 DEF Waiting, Now, QueueType
    <3>2. Queued(Now, enabled, read)'
      BY <3>1 DEF IInv, Consistent, QueueOK
    <3> QED
      BY <1>1, <2>2, <2>4, <3>1, <3>2 DEF Queued
  <2>6. wire'[d] = <<>>
    <3>1. c.data[c.data_sent + 1] \in Bytes
      <4>1. c.data_sent + 1 \in 1 .. 2
        BY <1>1, <2>5 DEF Commands, CommandFields
      <4> QED
        BY <1>1, <4>1 DEF Commands, CommandFields
    <3>2. inbox'[d] # <<>>
      <4>1. PICK b \in Bytes : b = c.data[c.data_sent + 1]
        BY <3>1
      <4>2. PICK old \in Seq(Bytes) : old = inbox[d]
        BY <2>1, <2>2
      <4>3. inbox'[d] = Append(old, b)
        BY <2>1, <2>2, <4>1, <4>2
      <4>4. Append(old, b) # <<>>
        <5>1. PICK n \in Nat, new \in Seq(Bytes) : n = Len(old) /\ new = Append(old, b) /\ Len(new) = n + 1
          BY AppendProperties, LenProperties
        <5> QED
          BY <5>1
      <4> QED
        BY <4>3, <4>4
    <3>3. InLock(Now, inbox, wire, d)'
      BY <2>2 DEF IInv, Consistent
    <3> QED
      BY <1>1, <2>2, <2>4, <3>2, <3>3 DEF InLock, AwaitsAck
  <2>7. ASSUME NEW x \in Ports PROVE Taken(Then, wire', x) = Taken(q, wire', x)
    <3>1. Owner(Then, x) <=> Owner(q, x)
      BY <1>2, <2>2 DEF Owner
    <3>2. CASE ~Owner(q, x)
      BY <3>1, <3>2 DEF Taken
    <3>3. CASE Owner(q, x)
      <4>1. x = d /\ Acked(wire'[x]) = 0 /\ c.data_sent \in Nat
        BY <1>1, <2>6, <3>3 DEF Owner, Acked, Commands, CommandFields
      <4> QED
        BY <1>2, <2>1, <2>2, <3>1, <3>3, <4>1 DEF Taken
    <3> QED
      BY <3>2, <3>3
  <2>8. AllSent(Then)
    BY <1>2, <2>2 DEF AllSent
  <2> QED
    BY <1>1, <1>2, <2>3, <2>7, <2>8
<1> QED
  BY <1>3, <1>4

LEMMA TellsOn ==
  ASSUME Types, OrderInv, NEW d \in Ports, wire[d] # <<>>, wire' = Shorter(d), NEW x \in Ports
  PROVE  Tells(wire', x)
<1>1. Tells(wire, x)
  BY DEF OrderInv
<1>2. CASE x = d
  <2>1. /\ \A k \in 1 .. Len(Shorter(d)[d]) : k + 1 \in 2 .. Len(wire[d]) /\ Shorter(d)[d][k] = wire[d][k + 1]
        /\ Len(wire[d]) \in Nat
    BY TailOfWire
  <2>2. \A k \in 1 .. Len(Shorter(d)[d]) : k + 1 \in 1 .. Len(wire[d])
    BY <2>1
  <2> QED
    BY <1>1, <1>2, <2>1, <2>2 DEF Tells
<1>3. CASE x # d
  BY <1>1, <1>3, TailOfWire DEF Tells
<1> QED
  BY <1>2, <1>3

\* The command at the head goes on.
LEMMA HeadOrder ==
  ASSUME IInv, OrderInv, IInv', UNCHANGED Settled, enabled' = enabled, id' = id,
         NEW d \in Ports, wire[d] # <<>>, wire' = Shorter(d), Owner(Now, d),
         NEW cmd \in Commands, Same(cmd, slots[read]), Update(With(cmd)),
         cmd.state = "WAIT_RESP" => cmd.data_sent = cmd.data_size,
         Taken(With(cmd), wire', d) = Taken(Now, wire, d)
  PROVE  OrderInv'
<1> DEFINE q == With(cmd)
<1>1. /\ q \in QueueType /\ q.read = read /\ q.write = write /\ read \in Nat /\ write \in Nat /\ read <= write
      /\ write < QueueSize /\ slots \in [0 .. QueueSize -> Commands] /\ read \in 0 .. QueueSize
  BY Bounds DEF IInv, With, Types
<1>2. q.slots[read] = cmd /\ \A i \in 0 .. QueueSize : i # read => q.slots[i] = slots[i]
  BY <1>1 DEF With
<1> HIDE DEF q
<1>3. AllSent(q)
  BY <1>1, <1>2 DEF AllSent
<1>4. Update(q) /\ Taken(q, wire', d) = Taken(Now, wire, d)
  BY DEF q
<1>5. /\ Then \in QueueType /\ Then.read = q.read /\ Then.write = q.write
      /\ Alike(q.slots, Then.slots, q.write) /\ AllSent(Then)
      /\ \A x \in Ports : Taken(Then, wire', x) = Taken(q, wire', x)
  <2>1. q.read <= q.write /\ q.write < QueueSize
    BY <1>1
  <2> QED
    BY <1>1, <1>3, <1>4, <2>1, SendsOrder
<1>6. read' = read /\ write' = write /\ Then.slots = slots'
  BY <1>1, <1>5 DEF Then
<1>7. ASSUME NEW x \in Ports PROVE Taken(Then, wire', x) = Taken(Now, wire, x)
  <2>1. CASE x = d
    BY <1>4, <1>5, <2>1
  <2>2. CASE x # d
    <3>1. ~Owner(Now, x) /\ ~Owner(q, x)
      BY <1>1, <1>2, <2>2 DEF Owner, Now, Same
    <3> QED
      BY <1>5, <3>1 DEF Taken
  <2> QED
    BY <2>1, <2>2
<1>8. Alike(slots, slots', write)
  <2>1. ASSUME NEW i \in 0 .. write - 1
        PROVE  q.slots[i].device = slots[i].device /\ q.slots[i].data = slots[i].data /\ q.slots[i].data_size = slots[i].data_size
    <3>1. i \in 0 .. QueueSize
      BY <1>1, QueueSizeAssumption
    <3> QED
      BY <1>2, <3>1 DEF Same
  <2> QED
    BY <1>1, <1>5, <1>6, <2>1 DEF Alike
<1>9. \A x \in Ports : Tells(wire', x)
  BY TellsOn DEF IInv
<1> QED
  BY <1>5, <1>6, <1>7, <1>8, <1>9, SameCommands

\* The command at the head goes when all of it was accepted.
SameBytes(cmd, c) == cmd.device = c.device /\ cmd.data = c.data /\ cmd.data_size = c.data_size
LEMMA PoppedOrder ==
  ASSUME IInv, OrderInv, NEW d \in Ports, Owner(Now, d), NEW cmd \in Commands, SameBytes(cmd, slots[read]),
         Taken(Now, wire, d) = slots[read].data_size
  PROVE  LET q == Popped(cmd) IN
         /\ q \in QueueType /\ q.read = read + 1 /\ q.write = write /\ read + 1 <= write /\ AllSent(q)
         /\ \A x \in Ports : Placed(q, enabled, id, Len(accepted[x]), x)
         /\ \A x \in Ports : \A w : Taken(q, w, x) = 0
         /\ q.read # q.write => Untouched(q.slots[q.read])
<1> DEFINE q == Popped(cmd)
<1>1. /\ q \in QueueType /\ q.read = read + 1 /\ q.write = write /\ read \in Nat /\ write \in Nat /\ read < write
      /\ write < QueueSize /\ slots \in [0 .. QueueSize -> Commands] /\ read \in 0 .. QueueSize
      /\ slots[read] \in Commands /\ slots[read].device = d /\ Now \in QueueType
  <2>1. /\ read \in Nat /\ write \in Nat /\ read <= write /\ write < QueueSize /\ Now \in QueueType
        /\ read \in 0 .. QueueSize /\ slots[read] \in Commands /\ q \in QueueType
    BY Bounds DEF IInv
  <2>2. read # write /\ slots[read].device = d
    BY DEF Owner, Now
  <2>3. q.read = read + 1 /\ q.write = write
    BY DEF Popped
  <2>4. slots \in [0 .. QueueSize -> Commands]
    BY DEF IInv, Types
  <2>5. read < write
    BY <2>1, <2>2
  <2> QED
    BY <2>1, <2>2, <2>3, <2>4, <2>5
<1>2. q.slots[read] = cmd /\ \A i \in 0 .. QueueSize : i # read => q.slots[i] = slots[i]
  BY <1>1 DEF Popped
<1>3. Now.slots = slots /\ Now.read = read /\ Now.write = write
  BY DEF Now
<1> HIDE DEF q
<1>4. Alike(Now.slots, q.slots, Now.write)
  <2>1. ASSUME NEW i \in 0 .. write - 1
        PROVE  q.slots[i].device = slots[i].device /\ q.slots[i].data = slots[i].data /\ q.slots[i].data_size = slots[i].data_size
    <3>1. i \in 0 .. QueueSize
      BY <1>1, QueueSizeAssumption
    <3> QED
      BY <1>2, <3>1 DEF SameBytes
  <2> QED
    BY <1>3, <2>1 DEF Alike
<1>5. q.read # q.write => Untouched(q.slots[q.read]) /\ q.slots[q.read] \in Commands
  <2>1. SUFFICES ASSUME q.read # q.write PROVE Untouched(q.slots[q.read]) /\ q.slots[q.read] \in Commands
    OBVIOUS
  <2>2. read + 1 \in read .. write - 1 /\ read + 1 \in 0 .. QueueSize /\ read + 1 # read
    BY <1>1, <2>1, QueueSizeAssumption
  <2>3. Queued(Now, enabled, read + 1)
    BY <1>3, <2>2 DEF IInv, Consistent, QueueOK, Waiting
  <2> QED
    BY <1>1, <1>2, <1>3, <2>2, <2>3 DEF Queued
<1>6. AllSent(q)
  BY <1>5 DEF AllSent, Untouched
<1>7. ASSUME NEW x \in Ports, NEW w PROVE Taken(q, w, x) = 0
  <2>1. CASE ~Owner(q, x)
    BY <2>1 DEF Taken
  <2>2. CASE Owner(q, x)
    BY <1>5, <2>2 DEF Taken, Owner, Untouched
  <2> QED
    BY <2>1, <2>2
<1>8. ASSUME NEW x \in Ports PROVE Placed(q, enabled, id, Len(accepted[x]), x)
  <2>1. PICK a : a = Len(accepted[x]) - Taken(Now, wire, x) /\ Placed(Now, enabled, id, a, x)
    BY DEF OrderInv, InOrder
  <2>2. Placed(q, enabled, id, a + Size(Now.slots[Now.read], x), x)
    <3>1. Now.read < Now.write /\ Now.write < QueueSize /\ q.read = Now.read + 1 /\ q.write = Now.write
      BY <1>1, <1>3
    <3> QED
      BY <1>1, <1>4, <2>1, <3>1, PoppedPlaced
  <2>3. a + Size(Now.slots[Now.read], x) = Len(accepted[x])
    <3>1. PICK l \in Nat : l = Len(accepted[x])
      BY LenProperties DEF OrderInv
    <3>2. PICK z \in Nat : z = slots[read].data_size
      BY <1>1 DEF Commands, CommandFields
    <3>3. CASE x = d
      <4>1. Size(Now.slots[Now.read], x) = z /\ a = l - z
        BY <1>1, <1>3, <2>1, <3>1, <3>2, <3>3 DEF Size
      <4> QED
        BY <3>1, <4>1
    <3>4. CASE x # d
      <4>1. Size(Now.slots[Now.read], x) = 0 /\ Taken(Now, wire, x) = 0
        BY <1>1, <1>3, <3>4 DEF Size, Taken, Owner
      <4>2. a = l - 0
        BY <2>1, <3>1, <4>1
      <4> QED
        BY <3>1, <4>1, <4>2
    <3> QED
      BY <3>3, <3>4
  <2> QED
    BY <2>2, <2>3
<1>9. read + 1 <= write
  BY <1>1
<1> QED
  BY <1>1, <1>5, <1>6, <1>7, <1>8, <1>9 DEF q

\* The head went: what is behind it is untouched.
Fresh(q) == q.read # q.write => Untouched(q.slots[q.read])
LEMMA FreshHead ==
  ASSUME NEW q \in QueueType, q.read <= q.write, q.write < QueueSize, Fresh(q)
  PROVE  AllSent(q) /\ \A x \in Ports : \A w : Taken(q, w, x) = 0
<1>1. AllSent(q)
  BY DEF Fresh, Untouched, AllSent
<1>2. ASSUME NEW x \in Ports, NEW w PROVE Taken(q, w, x) = 0
  <2>1. CASE ~Owner(q, x)
    BY <2>1 DEF Taken
  <2>2. CASE Owner(q, x)
    <3>1. q.slots[q.read].state = "NORMAL" /\ q.slots[q.read].data_sent = 0
      BY <2>2 DEF Owner, Fresh, Untouched
    <3> QED
      BY <2>2, <3>1 DEF Taken
  <2> QED
    BY <2>1, <2>2
<1> QED
  BY <1>1, <1>2

LEMMA NextHead ==
  ASSUME IInv, IInv', OrderInv, UNCHANGED Settled, NEW q \in QueueType, q.read <= q.write, q.write < QueueSize,
         Update(q), Fresh(q), \A x \in Ports : Placed(q, enabled', id', Len(accepted[x]), x),
         \A x \in Ports : Knows(enabled', id', x) /\ Tells(wire', x)
  PROVE  OrderInv'
<1>1. AllSent(q) /\ \A x \in Ports : Taken(q, wire', x) = 0
  BY FreshHead
<1>2. /\ Then \in QueueType /\ Then.read = q.read /\ Then.write = q.write
      /\ Alike(q.slots, Then.slots, q.write) /\ AllSent(Then)
      /\ \A x \in Ports : Taken(Then, wire', x) = Taken(q, wire', x)
  BY <1>1, SendsOrder
<1>3. ASSUME NEW x \in Ports PROVE Placed(Then, enabled', id', Len(accepted[x]) - Taken(Then, wire', x), x)
  <2>1. PICK a \in Nat : a = Len(accepted[x])
    BY LenProperties DEF OrderInv
  <2>2. Placed(Then, enabled', id', a, x)
    BY <1>2, <2>1, SamePlaced
  <2>3. Len(accepted[x]) - Taken(Then, wire', x) = a
    BY <1>1, <1>2, <2>1
  <2> QED
    BY <2>2, <2>3
<1> QED
  BY <1>2, <1>3, OrderKept

\* The acknowledgment of a byte, or a byte that is asked for again.
LEMMA AcknowledgedOrder ==
  ASSUME IInv, IInv', OrderInv, UNCHANGED Settled, enabled' = enabled, id' = id,
         NEW d \in Ports, wire[d] # <<>>, wire' = Shorter(d), Owner(Now, d), slots[read].state = "WAIT_ACK",
         LET c == slots[read] IN
           \/ /\ wire[d][1] = ACK /\ c.data_sent + 1 < c.data_size
              /\ Update(With(InState(Sent(c), "NORMAL")))
           \/ /\ wire[d][1] = ACK /\ ~(c.data_sent + 1 < c.data_size) /\ c.resp_size > 0
              /\ Update(With(InState(Sent(c), "WAIT_RESP")))
           \/ /\ wire[d][1] = ACK /\ ~(c.data_sent + 1 < c.data_size) /\ ~(c.resp_size > 0)
              /\ Update(Popped(Sent(c)))
           \/ wire[d][1] = RESEND /\ Update(With(InState(c, "NORMAL")))
           \/ wire[d][1] \notin {ACK, RESEND}
  PROVE  OrderInv'
<1> DEFINE c == slots[read]
<1>1. /\ c \in Commands /\ c.device = d /\ Now.slots[Now.read] = c /\ read # write
      /\ slots \in [0 .. QueueSize -> Commands] /\ read \in 0 .. QueueSize
  BY Bounds DEF IInv, Types, Owner, Now
<1>2. c.data_sent < c.data_size /\ c.data_sent \in Nat /\ c.data_size \in 1 .. 2 /\ wire[d][1] \in {ACK, RESEND}
  <2>1. c.data_sent < c.data_size /\ wire[d][1] \in {ACK, RESEND}
    BY HeadWaits
  <2> QED
    BY <1>1, <2>1 DEF Commands, CommandFields
<1>3. Taken(Now, wire, d) = c.data_sent + (IF wire[d][1] = ACK THEN 1 ELSE 0)
  BY <1>1 DEF Taken, Acked
<1>4. ASSUME NEW st \in States, NEW x \in {c, Sent(c)}
      PROVE  /\ InState(x, st) \in Commands /\ Same(InState(x, st), c) /\ InState(x, st).state = st
             /\ InState(x, st).data_sent = x.data_sent /\ InState(x, st).data_size = c.data_size
             /\ Sent(c) \in Commands /\ Same(Sent(c), c) /\ Sent(c).data_sent = c.data_sent + 1
  <2>1. Sent(c) \in Commands /\ Same(Sent(c), c) /\ Sent(c).data_sent = c.data_sent + 1
    BY <1>1, <1>2 DEF Sent, Same, Commands, CommandFields
  <2>2. ASSUME NEW y \in Commands
        PROVE  InState(y, st) \in Commands /\ Same(InState(y, st), y) /\ InState(y, st).state = st
               /\ InState(y, st).data_sent = y.data_sent
    BY DEF InState, Same, Commands, CommandFields
  <2> HIDE DEF c
  <2> QED
    BY <1>1, <2>1, <2>2 DEF Same
<1>5. {"NORMAL", "WAIT_RESP"} \subseteq States
  BY DEF States
<1>6. ASSUME NEW cmd \in Commands, Same(cmd, c), cmd.state \in {"NORMAL", "WAIT_RESP"}
      PROVE  Taken(With(cmd), wire', d) = cmd.data_sent
  <2>1. /\ With(cmd).slots[With(cmd).read] = cmd /\ With(cmd).read # With(cmd).write /\ cmd.device = d
        /\ cmd.data_sent \in Nat
    BY <1>1, <1>6 DEF With, Same, Commands, CommandFields
  <2> QED
    BY <1>6, <2>1 DEF Taken, Owner
<1> HIDE DEF c
<1>7. CASE wire[d][1] = ACK /\ c.data_sent + 1 < c.data_size /\ Update(With(InState(Sent(c), "NORMAL")))
  <2>1. PICK cmd : cmd = InState(Sent(c), "NORMAL")
    OBVIOUS
  <2>2. cmd \in Commands /\ Same(cmd, c) /\ cmd.state = "NORMAL" /\ cmd.data_sent = c.data_sent + 1
    BY <1>4, <1>5, <2>1
  <2>3. Taken(With(cmd), wire', d) = Taken(Now, wire, d)
    BY <1>3, <1>6, <1>7, <2>2
  <2> QED
    BY <1>7, <2>1, <2>2, <2>3, HeadOrder DEF c
<1>8. CASE /\ wire[d][1] = ACK /\ ~(c.data_sent + 1 < c.data_size) /\ c.resp_size > 0
           /\ Update(With(InState(Sent(c), "WAIT_RESP")))
  <2>1. PICK cmd : cmd = InState(Sent(c), "WAIT_RESP")
    OBVIOUS
  <2>2. /\ cmd \in Commands /\ Same(cmd, c) /\ cmd.state = "WAIT_RESP" /\ cmd.data_sent = c.data_sent + 1
        /\ cmd.data_size = c.data_size
    BY <1>4, <1>5, <2>1
  <2>3. Taken(With(cmd), wire', d) = Taken(Now, wire, d)
    BY <1>3, <1>6, <1>8, <2>2
  <2>4. cmd.data_sent = cmd.data_size
    BY <1>2, <1>8, <2>2
  <2> QED
    BY <1>8, <2>1, <2>2, <2>3, <2>4, HeadOrder DEF c
<1>9. CASE /\ wire[d][1] = ACK /\ ~(c.data_sent + 1 < c.data_size) /\ ~(c.resp_size > 0)
           /\ Update(Popped(Sent(c)))
  <2>1. PICK cmd : cmd = Sent(c)
    OBVIOUS
  <2>2. cmd \in Commands /\ SameBytes(cmd, c)
    BY <1>4, <1>5, <2>1 DEF Same, SameBytes
  <2>3. Taken(Now, wire, d) = c.data_size
    BY <1>2, <1>3, <1>9
  <2>4. PICK q : q = Popped(cmd)
    OBVIOUS
  <2>5. /\ q \in QueueType /\ q.read = read + 1 /\ q.write = write /\ read + 1 <= write
        /\ \A x \in Ports : Placed(q, enabled, id, Len(accepted[x]), x)
        /\ Fresh(q)
    BY <2>2, <2>3, <2>4, PoppedOrder DEF c, Fresh
  <2>6. Update(q) /\ q.read <= q.write /\ q.write < QueueSize
    BY <1>9, <2>1, <2>4, <2>5, Bounds DEF IInv
  <2>7. \A x \in Ports : Knows(enabled', id', x) /\ Tells(wire', x)
    BY TellsOn DEF IInv, OrderInv
  <2> QED
    BY <2>5, <2>6, <2>7, NextHead
<1>10. CASE wire[d][1] = RESEND /\ Update(With(InState(c, "NORMAL")))
  <2>1. PICK cmd : cmd = InState(c, "NORMAL")
    OBVIOUS
  <2>2. cmd \in Commands /\ Same(cmd, c) /\ cmd.state = "NORMAL" /\ cmd.data_sent = c.data_sent
    BY <1>4, <1>5, <2>1
  <2>3. Taken(With(cmd), wire', d) = Taken(Now, wire, d)
    BY <1>2, <1>3, <1>6, <1>10, <2>2 DEF ACK, RESEND
  <2> QED
    BY <1>10, <2>1, <2>2, <2>3, HeadOrder DEF c
<1> QED
  BY <1>2, <1>7, <1>8, <1>9, <1>10 DEF c

\* A mouse that tells its id was asked for it by the last command of its program so far.
LEMMA AskedForId ==
  ASSUME IInv, OrderInv, NEW d \in Ports, wire[d] # <<>>, Owner(Now, d), slots[read].state = "WAIT_RESP"
  PROVE  LET c == slots[read] IN
         /\ Identifies(c) /\ c.device = d /\ Taken(Now, wire, d) = c.data_size /\ wire[d][1] = mode[d]
         /\ mode[d] \in Ids /\ types[d] = "mouse" /\ ~enabled[d] /\ cap[d] \in Ids
         /\ mode[d] = ModeAt(cap[d], Total(d, enabled, id))
         /\ Len(accepted[d]) = Total(d, enabled, id)
<1> DEFINE c == slots[read]
           n == Len(accepted[d])
<1>1. /\ read \in Waiting(Now) /\ c \in Commands /\ Now.slots[read] = c /\ c.device = d /\ Now.read = read
      /\ Queued(Now, enabled, read) /\ AwaitsId(c, inbox, wire, d) /\ Now.slots[Now.read] = c
      /\ Now \in QueueType /\ Now.read < Now.write /\ Now.write < QueueSize /\ read # write
  BY Bounds DEF IInv, Owner, Now, Waiting, Consistent, QueueOK, InLock
<1>2. Identifies(c) /\ Len(wire[d]) = 1 /\ wire[d][1] \in Ids /\ wire[d][1] = mode[d]
  BY <1>1 DEF AwaitsId, OrderInv, Tells
<1>3. types[d] = "mouse" /\ ~enabled[d] /\ c.data_size = 1 /\ c.data[1] = "F2"
  BY <1>1, <1>2 DEF Queued, Identifies, Sets, TurnsOn
<1>4. Taken(Now, wire, d) = c.data_size
  <2>1. c.data_sent = c.data_size /\ c.data_sent \in Nat
    BY <1>1 DEF OrderInv, AllSent, Now, Commands, CommandFields
  <2> QED
    BY <1>1, <2>1 DEF Taken
<1>5. /\ n \in Nat /\ cap[d] \in Ids /\ mode[d] = ModeAt(cap[d], n) /\ n <= Len(Program(d))
      /\ id[d] = "03" => cap[d] # "00"
  <2>1. n \in Nat
    BY LenProperties DEF OrderInv
  <2> QED
    BY <1>3, <2>1 DEF OrderInv, SoFar, Knows
<1>6. PICK a : a = n - 1 /\ Placed(Now, enabled, id, a, d)
  BY <1>3, <1>4 DEF OrderInv, InOrder
<1>7. a + 1 <= Total(d, enabled, id) /\ Program(d)[a + 1] = "F2" /\ Since(d, enabled, id) <= a
  <2>1. Continues(c, d, a, Total(d, enabled, id))
    BY <1>1, <1>6, HeadPlaced
  <2>2. Since(d, enabled, id) <= a
    BY <1>6 DEF Placed
  <2> QED
    BY <1>3, <2>1, <2>2 DEF Continues
<1>8. Total(d, enabled, id) = (IF id[d] = "03" THEN 14 ELSE 7) /\ Since(d, enabled, id) = (IF id[d] = "03" THEN 7 ELSE 0)
  BY <1>3 DEF Total, Since
<1> HIDE DEF n, c
<1>9. a + 1 = n
  BY <1>5, <1>6
<1>10. n = Total(d, enabled, id)
  <2>1. CASE id[d] = "03"
    <3>1. n \in {8, 9, 10, 11, 12, 13, 14}
      BY <1>5, <1>6, <1>7, <1>8, <1>9, <2>1
    <3>2. Program(d) = <<"F3", "200", "F3", "100", "F3", "80", "F2", "F3", "200", "F3", "200", "F3", "80", "F2",
                         "F3", "100", "F4">>
      BY <1>3, <1>5, <2>1 DEF Program
    <3>3. n = 14
      BY <1>7, <1>9, <3>1, <3>2
    <3> QED
      BY <1>8, <2>1, <3>3
  <2>2. CASE id[d] # "03"
    <3>1. n \in {1, 2, 3, 4, 5, 6, 7}
      BY <1>5, <1>6, <1>7, <1>8, <1>9, <2>2
    <3>2. Program(d)[1] = "F3" /\ Program(d)[2] = "200" /\ Program(d)[3] = "F3" /\ Program(d)[4] = "100"
          /\ Program(d)[5] = "F3" /\ Program(d)[6] = "80"
      BY <1>3 DEF Program
    <3>3. n = 7
      BY <1>7, <1>9, <3>1, <3>2
    <3> QED
      BY <1>8, <2>2, <3>3
  <2> QED
    BY <2>1, <2>2
<1> QED
  BY <1>1, <1>2, <1>3, <1>4, <1>5, <1>10 DEF c, n

\* Once the mouse told its id, the commands that follow carry on its program.
LEMMA NextPart ==
  ASSUME NEW d \in Ports, types[d] = "mouse", ~enabled[d], cap[d] \in Ids, id[d] = "03" => cap[d] # "00",
         NEW byte, byte = ModeAt(cap[d], Total(d, enabled, id)),
         NEW more, more = IF AsksAgain(d, byte) THEN Magic(d, "200") ELSE Finish(d),
         NEW n, n = IF AsksAgain(d, byte) THEN 7 ELSE 3,
         NEW e, e[d] = ~AsksAgain(d, byte),
         NEW ids, ids[d] = IF byte \in {"03", "04"} THEN byte ELSE "00"
  PROVE  /\ Pieces(more, d, Total(d, enabled, id), n) /\ Total(d, e, ids) = Total(d, enabled, id) + n
         /\ Since(d, e, ids) = Total(d, enabled, id) /\ Knows(e, ids, d)
<1> DEFINE t == Total(d, enabled, id)
           again == AsksAgain(d, byte)
<1>1. t = IF id[d] = "03" THEN 14 ELSE 7
  BY DEF Total
<1>2. byte = ModeAt(cap[d], t)
  OBVIOUS
<1> HIDE DEF t
<1>3. CASE id[d] = "03"
  <2>1. ~again /\ t = 14 /\ byte = cap[d] /\ cap[d] \in {"03", "04"}
    BY <1>1, <1>2, <1>3 DEF AsksAgain, ModeAt, Ids
  <2>2. more = Finish(d) /\ n = 3 /\ e[d] /\ ids[d] = cap[d]
    BY <2>1
  <2>3. Pieces(more, d, t, n)
    BY <2>1, <2>2, FinishPieces
  <2>4. Len(Program(d)) = 17
    BY <2>1 DEF Program
  <2> QED
    BY <2>1, <2>2, <2>3, <2>4 DEF Total, Since, Knows, t
<1>4. CASE id[d] # "03" /\ cap[d] = "00"
  <2>1. ~again /\ t = 7 /\ byte = "00"
    BY <1>1, <1>2, <1>4 DEF AsksAgain, ModeAt
  <2>2. more = Finish(d) /\ n = 3 /\ e[d] /\ ids[d] = cap[d]
    BY <1>4, <2>1
  <2>3. Pieces(more, d, t, n)
    BY <1>4, <2>1, <2>2, FinishPieces
  <2>4. Len(Program(d)) = 10
    BY <1>4 DEF Program
  <2> QED
    BY <2>1, <2>2, <2>3, <2>4 DEF Total, Since, Knows, t
<1>5. CASE id[d] # "03" /\ cap[d] # "00"
  <2>1. again /\ t = 7 /\ byte = "03"
    BY <1>1, <1>2, <1>5 DEF AsksAgain, ModeAt
  <2>2. more = Magic(d, "200") /\ n = 7 /\ ~e[d] /\ ids[d] = "03"
    BY <2>1
  <2>3. Pieces(more, d, t, n)
    BY <1>5, <2>1, <2>2, MagicPieces
  <2> QED
    BY <1>5, <2>1, <2>2, <2>3 DEF Total, Since, Knows, t
<1> QED
  BY <1>3, <1>4, <1>5

LEMMA StillFits ==
  ASSUME IInv, NEW d \in Ports, types[d] = "mouse", ~enabled[d], NEW byte
  PROVE  write + (IF AsksAgain(d, byte) THEN 4 ELSE 2) < QueueSize
<1>1. /\ write <= Count(0) + Count(1) /\ write \in Nat /\ id[d] \in {"FF", "03"}
  BY Bounds DEF IInv, Counted
<1>2. Count(0) \in 0 .. 10 /\ Count(1) \in 0 .. 10
  BY DEF Count
<1>3. Count(d) = IF id[d] = "03" THEN 8 ELSE 4
  BY DEF Count
<1>4. AsksAgain(d, byte) => Count(d) = 4
  BY <1>3 DEF AsksAgain
<1>5. Count(d) <= 8
  BY <1>3
<1>6. CASE d = 0
  BY <1>1, <1>2, <1>4, <1>5, <1>6, QueueSizeAssumption
<1>7. CASE d = 1
  BY <1>1, <1>2, <1>4, <1>5, <1>7, QueueSizeAssumption
<1> QED
  BY <1>6, <1>7 DEF Ports

LEMMA IdentifiedOrder ==
  ASSUME IInv, IInv', OrderInv, UNCHANGED Settled, NEW d \in Ports, wire[d] # <<>>, wire' = Shorter(d),
         Owner(Now, d), slots[read].state = "WAIT_RESP",
         slots[read].resp_size <= 1 => ToDevice(d, wire[d][1], Popped(Answered(slots[read])))
  PROVE  OrderInv'
<1> DEFINE c == slots[read]
           byte == wire[d][1]
           again == AsksAgain(d, byte)
<1>1. /\ Identifies(c) /\ c.device = d /\ Taken(Now, wire, d) = c.data_size /\ byte = mode[d]
      /\ byte \in Ids /\ types[d] = "mouse" /\ ~enabled[d] /\ cap[d] \in Ids
      /\ byte = ModeAt(cap[d], Total(d, enabled, id))
      /\ Len(accepted[d]) = Total(d, enabled, id)
  BY AskedForId
<1>2. Answered(c) \in Commands /\ SameBytes(Answered(c), c) /\ c.resp_size = 1
  <2>1. c \in Commands /\ c.resp_size = 1
    BY <1>1, Bounds DEF IInv, Identifies
  <2> QED
    BY <2>1 DEF Answered, SameBytes, Commands, CommandFields
<1>3. PICK q : q = Popped(Answered(c))
  OBVIOUS
<1>4. /\ q \in QueueType /\ q.read = read + 1 /\ q.write = write /\ read + 1 <= write
      /\ \A x \in Ports : Placed(q, enabled, id, Len(accepted[x]), x)
      /\ Fresh(q)
  BY <1>1, <1>2, <1>3, PoppedOrder DEF Fresh
<1> DEFINE more == IF again THEN Magic(d, "200") ELSE Finish(d)
           m == IF again THEN 4 ELSE 2
           n == IF again THEN 7 ELSE 3
           final == IF again THEN "F2" ELSE "F4"
           a == Appended(q, more)
<1>5. /\ Update(a) /\ id' = [id EXCEPT ![d] = IF byte \in {"03", "04"} THEN byte ELSE "00"]
      /\ enabled' = [enabled EXCEPT ![d] = ~again]
  BY <1>1, <1>2, <1>3 DEF ToDevice, MouseIdentified
<1>6. enabled \in [Ports -> BOOLEAN] /\ id \in [Ports -> Ids \cup {"FF"}] /\ write < QueueSize /\ write \in Nat
      /\ read \in Nat
  BY Bounds DEF IInv, Types
<1>7. /\ enabled'[d] = ~again /\ id'[d] = IF byte \in {"03", "04"} THEN byte ELSE "00"
      /\ \A x \in Ports : x # d => enabled'[x] = enabled[x] /\ id'[x] = id[x]
  BY <1>5, <1>6
<1>8. Part(more, d, m, final) /\ m \in {2, 4} /\ m \in 1 .. 4 /\ n \in Nat /\ write + m < QueueSize
  BY <1>1, MagicPart, FinishPart, StillFits
<1> HIDE DEF c, byte
<1>9. PICK e, ids : e = enabled' /\ ids = id'
  OBVIOUS
<1>10. /\ Pieces(more, d, Total(d, enabled, id), n) /\ Total(d, e, ids) = Total(d, enabled, id) + n
       /\ Since(d, e, ids) = Total(d, enabled, id) /\ Knows(e, ids, d)
  <2>1. id[d] = "03" => cap[d] # "00"
    BY <1>1 DEF OrderInv, Knows
  <2> QED
    BY <1>1, <1>7, <1>9, <2>1, NextPart
<1> HIDE DEF more, m, n, final, again
<1>11. more \in Seq(Commands) /\ Len(more) = m /\ q.read <= q.write /\ q.write + Len(more) < QueueSize
  BY <1>4, <1>8 DEF Part
<1>12. ASSUME NEW x \in Ports PROVE Placed(a, e, ids, Len(accepted[x]), x) /\ Knows(e, ids, x)
  <2>1. PICK l : l = Len(accepted[x]) /\ Placed(q, enabled, id, l, x)
    BY <1>4
  <2>2. CASE x = d
    <3>1. l = Total(d, enabled, id) /\ l \in Nat
      BY <1>1, <2>1, <2>2, TotalFits DEF IInv
    <3>2. Since(x, e, ids) <= l
      BY <1>10, <2>2, <3>1
    <3> QED
      BY <1>4, <1>8, <1>10, <1>11, <2>1, <2>2, <3>2, MorePlaced
  <2>3. CASE x # d
    <3>1. e[x] = enabled[x] /\ ids[x] = id[x]
      BY <1>7, <1>9, <2>3
    <3>2. Total(x, e, ids) = Total(x, enabled, id) /\ Since(x, e, ids) = Since(x, enabled, id)
      BY <3>1 DEF Total, Since
    <3>3. Total(x, enabled, id) \in Nat /\ Since(x, enabled, id) <= l
      BY <2>1, TotalFits DEF IInv, Placed
    <3>4. Pieces(more, x, Total(x, enabled, id), 0)
      BY <1>8, <2>3, OtherPieces
    <3>5. Total(x, e, ids) = Total(x, enabled, id) + 0 /\ Since(x, e, ids) <= l
      BY <3>2, <3>3
    <3>6. Placed(a, e, ids, l, x)
      BY <1>4, <1>11, <2>1, <3>4, <3>5, MorePlaced
    <3>7. Knows(e, ids, x)
      BY <3>1 DEF OrderInv, Knows
    <3> QED
      BY <2>1, <3>6, <3>7
  <2> QED
    BY <2>2, <2>3
<1>13. /\ a \in QueueType /\ a.read = read + 1 /\ a.write = write + m /\ a.read <= a.write /\ a.write < QueueSize
       /\ Fresh(a)
  <2>1. /\ a \in QueueType /\ a.read = q.read /\ a.write = q.write + m
        /\ \A i \in 0 .. q.write - 1 : a.slots[i] = q.slots[i]
        /\ \A i \in q.write .. a.write - 1 : a.slots[i] = more[i - q.write + 1]
    BY <1>4, <1>11, AppendFits
  <2> HIDE DEF a
  <2>2. a.read = read + 1 /\ a.write = write + m /\ a.read <= a.write /\ a.write < QueueSize
    BY <1>4, <1>6, <1>8, <2>1
  <2>3. Fresh(a)
    <3>1. CASE q.read # q.write
      <4>1. q.read \in 0 .. q.write - 1
        BY <1>4, <1>6, <3>1
      <4> QED
        BY <1>4, <2>1, <3>1, <4>1 DEF Fresh
    <3>2. CASE q.read = q.write
      <4>1. q.write \in q.write .. a.write - 1 /\ q.write - q.write + 1 = 1 /\ 1 \in 1 .. m
        BY <1>4, <1>6, <1>8, <2>1
      <4>2. a.slots[a.read] = more[1]
        BY <2>1, <3>2, <4>1
      <4> QED
        BY <1>8, <4>1, <4>2 DEF Fresh, Part
    <3> QED
      BY <3>1, <3>2
  <2> QED
    BY <2>1, <2>2, <2>3
<1>14. \A x \in Ports : Tells(wire', x)
  BY TellsOn DEF IInv
<1> HIDE DEF a
<1> QED
  BY <1>5, <1>9, <1>12, <1>13, <1>14, NextHead

\* A byte of input changes nothing here.
LEMMA InputTakenOrder ==
  ASSUME IInv, IInv', OrderInv, UNCHANGED Settled, NEW d \in Ports, wire[d] # <<>>, wire' = Shorter(d),
         ~Owner(Now, d) \/ slots[read].state = "NORMAL", ToDevice(d, wire[d][1], With(slots[read]))
  PROVE  OrderInv'
<1>1. enabled' = enabled /\ id' = id /\ Update(Now)
  BY InputComes DEF ToDevice, InputByte
<1>2. Now \in QueueType /\ Now.read <= Now.write /\ Now.write < QueueSize /\ AllSent(Now)
      /\ Now.slots = slots /\ Now.read = read /\ Now.write = write
  BY Bounds DEF IInv, OrderInv, Now
<1>3. /\ Then \in QueueType /\ Then.read = Now.read /\ Then.write = Now.write
      /\ Alike(Now.slots, Then.slots, Now.write) /\ AllSent(Then)
      /\ \A x \in Ports : Taken(Then, wire', x) = Taken(Now, wire', x)
  BY <1>1, <1>2, SendsOrder
<1>4. ASSUME NEW x \in Ports PROVE Taken(Now, wire', x) = Taken(Now, wire, x)
  <2>1. CASE x = d
    BY <1>2, <2>1 DEF Taken
  <2>2. CASE x # d
    <3>1. wire'[x] = wire[x]
      BY <2>2, TailOfWire DEF IInv
    <3> QED
      BY <3>1 DEF Taken
  <2> QED
    BY <2>1, <2>2
<1>5. \A x \in Ports : Tells(wire', x)
  BY TellsOn DEF IInv
<1>6. read' = read /\ write' = write /\ Then.slots = slots'
  BY <1>2, <1>3 DEF Then
<1> QED
  BY <1>1, <1>2, <1>3, <1>4, <1>5, <1>6, SameCommands

LEMMA IrqOrder ==
  ASSUME IInv, IInv', OrderInv, NEW d \in Ports, IrqHandler(d)
  PROVE  OrderInv'
<1> DEFINE c == slots[read]
           byte == wire[d][1]
<1>1. wire[d] # <<>> /\ wire' = Shorter(d) /\ UNCHANGED Settled
  BY IrqCases DEF Settled, devices
<1>2. CASE Owner(Now, d) /\ c.state = "WAIT_ACK"
  <2>1. /\ UNCHANGED driver
        /\ \/ byte = ACK /\ c.data_sent + 1 < c.data_size /\ Update(With(InState(Sent(c), "NORMAL")))
           \/ /\ byte = ACK /\ ~(c.data_sent + 1 < c.data_size) /\ c.resp_size > 0
              /\ Update(With(InState(Sent(c), "WAIT_RESP")))
           \/ /\ byte = ACK /\ ~(c.data_sent + 1 < c.data_size) /\ ~(c.resp_size > 0)
              /\ Update(Popped(Sent(c)))
           \/ byte = RESEND /\ Update(With(InState(c, "NORMAL")))
           \/ byte \notin {ACK, RESEND}
    BY <1>2, IrqCases
  <2>2. enabled' = enabled /\ id' = id
    BY <2>1 DEF driver
  <2> QED
    BY <1>1, <1>2, <2>1, <2>2, AcknowledgedOrder
<1>3. CASE Owner(Now, d) /\ c.state = "WAIT_RESP"
  <2>1. c.resp_size <= 1 => ToDevice(d, byte, Popped(Answered(c)))
    BY <1>3, IrqCases
  <2> QED
    BY <1>1, <1>3, <2>1, IdentifiedOrder
<1>4. CASE ~Owner(Now, d) \/ c.state = "NORMAL"
  <2>1. ToDevice(d, byte, With(c))
    BY <1>4, IrqCases
  <2> QED
    BY <1>1, <1>4, <2>1, InputTakenOrder
<1> QED
  BY <1>2, <1>3, <1>4, HeadStates

-----------------------------------------------------------------------------
(* The initial states, and the theorem *)

LEMMA SetupPieces ==
  ASSUME types \in [Ports -> Kinds], enabled = [p \in Ports |-> FALSE], id = [p \in Ports |-> "FF"],
         NEW d \in Ports, NEW x \in Ports, NEW t \in Nat, x = d => t = 0
  PROVE  Pieces(InitCommands(types[x], x), d, t, IF x = d THEN Total(d, enabled, id) ELSE 0)
<1>1. ~enabled[d] /\ id[d] = "FF" /\ types[x] \in Kinds
  OBVIOUS
<1>2. CASE types[x] = "keyboard"
  <2>1. InitCommands(types[x], x) = InitKeyboard(x) /\ Part(InitKeyboard(x), x, 3, "F4")
    BY <1>2, KeyboardPart DEF InitCommands
  <2>2. x = d => Total(d, enabled, id) = 5
    BY <1>2 DEF Total, Program
  <2>3. x = d => Pieces(InitKeyboard(x), d, t, 5)
    BY <1>2, KeyboardPieces
  <2>4. x # d => Pieces(InitKeyboard(x), d, t, 0)
    BY <2>1, OtherPieces
  <2> QED
    BY <2>1, <2>2, <2>3, <2>4
<1>3. CASE types[x] = "mouse"
  <2>1. InitCommands(types[x], x) = Magic(x, "100") /\ Part(Magic(x, "100"), x, 4, "F2")
    BY <1>3, MagicPart DEF InitCommands
  <2>2. x = d => Total(d, enabled, id) = 7
    BY <1>1, <1>3 DEF Total
  <2>3. x = d => Pieces(Magic(x, "100"), d, t, 7)
    BY <1>3, MagicPieces
  <2>4. x # d => Pieces(Magic(x, "100"), d, t, 0)
    BY <2>1, OtherPieces
  <2> QED
    BY <2>1, <2>2, <2>3, <2>4
<1>4. CASE types[x] = "none"
  <2>1. InitCommands(types[x], x) = <<>> /\ Len(<<>>) = 0
    BY <1>4 DEF InitCommands
  <2>2. x = d => Total(d, enabled, id) = 0
    BY <1>4 DEF Total, Program
  <2>3. Pieces(<<>>, d, t, 0)
    <3> DEFINE sz == [k \in 0 .. 0 |-> 0]
    <3>1. sz \in [0 .. 0 -> Nat] /\ sz[0] = 0
      OBVIOUS
    <3> HIDE DEF sz
    <3> QED
      BY <2>1, <3>1 DEF Pieces
  <2> QED
    BY <2>1, <2>2, <2>3
<1> QED
  BY <1>1, <1>2, <1>3, <1>4 DEF Kinds

LEMMA InitPlaced ==
  ASSUME Init, NEW d \in Ports
  PROVE  Placed(Now, enabled, id, 0, d)
<1> DEFINE A == InitCommands(types[0], 0)
           B == InitCommands(types[1], 1)
<1>1. /\ types \in [Ports -> Kinds] /\ enabled = [x \in Ports |-> FALSE] /\ id = [x \in Ports |-> "FF"]
      /\ read = 0 /\ write = Count(0) + Count(1) /\ write \in Nat
      /\ \A i \in 0 .. write - 1 :
           slots[i] = IF i < Count(0) THEN A[i + 1] ELSE B[i - Count(0) + 1]
  BY InitSlots
<1>2. 0 \in Ports /\ 1 \in Ports /\ Count(0) \in Nat /\ Count(1) \in Nat /\ (d = 0 \/ d = 1)
  BY DEF Ports, Count
<1>3. A \in Seq(Commands) /\ Len(A) = Count(0) /\ B \in Seq(Commands) /\ Len(B) = Count(1)
  BY <1>1, <1>2, SetupPart
<1>4. PICK a \in Nat, b \in Nat : a = Count(0) /\ b = Count(1)
  BY <1>2
<1>5. PICK n \in Nat : n = Total(d, enabled, id)
  <2>1. Len(Program(d)) \in Nat
    BY DEF Program
  <2> QED
    BY <1>1, <2>1 DEF Total
<1>6. PICK m \in Nat, k \in Nat : m = (IF d = 0 THEN n ELSE 0) /\ k = (IF d = 1 THEN n ELSE 0)
  BY <1>2
<1>7. Pieces(A, d, 0, m) /\ Pieces(B, d, m, k) /\ m + k = n
  <2>1. Pieces(A, d, 0, IF 0 = d THEN Total(d, enabled, id) ELSE 0)
    BY <1>1, <1>2, SetupPieces
  <2>2. 1 = d => m = 0
    BY <1>2, <1>6
  <2>3. Pieces(B, d, m, IF 1 = d THEN Total(d, enabled, id) ELSE 0)
    BY <1>1, <1>2, <2>2, SetupPieces
  <2> HIDE DEF A, B
  <2> QED
    BY <1>2, <1>5, <1>6, <2>1, <2>3
<1> HIDE DEF A, B
<1>8. Adds(slots, slots, 0, A) /\ Adds(slots, slots, a, B)
  <2>1. ASSUME NEW i \in 0 .. 0 + Len(A) - 1 PROVE slots[i] = A[i - 0 + 1]
    <3>1. i \in 0 .. write - 1 /\ i < a /\ i - 0 + 1 = i + 1
      BY <1>1, <1>3, <1>4
    <3> QED
      BY <1>1, <1>4, <3>1
  <2>2. ASSUME NEW i \in a .. a + Len(B) - 1 PROVE slots[i] = B[i - a + 1]
    <3>1. i \in 0 .. write - 1 /\ ~(i < a)
      BY <1>1, <1>3, <1>4
    <3> QED
      BY <1>1, <1>4, <3>1
  <2> QED
    BY <2>1, <2>2 DEF Adds
<1>9. PICK off : off = [i \in 0 .. 0 |-> 0]
  OBVIOUS
<1>10. Runs(slots, 0, d, off, 0) /\ off[0] = 0
  BY <1>9 DEF Runs, Ordered
<1>11. Grown(slots, 0 + Len(A), d, off, 0, 0 + m)
  BY <1>3, <1>7, <1>8, <1>10, Longer
<1>12. PICK off2 : Runs(slots, a, d, off2, m) /\ off2[0] = 0
  <2>1. 0 + Len(A) = a /\ 0 + m = m
    BY <1>3, <1>4
  <2> QED
    BY <1>10, <1>11, <2>1 DEF Grown
<1>13. Grown(slots, a + Len(B), d, off2, a, m + k)
  BY <1>3, <1>7, <1>8, <1>12, Longer
<1>14. PICK off3 : Runs(slots, write, d, off3, n) /\ off3[0] = 0
  <2>1. a + Len(B) = write /\ m + k = n /\ 0 \in 0 .. a
    BY <1>1, <1>3, <1>4, <1>7
  <2> QED
    BY <1>12, <1>13, <2>1 DEF Grown
<1>15. Now.slots = slots /\ Now.read = 0 /\ Now.write = write
  BY <1>1 DEF Now
<1>16. Since(d, enabled, id) = 0
  BY <1>1 DEF Since
<1>17. off3 \in [0 .. write -> Nat] /\ Ordered(slots, write, d, off3) /\ off3[write] = Total(d, enabled, id)
  BY <1>5, <1>14 DEF Runs
<1>18. PICK q : q = Now
  OBVIOUS
<1>19. q.slots = slots /\ q.read = 0 /\ q.write = write /\ 0 <= 0
  BY <1>15, <1>18
<1>20. Placed(q, enabled, id, 0, d)
  BY <1>14, <1>16, <1>17, <1>19 DEF Placed
<1> QED
  BY <1>18, <1>20

LEMMA InitOrder ==
  ASSUME Init
  PROVE  OrderInv
<1>1. /\ types \in [Ports -> Kinds] /\ enabled = [x \in Ports |-> FALSE] /\ id = [x \in Ports |-> "FF"]
      /\ write # 0 => Untouched(slots[0])
      /\ read = 0
  BY InitSlots, InitQueue
<1>2. /\ wire = [x \in Ports |-> <<>>] /\ accepted = [x \in Ports |-> <<>>] /\ rates = [x \in Ports |-> <<>>]
      /\ mode = [x \in Ports |-> "00"] /\ cap \in [Ports -> Ids]
  BY ExtensionsAssumption DEF Init, Ids
<1>3. AllSent(Now) /\ \A x \in Ports : Taken(Now, wire, x) = 0
  <2>1. IInv /\ Fresh(Now)
    BY <1>1, InitIInv DEF Fresh, Now
  <2>2. Now \in QueueType /\ Now.read <= Now.write /\ Now.write < QueueSize
    BY <2>1, Bounds DEF IInv, Now
  <2> QED
    BY <2>1, <2>2, FreshHead
<1>4. ASSUME NEW d \in Ports
      PROVE  SoFar(d) /\ InOrder(Now, enabled, id, wire, accepted, d) /\ Knows(enabled, id, d) /\ Tells(wire, d)
  <2>1. accepted[d] = <<>> /\ rates[d] = <<>> /\ mode[d] = "00" /\ wire[d] = <<>> /\ Len(<<>>) = 0
        /\ ~enabled[d] /\ id[d] = "FF"
    BY <1>1, <1>2
  <2>2. Len(Program(d)) \in Nat
    BY DEF Program
  <2>3. SoFar(d)
    BY <2>1, <2>2 DEF SoFar, ModeAt, RatesAt
  <2>4. InOrder(Now, enabled, id, wire, accepted, d)
    <3>1. Len(accepted[d]) - Taken(Now, wire, d) = 0
      BY <1>3, <2>1
    <3> QED
      BY <3>1, InitPlaced DEF InOrder
  <2>5. Knows(enabled, id, d) /\ Tells(wire, d)
    BY <2>1 DEF Knows, Tells
  <2> QED
    BY <2>3, <2>4, <2>5
<1>5. accepted \in [Ports -> Seq(Bytes)] /\ DOMAIN rates = Ports
  BY <1>2
<1> QED
  BY <1>2, <1>3, <1>4, <1>5 DEF OrderInv

LEMMA StepOrder ==
  ASSUME IInv, IInv', OrderInv, [Next]_vars
  PROVE  OrderInv'
<1>1. CASE Main
  BY <1>1, MainOrder
<1>2. ASSUME NEW d \in Ports, IrqHandler(d) PROVE OrderInv'
  BY <1>2, IrqOrder
<1>3. ASSUME NEW d \in Ports, Answer(d) PROVE OrderInv'
  BY <1>3, AnswerOrder
<1>4. ASSUME NEW d \in Ports, AskAgain(d) PROVE OrderInv'
  BY <1>4, AskAgainOrder
<1>5. ASSUME NEW d \in Ports, StaySilent(d) \/ UNCHANGED vars PROVE OrderInv'
  <2>1. /\ UNCHANGED Settled /\ enabled' = enabled /\ id' = id /\ slots' = slots /\ read' = read
        /\ write' = write /\ wire' = wire
    BY <1>5 DEF StaySilent, vars, queue, driver, devices, Settled
  <2>2. \A x \in Ports : Tells(wire', x) /\ Acked(wire'[x]) = Acked(wire[x])
    BY <2>1 DEF OrderInv
  <2> QED
    BY <2>1, <2>2, WireOrder
<1>6. ASSUME NEW d \in Ports, Input(d) PROVE OrderInv'
  BY <1>6, InputOrder
<1>7. CASE UNCHANGED vars
  <2>1. 0 \in Ports
    BY DEF Ports
  <2> QED
    BY <1>5, <1>7, <2>1
<1> QED
  BY <1>1, <1>2, <1>3, <1>4, <1>5, <1>6, <1>7 DEF Next

\* Whatever else happens: the commands that wait, after those the devices accepted, are the
\* rest of their programs, and a mouse's mode and its id as the driver knows it are what they say.
THEOREM OrderInvariant == Spec => []OrderInv
<1>1. IInv /\ OrderInv /\ IInv' /\ [Next]_vars => OrderInv'
  BY StepOrder
<1>2. Init => OrderInv
  BY InitOrder
<1> QED
  BY <1>1, <1>2, LockStepInvariant, PTL DEF Spec

\* However bytes are resent and lost, each device accepts its setup once and in order:
\* ps2.c never repeats a byte that was acknowledged, skips one, or mixes two devices' bytes.
THEOREM SetupInOrder == Spec => []CommandsInOrder
<1>1. ASSUME OrderInv PROVE CommandsInOrder
  <2>1. ASSUME NEW d \in Ports PROVE IsPrefix(accepted[d], Program(d))
    <3>1. /\ Len(accepted[d]) <= Len(Program(d)) /\ Len(accepted[d]) \in Nat /\ accepted[d] \in Seq(Bytes)
          /\ \A k \in 1 .. Len(accepted[d]) : accepted[d][k] = Program(d)[k]
      BY <1>1, LenProperties DEF OrderInv, SoFar
    <3> QED
      BY <3>1 DEF IsPrefix
  <2> QED
    BY <2>1 DEF CommandsInOrder
<1> QED
  BY <1>1, OrderInvariant, PTL

-----------------------------------------------------------------------------
(* The input.  What a device sent and the driver has not handed on is in       *)
(* byte_buffer and, behind the answers, on the wire.                           *)

\* b and w are n answers and the bytes of m packets p.
Flow(b, w, n, m, p) ==
  /\ Len(b) < Len(p) /\ \A k \in 1 .. Len(b) : b[k] = p[k]
  /\ \A k \in 1 .. n : w[k] \notin InputBytes
  /\ Len(b) + (Len(w) - n) = m * Len(p)
  /\ \A k \in 1 .. Len(w) - n : w[n + k] = p[((Len(b) + k - 1) % Len(p)) + 1]
Flows(b, w, m, p) == \E n \in 0 .. Len(w) : Flow(b, w, n, m, p)

\* A device sends input once it accepted the whole of its program.
Stream(d) ==
  /\ scanning[d] => types[d] # "none" /\ Len(accepted[d]) = Len(Program(d))
  /\ ~scanning[d] => inputs[d] = 0 /\ events[d] = <<>> /\ byte_buffer[d] = <<>>
  /\ \A i \in 1 .. Len(events[d]) : events[d][i] = Packet(d)
  /\ Flows(byte_buffer[d], wire[d], inputs[d] - Len(events[d]), Packet(d))
StreamInv ==
  /\ inputs \in [Ports -> Nat] /\ events \in [Ports -> Seq(Seq(InputBytes))]
  /\ \A d \in Ports : Stream(d)

LEMMA PacketForm ==
  ASSUME NEW d \in Ports
  PROVE  LET p == Packet(d) IN
         /\ p \in Seq(InputBytes) /\ Len(p) \in {1, 3, 4}
         /\ types[d] = "keyboard" => Len(p) = 1
         /\ types[d] # "keyboard" => p[1] = "p0" /\ Len(p) = IF mode[d] = "00" THEN 3 ELSE 4
<1>1. CASE types[d] = "keyboard"
  <2>1. Packet(d) = <<"key">>
    BY <1>1 DEF Packet
  <2>2. Len(Packet(d)) = 1
    BY <2>1
  <2> QED
    BY <1>1, <2>2, PacketType
<1>2. CASE types[d] # "keyboard" /\ mode[d] = "00"
  <2>1. Packet(d) = <<"p0", "p1", "p2">>
    BY <1>2 DEF Packet
  <2>2. Len(Packet(d)) = 3 /\ Packet(d)[1] = "p0"
    BY <2>1
  <2> QED
    BY <1>2, <2>2, PacketType
<1>3. CASE types[d] # "keyboard" /\ mode[d] # "00"
  <2>1. PICK a, b : a = <<"p0", "p1", "p2">> /\ b = <<"p3">>
    OBVIOUS
  <2>2. a \in Seq(InputBytes) /\ b \in Seq(InputBytes) /\ Len(a) = 3 /\ Len(b) = 1 /\ a[1] = "p0"
    BY <2>1 DEF InputBytes
  <2>3. Packet(d) = a \o b
    BY <1>3, <2>1 DEF Packet
  <2>4. Len(a \o b) = 4 /\ (a \o b)[1] = "p0"
    <3>1. 1 \in 1 .. Len(a) + Len(b) /\ 1 <= Len(a) /\ Len(a) + Len(b) = 4
      BY <2>2
    <3> QED
      BY <2>2, <3>1, ConcatProperties
  <2>5. Len(Packet(d)) = 4 /\ Packet(d)[1] = "p0"
    BY <2>3, <2>4
  <2> QED
    BY <1>3, <2>5, PacketType
<1> QED
  BY <1>1, <1>2, <1>3

\* Places in a packet, and behind whole ones.
LEMMA InPacket ==
  ASSUME NEW s \in {1, 3, 4}, NEW j \in Nat
  PROVE  j % s \in 0 .. s - 1 /\ (j < s => j % s = j) /\ (s - 1 + (j + 1)) % s = j % s
<1>1. CASE s = 1
  BY <1>1
<1>2. CASE s = 3
  BY <1>2
<1>3. CASE s = 4
  BY <1>3
<1> QED
  BY <1>1, <1>2, <1>3

LEMMA WholePackets ==
  ASSUME NEW s \in {1, 3, 4}, NEW m \in Int
  PROVE  /\ m * s \in Int /\ (m - 1) * s = m * s - s /\ (m + 1) * s = m * s + s
         /\ \A j \in Nat : (m * s + j) % s = j % s
<1>1. CASE s = 1
  BY <1>1
<1>2. CASE s = 3
  BY <1>2
<1>3. CASE s = 4
  BY <1>3
<1> QED
  BY <1>1, <1>2, <1>3

\* An answer is taken off the wire.
LEMMA FlowAnswered ==
  ASSUME NEW b \in Seq(InputBytes), NEW w \in Seq(WireBytes), w # <<>>, w[1] \notin InputBytes, NEW m \in Int,
         NEW p \in Seq(InputBytes), Len(p) \in {1, 3, 4}, Flows(b, w, m, p)
  PROVE  Flows(b, Tail(w), m, p)
<1>1. PICK l \in Nat, r \in Seq(WireBytes) : l = Len(b) /\ r = Tail(w) /\ Len(r) = Len(w) - 1
                                             /\ \A i \in 1 .. Len(r) : r[i] = w[i + 1]
  <2>1. Tail(w) \in Seq(WireBytes) /\ Len(Tail(w)) = Len(w) - 1 /\ \A i \in 1 .. Len(Tail(w)) : Tail(w)[i] = w[i + 1]
    BY HeadTailProperties
  <2>2. Len(b) \in Nat
    BY LenProperties
  <2> QED
    BY <2>1, <2>2
<1>2. PICK v \in Nat : v = Len(w) /\ v >= 1
  BY LenProperties, EmptySeq
<1>3. PICK n \in 0 .. v : Flow(b, w, n, m, p)
  BY <1>2 DEF Flows
<1>4. n >= 1
  <2>1. SUFFICES ASSUME n = 0 PROVE FALSE
    BY <1>2, <1>3
  <2>2. w[0 + 1] = p[((l + 1 - 1) % Len(p)) + 1] /\ 0 + 1 = 1 /\ l + 1 - 1 = l
    BY <1>1, <1>2, <1>3, <2>1 DEF Flow
  <2>3. (l % Len(p)) + 1 \in 1 .. Len(p)
    <3>1. PICK s \in {1, 3, 4} : s = Len(p)
      OBVIOUS
    <3>2. l % s \in 0 .. s - 1
      BY <1>1, InPacket
    <3>3. (l % s) + 1 \in 1 .. s
      BY <3>2
    <3> QED
      BY <3>1, <3>3
  <2>4. p[(l % Len(p)) + 1] \in InputBytes
    BY <2>3, ElementOfSeq
  <2> QED
    BY <2>2, <2>4
<1>5. n - 1 \in 0 .. Len(r) /\ Len(r) - (n - 1) = v - n /\ Len(r) = v - 1
  BY <1>1, <1>2, <1>3, <1>4
<1>6. \A k \in 1 .. n - 1 : r[k] \notin InputBytes
  <2>1. ASSUME NEW k \in 1 .. n - 1 PROVE r[k] \notin InputBytes
    <3>1. k \in 1 .. Len(r) /\ k + 1 \in 1 .. n
      BY <1>3, <1>5
    <3> QED
      BY <1>1, <1>3, <3>1 DEF Flow
  <2> QED
    BY <2>1
<1>7. \A k \in 1 .. Len(r) - (n - 1) : r[(n - 1) + k] = p[((Len(b) + k - 1) % Len(p)) + 1]
  <2>1. ASSUME NEW k \in 1 .. v - n PROVE r[(n - 1) + k] = p[((Len(b) + k - 1) % Len(p)) + 1]
    <3>1. (n - 1) + k \in 1 .. Len(r) /\ (n - 1) + k + 1 = n + k
      BY <1>3, <1>4, <1>5
    <3>2. r[(n - 1) + k] = w[n + k]
      BY <1>1, <3>1
    <3> QED
      BY <1>2, <1>3, <3>2 DEF Flow
  <2> QED
    BY <1>5, <2>1
<1>8. Flow(b, r, n - 1, m, p)
  <2>1. Len(b) + (Len(r) - (n - 1)) = m * Len(p)
    BY <1>2, <1>3, <1>5 DEF Flow
  <2> QED
    BY <1>3, <1>6, <1>7, <2>1 DEF Flow
<1> QED
  BY <1>1, <1>5, <1>8 DEF Flows

\* A packet is put on it.
LEMMA FlowSent ==
  ASSUME NEW b \in Seq(InputBytes), NEW w \in Seq(WireBytes), NEW m \in Int,
         NEW p \in Seq(InputBytes), Len(p) \in {1, 3, 4}, Flows(b, w, m, p)
  PROVE  Flows(b, w \o p, m + 1, p)
<1>1. PICK l \in Nat, v \in Nat, s \in {1, 3, 4} : l = Len(b) /\ v = Len(w) /\ s = Len(p)
  BY LenProperties
<1>2. PICK r \in Seq(WireBytes) :
        /\ r = w \o p /\ Len(r) = v + s
        /\ \A i \in 1 .. v + s : r[i] = IF i <= v THEN w[i] ELSE p[i - v]
  <2>1. p \in Seq(WireBytes)
    BY SeqMonotonic DEF WireBytes
  <2>2. /\ w \o p \in Seq(WireBytes) /\ Len(w \o p) = Len(w) + Len(p)
        /\ \A i \in 1 .. Len(w) + Len(p) : (w \o p)[i] = IF i <= Len(w) THEN w[i] ELSE p[i - Len(w)]
    BY <2>1, ConcatProperties
  <2> QED
    BY <1>1, <2>2
<1>3. PICK n \in 0 .. v : Flow(b, w, n, m, p)
  BY <1>1 DEF Flows
<1>4. l + (v - n) = m * s /\ m * s \in Int /\ (m + 1) * s = m * s + s
  <2>1. m * s \in Int /\ (m + 1) * s = m * s + s
    BY WholePackets
  <2> QED
    BY <1>1, <1>3, <2>1 DEF Flow
<1>5. \A k \in 1 .. n : r[k] \notin InputBytes
  <2>1. ASSUME NEW k \in 1 .. n PROVE r[k] = w[k]
    BY <1>2, <1>3
  <2> QED
    BY <1>3, <2>1 DEF Flow
<1>6. ASSUME NEW k \in 1 .. v + s - n PROVE r[n + k] = p[((l + k - 1) % s) + 1]
  <2>1. CASE n + k <= v
    <3>1. k \in 1 .. v - n /\ r[n + k] = w[n + k]
      BY <1>2, <1>3, <2>1
    <3> QED
      BY <1>1, <1>3, <3>1 DEF Flow
  <2>2. CASE n + k > v
    <3>1. PICK j \in 1 .. s : j = n + k - v
      BY <1>3, <2>2
    <3>2. r[n + k] = p[j]
      <4>1. n + k \in 1 .. v + s /\ ~(n + k <= v) /\ n + k - v = j
        BY <1>3, <2>2, <3>1
      <4> QED
        BY SMTT(60), <1>2, <4>1
    <3>3. PICK x \in Int : x = m * s
      BY <1>4
    <3>4. l + k - 1 = x + (j - 1) /\ j - 1 \in Nat /\ j - 1 < s
      BY <1>3, <1>4, <3>1, <3>3
    <3>5. (m * s + (j - 1)) % s = j - 1
      <4>1. PICK i \in Nat : i = j - 1
        BY <3>4
      <4>2. (m * s + i) % s = i % s /\ (i < s => i % s = i)
        BY InPacket, WholePackets
      <4> QED
        BY <3>4, <4>1, <4>2
    <3>6. ((l + k - 1) % s) + 1 = j
      <4>1. (l + k - 1) % s = j - 1
        BY <3>3, <3>4, <3>5
      <4> QED
        BY <4>1
    <3> QED
      BY <3>2, <3>6
  <2> QED
    BY <1>3, <2>1, <2>2
<1>7. Flow(b, r, n, m + 1, p)
  <2>1. Len(b) + (Len(r) - n) = (m + 1) * Len(p)
    <3>1. PICK x \in Int, y \in Int : x = m * s /\ y = (m + 1) * s
      BY <1>4
    <3>2. l + (v + s - n) = y
      BY <1>3, <1>4, <3>1
    <3> QED
      BY <1>1, <1>2, <3>1, <3>2
  <2>2. \A k \in 1 .. v + s - n : r[n + k] = p[((l + k - 1) % s) + 1]
    BY <1>6
  <2>3. \A k \in 1 .. Len(r) - n : r[n + k] = p[((Len(b) + k - 1) % Len(p)) + 1]
    <3>1. ASSUME NEW k \in 1 .. Len(r) - n PROVE r[n + k] = p[((Len(b) + k - 1) % Len(p)) + 1]
      <4>1. k \in 1 .. v + s - n
        BY <1>2
      <4>2. r[n + k] = p[((l + k - 1) % s) + 1]
        BY <2>2, <4>1
      <4>3. Len(b) = l /\ Len(p) = s
        BY <1>1
      <4> QED
        BY <4>2, <4>3
    <3> QED
      BY <3>1
  <2> QED
    BY <1>3, <1>5, <2>1, <2>3 DEF Flow
<1>8. n \in 0 .. Len(r)
  BY <1>2, <1>3
<1> QED
  BY <1>2, <1>7, <1>8 DEF Flows

\* A byte of input is gathered: it is the next byte of its packet, and the last one ends it.
Gathered(x, w, m, p) ==
  /\ x \in Seq(InputBytes) /\ x[1] = p[1] /\ Len(x) \in Nat /\ Len(x) <= Len(p)
  /\ Len(x) < Len(p) => Flows(x, Tail(w), m, p)
  /\ Len(x) = Len(p) => x = p /\ Flows(<<>>, Tail(w), m - 1, p)
LEMMA FlowGathers ==
  ASSUME NEW b \in Seq(InputBytes), NEW w \in Seq(WireBytes), w # <<>>, w[1] \in InputBytes, NEW m \in Int,
         NEW p \in Seq(InputBytes), Len(p) \in {1, 3, 4}, Flows(b, w, m, p), NEW x, x = Append(b, w[1])
  PROVE  Gathered(x, w, m, p)
<1>1. PICK l \in Nat, v \in Nat, s \in {1, 3, 4} : l = Len(b) /\ v = Len(w) /\ s = Len(p) /\ v >= 1
  BY LenProperties, EmptySeq
<1>2. PICK r \in Seq(WireBytes) : r = Tail(w) /\ Len(r) = v - 1 /\ \A i \in 1 .. v - 1 : r[i] = w[i + 1]
  <2>1. Tail(w) \in Seq(WireBytes) /\ Len(Tail(w)) = Len(w) - 1 /\ \A i \in 1 .. Len(Tail(w)) : Tail(w)[i] = w[i + 1]
    BY HeadTailProperties
  <2> QED
    BY <1>1, <2>1
<1>3. x \in Seq(InputBytes) /\ Len(x) = l + 1 /\ (\A i \in 1 .. l : x[i] = b[i]) /\ x[l + 1] = w[1]
  <2>1. /\ Append(b, w[1]) \in Seq(InputBytes) /\ Len(Append(b, w[1])) = Len(b) + 1
        /\ \A i \in 1 .. Len(b) : Append(b, w[1])[i] = b[i]
        /\ Append(b, w[1])[Len(b) + 1] = w[1]
    BY AppendProperties
  <2> QED
    BY <1>1, <2>1
<1>4. Flow(b, w, 0, m, p)
  <2>1. PICK n \in 0 .. v : Flow(b, w, n, m, p)
    BY <1>1 DEF Flows
  <2>2. n = 0
    <3>1. SUFFICES ASSUME n # 0 PROVE FALSE
      OBVIOUS
    <3>2. 1 \in 1 .. n
      BY <2>1, <3>1
    <3> QED
      BY <2>1, <3>2 DEF Flow
  <2> QED
    BY <2>1, <2>2
<1>5. l < s /\ (\A k \in 1 .. l : b[k] = p[k]) /\ l + v = m * s
  <2>1. Len(b) + (Len(w) - 0) = m * Len(p)
    BY <1>4 DEF Flow
  <2> QED
    BY <1>1, <1>4, <2>1 DEF Flow
<1>6. ASSUME NEW k \in 1 .. v PROVE w[k] = p[((l + k - 1) % s) + 1]
  <2>1. k \in 1 .. Len(w) - 0 /\ 0 + k = k
    BY <1>1
  <2>2. w[0 + k] = p[((Len(b) + k - 1) % Len(p)) + 1]
    BY <1>4, <2>1 DEF Flow
  <2>3. Len(b) = l /\ Len(p) = s
    BY <1>1
  <2> QED
    BY <2>1, <2>2, <2>3
<1>7. w[1] = p[l + 1]
  <2>1. l % s = l /\ l + 1 - 1 = l /\ 1 \in 1 .. v
    <3>1. l < s => l % s = l
      BY InPacket
    <3> QED
      BY <1>1, <1>5, <3>1
  <2>2. w[1] = p[((l + 1 - 1) % s) + 1]
    BY <1>6, <2>1
  <2> QED
    BY <2>1, <2>2
<1>8. \A i \in 1 .. l + 1 : x[i] = p[i]
  <2>1. ASSUME NEW i \in 1 .. l + 1 PROVE x[i] = p[i]
    <3>1. CASE i = l + 1
      BY <1>3, <1>7, <3>1
    <3>2. CASE i \in 1 .. l
      BY <1>3, <1>5, <3>2
    <3> QED
      BY <1>1, <2>1, <3>1, <3>2
  <2> QED
    BY <2>1
<1>9. x[1] = p[1]
  <2>1. 1 \in 1 .. l + 1
    BY <1>1
  <2> QED
    BY <1>8, <2>1
<1>10. ASSUME l + 1 < s PROVE Flows(x, r, m, p)
  <2>1. ASSUME NEW k \in 1 .. v - 1 PROVE r[0 + k] = p[((Len(x) + k - 1) % Len(p)) + 1]
    <3>1. k + 1 \in 1 .. v /\ 0 + k = k /\ r[k] = w[k + 1]
      BY <1>1, <1>2
    <3>2. w[k + 1] = p[((l + (k + 1) - 1) % s) + 1]
      BY <1>6, <3>1
    <3>3. l + (k + 1) - 1 = Len(x) + k - 1 /\ s = Len(p)
      BY <1>1, <1>3
    <3> QED
      BY <3>1, <3>2, <3>3
  <2>2. Len(x) + (Len(r) - 0) = m * Len(p)
    <3>1. (l + 1) + ((v - 1) - 0) = l + v
      BY <1>1
    <3> QED
      BY <1>1, <1>2, <1>3, <1>5, <3>1
  <2>3. Len(r) - 0 = v - 1 /\ 0 \in 0 .. Len(r)
    BY <1>1, <1>2
  <2>4. \A k \in 1 .. Len(r) - 0 : r[0 + k] = p[((Len(x) + k - 1) % Len(p)) + 1]
    BY <2>1, <2>3
  <2>5. Len(x) < Len(p) /\ \A k \in 1 .. Len(x) : x[k] = p[k]
    BY <1>1, <1>3, <1>8, <1>10
  <2>6. \A k \in 1 .. 0 : r[k] \notin InputBytes
    OBVIOUS
  <2>7. Flow(x, r, 0, m, p)
    BY <2>2, <2>4, <2>5, <2>6 DEF Flow
  <2> QED
    BY <2>3, <2>7 DEF Flows
<1>11. ASSUME l + 1 = s PROVE Flows(<<>>, r, m - 1, p)
  <2>1. PICK e \in Seq(InputBytes) : e = <<>> /\ Len(e) = 0
    BY EmptySeq
  <2>2. ASSUME NEW k \in 1 .. v - 1 PROVE r[0 + k] = p[((Len(e) + k - 1) % Len(p)) + 1]
    <3>1. k + 1 \in 1 .. v /\ 0 + k = k /\ r[k] = w[k + 1]
      BY <1>1, <1>2
    <3>2. w[k + 1] = p[((l + (k + 1) - 1) % s) + 1]
      BY <1>6, <3>1
    <3>3. PICK j \in Nat : j = k - 1
      BY <2>2
    <3>4. l + (k + 1) - 1 = s - 1 + (j + 1) /\ Len(e) + k - 1 = j
      <4>1. k \in Int /\ j = k - 1 /\ l = s - 1
        BY <1>1, <1>11, <2>2, <3>3
      <4>2. l + (k + 1) - 1 = s - 1 + (j + 1)
        BY <4>1
      <4>3. Len(e) + k - 1 = j
        BY <2>1, <4>1
      <4> QED
        BY <4>2, <4>3
    <3>5. (s - 1 + (j + 1)) % s = j % s
      BY InPacket
    <3>6. s = Len(p)
      BY <1>1
    <3> QED
      BY <3>1, <3>2, <3>4, <3>5, <3>6
  <2>3. Len(e) + (Len(r) - 0) = (m - 1) * Len(p)
    <3>1. PICK y \in Int, z \in Int : y = m * s /\ z = (m - 1) * s /\ z = y - s
      BY WholePackets
    <3>2. 0 + ((v - 1) - 0) = z
      BY <1>1, <1>5, <1>11, <3>1
    <3> QED
      BY <1>1, <1>2, <2>1, <3>1, <3>2
  <2>4. Len(r) - 0 = v - 1 /\ 0 \in 0 .. Len(r)
    BY <1>1, <1>2
  <2>5. \A k \in 1 .. Len(r) - 0 : r[0 + k] = p[((Len(e) + k - 1) % Len(p)) + 1]
    BY <2>2, <2>4
  <2>6. Len(e) < Len(p) /\ (\A k \in 1 .. Len(e) : e[k] = p[k]) /\ \A k \in 1 .. 0 : r[k] \notin InputBytes
    <3>1. Len(e) < Len(p)
      <4>1. 0 < s
        OBVIOUS
      <4>2. Len(e) = 0 /\ Len(p) = s
        BY <1>1, <2>1
      <4> QED
        BY <4>1, <4>2
    <3>2. 1 .. Len(e) = {} /\ 1 .. 0 = {}
      BY <2>1
    <3> QED
      BY <3>1, <3>2
  <2>7. Flow(e, r, 0, m - 1, p)
    BY <2>3, <2>5, <2>6 DEF Flow
  <2>8. Flows(e, r, m - 1, p)
    BY <2>4, <2>7 DEF Flows
  <2> QED
    BY <2>1, <2>8
<1>12. ASSUME l + 1 = s PROVE x = p
  <2>1. Len(x) = Len(p) /\ \A i \in 1 .. Len(x) : x[i] = p[i]
    BY <1>1, <1>3, <1>8, <1>12
  <2> QED
    BY <1>3, <2>1, SeqEqual
<1>13. Len(x) = l + 1 /\ Len(p) = s /\ Tail(w) = r /\ l + 1 \in Nat /\ l + 1 <= s
  BY <1>1, <1>2, <1>3, <1>5
<1> QED
  BY <1>3, <1>9, <1>10, <1>11, <1>12, <1>13 DEF Gathered

\* Only answers, and nothing gathered.
LEMMA FlowOfAnswers ==
  ASSUME NEW w, Len(w) \in Nat, \A k \in 1 .. Len(w) : w[k] \notin InputBytes, NEW p, Len(p) \in {1, 3, 4}
  PROVE  Flows(<<>>, w, 0, p)
<1> DEFINE e == <<>>
<1>1. Len(e) = 0
  OBVIOUS
<1> HIDE DEF e
<1>2. Len(w) - Len(w) = 0 /\ Len(w) \in 0 .. Len(w) /\ 0 * Len(p) = 0 /\ 0 + 0 = 0
  OBVIOUS
<1>3. Len(e) < Len(p) /\ \A k \in 1 .. Len(e) : e[k] = p[k]
  BY <1>1
<1>4. \A k \in 1 .. Len(w) - Len(w) : w[Len(w) + k] = p[((Len(e) + k - 1) % Len(p)) + 1]
  BY <1>2
<1>5. Len(e) + (Len(w) - Len(w)) = 0 * Len(p)
  BY <1>1, <1>2
<1>6. Flow(e, w, Len(w), 0, p)
  BY <1>3, <1>4, <1>5 DEF Flow
<1>7. Flows(e, w, 0, p)
  BY <1>2, <1>6 DEF Flows
<1> QED
  BY <1>7 DEF e

-----------------------------------------------------------------------------
(* How the steps change the input *)

LEMMA PacketLengths ==
  ASSUME NEW p, p \in {<<"key">>, <<"p0", "p1", "p2">> \o <<>>, <<"p0", "p1", "p2">> \o <<"p3">>}
  PROVE  Len(p) \in {1, 3, 4}
<1>1. PICK a, b, c : a = <<"p0", "p1", "p2">> /\ b = <<"p3">> /\ c = <<>>
  OBVIOUS
<1>2. /\ a \in Seq(InputBytes) /\ b \in Seq(InputBytes) /\ c \in Seq(InputBytes)
      /\ Len(a) = 3 /\ Len(b) = 1 /\ Len(c) = 0
  BY <1>1 DEF InputBytes
<1>3. Len(a \o b) = 4 /\ Len(a \o c) = 3
  <2>1. Len(a \o b) = Len(a) + Len(b)
    BY <1>2, ConcatProperties
  <2>2. Len(a \o c) = Len(a) + Len(c)
    BY <1>2, ConcatProperties
  <2> QED
    BY <1>2, <2>1, <2>2
<1>4. CASE p = <<"key">>
  BY <1>4
<1>5. CASE p = a \o b
  BY <1>3, <1>5
<1>6. CASE p = a \o c
  BY <1>3, <1>6
<1> QED
  BY <1>1, <1>4, <1>5, <1>6

LEMMA NextPacket ==
  ASSUME NEW d \in Ports
  PROVE  Len(Packet(d)') \in {1, 3, 4}
<1>1. PICK p : p = Packet(d)'
  OBVIOUS
<1>2. p \in {<<"key">>, <<"p0", "p1", "p2">> \o <<>>, <<"p0", "p1", "p2">> \o <<"p3">>}
  BY <1>1 DEF Packet
<1> QED
  BY <1>1, <1>2, PacketLengths

LEMMA SamePacket ==
  ASSUME NEW d \in Ports, types' = types, mode'[d] = mode[d]
  PROVE  Packet(d)' = Packet(d)
BY DEF Packet

\* What has to be shown of a port after a step.
LEMMA NextStream ==
  ASSUME NEW d \in Ports, types' = types, cap' = cap, NEW p, p = Packet(d)', NEW m,
         m = inputs'[d] - Len(events'[d]),
         scanning'[d] => types[d] # "none" /\ Len(accepted'[d]) = Len(Program(d)),
         ~scanning'[d] => inputs'[d] = 0 /\ events'[d] = <<>> /\ byte_buffer'[d] = <<>>,
         \A i \in 1 .. Len(events'[d]) : events'[d][i] = p,
         Flows(byte_buffer'[d], wire'[d], m, p)
  PROVE  Stream(d)'
<1>1. Program(d)' = Program(d)
  BY DEF Program
<1>2. Flows(byte_buffer[d], wire[d], inputs[d] - Len(events[d]), Packet(d))'
  OBVIOUS
<1>3. (\A i \in 1 .. Len(events[d]) : events[d][i] = Packet(d))'
  OBVIOUS
<1> QED
  BY <1>1, <1>2, <1>3 DEF Stream

Parts(d) ==
  <<mode[d], scanning[d], accepted[d], inputs[d], events[d], byte_buffer[d], wire[d]>>
LEMMA StreamStays ==
  ASSUME NEW d \in Ports, Stream(d), types' = types, cap' = cap, UNCHANGED Parts(d)
  PROVE  Stream(d)'
<1>1. /\ mode'[d] = mode[d] /\ scanning'[d] = scanning[d] /\ accepted'[d] = accepted[d] /\ inputs'[d] = inputs[d]
      /\ events'[d] = events[d] /\ byte_buffer'[d] = byte_buffer[d] /\ wire'[d] = wire[d]
  BY DEF Parts
<1>2. Packet(d)' = Packet(d)
  BY <1>1, SamePacket
<1>3. PICK p, m : p = Packet(d)' /\ m = inputs'[d] - Len(events'[d])
  OBVIOUS
<1>4. Flows(byte_buffer'[d], wire'[d], m, p)
  BY <1>1, <1>2, <1>3 DEF Stream
<1>5. \A i \in 1 .. Len(events'[d]) : events'[d][i] = p
  BY <1>1, <1>2, <1>3 DEF Stream
<1>6. scanning'[d] => types[d] # "none" /\ Len(accepted'[d]) = Len(Program(d))
  BY <1>1 DEF Stream
<1>7. ~scanning'[d] => inputs'[d] = 0 /\ events'[d] = <<>> /\ byte_buffer'[d] = <<>>
  BY <1>1 DEF Stream
<1> QED
  BY <1>3, <1>4, <1>5, <1>6, <1>7, NextStream

\* Before it reports, all a device sends is answers.
LEMMA StreamSilent ==
  ASSUME NEW d \in Ports, Stream(d), ~scanning[d], types' = types, cap' = cap,
         UNCHANGED <<inputs, events, byte_buffer>>,
         scanning'[d] => types[d] # "none" /\ Len(accepted'[d]) = Len(Program(d)),
         Len(wire'[d]) \in Nat, \A k \in 1 .. Len(wire'[d]) : wire'[d][k] \notin InputBytes
  PROVE  Stream(d)'
<1>1. inputs'[d] = 0 /\ events'[d] = <<>> /\ byte_buffer'[d] = <<>>
  BY DEF Stream
<1>2. PICK p, m : p = Packet(d)' /\ m = inputs'[d] - Len(events'[d])
  OBVIOUS
<1>3. m = 0 /\ Len(events'[d]) = 0
  <2>1. Len(<<>>) = 0
    OBVIOUS
  <2>2. Len(events'[d]) = 0
    BY <1>1, <2>1
  <2>3. inputs'[d] = 0
    BY <1>1
  <2> QED
    BY <1>2, <2>2, <2>3
<1>4. PICK w : w = wire'[d]
  OBVIOUS
<1>5. Flows(<<>>, w, 0, p)
  BY <1>2, <1>4, NextPacket, FlowOfAnswers
<1>6. Flows(byte_buffer'[d], wire'[d], m, p)
  BY <1>1, <1>3, <1>4, <1>5
<1>7. \A i \in 1 .. Len(events'[d]) : events'[d][i] = p
  BY <1>3
<1> QED
  BY <1>1, <1>2, <1>6, <1>7, NextStream

LEMMA StreamMain ==
  ASSUME StreamInv, Main \/ UNCHANGED vars
  PROVE  StreamInv'
<1>1. UNCHANGED <<types, cap, mode, scanning, accepted, inputs, events, byte_buffer, wire>>
  <2>1. CASE Main
    BY <2>1 DEF Main, Look, Mark, Send, SendTimeout, driver, devices, counters
  <2>2. CASE UNCHANGED vars
    BY <2>2 DEF vars, driver, devices, counters
  <2> QED
    BY <2>1, <2>2
<1>2. ASSUME NEW x \in Ports PROVE Stream(x)'
  <2>1. UNCHANGED Parts(x)
    BY <1>1 DEF Parts
  <2> QED
    BY <1>1, <2>1, StreamStays DEF StreamInv
<1> QED
  BY <1>1, <1>2 DEF StreamInv

LEMMA StaySilentStream ==
  ASSUME StreamInv, NEW d \in Ports, StaySilent(d)
  PROVE  StreamInv'
<1>1. UNCHANGED <<types, cap, mode, scanning, accepted, inputs, events, byte_buffer, wire>>
  BY DEF StaySilent, driver, devices
<1>2. ASSUME NEW x \in Ports PROVE Stream(x)'
  <2>1. UNCHANGED Parts(x)
    BY <1>1 DEF Parts
  <2> QED
    BY <1>1, <2>1, StreamStays DEF StreamInv
<1> QED
  BY <1>1, <1>2 DEF StreamInv

LEMMA AskAgainStream ==
  ASSUME IInv, StreamInv, NEW d \in Ports, AskAgain(d)
  PROVE  StreamInv'
<1>1. /\ UNCHANGED <<types, cap, mode, scanning, accepted, inputs, events, byte_buffer>>
      /\ wire' = [wire EXCEPT ![d] = Append(wire[d], RESEND)] /\ inbox[d] # <<>>
  BY DEF AskAgain, driver, devices
<1>2. wire[d] = <<>> /\ ~scanning[d]
  BY <1>1, Asked
<1>3. wire \in WireType
  BY DEF IInv, Types, WireType
<1>4. ASSUME NEW x \in Ports, x # d PROVE Stream(x)'
  <2>1. wire'[x] = wire[x]
    BY <1>1, <1>3, <1>4 DEF WireType
  <2>2. UNCHANGED Parts(x)
    BY <1>1, <2>1 DEF Parts
  <2> QED
    BY <1>1, <2>2, StreamStays DEF StreamInv
<1>5. Stream(d)'
  <2>1. wire'[d] = <<RESEND>>
    BY <1>1, <1>2, <1>3 DEF WireType
  <2>2. Len(wire'[d]) = 1 /\ wire'[d][1] \notin InputBytes
    BY <2>1 DEF RESEND, InputBytes
  <2>3. Len(wire'[d]) \in Nat /\ \A k \in 1 .. Len(wire'[d]) : wire'[d][k] \notin InputBytes
    BY <2>2
  <2> QED
    BY <1>1, <1>2, <2>3, StreamSilent DEF StreamInv
<1> QED
  BY <1>1, <1>4, <1>5 DEF StreamInv

\* The last byte of a program, and no other, turns the reports on.
LEMMA ReportsLast ==
  ASSUME NEW d \in Ports, NEW n \in Nat, n + 1 <= Len(Program(d)), Program(d)[n + 1] = "F4"
  PROVE  types[d] # "none" /\ n + 1 = Len(Program(d))
<1>1. CASE types[d] = "keyboard"
  <2>1. Program(d) = <<"ED", "00", "F0", "02", "F4">>
    BY <1>1 DEF Program
  <2>2. Len(Program(d)) = 5
    BY <2>1
  <2>3. n \in 0 .. 4
    BY <2>2
  <2>4. n = 4
    BY <2>1, <2>3
  <2> QED
    BY <1>1, <2>2, <2>4
<1>2. CASE types[d] = "none"
  BY <1>2 DEF Program
<1>3. CASE types[d] \notin {"keyboard", "none"} /\ cap[d] = "00"
  <2>1. Program(d) = <<"F3", "200", "F3", "100", "F3", "80", "F2", "F3", "100", "F4">>
    BY <1>3 DEF Program
  <2>2. Len(Program(d)) = 10
    BY <2>1
  <2>3. n \in 0 .. 9
    BY <2>2
  <2>4. n = 9
    BY <2>1, <2>3
  <2> QED
    BY <1>3, <2>2, <2>4
<1>4. CASE types[d] \notin {"keyboard", "none"} /\ cap[d] # "00"
  <2>1. Program(d) = <<"F3", "200", "F3", "100", "F3", "80", "F2", "F3", "200", "F3", "200", "F3", "80", "F2",
                       "F3", "100", "F4">>
    BY <1>4 DEF Program
  <2>2. Len(Program(d)) = 17
    BY <2>1
  <2>3. n \in 0 .. 16
    BY <2>2
  <2>4. n = 16
    BY <2>1, <2>3
  <2> QED
    BY <1>4, <2>2, <2>4
<1> QED
  BY <1>1, <1>2, <1>3, <1>4

LEMMA AnswerStream ==
  ASSUME IInv, OrderInv, StreamInv, NEW d \in Ports, Answer(d)
  PROVE  StreamInv'
<1> DEFINE byte == Head(inbox[d])
           param == accepted[d] # <<>> /\ Last(accepted[d]) \in {"F3", "ED", "F0"}
           ident == ~param /\ byte = "F2"
<1>1. /\ UNCHANGED <<types, cap, inputs, events, byte_buffer>>
      /\ wire' = [wire EXCEPT ![d] = wire[d] \o IF ident THEN <<ACK, mode[d]>> ELSE <<ACK>>] /\ inbox[d] # <<>>
      /\ accepted' = [accepted EXCEPT ![d] = Append(accepted[d], byte)]
      /\ scanning' = [scanning EXCEPT ![d] = scanning[d] \/ (~param /\ byte = "F4")]
      /\ \E r : mode' = mode \/ mode' = [mode EXCEPT ![d] = r]
  BY DEF Answer, driver, counters
<1>2. wire[d] = <<>> /\ ~scanning[d]
  BY <1>1, Asked
<1>3. wire \in WireType /\ scanning \in [Ports -> BOOLEAN] /\ mode \in [Ports -> Ids]
      /\ accepted \in [Ports -> Seq(Bytes)]
  BY DEF IInv, Types, WireType, OrderInv
<1>4. ASSUME NEW x \in Ports, x # d PROVE Stream(x)'
  <2>1. wire'[x] = wire[x] /\ scanning'[x] = scanning[x] /\ accepted'[x] = accepted[x]
    BY <1>1, <1>3, <1>4 DEF WireType
  <2>2. mode'[x] = mode[x]
    BY <1>1, <1>3, <1>4
  <2>3. UNCHANGED Parts(x)
    BY <1>1, <2>1, <2>2 DEF Parts
  <2> QED
    BY <1>1, <2>3, StreamStays DEF StreamInv
<1>5. Stream(d)'
  <2>1. wire'[d] = <<>> \o IF ident THEN <<ACK, mode[d]>> ELSE <<ACK>>
    BY <1>1, <1>2, <1>3 DEF WireType
  <2>2. wire'[d] = IF ident THEN <<ACK, mode[d]>> ELSE <<ACK>>
    BY <2>1
  <2>3. Len(wire'[d]) \in Nat /\ \A k \in 1 .. Len(wire'[d]) : wire'[d][k] \notin InputBytes
    <3>1. ACK \notin InputBytes /\ mode[d] \notin InputBytes
      BY <1>3 DEF ACK, InputBytes, Ids
    <3>2. CASE ident
      BY <2>2, <3>1, <3>2
    <3>3. CASE ~ident
      BY <2>2, <3>1, <3>3
    <3> QED
      BY <3>2, <3>3
  <2>4. ASSUME scanning'[d] PROVE types[d] # "none" /\ Len(accepted'[d]) = Len(Program(d))
    <3>1. PICK n : n = Len(accepted[d])
      OBVIOUS
    <3>2. n \in Nat /\ n + 1 <= Len(Program(d)) /\ byte = Program(d)[n + 1]
      BY <1>1, <3>1, AskedByte
    <3>3. byte = "F4"
      BY <1>1, <1>2, <1>3, <2>4
    <3>4. Len(accepted'[d]) = n + 1
      <4>1. byte \in Bytes
        BY <3>3 DEF Bytes
      <4>2. accepted'[d] = Append(accepted[d], byte)
        BY <1>1, <1>3
      <4> HIDE DEF byte
      <4> QED
        BY <1>3, <3>1, <4>1, <4>2, AppendProperties
    <3> QED
      BY <3>2, <3>3, <3>4, ReportsLast
  <2> QED
    BY <1>1, <1>2, <2>3, <2>4, StreamSilent DEF StreamInv
<1> QED
  BY <1>1, <1>4, <1>5 DEF StreamInv

LEMMA InputStream ==
  ASSUME IInv, StreamInv, NEW d \in Ports, Input(d)
  PROVE  StreamInv'
<1>1. /\ UNCHANGED <<types, cap, mode, scanning, accepted, events, byte_buffer>>
      /\ wire' = [wire EXCEPT ![d] = wire[d] \o Packet(d)] /\ inputs' = [inputs EXCEPT ![d] = inputs[d] + 1]
      /\ scanning[d]
  BY DEF Input, driver, devices
<1>2. wire \in WireType /\ inputs \in [Ports -> Nat] /\ byte_buffer[d] \in Seq(InputBytes)
      /\ events[d] \in Seq(Seq(InputBytes))
  BY DEF IInv, Types, WireType, StreamInv
<1>3. ASSUME NEW x \in Ports, x # d PROVE Stream(x)'
  <2>1. wire'[x] = wire[x] /\ inputs'[x] = inputs[x]
    BY <1>1, <1>2, <1>3 DEF WireType
  <2>2. UNCHANGED Parts(x)
    BY <1>1, <2>1 DEF Parts
  <2> QED
    BY <1>1, <2>2, StreamStays DEF StreamInv
<1>4. Stream(d)'
  <2>0. PICK e \in Nat, i \in Nat : e = Len(events[d]) /\ i = inputs[d]
    <3>1. Len(events[d]) \in Nat /\ inputs[d] \in Nat
      BY <1>2, LenProperties
    <3> QED
      BY <3>1
  <2>1. PICK p, w, b, m : p = Packet(d) /\ w = wire[d] /\ b = byte_buffer[d] /\ m = inputs[d] - Len(events[d])
    OBVIOUS
  <2>2. p \in Seq(InputBytes) /\ Len(p) \in {1, 3, 4} /\ w \in Seq(WireBytes) /\ b \in Seq(InputBytes)
        /\ m \in Int /\ m = i - e
    BY <1>2, <2>0, <2>1, PacketForm DEF WireType
  <2>3. Stream(d)
    BY DEF StreamInv
  <2>4. Flows(b, w, m, p)
    BY <2>1, <2>3 DEF Stream
  <2>5. Flows(b, w \o p, m + 1, p)
    BY <2>2, <2>4, FlowSent
  <2>6. wire'[d] = w \o p /\ inputs'[d] = i + 1
    BY <1>1, <1>2, <2>0, <2>1 DEF WireType
  <2>7. PICK m2 : m2 = inputs'[d] - Len(events'[d])
    OBVIOUS
  <2>8. m2 = m + 1
    <3>1. Len(events'[d]) = e
      BY <1>1, <2>0
    <3>2. m2 = (i + 1) - e
      BY <2>6, <2>7, <3>1
    <3> QED
      BY <2>2, <3>2
  <2>9. p = Packet(d)'
    BY <1>1, <2>1, SamePacket
  <2>10. Flows(byte_buffer'[d], wire'[d], m2, p)
    BY <1>1, <2>1, <2>5, <2>6, <2>8
  <2>11. \A k \in 1 .. Len(events'[d]) : events'[d][k] = p
    BY <1>1, <2>1, <2>3 DEF Stream
  <2>12. scanning'[d] /\ types[d] # "none" /\ Len(accepted'[d]) = Len(Program(d))
    BY <1>1, <2>3 DEF Stream
  <2> QED
    BY <1>1, <2>7, <2>9, <2>10, <2>11, <2>12, NextStream
<1>5. inputs' \in [Ports -> Nat]
  BY <1>1, <1>2
<1> QED
  BY <1>1, <1>3, <1>4, <1>5 DEF StreamInv

LEMMA IrqStream ==
  ASSUME IInv, OrderInv, StreamInv, NEW d \in Ports, IrqHandler(d)
  PROVE  StreamInv'
<1> DEFINE c == slots[read]
           byte == wire[d][1]
<1>1. wire[d] # <<>> /\ wire' = Shorter(d) /\ UNCHANGED <<types, cap, mode, scanning, accepted, inputs>>
  BY IrqCases DEF devices, counters
<1>2. /\ wire \in WireType /\ byte_buffer \in [Ports -> Seq(InputBytes)]
      /\ inputs \in [Ports -> Nat] /\ events \in [Ports -> Seq(Seq(InputBytes))]
  BY DEF IInv, Types, WireType, StreamInv
<1>3. PICK p, w, b, m : p = Packet(d) /\ w = wire[d] /\ b = byte_buffer[d] /\ m = inputs[d] - Len(events[d])
  OBVIOUS
<1>4. PICK e \in Nat, i \in Nat : e = Len(events[d]) /\ i = inputs[d]
  <2>1. Len(events[d]) \in Nat /\ inputs[d] \in Nat
    BY <1>2, LenProperties
  <2> QED
    BY <2>1
<1>5. /\ p \in Seq(InputBytes) /\ Len(p) \in {1, 3, 4} /\ w \in Seq(WireBytes) /\ b \in Seq(InputBytes)
      /\ m \in Int /\ m = i - e /\ w # <<>> /\ byte = w[1]
  BY <1>1, <1>2, <1>3, <1>4, PacketForm DEF WireType
<1>6. Stream(d) /\ Flows(b, w, m, p)
  <2>1. Stream(d)
    BY DEF StreamInv
  <2> QED
    BY <1>3, <2>1 DEF Stream
<1>7. wire'[d] = Tail(w) /\ \A x \in Ports : x # d => wire'[x] = wire[x]
  BY <1>1, <1>2, <1>3 DEF WireType, Shorter
<1>8. p = Packet(d)'
  BY <1>1, <1>3, SamePacket
<1>9. \A k \in 1 .. Len(events[d]) : events[d][k] = p
  BY <1>3, <1>6 DEF Stream
<1>10. /\ scanning'[d] => types[d] # "none" /\ Len(accepted'[d]) = Len(Program(d))
       /\ ~scanning[d] => inputs[d] = 0 /\ events[d] = <<>> /\ byte_buffer[d] = <<>>
       /\ scanning' = scanning
  BY <1>1, <1>6 DEF Stream
<1>11. ASSUME byte \notin InputBytes, UNCHANGED <<events, byte_buffer>> PROVE StreamInv'
  <2>1. Flows(b, Tail(w), m, p)
    BY <1>5, <1>6, <1>11, FlowAnswered
  <2>2. Flows(byte_buffer'[d], wire'[d], m, p) /\ m = inputs'[d] - Len(events'[d])
    BY <1>1, <1>3, <1>7, <1>11, <2>1
  <2>3. ~scanning'[d] => inputs'[d] = 0 /\ events'[d] = <<>> /\ byte_buffer'[d] = <<>>
    BY <1>1, <1>10, <1>11
  <2>4. \A k \in 1 .. Len(events'[d]) : events'[d][k] = p
    BY <1>9, <1>11
  <2>5. Stream(d)'
    BY <1>1, <1>8, <1>10, <2>2, <2>3, <2>4, NextStream
  <2>6. ASSUME NEW x \in Ports, x # d PROVE Stream(x)'
    <3>1. UNCHANGED Parts(x)
      BY <1>1, <1>7, <1>11, <2>6 DEF Parts
    <3> QED
      BY <1>1, <3>1, StreamStays DEF StreamInv
  <2> QED
    BY <1>1, <1>11, <2>5, <2>6 DEF StreamInv
<1>12. CASE Owner(Now, d) /\ c.state = "WAIT_ACK"
  <2>1. UNCHANGED <<events, byte_buffer>>
    BY <1>12, IrqCases DEF driver
  <2>2. byte \in {ACK, RESEND}
    BY <1>1, <1>12, HeadWaits
  <2> QED
    BY <1>11, <2>1, <2>2 DEF ACK, RESEND, InputBytes
<1>13. CASE Owner(Now, d) /\ c.state = "WAIT_RESP"
  <2>1. c.resp_size = 1 /\ byte \in Ids /\ types[d] = "mouse" /\ ~enabled[d]
    BY <1>1, <1>13, AskedForId DEF Identifies
  <2>2. c.resp_size <= 1 => ToDevice(d, byte, Popped(Answered(c)))
    BY <1>13, IrqCases
  <2>3. UNCHANGED <<events, byte_buffer>>
    BY <2>1, <2>2 DEF ToDevice, MouseIdentified
  <2> QED
    BY <1>11, <2>1, <2>3 DEF Ids, InputBytes
<1>14. CASE ~Owner(Now, d) \/ c.state = "NORMAL"
  <2>1. ToDevice(d, byte, With(c))
    BY <1>14, IrqCases
  <2>2. byte \in InputBytes /\ scanning[d] /\ (types[d] = "mouse" => enabled[d])
    BY <1>1, <1>14, InputComes
  <2>3. InputByte(d, byte)
    BY <2>1, <2>2 DEF ToDevice
  <2>4. types[d] \in {"keyboard", "mouse"} /\ Len(accepted[d]) = Len(Program(d)) /\ Len(b) < Len(p)
    <3>1. Len(b) < Len(p)
      BY <1>6 DEF Flows, Flow
    <3> QED
      BY <1>6, <2>2, <3>1 DEF Stream, IInv, Types, Kinds
  <2>5. types[d] = "mouse" => p[1] = "p0" /\ Len(p) = PacketSize(d)
    <3>1. SUFFICES ASSUME types[d] = "mouse" PROVE p[1] = "p0" /\ Len(p) = PacketSize(d)
      OBVIOUS
    <3>2. id[d] = cap[d] /\ cap[d] \in Ids
      BY <2>2, <3>1 DEF OrderInv, Knows
    <3>3. mode[d] = ModeAt(cap[d], Len(Program(d)))
      BY <2>4, <3>1 DEF OrderInv, SoFar
    <3>4. mode[d] = cap[d]
      <4>1. CASE cap[d] = "00"
        BY <3>3, <4>1 DEF ModeAt
      <4>2. CASE cap[d] # "00"
        <5>1. Len(Program(d)) = 17
          BY <3>1, <4>2 DEF Program
        <5> QED
          BY <3>2, <3>3, <4>2, <5>1 DEF ModeAt, Ids
      <4> QED
        BY <4>1, <4>2
    <3> QED
      BY <1>3, <3>1, <3>2, <3>4, PacketForm DEF PacketSize
  <2>6. PICK x : x = Append(b, byte)
    OBVIOUS
  <2>7. /\ x \in Seq(InputBytes) /\ x[1] = p[1] /\ Len(x) \in Nat /\ Len(x) <= Len(p)
        /\ Len(x) < Len(p) => Flows(x, Tail(w), m, p)
        /\ Len(x) = Len(p) => x = p /\ Flows(<<>>, Tail(w), m - 1, p)
    <3>1. w[1] \in InputBytes /\ x = Append(b, w[1])
      BY <1>5, <2>2, <2>6
    <3>2. Gathered(x, w, m, p)
      BY <1>5, <1>6, <3>1, FlowGathers
    <3> QED
      BY <3>2 DEF Gathered
  <2>8. (types[d] = "keyboard" \/ Len(x) = PacketSize(d)) <=> Len(x) = Len(p)
    <3>1. CASE types[d] = "keyboard"
      <4>1. Len(p) = 1
        BY <1>3, <3>1, PacketForm
      <4>2. Len(x) = Len(b) + 1 /\ Len(b) \in Nat
        BY <1>5, <2>2, <2>6, AppendProperties, LenProperties
      <4> QED
        BY <2>7, <3>1, <4>1, <4>2
    <3>2. CASE types[d] = "mouse"
      BY <2>5, <3>2
    <3> QED
      BY <2>4, <3>1, <3>2
  <2>9. ~(types[d] = "mouse" /\ x[1] # "p0")
    BY <2>5, <2>7
  <2>10. /\ byte_buffer' = [byte_buffer EXCEPT ![d] = IF Len(x) = Len(p) THEN <<>> ELSE x]
         /\ events' = [events EXCEPT ![d] = IF Len(x) = Len(p) THEN Append(events[d], x) ELSE events[d]]
    <3>1. /\ byte_buffer' = [byte_buffer EXCEPT ![d] =
                 IF (types[d] = "mouse" /\ x[1] # "p0") \/ (types[d] = "keyboard" \/ Len(x) = PacketSize(d))
                   THEN <<>> ELSE x]
          /\ events' = [events EXCEPT ![d] =
                 IF ~(types[d] = "mouse" /\ x[1] # "p0") /\ (types[d] = "keyboard" \/ Len(x) = PacketSize(d))
                   THEN Append(events[d], x) ELSE events[d]]
      BY <1>2, <1>3, <2>3, <2>6 DEF InputByte
    <3> QED
      BY <2>8, <2>9, <3>1
  <2>11. /\ byte_buffer'[d] = IF Len(x) = Len(p) THEN <<>> ELSE x
         /\ events'[d] = IF Len(x) = Len(p) THEN Append(events[d], x) ELSE events[d]
         /\ \A y \in Ports : y # d => byte_buffer'[y] = byte_buffer[y] /\ events'[y] = events[y]
    BY <1>2, <2>10
  <2>12. ASSUME NEW y \in Ports, y # d PROVE Stream(y)'
    <3>1. UNCHANGED Parts(y)
      BY <1>1, <1>7, <2>11, <2>12 DEF Parts
    <3> QED
      BY <1>1, <3>1, StreamStays DEF StreamInv
  <2>13. Stream(d)'
    <3>1. scanning'[d]
      BY <1>10, <2>2
    <3>2. CASE Len(x) # Len(p)
      <4>1. Flows(byte_buffer'[d], wire'[d], m, p)
        BY <1>5, <1>7, <2>7, <2>11, <3>2
      <4>2. m = inputs'[d] - Len(events'[d]) /\ \A k \in 1 .. Len(events'[d]) : events'[d][k] = p
        BY <1>1, <1>3, <1>9, <2>11, <3>2
      <4> QED
        BY <1>1, <1>8, <1>10, <3>1, <4>1, <4>2, NextStream
    <3>3. CASE Len(x) = Len(p)
      <4>1. PICK n : n = m - 1
        OBVIOUS
      <4>2. Flows(byte_buffer'[d], wire'[d], n, p)
        BY <1>7, <2>7, <2>11, <3>3, <4>1
      <4>3. /\ Len(events'[d]) = e + 1 /\ (\A k \in 1 .. e : events'[d][k] = events[d][k]) /\ events'[d][e + 1] = x
        BY <1>2, <1>4, <2>7, <2>11, <3>3, AppendProperties
      <4>4. n = inputs'[d] - Len(events'[d])
        <5>1. inputs'[d] = i
          BY <1>1, <1>4
        <5> QED
          BY <1>5, <4>1, <4>3, <5>1
      <4>5. ASSUME NEW k \in 1 .. e + 1 PROVE events'[d][k] = p
        <5>1. CASE k = e + 1
          BY <2>7, <3>3, <4>3, <5>1
        <5>2. CASE k \in 1 .. e
          BY <1>4, <1>9, <4>3, <5>2
        <5> QED
          BY <4>5, <5>1, <5>2
      <4>6. \A k \in 1 .. Len(events'[d]) : events'[d][k] = p
        BY <4>3, <4>5
      <4> QED
        BY <1>1, <1>8, <1>10, <3>1, <4>2, <4>4, <4>6, NextStream
    <3> QED
      BY <3>2, <3>3
  <2>14. events' \in [Ports -> Seq(Seq(InputBytes))]
    <3>1. Append(events[d], x) \in Seq(Seq(InputBytes))
      BY <1>2, <2>7, AppendProperties
    <3> QED
      BY <1>2, <2>10, <3>1
  <2> QED
    BY <1>1, <2>12, <2>13, <2>14 DEF StreamInv
<1> QED
  BY <1>12, <1>13, <1>14, HeadStates

LEMMA InitStream ==
  ASSUME Init
  PROVE  StreamInv
<1>1. ASSUME NEW d \in Ports PROVE Stream(d)
  <2>1. ~scanning[d] /\ inputs[d] = 0 /\ events[d] = <<>> /\ byte_buffer[d] = <<>> /\ wire[d] = <<>> /\ Len(<<>>) = 0
    BY DEF Init
  <2>2. PICK p, w, m : p = Packet(d) /\ w = wire[d] /\ m = inputs[d] - Len(events[d])
    OBVIOUS
  <2>3. Len(w) = 0 /\ Len(events[d]) = 0 /\ inputs[d] = 0
    BY <2>1, <2>2
  <2>4. m = 0
    BY <2>2, <2>3
  <2>5. Len(w) \in Nat /\ \A k \in 1 .. Len(w) : w[k] \notin InputBytes
    BY <2>3
  <2>6. Len(p) \in {1, 3, 4}
    BY <2>2, PacketForm
  <2>7. Flows(<<>>, w, 0, p)
    BY <2>5, <2>6, FlowOfAnswers
  <2>8. Flows(byte_buffer[d], wire[d], inputs[d] - Len(events[d]), Packet(d))
    BY <2>1, <2>2, <2>4, <2>7
  <2>9. \A i \in 1 .. Len(events[d]) : events[d][i] = Packet(d)
    BY <2>3
  <2> QED
    BY <2>1, <2>8, <2>9 DEF Stream
<1>2. inputs \in [Ports -> Nat] /\ events \in [Ports -> Seq(Seq(InputBytes))]
  BY DEF Init
<1> QED
  BY <1>1, <1>2 DEF StreamInv

LEMMA StepStream ==
  ASSUME IInv, OrderInv, StreamInv, [Next]_vars
  PROVE  StreamInv'
<1>1. CASE Main \/ UNCHANGED vars
  BY <1>1, StreamMain
<1>2. ASSUME NEW d \in Ports, IrqHandler(d) PROVE StreamInv'
  BY <1>2, IrqStream
<1>3. ASSUME NEW d \in Ports, Answer(d) PROVE StreamInv'
  BY <1>3, AnswerStream
<1>4. ASSUME NEW d \in Ports, AskAgain(d) PROVE StreamInv'
  BY <1>4, AskAgainStream
<1>5. ASSUME NEW d \in Ports, StaySilent(d) PROVE StreamInv'
  BY <1>5, StaySilentStream
<1>6. ASSUME NEW d \in Ports, Input(d) PROVE StreamInv'
  BY <1>6, InputStream
<1> QED
  BY <1>1, <1>2, <1>3, <1>4, <1>5, <1>6 DEF Next

\* In every state the bytes of a device that were not handed on are those of whole packets, the
\* first of them perhaps begun, and only a device that accepted its program sent them.
THEOREM StreamInvariant == Spec => []StreamInv
<1>1. IInv /\ OrderInv /\ StreamInv /\ [Next]_vars => StreamInv'
  BY StepStream
<1>2. Init => StreamInv
  BY InitStream
<1> QED
  BY <1>1, <1>2, LockStepInvariant, OrderInvariant, PTL DEF Spec

\* The bytes b, and those of w from a to v, are whole packets.
Whole(g, A, m, p) ==
  /\ A = 1 .. Cardinality(A) /\ Len(g) = m * Len(p)
  /\ \A k \in DOMAIN g : g[k] = p[((k - 1) % Len(p)) + 1]
LEMMA FlowIntact ==
  ASSUME NEW b \in Seq(InputBytes), NEW w \in Seq(WireBytes), NEW m \in Int,
         NEW p \in Seq(InputBytes), Len(p) \in {1, 3, 4}, Flows(b, w, m, p),
         NEW A, A = {i \in DOMAIN w : w[i] \notin InputBytes},
         NEW g, g = b \o SubSeq(w, Cardinality(A) + 1, Len(w))
  PROVE  Whole(g, A, m, p)
<1>1. PICK l \in Nat, v \in Nat, s \in {1, 3, 4} : l = Len(b) /\ v = Len(w) /\ s = Len(p) /\ DOMAIN w = 1 .. v
  BY LenProperties
<1>2. PICK n \in 0 .. v : Flow(b, w, n, m, p)
  BY <1>1 DEF Flows
<1>3. l < s /\ (\A k \in 1 .. l : b[k] = p[k]) /\ (\A k \in 1 .. n : w[k] \notin InputBytes) /\ l + (v - n) = m * s
  BY <1>1, <1>2 DEF Flow
<1>4. ASSUME NEW k \in 1 .. v - n PROVE w[n + k] = p[((l + k - 1) % s) + 1]
  <2>1. k \in 1 .. Len(w) - n /\ Len(b) = l /\ Len(p) = s
    BY <1>1, <1>4
  <2> QED
    BY <1>2, <2>1 DEF Flow
<1>5. ASSUME NEW k \in 1 .. v - n PROVE w[n + k] \in InputBytes
  <2>1. PICK j \in Nat : j = l + k - 1
    BY <1>5
  <2>2. j % s \in 0 .. s - 1
    BY InPacket
  <2>3. (j % s) + 1 \in 1 .. Len(p)
    BY <1>1, <2>2
  <2>4. p[(j % s) + 1] \in InputBytes
    BY <2>3, ElementOfSeq
  <2> QED
    BY <1>4, <2>1, <2>4
<1>6. A = 1 .. n
  <2>1. ASSUME NEW i \in 1 .. v PROVE i \in 1 .. n <=> w[i] \notin InputBytes
    <3>1. CASE i \in 1 .. n
      BY <1>3, <3>1
    <3>2. CASE i \notin 1 .. n
      <4>1. i - n \in 1 .. v - n /\ n + (i - n) = i
        BY <1>2, <3>2
      <4> QED
        BY <1>5, <3>2, <4>1
    <3> QED
      BY <3>1, <3>2
  <2>2. 1 .. n \subseteq 1 .. v
    BY <1>2
  <2>3. A = {i \in 1 .. v : w[i] \notin InputBytes}
    BY <1>1
  <2> QED
    BY <2>1, <2>2, <2>3
<1>7. Cardinality(A) = n
  <2>1. n \in Int /\ n >= 0
    BY <1>2
  <2>2. Cardinality(1 .. n) = IF 1 > n THEN 0 ELSE n - 1 + 1
    BY <2>1, FS_Interval
  <2>3. (IF 1 > n THEN 0 ELSE n - 1 + 1) = n
    BY <2>1
  <2> QED
    BY <1>6, <2>2, <2>3
<1>8. PICK r \in Seq(InputBytes) : /\ r = SubSeq(w, n + 1, v) /\ Len(r) = v - n
                                   /\ \A k \in 1 .. v - n : r[k] = w[n + k]
  <2>1. \A i \in n + 1 .. v : w[i] \in InputBytes
    <3>1. ASSUME NEW i \in n + 1 .. v PROVE w[i] \in InputBytes
      <4>1. i - n \in 1 .. v - n /\ n + (i - n) = i
        BY <1>2, <3>1
      <4> QED
        BY <1>5, <4>1
    <3> QED
      BY <3>1
  <2>2. PICK a \in Int : a = n + 1
    BY <1>2
  <2>3. /\ SubSeq(w, a, v) \in Seq(InputBytes) /\ Len(SubSeq(w, a, v)) = IF a <= v THEN v - a + 1 ELSE 0
        /\ \A i \in 1 .. v - a + 1 : SubSeq(w, a, v)[i] = w[a + i - 1]
    BY <2>1, <2>2, SubSeqProperties
  <2>4. v - a + 1 = v - n /\ (a <= v <=> v - n > 0) /\ v - n >= 0
    BY <1>2, <2>2
  <2>5. ASSUME NEW k \in 1 .. v - n PROVE SubSeq(w, a, v)[k] = w[n + k]
    <3>1. a + k - 1 = n + k /\ k \in 1 .. v - a + 1
      BY <2>2, <2>4, <2>5
    <3> QED
      BY <2>3, <3>1
  <2>6. Len(SubSeq(w, a, v)) = v - n
    BY <2>3, <2>4
  <2> QED
    BY <2>2, <2>3, <2>5, <2>6
<1>9. g = b \o r
  BY <1>1, <1>7, <1>8
<1>10. /\ g \in Seq(InputBytes) /\ Len(g) = l + (v - n)
       /\ \A k \in 1 .. l + (v - n) : g[k] = IF k <= l THEN b[k] ELSE r[k - l]
  <2>1. /\ b \o r \in Seq(InputBytes) /\ Len(b \o r) = Len(b) + Len(r)
        /\ \A k \in 1 .. Len(b) + Len(r) : (b \o r)[k] = IF k <= Len(b) THEN b[k] ELSE r[k - Len(b)]
    BY ConcatProperties
  <2> QED
    BY <1>1, <1>8, <1>9, <2>1
<1>11. ASSUME NEW k \in 1 .. l + (v - n) PROVE g[k] = p[((k - 1) % s) + 1]
  <2>1. CASE k <= l
    <3>1. PICK j \in Nat : j = k - 1
      BY <1>11
    <3>2. j < s => j % s = j
      BY InPacket
    <3>3. (k - 1) % s = k - 1 /\ (k - 1) + 1 = k
      BY <1>3, <1>11, <2>1, <3>1, <3>2
    <3>4. g[k] = b[k] /\ b[k] = p[k]
      <4>1. k \in 1 .. l
        BY <1>11, <2>1
      <4>2. g[k] = IF k <= l THEN b[k] ELSE r[k - l]
        BY <1>10, <1>11
      <4> QED
        BY <1>3, <2>1, <4>1, <4>2
    <3> QED
      BY <3>3, <3>4
  <2>2. CASE ~(k <= l)
    <3>1. PICK j \in 1 .. v - n : j = k - l
      BY <1>2, <1>11, <2>2
    <3>2. g[k] = r[j] /\ r[j] = w[n + j]
      BY <1>8, <1>10, <1>11, <2>2, <3>1
    <3>3. w[n + j] = p[((l + j - 1) % s) + 1] /\ l + j - 1 = k - 1
      <4>1. w[n + j] = p[((l + j - 1) % s) + 1]
        BY <1>4, <3>1, ZenonT(60)
      <4>2. l + j - 1 = k - 1
        BY <1>2, <1>11, <3>1
      <4> QED
        BY <4>1, <4>2
    <3> QED
      BY <3>2, <3>3
  <2> QED
    BY <2>1, <2>2
<1>12. DOMAIN g = 1 .. l + (v - n)
  BY <1>10, LenProperties
<1>13. Len(g) = m * Len(p)
  BY <1>1, <1>3, <1>10
<1>14. \A k \in DOMAIN g : g[k] = p[((k - 1) % Len(p)) + 1]
  BY <1>1, <1>11, <1>12
<1> QED
  BY <1>6, <1>7, <1>13, <1>14 DEF Whole

\* The input of a device is neither lost, nor taken for an answer, nor cut up: ps2.c hands a
\* device's byte to its driver only when no answer of it is due, and ps2_mouse_new_byte and
\* ps2_keyboard_new_byte put together just the packets it sent.
THEOREM InputStaysWhole == Spec => []InputIntact
<1>1. ASSUME IInv, StreamInv PROVE InputIntact
  <2>1. ASSUME NEW d \in Ports
        PROVE  LET size == Len(Packet(d))
                   gathered == byte_buffer[d] \o SubSeq(wire[d], Cardinality(AnswersAt(d)) + 1, Len(wire[d]))
               IN /\ AnswersAt(d) = 1 .. Cardinality(AnswersAt(d))
                  /\ \A i \in DOMAIN events[d] : events[d][i] = Packet(d)
                  /\ Len(gathered) = (inputs[d] - Len(events[d])) * size
                  /\ \A k \in DOMAIN gathered : gathered[k] = Packet(d)[((k - 1) % size) + 1]
    <3>1. PICK p, w, b, m, A : /\ p = Packet(d) /\ w = wire[d] /\ b = byte_buffer[d] /\ A = AnswersAt(d)
                               /\ m = inputs[d] - Len(events[d])
      OBVIOUS
    <3>2. PICK g : g = b \o SubSeq(w, Cardinality(A) + 1, Len(w))
      OBVIOUS
    <3>3. inputs[d] \in Nat /\ events[d] \in Seq(Seq(InputBytes)) /\ b \in Seq(InputBytes) /\ w \in Seq(WireBytes)
      BY <1>1, <3>1 DEF IInv, Types, StreamInv
    <3>4. m \in Int /\ DOMAIN events[d] = 1 .. Len(events[d])
      BY <3>1, <3>3, LenProperties
    <3>5. p \in Seq(InputBytes) /\ Len(p) \in {1, 3, 4} /\ A = {i \in DOMAIN w : w[i] \notin InputBytes}
      BY <3>1, PacketForm DEF AnswersAt
    <3>6. Flows(b, w, m, p) /\ \A i \in 1 .. Len(events[d]) : events[d][i] = p
      BY <1>1, <3>1 DEF StreamInv, Stream
    <3>7. Whole(g, A, m, p)
      BY <3>2, <3>3, <3>4, <3>5, <3>6, FlowIntact
    <3> QED
      BY <3>1, <3>2, <3>4, <3>6, <3>7 DEF Whole
  <2> QED
    BY <2>1 DEF InputIntact
<1> QED
  BY <1>1, LockStepInvariant, StreamInvariant, PTL
=============================================================================
