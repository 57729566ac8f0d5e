----------------------------- MODULE MouseProofs -----------------------------
(* The mouse: its indexes agree, a packet that came whole is decoded to what   *)
(* happened, buttons are pressed and released in turn, and its reader sees a   *)
(* queue that drops its oldest events.                                         *)
EXTENDS Ps2Mouse, SequenceTheorems, FiniteSetTheorems, TLAPS

\* What the ring holds, oldest first, from the slot t on.
Ring(q, t, n) == [i \in 1 .. n |-> q[(t + i - 1) % QueueSize]]
Event == MouseEvent \cup {NONE}
Octets == 0 .. 255

\* The three indexes agree, and the slots hold events.
RingOK ==
  /\ queue \in [Slots -> Event]
  /\ head \in Slots /\ tail \in Slots /\ len \in 0 .. QueueSize - 1
  /\ head = (tail + len) % QueueSize

\* Between the look at the ring and the way out of the critical section no interrupt comes.
Critical ==
  /\ pc \in {"idle", "look", "drop"} /\ enabled \in BOOLEAN
  /\ pc # "idle" => ~enabled
  /\ pc = "drop" => len > 0

\* Bytes are bytes, and fewer than make a packet.
BytesOK ==
  /\ id \in {0, 3, 4} /\ wire \in Seq(Octets)
  /\ byte_buffer \in Seq(Octets) /\ Len(byte_buffer) < PacketSize
  /\ button_mask \subseteq 0 .. 4 /\ reported \subseteq Buttons

IInv == RingOK /\ Critical /\ BytesOK

-----------------------------------------------------------------------------
(* Indexes that wrap once *)

LEMMA SizeNat == QueueSize \in Nat \ {0}
<1>1. Cardinality(Buttons) \in Nat BY QueueSizeAssumption, FS_CardinalityType
<1> QED BY <1>1, QueueSizeAssumption

Wrapped(a) == IF a < QueueSize THEN a ELSE a - QueueSize

LEMMA Wraps ==
  ASSUME NEW a \in 0 .. 2 * QueueSize - 1
  PROVE  a % QueueSize = Wrapped(a)
BY SizeNat DEF Wrapped

LEMMA WrapsBack ==
  ASSUME NEW a \in Int, -QueueSize <= a, a < QueueSize
  PROVE  a % QueueSize = IF a < 0 THEN a + QueueSize ELSE a
BY SizeNat

LEMMA InSlots == ASSUME NEW a \in Int PROVE a % QueueSize \in Slots
BY SizeNat DEF Slots

LEMMA RingSeq ==
  ASSUME NEW S, NEW q \in [Slots -> S], NEW t \in Slots, NEW n \in 0 .. QueueSize
  PROVE  /\ Ring(q, t, n) \in Seq(S) /\ Len(Ring(q, t, n)) = n
         /\ \A i \in 1 .. n : Ring(q, t, n)[i] = q[(t + i - 1) % QueueSize]
<1>1. n \in Nat /\ \A i \in 1 .. n : t + i - 1 \in Int
  BY SizeNat DEF Slots
<1>2. \A i \in 1 .. n : q[(t + i - 1) % QueueSize] \in S
  BY <1>1, InSlots
<1>3. Ring(q, t, n) \in [1 .. n -> S]
  BY <1>2 DEF Ring
<1>4. Ring(q, t, n) \in Seq(S)
  BY <1>1, <1>3, SeqDef
<1> QED
  BY <1>1, <1>3, <1>4, LenProperties DEF Ring

\* What comes after the first d of a sequence.
Rest(s, d) == SubSeq(s, d + 1, Len(s))
LEMMA RestSeq ==
  ASSUME NEW S, NEW s \in Seq(S), NEW d \in 0 .. Len(s)
  PROVE  /\ Rest(s, d) \in Seq(S) /\ Len(Rest(s, d)) = Len(s) - d
         /\ \A i \in 1 .. Len(s) - d : Rest(s, d)[i] = s[d + i]
<1>1. Len(s) \in Nat BY LenProperties
<1>2. \A i \in d + 1 .. Len(s) : s[i] \in S
  <2>1. \A i \in d + 1 .. Len(s) : i \in 1 .. Len(s) BY <1>1
  <2> QED BY <2>1, ElementOfSeq
<1>3. PICK n \in Nat : n = Len(s) BY <1>1
<1>4. PICK m \in Int : m = d + 1 BY <1>1
<1>5. /\ SubSeq(s, m, n) \in Seq(S)
      /\ Len(SubSeq(s, m, n)) = IF m <= n THEN n - m + 1 ELSE 0
      /\ \A i \in 1 .. n - m + 1 : SubSeq(s, m, n)[i] = s[m + i - 1]
  BY <1>2, <1>3, <1>4, SubSeqProperties
<1> QED
  BY <1>1, <1>3, <1>4, <1>5 DEF Rest

\* The place of the slot of an entry after the slot h, where what comes next is put.
Placed(N, t, m, d, i, h, u, slot, o) ==
  /\ N \in Nat /\ t \in 0 .. N - 1 /\ m \in 0 .. N - 1 /\ d \in 0 .. m /\ i \in 1 .. N
  /\ h = IF t + m < N THEN t + m ELSE t + m - N
  /\ u = IF t + d < N THEN t + d ELSE t + d - N
  /\ slot = IF u + i - 1 < N THEN u + i - 1 ELSE (u + i - 1) - N
  /\ o = IF slot - h < 0 THEN slot - h + N ELSE slot - h
LEMMA Offset ==
  ASSUME NEW N, NEW t, NEW m, NEW d, NEW i, NEW h, NEW u, NEW slot, NEW o,
         Placed(N, t, m, d, i, h, u, slot, o)
  PROVE  IF i <= m - d THEN o = N - (m - d - i + 1) ELSE o = i - (m - d) - 1
<1> USE SMTT(60) DEF Placed
<1>1. CASE t + m < N
  <2>1. CASE u + i - 1 < N BY <1>1, <2>1
  <2>2. CASE ~(u + i - 1 < N) BY <1>1, <2>2
  <2> QED BY <2>1, <2>2
<1>2. CASE ~(t + m < N)
  <2>1. CASE t + d < N
    <3>1. CASE u + i - 1 < N BY <1>2, <2>1, <3>1
    <3>2. CASE ~(u + i - 1 < N) BY <1>2, <2>1, <3>2
    <3> QED BY <3>1, <3>2
  <2>2. CASE ~(t + d < N) BY <1>2, <2>2
  <2> QED BY <2>1, <2>2
<1> QED BY <1>1, <1>2

\* The slots from h on take the events es.
Filled(r, q, h, es) ==
  r = [i \in Slots |-> LET k == ((i - h) % QueueSize) + 1 IN
                       IF k \in 1 .. Len(es) THEN es[k] ELSE q[i]]

\* The ring of m entries from the slot t drops d and takes the events es.
Batched(q, t, m, es, d, h, u, r) ==
  /\ q \in [Slots -> Event] /\ t \in Slots /\ m \in 0 .. QueueSize - 1
  /\ es \in Seq(Event) /\ d \in {0, Len(es)} /\ d <= m /\ m - d + Len(es) < QueueSize
  /\ h = (t + m) % QueueSize /\ u = (t + d) % QueueSize
  /\ Filled(r, q, h, es)

\* Events that come together follow those that are not dropped for them.
LEMMA RingBatch ==
  ASSUME NEW q, NEW t, NEW m, NEW es, NEW d, NEW h, NEW u, NEW r,
         Batched(q, t, m, es, d, h, u, r)
  PROVE  /\ r \in [Slots -> Event]
         /\ Ring(r, u, m - d + Len(es)) = Rest(Ring(q, t, m), d) \o es
<1>a. /\ q \in [Slots -> Event] /\ t \in Slots /\ m \in 0 .. QueueSize - 1
      /\ es \in Seq(Event) /\ d \in {0, Len(es)} /\ d <= m /\ m - d + Len(es) < QueueSize
      /\ h = (t + m) % QueueSize /\ u = (t + d) % QueueSize
      /\ Filled(r, q, h, es)
  BY DEF Batched
<1>0. PICK n \in Nat : n = Len(es) BY LenProperties
<1>1a. d \in 0 .. m /\ m \in Nat /\ t \in Nat /\ d \in {0, n} /\ d <= m /\ m < QueueSize
       /\ t < QueueSize /\ m - d + n < QueueSize
  BY <1>a, <1>0, SizeNat DEF Slots
<1>1b. h \in Slots /\ u \in Slots
  <2>1. t + m \in Int /\ t + d \in Int BY <1>1a
  <2> QED BY <1>a, <2>1, InSlots
<1>1. n \in Nat /\ d \in 0 .. m /\ m \in Nat /\ t \in Nat /\ h \in Slots /\ u \in Slots
  BY <1>1a, <1>1b
<1>2. r \in [Slots -> Event]
  <2>1. \A k \in 1 .. Len(es) : es[k] \in Event BY <1>a, ElementOfSeq
  <2> QED BY <1>a, <2>1 DEF Filled
<1>3. /\ Ring(r, u, m - d + n) \in Seq(Event) /\ Len(Ring(r, u, m - d + n)) = m - d + n
      /\ \A i \in 1 .. m - d + n : Ring(r, u, m - d + n)[i] = r[(u + i - 1) % QueueSize]
  <2>1. PICK w \in 0 .. QueueSize : w = m - d + n BY <1>1a, SizeNat
  <2>2. /\ Ring(r, u, w) \in Seq(Event) /\ Len(Ring(r, u, w)) = w
        /\ \A i \in 1 .. w : Ring(r, u, w)[i] = r[(u + i - 1) % QueueSize]
    BY ZenonT(60), <1>1b, <1>2, RingSeq
  <2> QED BY <2>1, <2>2
<1>4. PICK kept \in Seq(Event) :
        /\ kept = Rest(Ring(q, t, m), d) /\ Len(kept) = m - d
        /\ \A i \in 1 .. m - d : kept[i] = q[(t + (d + i) - 1) % QueueSize]
  <2>1. PICK g \in Seq(Event) : g = Ring(q, t, m) /\ Len(g) = m /\ \A i \in 1 .. m : g[i] = q[(t + i - 1) % QueueSize]
    <3>1. m \in 0 .. QueueSize BY <1>a, <1>1, SizeNat
    <3>2. /\ Ring(q, t, m) \in Seq(Event) /\ Len(Ring(q, t, m)) = m
          /\ \A i \in 1 .. m : Ring(q, t, m)[i] = q[(t + i - 1) % QueueSize]
      BY <1>a, <3>1, RingSeq
    <3> QED BY <3>2
  <2>2. /\ Rest(g, d) \in Seq(Event) /\ Len(Rest(g, d)) = m - d
        /\ \A i \in 1 .. m - d : Rest(g, d)[i] = g[d + i]
    <3>1. d \in 0 .. Len(g) BY <1>1, <2>1
    <3> HIDE DEF Rest
    <3>2. Len(Rest(g, d)) = Len(g) - d /\ \A i \in 1 .. Len(g) - d : Rest(g, d)[i] = g[d + i]
      BY <3>1, RestSeq
    <3> QED BY <2>1, <3>1, <3>2, RestSeq
  <2>3. \A i \in 1 .. m - d : d + i \in 1 .. m BY <1>1
  <2> QED BY <2>1, <2>2, <2>3
<1>5. /\ kept \o es \in Seq(Event) /\ Len(kept \o es) = m - d + n
      /\ \A i \in 1 .. m - d + n : (kept \o es)[i] = IF i <= m - d THEN kept[i] ELSE es[i - (m - d)]
  <2>1. Len(kept) = m - d /\ Len(es) = n BY <1>0, <1>4
  <2>2. Len(kept \o es) = Len(kept) + Len(es) BY ConcatProperties
  <2>3. \A i \in 1 .. Len(kept) + Len(es) :
          (kept \o es)[i] = IF i <= Len(kept) THEN kept[i] ELSE es[i - Len(kept)]
    BY ConcatProperties
  <2>4. kept \o es \in Seq(Event) BY <1>a, ConcatProperties
  <2> QED BY <2>1, <2>2, <2>3, <2>4
<1>6. h = Wrapped(t + m) /\ u = Wrapped(t + d)
  <2>1. t + m \in 0 .. 2 * QueueSize - 1 /\ t + d \in 0 .. 2 * QueueSize - 1
    BY <1>a, <1>1, SizeNat DEF Slots
  <2> QED BY <1>a, <2>1, Wraps
<1>7. ASSUME NEW i \in 1 .. m - d + n PROVE Ring(r, u, m - d + n)[i] = (kept \o es)[i]
  <2>1. PICK slot \in Slots : slot = (u + i - 1) % QueueSize
    <3>1. u + i - 1 \in Int BY <1>1, <1>1a DEF Slots
    <3> QED BY <3>1, InSlots
  <2>2. Ring(r, u, m - d + n)[i] = r[slot] BY <1>3, <2>1
  <2>3. slot = Wrapped(u + i - 1)
    <3>1. u + i - 1 \in 0 .. 2 * QueueSize - 1 BY <1>1, <1>1a, SizeNat DEF Slots
    <3> QED BY <2>1, <3>1, Wraps
  <2>4. (slot - h) % QueueSize = IF slot - h < 0 THEN slot - h + QueueSize ELSE slot - h
    <3>1. slot - h \in Int /\ -QueueSize <= slot - h /\ slot - h < QueueSize
      BY <1>1, SizeNat DEF Slots
    <3> QED BY <3>1, WrapsBack
  <2>5. PICK k \in Int : k = ((slot - h) % QueueSize) + 1
    <3>1. slot - h \in Int BY <1>1, SizeNat DEF Slots
    <3> QED BY <2>4, <3>1, SizeNat
  <2>5a. IF i <= m - d THEN k = QueueSize - (m - d - i + 1) + 1 ELSE k = i - (m - d)
    <3>1. PICK o \in Int : o = (slot - h) % QueueSize /\ k = o + 1
      <4>1. slot - h \in Int BY <1>1, SizeNat DEF Slots
      <4>2. (slot - h) % QueueSize \in Int BY <4>1, SizeNat
      <4> QED BY <2>5, <4>2
    <3>2. o = IF slot - h < 0 THEN slot - h + QueueSize ELSE slot - h BY <2>4, <3>1
    <3>3. PICK N \in Nat : N = QueueSize BY SizeNat
    <3>4. t \in 0 .. N - 1 /\ m \in 0 .. N - 1 /\ d \in 0 .. m /\ i \in 1 .. N
      BY <1>1a, <3>3
    <3>5. Placed(N, t, m, d, i, h, u, slot, o)
      <4>1. h = IF t + m < N THEN t + m ELSE t + m - N
        <5>1. PICK a \in Int : a = t + m BY <1>1
        <5> QED BY <1>1, <1>6, <3>3, <5>1 DEF Wrapped
      <4>2. u = IF t + d < N THEN t + d ELSE t + d - N
        <5>1. PICK a \in Int : a = t + d BY <1>1
        <5>2. d \in Int /\ t \in Int /\ N \in Int BY <1>1, <3>3
        <5>3. a - N = t + d - N BY <5>1, <5>2
        <5> QED BY <1>6, <3>3, <5>1, <5>3 DEF Wrapped
      <4>3. slot = IF u + i - 1 < N THEN u + i - 1 ELSE (u + i - 1) - N
        <5>1. PICK a \in Int : a = u + i - 1 BY <1>1, <1>1a DEF Slots
        <5>2. slot = IF a < N THEN a ELSE a - N BY <2>3, <3>3, <5>1 DEF Wrapped
        <5> QED BY <5>1, <5>2
      <4>4. o = IF slot - h < 0 THEN slot - h + N ELSE slot - h BY <3>2, <3>3
      <4> QED BY <3>3, <3>4, <4>1, <4>2, <4>3, <4>4 DEF Placed
    <3>6. IF i <= m - d THEN o = N - (m - d - i + 1) ELSE o = i - (m - d) - 1
      BY <3>5, Offset
    <3> QED BY <1>1a, <3>1, <3>3, <3>6
  <2>6. r[slot] = IF k \in 1 .. n THEN es[k] ELSE q[slot] BY <1>a, <1>0, <2>5 DEF Filled
  <2>7. n < QueueSize - (m - d) /\ d \in {0, n} BY <1>1a, SizeNat
  <2>8. CASE i <= m - d
    <3>1. k \notin 1 .. n BY <1>1a, <2>5a, <2>8, SizeNat
    <3>2. slot = (t + (d + i) - 1) % QueueSize
      <4>1. t + (d + i) - 1 \in 0 .. 2 * QueueSize - 1 BY <1>a, <1>1, <2>8, SizeNat DEF Slots
      <4>2. Wrapped(t + (d + i) - 1) = slot
        BY <1>1, <1>6, <2>3, <2>8, SizeNat DEF Slots, Wrapped
      <4> QED BY <4>1, <4>2, Wraps
    <3>3. i \in 1 .. m - d BY <1>1, <2>8
    <3> QED BY <1>4, <1>5, <2>2, <2>6, <2>8, <3>1, <3>2, <3>3
  <2>9. CASE ~(i <= m - d)
    <3>1. k = i - (m - d) BY <2>5a, <2>9
    <3>2. k \in 1 .. n BY <1>1, <2>9, <3>1
    <3> QED BY <1>5, <2>2, <2>6, <2>9, <3>1, <3>2
  <2> QED BY <2>8, <2>9
<1>8. Ring(r, u, m - d + n) = kept \o es BY <1>1, <1>3, <1>5, <1>7, SeqEqual
<1> QED BY <1>0, <1>2, <1>4, <1>8

-----------------------------------------------------------------------------
(* The events of a packet *)

\* The sequences of at most n elements of S.
Short(S, n) == {s \in Seq(S) : Len(s) <= n}

\* Events are what slots hold.
LEMMA SeqOfEvents == ASSUME NEW n, NEW es \in Short(MouseEvent, n) PROVE es \in Seq(Event)
<1>1. es \in Seq(MouseEvent) BY DEF Short
<1>2. \A i \in 1 .. Len(es) : es[i] \in Event BY <1>1, ElementOfSeq DEF Event
<1>3. Len(es) \in Nat /\ es \in [1 .. Len(es) -> MouseEvent] BY <1>1, LenProperties
<1>4. es \in [1 .. Len(es) -> Event] BY <1>2, <1>3
<1> QED BY <1>3, <1>4, SeqDef

LEMMA Joined ==
  ASSUME NEW S, NEW m \in Nat, NEW n \in Nat, NEW a \in Short(S, m), NEW b \in Short(S, n)
  PROVE  a \o b \in Short(S, m + n)
<1>1. a \in Seq(S) /\ b \in Seq(S) /\ Len(a) \in Nat /\ Len(b) \in Nat /\ Len(a) <= m /\ Len(b) <= n
  BY LenProperties DEF Short
<1>2. Len(a \o b) = Len(a) + Len(b) BY <1>1, ConcatProperties
<1>3. a \o b \in Seq(S) BY <1>1, ConcatProperties
<1> QED BY <1>1, <1>2, <1>3 DEF Short

LEMMA MaybeShort ==
  ASSUME NEW S, NEW event \in S, NEW happens
  PROVE  Maybe(happens, event) \in Short(S, 1)
<1>1. <<event>> \in Seq(S) /\ Len(<<event>>) = 1 OBVIOUS
<1>2. <<>> \in Seq(S) /\ Len(<<>>) = 0 OBVIOUS
<1> QED BY <1>1, <1>2 DEF Maybe, Short

LEMMA ChangesShort ==
  ASSUME NEW from, NEW to
  PROVE  Changes(from, to) \in Short(MouseEvent, 5)
<1>1. ASSUME NEW i \in 0 .. 4 PROVE Change(i, from, to) \in Short(MouseEvent, 1)
  <2>1. (i \in to) \in BOOLEAN OBVIOUS
  <2>2. ButtonEvent(i, i \in to) \in MouseEvent BY <2>1 DEF ButtonEvent, MouseEvent
  <2> QED BY <2>2, MaybeShort DEF Change
<1>2. PICK a, b, c, d, e :
        /\ a = Change(0, from, to) /\ b = Change(1, from, to) /\ c = Change(2, from, to)
        /\ d = Change(3, from, to) /\ e = Change(4, from, to)
  OBVIOUS
<1>3. /\ a \in Short(MouseEvent, 1) /\ b \in Short(MouseEvent, 1) /\ c \in Short(MouseEvent, 1)
      /\ d \in Short(MouseEvent, 1) /\ e \in Short(MouseEvent, 1)
  <2>1. 0 \in 0 .. 4 /\ 1 \in 0 .. 4 /\ 2 \in 0 .. 4 /\ 3 \in 0 .. 4 /\ 4 \in 0 .. 4 OBVIOUS
  <2> QED BY <1>1, <1>2, <2>1
<1>4. a \o b \in Short(MouseEvent, 2) BY <1>3, Joined, 1 + 1 = 2
<1>5. a \o b \o c \in Short(MouseEvent, 3) BY <1>3, <1>4, Joined, 2 + 1 = 3
<1>6. a \o b \o c \o d \in Short(MouseEvent, 4) BY <1>3, <1>5, Joined, 3 + 1 = 4
<1>7. a \o b \o c \o d \o e \in Short(MouseEvent, 5) BY <1>3, <1>6, Joined, 4 + 1 = 5
<1> QED BY <1>2, <1>7 DEF Changes

\* What a packet comes to, with a movement of nine bits and a turn of the wheel of four.
EventsOf(from, to, x, y, z) ==
  Changes(from, to) \o Maybe(x # 0 \/ y # 0, MoveEvent(x, y)) \o Maybe(z # 0, ScrollEvent(z))
ComeTo(es, from, to) ==
  \E x \in -256 .. 255, y \in -256 .. 255, z \in -8 .. 7 : es = EventsOf(from, to, x, y, z)
LEMMA EventsShort ==
  ASSUME NEW from, NEW to, NEW x \in -256 .. 255, NEW y \in -256 .. 255, NEW z \in -8 .. 7
  PROVE  EventsOf(from, to, x, y, z) \in Short(MouseEvent, 7)
<1>1. MoveEvent(x, y) \in MouseEvent BY DEF MoveEvent, MouseEvent
<1>2. ScrollEvent(z) \in MouseEvent BY DEF ScrollEvent, MouseEvent
<1>3. PICK a : a = Changes(from, to) OBVIOUS
<1>4. PICK b : b = Maybe(x # 0 \/ y # 0, MoveEvent(x, y)) OBVIOUS
<1>5. PICK c : c = Maybe(z # 0, ScrollEvent(z)) OBVIOUS
<1>6. a \in Short(MouseEvent, 5) /\ b \in Short(MouseEvent, 1) /\ c \in Short(MouseEvent, 1)
  BY <1>1, <1>2, <1>3, <1>4, <1>5, ChangesShort, MaybeShort
<1>7. a \o b \in Short(MouseEvent, 6) BY <1>6, Joined, 5 + 1 = 6
<1>8. a \o b \o c \in Short(MouseEvent, 7) BY <1>6, <1>7, Joined, 6 + 1 = 7
<1> QED BY <1>3, <1>4, <1>5, <1>8 DEF EventsOf

LEMMA Bits ==
  ASSUME NEW b \in Octets
  PROVE  /\ Bit(b, 3) = (b \div 8) % 2 /\ Bit(b, 4) = (b \div 16) % 2
         /\ Bit(b, 5) = (b \div 32) % 2
         /\ Bit(b, 0) = b % 2 /\ Bit(b, 1) = (b \div 2) % 2 /\ Bit(b, 2) = (b \div 4) % 2
BY 2^0 = 1, 2^1 = 2, 2^2 = 4, 2^3 = 8, 2^4 = 16, 2^5 = 32 DEF Bit, Octets

LEMMA BitIsBit ==
  ASSUME NEW b \in Octets
  PROVE  Bit(b, 3) \in {0, 1} /\ Bit(b, 4) \in {0, 1} /\ Bit(b, 5) \in {0, 1}
BY Bits DEF Octets

LEMMA LowFour ==
  ASSUME NEW b \in Octets
  PROVE  (b % 16) - 16 * Bit(b, 3) \in -8 .. 7
<1>1. PICK v \in 0 .. 255 : v = b BY DEF Octets
<1>2. CASE (v \div 8) % 2 = 0
  <2>1. v % 16 \in 0 .. 7 BY <1>2
  <2> QED BY <1>1, <1>2, <2>1, Bits
<1>3. CASE (v \div 8) % 2 = 1
  <2>1. v % 16 \in 8 .. 15 BY <1>3
  <2> QED BY <1>1, <1>3, <2>1, Bits
<1> QED BY <1>2, <1>3

LEMMA NewEventsShort ==
  ASSUME NEW p \in Seq(Octets), Len(p) = PacketSize, id \in {0, 3, 4}
  PROVE  /\ NewEvents(p) \in Short(MouseEvent, 7) /\ Mask(p) \subseteq 0 .. 4
         /\ ComeTo(NewEvents(p), button_mask, Mask(p))
<1>1. p[1] \in Octets /\ p[2] \in Octets /\ p[3] \in Octets /\ (id # 0 => p[4] \in Octets)
  <2>1. Len(p) \in {3, 4} /\ (id # 0 => Len(p) = 4) BY DEF PacketSize
  <2>2. \A i \in 1 .. Len(p) : p[i] \in Octets BY ElementOfSeq
  <2> QED BY <2>1, <2>2
<1>2. PICK x : x = Relative(p, 2, 4) OBVIOUS
<1>3. PICK y : y = Relative(p, 3, 5) OBVIOUS
<1>4. PICK z : z = Scroll(p) OBVIOUS
<1>4a. \A v \in Octets, b \in {0, 1} : v - 256 * b \in -256 .. 255 BY DEF Octets
<1>5. x \in -256 .. 255
  <2>1. Bit(p[1], 4) \in {0, 1} BY <1>1, BitIsBit
  <2>2. p[2] - 256 * Bit(p[1], 4) \in -256 .. 255 BY ZenonT(60), <1>1, <1>4a, <2>1
  <2>3. x = p[2] - 256 * Bit(p[1], 4) BY <1>2 DEF Relative
  <2> QED BY <2>2, <2>3
<1>6. y \in -256 .. 255
  <2>1. Bit(p[1], 5) \in {0, 1} BY <1>1, BitIsBit
  <2>2. p[3] - 256 * Bit(p[1], 5) \in -256 .. 255 BY ZenonT(60), <1>1, <1>4a, <2>1
  <2>3. y = p[3] - 256 * Bit(p[1], 5) BY <1>3 DEF Relative
  <2> QED BY <2>2, <2>3
<1>7. z \in -8 .. 7
  <2>1. CASE id = 0 BY <2>1, <1>4 DEF Scroll
  <2>2. CASE id # 0
    <3>1. p[4] \in Octets BY <1>1, <2>2
    <3>2. Scroll(p) = (p[4] % 16) - 16 * Bit(p[4], 3) BY <2>2 DEF Scroll
    <3> QED BY <1>4, <3>1, <3>2, LowFour
  <2> QED BY <2>1, <2>2
<1>8. NewEvents(p) \in Short(MouseEvent, 7) /\ ComeTo(NewEvents(p), button_mask, Mask(p))
  <2>1. PICK to : to = Mask(p) OBVIOUS
  <2>2. NewEvents(p) = EventsOf(button_mask, to, x, y, z)
    BY <1>2, <1>3, <1>4, <2>1 DEF NewEvents, EventsOf
  <2> QED BY ZenonT(60), <1>5, <1>6, <1>7, <2>1, <2>2, EventsShort DEF ComeTo
<1>9. Mask(p) \subseteq 0 .. 4 BY DEF Mask
<1> QED BY <1>8, <1>9

\* What the mouse sends.
First(buttons, x, y) ==
  (IF 0 \in buttons THEN 1 ELSE 0) + (IF 1 \in buttons THEN 2 ELSE 0)
  + (IF 2 \in buttons THEN 4 ELSE 0) + 8 + (IF x < 0 THEN 16 ELSE 0) + (IF y < 0 THEN 32 ELSE 0)
Fourth(buttons, z, odd) ==
  IF id = 4
    THEN (IF 3 \in buttons THEN 16 ELSE 0) + (IF 4 \in buttons THEN 32 ELSE 0)
         + (IF odd THEN 64 ELSE 0) + (z % 16)
    ELSE z % 256

IsPacket(p, buttons, x, y, z, odd) ==
  /\ p \in Seq(Octets) /\ Len(p) = PacketSize
  /\ p[1] = First(buttons, x, y) /\ p[2] = x % 256 /\ p[3] = y % 256
  /\ id # 0 => p[4] = Fourth(buttons, z, odd)
LEMMA PacketBytes ==
  ASSUME NEW buttons, NEW x \in -256 .. 255, NEW y \in -256 .. 255, NEW z \in -8 .. 7,
         NEW odd \in BOOLEAN, id \in {0, 3, 4}
  PROVE  IsPacket(Packet(buttons, x, y, z, odd), buttons, x, y, z, odd)
<1>1. PICK a : a = First(buttons, x, y) OBVIOUS
<1>2. a \in Octets BY <1>1 DEF First, Octets
<1>3. PICK f : f = Fourth(buttons, z, odd) OBVIOUS
<1>4. f \in Octets BY <1>3 DEF Fourth, Octets
<1>5. PICK start : start = <<a, x % 256, y % 256>> OBVIOUS
<1>6. /\ start \in Seq(Octets) /\ Len(start) = 3
      /\ start[1] = a /\ start[2] = x % 256 /\ start[3] = y % 256
  <2>1. x % 256 \in Octets /\ y % 256 \in Octets BY DEF Octets
  <2> QED BY <1>2, <1>5, <2>1
<1>7. PICK rest : rest = IF id = 0 THEN <<>> ELSE <<f>> OBVIOUS
<1>8. rest \in Seq(Octets) /\ Len(rest) = (IF id = 0 THEN 0 ELSE 1) /\ (id # 0 => rest[1] = f)
  BY <1>4, <1>7
<1>9. Packet(buttons, x, y, z, odd) = start \o rest
  <2>1. First(buttons, x, y) = a BY <1>1
  <2>2. CASE id = 0
    BY <2>1, <2>2, <1>5, <1>7, 2^0 = 1, 2^1 = 2, 2^2 = 4, 2^4 = 16, 2^5 = 32 DEF Packet, First
  <2>3. CASE id = 3
    BY <2>1, <2>3, <1>3, <1>5, <1>7, 2^0 = 1, 2^1 = 2, 2^2 = 4, 2^4 = 16, 2^5 = 32 DEF Packet, First, Fourth
  <2>4. CASE id = 4
    BY <2>1, <2>4, <1>3, <1>5, <1>7, 2^0 = 1, 2^1 = 2, 2^2 = 4, 2^4 = 16, 2^5 = 32, 2^6 = 64 DEF Packet, First, Fourth
  <2> QED BY <2>2, <2>3, <2>4
<1>10. start \o rest \in Seq(Octets) BY <1>6, <1>8, ConcatProperties
<1>11. Len(start \o rest) = PacketSize
  <2>1. Len(start \o rest) = Len(start) + Len(rest) BY ZenonT(60), <1>6, <1>8, ConcatProperties
  <2> QED BY <2>1, <1>6, <1>8 DEF PacketSize
<1>12. \A i \in 1 .. Len(start) + Len(rest) :
         (start \o rest)[i] = IF i <= Len(start) THEN start[i] ELSE rest[i - Len(start)]
  BY ZenonT(60), <1>6, <1>8, ConcatProperties
<1>13. /\ (start \o rest)[1] = a /\ (start \o rest)[2] = x % 256 /\ (start \o rest)[3] = y % 256
       /\ id # 0 => (start \o rest)[4] = f
  <2>1. Len(start) = 3 /\ Len(rest) \in {0, 1} /\ (id # 0 => Len(rest) = 1) BY <1>6, <1>8
  <2>0. \A i \in 1 .. 3 + Len(rest) :
          (start \o rest)[i] = IF i <= 3 THEN start[i] ELSE rest[i - 3]
    BY <2>1, <1>12
  <2>7. \A i \in {1, 2, 3} : (start \o rest)[i] = start[i]
    <3>1. \A i \in {1, 2, 3} : i \in 1 .. 3 + Len(rest) /\ i <= 3 BY <2>1
    <3> QED BY <2>0, <3>1
  <2>2. (start \o rest)[1] = start[1] BY <2>7
  <2>3. (start \o rest)[2] = start[2] BY <2>7
  <2>4. (start \o rest)[3] = start[3] BY <2>7
  <2>5. ASSUME id # 0 PROVE (start \o rest)[4] = rest[1]
    <3>1. 4 \in 1 .. 3 + Len(rest) /\ ~(4 <= 3) /\ 4 - 3 = 1 BY <2>1, <2>5
    <3> QED BY <2>0, <3>1
  <2> QED BY <2>2, <2>3, <2>4, <2>5, <1>6, <1>8
<1> QED BY <1>1, <1>3, <1>9, <1>10, <1>11, <1>13 DEF IsPacket

-----------------------------------------------------------------------------
(* The inductive invariant *)

\* PS2_EVENT_QUEUE_SIZE, 32, has room for two packets of seven events, more than any two
\* torn packets come to.
RoomForTwo == QueueSize >= 14

Dropped(n) == IF len + n >= QueueSize THEN n ELSE 0

LEMMA EnqueueStep ==
  ASSUME RoomForTwo, RingOK, NEW es \in Short(MouseEvent, 7), Enqueue(es)
  PROVE  /\ RingOK'
         /\ Dropped(Len(es)) \in 0 .. len
         /\ len' = len - Dropped(Len(es)) + Len(es)
         /\ Ring(queue', tail', len') = Rest(Ring(queue, tail, len), Dropped(Len(es))) \o es
<1>1. es \in Seq(Event) /\ Len(es) <= 7 /\ Len(es) \in Nat
  <2>1. es \in Seq(MouseEvent) /\ Len(es) <= 7 BY DEF Short
  <2> QED BY <2>1, SeqOfEvents, LenProperties
<1>2. PICK n \in Nat : n = Len(es) /\ n <= 7 BY <1>1
<1>3. PICK d : d = Dropped(n) OBVIOUS
<1>4. /\ queue \in [Slots -> Event] /\ tail \in Slots /\ head \in Slots /\ len \in 0 .. QueueSize - 1
      /\ head = (tail + len) % QueueSize
  BY DEF RingOK
<1>5. QueueSize \in Nat /\ QueueSize >= 14 BY SizeNat DEF RoomForTwo
<1>6. d \in {0, n} /\ d \in 0 .. len /\ d <= len /\ len - d + n < QueueSize /\ len - d + n \in Nat
  <2>1. CASE len + n >= QueueSize BY <1>2, <1>3, <1>4, <1>5, <2>1 DEF Dropped
  <2>2. CASE ~(len + n >= QueueSize) BY <1>2, <1>3, <1>4, <1>5, <2>2 DEF Dropped
  <2> QED BY <2>1, <2>2
<1>7. tail' = (tail + d) % QueueSize
  <2>1. CASE len + n >= QueueSize
    BY <1>2, <1>3, <2>1 DEF Dropped, Enqueue, MakeRoom
  <2>2. CASE ~(len + n >= QueueSize)
    <3>1. tail' = tail /\ d = 0 BY <1>2, <1>3, <2>2 DEF Dropped, Enqueue, MakeRoom
    <3>2. tail \in 0 .. QueueSize - 1 /\ tail + 0 = tail BY <1>4, SizeNat DEF Slots
    <3> QED BY <1>5, <3>1, <3>2
  <2> QED BY <2>1, <2>2
<1>8. len' = len - d + n
  <2>1. CASE len + n >= QueueSize
    BY <1>2, <1>3, <1>4, <1>5, <2>1 DEF Dropped, Enqueue, MakeRoom
  <2>2. CASE ~(len + n >= QueueSize)
    BY <1>2, <1>3, <1>4, <1>5, <2>2 DEF Dropped, Enqueue, MakeRoom
  <2> QED BY <2>1, <2>2
<1>9. head' = (head + n) % QueueSize BY <1>2 DEF Enqueue
<1>10. Filled(queue', queue, head, es) BY DEF Filled, Enqueue
<1>11. PICK u : u = (tail + d) % QueueSize OBVIOUS
<1>12. /\ queue' \in [Slots -> Event]
       /\ Ring(queue', u, len - d + n) = Rest(Ring(queue, tail, len), d) \o es
  <2>1. d \in {0, Len(es)} /\ d <= len /\ len - d + Len(es) < QueueSize BY <1>2, <1>6
  <2>2. PICK r : r = queue' OBVIOUS
  <2>3. Filled(r, queue, head, es) BY <1>10, <2>2
  <2>4. /\ r \in [Slots -> Event]
        /\ Ring(r, u, len - d + Len(es)) = Rest(Ring(queue, tail, len), d) \o es
    <3>1. Batched(queue, tail, len, es, d, head, u, r)
      BY <1>1, <1>4, <1>11, <2>1, <2>3 DEF Batched
    <3> QED BY <3>1, RingBatch
  <2> QED BY <1>2, <2>2, <2>4
<1>13. u \in Slots
  <2>1. tail + d \in Int BY <1>4, <1>5, <1>6 DEF Slots
  <2> QED BY <1>11, <2>1, InSlots
<1>14. head' \in Slots /\ head' = (u + (len - d + n)) % QueueSize
  <2>1. PICK t \in Int, m \in Int, N \in Nat : t = tail /\ m = len /\ N = QueueSize
    BY <1>4, <1>5 DEF Slots
  <2>2. t + m \in 0 .. 2 * QueueSize - 1 /\ t + d \in 0 .. 2 * QueueSize - 1
        /\ head + n \in 0 .. 2 * QueueSize - 1 /\ head + n \in Int /\ u + (m - d + n) \in 0 .. 2 * QueueSize - 1
    BY <1>2, <1>4, <1>5, <1>6, <1>13, <2>1 DEF Slots
  <2>3. /\ head = Wrapped(t + m) /\ u = Wrapped(t + d) /\ head' = Wrapped(head + n)
        /\ (u + (m - d + n)) % QueueSize = Wrapped(u + (m - d + n))
    BY <1>4, <1>9, <1>11, <2>1, <2>2, Wraps
  <2>4. Wrapped(head + n) = Wrapped(u + (m - d + n))
    <3>1. PICK w \in Int : w = m - d + n /\ w < QueueSize /\ w >= 0 BY SMTT(60), <1>2, <1>6, <2>1
    <3>2. head + n = IF t + m < N THEN t + m + n ELSE t + m + n - N
      BY <1>2, <2>1, <2>3 DEF Wrapped
    <3>3. u + w = IF t + d < N THEN t + m + n ELSE t + m + n - N
      BY SMTT(60), <1>2, <1>6, <2>1, <2>3, <3>1 DEF Wrapped
    <3>4. head + n \in 0 .. 2 * N - 1 /\ u + w \in 0 .. 2 * N - 1 /\ t + d <= t + m
      BY <1>2, <1>6, <2>1, <2>2, <3>1
    <3>5. CASE t + m < N BY <2>1, <3>1, <3>2, <3>3, <3>4, <3>5 DEF Wrapped
    <3>6. CASE ~(t + m < N) BY <1>2, <1>4, <1>6, <2>1, <3>1, <3>2, <3>3, <3>4, <3>6 DEF Wrapped, Slots
    <3> QED BY <3>5, <3>6
  <2>5. head' \in Slots BY <1>9, <2>2, InSlots
  <2> QED BY <2>1, <2>3, <2>4, <2>5
<1>15. len' \in 0 .. QueueSize - 1 BY <1>5, <1>6, <1>8
<1>16. RingOK' BY <1>7, <1>8, <1>11, <1>12, <1>13, <1>14, <1>15 DEF RingOK
<1> QED BY <1>2, <1>3, <1>6, <1>7, <1>8, <1>11, <1>12, <1>16

LEMMA InitIInv == Init => IInv
<1> SUFFICES ASSUME Init PROVE IInv OBVIOUS
<1>1. queue \in [Slots -> Event] BY DEF Init, Event
<1>2. /\ head = 0 /\ tail = 0 /\ len = 0 /\ 0 \in Slots /\ 0 \in 0 .. QueueSize - 1
      /\ 0 = (0 + 0) % QueueSize
  BY SizeNat DEF Init, Slots
<1>3. RingOK BY <1>1, <1>2 DEF RingOK
<1>4. <<>> \in Seq(Octets) /\ Len(<<>>) = 0 OBVIOUS
<1>5. BytesOK BY <1>4, InputAssumption DEF Init, BytesOK, PacketSize
<1>6. Critical BY DEF Init, Critical
<1> QED BY <1>3, <1>5, <1>6 DEF IInv

LEMMA ReportStep ==
  ASSUME IInv, NEW buttons \in SUBSET Buttons, NEW m \in Moves, NEW z \in Wheel, NEW odd \in BOOLEAN,
         Report(buttons, m[1], m[2], z, odd)
  PROVE  IInv' /\ UNCHANGED <<queue, tail, len, pc, out>>
<1>1. UNCHANGED <<id, byte_buffer, queue, head, tail, len, button_mask, pc, enabled, out>>
  BY DEF Report, driver, ring, main
<1>2. PICK x, y : x = m[1] /\ y = m[2] OBVIOUS
<1>3. x \in -256 .. 255 /\ y \in -256 .. 255 /\ z \in -8 .. 7
  BY <1>2, InputAssumption
<1>4. id \in {0, 3, 4} BY DEF IInv, BytesOK
<1>5. Packet(buttons, x, y, z, odd) \in Seq(Octets) BY ZenonT(60), <1>3, <1>4, PacketBytes DEF IsPacket
<1>6. wire' \in Seq(Octets) /\ reported' \subseteq Buttons
  BY <1>2, <1>5 DEF Report, IInv, BytesOK
<1>7. RingOK' BY <1>1 DEF IInv, RingOK
<1>8. Critical' BY <1>1 DEF IInv, Critical
<1>9. BytesOK' BY <1>1, <1>6 DEF IInv, BytesOK, PacketSize
<1> QED BY <1>1, <1>7, <1>8, <1>9 DEF IInv

LEMMA LoseStep == ASSUME IInv, Lose PROVE IInv' /\ UNCHANGED <<queue, tail, len, pc, out>>
<1>1. /\ UNCHANGED <<id, byte_buffer, queue, head, tail, len, button_mask, pc, enabled, out, reported>>
      /\ wire # <<>> /\ wire' = Tail(wire)
  BY DEF Lose, driver, ring, main
<1>2. wire' \in Seq(Octets) BY <1>1, HeadTailProperties DEF IInv, BytesOK
<1>7. RingOK' BY <1>1 DEF IInv, RingOK
<1>8. Critical' BY <1>1 DEF IInv, Critical
<1>9. BytesOK' BY <1>1, <1>2 DEF IInv, BytesOK, PacketSize
<1> QED BY <1>1, <1>7, <1>8, <1>9 DEF IInv

\* A byte that completes no packet leaves the ring alone; one that does brings its events.
LEMMA Irq12Step ==
  ASSUME RoomForTwo, IInv, Irq12
  PROVE  /\ IInv' /\ pc = "idle" /\ UNCHANGED <<pc, out>>
         /\ \/ UNCHANGED <<queue, tail, len, button_mask>>
            \/ \E es \in Short(MouseEvent, 7) : Enqueue(es) /\ ComeTo(es, button_mask, button_mask')
<1>1. /\ enabled /\ wire # <<>> /\ wire' = Tail(wire) /\ NewByte(Head(wire))
      /\ UNCHANGED <<id, reported, pc, enabled, out>>
  BY DEF Irq12, main
<1>2. pc = "idle" /\ Critical BY <1>1 DEF IInv, Critical
<1>3. wire' \in Seq(Octets) /\ Head(wire) \in Octets
  BY <1>1, HeadTailProperties DEF IInv, BytesOK
<1>4. PICK p : p = Append(byte_buffer, Head(wire)) OBVIOUS
<1>5. p \in Seq(Octets) /\ Len(p) = Len(byte_buffer) + 1 /\ Len(byte_buffer) \in Nat /\ Len(p) <= PacketSize
  <2>1. p \in Seq(Octets) /\ Len(p) = Len(byte_buffer) + 1 BY <1>3, <1>4, AppendProperties DEF IInv, BytesOK
  <2>2. Len(byte_buffer) \in Nat BY LenProperties DEF IInv, BytesOK
  <2> QED BY <2>1, <2>2 DEF IInv, BytesOK, PacketSize
<1>6. <<>> \in Seq(Octets) /\ Len(<<>>) = 0 /\ PacketSize \in {3, 4} BY DEF PacketSize
<1>7. PacketSize' = PacketSize BY <1>1 DEF PacketSize
<1>8. id' \in {0, 3, 4} /\ reported' \subseteq Buttons BY <1>1 DEF IInv, BytesOK
<1>10. ASSUME UNCHANGED <<queue, head, tail, len, button_mask>>,
              byte_buffer' \in Seq(Octets), Len(byte_buffer') < PacketSize
       PROVE  IInv'
  <2>1. RingOK' BY <1>10 DEF IInv, RingOK
  <2>2. BytesOK' BY <1>3, <1>7, <1>8, <1>10 DEF IInv, BytesOK
  <2>3. Critical' BY <1>1, <1>2, <1>10 DEF Critical
  <2> QED BY <2>1, <2>2, <2>3 DEF IInv
<1>11. CASE byte_buffer' = <<>> /\ UNCHANGED <<queue, head, tail, len, button_mask>>
  BY <1>1, <1>2, <1>6, <1>10, <1>11
<1>12. CASE Bit(p[1], 3) = 1 /\ Len(p) # PacketSize
  <2>1. byte_buffer' = p /\ UNCHANGED <<queue, head, tail, len, button_mask>>
    BY <1>1, <1>4, <1>12 DEF NewByte, ring
  <2>2. Len(p) < PacketSize BY <1>5, <1>6, <1>12
  <2> QED BY <1>1, <1>2, <1>5, <1>10, <2>1, <2>2
<1>13. CASE /\ Len(p) = PacketSize /\ byte_buffer' = <<>>
            /\ Enqueue(NewEvents(p)) /\ button_mask' = Mask(p)
  <2>1. /\ NewEvents(p) \in Short(MouseEvent, 7) /\ Mask(p) \subseteq 0 .. 4
        /\ ComeTo(NewEvents(p), button_mask, Mask(p))
    BY <1>5, <1>13, NewEventsShort DEF IInv, BytesOK
  <2>2. RingOK'
    <3>1. PICK es : es = NewEvents(p) OBVIOUS
    <3> QED BY <1>13, <2>1, <3>1, EnqueueStep DEF IInv
  <2>3. BytesOK' BY <1>3, <1>6, <1>7, <1>8, <1>13, <2>1 DEF BytesOK
  <2>4. Critical' BY <1>1, <1>2 DEF Critical
  <2> QED BY <1>1, <1>2, <1>13, <2>1, <2>2, <2>3, <2>4 DEF IInv
<1>14. \/ byte_buffer' = <<>> /\ UNCHANGED <<queue, head, tail, len, button_mask>>
       \/ Bit(p[1], 3) = 1 /\ Len(p) # PacketSize
       \/ /\ Len(p) = PacketSize /\ byte_buffer' = <<>>
          /\ Enqueue(NewEvents(p)) /\ button_mask' = Mask(p)
  <2>1. p[1] \in Octets
    BY <1>5, ElementOfSeq
  <2>2. Bit(p[1], 3) \in {0, 1} BY <2>1, BitIsBit
  <2>3. CASE Bit(p[1], 3) = 0 BY <1>1, <1>4, <2>3 DEF NewByte, ring
  <2>4. CASE Bit(p[1], 3) = 1 /\ Len(p) = PacketSize
    <3>1. /\ byte_buffer' = <<>>
          /\ IF id = 4 /\ p[4] >= 64 THEN UNCHANGED <<ring, button_mask>>
             ELSE Enqueue(NewEvents(p)) /\ button_mask' = NewMask(p)
      <4>1. ~(Bit(p[1], 3) = 0) /\ ~(Bit(p[1], 3) = 1 /\ Len(p) # PacketSize) BY <2>4
      <4> QED BY <1>1, <1>4, <4>1 DEF NewByte, ring
    <3> QED BY <2>4, <3>1 DEF ring, NewMask
  <2> QED BY <2>2, <2>3, <2>4
<1> QED BY <1>11, <1>12, <1>13, <1>14

\* The slot t is the head of the sequence, and what begins one slot later is the tail.
LEMMA RingTail ==
  ASSUME NEW S, NEW q \in [Slots -> S], NEW t \in Slots, NEW n \in 1 .. QueueSize
  PROVE  /\ Ring(q, t, n) # <<>> /\ Head(Ring(q, t, n)) = q[t]
         /\ Ring(q, (t + 1) % QueueSize, n - 1) = Tail(Ring(q, t, n))
<1> DEFINE s == (t + 1) % QueueSize
<1>1. n \in 0 .. QueueSize /\ n - 1 \in 0 .. QueueSize /\ n \in Nat /\ t \in Nat /\ t + 1 \in Nat
  BY SizeNat DEF Slots
<1>9. s \in Slots
  BY <1>1, InSlots
<1>2. /\ Ring(q, t, n) \in Seq(S) /\ Len(Ring(q, t, n)) = n
      /\ \A i \in 1 .. n : Ring(q, t, n)[i] = q[(t + i - 1) % QueueSize]
  BY ZenonT(60), <1>1, RingSeq
<1>3. Ring(q, t, n) # <<>>
  BY <1>2, EmptySeq
<1>4. ASSUME NEW i \in 1 .. n - 1
      PROVE  (s + i - 1) % QueueSize = (t + (i + 1) - 1) % QueueSize
  <2>1. t + 1 \in 0 .. 2 * QueueSize - 1 /\ t + (i + 1) - 1 \in 0 .. 2 * QueueSize - 1
    BY <1>1, SizeNat DEF Slots
  <2>2. s = Wrapped(t + 1)
    BY <2>1, Wraps
  <2> HIDE DEF s
  <2>3. s + i - 1 \in 0 .. 2 * QueueSize - 1
    BY <1>1, <2>2, SizeNat DEF Slots, Wrapped
  <2>4. (s + i - 1) % QueueSize = Wrapped(s + i - 1)
    BY <2>3, Wraps
  <2>5. (t + (i + 1) - 1) % QueueSize = Wrapped(t + (i + 1) - 1)
    BY <2>1, Wraps
  <2>6. Wrapped(Wrapped(t + 1) + i - 1) = Wrapped(t + (i + 1) - 1)
    BY <1>1, SizeNat DEF Slots, Wrapped
  <2> QED
    BY <2>2, <2>4, <2>5, <2>6
<1> HIDE DEF s
<1>5. /\ Ring(q, s, n - 1) \in Seq(S) /\ Len(Ring(q, s, n - 1)) = n - 1
      /\ \A i \in 1 .. n - 1 : Ring(q, s, n - 1)[i] = q[(s + i - 1) % QueueSize]
  BY ZenonT(60), <1>1, <1>9, RingSeq
<1>6. /\ Tail(Ring(q, t, n)) \in Seq(S) /\ Len(Tail(Ring(q, t, n))) = n - 1
      /\ \A i \in 1 .. n - 1 : Tail(Ring(q, t, n))[i] = Ring(q, t, n)[i + 1]
  BY <1>1, <1>2, <1>3, HeadTailProperties
<1>7. Ring(q, s, n - 1) = Tail(Ring(q, t, n))
  <2>1. ASSUME NEW i \in 1 .. n - 1 PROVE Ring(q, s, n - 1)[i] = Tail(Ring(q, t, n))[i]
    <3>1. i + 1 \in 1 .. n
      BY <1>1
    <3>2. Ring(q, t, n)[i + 1] = q[(t + (i + 1) - 1) % QueueSize]
      BY <1>2, <3>1
    <3> QED
      BY <1>4, <1>5, <1>6, <3>2
  <2> QED
    BY <1>5, <1>6, <2>1, SeqEqual
<1>8. Head(Ring(q, t, n)) = q[t]
  <2>1. Head(Ring(q, t, n)) = Ring(q, t, n)[1]
    BY <1>2, <1>3, HeadTailProperties
  <2>2. (t + 1 - 1) % QueueSize = t
    <3>1. t + 1 - 1 = t /\ t \in 0 .. 2 * QueueSize - 1 /\ Wrapped(t) = t
      BY SizeNat DEF Slots, Wrapped
    <3> QED
      BY <3>1, Wraps
  <2> QED
    BY <1>1, <1>2, <2>1, <2>2
<1> QED
  BY <1>3, <1>7, <1>8 DEF s

\* The entry that was copied leaves the ring, and the indexes stay in step.
LEMMA DropStep == ASSUME IInv, Drop PROVE IInv'
<1>1. /\ queue \in [Slots -> Event] /\ tail \in Slots /\ len \in 1 .. QueueSize - 1
      /\ head = (tail + len) % QueueSize /\ head \in Slots
  BY SizeNat DEF IInv, RingOK, Critical, Drop
<1>2. tail' = Wrapped(tail + 1) /\ tail' \in Slots
  <2>1. tail + 1 \in 0 .. 2 * QueueSize - 1
    BY <1>1, SizeNat DEF Slots
  <2>2. tail' = Wrapped(tail + 1)
    BY <2>1, Wraps DEF Drop
  <2> QED
    BY <1>1, <2>2, SizeNat DEF Slots, Wrapped
<1>3. len' = len - 1 /\ head' = head /\ queue' = queue
  BY DEF Drop
<1>4. head = Wrapped(tail + len)
  BY <1>1, Wraps, SizeNat DEF Slots
<1>5. tail' + len' \in 0 .. 2 * QueueSize - 1 /\ Wrapped(tail' + len') = Wrapped(tail + len)
  BY <1>1, <1>2, <1>3, SizeNat DEF Wrapped, Slots
<1>6. head' = (tail' + len') % QueueSize
  BY <1>3, <1>4, <1>5, Wraps
<1>7. RingOK'
  BY <1>1, <1>2, <1>3, <1>6, SizeNat DEF RingOK
<1> QED
  BY <1>7 DEF Drop, PacketSize, IInv, Critical, BytesOK

LEMMA GetStep == ASSUME IInv, Enter \/ Empty \/ Copy PROVE IInv'
<1>1. UNCHANGED <<id, wire, reported, byte_buffer, queue, head, tail, len, button_mask>>
  BY DEF Enter, Empty, Copy, driver, ring
<1>2. RingOK' /\ BytesOK'
  BY <1>1 DEF IInv, RingOK, BytesOK, PacketSize
<1>3. Critical'
  <2>1. CASE Enter BY <2>1, <1>1 DEF Enter, EnterCritical, IInv, Critical
  <2>2. CASE Empty BY <2>2, <1>1 DEF Empty, IInv, Critical
  <2>3. CASE Copy BY <2>3, <1>1 DEF Copy, IInv, RingOK, Critical
  <2> QED BY <2>1, <2>2, <2>3
<1> QED BY <1>2, <1>3 DEF IInv

LEMMA NextIInv == ASSUME RoomForTwo PROVE IInv /\ [Next]_vars => IInv'
<1> SUFFICES ASSUME IInv, [Next]_vars PROVE IInv' OBVIOUS
<1>1. CASE \E buttons \in SUBSET Buttons, m \in Moves, z \in Wheel, odd \in BOOLEAN :
             Report(buttons, m[1], m[2], z, odd)
  BY <1>1, ReportStep
<1>2. CASE Lose BY <1>2, LoseStep
<1>3. CASE Irq12 BY <1>3, Irq12Step
<1>4. CASE GetMouseEvent BY <1>4, DropStep, GetStep DEF GetMouseEvent
<1>5. CASE UNCHANGED vars
  BY <1>5 DEF vars, driver, ring, main, IInv, RingOK, Critical, BytesOK, PacketSize
<1> QED BY <1>1, <1>2, <1>3, <1>4, <1>5 DEF Next

\* The indexes agree whenever anybody looks, whatever the interrupt does in between and
\* whatever bytes are lost.
THEOREM MouseInvariant == ASSUME RoomForTwo PROVE Spec => []IInv
BY InitIInv, NextIInv, PTL DEF Spec

\* The packet buffer of ps2_mouse.c never overruns, and the ring is never full.
THEOREM MouseTypes == ASSUME RoomForTwo PROVE Spec => []TypeOK
<1>1. IInv => TypeOK
  BY DEF IInv, RingOK, Critical, BytesOK, TypeOK, Octets
<1> QED BY <1>1, MouseInvariant, PTL

-----------------------------------------------------------------------------
(* The refinement *)

\* What the reader may still get: an entry that was copied is no longer in the queue.
Queued == IF pc = "drop" THEN Tail(Entries) ELSE Entries

LEMMA EntriesRing == Entries = Ring(queue, tail, len)
BY DEF Entries, Ring

LEMMA EntriesSeq ==
  ASSUME IInv PROVE Entries \in Seq(Event) /\ Len(Entries) = len /\ len \in 0 .. QueueSize - 1
<1>1. queue \in [Slots -> Event] /\ tail \in Slots /\ len \in 0 .. QueueSize /\ len \in 0 .. QueueSize - 1
  BY SizeNat DEF IInv, RingOK
<1> QED BY <1>1, RingSeq, EntriesRing

LEMMA InitIsInit == Init => Abstract!Init
<1> SUFFICES ASSUME Init PROVE Abstract!Init OBVIOUS
<1>1. Entries \in Seq(Event) /\ Len(Entries) = 0 BY InitIInv, EntriesSeq DEF Init
<1>2. Entries = <<>> BY <1>1, EmptySeq
<1> QED BY <1>2 DEF Init, Abstract!Init

\* Nothing is what is left when nothing is dropped, and nothing what no event adds.
LEMMA RestNone ==
  ASSUME NEW S, NEW s \in Seq(S) PROVE Rest(s, 0) = s
<1>1. 0 \in 0 .. Len(s) /\ Len(s) \in Nat BY LenProperties
<1>2. /\ Rest(s, 0) \in Seq(S) /\ Len(Rest(s, 0)) = Len(s) - 0
      /\ \A i \in 1 .. Len(s) - 0 : Rest(s, 0)[i] = s[0 + i]
  BY <1>1, RestSeq
<1>3. \A i \in 1 .. Len(s) : Rest(s, 0)[i] = s[i] BY <1>1, <1>2
<1> QED BY <1>1, <1>2, <1>3, SeqEqual

\* Up to seven events that come together are one arrival, and none are none.
LEMMA EnqueueArrives ==
  ASSUME RoomForTwo, IInv, pc = "idle", UNCHANGED <<pc, out>>,
         NEW es \in Short(MouseEvent, 7), Enqueue(es)
  PROVE  Abstract!Arrive \/ UNCHANGED <<Queued, out>>
<1>1. PICK n : n = Len(es) OBVIOUS
<1>2. es \in Seq(MouseEvent) /\ n \in Nat /\ n <= 7 BY <1>1, LenProperties DEF Short
<1>3. PICK q : q = Entries OBVIOUS
<1>4. q \in Seq(Event) /\ Len(q) = len /\ len \in 0 .. QueueSize - 1 /\ Len(q) \in Nat
  BY <1>3, EntriesSeq, LenProperties
<1>5. PICK d : d = Dropped(n) OBVIOUS
<1>6. /\ d \in 0 .. len
      /\ Entries' = Rest(q, d) \o es
  BY <1>1, <1>3, <1>5, EnqueueStep, EntriesRing DEF IInv, Entries, Ring
<1>7. PICK kept : kept = Rest(q, d) OBVIOUS
<1>8. kept \in Seq(Event) /\ Len(kept) \in Nat
  <2>1. d \in 0 .. Len(q) BY <1>4, <1>6
  <2> QED BY <1>4, <1>7, <2>1, RestSeq, LenProperties
<1>9. es \in Seq(Event) BY SeqOfEvents
<1>10. PICK r : r = kept \o es OBVIOUS
<1>11. r \in Seq(Event) BY <1>8, <1>9, <1>10, ConcatProperties
<1>12. Len(r) = Len(kept) + n BY <1>1, <1>8, <1>9, <1>10, ConcatProperties
<1>13. \A i \in 1 .. Len(kept) + Len(es) : r[i] = IF i <= Len(kept) THEN kept[i] ELSE es[i - Len(kept)]
  BY <1>8, <1>9, <1>10, ConcatProperties
<1>14. SubSeq(r, 1, Len(kept)) = kept
  BY <1>8, <1>9, <1>10
<1>15. \A i \in Len(kept) + 1 .. Len(r) : r[i] \in MouseEvent
  <2>1. SUFFICES ASSUME NEW i \in Len(kept) + 1 .. Len(r) PROVE r[i] \in MouseEvent OBVIOUS
  <2>2. i \in 1 .. Len(kept) + Len(es) /\ ~(i <= Len(kept)) /\ i - Len(kept) \in 1 .. Len(es)
    BY <1>1, <1>2, <1>8, <1>12
  <2>3. es[i - Len(kept)] \in MouseEvent BY <1>2, <2>2, ElementOfSeq
  <2> QED BY <1>13, <2>2, <2>3
<1>16. Queued = q /\ Queued' = r BY <1>3, <1>6, <1>7, <1>10 DEF Queued
<1>17. CASE n = 0
  <2>1. es = <<>> BY <1>1, <1>2, <1>17, EmptySeq
  <2>2. d = 0 BY <1>4, <1>5, <1>17 DEF Dropped
  <2>3. kept = q BY <1>4, <1>7, <2>2, RestNone
  <2>4. r = q BY <1>4, <1>10, <2>1, <2>3, ConcatEmptySeq
  <2> QED BY <1>16, <2>4
<1>18. CASE n # 0
  <2>1. n \in 1 .. 7 BY <1>2, <1>18
  <2>2. kept = IF Len(q) + n > QueueSize - 1 THEN SubSeq(q, n + 1, Len(q)) ELSE q
    <3>1. CASE len + n >= QueueSize BY <1>2, <1>4, <1>5, <1>7, <3>1, SizeNat DEF Dropped, Rest
    <3>2. CASE ~(len + n >= QueueSize)
      <4>1. kept = q BY <1>4, <1>5, <1>7, <3>2, RestNone DEF Dropped
      <4> QED BY <1>2, <1>4, <3>2, <4>1, SizeNat
    <3> QED BY <3>1, <3>2
  <2> QED BY <1>12, <1>14, <1>15, <1>16, <2>1, <2>2 DEF Abstract!Arrive, Queued
<1> QED BY <1>2, <1>17, <1>18

\* Copying takes the oldest entry; dropping it afterwards is nothing to the reader.
LEMMA ReaderStep ==
  ASSUME IInv, GetMouseEvent
  PROVE  Abstract!Get \/ Abstract!GetNone \/ UNCHANGED <<Queued, out>>
<1>1. queue \in [Slots -> Event] /\ tail \in Slots /\ len \in 0 .. QueueSize - 1
  BY DEF IInv, RingOK
<1>2. Entries \in Seq(Event) /\ Len(Entries) = len BY EntriesSeq
<1>3. CASE Enter
  BY <1>3 DEF Enter, EnterCritical, driver, ring, Queued, Entries
<1>4. CASE Empty
  <2>1. Entries = <<>> /\ Queued = Entries BY <1>2, <1>4, EmptySeq DEF Empty, Queued
  <2>2. Entries' = Entries /\ Queued' = Entries /\ out' = NONE
    BY <1>4 DEF Empty, driver, ring, Queued, Entries
  <2> QED BY <2>1, <2>2 DEF Abstract!GetNone, Queued
<1>5. CASE Copy
  <2>1. len \in 1 .. QueueSize BY <1>1, <1>5, SizeNat DEF Copy
  <2>2. Entries # <<>> /\ Head(Entries) = queue[tail] BY <1>1, <2>1, RingTail, EntriesRing
  <2>3. Queued = Entries /\ Queued' = Tail(Entries) /\ out' = Head(Entries)
    BY <1>5, <2>2 DEF Copy, driver, ring, Queued, Entries
  <2> QED BY <2>2, <2>3 DEF Abstract!Get, Queued
<1>6. CASE Drop
  <2>1. len \in 1 .. QueueSize BY <1>1, <1>6, SizeNat DEF Drop, IInv, Critical
  <2>2. Ring(queue, (tail + 1) % QueueSize, len - 1) = Tail(Ring(queue, tail, len))
    BY <1>1, <2>1, RingTail
  <2>3. Queued = Tail(Ring(queue, tail, len)) /\ Queued' = Ring(queue', tail', len')
    BY <1>6 DEF Drop, Queued, Entries, Ring
  <2> QED BY <1>6, <2>2, <2>3 DEF Drop
<1> QED BY <1>3, <1>4, <1>5, <1>6 DEF GetMouseEvent

LEMMA StepIsStep ==
  ASSUME RoomForTwo, IInv, [Next]_vars
  PROVE  [Abstract!Next]_<<Queued, out>>
<1>1. ASSUME UNCHANGED <<queue, tail, len, pc, out>> PROVE UNCHANGED <<Queued, out>>
  BY <1>1 DEF Queued, Entries
<1>2. CASE \E buttons \in SUBSET Buttons, m \in Moves, z \in Wheel, odd \in BOOLEAN :
             Report(buttons, m[1], m[2], z, odd)
  BY <1>1, <1>2, ReportStep
<1>3. CASE Lose BY <1>1, <1>3, LoseStep
<1>4. CASE Irq12 BY <1>1, <1>4, Irq12Step, EnqueueArrives DEF Abstract!Next
<1>5. CASE GetMouseEvent BY <1>5, ReaderStep DEF Abstract!Next
<1>6. CASE UNCHANGED vars BY <1>1, <1>6 DEF vars, driver, ring, main
<1> QED BY <1>2, <1>3, <1>4, <1>5, <1>6 DEF Next

\* Whenever the interrupt comes, in between the steps of ps2_get_mouse_event too: its caller
\* reads events whole, once, in order, and loses only the oldest, as many as come.
THEOREM MouseImplementsQueue == ASSUME RoomForTwo PROVE Spec => ImplementsQueue
<1>1. Init => Abstract!Init
  BY InitIsInit
<1>2. IInv /\ [Next]_vars => [Abstract!Next]_<<Queued, out>>
  BY StepIsStep
<1> QED
  BY <1>1, <1>2, MouseInvariant, PTL DEF Spec, ImplementsQueue, Abstract!Spec, Queued

-----------------------------------------------------------------------------
(* What the driver makes of a packet that came whole *)

Legal(buttons, x, y, z, odd) ==
  /\ buttons \subseteq 0 .. 4 /\ x \in -256 .. 255 /\ y \in -256 .. 255 /\ z \in -8 .. 7
  /\ odd \in BOOLEAN
  /\ id # 4 => buttons \subseteq 0 .. 2 /\ ~odd
  /\ id = 0 => z = 0

StartsPacket(f, buttons, x, y) ==
  /\ f \in Octets /\ Bit(f, 3) = 1
  /\ Bit(f, 0) = 1 <=> 0 \in buttons
  /\ Bit(f, 1) = 1 <=> 1 \in buttons
  /\ Bit(f, 2) = 1 <=> 2 \in buttons
  /\ Bit(f, 4) = (IF x < 0 THEN 1 ELSE 0) /\ Bit(f, 5) = (IF y < 0 THEN 1 ELSE 0)
LEMMA FirstByte ==
  ASSUME NEW buttons, NEW x \in -256 .. 255, NEW y \in -256 .. 255
  PROVE  StartsPacket(First(buttons, x, y), buttons, x, y)
<1>1. PICK a, b, c, d, e :
        /\ a = (IF 0 \in buttons THEN 1 ELSE 0) /\ b = (IF 1 \in buttons THEN 1 ELSE 0)
        /\ c = (IF 2 \in buttons THEN 1 ELSE 0)
        /\ d = (IF x < 0 THEN 1 ELSE 0) /\ e = (IF y < 0 THEN 1 ELSE 0)
  OBVIOUS
<1>2. a \in {0, 1} /\ b \in {0, 1} /\ c \in {0, 1} /\ d \in {0, 1} /\ e \in {0, 1} BY <1>1
<1>3. PICK f : f = First(buttons, x, y) OBVIOUS
<1>4. f = a + 2 * b + 4 * c + 8 + 16 * d + 32 * e BY <1>1, <1>3 DEF First
<1>5. f \in Octets BY <1>2, <1>4 DEF Octets
<1>6. /\ f % 2 = a /\ (f \div 2) % 2 = b /\ (f \div 4) % 2 = c /\ (f \div 8) % 2 = 1
      /\ (f \div 16) % 2 = d /\ (f \div 32) % 2 = e
  BY <1>2, <1>4
<1>7. Bit(f, 3) = 1 BY <1>5, <1>6, Bits
<1>8. Bit(f, 0) = a /\ Bit(f, 1) = b /\ Bit(f, 2) = c BY <1>5, <1>6, Bits
<1>9. Bit(f, 4) = d /\ Bit(f, 5) = e BY <1>5, <1>6, Bits
<1> QED BY <1>1, <1>3, <1>5, <1>7, <1>8, <1>9 DEF StartsPacket

LEMMA FourthByte ==
  ASSUME NEW buttons, NEW z \in -8 .. 7, NEW odd \in BOOLEAN, id = 4
  PROVE  /\ Fourth(buttons, z, odd) \in Octets
         /\ Fourth(buttons, z, odd) >= 64 <=> odd
         /\ Bit(Fourth(buttons, z, odd), 4) = 1 <=> 3 \in buttons
         /\ Bit(Fourth(buttons, z, odd), 5) = 1 <=> 4 \in buttons
         /\ (Fourth(buttons, z, odd) % 16) - 16 * Bit(Fourth(buttons, z, odd), 3) = z
<1>1. PICK a, b, c, w :
        /\ a = (IF 3 \in buttons THEN 1 ELSE 0) /\ b = (IF 4 \in buttons THEN 1 ELSE 0)
        /\ c = (IF odd THEN 1 ELSE 0) /\ w = z % 16
  OBVIOUS
<1>2. a \in {0, 1} /\ b \in {0, 1} /\ c \in {0, 1} /\ w \in 0 .. 15 BY <1>1
<1>3. PICK f : f = Fourth(buttons, z, odd) OBVIOUS
<1>4. f = 16 * a + 32 * b + 64 * c + w BY <1>1, <1>3 DEF Fourth
<1>5. f \in Octets BY <1>2, <1>4 DEF Octets
<1>6. /\ (f \div 16) % 2 = a /\ (f \div 32) % 2 = b /\ f % 16 = w
      /\ f >= 64 <=> c = 1
  BY <1>2, <1>4
<1>7. (f \div 8) % 2 = (IF w >= 8 THEN 1 ELSE 0) BY <1>2, <1>4
<1>8. w - 16 * (IF w >= 8 THEN 1 ELSE 0) = z BY <1>1
<1>9. Bit(f, 3) = (IF w >= 8 THEN 1 ELSE 0) BY <1>5, <1>7, Bits
<1>10. Bit(f, 4) = a BY <1>5, <1>6, Bits
<1>11. Bit(f, 5) = b BY <1>5, <1>6, Bits
<1>12. Bit(f, 4) = 1 <=> 3 \in buttons BY <1>1, <1>10
<1>13. Bit(f, 5) = 1 <=> 4 \in buttons BY <1>1, <1>11
<1>14. f >= 64 <=> odd BY <1>1, <1>6
<1>15. (f % 16) - 16 * Bit(f, 3) = z BY <1>6, <1>8, <1>9
<1> QED BY <1>3, <1>5, <1>12, <1>13, <1>14, <1>15

\* Buttons, signs and the turn of the wheel come out as they were put in.
LEMMA Decodes ==
  ASSUME NEW buttons, NEW x, NEW y, NEW z, NEW odd, Legal(buttons, x, y, z, odd),
         id \in {0, 3, 4}, NEW p, p = Packet(buttons, x, y, z, odd)
  PROVE  /\ Bit(p[1], 3) = 1 /\ (id = 4 => (p[4] >= 64 <=> odd))
         /\ Mask(p) = buttons /\ NewEvents(p) = EventsOf(button_mask, buttons, x, y, z)
<1>1. /\ buttons \subseteq 0 .. 4 /\ x \in -256 .. 255 /\ y \in -256 .. 255 /\ z \in -8 .. 7
      /\ odd \in BOOLEAN /\ (id # 4 => buttons \subseteq 0 .. 2 /\ ~odd) /\ (id = 0 => z = 0)
  BY DEF Legal
<1>2. /\ p[1] = First(buttons, x, y) /\ p[2] = x % 256 /\ p[3] = y % 256
      /\ id # 0 => p[4] = Fourth(buttons, z, odd)
  <2>1. IsPacket(p, buttons, x, y, z, odd) BY ZenonT(60), <1>1, PacketBytes
  <2> QED BY <2>1 DEF IsPacket
<1>3. /\ Bit(p[1], 3) = 1 /\ (Bit(p[1], 0) = 1 <=> 0 \in buttons)
      /\ (Bit(p[1], 1) = 1 <=> 1 \in buttons) /\ (Bit(p[1], 2) = 1 <=> 2 \in buttons)
      /\ Bit(p[1], 4) = (IF x < 0 THEN 1 ELSE 0) /\ Bit(p[1], 5) = (IF y < 0 THEN 1 ELSE 0)
  <2>1. StartsPacket(p[1], buttons, x, y) BY ZenonT(60), <1>1, <1>2, FirstByte
  <2> QED BY <2>1 DEF StartsPacket
<1>4. id = 4 => /\ (p[4] >= 64 <=> odd)
                /\ (Bit(p[4], 4) = 1 <=> 3 \in buttons) /\ (Bit(p[4], 5) = 1 <=> 4 \in buttons)
                /\ (p[4] % 16) - 16 * Bit(p[4], 3) = z
  BY SMTT(60), <1>1, <1>2, FourthByte
<1>5. Mask(p) = buttons
  <2>1. ASSUME NEW i \in 0 .. 2 PROVE Bit(p[1], i) = 1 <=> i \in buttons
    <3>1. i = 0 \/ i = 1 \/ i = 2 OBVIOUS
    <3> QED BY <1>3, <3>1
  <2>2. ASSUME id = 4, NEW i \in {3, 4} PROVE Bit(p[4], i + 1) = 1 <=> i \in buttons
    <3>1. CASE i = 3 BY <1>4, <2>2, <3>1, 3 + 1 = 4
    <3>2. CASE i = 4 BY <1>4, <2>2, <3>2, 4 + 1 = 5
    <3> QED BY <2>2, <3>1, <3>2
  <2>3. \A i \in 0 .. 4 : i \in 0 .. 2 \/ i \in {3, 4} OBVIOUS
  <2>4. \A i \in {3, 4} : i \notin 0 .. 2 OBVIOUS
  <2>5. CASE id = 4
    <3>1. \A i \in {3, 4} : Bit(p[4], i + 1) = 1 <=> i \in buttons BY <2>2, <2>5
    <3>2. Mask(p) = {i \in 0 .. 2 : Bit(p[1], i) = 1} \cup {i \in {3, 4} : Bit(p[4], i + 1) = 1}
      BY <2>5 DEF Mask
    <3>3. \A i : i \in Mask(p) <=> i \in buttons BY ZenonT(60), <1>1, <2>1, <2>3, <2>4, <3>1, <3>2
    <3> QED BY <3>3
  <2>6. CASE id # 4 BY <1>1, <2>1, <2>6 DEF Mask
  <2> QED BY <2>5, <2>6
<1>6. Relative(p, 2, 4) = x
  <2>1. (x % 256) - 256 * (IF x < 0 THEN 1 ELSE 0) = x BY <1>1
  <2> QED BY <1>2, <1>3, <2>1 DEF Relative
<1>7. Relative(p, 3, 5) = y
  <2>1. (y % 256) - 256 * (IF y < 0 THEN 1 ELSE 0) = y BY <1>1
  <2> QED BY <1>2, <1>3, <2>1 DEF Relative
<1>8. Scroll(p) = z
  <2>1. CASE id = 0 BY <1>1, <2>1 DEF Scroll
  <2>2. CASE id = 4 BY <1>4, <2>2 DEF Scroll
  <2>3. CASE id = 3
    <3>1. PICK f : f = z % 256 OBVIOUS
    <3>2. p[4] = f BY <1>2, <2>3, <3>1 DEF Fourth
    <3>3. f \in Octets BY <1>1, <3>1 DEF Octets
    <3>4. (f \div 8) % 2 = (IF z < 0 THEN 1 ELSE 0) BY <1>1, <3>1
    <3>5. (f % 16) - 16 * (IF z < 0 THEN 1 ELSE 0) = z BY <1>1, <3>1
    <3>6. Bit(f, 3) = (IF z < 0 THEN 1 ELSE 0) BY <3>3, <3>4, Bits
    <3> QED BY <2>3, <3>2, <3>5, <3>6 DEF Scroll
  <2> QED BY <2>1, <2>2, <2>3
<1>9. NewEvents(p) = EventsOf(button_mask, buttons, x, y, z)
  BY <1>5, <1>6, <1>7, <1>8 DEF NewEvents, EventsOf
<1> QED BY <1>3, <1>4, <1>5, <1>9

\* As long as no byte was lost, the bytes gathered and those on the wire are one packet of
\* the mouse, not yet applied to the buttons, or there are none and the buttons agree.
OnItsWay(buttons, x, y, z, odd) ==
  /\ Legal(buttons, x, y, z, odd)
  /\ wire # <<>> /\ byte_buffer \o wire = Packet(buttons, x, y, z, odd)
  /\ due = IF odd THEN <<>> ELSE EventsOf(button_mask, buttons, x, y, z)
  /\ reported = IF odd THEN button_mask ELSE buttons
Quiet == wire = <<>> /\ byte_buffer = <<>> /\ button_mask = reported
Tracked ==
  /\ lost \in Nat
  /\ lost = 0 => Quiet \/ \E buttons, x, y, z, odd : OnItsWay(buttons, x, y, z, odd)

LEMMA PacketSame ==
  ASSUME UNCHANGED id, NEW buttons, NEW x, NEW y, NEW z, NEW odd
  PROVE  Packet(buttons, x, y, z, odd)' = Packet(buttons, x, y, z, odd)
BY DEF Packet

LEMMA ReportTracked ==
  ASSUME IInv, Tracked, NEW buttons \in SUBSET Buttons, NEW m \in Moves, NEW z \in Wheel, NEW odd \in BOOLEAN,
         Report(buttons, m[1], m[2], z, odd)
  PROVE  Tracked'
<1>1. UNCHANGED <<id, byte_buffer, button_mask, lost>> BY DEF Report, driver, ring
<1>2. PICK x, y : x = m[1] /\ y = m[2] OBVIOUS
<1>3. Report(buttons, x, y, z, odd) BY <1>2
<1>4. Legal(buttons, x, y, z, odd)
  BY <1>2, <1>3, InputAssumption DEF Legal, Report
<1>5. IsPacket(wire', buttons, x, y, z, odd)
  BY ZenonT(60), <1>3, <1>4, PacketBytes DEF Legal, Report, IInv, BytesOK
<1>6. wire' \in Seq(Octets) /\ Len(wire') = PacketSize /\ PacketSize \in {3, 4}
  BY <1>5 DEF IsPacket, PacketSize
<1>7. wire' # <<>> BY <1>6, EmptySeq
<1>8. SUFFICES ASSUME lost = 0 PROVE OnItsWay(buttons, x, y, z, odd)'
  BY <1>1 DEF Tracked
<1>9. Quiet BY <1>3, <1>8 DEF Tracked, OnItsWay, Report
<1>10. byte_buffer' \o wire' = wire'
  BY <1>1, <1>6, <1>9, ConcatEmptySeq DEF Quiet
<1>11. wire' = Packet(buttons, x, y, z, odd)'
  <2>1. id' = id BY <1>1
  <2>2. Packet(buttons, x, y, z, odd)' = Packet(buttons, x, y, z, odd) BY <2>1, PacketSame
  <2>3. wire' = Packet(buttons, x, y, z, odd) BY <1>3 DEF Report
  <2> QED BY <2>2, <2>3
<1>12. Legal(buttons, x, y, z, odd)' BY <1>1, <1>4 DEF Legal
<1>13. due' = IF odd THEN <<>> ELSE EventsOf(button_mask', buttons, x, y, z)
  BY <1>1, <1>3, <1>9 DEF Report, Happened, EventsOf, Quiet
<1>14. reported' = IF odd THEN button_mask' ELSE buttons
  BY <1>1, <1>3, <1>9 DEF Report, Quiet
<1> QED BY <1>7, <1>10, <1>11, <1>12, <1>13, <1>14 DEF OnItsWay

\* The byte taken off the wire is behind those gathered.
Moved(S, b, w, p, t, s) ==
  /\ p \o t = s /\ p \in Seq(S) /\ Len(p) = Len(b) + 1
  /\ t = <<>> => p = s
  /\ Len(p) = Len(s) <=> t = <<>>
  /\ p[1] = s[1]
LEMMA ByteMoves ==
  ASSUME NEW S, NEW b \in Seq(S), NEW w \in Seq(S), w # <<>>, NEW p, p = Append(b, Head(w))
  PROVE  Moved(S, b, w, p, Tail(w), b \o w)
<1>1. PICK h, t : h = Head(w) /\ t = Tail(w) OBVIOUS
<1>2. h \in S /\ t \in Seq(S) /\ Len(t) = Len(w) - 1 /\ Len(w) \in Nat /\ Len(b) \in Nat
      /\ h = w[1] /\ \A i \in 1 .. Len(t) : t[i] = w[i + 1]
  BY <1>1, HeadTailProperties, LenProperties
<1>3. p \in Seq(S) /\ Len(p) = Len(b) + 1 /\ (\A i \in 1 .. Len(b) : p[i] = b[i]) /\ p[Len(b) + 1] = h
  BY <1>1, <1>2, AppendProperties
<1>4. PICK r : r = p \o t OBVIOUS
<1>5. r \in Seq(S) BY <1>2, <1>3, <1>4, ConcatProperties
<1>6. Len(r) = Len(p) + Len(t) BY <1>2, <1>3, <1>4, ConcatProperties
<1>7. \A i \in 1 .. Len(p) + Len(t) : r[i] = IF i <= Len(p) THEN p[i] ELSE t[i - Len(p)]
  BY <1>2, <1>3, <1>4, ConcatProperties
<1>8. PICK s : s = b \o w OBVIOUS
<1>9. s \in Seq(S) BY <1>8, ConcatProperties
<1>10. Len(s) = Len(b) + Len(w) BY <1>8, ConcatProperties
<1>11. \A i \in 1 .. Len(b) + Len(w) : s[i] = IF i <= Len(b) THEN b[i] ELSE w[i - Len(b)]
  BY <1>8, ConcatProperties
<1>12. Len(w) >= 1 BY <1>2, EmptySeq
<1>13. Len(r) = Len(s) /\ Len(r) = Len(b) + Len(w) BY <1>2, <1>3, <1>6, <1>10
<1>14. ASSUME NEW i \in 1 .. Len(r) PROVE r[i] = s[i]
  <2>1. i \in 1 .. Len(p) + Len(t) /\ i \in 1 .. Len(b) + Len(w) BY <1>6, <1>13
  <2>2. CASE i <= Len(b)
    <3>1. i <= Len(p) /\ i \in 1 .. Len(b) BY <1>2, <1>3, <2>2
    <3> QED BY <1>3, <1>7, <1>11, <2>1, <2>2, <3>1
  <2>3. CASE i = Len(b) + 1
    <3>1. i <= Len(p) /\ ~(i <= Len(b)) /\ i - Len(b) = 1 BY <1>2, <1>3, <2>3
    <3> QED BY <1>2, <1>3, <1>7, <1>11, <2>1, <2>3, <3>1
  <2>4. CASE i > Len(b) + 1
    <3>1. /\ ~(i <= Len(p)) /\ ~(i <= Len(b)) /\ i - Len(p) \in 1 .. Len(t)
          /\ (i - Len(p)) + 1 = i - Len(b)
      BY <1>2, <1>3, <2>1, <2>4
    <3>2. t[i - Len(p)] = w[i - Len(b)] BY <1>2, <3>1
    <3> QED BY <1>7, <1>11, <2>1, <3>1, <3>2
  <2> QED BY <1>2, <2>2, <2>3, <2>4
<1>15. r = s BY <1>5, <1>9, <1>13, <1>14, SeqEqual
<1>16. t = <<>> => p = s
  <2>1. t = <<>> => r = p BY <1>3, <1>4, ConcatEmptySeq
  <2> QED BY <1>15, <2>1
<1>17. Len(p) = Len(s) <=> t = <<>>
  <2>1. Len(p) = Len(s) <=> Len(t) = 0 BY <1>2, <1>3, <1>10
  <2>2. Len(t) = 0 <=> t = <<>> BY <1>2, EmptySeq
  <2> QED BY <2>1, <2>2
<1>18. p[1] = s[1]
  <2>1. 1 \in 1 .. Len(r) /\ 1 \in 1 .. Len(p) + Len(t) /\ 1 <= Len(p) BY <1>2, <1>3, <1>12, <1>13
  <2>2. r[1] = p[1] BY <1>7, <2>1
  <2> QED BY <1>15, <2>2
<1> QED BY <1>1, <1>3, <1>4, <1>8, <1>15, <1>16, <1>17, <1>18 DEF Moved

\* The last events of the ring are those due, and the buttons are where the mouse has them.
Decoded ==
  /\ Len(Entries') >= Len(due)
  /\ SubSeq(Entries', Len(Entries') - Len(due) + 1, Len(Entries')) = due
  /\ button_mask' = reported

LEMMA LastOf ==
  ASSUME NEW S, NEW s \in Seq(S), NEW t \in Seq(S)
  PROVE  /\ Len(s \o t) >= Len(t)
         /\ SubSeq(s \o t, Len(s \o t) - Len(t) + 1, Len(s \o t)) = t
<1>1. PICK r : r = s \o t OBVIOUS
<1>2. r \in Seq(S) BY <1>1, ConcatProperties
<1>3. Len(r) = Len(s) + Len(t) BY <1>1, ConcatProperties
<1>4. \A i \in 1 .. Len(s) + Len(t) : r[i] = IF i <= Len(s) THEN s[i] ELSE t[i - Len(s)]
  BY <1>1, ConcatProperties
<1>5. Len(s) \in Nat /\ Len(t) \in Nat BY LenProperties
<1>6. Len(s) \in 0 .. Len(r) /\ Len(r) - Len(s) = Len(t) BY <1>3, <1>5
<1>7. /\ Rest(r, Len(s)) \in Seq(S) /\ Len(Rest(r, Len(s))) = Len(r) - Len(s)
      /\ \A i \in 1 .. Len(r) - Len(s) : Rest(r, Len(s))[i] = r[Len(s) + i]
  BY <1>2, <1>6, RestSeq
<1>8. ASSUME NEW i \in 1 .. Len(t) PROVE Rest(r, Len(s))[i] = t[i]
  <2>1. Len(s) + i \in 1 .. Len(s) + Len(t) /\ ~(Len(s) + i <= Len(s)) /\ (Len(s) + i) - Len(s) = i
    BY <1>5
  <2>2. r[Len(s) + i] = t[i] BY <1>4, <2>1
  <2> QED BY <1>6, <1>7, <2>2
<1>9. Rest(r, Len(s)) = t BY <1>5, <1>6, <1>7, <1>8, SeqEqual
<1>10. Len(r) - Len(t) + 1 = Len(s) + 1 BY <1>3, <1>5
<1> QED BY <1>1, <1>3, <1>5, <1>9, <1>10 DEF Rest

LEMMA Irq12Tracked ==
  ASSUME RoomForTwo, IInv, Tracked, Irq12
  PROVE  Tracked' /\ (wire' = <<>> /\ lost = 0 => Decoded)
<1>1. /\ wire # <<>> /\ wire' = Tail(wire) /\ NewByte(Head(wire))
      /\ UNCHANGED <<id, reported, due, lost>> /\ id \in {0, 3, 4}
  BY DEF Irq12, IInv, BytesOK
<1>2. SUFFICES ASSUME lost = 0
               PROVE  /\ Quiet' \/ \E buttons, x, y, z, odd : OnItsWay(buttons, x, y, z, odd)'
                      /\ wire' = <<>> => Decoded
  BY <1>1 DEF Tracked
<1>3. PICK buttons, x, y, z, odd : OnItsWay(buttons, x, y, z, odd)
  BY <1>1, <1>2 DEF Tracked, Quiet
<1>4. PICK P : P = Packet(buttons, x, y, z, odd) OBVIOUS
<1>5. /\ Bit(P[1], 3) = 1 /\ (id = 4 => (P[4] >= 64 <=> odd))
      /\ Mask(P) = buttons /\ NewEvents(P) = EventsOf(button_mask, buttons, x, y, z)
  BY <1>1, <1>3, <1>4, Decodes DEF OnItsWay
<1>6. P \in Seq(Octets) /\ Len(P) = PacketSize
  <2>1. /\ x \in -256 .. 255 /\ y \in -256 .. 255 /\ z \in -8 .. 7 /\ odd \in BOOLEAN
    BY <1>3 DEF OnItsWay, Legal
  <2>2. IsPacket(P, buttons, x, y, z, odd) BY <1>1, <1>4, <2>1, PacketBytes
  <2> QED BY <2>2 DEF IsPacket
<1>7. PICK p : p = Append(byte_buffer, Head(wire)) OBVIOUS
<1>8. byte_buffer \in Seq(Octets) /\ wire \in Seq(Octets) /\ byte_buffer \o wire = P
  BY <1>3, <1>4 DEF IInv, BytesOK, OnItsWay
<1>9. /\ p \o Tail(wire) = P /\ p \in Seq(Octets) /\ (Tail(wire) = <<>> => p = P)
      /\ (Len(p) = PacketSize <=> Tail(wire) = <<>>) /\ p[1] = P[1]
  <2>1. Moved(Octets, byte_buffer, wire, p, Tail(wire), byte_buffer \o wire)
    BY <1>1, <1>7, <1>8, ByteMoves
  <2>2. Moved(Octets, byte_buffer, wire, p, Tail(wire), P) BY <1>8, <2>1
  <2> QED BY <1>6, <2>2 DEF Moved
<1>10. Bit(p[1], 3) = 1 BY <1>5, <1>9
<1>11. CASE wire' # <<>>
  <2>1. ~(Bit(p[1], 3) = 0) /\ Bit(p[1], 3) = 1 /\ Len(p) # PacketSize BY <1>1, <1>9, <1>10, <1>11
  <2>2. byte_buffer' = p /\ UNCHANGED button_mask BY <1>1, <1>7, <2>1 DEF NewByte
  <2>3. byte_buffer' \o wire' = P BY <1>1, <1>9, <2>2
  <2>4. Packet(buttons, x, y, z, odd)' = P
    <3>1. id' = id BY <1>1
    <3>2. Packet(buttons, x, y, z, odd)' = Packet(buttons, x, y, z, odd) BY <3>1, PacketSame
    <3> QED BY <1>4, <3>2
  <2>5. Legal(buttons, x, y, z, odd)' BY <1>1, <1>3 DEF Legal, OnItsWay
  <2>6. due' = IF odd THEN <<>> ELSE EventsOf(button_mask', buttons, x, y, z)
    BY <1>1, <1>3, <2>2 DEF OnItsWay
  <2>7. reported' = IF odd THEN button_mask' ELSE buttons BY <1>1, <1>3, <2>2 DEF OnItsWay
  <2> QED BY <1>11, <2>3, <2>4, <2>5, <2>6, <2>7 DEF OnItsWay
<1>12. CASE wire' = <<>>
  <2>1. p = P /\ Len(p) = PacketSize BY <1>1, <1>9, <1>12
  <2>2. /\ byte_buffer' = <<>>
        /\ IF id = 4 /\ p[4] >= 64 THEN UNCHANGED <<ring, button_mask>>
           ELSE Enqueue(NewEvents(p)) /\ button_mask' = NewMask(p)
    <3>1. ~(Bit(p[1], 3) = 0) /\ ~(Bit(p[1], 3) = 1 /\ Len(p) # PacketSize) BY <1>10, <2>1
    <3> QED BY <1>1, <1>7, <3>1 DEF NewByte, ring
  <2>3. id # 4 => ~odd BY <1>3 DEF OnItsWay, Legal
  <2>4. odd \in BOOLEAN BY <1>3 DEF OnItsWay, Legal
  <2>5. CASE odd
    <3>1. UNCHANGED <<queue, tail, len, button_mask>> BY <1>5, <2>1, <2>2, <2>3, <2>5 DEF ring
    <3>2. due = <<>> /\ reported = button_mask BY <1>3, <2>5 DEF OnItsWay
    <3>3. Quiet' BY <1>1, <1>12, <2>2, <3>1, <3>2 DEF Quiet
    <3>4. PICK e : e = Entries OBVIOUS
    <3>5. e \in Seq(Event) /\ <<>> \in Seq(Event) BY <3>4, EntriesSeq
    <3>6. Entries' = e BY <3>1, <3>4 DEF Entries
    <3>7. e \o <<>> = e BY <3>5, ConcatEmptySeq
    <3>8. Len(e) >= Len(<<>>) /\ SubSeq(e, Len(e) - Len(<<>>) + 1, Len(e)) = <<>>
      BY <3>5, <3>7, LastOf
    <3> QED BY <3>1, <3>2, <3>3, <3>6, <3>8 DEF Decoded
  <2>6. CASE ~odd
    <3>1. /\ Enqueue(NewEvents(p)) /\ button_mask' = buttons
      BY <1>5, <2>1, <2>2, <2>6 DEF NewMask
    <3>2. due = NewEvents(p) /\ reported = buttons BY <1>3, <1>5, <2>1, <2>6 DEF OnItsWay
    <3>3. Quiet' BY <1>1, <1>12, <2>2, <3>1, <3>2 DEF Quiet
    <3>4. due \in Short(MouseEvent, 7)
      BY <1>1, <2>1, <3>2, <1>6, NewEventsShort
    <3>5. PICK e : e = Entries OBVIOUS
    <3>6. PICK d : d = Dropped(Len(due)) OBVIOUS
    <3>7. d \in 0 .. len /\ Entries' = Rest(e, d) \o due
      BY <3>1, <3>2, <3>4, <3>5, <3>6, EnqueueStep, EntriesRing DEF IInv, Entries, Ring
    <3>8. Rest(e, d) \in Seq(Event)
      <4>1. e \in Seq(Event) /\ Len(e) = len BY <3>5, EntriesSeq
      <4> QED BY <3>7, <4>1, RestSeq
    <3>9. due \in Seq(Event) BY <3>4, SeqOfEvents
    <3>10. PICK k : k = Rest(e, d) OBVIOUS
    <3>11. /\ Len(k \o due) >= Len(due)
           /\ SubSeq(k \o due, Len(k \o due) - Len(due) + 1, Len(k \o due)) = due
      BY <3>8, <3>9, <3>10, LastOf
    <3> QED BY <3>1, <3>2, <3>3, <3>7, <3>10, <3>11 DEF Decoded
  <2> QED BY <2>4, <2>5, <2>6
<1> QED BY <1>11, <1>12

LEMMA NextTracked ==
  ASSUME RoomForTwo PROVE IInv /\ Tracked /\ [Next]_vars => Tracked'
<1> SUFFICES ASSUME IInv, Tracked, [Next]_vars PROVE Tracked' OBVIOUS
<1>1. CASE \E buttons \in SUBSET Buttons, m \in Moves, z \in Wheel, odd \in BOOLEAN :
             Report(buttons, m[1], m[2], z, odd)
  BY <1>1, ReportTracked
<1>2. CASE Lose
  <2>1. lost' = lost + 1 BY <1>2 DEF Lose
  <2>2. lost' \in Nat /\ lost' # 0 BY <2>1 DEF Tracked
  <2> QED BY <2>2 DEF Tracked
<1>3. CASE Irq12 BY <1>3, Irq12Tracked
<1>4. ASSUME UNCHANGED <<id, wire, reported, byte_buffer, button_mask, due, lost>> PROVE Tracked'
  <2>1. ASSUME NEW buttons, NEW x, NEW y, NEW z, NEW odd, OnItsWay(buttons, x, y, z, odd)
        PROVE  OnItsWay(buttons, x, y, z, odd)'
    <3>1. id' = id BY <1>4
    <3>2. Packet(buttons, x, y, z, odd)' = Packet(buttons, x, y, z, odd) BY <3>1, PacketSame
    <3>3. Legal(buttons, x, y, z, odd)' BY <1>4, <2>1 DEF Legal, OnItsWay
    <3> QED BY <1>4, <2>1, <3>2, <3>3 DEF OnItsWay
  <2>2. Quiet => Quiet' BY <1>4 DEF Quiet
  <2> QED BY <1>4, <2>1, <2>2 DEF Tracked
<1>5. CASE GetMouseEvent
  BY <1>4, <1>5 DEF GetMouseEvent, Enter, Empty, Copy, Drop, driver
<1>6. CASE UNCHANGED vars BY <1>4, <1>6 DEF vars, driver
<1> QED BY <1>1, <1>2, <1>3, <1>5, <1>6 DEF Next

\* A packet no byte of which was lost on the way is decoded to exactly what happened to the
\* mouse, for every id, every set of buttons and every movement a packet can hold.
THEOREM MotionDecoded == ASSUME RoomForTwo PROVE Spec => EventsMatchMotion
<1>1. Init => Tracked BY DEF Init, Tracked, Quiet
<1>2. IInv /\ Tracked /\ [Next]_vars => Tracked' BY NextTracked
<1>3. IInv /\ Tracked /\ [Next]_vars =>
        [Irq12 /\ wire' = <<>> /\ lost = 0 => 
          LET entries == Entries' IN
          /\ Len(entries) >= Len(due) /\ SubSeq(entries, Len(entries) - Len(due) + 1, Len(entries)) = due
          /\ button_mask' = reported]_vars
  BY Irq12Tracked DEF Decoded
<1> QED BY <1>1, <1>2, <1>3, MouseInvariant, PTL DEF Spec, EventsMatchMotion

-----------------------------------------------------------------------------
(* Buttons are pressed and released in turn *)

\* The sequence s is es and one more element, e.
Grown(s, es, e) ==
  /\ Len(es) \in Nat /\ Len(s) = Len(es) + 1 /\ DOMAIN es = 1 .. Len(es) /\ DOMAIN s = 1 .. Len(s)
  /\ s[Len(es) + 1] = e /\ \A i \in 1 .. Len(es) : s[i] = es[i]

\* What Alternates says of the entry k.
AltAt(es, mask, k) ==
  es[k].type = "button" =>
    /\ (\A n \in k + 1 .. Len(es) : ~SameButton(es[n], es[k])) => (es[k].pressed <=> es[k].button \in mask)
    /\ \A j \in k + 1 .. Len(es) :
         SameButton(es[j], es[k]) /\ (\A n \in k + 1 .. j - 1 : ~SameButton(es[n], es[k]))
           => (es[j].pressed <=> ~es[k].pressed)

LEMMA AltIsAlt == ASSUME NEW es, NEW mask PROVE Alternates(es, mask) <=> \A k \in DOMAIN es : AltAt(es, mask, k)
BY DEF Alternates, AltAt

LEMMA AltOther ==
  ASSUME NEW s, NEW es, NEW e, NEW mask, Grown(s, es, e), Alternates(es, mask), e.type # "button"
  PROVE  Alternates(s, mask)
<1>1. SUFFICES ASSUME NEW k \in 1 .. Len(es) + 1 PROVE AltAt(s, mask, k) BY AltIsAlt DEF Grown
<1>2. CASE k = Len(es) + 1 BY <1>2 DEF Grown, AltAt
<1>3. CASE k \in 1 .. Len(es)
  <2>1. AltAt(es, mask, k) BY <1>3, AltIsAlt DEF Grown
  <2>2. s[k] = es[k] /\ \A n \in k + 1 .. Len(es) : s[n] = es[n] BY <1>3 DEF Grown
  <2>3. ~SameButton(s[Len(es) + 1], s[k]) BY DEF Grown, SameButton
  <2>4. \A n \in k + 1 .. Len(s) : n \in k + 1 .. Len(es) \/ n = Len(es) + 1 BY <1>3 DEF Grown
  <2>5. \A n \in k + 1 .. Len(es) : n \in k + 1 .. Len(s) BY <1>3 DEF Grown
  <2>6. SUFFICES ASSUME s[k].type = "button"
        PROVE /\ (\A n \in k + 1 .. Len(s) : ~SameButton(s[n], s[k])) => (s[k].pressed <=> s[k].button \in mask)
              /\ \A j \in k + 1 .. Len(s) :
                   SameButton(s[j], s[k]) /\ (\A n \in k + 1 .. j - 1 : ~SameButton(s[n], s[k]))
                     => (s[j].pressed <=> ~s[k].pressed)
    BY DEF AltAt
  <2>7. (\A n \in k + 1 .. Len(s) : ~SameButton(s[n], s[k])) => (s[k].pressed <=> s[k].button \in mask)
    BY <2>1, <2>2, <2>5, <2>6 DEF AltAt
  <2>8. ASSUME NEW j \in k + 1 .. Len(s), SameButton(s[j], s[k]), \A n \in k + 1 .. j - 1 : ~SameButton(s[n], s[k])
        PROVE s[j].pressed <=> ~s[k].pressed
    <3>1. j \in k + 1 .. Len(es) BY <2>3, <2>4, <2>8
    <3>2. \A n \in k + 1 .. j - 1 : n \in k + 1 .. Len(es) BY <1>3, <3>1 DEF Grown
    <3> QED BY <2>1, <2>2, <2>6, <2>8, <3>1, <3>2 DEF AltAt
  <2> QED BY <2>7, <2>8
<1> QED BY <1>1, <1>2, <1>3 DEF Grown

\* The event of the button i says where it is now, and it was elsewhere before.
Toggled(mask, now, i) ==
  /\ (i \in now) <=> (i \notin mask)
  /\ \A n : n # i => (n \in now <=> n \in mask)
LEMMA AltToggle ==
  ASSUME NEW s, NEW es, NEW i, NEW mask, NEW now, Toggled(mask, now, i),
         Grown(s, es, ButtonEvent(i, i \in now)), Alternates(es, mask)
  PROVE  Alternates(s, now)
<1>0. PICK e : e = ButtonEvent(i, i \in now) OBVIOUS
<1>01. e.type = "button" /\ e.button = i /\ (e.pressed <=> i \in now) BY <1>0 DEF ButtonEvent
<1>02. Grown(s, es, e) BY <1>0
<1>1. SUFFICES ASSUME NEW k \in 1 .. Len(es) + 1 PROVE AltAt(s, now, k) BY <1>02, AltIsAlt DEF Grown
<1>2. CASE k = Len(es) + 1
  <2>1. s[k] = e BY <1>02, <1>2 DEF Grown
  <2>2. \A j \in k + 1 .. Len(s) : FALSE BY <1>02, <1>2 DEF Grown
  <2> QED BY <1>01, <2>1, <2>2 DEF AltAt
<1>3. CASE k \in 1 .. Len(es)
  <2>1. AltAt(es, mask, k) BY <1>02, <1>3, AltIsAlt DEF Grown
  <2>2. s[k] = es[k] /\ \A n \in k + 1 .. Len(es) : s[n] = es[n] BY <1>02, <1>3 DEF Grown
  <2>3. s[Len(es) + 1] = e /\ Len(s) = Len(es) + 1 BY <1>02 DEF Grown
  <2>4. \A n \in k + 1 .. Len(s) : n \in k + 1 .. Len(es) \/ n = Len(es) + 1 BY <1>02, <1>3 DEF Grown
  <2>5. \A n \in k + 1 .. Len(es) : n \in k + 1 .. Len(s) BY <1>02, <1>3 DEF Grown
  <2>5a. Len(es) + 1 \in k + 1 .. Len(s) BY <1>02, <1>3 DEF Grown
  <2>6. SUFFICES ASSUME s[k].type = "button"
        PROVE /\ (\A n \in k + 1 .. Len(s) : ~SameButton(s[n], s[k])) => (s[k].pressed <=> s[k].button \in now)
              /\ \A j \in k + 1 .. Len(s) :
                   SameButton(s[j], s[k]) /\ (\A n \in k + 1 .. j - 1 : ~SameButton(s[n], s[k]))
                     => (s[j].pressed <=> ~s[k].pressed)
    BY DEF AltAt
  <2>7. ASSUME \A n \in k + 1 .. Len(s) : ~SameButton(s[n], s[k]) PROVE s[k].pressed <=> s[k].button \in now
    <3>1. s[k].button # i
      <4>1. ~SameButton(e, s[k]) BY <2>3, <2>5a, <2>7
      <4> QED BY <1>01, <2>6, <4>1 DEF SameButton
    <3>2. s[k].pressed <=> s[k].button \in mask BY <2>1, <2>2, <2>5, <2>6, <2>7 DEF AltAt
    <3> QED BY <3>1, <3>2 DEF Toggled
  <2>8. ASSUME NEW j \in k + 1 .. Len(s), SameButton(s[j], s[k]), \A n \in k + 1 .. j - 1 : ~SameButton(s[n], s[k])
        PROVE s[j].pressed <=> ~s[k].pressed
    <3>1. CASE j \in k + 1 .. Len(es)
      <4>1. \A n \in k + 1 .. j - 1 : n \in k + 1 .. Len(es) BY <1>02, <1>3, <3>1 DEF Grown
      <4> QED BY <2>1, <2>2, <2>6, <2>8, <3>1, <4>1 DEF AltAt
    <3>2. CASE j = Len(es) + 1
      <4>1. s[j] = e /\ s[k].button = i BY <1>01, <2>3, <2>8, <3>2 DEF SameButton
      <4>2. \A n \in k + 1 .. Len(es) : n \in k + 1 .. j - 1 BY <1>02, <1>3, <3>2 DEF Grown
      <4>3. s[k].pressed <=> i \in mask BY <2>1, <2>2, <2>6, <2>8, <4>1, <4>2 DEF AltAt
      <4> QED BY <1>01, <4>1, <4>3 DEF Toggled
    <3> QED BY <2>4, <3>1, <3>2
  <2> QED BY <2>7, <2>8
<1> QED BY <1>1, <1>2, <1>3

LEMMA AltRest ==
  ASSUME NEW S, NEW es \in Seq(S), NEW d \in 0 .. Len(es), NEW mask, Alternates(es, mask)
  PROVE  Alternates(Rest(es, d), mask)
<1>1. PICK s : s = Rest(es, d) OBVIOUS
<1>2. /\ s \in Seq(S) /\ Len(s) = Len(es) - d /\ Len(es) \in Nat /\ \A i \in 1 .. Len(s) : s[i] = es[d + i]
  BY <1>1, RestSeq, LenProperties
<1>3. DOMAIN s = 1 .. Len(s) /\ DOMAIN es = 1 .. Len(es) /\ Len(s) \in Nat BY <1>2, LenProperties
<1>4. SUFFICES ASSUME NEW k \in 1 .. Len(s) PROVE AltAt(s, mask, k) BY <1>1, <1>3, AltIsAlt
<1>5. d + k \in 1 .. Len(es) /\ s[k] = es[d + k] BY <1>2, <1>3
<1>6. AltAt(es, mask, d + k) BY <1>3, <1>5, AltIsAlt
<1>7. SUFFICES ASSUME s[k].type = "button"
      PROVE /\ (\A n \in k + 1 .. Len(s) : ~SameButton(s[n], s[k])) => (s[k].pressed <=> s[k].button \in mask)
            /\ \A j \in k + 1 .. Len(s) :
                 SameButton(s[j], s[k]) /\ (\A n \in k + 1 .. j - 1 : ~SameButton(s[n], s[k]))
                   => (s[j].pressed <=> ~s[k].pressed)
  BY DEF AltAt
<1>8. ASSUME \A n \in k + 1 .. Len(s) : ~SameButton(s[n], s[k]) PROVE s[k].pressed <=> s[k].button \in mask
  <2>1. ASSUME NEW n \in (d + k) + 1 .. Len(es) PROVE ~SameButton(es[n], es[d + k])
    <3>1. n - d \in k + 1 .. Len(s) /\ n - d \in 1 .. Len(s) /\ d + (n - d) = n BY <1>2, <1>3
    <3>2. s[n - d] = es[n] BY <1>2, <3>1
    <3> QED BY <1>5, <1>8, <3>1, <3>2
  <2> QED BY <1>5, <1>6, <1>7, <2>1 DEF AltAt
<1>9. ASSUME NEW j \in k + 1 .. Len(s), SameButton(s[j], s[k]), \A n \in k + 1 .. j - 1 : ~SameButton(s[n], s[k])
      PROVE s[j].pressed <=> ~s[k].pressed
  <2>1. d + j \in (d + k) + 1 .. Len(es) /\ s[j] = es[d + j] BY <1>2, <1>3
  <2>2. ASSUME NEW n \in (d + k) + 1 .. (d + j) - 1 PROVE ~SameButton(es[n], es[d + k])
    <3>1. n - d \in k + 1 .. j - 1 /\ n - d \in 1 .. Len(s) /\ d + (n - d) = n BY <1>2, <1>3
    <3>2. s[n - d] = es[n] BY <1>2, <3>1
    <3> QED BY <1>5, <1>9, <3>1, <3>2
  <2> QED BY <1>5, <1>6, <1>7, <1>9, <2>1, <2>2 DEF AltAt
<1> QED BY <1>8, <1>9

\* One more element at the end.
LEMMA GrownBy ==
  ASSUME NEW S, NEW es \in Seq(S), NEW e \in S
  PROVE  Grown(es \o <<e>>, es, e)
<1>1. PICK t : t = <<e>> OBVIOUS
<1>2. t \in Seq(S) /\ Len(t) = 1 /\ t[1] = e BY <1>1
<1>3. PICK s : s = es \o t OBVIOUS
<1>4. s \in Seq(S) BY <1>2, <1>3, ConcatProperties
<1>5. Len(s) = Len(es) + Len(t) BY <1>2, <1>3, ConcatProperties
<1>6. \A i \in 1 .. Len(es) + Len(t) : s[i] = IF i <= Len(es) THEN es[i] ELSE t[i - Len(es)]
  BY <1>2, <1>3, ConcatProperties
<1>7. Len(es) \in Nat /\ DOMAIN es = 1 .. Len(es) /\ DOMAIN s = 1 .. Len(s) BY <1>4, LenProperties
<1>8. s[Len(es) + 1] = e
  <2>1. Len(es) + 1 \in 1 .. Len(es) + Len(t) /\ ~(Len(es) + 1 <= Len(es)) /\ (Len(es) + 1) - Len(es) = 1
    BY <1>2, <1>7
  <2> QED BY <1>2, <1>6, <2>1
<1>9. \A i \in 1 .. Len(es) : s[i] = es[i]
  <2>1. \A i \in 1 .. Len(es) : i \in 1 .. Len(es) + Len(t) /\ i <= Len(es) BY <1>2, <1>7
  <2> QED BY <1>6, <2>1
<1> QED BY <1>1, <1>2, <1>3, <1>5, <1>7, <1>8, <1>9 DEF Grown

\* Where the buttons are after the events of those below i.
Stage(from, to, i) == {n \in 0 .. 4 : IF n < i THEN n \in to ELSE n \in from}

\* A sequence of events in which each button alternates.
Good(es, mask) == es \in Seq(Event) /\ Alternates(es, mask)

LEMMA ChangeKeeps ==
  ASSUME NEW from, NEW to, NEW i \in 0 .. 4, NEW es, Good(es, Stage(from, to, i))
  PROVE  Good(es \o Change(i, from, to), Stage(from, to, i + 1))
<1>1. PICK now : now = Stage(from, to, i + 1) OBVIOUS
<1>2. PICK mask : mask = Stage(from, to, i) OBVIOUS
<1>3. /\ (i \in now <=> i \in to) /\ (i \in mask <=> i \in from)
      /\ \A n : n # i => (n \in now <=> n \in mask)
  BY <1>1, <1>2 DEF Stage
<1>4. es \in Seq(Event) /\ Alternates(es, mask) BY <1>2 DEF Good
<1>5. CASE ~(i \in from <=> i \notin to)
  <2>1. now = mask BY <1>1, <1>2, <1>3, <1>5 DEF Stage
  <2>2. Change(i, from, to) = <<>> BY <1>5 DEF Change, Maybe
  <2>3. es \o <<>> = es BY <1>4, ConcatEmptySeq
  <2> QED BY <1>1, <1>4, <2>1, <2>2, <2>3 DEF Good
<1>6. CASE i \in from <=> i \notin to
  <2>1. PICK e : e = ButtonEvent(i, i \in to) OBVIOUS
  <2>2. Change(i, from, to) = <<e>> BY <1>6, <2>1 DEF Change, Maybe
  <2>3. e \in Event
    <3>1. (i \in to) \in BOOLEAN OBVIOUS
    <3> QED BY <2>1, <3>1 DEF ButtonEvent, Event, MouseEvent
  <2>4. Grown(es \o <<e>>, es, e) BY <1>4, <2>3, GrownBy
  <2>5. Toggled(mask, now, i) BY <1>3, <1>6 DEF Toggled
  <2>6. e = ButtonEvent(i, i \in now)
    <3>1. (i \in now) = (i \in to) BY <1>3
    <3> QED BY <2>1, <3>1
  <2>7. Alternates(es \o <<e>>, now)
    <3>1. PICK s : s = es \o <<e>> OBVIOUS
    <3>2. Grown(s, es, ButtonEvent(i, i \in now)) BY <2>4, <2>6, <3>1
    <3> QED BY <1>4, <2>5, <3>1, <3>2, AltToggle
  <2>8. es \o <<e>> \in Seq(Event)
    <3>1. PICK t : t = <<e>> OBVIOUS
    <3>2. t \in Seq(Event) BY <2>3, <3>1
    <3> QED BY <1>4, <3>1, <3>2, ConcatProperties
  <2> QED BY <1>1, <2>2, <2>7, <2>8 DEF Good
<1> QED BY <1>5, <1>6

LEMMA OtherKeeps ==
  ASSUME NEW es, NEW mask, Good(es, mask), NEW happens, NEW e \in Event, e.type # "button"
  PROVE  Good(es \o Maybe(happens, e), mask)
<1>1. es \in Seq(Event) /\ Alternates(es, mask) BY DEF Good
<1>2. CASE ~happens
  <2>1. Maybe(happens, e) = <<>> BY <1>2 DEF Maybe
  <2>2. es \o <<>> = es BY <1>1, ConcatEmptySeq
  <2> QED BY <1>1, <2>1, <2>2 DEF Good
<1>3. CASE happens
  <2>1. Maybe(happens, e) = <<e>> BY <1>3 DEF Maybe
  <2>2. PICK s : s = es \o <<e>> OBVIOUS
  <2>3. Grown(s, es, e) BY <1>1, <2>2, GrownBy
  <2>4. Alternates(s, mask) BY <1>1, <2>3, AltOther
  <2>5. s \in Seq(Event)
    <3>1. PICK t : t = <<e>> OBVIOUS
    <3>2. t \in Seq(Event) BY <3>1
    <3> QED BY <1>1, <2>2, <3>1, <3>2, ConcatProperties
  <2> QED BY <2>1, <2>2, <2>4, <2>5 DEF Good
<1> QED BY <1>2, <1>3

LEMMA EventsKeep ==
  ASSUME NEW from \in SUBSET (0 .. 4), NEW to \in SUBSET (0 .. 4), NEW k, Good(k, from),
         NEW es, ComeTo(es, from, to)
  PROVE  Good(k \o es, to)
<1>1. PICK x \in -256 .. 255, y \in -256 .. 255, z \in -8 .. 7 : es = EventsOf(from, to, x, y, z)
  BY DEF ComeTo
<1>2. PICK a, b, c, d, e :
        /\ a = Change(0, from, to) /\ b = Change(1, from, to) /\ c = Change(2, from, to)
        /\ d = Change(3, from, to) /\ e = Change(4, from, to)
  OBVIOUS
<1>3. PICK f, g : f = Maybe(x # 0 \/ y # 0, MoveEvent(x, y)) /\ g = Maybe(z # 0, ScrollEvent(z)) OBVIOUS
<1>4. es = a \o b \o c \o d \o e \o f \o g BY <1>1, <1>2, <1>3 DEF EventsOf, Changes
<1>5. /\ MoveEvent(x, y) \in MouseEvent /\ ScrollEvent(z) \in MouseEvent
      /\ MoveEvent(x, y) \in Event /\ ScrollEvent(z) \in Event
      /\ MoveEvent(x, y).type # "button" /\ ScrollEvent(z).type # "button"
  BY DEF MoveEvent, ScrollEvent, MouseEvent, Event
<1>6. ASSUME NEW i \in 0 .. 4 PROVE Change(i, from, to) \in Seq(Event)
  <2>1. (i \in to) \in BOOLEAN OBVIOUS
  <2>2. ButtonEvent(i, i \in to) \in MouseEvent BY <2>1 DEF ButtonEvent, MouseEvent
  <2>3. Change(i, from, to) \in Short(MouseEvent, 1) BY <2>2, MaybeShort DEF Change
  <2> QED BY <2>3, SeqOfEvents
<1>7. /\ a \in Seq(Event) /\ b \in Seq(Event) /\ c \in Seq(Event) /\ d \in Seq(Event)
      /\ e \in Seq(Event)
  <2>1. 0 \in 0 .. 4 /\ 1 \in 0 .. 4 /\ 2 \in 0 .. 4 /\ 3 \in 0 .. 4 /\ 4 \in 0 .. 4 OBVIOUS
  <2> QED BY <1>2, <1>6, <2>1
<1>8. f \in Seq(Event) /\ g \in Seq(Event) BY <1>3, <1>5, MaybeShort, SeqOfEvents
<1>9. k \in Seq(Event) BY DEF Good
<1>10. k \o es = k \o a \o b \o c \o d \o e \o f \o g
  <2>1. ASSUME NEW s \in Seq(Event), NEW t \in Seq(Event) PROVE s \o t \in Seq(Event)
    BY ConcatProperties
  <2>2. ASSUME NEW s \in Seq(Event), NEW t \in Seq(Event) PROVE k \o (s \o t) = (k \o s) \o t
    BY <1>9, ConcatAssociative
  <2>3. PICK ab : ab = a \o b OBVIOUS
  <2>4. PICK abc : abc = ab \o c OBVIOUS
  <2>5. PICK abcd : abcd = abc \o d OBVIOUS
  <2>6. PICK abcde : abcde = abcd \o e OBVIOUS
  <2>7. PICK all : all = abcde \o f OBVIOUS
  <2>8. ab \in Seq(Event) BY <1>7, <2>1, <2>3
  <2>9. abc \in Seq(Event) BY <1>7, <2>1, <2>4, <2>8
  <2>10. abcd \in Seq(Event) BY <1>7, <2>1, <2>5, <2>9
  <2>11. abcde \in Seq(Event) BY <1>7, <2>1, <2>6, <2>10
  <2>12. all \in Seq(Event) BY <1>8, <2>1, <2>7, <2>11
  <2>13. k \o ab = k \o a \o b BY <1>7, <2>2, <2>3
  <2>14. k \o abc = k \o ab \o c BY <1>7, <2>2, <2>4, <2>8
  <2>15. k \o abcd = k \o abc \o d BY <1>7, <2>2, <2>5, <2>9
  <2>16. k \o abcde = k \o abcd \o e BY <1>7, <2>2, <2>6, <2>10
  <2>17. k \o all = k \o abcde \o f BY <1>8, <2>2, <2>7, <2>11
  <2>18. k \o (all \o g) = k \o all \o g BY <1>8, <2>2, <2>12
  <2>19. es = all \o g BY <1>4, <2>3, <2>4, <2>5, <2>6, <2>7
  <2> QED BY <2>13, <2>14, <2>15, <2>16, <2>17, <2>18, <2>19
<1>11. Stage(from, to, 0) = from /\ Stage(from, to, 5) = to
  <2>1. \A n \in 0 .. 4 : ~(n < 0) /\ n < 5 OBVIOUS
  <2>2. \A n : n \in Stage(from, to, 0) <=> n \in from BY <2>1 DEF Stage
  <2>3. \A n : n \in Stage(from, to, 5) <=> n \in to BY <2>1 DEF Stage
  <2> QED BY <2>2, <2>3
<1>12. Good(k \o a, Stage(from, to, 1))
  <2>1. 0 \in 0 .. 4 /\ 0 + 1 = 1 OBVIOUS
  <2> QED BY <1>2, <1>11, <2>1, ChangeKeeps
<1>13. Good(k \o a \o b, Stage(from, to, 2))
  <2>1. 1 \in 0 .. 4 /\ 1 + 1 = 2 OBVIOUS
  <2> QED BY <1>2, <1>12, <2>1, ChangeKeeps
<1>14. Good(k \o a \o b \o c, Stage(from, to, 3))
  <2>1. 2 \in 0 .. 4 /\ 2 + 1 = 3 OBVIOUS
  <2> QED BY <1>2, <1>13, <2>1, ChangeKeeps
<1>15. Good(k \o a \o b \o c \o d, Stage(from, to, 4))
  <2>1. 3 \in 0 .. 4 /\ 3 + 1 = 4 OBVIOUS
  <2> QED BY <1>2, <1>14, <2>1, ChangeKeeps
<1>16. Good(k \o a \o b \o c \o d \o e, to)
  <2>1. 4 \in 0 .. 4 /\ 4 + 1 = 5 OBVIOUS
  <2> QED BY <1>2, <1>11, <1>15, <2>1, ChangeKeeps
<1>17. Good(k \o a \o b \o c \o d \o e \o f, to) BY <1>3, <1>5, <1>16, OtherKeeps
<1>18. Good(k \o a \o b \o c \o d \o e \o f \o g, to) BY <1>3, <1>5, <1>17, OtherKeeps
<1> QED BY <1>10, <1>18

LEMMA NextAlternates ==
  ASSUME RoomForTwo, IInv, Good(Entries, button_mask), [Next]_vars
  PROVE  Good(Entries, button_mask)'
<1>1. ASSUME UNCHANGED <<queue, tail, len, button_mask>> PROVE Good(Entries, button_mask)'
  <2>1. Entries' = Entries /\ button_mask' = button_mask BY <1>1 DEF Entries
  <2>2. Good(Entries, button_mask)' <=> Good(Entries', button_mask') BY DEF Good, Alternates, Event, MouseEvent, SameButton, NONE
  <2> QED BY <2>1, <2>2
<1>2. CASE \E buttons \in SUBSET Buttons, m \in Moves, z \in Wheel, odd \in BOOLEAN :
             Report(buttons, m[1], m[2], z, odd)
  BY <1>1, <1>2 DEF Report, driver, ring
<1>3. CASE Lose BY <1>1, <1>3 DEF Lose, driver, ring
<1>4. CASE Irq12
  <2>1. SUFFICES ASSUME NEW es \in Short(MouseEvent, 7), Enqueue(es), ComeTo(es, button_mask, button_mask')
                 PROVE  Good(Entries, button_mask)'
    BY <1>1, <1>4, Irq12Step
  <2>2. PICK d : d = Dropped(Len(es)) OBVIOUS
  <2>3. PICK k : k = Rest(Entries, d) OBVIOUS
  <2>4. d \in 0 .. len /\ Entries' = k \o es
    BY <2>1, <2>2, <2>3, EnqueueStep, EntriesRing DEF IInv, Entries, Ring
  <2>5. Good(k, button_mask)
    <3>1. d \in 0 .. Len(Entries) /\ Entries \in Seq(Event) BY <2>4, EntriesSeq
    <3> QED BY <2>3, <3>1, AltRest, RestSeq DEF Good
  <2>6. button_mask \in SUBSET (0 .. 4) /\ button_mask' \in SUBSET (0 .. 4)
    BY <1>4, Irq12Step DEF IInv, BytesOK
  <2>7. Good(k \o es, button_mask') BY <2>1, <2>5, <2>6, EventsKeep
  <2> QED BY <2>4, <2>7
<1>5. CASE Enter \/ Empty \/ Copy BY <1>1, <1>5 DEF Enter, Empty, Copy, driver, ring
<1>6. CASE Drop
  <2>1. queue \in [Slots -> Event] /\ tail \in Slots /\ len \in 1 .. QueueSize
    BY <1>6, SizeNat DEF Drop, IInv, Critical, RingOK
  <2>2. Ring(queue, (tail + 1) % QueueSize, len - 1) = Tail(Ring(queue, tail, len)) BY <2>1, RingTail
  <2>3. Entries' = Tail(Entries) /\ button_mask' = button_mask
    BY <1>6, <2>2 DEF Drop, Entries, Ring
  <2>4. Entries \in Seq(Event) /\ Len(Entries) = len /\ Entries # <<>> BY <2>1, EntriesSeq, EmptySeq
  <2>5. Tail(Entries) = Rest(Entries, 1)
    <3>1. Tail(Entries) = SubSeq(Entries, 2, Len(Entries)) BY <2>4, TailIsSubSeq
    <3> QED BY <3>1, 1 + 1 = 2 DEF Rest
  <2>6. 1 \in 0 .. Len(Entries) BY <2>1, <2>4
  <2>7. Good(Rest(Entries, 1), button_mask) BY <2>4, <2>6, AltRest, RestSeq DEF Good
  <2> QED BY <2>3, <2>5, <2>7
<1>7. CASE UNCHANGED vars BY <1>1, <1>7 DEF vars, driver, ring
<1> QED BY <1>2, <1>3, <1>4, <1>5, <1>6, <1>7 DEF Next, GetMouseEvent

\* In the ring each button is pressed and released in turn, however packets were torn by
\* lost bytes and whatever was dropped to make room.
THEOREM MouseButtonsAlternate == ASSUME RoomForTwo PROVE Spec => []ButtonsAlternate
<1>1. Init => Good(Entries, button_mask)
  <2>1. SUFFICES ASSUME Init PROVE Good(Entries, button_mask) OBVIOUS
  <2>2. Entries \in Seq(Event) /\ Len(Entries) = 0 BY <2>1, InitIInv, EntriesSeq DEF Init
  <2>3. DOMAIN Entries = {} BY <2>2, LenProperties
  <2> QED BY <2>2, <2>3 DEF Good, Alternates
<1>2. IInv /\ Good(Entries, button_mask) /\ [Next]_vars => Good(Entries, button_mask)' BY NextAlternates
<1>3. IInv /\ Good(Entries, button_mask) => Alternates(Entries, button_mask) BY DEF Good
<1>4. TypeOK /\ Alternates(Entries, button_mask) => ButtonsAlternate BY DEF ButtonsAlternate
<1> QED BY <1>1, <1>2, <1>3, <1>4, MouseInvariant, MouseTypes, PTL DEF Spec

=============================================================================
