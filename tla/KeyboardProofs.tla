--------------------------- MODULE KeyboardProofs ---------------------------
(* The event ring of the keyboard, filled in the interrupt and emptied by      *)
(* ps2_get_key_event in the main thread, is a queue that drops its oldest      *)
(* events, for any number of slots.  Its events are those of the scan codes    *)
(* sent, cut out of the stream of bytes again, and the modifiers follow them.  *)
EXTENDS Ps2Keyboard, SequenceTheorems, FiniteSetTheorems, TLAPS

\* What the ring holds, oldest first, from the slot t on.
Ring(q, t, n) == [i \in 1 .. n |-> q[(t + i - 1) % QueueSize]]

\* The three indexes agree, and the slots hold events.
RingOK ==
  /\ queue \in [Slots -> Event \cup {NONE}]
  /\ head \in Slots /\ tail \in Slots /\ len \in 0 .. QueueSize
  /\ head = (tail + len) % QueueSize

\* Between the look at the ring and the way out of the critical section no interrupt comes,
\* and what was copied is the entry that will be dropped.
Critical ==
  /\ pc \in {"idle", "look", "drop"} /\ enabled \in BOOLEAN
  /\ pc # "idle" => ~enabled
  /\ pc = "drop" => len > 0 /\ out = queue[tail]

\* Bytes are those of scan codes, and the ones before the last are prefixes.
PrefixBytes == {"E0", "F0"}
WireBytes == Codes \cup PrefixBytes \cup {"OVR"}
BytesOK == wire \in Seq(WireBytes) /\ byte_buffer \in Seq(PrefixBytes) /\ modifiers \subseteq Modifiers

IInv == RingOK /\ Critical /\ BytesOK

-----------------------------------------------------------------------------
(* Indexes that wrap once, and the sequences they name *)

Wrapped(a) == IF a < QueueSize THEN a ELSE a - QueueSize

LEMMA Wraps ==
  ASSUME NEW a \in 0 .. 2 * QueueSize - 1
  PROVE  a % QueueSize = Wrapped(a)
BY QueueSizeAssumption DEF Wrapped

LEMMA Apart ==
  ASSUME NEW t \in Slots, NEW n \in 0 .. QueueSize - 1, NEW i \in 1 .. n
  PROVE  Wrapped(t + i - 1) # Wrapped(t + n)
BY QueueSizeAssumption DEF Wrapped, Slots

LEMMA InSlots == ASSUME NEW a \in Nat PROVE a % QueueSize \in Slots
BY QueueSizeAssumption DEF Slots

LEMMA RingSeq ==
  ASSUME NEW S, NEW q \in [Slots -> S], NEW t \in Slots, NEW n \in 0 .. QueueSize
  PROVE  /\ Ring(q, t, n) \in Seq(S) /\ Len(Ring(q, t, n)) = n
         /\ \A i \in 1 .. n : Ring(q, t, n)[i] = q[(t + i - 1) % QueueSize]
<1>1. n \in Nat /\ \A i \in 1 .. n : t + i - 1 \in Nat
  BY QueueSizeAssumption DEF Slots
<1>2. \A i \in 1 .. n : q[(t + i - 1) % QueueSize] \in S
  BY <1>1, InSlots
<1>3. Ring(q, t, n) \in [1 .. n -> S]
  BY <1>2 DEF Ring
<1>4. Ring(q, t, n) \in Seq(S)
  BY <1>1, <1>3, SeqDef
<1> QED
  BY <1>1, <1>3, <1>4, LenProperties DEF Ring

\* A new event in the slot after the last one is the last of the sequence.
LEMMA RingAppend ==
  ASSUME NEW S, NEW q \in [Slots -> S], NEW t \in Slots, NEW n \in 0 .. QueueSize - 1, NEW e \in S
  PROVE  Ring([q EXCEPT ![(t + n) % QueueSize] = e], t, n + 1) = Append(Ring(q, t, n), e)
<1> DEFINE r == [q EXCEPT ![(t + n) % QueueSize] = e]
<1>1. n \in Nat /\ n \in 0 .. QueueSize /\ n + 1 \in 0 .. QueueSize /\ t + n \in Nat
  BY QueueSizeAssumption DEF Slots
<1>2. r \in [Slots -> S] /\ r[(t + n) % QueueSize] = e
  BY <1>1, InSlots
<1>3. ASSUME NEW i \in 1 .. n PROVE r[(t + i - 1) % QueueSize] = q[(t + i - 1) % QueueSize]
  <2>1. t + i - 1 \in 0 .. 2 * QueueSize - 1 /\ t + n \in 0 .. 2 * QueueSize - 1
    BY QueueSizeAssumption DEF Slots
  <2>2. (t + i - 1) % QueueSize # (t + n) % QueueSize
    BY <2>1, Wraps, Apart
  <2>3. (t + i - 1) % QueueSize \in Slots
    BY <2>1, InSlots
  <2> QED
    BY <2>2, <2>3
<1> HIDE DEF r
<1>5. /\ Ring(r, t, n + 1) \in Seq(S) /\ Len(Ring(r, t, n + 1)) = n + 1
      /\ \A i \in 1 .. n + 1 : Ring(r, t, n + 1)[i] = r[(t + i - 1) % QueueSize]
  BY ZenonT(60), <1>1, <1>2, RingSeq
<1>6. /\ Ring(q, t, n) \in Seq(S) /\ Len(Ring(q, t, n)) = n
      /\ \A i \in 1 .. n : Ring(q, t, n)[i] = q[(t + i - 1) % QueueSize]
  BY ZenonT(60), <1>1, RingSeq
<1>4. \A i \in 1 .. n + 1 : i \in 1 .. n \/ i = n + 1
  BY <1>1
<1>7. /\ Append(Ring(q, t, n), e) \in Seq(S) /\ Len(Append(Ring(q, t, n), e)) = n + 1
      /\ \A i \in 1 .. n : Append(Ring(q, t, n), e)[i] = Ring(q, t, n)[i]
      /\ Append(Ring(q, t, n), e)[n + 1] = e
  BY <1>1, <1>6, AppendProperties
<1>8. ASSUME NEW i \in 1 .. n + 1 PROVE Ring(r, t, n + 1)[i] = Append(Ring(q, t, n), e)[i]
  <2>1. CASE i = n + 1
    <3>1. t + (n + 1) - 1 = t + n
      BY <1>1 DEF Slots
    <3>2. Ring(r, t, n + 1)[n + 1] = r[(t + (n + 1) - 1) % QueueSize]
      BY <1>5, <2>1
    <3> QED
      BY <1>2, <1>7, <2>1, <3>1, <3>2
  <2>2. CASE i \in 1 .. n
    <3>1. Ring(r, t, n + 1)[i] = r[(t + i - 1) % QueueSize]
      BY <1>5
    <3> QED
      BY <1>3, <1>6, <1>7, <2>2, <3>1
  <2> QED
    BY <1>4, <2>1, <2>2
<1> QED
  BY <1>5, <1>7, <1>8, SeqEqual DEF r

\* The slot t is the head of the sequence, and what begins one slot later is the tail.
LEMMA RingTail ==
  ASSUME NEW S, NEW q \in [Slots -> S], NEW t \in Slots, NEW n \in 1 .. QueueSize
  PROVE  /\ Ring(q, t, n) # <<>> /\ Head(Ring(q, t, n)) = q[t]
         /\ Ring(q, (t + 1) % QueueSize, n - 1) = Tail(Ring(q, t, n))
<1> DEFINE s == (t + 1) % QueueSize
<1>1. n \in 0 .. QueueSize /\ n - 1 \in 0 .. QueueSize /\ n \in Nat /\ t \in Nat /\ t + 1 \in Nat
  BY QueueSizeAssumption DEF Slots
<1>9. s \in Slots
  BY <1>1, InSlots
<1>2. /\ Ring(q, t, n) \in Seq(S) /\ Len(Ring(q, t, n)) = n
      /\ \A i \in 1 .. n : Ring(q, t, n)[i] = q[(t + i - 1) % QueueSize]
  BY ZenonT(60), <1>1, RingSeq
<1>3. Ring(q, t, n) # <<>>
  BY <1>2, EmptySeq
<1>4. ASSUME NEW i \in 1 .. n - 1
      PROVE  (s + i - 1) % QueueSize = (t + (i + 1) - 1) % QueueSize
  <2>1. t + 1 \in 0 .. 2 * QueueSize - 1 /\ t + (i + 1) - 1 \in 0 .. 2 * QueueSize - 1
    BY <1>1, QueueSizeAssumption DEF Slots
  <2>2. s = Wrapped(t + 1)
    BY <2>1, Wraps
  <2> HIDE DEF s
  <2>3. s + i - 1 \in 0 .. 2 * QueueSize - 1
    BY <1>1, <2>2, QueueSizeAssumption DEF Slots, Wrapped
  <2>4. (s + i - 1) % QueueSize = Wrapped(s + i - 1)
    BY <2>3, Wraps
  <2>5. (t + (i + 1) - 1) % QueueSize = Wrapped(t + (i + 1) - 1)
    BY <2>1, Wraps
  <2>6. Wrapped(Wrapped(t + 1) + i - 1) = Wrapped(t + (i + 1) - 1)
    BY <1>1, QueueSizeAssumption DEF Slots, Wrapped
  <2> QED
    BY <2>2, <2>4, <2>5, <2>6
<1> HIDE DEF s
<1>5. /\ Ring(q, s, n - 1) \in Seq(S) /\ Len(Ring(q, s, n - 1)) = n - 1
      /\ \A i \in 1 .. n - 1 : Ring(q, s, n - 1)[i] = q[(s + i - 1) % QueueSize]
  BY ZenonT(60), <1>1, <1>9, RingSeq
<1>6. /\ Tail(Ring(q, t, n)) \in Seq(S) /\ Len(Tail(Ring(q, t, n))) = n - 1
      /\ \A i \in 1 .. n - 1 : Tail(Ring(q, t, n))[i] = Ring(q, t, n)[i + 1]
  BY <1>1, <1>2, <1>3, HeadTailProperties
<1>7. Ring(q, s, n - 1) = Tail(Ring(q, t, n))
  <2>1. ASSUME NEW i \in 1 .. n - 1 PROVE Ring(q, s, n - 1)[i] = Tail(Ring(q, t, n))[i]
    <3>1. i + 1 \in 1 .. n
      BY <1>1
    <3>2. Ring(q, t, n)[i + 1] = q[(t + (i + 1) - 1) % QueueSize]
      BY <1>2, <3>1
    <3> QED
      BY <1>4, <1>5, <1>6, <3>2
  <2> QED
    BY <1>5, <1>6, <2>1, SeqEqual
<1>8. Head(Ring(q, t, n)) = q[t]
  <2>1. Head(Ring(q, t, n)) = Ring(q, t, n)[1]
    BY <1>2, <1>3, HeadTailProperties
  <2>2. (t + 1 - 1) % QueueSize = t
    <3>1. t + 1 - 1 = t /\ t \in 0 .. 2 * QueueSize - 1 /\ Wrapped(t) = t
      BY QueueSizeAssumption DEF Slots, Wrapped
    <3> QED
      BY <3>1, Wraps
  <2> QED
    BY <1>1, <1>2, <2>1, <2>2
<1> QED
  BY <1>3, <1>7, <1>8 DEF s

\* What was there before an element came to the end of a sequence.
LEMMA SubSeqAppend ==
  ASSUME NEW S, NEW s \in Seq(S), NEW e \in S
  PROVE  SubSeq(Append(s, e), 1, Len(s)) = s
<1>1. /\ Append(s, e) \in Seq(S) /\ Len(Append(s, e)) = Len(s) + 1 /\ Len(s) \in Nat
      /\ \A i \in 1 .. Len(s) : Append(s, e)[i] = s[i] /\ s[i] \in S
  BY AppendProperties, LenProperties, ElementOfSeq
<1> DEFINE n == Len(s)
           a == Append(s, e)
<1> HIDE DEF a
<1>2. \A i \in 1 .. n : a[i] \in S
  BY <1>1 DEF a
<1> HIDE DEF n
<1>3. n \in Nat
  BY <1>1 DEF n
<1>4. /\ SubSeq(a, 1, n) \in Seq(S) /\ Len(SubSeq(a, 1, n)) = n
      /\ \A i \in 1 .. n : SubSeq(a, 1, n)[i] = a[i]
  BY <1>2, <1>3, SubSeqProperties
<1> QED
  BY <1>1, <1>4, SeqEqual DEF a, n

-----------------------------------------------------------------------------
(* The invariant *)

LEMMA InitIInv == Init => IInv
<1> SUFFICES ASSUME Init PROVE IInv
  OBVIOUS
<1>2. RingOK
  <2>1. (0 + 0) % QueueSize = 0 /\ 0 \in Slots /\ 0 \in 0 .. QueueSize
    BY QueueSizeAssumption DEF Slots
  <2> QED
    BY <2>1 DEF Init, RingOK
<1>3. Critical /\ BytesOK
  BY DEF Init, Critical, BytesOK, Modifiers
<1> QED
  BY <1>2, <1>3 DEF IInv

\* The keyboard touches its wire only.
LEMMA KeyStep ==
  ASSUME IInv, NEW k \in Keys, NEW released \in BOOLEAN, Key(k, released)
  PROVE  IInv' /\ UNCHANGED <<queue, tail, len, pc, out>>
<1> DEFINE c == [ext |-> k.ext, code |-> k.code, released |-> released]
<1> DEFINE item == IF Len(wire) + Len(Bytes(c)) <= WireSize THEN c ELSE OVR
<1>1. c.code \in WireBytes /\ OVR.code \in WireBytes
  BY DEF OVR, WireBytes, Codes
<1>2. ASSUME NEW d \in {c, OVR} PROVE Bytes(d) \in Seq(WireBytes)
  <2>1. <<>> \in Seq(WireBytes) /\ <<"E0">> \in Seq(WireBytes) /\ <<"F0">> \in Seq(WireBytes)
    BY DEF WireBytes, PrefixBytes
  <2>2. <<d.code>> \in Seq(WireBytes)
    BY <1>1
  <2> QED
    BY <2>1, <2>2 DEF Bytes
<1>3. wire' = wire \/ wire' = wire \o Bytes(item)
  BY DEF Key
<1>4. item \in {c, OVR}
  OBVIOUS
<1> HIDE DEF item, c
<1>5. wire' \in Seq(WireBytes)
  BY <1>2, <1>3, <1>4, ConcatProperties DEF IInv, BytesOK
<1>6. UNCHANGED <<driver, main>>
  BY DEF Key
<1> QED
  BY <1>5, <1>6 DEF IInv, RingOK, Critical, BytesOK, driver, main

\* What is left of a sequence of one element without what came before is its last element.
LEMMA LastOfTail ==
  ASSUME NEW S, NEW s \in Seq(S), s # <<>>
  PROVE  /\ Tail(s) \in Seq(S) /\ Len(Tail(s)) = Len(s) - 1
         /\ Tail(s) # <<>> => Tail(s)[Len(Tail(s))] = s[Len(s)]
<1>1. Tail(s) \in Seq(S) /\ Len(Tail(s)) = Len(s) - 1
  BY HeadTailProperties
<1>2. ASSUME Tail(s) # <<>> PROVE Tail(s)[Len(Tail(s))] = s[Len(s)]
  <2>1. Len(Tail(s)) \in Nat \ {0} /\ Len(s) \in Nat
    BY <1>1, <1>2, EmptySeq, LenProperties
  <2>2. Tail(s)[Len(Tail(s))] = s[Len(Tail(s)) + 1]
    <3> DEFINE m == Len(Tail(s))
    <3> HIDE DEF m
    <3>1. m \in Nat \ {0} => m \in 1 .. m
      OBVIOUS
    <3> QED
      BY <2>1, <3>1, HeadTailProperties DEF m
  <2> QED
    BY <1>1, <2>1, <2>2
<1> QED
  BY <1>1, <1>2

\* A scan code makes an event of its key, named by its last byte, and of the modifiers, and
\* leaves the modifiers some of theirs.
LEMMA DecodeType ==
  ASSUME IInv, NEW buf \in Seq(WireBytes), buf # <<>>, buf[Len(buf)] \in Codes, Decode(buf)
  PROVE  /\ modifiers' \subseteq Modifiers
         /\ \/ UNCHANGED <<queue, head, tail, len>>
            \/ \E event \in Event : Enqueue(event)
<1> DEFINE extended == buf[1] = "E0"
           rest == IF extended THEN Tail(buf) ELSE buf
           released == rest # <<>> /\ rest[1] = "F0"
           code == IF released THEN Tail(rest) ELSE rest
           mods == modifiers \cup (IF released THEN {"RELEASED"} ELSE {})
           key == Keymap(extended, "SHIFT" \in mods, code[1])
<1>1. rest \in Seq(WireBytes) /\ (rest # <<>> => rest[Len(rest)] = buf[Len(buf)])
  BY LastOfTail
<1>2. code \in Seq(WireBytes) /\ (code # <<>> => code[Len(code)] = buf[Len(buf)])
  <2> HIDE DEF rest
  <2> QED
    BY <1>1, LastOfTail
<1>3. CASE Len(code) # 1
  BY <1>3 DEF Decode, IInv, BytesOK
<1>4. CASE Len(code) = 1
  <2>1. code[1] \in Codes
    <3> HIDE DEF code
    <3>1. code # <<>>
      BY SMTT(60), <1>4
    <3> QED
      BY <1>2, <1>4, <3>1
  <2>2. ASSUME NEW k \in Codes, NEW e \in BOOLEAN, NEW s \in BOOLEAN
        PROVE  Keymap(e, s, k) \in Codes \cup KeyNames
    BY <2>2 DEF Keymap, KeyNames
  <2>3. mods \in EventMods
    BY DEF IInv, BytesOK, EventMods
  <2>4. Enqueue([key |-> key, modifiers |-> mods]) /\ modifiers' = NewModifiers(key, released)
    BY <1>4 DEF Decode
  <2>5. [key |-> key, modifiers |-> mods] \in Event
    <3>1. extended \in BOOLEAN /\ ("SHIFT" \in mods) \in BOOLEAN
      OBVIOUS
    <3> HIDE DEF code, extended, mods
    <3> QED
      BY <2>1, <2>2, <2>3, <3>1 DEF Event
  <2> HIDE DEF key, mods, released
  <2>6. NewModifiers(key, released) \subseteq Modifiers
    BY DEF NewModifiers, IInv, BytesOK, Modifiers
  <2> QED
    BY <2>4, <2>5, <2>6
<1> HIDE DEF code
<1> QED
  BY <1>3, <1>4

\* Enqueue keeps the indexes in step, whether the ring has room or not.
LEMMA EnqueueKeeps ==
  ASSUME IInv, NEW event \in Event, Enqueue(event)
  PROVE  RingOK'
<1>1. queue' \in [Slots -> Event \cup {NONE}]
  BY DEF Enqueue, IInv, RingOK
<1>2. head \in Nat /\ tail \in Nat /\ len \in Nat /\ head + 1 \in Nat /\ tail + 1 \in Nat
  BY QueueSizeAssumption DEF IInv, RingOK, Slots
<1>3. head' \in Slots /\ tail' \in Slots
  BY <1>2, InSlots DEF Enqueue, IInv, RingOK
<1>4. len' \in 0 .. QueueSize
  BY QueueSizeAssumption DEF Enqueue, IInv, RingOK
<1>5. head' = (tail' + len') % QueueSize
  <2>0. tail + len \in 0 .. 2 * QueueSize - 1 /\ head + 1 \in 0 .. 2 * QueueSize - 1
    BY QueueSizeAssumption DEF IInv, RingOK, Slots
  <2>1. head = Wrapped(tail + len) /\ head + 1 \in 0 .. 2 * QueueSize - 1
    BY <2>0, Wraps DEF IInv, RingOK
  <2>2. head' = Wrapped(head + 1)
    BY <2>1, Wraps DEF Enqueue
  <2>3. CASE len >= QueueSize
    <3>1. len = QueueSize /\ len' = len /\ tail + 1 \in 0 .. 2 * QueueSize - 1
      BY <1>2, <2>3, QueueSizeAssumption DEF Enqueue, IInv, RingOK, Slots
    <3>2. tail' = Wrapped(tail + 1)
      BY <2>3, <3>1, Wraps DEF Enqueue
    <3>3. tail' + len' \in 0 .. 2 * QueueSize - 1
      BY <1>3, <3>1, QueueSizeAssumption DEF Slots
    <3>4. (tail' + len') % QueueSize = Wrapped(tail' + len')
      BY <3>3, Wraps
    <3>5. Wrapped(tail' + len') = Wrapped(head + 1)
      BY <1>2, <2>1, <3>1, <3>2, QueueSizeAssumption DEF Wrapped, IInv, RingOK, Slots
    <3> QED
      BY <2>2, <3>4, <3>5
  <2>4. CASE len < QueueSize
    <3>1. len' = len + 1 /\ tail' = tail
      BY <1>2, <2>4, QueueSizeAssumption DEF Enqueue
    <3>2. tail' + len' \in 0 .. 2 * QueueSize - 1
      BY <1>2, <2>4, <3>1, QueueSizeAssumption DEF IInv, RingOK, Slots
    <3>3. (tail' + len') % QueueSize = Wrapped(tail' + len')
      BY <3>2, Wraps
    <3>4. Wrapped(tail' + len') = Wrapped(head + 1)
      BY <1>2, <2>1, <2>4, <3>1, QueueSizeAssumption DEF Wrapped, IInv, RingOK, Slots
    <3> QED
      BY <2>2, <3>3, <3>4
  <2> QED
    BY <1>2, <2>3, <2>4, QueueSizeAssumption
<1> QED
  BY <1>1, <1>3, <1>4, <1>5 DEF RingOK

\* The handler, which runs between two calls of ps2_get_key_event only.
LEMMA Irq1Step ==
  ASSUME IInv, Irq1
  PROVE  /\ IInv' /\ pc = "idle" /\ UNCHANGED <<pc, out>>
         /\ UNCHANGED <<queue, head, tail, len>> \/ \E event \in Event : Enqueue(event)
<1> DEFINE byte == Head(wire)
           buf == Append(byte_buffer, byte)
<1>1. pc = "idle" /\ UNCHANGED <<pc, out, enabled>>
  BY DEF Irq1, IInv, Critical, main
<1>2. byte \in WireBytes /\ wire' \in Seq(WireBytes) /\ NewByte(byte)
  BY HeadTailProperties DEF Irq1, IInv, BytesOK
<1>3. byte_buffer \in Seq(WireBytes)
  BY SeqMonotonic DEF IInv, BytesOK, WireBytes
<1> HIDE DEF byte
<1>4. buf \in Seq(WireBytes) /\ buf # <<>> /\ buf[Len(buf)] = byte
  BY <1>2, <1>3, AppendProperties
<1>5. CASE Prefix(byte)
  <2>1. byte_buffer' = buf /\ UNCHANGED <<queue, head, tail, len, modifiers>>
    BY <1>2, <1>5 DEF NewByte
  <2>2. buf \in Seq(PrefixBytes)
    BY <1>5, AppendProperties DEF Prefix, PrefixBytes, IInv, BytesOK
  <2> HIDE DEF buf
  <2> QED
    BY <1>1, <1>2, <2>1, <2>2 DEF IInv, RingOK, Critical, BytesOK
<1>6. CASE ~Prefix(byte) /\ (byte = "OVR" \/ Len(buf) > 3)
  <2>1. byte_buffer' = <<>> /\ UNCHANGED <<queue, head, tail, len, modifiers>>
    BY <1>2, <1>6 DEF NewByte
  <2> QED
    BY <1>1, <1>2, <2>1 DEF IInv, RingOK, Critical, BytesOK
<1>7. CASE ~Prefix(byte) /\ ~(byte = "OVR" \/ Len(buf) > 3)
  <2>1. byte_buffer' = <<>> /\ Decode(buf)
    BY <1>2, <1>7 DEF NewByte
  <2>2. byte \in Codes
    BY <1>2, <1>7 DEF WireBytes, Prefix, PrefixBytes
  <2> HIDE DEF buf
  <2>3. /\ modifiers' \subseteq Modifiers
        /\ UNCHANGED <<queue, head, tail, len>> \/ \E event \in Event : Enqueue(event)
    BY <1>4, <2>1, <2>2, DecodeType
  <2>4. RingOK'
    BY <2>3, EnqueueKeeps DEF IInv, RingOK
  <2>5. byte_buffer' \in Seq(PrefixBytes)
    BY <2>1
  <2> QED
    BY <1>1, <1>2, <2>3, <2>4, <2>5 DEF IInv, Critical, BytesOK
<1> QED
  BY <1>5, <1>6, <1>7

\* The entry that was copied leaves the ring, and the indexes stay in step.
LEMMA DropStep == ASSUME IInv, Drop PROVE IInv'
<1>1. /\ queue \in [Slots -> Event \cup {NONE}] /\ tail \in Slots /\ len \in 1 .. QueueSize
      /\ head = (tail + len) % QueueSize /\ head \in Slots
  BY QueueSizeAssumption DEF IInv, RingOK, Critical, Drop
<1>2. tail' = Wrapped(tail + 1) /\ tail' \in Slots
  <2>1. tail + 1 \in 0 .. 2 * QueueSize - 1
    BY <1>1, QueueSizeAssumption DEF Slots
  <2>2. tail' = Wrapped(tail + 1)
    BY <2>1, Wraps DEF Drop
  <2> QED
    BY <1>1, <2>2, QueueSizeAssumption DEF Slots, Wrapped
<1>3. len' = len - 1 /\ head' = head /\ queue' = queue
  BY DEF Drop
<1>4. head = Wrapped(tail + len)
  BY <1>1, Wraps, QueueSizeAssumption DEF Slots
<1>5. tail' + len' \in 0 .. 2 * QueueSize - 1 /\ Wrapped(tail' + len') = Wrapped(tail + len)
  BY <1>1, <1>2, <1>3, QueueSizeAssumption DEF Wrapped, Slots
<1>6. head' = (tail' + len') % QueueSize
  BY <1>3, <1>4, <1>5, Wraps
<1>7. RingOK'
  BY <1>1, <1>2, <1>3, <1>6, QueueSizeAssumption DEF RingOK
<1> QED
  BY <1>7 DEF Drop, IInv, Critical, BytesOK

LEMMA GetStep == ASSUME IInv, Enter \/ Empty \/ Copy PROVE IInv'
<1>1. UNCHANGED <<wire, driver>>
  BY DEF Enter, Empty, Copy
<1>2. RingOK' /\ BytesOK'
  BY <1>1 DEF IInv, RingOK, BytesOK, driver
<1>3. Critical'
  <2>1. CASE Enter
    BY <2>1, <1>1 DEF Enter, EnterCritical, IInv, Critical, driver
  <2>2. CASE Empty
    BY <2>2, <1>1 DEF Empty, LeaveEmpty, IInv, Critical, driver
  <2>3. CASE Copy
    BY <2>3, <1>1, QueueSizeAssumption DEF Copy, IInv, RingOK, Critical, driver
  <2> QED
    BY <2>1, <2>2, <2>3
<1> QED
  BY <1>2, <1>3 DEF IInv

LEMMA NextIInv == IInv /\ [Next]_vars => IInv'
<1> SUFFICES ASSUME IInv, [Next]_vars PROVE IInv'
  OBVIOUS
<1>1. CASE \E k \in Keys, released \in BOOLEAN : Key(k, released)
  BY <1>1, KeyStep
<1>2. CASE Irq1
  BY <1>2, Irq1Step
<1>3. CASE GetKeyEvent
  BY <1>3, DropStep, GetStep DEF GetKeyEvent
<1>4. CASE UNCHANGED vars
  BY <1>4 DEF vars, driver, main, IInv, RingOK, Critical, BytesOK
<1> QED
  BY <1>1, <1>2, <1>3, <1>4 DEF Next

\* The indexes agree whenever anybody looks, whatever the interrupt does in between.
THEOREM KeyboardInvariant == Spec => []IInv
BY InitIInv, NextIInv, PTL DEF Spec

-----------------------------------------------------------------------------
(* The refinement *)

\* What the reader may still get: an entry that was copied is no longer in the queue.
Queued == IF pc = "drop" THEN Tail(Entries) ELSE Entries

LEMMA EntriesRing == Entries = Ring(queue, tail, len)
BY DEF Entries, Ring

LEMMA InitIsInit == Init => Abstract!Init
<1> SUFFICES ASSUME Init PROVE Abstract!Init
  OBVIOUS
<1>1. IInv
  BY InitIInv
<1>2. Entries \in Seq(Event \cup {NONE}) /\ Len(Entries) = 0
  <2>1. queue \in [Slots -> Event \cup {NONE}] /\ tail \in Slots /\ len \in 0 .. QueueSize
    BY <1>1 DEF IInv, RingOK
  <2>2. Entries \in Seq(Event \cup {NONE}) /\ Len(Entries) = len
    BY <2>1, RingSeq, EntriesRing
  <2> QED
    BY <2>2 DEF Init
<1>3. Entries = <<>>
  BY <1>2
<1> QED
  BY <1>3 DEF Init, Abstract!Init

\* With room the event comes after the others; without, the oldest goes.
LEMMA EnqueueArrives ==
  ASSUME IInv, pc = "idle", UNCHANGED <<pc, out>>, NEW event \in Event, Enqueue(event)
  PROVE  Abstract!Arrive
<1> DEFINE S == Event \cup {NONE}
           q == Ring(queue, tail, len)
           kept == IF Len(q) + 1 > QueueSize THEN SubSeq(q, 1 + 1, Len(q)) ELSE q
<1>1. /\ queue \in [Slots -> S] /\ tail \in Slots /\ len \in 0 .. QueueSize /\ head = (tail + len) % QueueSize
      /\ event \in S
  BY DEF IInv, RingOK
<1>2. q \in Seq(S) /\ Len(q) = len
  BY <1>1, RingSeq
<1>3. Ring(queue', tail', len') = Append(kept, event) /\ kept \in Seq(S)
  <2>1. CASE len = QueueSize
    <3> DEFINE t == (tail + 1) % QueueSize
    <3>1. len \in 1 .. QueueSize /\ len - 1 \in 0 .. QueueSize - 1 /\ q # <<>>
      BY <1>1, <1>2, <2>1, QueueSizeAssumption
    <3>2. Ring(queue, t, len - 1) = Tail(q)
      BY <1>1, <3>1, RingTail
    <3>3. t \in Slots /\ t = Wrapped(tail + 1)
      <4>1. tail + 1 \in Nat /\ tail + 1 \in 0 .. 2 * QueueSize - 1
        BY <1>1, QueueSizeAssumption DEF Slots
      <4> QED
        BY <4>1, InSlots, Wraps
    <3>4. tail' = t /\ len' = len /\ queue' = [queue EXCEPT ![head] = event]
      BY <1>1, <2>1, QueueSizeAssumption DEF Enqueue
    <3> HIDE DEF t
    <3>5. head = (t + (len - 1)) % QueueSize
      <4>1. /\ tail + len \in 0 .. 2 * QueueSize - 1 /\ t + (len - 1) \in 0 .. 2 * QueueSize - 1
        BY <1>1, <3>1, <3>3, QueueSizeAssumption DEF Slots
      <4>2. Wrapped(tail + len) = Wrapped(t + (len - 1))
        BY <1>1, <2>1, <3>3, QueueSizeAssumption DEF Slots, Wrapped
      <4> QED
        BY <1>1, <4>1, <4>2, Wraps
    <3>6. Ring(queue', t, (len - 1) + 1) = Append(Ring(queue, t, len - 1), event)
      <4> DEFINE n == len - 1
      <4>1. n \in 0 .. QueueSize - 1
        BY <3>1
      <4>2. queue \in [Slots -> Event \cup {NONE}] /\ t \in Slots /\ event \in Event \cup {NONE}
        BY <1>1, <3>3
      <4> HIDE DEF n, S, q, kept
      <4>3. Ring([queue EXCEPT ![(t + n) % QueueSize] = event], t, n + 1) = Append(Ring(queue, t, n), event)
        BY <4>1, <4>2, RingAppend
      <4> QED
        BY <3>4, <3>5, <4>3 DEF n
    <3>7. kept = Tail(q)
      <4>1. Tail(q) = SubSeq(q, 2, Len(q))
        BY <1>2, <3>1, TailIsSubSeq
      <4>2. Len(q) + 1 > QueueSize
        BY <1>2, <2>1, QueueSizeAssumption
      <4> QED
        BY <4>1, <4>2
    <3>8. kept \in Seq(S) /\ (len - 1) + 1 = len
      BY <1>1, <1>2, <3>1, <3>7, HeadTailProperties
    <3> HIDE DEF q, kept
    <3> QED
      BY <3>2, <3>4, <3>6, <3>7, <3>8
  <2>2. CASE len # QueueSize
    <3>1. len \in 0 .. QueueSize - 1 /\ ~(Len(q) + 1 > QueueSize)
      BY <1>1, <1>2, <2>2, QueueSizeAssumption
    <3>2. kept = q
      BY <3>1
    <3>3. tail' = tail /\ len' = len + 1 /\ queue' = [queue EXCEPT ![(tail + len) % QueueSize] = event]
      BY <1>1, <3>1, QueueSizeAssumption DEF Enqueue
    <3>4. Ring([queue EXCEPT ![(tail + len) % QueueSize] = event], tail, len + 1) = Append(q, event)
      BY ZenonT(60), <1>1, <3>1, RingAppend
    <3> QED
      BY <1>2, <3>2, <3>3, <3>4
  <2> QED
    BY <2>1, <2>2
<1> HIDE DEF kept
<1>4. /\ Len(Append(kept, event)) = Len(kept) + 1 /\ Len(kept) \in Nat
      /\ SubSeq(Append(kept, event), 1, Len(kept)) = kept
      /\ Append(kept, event)[Len(kept) + 1] = event
  <2>1. Append(kept, event) \in Seq(S) /\ Len(Append(kept, event)) = Len(kept) + 1 /\ Len(kept) \in Nat
        /\ \A i \in 1 .. Len(kept) : Append(kept, event)[i] = kept[i]
        /\ Append(kept, event)[Len(kept) + 1] = event
    BY <1>1, <1>3, AppendProperties, LenProperties
  <2>2. SubSeq(Append(kept, event), 1, Len(kept)) = kept
    BY <1>1, <1>3, AppendIsConcat, SubSeqAppend
  <2> QED
    BY <2>1, <2>2
<1>5. Queued = q /\ Queued' = Append(kept, event)
  BY <1>3, EntriesRing DEF Queued, Entries, Ring
<1> QED
  BY <1>4, <1>5 DEF Abstract!Arrive, Queued, kept

\* Copying takes the oldest entry; dropping it afterwards is nothing to the reader.
LEMMA ReaderStep ==
  ASSUME IInv, GetKeyEvent
  PROVE  Abstract!Get \/ Abstract!GetNone \/ UNCHANGED <<Queued, out>>
<1> DEFINE S == Event \cup {NONE}
<1>1. queue \in [Slots -> S] /\ tail \in Slots /\ len \in 0 .. QueueSize
  BY DEF IInv, RingOK
<1>2. Entries \in Seq(S) /\ Len(Entries) = len
  BY <1>1, RingSeq, EntriesRing
<1>3. CASE Enter
  BY <1>3 DEF Enter, EnterCritical, driver, Queued, Entries
<1>4. CASE Empty
  <2>1. Entries = <<>> /\ Queued = Entries
    BY <1>2, <1>4 DEF Empty, Queued
  <2>2. Entries' = Entries /\ Queued' = Entries /\ out' = NONE
    BY <1>4 DEF Empty, driver, Queued, Entries
  <2> QED
    BY <2>1, <2>2 DEF Abstract!GetNone, Queued
<1>5. CASE Copy
  <2>1. len \in 1 .. QueueSize
    BY <1>1, <1>5, QueueSizeAssumption DEF Copy
  <2>2. Entries # <<>> /\ Head(Entries) = queue[tail]
    BY <1>1, <2>1, RingTail, EntriesRing
  <2>3. Queued = Entries /\ Queued' = Tail(Entries) /\ out' = Head(Entries)
    BY <1>5, <2>2 DEF Copy, driver, Queued, Entries
  <2> QED
    BY <2>2, <2>3 DEF Abstract!Get, Queued
<1>6. CASE Drop
  <2>1. len \in 1 .. QueueSize
    BY <1>1, <1>6, QueueSizeAssumption DEF Drop, IInv, Critical
  <2>2. Ring(queue, (tail + 1) % QueueSize, len - 1) = Tail(Ring(queue, tail, len))
    BY <1>1, <2>1, RingTail
  <2>3. Queued = Tail(Ring(queue, tail, len)) /\ Queued' = Ring(queue', tail', len')
    BY <1>6 DEF Drop, Queued, Entries, Ring
  <2> QED
    BY <1>6, <2>2, <2>3 DEF Drop
<1> QED
  BY <1>3, <1>4, <1>5, <1>6 DEF GetKeyEvent

LEMMA StepIsStep ==
  ASSUME IInv, [Next]_vars
  PROVE  [Abstract!Next]_<<Queued, out>>
<1>1. ASSUME UNCHANGED <<queue, tail, len, pc, out>> PROVE UNCHANGED <<Queued, out>>
  BY <1>1 DEF Queued, Entries
<1>2. CASE \E k \in Keys, released \in BOOLEAN : Key(k, released)
  BY <1>1, <1>2, KeyStep
<1>3. CASE Irq1
  BY <1>1, <1>3, Irq1Step, EnqueueArrives DEF Abstract!Next
<1>4. CASE GetKeyEvent
  BY <1>4, ReaderStep DEF Abstract!Next
<1>5. CASE UNCHANGED vars
  BY <1>1, <1>5 DEF vars, driver, main
<1> QED
  BY <1>2, <1>3, <1>4, <1>5 DEF Next

\* Whenever the interrupt comes, in between the steps of ps2_get_key_event too: its caller
\* reads events whole, once, in order, and loses only the oldest.
THEOREM KeyboardImplementsQueue == Spec => ImplementsQueue
<1>1. Init => Abstract!Init
  BY InitIsInit
<1>2. IInv /\ [Next]_vars => [Abstract!Next]_<<Queued, out>>
  BY StepIsStep
<1> QED
  BY <1>1, <1>2, KeyboardInvariant, PTL DEF Spec, ImplementsQueue, Abstract!Spec, Queued
-----------------------------------------------------------------------------
(* The scan codes on the way *)

ScanCode == [ext : BOOLEAN, code : Codes, released : BOOLEAN]
Items == ScanCode \cup {OVR}

\* Byte j of those not handled yet, gathered or on the wire.
ByteAt(b, w, j) == IF j <= Len(b) THEN b[j] ELSE w[j - Len(b)]

\* The bytes gathered in b and those on the wire w are the scan codes of s behind the d-th:
\* the i-th of them ends at byte pos[i].
Cut(b, w, s, d, pos) ==
  /\ pos \in [Nat -> Nat] /\ pos[d] = 0 /\ pos[Len(s)] = Len(b) + Len(w)
  /\ \A i, k \in d .. Len(s) : i <= k => pos[i] <= pos[k]
  /\ \A i \in d + 1 .. Len(s) :
       /\ pos[i] = pos[i - 1] + Len(Bytes(s[i]))
       /\ \A j \in 1 .. Len(Bytes(s[i])) : ByteAt(b, w, pos[i - 1] + j) = Bytes(s[i])[j]

\* What was sent is on the way, scan code by scan code, and byte_buffer ends inside the first.
Parsed ==
  /\ sent \in Seq(Items) /\ done \in 0 .. Len(sent)
  /\ done < Len(sent) => Len(byte_buffer) < Len(Bytes(sent[done + 1]))
  /\ \E pos : Cut(byte_buffer, wire, sent, done, pos)

\* No code is a prefix, an overrun or the name of a key.
LEMMA CodesApart == Codes \cap ({"E0", "F0", "OVR"} \cup KeyNames) = {}
BY KeysAssumption DEF Codes

\* A scan code is one to three bytes: prefixes, and then the code, which is none.
LEMMA BytesOf ==
  ASSUME NEW c \in Items
  PROVE  /\ Bytes(c) \in Seq(WireBytes) /\ Len(Bytes(c)) \in 1 .. 3
         /\ \A j \in 1 .. Len(Bytes(c)) - 1 : Bytes(c)[j] \in PrefixBytes
         /\ Bytes(c)[Len(Bytes(c))] = c.code /\ c.code \notin PrefixBytes
         /\ c.code \in WireBytes /\ (c.code = "OVR" <=> c = OVR)
<1>1. c.ext \in BOOLEAN /\ c.released \in BOOLEAN /\ c.code \in Codes \cup {"OVR"}
  <2>1. CASE c \in ScanCode
    BY <2>1 DEF ScanCode
  <2>2. CASE c = OVR
    BY <2>2 DEF OVR
  <2> QED
    BY <2>1, <2>2 DEF Items
<1>2. c.code \notin PrefixBytes /\ (c.code = "OVR" <=> c = OVR)
  BY CodesApart DEF Items, ScanCode, OVR, PrefixBytes
<1> DEFINE x == IF c.ext THEN <<"E0">> ELSE <<>>
           y == IF c.released THEN <<"F0">> ELSE <<>>
<1>3. x \in Seq(PrefixBytes) /\ Len(x) \in 0 .. 1 /\ y \in Seq(PrefixBytes) /\ Len(y) \in 0 .. 1
  <2>1. <<>> \in Seq(PrefixBytes) /\ <<"E0">> \in Seq(PrefixBytes) /\ <<"F0">> \in Seq(PrefixBytes)
    BY DEF PrefixBytes
  <2>2. Len(<<>>) = 0 /\ Len(<<"E0">>) = 1 /\ Len(<<"F0">>) = 1
    OBVIOUS
  <2>3. x \in {<<>>, <<"E0">>} /\ y \in {<<>>, <<"F0">>}
    OBVIOUS
  <2> HIDE DEF x, y
  <2>4. 0 \in 0 .. 1 /\ 1 \in 0 .. 1
    OBVIOUS
  <2> QED
    BY <2>1, <2>2, <2>3, <2>4, Zenon
<1> DEFINE p == x \o y
<1>4. Bytes(c) = p \o <<c.code>>
  BY DEF Bytes
<1> HIDE DEF x, y
<1>5. p \in Seq(PrefixBytes) /\ Len(p) \in 0 .. 2
  <2>1. p \in Seq(PrefixBytes) /\ Len(p) = Len(x) + Len(y)
    BY <1>3, ConcatProperties
  <2>2. \A l, m \in 0 .. 1 : l + m \in 0 .. 2
    OBVIOUS
  <2> QED
    BY <1>3, <2>1, <2>2, Zenon
<1> HIDE DEF p
<1>6. c.code \in WireBytes /\ p \in Seq(WireBytes)
  BY <1>1, <1>5, SeqMonotonic DEF WireBytes
<1>7. Bytes(c) = Append(p, c.code)
  BY <1>4, <1>6, AppendIsConcat
<1>8. /\ Append(p, c.code) \in Seq(WireBytes) /\ Len(Append(p, c.code)) = Len(p) + 1
      /\ Append(p, c.code)[Len(p) + 1] = c.code
      /\ \A j \in 1 .. Len(p) : Append(p, c.code)[j] = p[j]
  BY <1>6, AppendProperties
<1>9. \A j \in 1 .. Len(p) : p[j] \in PrefixBytes
  BY <1>5, ElementOfSeq
<1> QED
  BY <1>2, <1>5, <1>6, <1>7, <1>8, <1>9

\* Marks are numbers in ascending order: one more at the end, or the first one gone.
More(n, d, pos, m, p) ==
  /\ p[n + 1] = pos[n] + m /\ \A i \in 0 .. n : p[i] = pos[i]
  /\ \A i, k \in d .. n + 1 : i <= k => p[i] <= p[k]
LEMMA MarkMore ==
  ASSUME NEW n \in Nat, NEW d \in 0 .. n, NEW pos \in [Nat -> Nat], NEW m \in Nat,
         \A i, k \in d .. n : i <= k => pos[i] <= pos[k]
  PROVE  \E p \in [Nat -> Nat] : More(n, d, pos, m, p)
<1> DEFINE p == [i \in Nat |-> IF i = n + 1 THEN pos[n] + m ELSE pos[i]]
<1>1. p \in [Nat -> Nat] /\ p[n + 1] = pos[n] + m /\ \A i \in 0 .. n : p[i] = pos[i]
  OBVIOUS
<1> HIDE DEF p
<1>2. \A i \in d .. n : p[i] = pos[i] /\ pos[i] <= pos[n] /\ pos[i] \in Nat
  BY <1>1
<1>3. \A i \in d .. n + 1 : i \in d .. n \/ i = n + 1
  OBVIOUS
<1>4. \A i, k \in d .. n + 1 : i <= k => p[i] <= p[k]
  BY <1>1, <1>2, <1>3
<1> QED
  BY <1>1, <1>4 DEF More

\* The marks from e on, counted from there.
LEMMA MarkLess ==
  ASSUME NEW n \in Nat, NEW e \in 0 .. n, NEW pos \in [Nat -> Nat],
         \A i, k \in e .. n : i <= k => pos[i] <= pos[k]
  PROVE  \E p \in [Nat -> Nat] :
           /\ \A i \in e .. n : p[i] = pos[i] - pos[e] /\ p[i] \in Nat /\ pos[i] = p[i] + pos[e]
           /\ \A i, k \in e .. n : i <= k => p[i] <= p[k]
<1> DEFINE p == [i \in Nat |-> IF pos[i] >= pos[e] THEN pos[i] - pos[e] ELSE 0]
<1>1. p \in [Nat -> Nat] /\ \A i \in e .. n : p[i] = pos[i] - pos[e] /\ p[i] \in Nat /\ pos[i] = p[i] + pos[e]
  OBVIOUS
<1> HIDE DEF p
<1>2. \A i, k \in e .. n : i <= k => p[i] <= p[k]
  BY <1>1
<1> QED
  BY <1>1, <1>2

\* Arithmetic of places in two sequences, one behind the other.
LEMMA Within ==
  ASSUME NEW a \in Nat, NEW l \in Nat, NEW t \in Nat, NEW u \in Nat, u = a + l, u <= t, NEW j \in 1 .. l
  PROVE  a + j \in 1 .. t
OBVIOUS

LEMMA Second ==
  ASSUME NEW a \in Nat, NEW l \in Nat, NEW m \in Nat, NEW j \in 1 .. a + l, ~(j <= a)
  PROVE  j - a \in 1 .. l + m /\ j - a <= l
OBVIOUS

LEMMA Beyond ==
  ASSUME NEW a \in Nat, NEW l \in Nat, NEW m \in Nat, NEW j \in 1 .. m
  PROVE  /\ l + j \in 1 .. l + m /\ ~(a + l + j <= a) /\ ~(l + j <= l)
         /\ a + l + j - a = l + j /\ l + j - l = j
OBVIOUS

\* What Cut says, conjunct by conjunct; the lengths are numbers and the bytes are within.
LEMMA CutParts ==
  ASSUME NEW b \in Seq(WireBytes), NEW w \in Seq(WireBytes), NEW s \in Seq(Items), NEW d \in 0 .. Len(s),
         NEW pos, Cut(b, w, s, d, pos)
  PROVE  /\ pos \in [Nat -> Nat] /\ pos[d] = 0 /\ pos[Len(s)] = Len(b) + Len(w)
         /\ \A i, k \in d .. Len(s) : i <= k => pos[i] <= pos[k]
         /\ \A i \in d + 1 .. Len(s) :
              /\ i \in Nat /\ i - 1 \in Nat /\ i \in d .. Len(s) /\ i - 1 \in d .. Len(s)
              /\ Len(Bytes(s[i])) \in Nat /\ pos[i] = pos[i - 1] + Len(Bytes(s[i]))
              /\ \A j \in 1 .. Len(Bytes(s[i])) : /\ ByteAt(b, w, pos[i - 1] + j) = Bytes(s[i])[j]
                                                  /\ pos[i - 1] + j \in 1 .. Len(b) + Len(w)
<1>1. pos \in [Nat -> Nat] /\ pos[d] = 0 /\ pos[Len(s)] = Len(b) + Len(w)
  BY DEF Cut
<1>2. \A i, k \in d .. Len(s) : i <= k => pos[i] <= pos[k]
  BY DEF Cut
<1>3. ASSUME NEW i \in d + 1 .. Len(s)
      PROVE  /\ i \in Nat /\ i - 1 \in Nat /\ i \in d .. Len(s) /\ i - 1 \in d .. Len(s)
             /\ Len(Bytes(s[i])) \in Nat /\ pos[i] = pos[i - 1] + Len(Bytes(s[i]))
             /\ \A j \in 1 .. Len(Bytes(s[i])) : /\ ByteAt(b, w, pos[i - 1] + j) = Bytes(s[i])[j]
                                                 /\ pos[i - 1] + j \in 1 .. Len(b) + Len(w)
  <2>1. Len(s) \in Nat /\ Len(b) + Len(w) \in Nat
    BY LenProperties
  <2>2. i \in Nat /\ i - 1 \in Nat /\ i \in d .. Len(s) /\ i - 1 \in d .. Len(s) /\ Len(s) \in d .. Len(s) /\ i <= Len(s)
    BY <2>1
  <2>3. Len(Bytes(s[i])) \in Nat
    <3>1. s[i] \in Items
      BY ElementOfSeq
    <3> QED
      BY <3>1, BytesOf
  <2>4. pos[i] = pos[i - 1] + Len(Bytes(s[i])) /\ pos[i] <= pos[Len(s)] /\ pos[i] \in Nat /\ pos[i - 1] \in Nat
    BY <1>1, <1>2, <2>2 DEF Cut
  <2>5. ASSUME NEW j \in 1 .. Len(Bytes(s[i]))
        PROVE  ByteAt(b, w, pos[i - 1] + j) = Bytes(s[i])[j] /\ pos[i - 1] + j \in 1 .. Len(b) + Len(w)
    <3>1. pos[i - 1] + j \in 1 .. Len(b) + Len(w)
      BY <1>1, <2>1, <2>3, <2>4, Within
    <3> QED
      BY <3>1 DEF Cut
  <2> QED
    BY <2>2, <2>3, <2>4, <2>5
<1> QED
  BY <1>1, <1>2, <1>3

\* The keyboard sends another scan code.
LEMMA CutGrows ==
  ASSUME NEW b \in Seq(WireBytes), NEW w \in Seq(WireBytes), NEW s \in Seq(Items), NEW d \in 0 .. Len(s),
         NEW pos, Cut(b, w, s, d, pos), NEW c \in Items
  PROVE  \E p : Cut(b, w \o Bytes(c), Append(s, c), d, p)
<1> DEFINE n == Len(s)
           m == Len(Bytes(c))
           t == Append(s, c)
           v == w \o Bytes(c)
<1>1. /\ n \in Nat /\ m \in Nat /\ d \in 0 .. n /\ Len(b) \in Nat /\ Len(w) \in Nat
      /\ Bytes(c) \in Seq(WireBytes) /\ Len(v) = Len(w) + m
  BY LenProperties, BytesOf, ConcatProperties
<1>2. Len(t) = n + 1 /\ t[n + 1] = c /\ \A i \in 1 .. n : t[i] = s[i]
  BY AppendProperties
<1>3. \A j \in 1 .. Len(w) + m : v[j] = IF j <= Len(w) THEN w[j] ELSE Bytes(c)[j - Len(w)]
  BY <1>1, ConcatProperties
<1>4. pos \in [Nat -> Nat] /\ pos[d] = 0 /\ pos[n] = Len(b) + Len(w)
  BY DEF Cut
<1>11. PICK p \in [Nat -> Nat] : More(n, d, pos, m, p)
  <2>1. \A i, k \in d .. n : i <= k => pos[i] <= pos[k]
    BY DEF Cut
  <2> HIDE DEF n, m
  <2>0. n \in Nat /\ d \in 0 .. n /\ m \in Nat /\ pos \in [Nat -> Nat]
    BY <1>1, <1>4
  <2> QED
    BY <2>0, <2>1, MarkMore, Zenon
<1>5. /\ p[n + 1] = pos[n] + m /\ \A i \in 0 .. n : p[i] = pos[i]
      /\ \A i, k \in d .. n + 1 : i <= k => p[i] <= p[k]
  BY <1>11 DEF More
<1>6. \A j \in 1 .. Len(b) + Len(w) : ByteAt(b, v, j) = ByteAt(b, w, j)
  <2> SUFFICES ASSUME NEW j \in 1 .. Len(b) + Len(w) PROVE ByteAt(b, v, j) = ByteAt(b, w, j)
    OBVIOUS
  <2> HIDE DEF v, m
  <2>1. CASE j <= Len(b)
    BY <2>1 DEF ByteAt
  <2>2. CASE ~(j <= Len(b))
    <3>1. j - Len(b) \in 1 .. Len(w) + m /\ j - Len(b) <= Len(w)
      BY <1>1, <2>2, Second, Zenon
    <3> QED
      BY <1>3, <2>2, <3>1 DEF ByteAt
  <2> QED
    BY <2>1, <2>2
<1>7. ASSUME NEW j \in 1 .. m PROVE ByteAt(b, v, Len(b) + Len(w) + j) = Bytes(c)[j]
  <2> HIDE DEF v, m
  <2>1. /\ Len(w) + j \in 1 .. Len(w) + m /\ ~(Len(b) + Len(w) + j <= Len(b)) /\ ~(Len(w) + j <= Len(w))
        /\ Len(b) + Len(w) + j - Len(b) = Len(w) + j /\ Len(w) + j - Len(w) = j
    <3>1. Len(b) \in Nat /\ Len(w) \in Nat /\ m \in Nat
      BY <1>1
    <3> QED
      BY <3>1, Beyond, Zenon
  <2> QED
    BY <1>3, <2>1 DEF ByteAt
<1>8. p[d] = 0 /\ p[Len(t)] = Len(b) + Len(v)
  <2> HIDE DEF n, m, t, v
  <2> QED
    BY <1>1, <1>2, <1>4, <1>5
<1>9. ASSUME NEW i \in d + 1 .. n + 1
      PROVE  /\ p[i] = p[i - 1] + Len(Bytes(t[i]))
             /\ \A j \in 1 .. Len(Bytes(t[i])) : ByteAt(b, v, p[i - 1] + j) = Bytes(t[i])[j]
  <2>1. CASE i = n + 1
    <3> HIDE DEF n, t, v
    <3>1. (n + 1) - 1 = n /\ p[n] = pos[n] /\ t[n + 1] = c /\ p[n + 1] = pos[n] + m
      BY <1>1, <1>2, <1>5
    <3> QED
      BY <1>4, <1>7, <2>1, <3>1 DEF m
  <2>2. CASE i # n + 1
    <3>1. i \in d + 1 .. n /\ i \in 1 .. n /\ i - 1 \in 0 .. n /\ i \in 0 .. n
      <4> HIDE DEF n
      <4> QED
        BY <1>1, <2>2
    <3>2. t[i] = s[i] /\ p[i] = pos[i] /\ p[i - 1] = pos[i - 1]
      BY <1>2, <1>5, <3>1
    <3>3. /\ pos[i] = pos[i - 1] + Len(Bytes(s[i]))
          /\ \A j \in 1 .. Len(Bytes(s[i])) : /\ ByteAt(b, w, pos[i - 1] + j) = Bytes(s[i])[j]
                                              /\ pos[i - 1] + j \in 1 .. Len(b) + Len(w)
      BY SMTT(60), <3>1, CutParts
    <3> QED
      BY <1>6, <3>2, <3>3
  <2> QED
    BY <2>1, <2>2
<1> HIDE DEF n, m, t, v
<1>10. Cut(b, v, t, d, p)
  BY <1>2, <1>5, <1>8, <1>9 DEF Cut
<1> QED
  BY <1>10 DEF t, v

\* A byte comes from the wire.
LEMMA CutGathers ==
  ASSUME NEW b \in Seq(WireBytes), NEW w \in Seq(WireBytes), w # <<>>, NEW s \in Seq(Items), NEW d \in 0 .. Len(s),
         NEW pos, Cut(b, w, s, d, pos)
  PROVE  Cut(Append(b, Head(w)), Tail(w), s, d, pos)
<1> DEFINE a == Append(b, Head(w))
           v == Tail(w)
<1>1. /\ Head(w) = w[1] /\ Head(w) \in WireBytes /\ v \in Seq(WireBytes) /\ Len(v) = Len(w) - 1
      /\ \A j \in 1 .. Len(v) : v[j] = w[j + 1]
  BY HeadTailProperties
<1>2. Len(w) \in Nat \ {0} /\ Len(b) \in Nat
  BY EmptySeq, LenProperties
<1>3. Len(a) = Len(b) + 1 /\ a[Len(b) + 1] = Head(w) /\ \A j \in 1 .. Len(b) : a[j] = b[j]
  BY <1>1, AppendProperties
<1>4. ASSUME NEW j \in 1 .. Len(b) + Len(w) PROVE ByteAt(a, v, j) = ByteAt(b, w, j)
  <2> HIDE DEF a, v
  <2>1. CASE j <= Len(b)
    BY <1>2, <1>3, <2>1 DEF ByteAt
  <2>2. CASE j = Len(b) + 1
    <3>1. ~(j <= Len(b)) /\ j <= Len(a) /\ j - Len(b) = 1
      BY <1>2, <1>3, <2>2
    <3> QED
      BY <1>1, <1>3, <2>2, <3>1 DEF ByteAt
  <2>3. CASE j > Len(b) + 1
    <3>1. ~(j <= Len(b)) /\ ~(j <= Len(a)) /\ j - Len(a) \in 1 .. Len(v) /\ (j - Len(a)) + 1 = j - Len(b)
      BY <1>1, <1>2, <1>3, <2>3
    <3> QED
      BY <1>1, <3>1 DEF ByteAt
  <2> QED
    BY <1>2, <2>1, <2>2, <2>3
<1> HIDE DEF a, v
<1>5. Len(a) + Len(v) = Len(b) + Len(w)
  BY <1>1, <1>2, <1>3
<1>6. ASSUME NEW i \in d + 1 .. Len(s), NEW j \in 1 .. Len(Bytes(s[i]))
      PROVE  ByteAt(a, v, pos[i - 1] + j) = Bytes(s[i])[j]
  <2>1. ByteAt(b, w, pos[i - 1] + j) = Bytes(s[i])[j] /\ pos[i - 1] + j \in 1 .. Len(b) + Len(w)
    BY CutParts
  <2> QED
    BY <1>4, <2>1, Zenon
<1>7. Cut(a, v, s, d, pos)
  BY <1>5, <1>6 DEF Cut
<1> QED
  BY <1>7 DEF a, v

\* The gathered bytes are a whole scan code, and are handled.
LEMMA CutGoes ==
  ASSUME NEW b \in Seq(WireBytes), NEW w \in Seq(WireBytes), NEW s \in Seq(Items), NEW d \in 0 .. Len(s), d < Len(s),
         NEW pos, Cut(b, w, s, d, pos), Len(b) = Len(Bytes(s[d + 1]))
  PROVE  \E p : Cut(<<>>, w, s, d + 1, p)
<1> DEFINE n == Len(s)
           l == Len(b)
           e == d + 1
<1>1. n \in Nat /\ l \in Nat /\ Len(w) \in Nat /\ d \in 0 .. n /\ d < n
  BY LenProperties
<1>2. pos \in [Nat -> Nat] /\ pos[d] = 0 /\ pos[n] = l + Len(w)
  BY DEF Cut
<1>3. \A j \in Nat \ {0} : ByteAt(b, w, l + j) = ByteAt(<<>>, w, j)
  <2> HIDE DEF l
  <2>1. Len(<<>>) = 0
    OBVIOUS
  <2> QED
    BY <1>1, <2>1 DEF ByteAt, l
<1>4. \A i, k \in d .. n : i <= k => pos[i] <= pos[k]
  BY DEF Cut
<1>5. \A i \in d + 1 .. n :
        /\ Len(Bytes(s[i])) \in Nat /\ pos[i] = pos[i - 1] + Len(Bytes(s[i]))
        /\ \A j \in 1 .. Len(Bytes(s[i])) : ByteAt(b, w, pos[i - 1] + j) = Bytes(s[i])[j]
  BY CutParts
<1> HIDE DEF n, l
<1>6. e \in d + 1 .. n /\ e \in 0 .. n /\ e - 1 = d
  BY <1>1
<1>7. pos[e] = l
  <2>1. pos[e] = pos[e - 1] + Len(Bytes(s[e])) /\ Len(Bytes(s[e])) = l
    BY <1>5, <1>6 DEF l
  <2> QED
    BY <1>1, <1>2, <1>6, <2>1
<1>8. PICK p \in [Nat -> Nat] :
        /\ \A i \in e .. n : p[i] = pos[i] - pos[e] /\ p[i] \in Nat /\ pos[i] = p[i] + pos[e]
        /\ \A i, k \in e .. n : i <= k => p[i] <= p[k]
  <2>1. \A i, k \in e .. n : i <= k => pos[i] <= pos[k]
    <3>1. \A i \in e .. n : i \in d .. n
      BY <1>1
    <3> QED
      BY <1>4, <3>1
  <2> HIDE DEF e
  <2>2. n \in Nat /\ e \in 0 .. n /\ pos \in [Nat -> Nat]
    BY <1>1, <1>2, <1>6
  <2> QED
    BY <2>2, <2>1, MarkLess, ZenonT(60)
<1>9. p[e] = 0 /\ p[n] = Len(<<>>) + Len(w)
  <2>1. e \in e .. n /\ n \in e .. n
    BY <1>1
  <2>2. p[e] = pos[e] - pos[e] /\ p[n] = pos[n] - pos[e]
    BY <1>8, <2>1
  <2>3. Len(<<>>) = 0
    OBVIOUS
  <2> HIDE DEF e
  <2> QED
    BY <1>1, <1>2, <1>7, <2>2, <2>3
<1>10. ASSUME NEW i \in e + 1 .. n
      PROVE  /\ p[i] = p[i - 1] + Len(Bytes(s[i]))
             /\ \A j \in 1 .. Len(Bytes(s[i])) : ByteAt(<<>>, w, p[i - 1] + j) = Bytes(s[i])[j]
  <2>1. i \in d + 1 .. n /\ i \in e .. n /\ i - 1 \in e .. n
    BY <1>1
  <2>2. /\ p[i] \in Nat /\ pos[i] = p[i] + l /\ p[i - 1] \in Nat /\ pos[i - 1] = p[i - 1] + l
    BY <1>7, <1>8, <2>1
  <2>3. Len(Bytes(s[i])) \in Nat /\ pos[i] = pos[i - 1] + Len(Bytes(s[i]))
    BY <1>5, <2>1
  <2> DEFINE m == Len(Bytes(s[i]))
  <2> HIDE DEF m
  <2>6. m \in Nat /\ p[i] + l = (p[i - 1] + l) + m
    BY <2>2, <2>3 DEF m
  <2> DEFINE q == p[i - 1]
             r == p[i]
  <2> HIDE DEF q, r
  <2>8. r \in Nat /\ q \in Nat /\ l \in Nat /\ r + l = (q + l) + m
    BY <1>1, <2>2, <2>6 DEF q, r
  <2>9. r = q + m /\ \A j \in 1 .. m : q + j \in Nat \ {0} /\ l + (q + j) = (q + l) + j
    BY <2>6, <2>8
  <2>7. p[i] = p[i - 1] + m /\ \A j \in 1 .. m : p[i - 1] + j \in Nat \ {0} /\ l + (p[i - 1] + j) = (p[i - 1] + l) + j
    BY <2>9 DEF q, r
  <2>4. p[i] = p[i - 1] + Len(Bytes(s[i]))
    BY <2>7 DEF m
  <2>5. ASSUME NEW j \in 1 .. Len(Bytes(s[i])) PROVE ByteAt(<<>>, w, p[i - 1] + j) = Bytes(s[i])[j]
    <3>1. ByteAt(b, w, pos[i - 1] + j) = Bytes(s[i])[j]
      BY <1>5, <2>1
    <3>2. p[i - 1] + j \in Nat \ {0} /\ l + (p[i - 1] + j) = pos[i - 1] + j
      BY <2>2, <2>7 DEF m
    <3> QED
      BY <1>3, <3>1, <3>2, Zenon
  <2> QED
    BY <2>4, <2>5
<1>11. Cut(<<>>, w, s, e, p)
  <2> HIDE DEF e
  <2> QED
    BY <1>8, <1>9, <1>10 DEF Cut, n
<1> QED
  BY <1>11
-----------------------------------------------------------------------------
(* Events *)

\* Arithmetic of lengths.
LEMMA OneOn == ASSUME NEW n \in Nat, NEW i \in 0 .. n, i < n PROVE i + 1 \in 1 .. n
OBVIOUS
LEMMA Positive == ASSUME NEW m \in 1 .. 3, NEW i, i = 0 PROVE i < m
OBVIOUS

\* Short sequences put together, and without their first element.
LEMMA Joins ==
  ASSUME NEW S, NEW a \in S, NEW b \in S, NEW c \in S
  PROVE  <<a>> \o <<b>> = <<a, b>> /\ <<a, b>> \o <<c>> = <<a, b, c>>
<1>1. <<a>> \in Seq(S) /\ <<b>> \in Seq(S) /\ <<a, b>> \in Seq(S) /\ <<a, b, c>> \in Seq(S) /\ <<c>> \in Seq(S)
  OBVIOUS
<1>2. <<a>> \o <<b>> = <<a, b>>
  <2>1. /\ <<a>> \o <<b>> \in Seq(S) /\ Len(<<a>> \o <<b>>) = Len(<<a>>) + Len(<<b>>)
        /\ \A i \in 1 .. Len(<<a>>) + Len(<<b>>) :
             (<<a>> \o <<b>>)[i] = IF i <= Len(<<a>>) THEN <<a>>[i] ELSE <<b>>[i - Len(<<a>>)]
    BY <1>1, ConcatProperties
  <2>2. Len(<<a>>) = 1 /\ Len(<<b>>) = 1 /\ Len(<<a, b>>) = 2
    OBVIOUS
  <2> DEFINE s == <<a>> \o <<b>>
             t == <<a, b>>
  <2> HIDE DEF s
  <2>3. Len(s) = 2 /\ s[1] = a /\ s[2] = b /\ s \in Seq(S)
    BY <2>1, <2>2 DEF s
  <2>4. \A i \in 1 .. Len(s) : s[i] = t[i]
    BY <2>3
  <2> QED
    BY <1>1, <2>2, <2>3, <2>4, SeqEqual DEF s
<1>3. <<a, b>> \o <<c>> = <<a, b, c>>
  <2>1. /\ <<a, b>> \o <<c>> \in Seq(S) /\ Len(<<a, b>> \o <<c>>) = Len(<<a, b>>) + Len(<<c>>)
        /\ \A i \in 1 .. Len(<<a, b>>) + Len(<<c>>) :
             (<<a, b>> \o <<c>>)[i] = IF i <= Len(<<a, b>>) THEN <<a, b>>[i] ELSE <<c>>[i - Len(<<a, b>>)]
    BY <1>1, ConcatProperties
  <2>2. Len(<<a, b>>) = 2 /\ Len(<<c>>) = 1 /\ Len(<<a, b, c>>) = 3
    OBVIOUS
  <2> DEFINE s == <<a, b>> \o <<c>>
             t == <<a, b, c>>
  <2> HIDE DEF s
  <2>3. Len(s) = 3 /\ s[1] = a /\ s[2] = b /\ s[3] = c /\ s \in Seq(S)
    BY <2>1, <2>2 DEF s
  <2>4. \A i \in 1 .. Len(s) : s[i] = t[i]
    BY <2>3
  <2> QED
    BY <1>1, <2>2, <2>3, <2>4, SeqEqual DEF s
<1> QED
  BY <1>2, <1>3

LEMMA Tails ==
  ASSUME NEW S, NEW a \in S, NEW b \in S, NEW c \in S
  PROVE  Tail(<<a, b>>) = <<b>> /\ Tail(<<a, b, c>>) = <<b, c>>
OBVIOUS
\* The bytes of a scan code, spelled out.
LEMMA BytesSpelled ==
  ASSUME NEW c \in ScanCode
  PROVE  /\ c.ext /\ c.released => Bytes(c) = <<"E0", "F0", c.code>>
         /\ c.ext /\ ~c.released => Bytes(c) = <<"E0", c.code>>
         /\ ~c.ext /\ c.released => Bytes(c) = <<"F0", c.code>>
         /\ ~c.ext /\ ~c.released => Bytes(c) = <<c.code>>
<1>1. c.code \in WireBytes /\ "E0" \in WireBytes /\ "F0" \in WireBytes
  BY DEF ScanCode, WireBytes, PrefixBytes
<1>2. <<>> \in Seq(WireBytes) /\ <<"E0">> \in Seq(WireBytes) /\ <<"F0">> \in Seq(WireBytes) /\ <<c.code>> \in Seq(WireBytes)
  BY <1>1
<1>3. <<"E0">> \o <<"F0">> = <<"E0", "F0">> /\ <<"E0", "F0">> \o <<c.code>> = <<"E0", "F0", c.code>>
  BY <1>1, Joins
<1>5. /\ <<>> \o <<>> = <<>> /\ <<"E0">> \o <<>> = <<"E0">> /\ <<>> \o <<"F0">> = <<"F0">> /\ <<>> \o <<c.code>> = <<c.code>>
  BY <1>2, ConcatEmptySeq
<1>6. <<"E0">> \o <<c.code>> = <<"E0", c.code>> /\ <<"F0">> \o <<c.code>> = <<"F0", c.code>>
  BY <1>1, Joins
<1>7. CASE c.ext /\ c.released
  BY <1>3, <1>6, <1>7, Zenon DEF Bytes
<1>8. CASE c.ext /\ ~c.released
  BY <1>5, <1>6, <1>8, Zenon DEF Bytes
<1>9. CASE ~c.ext /\ c.released
  BY <1>5, <1>6, <1>9, Zenon DEF Bytes
<1>10. CASE ~c.ext /\ ~c.released
  BY <1>5, <1>6, <1>10, Zenon DEF Bytes
<1> QED
  BY <1>7, <1>8, <1>9, <1>10, Zenon

\* A whole scan code becomes its event, and changes the modifiers as its key does.
KeyOf(c) == Keymap(c.ext, FALSE, c.code)
Handles(c) == Enqueue(EventOf(c, modifiers)) /\ modifiers' = NewModifiers(KeyOf(c), c.released)
LEMMA Decodes ==
  ASSUME NEW c \in ScanCode, Decode(Bytes(c))
  PROVE  Handles(c)
<1> DEFINE buf == Bytes(c)
           extended == buf[1] = "E0"
           rest == IF extended THEN Tail(buf) ELSE buf
           released == rest # <<>> /\ rest[1] = "F0"
           code == IF released THEN Tail(rest) ELSE rest
           mods == modifiers \cup (IF released THEN {"RELEASED"} ELSE {})
<1>1. c.code # "E0" /\ c.code # "F0" /\ c.ext \in BOOLEAN /\ c.released \in BOOLEAN
  BY CodesApart DEF ScanCode
<1>2. (extended <=> c.ext) /\ (released <=> c.released) /\ code = <<c.code>>
  <2> DEFINE x == c.code
  <2> HIDE DEF x
  <2>0. x # "E0" /\ x # "F0"
    BY <1>1 DEF x
  <2>5. /\ Tail(<<"E0", "F0", x>>) = <<"F0", x>> /\ Tail(<<"E0", x>>) = <<x>> /\ Tail(<<"F0", x>>) = <<x>>
    BY Tails
  <2>1. CASE c.ext /\ c.released
    <3>1. buf = <<"E0", "F0", x>>
      BY <2>1, BytesSpelled DEF x
    <3>2. extended /\ rest = <<"F0", x>>
      BY <2>5, <3>1
    <3>3. released /\ code = <<x>>
      <4> HIDE DEF rest
      <4> QED
        BY <2>5, <3>2
    <3> QED
      BY <2>1, <3>2, <3>3 DEF x
  <2>2. CASE c.ext /\ ~c.released
    <3>1. buf = <<"E0", x>>
      BY <2>2, BytesSpelled DEF x
    <3>2. extended /\ rest = <<x>>
      BY <2>5, <3>1
    <3>3. ~released /\ code = <<x>>
      <4> HIDE DEF rest
      <4> QED
        BY <2>0, <3>2
    <3> QED
      BY <2>2, <3>2, <3>3 DEF x
  <2>3. CASE ~c.ext /\ c.released
    <3>1. buf = <<"F0", x>>
      BY <2>3, BytesSpelled DEF x
    <3>2. ~extended /\ rest = <<"F0", x>>
      <4>1. buf[1] = "F0"
        <5> HIDE DEF buf
        <5> QED
          BY <3>1
      <4> QED
        BY <3>1, <4>1
    <3>3. released /\ code = <<x>>
      <4> HIDE DEF rest
      <4> QED
        BY <2>5, <3>2
    <3> QED
      BY <2>3, <3>2, <3>3 DEF x
  <2>4. CASE ~c.ext /\ ~c.released
    <3>1. buf = <<x>>
      BY <2>4, BytesSpelled DEF x
    <3>2. ~extended /\ rest = <<x>>
      BY <2>0, <3>1
    <3>3. ~released /\ code = <<x>>
      BY <2>0, <3>2
    <3> QED
      BY <2>4, <3>2, <3>3 DEF x
  <2> QED
    BY <2>1, <2>2, <2>3, <2>4, Zenon
<1>3. Len(code) = 1 /\ code[1] = c.code
  <2> HIDE DEF code
  <2> QED
    BY <1>2
<1>4. /\ Enqueue([key |-> Keymap(extended, "SHIFT" \in mods, code[1]), modifiers |-> mods])
      /\ modifiers' = NewModifiers(Keymap(extended, "SHIFT" \in mods, code[1]), released)
  BY <1>3 DEF Decode
<1>5. mods = modifiers \cup (IF c.released THEN {"RELEASED"} ELSE {})
  BY <1>2
<1> HIDE DEF extended, released, code, mods
<1>6. "SHIFT" \in mods <=> "SHIFT" \in modifiers
  BY <1>5
<1> DEFINE key == Keymap(c.ext, "SHIFT" \in modifiers, c.code)
<1>7. Keymap(extended, "SHIFT" \in mods, code[1]) = key
  BY <1>2, <1>3, <1>6 DEF Keymap
<1>8. NewModifiers(key, c.released) = NewModifiers(KeyOf(c), c.released)
  <2>1. CASE c.code = "16" /\ ~c.ext
    <3>1. key \in {"1", "ExclamationMark"} /\ KeyOf(c) = "1"
      BY <2>1 DEF Keymap, KeyOf
    <3> HIDE DEF key
    <3> QED
      BY <3>1 DEF NewModifiers
  <2>2. CASE ~(c.code = "16" /\ ~c.ext)
    <3>1. key = KeyOf(c)
      BY <2>2 DEF Keymap, KeyOf
    <3> QED
      BY <3>1
  <2> QED
    BY <2>1, <2>2
<1> QED
  <2>1. EventOf(c, modifiers) = [key |-> key, modifiers |-> mods]
    BY <1>5, Zenon DEF EventOf
  <2> HIDE DEF key
  <2>2. NewModifiers(key, released) = NewModifiers(key, c.released)
    BY <1>2 DEF NewModifiers
  <2> QED
    BY <1>4, <1>7, <1>8, <2>1, <2>2, Zenon DEF Handles

-----------------------------------------------------------------------------
(* The steps *)

\* The next byte is the next one of the scan code whose bytes byte_buffer holds.
LEMMA NextByte ==
  ASSUME IInv, Parsed, wire # <<>>
  PROVE  /\ done < Len(sent) /\ sent[done + 1] \in Items
         /\ \A j \in 1 .. Len(byte_buffer) : byte_buffer[j] = Bytes(sent[done + 1])[j]
         /\ Head(wire) = Bytes(sent[done + 1])[Len(byte_buffer) + 1]
         /\ Len(byte_buffer) + 1 <= Len(Bytes(sent[done + 1]))
         /\ Prefix(Head(wire)) <=> Len(byte_buffer) + 1 < Len(Bytes(sent[done + 1]))
<1> DEFINE c == sent[done + 1]
           l == Len(byte_buffer)
<1>1. byte_buffer \in Seq(WireBytes) /\ wire \in Seq(WireBytes) /\ sent \in Seq(Items) /\ done \in 0 .. Len(sent)
  BY SeqMonotonic DEF IInv, BytesOK, WireBytes, Parsed
<1>2. l \in Nat /\ Len(wire) \in Nat \ {0} /\ Len(sent) \in Nat
  BY <1>1, LenProperties, EmptySeq
<1>3. PICK pos : Cut(byte_buffer, wire, sent, done, pos)
  BY DEF Parsed
<1>4. pos[done] = 0 /\ pos[Len(sent)] = l + Len(wire)
  BY <1>3 DEF Cut
<1>5. done < Len(sent) /\ done + 1 \in done + 1 .. Len(sent) /\ done + 1 \in 1 .. Len(sent) /\ (done + 1) - 1 = done
  <2>1. l + Len(wire) # 0
    BY <1>2
  <2>2. done # Len(sent)
    BY <1>4, <2>1
  <2> QED
    BY <1>1, <1>2, <2>2
<1>6. c \in Items
  BY <1>1, <1>5, ElementOfSeq
<1>7. Len(Bytes(c)) \in Nat /\ l < Len(Bytes(c))
  BY <1>5, <1>6, BytesOf DEF Parsed
<1>8. ASSUME NEW j \in 1 .. Len(Bytes(c)) PROVE ByteAt(byte_buffer, wire, j) = Bytes(c)[j]
  <2>1. ByteAt(byte_buffer, wire, pos[(done + 1) - 1] + j) = Bytes(c)[j]
    BY <1>3, <1>5 DEF Cut
  <2>2. pos[(done + 1) - 1] + j = j
    BY <1>4, <1>5, <1>7
  <2> QED
    BY <2>1, <2>2
<1> HIDE DEF c, l
<1>9. \A j \in 1 .. l : byte_buffer[j] = Bytes(c)[j]
  <2> SUFFICES ASSUME NEW j \in 1 .. l PROVE byte_buffer[j] = Bytes(c)[j]
    OBVIOUS
  <2>1. j \in 1 .. Len(Bytes(c)) /\ j <= l
    BY <1>2, <1>7
  <2> QED
    BY <1>8, <2>1 DEF ByteAt, l
<1>10. Head(wire) = Bytes(c)[l + 1] /\ l + 1 \in 1 .. Len(Bytes(c))
  <2>1. l + 1 \in 1 .. Len(Bytes(c)) /\ ~(l + 1 <= l) /\ l + 1 - l = 1
    BY <1>2, <1>7
  <2>2. Head(wire) = wire[1]
    BY <1>1, HeadTailProperties
  <2> QED
    BY <1>8, <2>1, <2>2 DEF ByteAt, l
<1>11. Prefix(Head(wire)) <=> l + 1 < Len(Bytes(c))
  <2>1. CASE l + 1 = Len(Bytes(c))
    BY <1>6, <1>7, <1>10, <2>1, BytesOf DEF Prefix, PrefixBytes
  <2>2. CASE l + 1 # Len(Bytes(c))
    <3>1. l + 1 \in 1 .. Len(Bytes(c)) - 1 /\ l + 1 < Len(Bytes(c))
      BY <1>2, <1>7, <2>2
    <3>2. Bytes(c)[l + 1] \in PrefixBytes
      BY <1>6, <3>1, BytesOf
    <3> QED
      BY <1>10, <3>1, <3>2 DEF Prefix, PrefixBytes
  <2> QED
    BY <1>2, <1>7, <2>1, <2>2
<1> QED
  BY <1>2, <1>5, <1>6, <1>7, <1>9, <1>10, <1>11 DEF c, l

\* What the handler does with a byte: it gathers it, or it handles the scan code it ends.
Gathers == Parsed' /\ UNCHANGED <<queue, head, tail, len, modifiers, done, sent, held>>
HandlesNext ==
  /\ Parsed' /\ UNCHANGED <<sent, held>>
  /\ done' = done + 1 /\ done' \in 1 .. Len(sent)
  /\ \/ sent[done'] = OVR /\ UNCHANGED <<queue, head, tail, len, modifiers>>
     \/ sent[done'] \in ScanCode /\ Handles(sent[done'])
LEMMA Irq1Parses ==
  ASSUME IInv, Parsed, Irq1
  PROVE  Gathers \/ HandlesNext
<1> DEFINE byte == Head(wire)
           buf == Append(byte_buffer, byte)
           c == sent[done + 1]
<1>1. byte_buffer \in Seq(WireBytes) /\ wire \in Seq(WireBytes) /\ sent \in Seq(Items) /\ done \in 0 .. Len(sent)
  BY SeqMonotonic DEF IInv, BytesOK, WireBytes, Parsed
<1>2. wire # <<>> /\ wire' = Tail(wire) /\ NewByte(byte) /\ UNCHANGED <<sent, held>>
  BY DEF Irq1
<1>3. PICK pos : Cut(byte_buffer, wire, sent, done, pos)
  BY DEF Parsed
<1>4. Cut(buf, wire', sent, done, pos)
  BY <1>1, <1>2, <1>3, CutGathers
<1>5. /\ done < Len(sent) /\ c \in Items
      /\ \A j \in 1 .. Len(byte_buffer) : byte_buffer[j] = Bytes(c)[j]
      /\ byte = Bytes(c)[Len(byte_buffer) + 1] /\ Len(byte_buffer) + 1 <= Len(Bytes(c))
      /\ Prefix(byte) <=> Len(byte_buffer) + 1 < Len(Bytes(c))
  BY <1>2, NextByte
<1>6. byte \in WireBytes /\ wire' \in Seq(WireBytes)
  BY <1>1, <1>2, HeadTailProperties
<1>7. /\ buf \in Seq(WireBytes) /\ Len(buf) = Len(byte_buffer) + 1 /\ buf[Len(byte_buffer) + 1] = byte
      /\ \A j \in 1 .. Len(byte_buffer) : buf[j] = byte_buffer[j]
  <2> HIDE DEF byte
  <2> QED
    BY <1>1, <1>6, AppendProperties
<1> HIDE DEF byte, buf, c
<1>8. CASE Prefix(byte)
  <2>1. byte_buffer' = buf /\ UNCHANGED <<queue, head, tail, len, modifiers, done>>
    BY <1>2, <1>8 DEF NewByte, buf
  <2>2. Len(buf) < Len(Bytes(c))
    BY <1>5, <1>7, <1>8
  <2> QED
    BY <1>1, <1>2, <1>4, <2>1, <2>2 DEF Gathers, Parsed, c
<1>9. CASE ~Prefix(byte)
  <2>1. byte_buffer' = <<>> /\ done' = done + 1
    BY <1>2, <1>9 DEF NewByte
  <2>2. Bytes(c) \in Seq(WireBytes) /\ Len(Bytes(c)) \in 1 .. 3 /\ Bytes(c)[Len(Bytes(c))] = c.code
        /\ (c.code = "OVR" <=> c = OVR)
    BY <1>5, BytesOf
  <2>3. Len(byte_buffer) \in Nat /\ Len(sent) \in Nat
    BY <1>1, LenProperties
  <2>4. Len(buf) = Len(Bytes(c)) /\ Len(buf) \in 1 .. 3
    BY <1>5, <1>7, <1>9, <2>2, <2>3
  <2>5. ASSUME NEW j \in 1 .. Len(buf) PROVE buf[j] = Bytes(c)[j]
    <3>1. j \in 1 .. Len(byte_buffer) \/ j = Len(byte_buffer) + 1
      BY <1>7, <2>3
    <3> QED
      BY <1>5, <1>7, <3>1
  <2>6. buf = Bytes(c)
    BY <1>7, <2>2, <2>4, <2>5, SeqEqual
  <2>7. byte = c.code
    BY <1>7, <2>2, <2>4, <2>6
  <2>8. \E p : Cut(<<>>, wire', sent, done + 1, p)
    BY <1>1, <1>4, <1>5, <1>6, <1>7, <2>4, CutGoes DEF c
  <2>9. Parsed'
    <3>1. done' \in 0 .. Len(sent)
      BY <1>1, <1>5, <2>1, <2>3
    <3>2. ASSUME done' < Len(sent) PROVE Len(<<>>) < Len(Bytes(sent[done' + 1]))
      <4>1. done' + 1 \in 1 .. Len(sent)
        <5> DEFINE n == Len(sent)
        <5> HIDE DEF n
        <5>1. n \in Nat /\ done' \in 0 .. n /\ done' < n
          BY <2>3, <3>1, <3>2 DEF n
        <5>2. done' + 1 \in 1 .. n
          BY <5>1, OneOn, Zenon
        <5> QED
          BY <5>2 DEF n
      <4>2. sent[done' + 1] \in Items
        BY <1>1, <4>1, ElementOfSeq
      <4>3. Len(Bytes(sent[done' + 1])) \in 1 .. 3 /\ Len(<<>>) = 0
        BY <4>2, BytesOf
      <4> QED
        BY SMTT(60), <4>3
    <3> QED
      BY <1>1, <1>2, <2>1, <2>8, <3>1, <3>2 DEF Parsed
  <2>10. done' \in 1 .. Len(sent) /\ sent[done'] = c
    BY <1>1, <1>5, <2>1, <2>3 DEF c
  <2>11. CASE c = OVR
    <3>1. UNCHANGED <<queue, head, tail, len, modifiers>>
      BY <1>2, <1>9, <2>2, <2>7, <2>11 DEF NewByte
    <3> QED
      BY <1>2, <2>1, <2>9, <2>10, <2>11, <3>1 DEF HandlesNext
  <2>12. CASE c # OVR
    <3>1. c \in ScanCode
      BY <1>5, <2>12 DEF Items
    <3>2. byte # "OVR" /\ ~(Len(buf) > 3)
      BY <2>2, <2>4, <2>7, <2>12
    <3>3. Decode(buf)
      BY <1>2, <1>9, <3>2 DEF NewByte, buf
    <3>4. Handles(c)
      BY <2>6, <3>1, <3>3, Decodes
    <3> QED
      BY <1>2, <2>1, <2>9, <2>10, <3>1, <3>4 DEF HandlesNext
  <2> QED
    BY <2>11, <2>12
<1> QED
  BY <1>8, <1>9

\* What the keyboard sends, if anything: the scan code, or an overrun.
LEMMA KeySends ==
  ASSUME NEW k \in Keys, NEW released \in BOOLEAN, Key(k, released)
  PROVE  /\ UNCHANGED <<driver, main, done>> /\ (released => k \in held)
         /\ held' = IF released THEN held \ {k} ELSE held \cup {k}
         /\ \E item \in {[ext |-> k.ext, code |-> k.code, released |-> released], OVR} :
              /\ item \in Items
              /\ \/ item = OVR /\ wire # <<>> /\ Last(wire) = "OVR" /\ UNCHANGED <<wire, sent>>
                 \/ wire' = wire \o Bytes(item) /\ sent' = Append(sent, item)
<1> DEFINE c == [ext |-> k.ext, code |-> k.code, released |-> released]
           item == IF Len(wire) + Len(Bytes(c)) <= WireSize THEN c ELSE OVR
<1>1. k.ext \in BOOLEAN /\ k.code \in Codes
  BY KeysAssumption DEF Codes
<1>2. item \in {c, OVR}
  OBVIOUS
<1>3. c \in Items /\ OVR \in Items
  BY <1>1 DEF Items, ScanCode
<1>4. \/ item = OVR /\ wire # <<>> /\ Last(wire) = "OVR" /\ UNCHANGED <<wire, sent>>
      \/ wire' = wire \o Bytes(item) /\ sent' = Append(sent, item)
  BY DEF Key
<1>5. /\ UNCHANGED <<driver, main, done>> /\ (released => k \in held)
      /\ held' = IF released THEN held \ {k} ELSE held \cup {k}
  BY DEF Key
<1> HIDE DEF item, c
<1>6. item \in Items
  BY <1>2, <1>3
<1> QED
  BY <1>2, <1>4, <1>5, <1>6 DEF c

\* What is sent is cut off at the end.
LEMMA SentParses ==
  ASSUME IInv, Parsed, NEW item \in Items, wire' = wire \o Bytes(item), sent' = Append(sent, item),
         UNCHANGED <<byte_buffer, done>>
  PROVE  Parsed'
<1>1. byte_buffer \in Seq(WireBytes) /\ wire \in Seq(WireBytes) /\ sent \in Seq(Items) /\ done \in 0 .. Len(sent)
  BY SeqMonotonic DEF IInv, BytesOK, WireBytes, Parsed
<1>2. PICK pos : Cut(byte_buffer, wire, sent, done, pos)
  BY DEF Parsed
<1>3. \E p : Cut(byte_buffer', wire', sent', done', p)
  BY <1>1, <1>2, CutGrows
<1>4. /\ sent' \in Seq(Items) /\ Len(sent') = Len(sent) + 1 /\ sent'[Len(sent) + 1] = item
      /\ \A i \in 1 .. Len(sent) : sent'[i] = sent[i]
  BY <1>1, AppendProperties
<1>5. Len(sent) \in Nat /\ Len(byte_buffer) \in Nat /\ Len(wire) \in Nat
  BY <1>1, LenProperties
<1>6. Len(byte_buffer) < Len(Bytes(sent'[done + 1]))
  <2>1. CASE done < Len(sent)
    <3>1. done + 1 \in 1 .. Len(sent)
      BY <1>1, <1>5, <2>1
    <3> QED
      BY <1>4, <2>1, <3>1 DEF Parsed
  <2>2. CASE done = Len(sent)
    <3>1. pos[done] = 0 /\ pos[Len(sent)] = Len(byte_buffer) + Len(wire)
      BY <1>2 DEF Cut
    <3>2. Len(byte_buffer) = 0
      BY <1>5, <2>2, <3>1
    <3>3. Len(Bytes(item)) \in 1 .. 3
      BY BytesOf
    <3> QED
      <4> DEFINE m == Len(Bytes(item))
      <4> HIDE DEF m
      <4>1. m \in 1 .. 3 /\ Len(byte_buffer) < m
        BY <3>2, <3>3, Positive, Zenon DEF m
      <4> QED
        BY <1>4, <2>2, <4>1 DEF m
  <2> QED
    BY <1>1, <1>5, <2>1, <2>2
<1>7. done' \in 0 .. Len(sent')
  BY <1>1, <1>4, <1>5
<1> QED
  BY <1>3, <1>4, <1>6, <1>7 DEF Parsed
-----------------------------------------------------------------------------
(* Modifiers *)

Touches(c, kind) == \E k \in kind : IsOf(c, k)

\* Among the first d scan codes of s the latest of this kind is a press.
Latest(s, d, kind) ==
  \E i \in 1 .. d : /\ Touches(s[i], kind) /\ ~s[i].released
                    /\ \A j \in i + 1 .. d : Touches(s[j], kind) => ~s[j].released

Flags == /\ "SHIFT" \in modifiers <=> Latest(sent, done, Shifts)
         /\ "CONTROL" \in modifiers <=> Latest(sent, done, Ctrls)

\* Unless a scan code was lost, the keys down are those whose latest scan code is a press.
Overrun == \E i \in 1 .. Len(sent) : sent[i] = OVR
AllKeys == [ext : BOOLEAN, code : Codes \cup {"12", "14", "59"}]
HeldAre ==
  /\ held \subseteq AllKeys
  /\ (\E i \in 1 .. Len(wire) : wire[i] = "OVR") => Overrun
  /\ ~Overrun => \A k \in AllKeys : k \in held <=> Latest(sent, Len(sent), {k})

\* The whole invariant.
KInv == IInv /\ Parsed /\ Flags /\ HeldAre

\* One scan code more: it is the latest, if it is of this kind.
LEMMA LatestNext ==
  ASSUME NEW s, NEW d \in Nat, NEW kind
  PROVE  Latest(s, d + 1, kind)
           <=> IF Touches(s[d + 1], kind) THEN ~s[d + 1].released ELSE Latest(s, d, kind)
<1>1. \A i \in 1 .. d + 1 : i \in 1 .. d \/ i = d + 1
  OBVIOUS
<1>2. d + 1 \in 1 .. d + 1 /\ (d + 1) + 1 .. d + 1 = {}
  OBVIOUS
<1>3. \A i \in 1 .. d : i \in 1 .. d + 1 /\ d + 1 \in i + 1 .. d + 1
  OBVIOUS
<1>4. \A i \in 1 .. d : \A j \in i + 1 .. d + 1 : j \in i + 1 .. d \/ j = d + 1
  OBVIOUS
<1>5. \A i \in 1 .. d : \A j \in i + 1 .. d : j \in i + 1 .. d + 1
  OBVIOUS
<1>6. CASE Touches(s[d + 1], kind) /\ ~s[d + 1].released
  BY <1>2, <1>6, Zenon DEF Latest
<1>7. CASE Touches(s[d + 1], kind) /\ s[d + 1].released
  BY <1>1, <1>3, <1>7, Zenon DEF Latest
<1>8. CASE ~Touches(s[d + 1], kind)
  <2>1. ASSUME Latest(s, d, kind) PROVE Latest(s, d + 1, kind)
    <3>1. PICK i \in 1 .. d : /\ Touches(s[i], kind) /\ ~s[i].released
                              /\ \A j \in i + 1 .. d : Touches(s[j], kind) => ~s[j].released
      BY <2>1 DEF Latest
    <3>2. \A j \in i + 1 .. d + 1 : Touches(s[j], kind) => ~s[j].released
      BY <1>4, <1>8, <3>1, Zenon
    <3> QED
      BY <1>3, <3>1, <3>2, Zenon DEF Latest
  <2>2. ASSUME Latest(s, d + 1, kind) PROVE Latest(s, d, kind)
    <3>1. PICK i \in 1 .. d + 1 : /\ Touches(s[i], kind) /\ ~s[i].released
                                  /\ \A j \in i + 1 .. d + 1 : Touches(s[j], kind) => ~s[j].released
      BY <2>2 DEF Latest
    <3>2. i \in 1 .. d
      BY <1>1, <1>8, <3>1, Zenon
    <3>3. \A j \in i + 1 .. d : Touches(s[j], kind) => ~s[j].released
      BY <1>5, <3>1, <3>2, Zenon
    <3> QED
      BY <3>1, <3>2, <3>3, Zenon DEF Latest
  <2> QED
    BY <1>8, <2>1, <2>2, Zenon
<1> QED
  BY <1>6, <1>7, <1>8, Zenon

\* A longer sequence says the same of its first scan codes.
LEMMA LatestSame ==
  ASSUME NEW s, NEW t, NEW d \in Nat, NEW kind, \A i \in 1 .. d : t[i] = s[i]
  PROVE  Latest(t, d, kind) <=> Latest(s, d, kind)
<1>1. \A i \in 1 .. d : \A j \in i + 1 .. d : j \in 1 .. d
  OBVIOUS
<1> QED
  BY <1>1, Zenon DEF Latest

\* The keymap knows the two keys of each kind, and no others.
LEMMA KeysOfKind ==
  ASSUME NEW c \in ScanCode
  PROVE  /\ Touches(c, Shifts) <=> KeyOf(c) \in {"LeftShift", "RightShift"}
         /\ Touches(c, Ctrls) <=> KeyOf(c) \in {"LeftCtrl", "RightCtrl"}
<1>1. c.ext \in BOOLEAN /\ c.code \notin KeyNames
  BY CodesApart DEF ScanCode
<1>2. Touches(c, Shifts) <=> ~c.ext /\ (c.code = "12" \/ c.code = "59")
  <2> DEFINE k1 == [ext |-> FALSE, code |-> "12"]
             k2 == [ext |-> FALSE, code |-> "59"]
  <2>1. Touches(c, Shifts) <=> IsOf(c, k1) \/ IsOf(c, k2)
    BY Zenon DEF Touches, Shifts
  <2>2. IsOf(c, k1) <=> ~c.ext /\ c.code = "12"
    BY <1>1 DEF IsOf
  <2>3. IsOf(c, k2) <=> ~c.ext /\ c.code = "59"
    BY <1>1 DEF IsOf
  <2> QED
    BY <2>1, <2>2, <2>3, Zenon
<1>3. Touches(c, Ctrls) <=> c.code = "14"
  <2> DEFINE k1 == [ext |-> FALSE, code |-> "14"]
             k2 == [ext |-> TRUE, code |-> "14"]
  <2>1. Touches(c, Ctrls) <=> IsOf(c, k1) \/ IsOf(c, k2)
    BY Zenon DEF Touches, Ctrls
  <2>2. IsOf(c, k1) <=> ~c.ext /\ c.code = "14"
    BY <1>1 DEF IsOf
  <2>3. IsOf(c, k2) <=> c.ext /\ c.code = "14"
    BY <1>1 DEF IsOf
  <2> QED
    BY <2>1, <2>2, <2>3, Zenon
<1> QED
  BY <1>1, <1>2, <1>3 DEF KeyOf, Keymap, KeyNames

\* The flag of a kind says what the latest scan code of the kind was.
LEMMA FlagsChange ==
  ASSUME NEW c \in ScanCode, modifiers' = NewModifiers(KeyOf(c), c.released)
  PROVE  /\ "SHIFT" \in modifiers' <=> IF Touches(c, Shifts) THEN ~c.released ELSE "SHIFT" \in modifiers
         /\ "CONTROL" \in modifiers' <=> IF Touches(c, Ctrls) THEN ~c.released ELSE "CONTROL" \in modifiers
<1> DEFINE key == KeyOf(c)
<1>1. /\ Touches(c, Shifts) <=> key \in {"LeftShift", "RightShift"}
      /\ Touches(c, Ctrls) <=> key \in {"LeftCtrl", "RightCtrl"}
  BY KeysOfKind
<1> HIDE DEF key
<1>2. modifiers' = NewModifiers(key, c.released)
  BY DEF key
<1>3. CASE key \in {"LeftShift", "RightShift"}
  BY <1>1, <1>2, <1>3 DEF NewModifiers
<1>4. CASE key \in {"LeftCtrl", "RightCtrl"}
  BY <1>1, <1>2, <1>4 DEF NewModifiers
<1>5. CASE key \notin {"LeftShift", "RightShift", "LeftCtrl", "RightCtrl"}
  BY <1>1, <1>2, <1>5 DEF NewModifiers
<1> QED
  BY <1>3, <1>4, <1>5

\* An overrun is no key's.
LEMMA NoFlag == ~Touches(OVR, Shifts) /\ ~Touches(OVR, Ctrls)
BY DEF Touches, IsOf, OVR, Shifts, Ctrls

\* A scan code that is handled is the latest.
LEMMA FlagsHandled ==
  ASSUME Parsed, Flags, HandlesNext
  PROVE  Flags'
<1> DEFINE c == sent[done + 1]
<1>1. done \in Nat /\ done' = done + 1 /\ sent' = sent
  BY DEF Parsed, HandlesNext
<1>2. /\ Latest(sent, done + 1, Shifts) <=> IF Touches(c, Shifts) THEN ~c.released ELSE Latest(sent, done, Shifts)
      /\ Latest(sent, done + 1, Ctrls) <=> IF Touches(c, Ctrls) THEN ~c.released ELSE Latest(sent, done, Ctrls)
  BY <1>1, LatestNext
<1>3. \/ c = OVR /\ modifiers' = modifiers
      \/ c \in ScanCode /\ modifiers' = NewModifiers(KeyOf(c), c.released)
  BY <1>1 DEF HandlesNext, Handles
<1> HIDE DEF c
<1>4. /\ "SHIFT" \in modifiers' <=> IF Touches(c, Shifts) THEN ~c.released ELSE "SHIFT" \in modifiers
      /\ "CONTROL" \in modifiers' <=> IF Touches(c, Ctrls) THEN ~c.released ELSE "CONTROL" \in modifiers
  BY <1>3, NoFlag, FlagsChange, Zenon
<1> QED
  BY <1>1, <1>2, <1>4, Zenon DEF Flags

\* What is sent later changes nothing yet.
LEMMA FlagsStay ==
  ASSUME Parsed, Flags, UNCHANGED <<modifiers, done>>, \A i \in 1 .. done : sent'[i] = sent[i]
  PROVE  Flags'
<1>1. done \in Nat
  BY DEF Parsed
<1>2. /\ Latest(sent', done, Shifts) <=> Latest(sent, done, Shifts)
      /\ Latest(sent', done, Ctrls) <=> Latest(sent, done, Ctrls)
  BY <1>1, LatestSame
<1> QED
  BY <1>2 DEF Flags

\* The keyboard sends a scan code or an overrun, or loses both.
LEMMA HeldKey ==
  ASSUME IInv, Parsed, HeldAre, NEW k \in Keys, NEW released \in BOOLEAN, Key(k, released)
  PROVE  HeldAre'
<1> DEFINE c == [ext |-> k.ext, code |-> k.code, released |-> released]
           n == Len(sent)
<1>1. PICK item \in {c, OVR} :
        /\ item \in Items
        /\ \/ item = OVR /\ wire # <<>> /\ Last(wire) = "OVR" /\ UNCHANGED <<wire, sent>>
           \/ wire' = wire \o Bytes(item) /\ sent' = Append(sent, item)
  BY KeySends
<1>2. (released => k \in held) /\ held' = IF released THEN held \ {k} ELSE held \cup {k}
  BY KeySends
<1>3. sent \in Seq(Items) /\ wire \in Seq(WireBytes) /\ n \in Nat /\ Len(wire) \in Nat
  BY LenProperties DEF Parsed, IInv, BytesOK
<1>6. held' \subseteq AllKeys
  BY <1>2, KeysAssumption DEF HeldAre, AllKeys, Codes
<1>4. CASE item = OVR /\ wire # <<>> /\ Last(wire) = "OVR" /\ UNCHANGED <<wire, sent>>
  <2>1. Overrun
    <3>1. Len(wire) \in 1 .. Len(wire) /\ wire[Len(wire)] = "OVR"
      BY <1>3, <1>4, EmptySeq DEF Last
    <3> QED
      BY <3>1 DEF HeldAre
  <2> QED
    BY <1>4, <1>6, <2>1 DEF HeldAre, Overrun
<1>5. CASE wire' = wire \o Bytes(item) /\ sent' = Append(sent, item)
  <2>1. Len(sent') = n + 1 /\ sent'[n + 1] = item /\ \A i \in 1 .. n : sent'[i] = sent[i]
    BY <1>1, <1>3, <1>5, AppendProperties
  <2>2. \A i \in 1 .. n + 1 : i \in 1 .. n \/ i = n + 1
    BY <1>3
  <2>3. n + 1 \in 1 .. n + 1 /\ (n + 1) - 1 = n /\ \A i \in 1 .. n : i \in 1 .. n + 1
    BY <1>3
  <2>4. Overrun => Overrun'
    BY <2>1, <2>3, Zenon DEF Overrun
  <2>5. item = OVR => Overrun'
    BY <2>1, <2>3, Zenon DEF Overrun
  <2>6. ASSUME NEW i \in 1 .. Len(wire'), wire'[i] = "OVR" PROVE Overrun'
    <3> DEFINE m == Len(Bytes(item))
    <3>1. Bytes(item) \in Seq(WireBytes) /\ m \in 1 .. 3 /\ Bytes(item)[m] = item.code /\ (item.code = "OVR" <=> item = OVR)
          /\ \A j \in 1 .. m - 1 : Bytes(item)[j] \in PrefixBytes
      BY <1>1, BytesOf
    <3>2. Len(wire') = Len(wire) + m /\ wire'[i] = IF i <= Len(wire) THEN wire[i] ELSE Bytes(item)[i - Len(wire)]
      BY <1>3, <1>5, <3>1, ConcatProperties
    <3> HIDE DEF m
    <3>3. CASE i <= Len(wire)
      <4>1. i \in 1 .. Len(wire) /\ wire[i] = "OVR"
        BY <1>3, <2>6, <3>1, <3>2, <3>3
      <4> QED
        BY <2>4, <4>1 DEF HeldAre
    <3>4. CASE ~(i <= Len(wire))
      <4> DEFINE j == i - Len(wire)
      <4>1. j \in 1 .. m /\ Bytes(item)[j] = "OVR"
        BY <1>3, <2>6, <3>1, <3>2, <3>4
      <4> HIDE DEF j
      <4>2. j = m
        <5>1. j \in 1 .. m - 1 \/ j = m
          BY <3>1, <4>1
        <5>2. "OVR" \notin PrefixBytes
          BY DEF PrefixBytes
        <5> QED
          BY <3>1, <4>1, <5>1, <5>2, Zenon
      <4> QED
        BY <2>5, <3>1, <4>1, <4>2
    <3> QED
      BY <3>3, <3>4
  <2>8. ASSUME ~Overrun', NEW h \in AllKeys
        PROVE  h \in held' <=> Latest(sent', n + 1, {h})
    <3>1. ~Overrun /\ item = c
      BY <1>1, <2>4, <2>5, <2>8
    <3>2. h \in held <=> Latest(sent, n, {h})
      BY <3>1 DEF HeldAre
    <3>3. Latest(sent', n, {h}) <=> Latest(sent, n, {h})
      BY <1>3, <2>1, LatestSame
    <3>4. Latest(sent', n + 1, {h})
            <=> IF Touches(sent'[n + 1], {h}) THEN ~sent'[n + 1].released ELSE Latest(sent', n, {h})
      BY <1>3, LatestNext
    <3>5. sent'[n + 1] = c /\ c.released = released
      BY <2>1, <3>1
    <3>6. Touches(c, {h}) <=> h = k
      <4>1. k \in AllKeys
        BY KeysAssumption DEF AllKeys, Codes
      <4>2. c.ext = k.ext /\ c.code = k.code
        OBVIOUS
      <4> HIDE DEF c
      <4>3. Touches(c, {h}) <=> k.ext = h.ext /\ k.code = h.code
        BY <4>2, Zenon DEF Touches, IsOf
      <4> QED
        BY <2>8, <4>1, <4>3 DEF AllKeys
    <3> HIDE DEF c, n
    <3>7. h \in held' <=> IF h = k THEN ~released ELSE h \in held
      BY <1>2
    <3> QED
      BY <3>2, <3>3, <3>4, <3>5, <3>6, <3>7, Zenon
  <2> HIDE DEF n
  <2> QED
    BY <1>6, <2>1, <2>6, <2>8, Zenon DEF HeldAre
<1> QED
  BY <1>1, <1>4, <1>5

\* The driver takes bytes from the wire only.
LEMMA HeldStays ==
  ASSUME HeldAre, UNCHANGED <<sent, held>>,
         \A i \in 1 .. Len(wire') : \E j \in 1 .. Len(wire) : wire'[i] = wire[j]
  PROVE  HeldAre'
BY DEF HeldAre, Overrun

-----------------------------------------------------------------------------
(* The invariant *)

LEMMA InitKInv == Init => KInv
<1> SUFFICES ASSUME Init PROVE KInv
  OBVIOUS
<1>1. IInv
  BY InitIInv
<1>2. Parsed
  <2> DEFINE pos == [i \in Nat |-> 0]
  <2>1. pos \in [Nat -> Nat] /\ \A i \in Nat : pos[i] = 0
    OBVIOUS
  <2>2. Len(<<>>) = 0 /\ <<>> \in Seq(Items)
    OBVIOUS
  <2> HIDE DEF pos
  <2>3. Cut(<<>>, <<>>, <<>>, 0, pos)
    BY <2>1, <2>2 DEF Cut
  <2> QED
    BY <2>2, <2>3 DEF Init, Parsed
<1>3. Flags
  <2>1. done = 0 /\ modifiers = {} /\ 1 .. 0 = {}
    BY DEF Init
  <2> QED
    BY <2>1 DEF Flags, Latest
<1>4. HeldAre
  <2>1. Len(sent) = 0 /\ Len(wire) = 0 /\ held = {} /\ 1 .. 0 = {}
    BY DEF Init
  <2>2. \A k : ~Latest(sent, Len(sent), {k})
    BY <2>1, Zenon DEF Latest
  <2> QED
    BY <2>1, <2>2 DEF HeldAre
<1> QED
  BY <1>1, <1>2, <1>3, <1>4 DEF KInv

\* The main thread touches the ring only.
LEMMA SameKInv ==
  ASSUME KInv, UNCHANGED <<held, wire, byte_buffer, modifiers, sent, done>>
  PROVE  Parsed' /\ Flags' /\ HeldAre'
BY DEF KInv, Parsed, Flags, HeldAre, Overrun

LEMMA NextKInv == KInv /\ [Next]_vars => KInv'
<1> SUFFICES ASSUME KInv, [Next]_vars PROVE KInv'
  OBVIOUS
<1>0. IInv'
  BY NextIInv DEF KInv
<1>1. ASSUME NEW k \in Keys, NEW released \in BOOLEAN, Key(k, released)
      PROVE  Parsed' /\ Flags' /\ HeldAre'
  <2>1. UNCHANGED <<byte_buffer, modifiers, done>>
    BY <1>1, KeySends DEF driver
  <2>2. PICK item \in Items :
          \/ UNCHANGED <<wire, sent>>
          \/ wire' = wire \o Bytes(item) /\ sent' = Append(sent, item)
    BY <1>1, KeySends
  <2>3. HeldAre'
    BY <1>1, HeldKey DEF KInv
  <2>4. CASE UNCHANGED <<wire, sent>>
    BY <2>1, <2>3, <2>4 DEF KInv, Parsed, Flags
  <2>5. CASE wire' = wire \o Bytes(item) /\ sent' = Append(sent, item)
    <3>1. Parsed'
      BY <2>1, <2>5, SentParses DEF KInv
    <3>2. \A i \in 1 .. done : sent'[i] = sent[i]
      <4>1. sent \in Seq(Items) /\ done \in 0 .. Len(sent) /\ Len(sent) \in Nat
        BY LenProperties DEF KInv, Parsed
      <4>2. \A i \in 1 .. Len(sent) : Append(sent, item)[i] = sent[i]
        BY <4>1, AppendProperties
      <4>3. \A i \in 1 .. done : i \in 1 .. Len(sent)
        BY <4>1
      <4> QED
        BY <2>5, <4>2, <4>3
    <3>3. Flags'
      BY <2>1, <3>2, FlagsStay DEF KInv
    <3> QED
      BY <2>3, <3>1, <3>3
  <2> QED
    BY <2>2, <2>4, <2>5
<1>2. CASE Irq1
  <2>1. Gathers \/ HandlesNext
    BY <1>2, Irq1Parses DEF KInv
  <2>2. HeldAre'
    <3>1. UNCHANGED <<sent, held>>
      BY <2>1 DEF Gathers, HandlesNext
    <3>2. wire \in Seq(WireBytes) /\ wire # <<>> /\ wire' = Tail(wire)
      BY <1>2 DEF Irq1, KInv, IInv, BytesOK
    <3>3. Len(wire) \in Nat \ {0} /\ Len(wire') = Len(wire) - 1 /\ \A i \in 1 .. Len(wire') : wire'[i] = wire[i + 1]
      BY <3>2, HeadTailProperties, EmptySeq
    <3>4. \A i \in 1 .. Len(wire') : i + 1 \in 1 .. Len(wire)
      BY <3>3
    <3>5. \A i \in 1 .. Len(wire') : \E j \in 1 .. Len(wire) : wire'[i] = wire[j]
      BY <3>3, <3>4
    <3> QED
      BY <3>1, <3>5, HeldStays DEF KInv
  <2>3. CASE Gathers
    <3>1. Flags'
      BY <2>3, FlagsStay DEF Gathers, KInv
    <3> QED
      BY <1>0, <2>2, <2>3, <3>1 DEF Gathers, KInv
  <2>4. CASE HandlesNext
    <3>1. Flags'
      BY <2>4, FlagsHandled DEF KInv
    <3> QED
      BY <1>0, <2>2, <2>4, <3>1 DEF HandlesNext, KInv
  <2> QED
    BY <2>1, <2>3, <2>4
<1>3. CASE GetKeyEvent
  <2>1. UNCHANGED <<held, wire, byte_buffer, modifiers, sent, done>>
    BY <1>3 DEF GetKeyEvent, Enter, Empty, Copy, Drop, driver
  <2> QED
    BY <1>0, <2>1, SameKInv DEF KInv
<1>4. CASE UNCHANGED vars
  <2>1. UNCHANGED <<held, wire, byte_buffer, modifiers, sent, done>>
    BY <1>4 DEF vars, driver
  <2> QED
    BY <1>0, <2>1, SameKInv DEF KInv
<1> QED
  BY <1>0, <1>1, <1>2, <1>3, <1>4 DEF Next, KInv

LEMMA AlwaysKInv == Spec => []KInv
BY InitKInv, NextKInv, PTL DEF Spec

\* Each scan code handled becomes its event, in the slot that was the head; an overrun none.
THEOREM EventsFollowScanCodes == Spec => EventsMatchScanCodes
<1> DEFINE Matches ==
      done' # done =>
        LET c == sent[done'] IN
        IF c = OVR THEN UNCHANGED <<queue, head, tail, len>>
        ELSE head' = (head + 1) % QueueSize /\ queue'[head] = EventOf(c, modifiers)
<1>1. KInv /\ [Next]_vars => [Matches]_vars
  <2> SUFFICES ASSUME KInv, [Next]_vars, done' # done PROVE Matches
    OBVIOUS
  <2>1. Irq1
    BY DEF Next, Key, GetKeyEvent, Enter, Empty, Copy, Drop, vars
  <2>2. HandlesNext
    BY <2>1, Irq1Parses DEF KInv, Gathers
  <2> DEFINE c == sent[done']
  <2>3. CASE c = OVR /\ UNCHANGED <<queue, head, tail, len, modifiers>>
    BY <2>3
  <2>4. CASE c \in ScanCode /\ Handles(c)
    <3>1. c # OVR
      <4>1. c.code # "OVR"
        BY <2>4, CodesApart DEF ScanCode
      <4> QED
        BY <4>1 DEF OVR
    <3>2. Enqueue(EventOf(c, modifiers)) /\ head \in DOMAIN queue
      BY <2>4 DEF Handles, KInv, IInv, RingOK
    <3> HIDE DEF c
    <3>3. head' = (head + 1) % QueueSize /\ queue'[head] = EventOf(c, modifiers)
      BY <3>2 DEF Enqueue
    <3> QED
      BY <3>1, <3>3 DEF c
  <2> QED
    BY <2>2, <2>3, <2>4 DEF HandlesNext
<1> QED
  BY <1>1, AlwaysKInv, PTL DEF Spec, EventsMatchScanCodes

-----------------------------------------------------------------------------
(* The property of the modifiers *)

\* When the latest scan code of a kind is a press, its key is down; when it is a release, it
\* came after the press of any key still down, and is the other key's.
LEMMA FollowsLatest ==
  ASSUME Parsed, HeldAre, NEW flag, NEW kind \in {Shifts, Ctrls},
         flag \in modifiers <=> Latest(sent, done, kind)
  PROVE  Follows(flag, kind)
<1>1. done \in Nat /\ Len(sent) \in Nat /\ done <= Len(sent)
  <2>1. sent \in Seq(Items)
    BY DEF Parsed
  <2>2. Len(sent) \in Nat
    BY <2>1, LenProperties
  <2> QED
    BY <2>2 DEF Parsed
<1>2. ASSUME flag \in modifiers PROVE Down(kind) # {}
  <2>1. PICK i \in 1 .. done : /\ Touches(sent[i], kind) /\ ~sent[i].released
                               /\ \A j \in i + 1 .. done : Touches(sent[j], kind) => ~sent[j].released
    BY <1>2 DEF Latest
  <2>2. PICK k \in kind : IsOf(sent[i], k)
    BY <2>1 DEF Touches
  <2>3. k \in Down(kind)
    BY <2>1, <2>2, Zenon DEF Down, DownSince, Touches
  <2> QED
    BY <2>3
<1>3. ASSUME NEW k \in kind, NEW i \in 1 .. done, DownSince(i, k), flag \notin modifiers
      PROVE  \E j \in i + 1 .. done, other \in kind \ {k} : IsOf(sent[j], other) /\ sent[j].released
  <2>1. IsOf(sent[i], k) /\ ~sent[i].released /\ \A j \in i + 1 .. done : IsOf(sent[j], k) => ~sent[j].released
    BY <1>3 DEF DownSince
  <2>2. ~Latest(sent, done, kind) /\ Touches(sent[i], kind)
    BY <1>3, <2>1 DEF Touches
  <2>3. PICK j \in i + 1 .. done : Touches(sent[j], kind) /\ sent[j].released
    BY <2>1, <2>2, Zenon DEF Latest
  <2>4. PICK other \in kind : IsOf(sent[j], other)
    BY <2>3 DEF Touches
  <2>5. other # k
    BY <2>1, <2>3, <2>4
  <2> QED
    BY <2>3, <2>4, <2>5
<1>4. ASSUME done = Len(sent), \A i \in 1 .. done : sent[i] # OVR
      PROVE  Down(kind) = kind \cap held
  <2>1. kind \subseteq AllKeys
    <3>1. \A ext \in BOOLEAN, code \in {"12", "14", "59"} : [ext |-> ext, code |-> code] \in AllKeys
      BY DEF AllKeys
    <3>3. \A k \in Shifts \cup Ctrls : k \in AllKeys
      BY <3>1, Zenon DEF Shifts, Ctrls
    <3> QED
      BY <3>3
  <2>2. ~Overrun
    BY <1>4 DEF Overrun
  <2>3. \A k \in AllKeys : k \in held <=> Latest(sent, done, {k})
    BY <1>4, <2>2 DEF HeldAre
  <2>4. \A k : Latest(sent, done, {k}) <=> \E i \in 1 .. done : DownSince(i, k)
    BY Zenon DEF Latest, Touches, DownSince
  <2>5. \A k : k \in Down(kind) <=> k \in kind /\ \E i \in 1 .. done : DownSince(i, k)
    BY Zenon DEF Down
  <2>6. \A k : k \in Down(kind) <=> k \in kind \cap held
    BY <2>1, <2>3, <2>4, <2>5
  <2> QED
    BY <2>6
<1> QED
  BY <1>2, <1>3, <1>4, Zenon DEF Follows

LEMMA AtMostTwo == ASSUME NEW m \in 1 .. 3, NEW x \in Nat, x < m PROVE x \in 0 .. 2
OBVIOUS

\* What is gathered ends inside a scan code, so it has two bytes at most.
LEMMA TypesHold == KInv => TypeOK
<1> SUFFICES ASSUME KInv PROVE TypeOK
  OBVIOUS
<1>1. sent \in Seq(Items) /\ byte_buffer \in Seq({"E0", "F0"}) /\ done \in 0 .. Len(sent) /\ wire \in Seq(WireBytes)
  BY DEF KInv, Parsed, IInv, BytesOK, PrefixBytes
<1>2. Len(byte_buffer) \in 0 .. 2
  <2>1. Len(byte_buffer) \in Nat /\ Len(sent) \in Nat /\ Len(wire) \in Nat
    BY <1>1, LenProperties
  <2>2. CASE done < Len(sent)
    <3>1. done + 1 \in 1 .. Len(sent)
      BY <1>1, <2>1, <2>2
    <3>2. sent[done + 1] \in Items
      BY <1>1, <3>1, ElementOfSeq
    <3>3. Len(Bytes(sent[done + 1])) \in 1 .. 3 /\ Len(byte_buffer) < Len(Bytes(sent[done + 1]))
      BY <2>2, <3>2, BytesOf DEF KInv, Parsed
    <3> DEFINE m == Len(Bytes(sent[done + 1]))
    <3> HIDE DEF m
    <3>4. m \in 1 .. 3 /\ Len(byte_buffer) < m
      BY <3>3 DEF m
    <3> QED
      BY <2>1, <3>4, AtMostTwo, Zenon
  <2>3. CASE done = Len(sent)
    <3>1. PICK pos : pos[done] = 0 /\ pos[Len(sent)] = Len(byte_buffer) + Len(wire)
      BY DEF KInv, Parsed, Cut
    <3> QED
      BY <2>1, <2>3, <3>1
  <2> QED
    BY <1>1, <2>1, <2>2, <2>3
<1>3. byte_buffer \in BoundedSeq({"E0", "F0"}, 2)
  <2>1. byte_buffer \in [1 .. Len(byte_buffer) -> {"E0", "F0"}]
    BY <1>1, LenProperties
  <2> QED
    BY <1>2, <2>1 DEF BoundedSeq, SeqOf
<1>4. \A i \in Slots : queue[i].modifiers \in EventMods
  BY DEF KInv, IInv, RingOK, Event, NONE, EventMods
<1> QED
  BY <1>1, <1>3, <1>4 DEF TypeOK, KInv, IInv, RingOK, Critical, BytesOK

\* SHIFT and CONTROL are what the latest scan code of their kind says: never set without such
\* a key down, and set while one is, unless the other key of the kind was released after it
\* was pressed.  And the variables keep their types.
THEOREM ModifiersFollow == Spec => []ModifiersFollowKeys
<1>1. KInv => ModifiersFollowKeys
  <2> SUFFICES ASSUME KInv PROVE ModifiersFollowKeys
    OBVIOUS
  <2>1. TypeOK
    BY TypesHold
  <2>2. Follows("SHIFT", Shifts) /\ Follows("CONTROL", Ctrls)
    BY FollowsLatest DEF KInv, Flags
  <2> QED
    BY <2>1, <2>2 DEF ModifiersFollowKeys
<1> QED
  BY <1>1, AlwaysKInv, PTL
=============================================================================
