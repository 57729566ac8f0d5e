------------------------------ MODULE FatProofs ------------------------------
(* Theorems about Fat, for any volume and any failures of the device: the      *)
(* allocation table stays sound, on disk and as it is buffered, the files that *)
(* are not open keep their bytes, and reads and writes of the open one are at  *)
(* their place.                                                                *)
EXTENDS Fat, SequenceTheorems, FiniteSetTheorems, WellFoundedInduction, TLAPS

Sectors == 0 .. SectorOf(ClusterCount - 1)
Cells == 0 .. (SectorOf(ClusterCount - 1) + 1) * EntriesPerSector - 1
Places == {"done", "panic", "lookup", "seek", "copy", "put", "next", "scan", "link", "search",
           "format", "enter"}
CallFields == {"op", "pc", "name", "off", "len", "at", "skip", "cluster", "copied", "scan", "slot", "before"}

BufferTypes == cached \in {-1} \cup Sectors /\ cache \in [Slots -> TableEntries]
CallTypes ==
  /\ DOMAIN call = CallFields
  /\ call.op \in {"none", "open", "close", "read", "write", "create"} /\ call.pc \in Places
  /\ call.scan \in 0 .. ClusterCount
Types ==
  /\ table \in [Cells -> TableEntries]
  /\ DOMAIN data = Clusters /\ \A c \in Clusters : DOMAIN data[c] = 1 .. N
  /\ BufferTypes /\ CallTypes

\* Where a call may be, and what it needs to go on.
Placed ==
  /\ call.pc = "lookup" => call.op \in {"open", "create"} /\ call.cluster = Root
  /\ call.pc \in {"seek", "next"} => call.op \in {"read", "write"}
  /\ call.pc = "copy" => call.op = "read"
  /\ call.pc \in {"put", "link"} => call.op = "write"
  /\ call.pc = "scan" => call.op \in {"write", "create"} /\ call.scan >= 2
  /\ call.pc \in {"search", "format", "enter"} => call.op = "create"
  /\ call.op \in {"read", "write"} /\ call.pc # "done" => file # None
  /\ call.pc = "next" \/ (call.pc \in {"scan", "link"} /\ call.op = "write") => call.cluster \in Clusters
  /\ call.pc = "link" => call.scan \in Clusters
  /\ call.pc \in {"format", "enter"} => call.cluster \in Clusters
  /\ call.pc \in {"scan", "format", "enter"} /\ call.op = "create" => call.slot \in 1 .. N

\* A table next to the one on disk, t: its chains stay apart, and lead only to clusters
\* that are marked on disk.
Apart(x, t, heads) ==
  /\ \A p \in Clusters : x[p] \in Clusters => t[x[p]] # 0 /\ x[p] \notin heads
  /\ \A p, q \in Clusters : x[p] \in Clusters /\ (x[p] = x[q] \/ x[p] = t[q]) => p = q
Agree(x, t, heads) ==
  /\ Apart(t, t, heads) /\ Apart(x, t, heads)
  /\ \A c \in Clusters : t[c] # 0 => x[c] # 0
  /\ \A h \in heads : t[h] # 0

\* The chain from h on does not come to c.
Avoids(t, h, c) == \E S \in SUBSET Clusters :
  h \in S /\ c \notin S /\ \A p \in S : t[p] \in Clusters => t[p] \in S

\* A cluster a write may go to or continue from: it is in no other chain than the file's.
\* And a cluster that was marked and is to be linked.
Held(c) == c \in Clusters => \A h \in Heads(data[Root]) \ {file.first} :
             Avoids(table, h, c) /\ Avoids(Buffered, h, c)
Loose(c) ==
  /\ table[c] # 0 /\ c \notin Heads(data[Root])
  /\ \A p \in Clusters : table[p] # c /\ Buffered[p] # c

RootSound ==
  /\ \A e \in RootEntries : e.first \in (Clusters \cup {0}) \ {Root} /\ e.size \in Nat
  /\ Agree(Buffered, table, Heads(data[Root]))
FileSound == file # None =>
  /\ DOMAIN file = {"first", "size", "dir"} /\ file.size \in Nat
  /\ file.first \in (Heads(data[Root]) \ {Root}) \cup {0}
CallSound ==
  /\ call.at \in Nat /\ call.len \in Nat
  /\ \E S : call.copied \in Seq(S)
  /\ Len(call.copied) <= call.len + N - 1
  /\ call.op = "write" => Len(call.copied) <= call.len
  /\ call.op = "write" /\ call.pc # "done" => Held(call.cluster)
  /\ call.pc = "link" => Loose(call.scan)
  /\ call.pc \in {"format", "enter"} => Loose(call.cluster)
Holds == RootSound /\ FileSound /\ CallSound

IInv == Types /\ Placed /\ ("torn" \notin faults => Holds)

LEMMA Smallest ==
  ASSUME NEW S, S \subseteq Nat, S # {}
  PROVE  \E n \in S : \A m \in S : n <= m
<1>1. PICK n \in S : \A m \in S : ~(<<m, n>> \in OpToRel(<, Nat))
  BY NatLessThanWellFounded, WFMin
<1>2. \A m \in S : ~(m < n)
  BY <1>1, Zenon DEF OpToRel
<1> QED
  BY <1>2

-----------------------------------------------------------------------------
(* Sectors of the table *)

LEMMA Division ==
  ASSUME NEW c \in Nat
  PROVE  /\ SectorOf(c) \in Nat /\ c % EntriesPerSector \in Slots
         /\ c = SectorOf(c) * EntriesPerSector + (c % EntriesPerSector)
BY SizesAssumption DEF SectorOf, Slots

LEMMA Quotient ==
  ASSUME NEW s \in Nat, NEW q \in Nat, NEW i \in Slots, NEW j \in Slots,
         s * EntriesPerSector + i = q * EntriesPerSector + j
  PROVE  s = q /\ i = j
<1> DEFINE e == EntriesPerSector
<1>1. e \in Nat \ {0} /\ i \in 0 .. e - 1 /\ j \in 0 .. e - 1
  BY SizesAssumption DEF Slots
<1>2. ASSUME NEW a \in Nat, NEW b \in Nat, a < b PROVE (a + 1) * e <= b * e /\ (a + 1) * e = a * e + e
  BY <1>1, <1>2
<1>3. s * e \in Nat /\ q * e \in Nat
  BY <1>1
<1>4. s * e + i = q * e + j
  OBVIOUS
<1> HIDE DEF e
<1>5. ~(s < q)
  <2>1. s < q => s * e + e <= q * e
    BY <1>2
  <2> HIDE DEF e
  <2> QED
    BY <1>1, <1>3, <1>4, <2>1
<1>6. ~(q < s)
  <2>1. q < s => q * e + e <= s * e
    BY <1>2
  <2> QED
    BY <1>1, <1>3, <1>4, <2>1
<1>7. s = q
  BY <1>5, <1>6
<1> QED
  BY <1>1, <1>3, <1>4, <1>7

LEMMA SectorTypes ==
  /\ SectorOf(ClusterCount - 1) \in Nat /\ Clusters \subseteq Cells /\ Clusters \subseteq Nat /\ Cells \subseteq Nat
  /\ \A c \in Cells : SectorOf(c) \in Sectors /\ c % EntriesPerSector \in Slots
  /\ \A s \in Sectors, i \in Slots : s * EntriesPerSector + i \in Cells
<1> DEFINE e == EntriesPerSector
           k == SectorOf(ClusterCount - 1)
           m == (k + 1) * e
<1>1. ClusterCount - 1 \in Nat /\ e \in Nat \ {0} /\ Slots = 0 .. e - 1
  BY SizesAssumption DEF Clusters, Slots
<1>2. k \in Nat /\ ClusterCount - 1 = k * e + ((ClusterCount - 1) % e) /\ (ClusterCount - 1) % e \in Slots
  BY <1>1, Division
<1>3. k * e \in Nat /\ m = k * e + e
  <2>1. ASSUME NEW a \in Nat, NEW b \in Nat PROVE a * b \in Nat /\ (a + 1) * b = a * b + b
    OBVIOUS
  <2> HIDE DEF e, k
  <2> QED
    BY <1>1, <1>2, <2>1
<1>4. Cells = 0 .. m - 1 /\ Sectors = 0 .. k
  BY DEF Cells, Sectors
<1> HIDE DEF e, k, m
<1>5. Clusters \subseteq Cells /\ Clusters \subseteq Nat /\ Cells \subseteq Nat
  <2>1. (ClusterCount - 1) % e \in 0 .. e - 1
    BY <1>1, <1>2
  <2>2. ClusterCount - 1 <= k * e + e - 1
    BY <1>1, <1>2, <1>3, <2>1
  <2>3. Clusters \subseteq 0 .. ClusterCount - 1
    BY DEF Clusters
  <2> QED
    BY <1>1, <1>3, <1>4, <2>2, <2>3
<1>6. ASSUME NEW c \in Cells PROVE SectorOf(c) \in Sectors /\ c % EntriesPerSector \in Slots
  <2>1. c \in Nat /\ c <= k * e + e - 1
    BY <1>1, <1>3, <1>4
  <2>2. SectorOf(c) \in Nat /\ c % e \in 0 .. e - 1 /\ c = SectorOf(c) * e + (c % e)
    BY <1>1, <2>1, Division DEF e
  <2>3. SectorOf(c) > k => SectorOf(c) * e >= k * e + e
    <3>1. ASSUME NEW s \in Nat, s > k PROVE s * e >= (k + 1) * e
      BY <1>1, <1>2, <3>1
    <3> QED
      BY <1>3, <2>2, <3>1 DEF m
  <2>4. SectorOf(c) * e \in Nat
    BY SMTT(60), <1>1, <2>2
  <2>5. ~(SectorOf(c) > k)
    BY <1>1, <1>3, <2>1, <2>2, <2>3, <2>4
  <2> QED
    BY <1>1, <1>2, <1>4, <2>2, <2>5 DEF e
<1>7. ASSUME NEW s \in Sectors, NEW i \in Slots PROVE s * EntriesPerSector + i \in Cells
  <2>1. s \in Nat /\ s <= k /\ i \in 0 .. e - 1
    BY <1>1, <1>4
  <2>2. s * e <= k * e /\ s * e \in Nat
    BY <1>1, <1>2, <2>1
  <2> QED
    BY <1>1, <1>3, <1>4, <2>1, <2>2 DEF e
<1> QED
  BY <1>2, <1>5, <1>6, <1>7 DEF k

\* What is loaded, changed in the buffer, and written back, as changes of whole tables.
LEMMA Loaded ==
  ASSUME Types, NEW s \in Sectors
  PROVE  SectorData(s) \in [Slots -> TableEntries] /\ View(table, SectorData(s), s) = table
<1>1. SectorData(s) \in [Slots -> TableEntries]
  BY SectorTypes DEF SectorData, Types
<1>2. ASSUME NEW c \in Cells, SectorOf(c) = s PROVE SectorData(s)[c % EntriesPerSector] = table[c]
  <2>1. c \in Nat /\ c % EntriesPerSector \in Slots /\ c = s * EntriesPerSector + (c % EntriesPerSector)
    BY <1>2, SectorTypes, Division
  <2> QED
    BY <2>1 DEF SectorData
<1>3. table = [c \in Cells |-> table[c]]
  BY DEF Types
<1> QED
  BY <1>1, <1>2, <1>3 DEF View

LEMMA OneCell ==
  ASSUME NEW c \in Cells
  PROVE  \A x \in Cells : SectorOf(x) = SectorOf(c) /\ x % EntriesPerSector = c % EntriesPerSector => x = c
<1>1. ASSUME NEW x \in Cells, SectorOf(x) = SectorOf(c), x % EntriesPerSector = c % EntriesPerSector PROVE x = c
  <2>1. x \in Nat /\ c \in Nat
    BY SectorTypes
  <2> QED
    BY <1>1, <2>1, Division
<1> QED
  BY <1>1

LEMMA WrittenBack ==
  ASSUME Types, NEW s, NEW sector, WriteTable(s, sector)
  PROVE  table' = View(table, sector, s) /\ View(table', sector, s) = table'
BY DEF Types, WriteTable, View

LEMMA ViewType ==
  ASSUME Types, NEW s, NEW sector \in [Slots -> TableEntries]
  PROVE  View(table, sector, s) \in [Cells -> TableEntries]
BY SectorTypes DEF Types, View

-----------------------------------------------------------------------------
(* Tables that agree *)

LEMMA Marks == 0 \notin Clusters /\ EOC \notin Clusters /\ Clusters \subseteq TableEntries
BY SizesAssumption DEF Clusters, TableEntries

LEMMA AgreeSound ==
  ASSUME NEW x, NEW t, NEW heads, heads \subseteq Clusters, Agree(x, t, heads)
  PROVE  Sound(t, heads) /\ Sound(x, heads) /\ Agree(t, t, heads) /\ Agree(x, x, heads)
BY DEF Agree, Apart, Sound

\* A cluster that is free on disk begins no chain, and none leads to it.
LEMMA FreeIsLoose ==
  ASSUME NEW x, NEW t, NEW heads, Agree(x, t, heads), NEW c \in Clusters, t[c] = 0
  PROVE  c \notin heads /\ \A p \in Clusters : t[p] # c /\ x[p] # c
BY DEF Agree, Apart

LEMMA AgreeMarked ==
  ASSUME NEW x \in [Cells -> TableEntries], NEW t \in [Cells -> TableEntries], NEW heads,
         Agree(x, t, heads), NEW c \in Clusters
  PROVE  Agree([x EXCEPT ![c] = EOC], t, heads)
<1> DEFINE y == [x EXCEPT ![c] = EOC]
<1>1. y[c] = EOC /\ \A p \in Clusters : p # c => y[p] = x[p]
  BY SectorTypes
<1>2. EOC # 0 /\ EOC \notin Clusters
  BY Marks DEF EOC
<1> HIDE DEF y
<1>3. Apart(y, t, heads)
  BY <1>1, <1>2 DEF Agree, Apart
<1>4. \A p \in Clusters : t[p] # 0 => y[p] # 0
  BY <1>1, <1>2 DEF Agree
<1> QED
  BY <1>3, <1>4 DEF Agree, y

LEMMA AgreeLinked ==
  ASSUME NEW x \in [Cells -> TableEntries], NEW t \in [Cells -> TableEntries], NEW heads,
         Agree(x, t, heads), NEW c \in Clusters, NEW next \in Clusters, t[next] # 0, next \notin heads,
         \A p \in Clusters : x[p] # next /\ t[p] # next
  PROVE  Agree([x EXCEPT ![c] = next], t, heads)
<1> DEFINE y == [x EXCEPT ![c] = next]
<1>1. y[c] = next /\ \A p \in Clusters : p # c => y[p] = x[p]
  BY SectorTypes
<1>2. next # 0
  BY Marks
<1> HIDE DEF y
<1>3. Apart(y, t, heads)
  <2>1. ASSUME NEW p \in Clusters, y[p] \in Clusters PROVE t[y[p]] # 0 /\ y[p] \notin heads
    BY <1>1, <2>1 DEF Agree, Apart
  <2>2. ASSUME NEW p \in Clusters, NEW q \in Clusters, y[p] \in Clusters, y[p] = y[q] PROVE p = q
    BY <1>1, <2>2 DEF Agree, Apart
  <2>3. ASSUME NEW p \in Clusters, NEW q \in Clusters, y[p] \in Clusters, y[p] = t[q] PROVE p = q
    BY <1>1, <2>3 DEF Agree, Apart
  <2> QED
    BY <2>1, <2>2, <2>3 DEF Apart
<1>4. \A p \in Clusters : t[p] # 0 => y[p] # 0
  BY <1>1, <1>2 DEF Agree
<1> QED
  BY <1>3, <1>4 DEF Agree, y

LEMMA NothingLeadsTo ==
  ASSUME NEW t, NEW c, NEW h \in Clusters, h # c, \A p \in Clusters : t[p] # c
  PROVE  Avoids(t, h, c)
<1> DEFINE S == Clusters \ {c}
<1>1. S \in SUBSET Clusters /\ h \in S /\ c \notin S /\ \A p \in S : t[p] \in Clusters => t[p] \in S
  OBVIOUS
<1> HIDE DEF S
<1> QED
  BY <1>1 DEF Avoids

\* A chain that does not come to c does not come to a cluster that only c may lead to.
LEMMA AvoidsNext ==
  ASSUME NEW t, NEW h, NEW c, Avoids(t, h, c), NEW next, next # h, \A p \in Clusters : t[p] = next => p = c
  PROVE  Avoids(t, h, next)
<1>1. PICK T \in SUBSET Clusters : h \in T /\ c \notin T /\ \A p \in T : t[p] \in Clusters => t[p] \in T
  BY DEF Avoids
<1> DEFINE S == T \ {next}
<1>2. S \in SUBSET Clusters /\ h \in S /\ next \notin S /\ \A p \in S : t[p] \in Clusters => t[p] \in S
  BY <1>1
<1> HIDE DEF S
<1> QED
  BY <1>2 DEF Avoids

\* A change of the table is not seen by the chains that do not come to it.
LEMMA AvoidsMarked ==
  ASSUME NEW x \in [Cells -> TableEntries], NEW h, NEW c, Avoids(x, h, c), NEW m
  PROVE  Avoids([x EXCEPT ![m] = EOC], h, c)
<1>1. PICK S \in SUBSET Clusters : h \in S /\ c \notin S /\ \A p \in S : x[p] \in Clusters => x[p] \in S
  BY DEF Avoids
<1> DEFINE y == [x EXCEPT ![m] = EOC]
<1>2. \A p \in S : y[p] \in Clusters => y[p] \in S
  BY <1>1, SectorTypes, Marks
<1> HIDE DEF y
<1> QED
  BY <1>1, <1>2 DEF Avoids, y

LEMMA AvoidsLinked ==
  ASSUME NEW x \in [Cells -> TableEntries], NEW h, NEW c, Avoids(x, h, c), NEW next, next # h,
         \A p \in Clusters : x[p] # next
  PROVE  Avoids([x EXCEPT ![c] = next], h, next)
<1>1. PICK T \in SUBSET Clusters : h \in T /\ c \notin T /\ \A p \in T : x[p] \in Clusters => x[p] \in T
  BY DEF Avoids
<1> DEFINE S == T \ {next}
           y == [x EXCEPT ![c] = next]
<1>2. \A p \in S : y[p] = x[p]
  BY <1>1, SectorTypes
<1> HIDE DEF y
<1>3. S \in SUBSET Clusters /\ h \in S /\ next \notin S /\ \A p \in S : y[p] \in Clusters => y[p] \in S
  BY <1>1, <1>2
<1> HIDE DEF S
<1> QED
  BY <1>3 DEF Avoids, y

-----------------------------------------------------------------------------
(* Reading the table, and steps that leave the root directory and the table alone *)

LEMMA GetNextKeeps ==
  ASSUME Types, NEW c \in Clusters, NEW r \in GetNext(c), Took(r), UNCHANGED table
  PROVE  /\ BufferTypes' /\ r.next \in TableEntries
         /\ faults' = {} => r.next \in {Buffered[c], table[c]}
         /\ "torn" \notin faults' =>
              /\ "torn" \notin faults /\ Buffered' \in {Buffered, table}
              /\ r.next \in {0, Buffered[c], table[c]}
<1> DEFINE s == SectorOf(c)
           i == c % EntriesPerSector
<1>1. c \in Cells /\ s \in Sectors /\ i \in Slots
  BY SectorTypes
<1>2. SectorData(s) \in [Slots -> TableEntries] /\ View(table, SectorData(s), s) = table
  BY <1>1, Loaded
<1>3. SectorData(s)[i] = table[c]
  <2>1. c = s * EntriesPerSector + i
    BY SectorTypes, Division
  <2> QED
    BY <1>1, <2>1 DEF SectorData
<1>4. s = cached => cache[i] = Buffered[c]
  BY <1>1 DEF Buffered, View, Types
<1>5. Buffered' = View(table, cache', cached')
  BY DEF Buffered, View
<1>6. 0 \in TableEntries /\ cache \in [Slots -> TableEntries] /\ cached \in {-1} \cup Sectors
  BY DEF TableEntries, Types, BufferTypes
<1>7. cache' = r.cache /\ cached' = r.cached /\ faults' = r.faults
  BY DEF Took
<1> HIDE DEF s, i
<1>8. CASE cached = s /\ r = Outcome(cache[i], cache, cached, {})
  BY <1>1, <1>4, <1>5, <1>6, <1>7, <1>8 DEF Outcome, BufferTypes, Buffered
<1>9. CASE r = Outcome(SectorData(s)[i], SectorData(s), s, {})
  BY <1>1, <1>2, <1>3, <1>5, <1>6, <1>7, <1>9 DEF Outcome, BufferTypes
<1>10. CASE r = Outcome(0, cache, cached, {"read"})
  BY <1>5, <1>6, <1>7, <1>10 DEF Outcome, BufferTypes, Buffered
<1>11. CASE r = Outcome(0, SectorData(s), cached, {"torn"})
  BY <1>2, <1>6, <1>7, <1>11 DEF Outcome, BufferTypes
<1> QED
  BY <1>8, <1>9, <1>10, <1>11 DEF GetNext, s, i

LEMMA HeadsAreClusters == RootSound => Heads(data[Root]) \subseteq Clusters
BY SizesAssumption DEF RootSound, RootEntries, Heads

LEMMA SoundStays ==
  ASSUME RootSound, UNCHANGED <<table, data[Root]>>, Buffered' \in {Buffered, table}
  PROVE  RootSound'
<1>1. Heads(data[Root])' = Heads(data[Root]) /\ RootEntries' = RootEntries
  BY DEF Heads, RootEntries, Entries
<1>2. Agree(table, table, Heads(data[Root]))
  BY HeadsAreClusters, AgreeSound DEF RootSound
<1>3. Agree(Buffered, table, Heads(data[Root]))' = Agree(Buffered', table, Heads(data[Root]))
  BY <1>1 DEF Agree, Apart
<1> QED
  BY <1>1, <1>2, <1>3 DEF RootSound

LEMMA Still ==
  ASSUME UNCHANGED <<table, cache, cached>>
  PROVE  Buffered' = Buffered /\ (BufferTypes => BufferTypes')
BY DEF Buffered, View, BufferTypes

\* A step that leaves the table, and the root directory unless the table was misread.
LEMMA Rewritten ==
  ASSUME IInv, UNCHANGED table, DOMAIN data' = Clusters, \A c \in Clusters : DOMAIN data'[c] = 1 .. N,
         BufferTypes', CallTypes', Placed',
         "torn" \notin faults' => "torn" \notin faults /\ Buffered' \in {Buffered, table},
         "torn" \notin faults' /\ Holds => UNCHANGED data[Root],
         "torn" \notin faults' /\ Holds /\ RootSound' => FileSound' /\ CallSound'
  PROVE  IInv'
<1>1. Types'
  BY DEF IInv, Types
<1>2. "torn" \notin faults' => RootSound'
  BY SoundStays DEF IInv, Holds
<1> QED
  BY <1>1, <1>2 DEF IInv, Holds

LEMMA Quiet ==
  ASSUME IInv, UNCHANGED <<table, data>>, BufferTypes', CallTypes', Placed',
         "torn" \notin faults' => "torn" \notin faults /\ Buffered' \in {Buffered, table},
         "torn" \notin faults' /\ Holds /\ RootSound' => FileSound' /\ CallSound'
  PROVE  IInv'
BY Rewritten DEF IInv, Types

-----------------------------------------------------------------------------
(* Calls begin *)

LEMMA OpenKeeps ==
  ASSUME IInv, NEW name \in Names, FAT_Open(name) \/ FAT_CreateDirectory(name)
  PROVE  IInv'
<1>1. PICK op \in {"open", "create"} :
        call' = [op |-> op, pc |-> "lookup", name |-> name, off |-> 0, len |-> 0, at |-> 0, skip |-> 0,
                 cluster |-> Root, copied |-> <<>>, scan |-> 0, slot |-> 0, before |-> <<>>]
  BY ZenonT(60) DEF FAT_Open, FAT_CreateDirectory, Begin, Step, Idle
<1>2. UNCHANGED <<table, data, cache, cached, file, faults>>
  BY DEF FAT_Open, FAT_CreateDirectory, Begin, disk, tableCache
<1>3. CallTypes' /\ Placed'
  BY <1>1, SizesAssumption DEF CallTypes, Placed, Places, CallFields
<1>4. FileSound /\ RootSound => FileSound'
  BY <1>2 DEF FileSound, Heads, Entries
<1>5. CallSound'
  BY <1>1, SizesAssumption, EmptySeq DEF CallSound
<1> QED
  BY <1>2, <1>3, <1>4, <1>5, Still, Quiet DEF IInv, Types, Holds

LEMMA Fields ==
  ASSUME NEW c, NEW op, NEW pc, NEW name, NEW off, NEW len, NEW skip, NEW cluster, NEW before,
         c = [op |-> op, pc |-> pc, name |-> name, off |-> off, len |-> len, at |-> off, skip |-> skip,
              cluster |-> cluster, copied |-> <<>>, scan |-> 0, slot |-> 0, before |-> before]
  PROVE  /\ DOMAIN c = CallFields /\ c.op = op /\ c.pc = pc /\ c.len = len /\ c.at = off
         /\ c.cluster = cluster /\ c.copied = <<>> /\ c.scan = 0
BY DEF CallFields

\* A call that has begun, and may be over already.
LEMMA Begun ==
  ASSUME DOMAIN call' = CallFields, call'.scan = 0, call'.copied = <<>>, file' = None => call'.pc = "done",
         \/ call'.pc = "lookup" /\ call'.op \in {"open", "create"} /\ call'.cluster = Root
         \/ call'.pc = "done" /\ call'.op \in {"close", "read", "write"}
         \/ call'.pc = "seek" /\ call'.op \in {"read", "write"}
  PROVE  /\ CallTypes' /\ Placed'
         /\ call'.at \in Nat /\ call'.len \in Nat /\ (call'.op = "write" => Held(call.cluster)') => CallSound'
<1>1. CallTypes' /\ Placed'
  BY SizesAssumption DEF CallTypes, Placed, Places
<1>2. call'.copied \in Seq({}) /\ Len(call'.copied) = 0
  BY EmptySeq
<1>3. call'.pc \notin {"link", "format", "enter"}
  OBVIOUS
<1> QED
  BY <1>1, <1>2, <1>3, SizesAssumption DEF CallSound

LEMMA CloseKeeps ==
  ASSUME IInv, FAT_Close
  PROVE  IInv'
<1>1. call' = [op |-> "close", pc |-> "done", name |-> "", off |-> 0, len |-> 0, at |-> 0, skip |-> 0,
               cluster |-> 0, copied |-> <<>>, scan |-> 0, slot |-> 0, before |-> <<>>]
  BY DEF FAT_Close, Begin, Step, Idle
<1>2. UNCHANGED <<table, data, cache, cached, faults>> /\ file' = None
  BY DEF FAT_Close, Begin, disk, tableCache
<1>3. /\ DOMAIN call' = CallFields /\ call'.op = "close" /\ call'.pc = "done" /\ call'.len = 0
      /\ call'.at = 0 /\ call'.copied = <<>> /\ call'.scan = 0
  BY <1>1, Fields
<1>4. CallTypes' /\ Placed' /\ CallSound'
  BY <1>3, Begun
<1>5. FileSound'
  BY <1>2 DEF FileSound
<1> QED
  BY <1>2, <1>4, <1>5, Still, Quiet DEF IInv, Types, Holds

LEMMA ReadKeeps ==
  ASSUME IInv, NEW off \in Offsets, NEW len \in Lengths, FAT_Read(off, len)
  PROVE  IInv'
<1> DEFINE m == IF off + len > file.size THEN file.size - off ELSE len
<1>1. PICK pc \in {"done", "seek"}, n \in {0, m} :
        /\ call' = [op |-> "read", pc |-> pc, name |-> "", off |-> off, len |-> n, at |-> off,
                    skip |-> off \div N, cluster |-> file.first, copied |-> <<>>, scan |-> 0,
                    slot |-> 0, before |-> <<>>]
        /\ n = 0 \/ ~(off >= file.size)
  BY DEF FAT_Read, Begin, Step, Idle
<1>2. UNCHANGED <<table, data, cache, cached, file, faults>> /\ file # None
  BY DEF FAT_Read, Begin, disk, tableCache
<1>3. /\ DOMAIN call' = CallFields /\ call'.op = "read" /\ call'.pc = pc /\ call'.len = n
      /\ call'.at = off /\ call'.copied = <<>> /\ call'.scan = 0
  BY <1>1, Fields
<1>4. FileSound /\ RootSound => FileSound'
  BY <1>2 DEF FileSound, Heads, Entries
<1>5. FileSound => off \in Nat /\ n \in Nat
  <2>1. off \in Nat /\ len \in Nat
    BY SizesAssumption
  <2>2. FileSound => file.size \in Nat
    BY <1>2 DEF FileSound
  <2>3. off \in Nat /\ len \in Nat /\ file.size \in Nat /\ ~(off >= file.size) => m \in Nat
    OBVIOUS
  <2>4. n = 0 \/ (n = m /\ ~(off >= file.size))
    BY <1>1
  <2> HIDE DEF m
  <2> QED
    BY <2>1, <2>2, <2>3, <2>4
<1>6. CallTypes' /\ Placed' /\ (FileSound => CallSound')
  BY <1>2, <1>3, <1>5, Begun
<1> QED
  BY <1>2, <1>4, <1>6, Still, Quiet DEF IInv, Types, Holds

LEMMA WriteKeeps ==
  ASSUME IInv, NEW off \in Offsets, NEW len \in Lengths, FAT_Write(off, len)
  PROVE  IInv'
<1>1. PICK pc \in {"done", "seek"}, n \in {0, len} :
        call' = [op |-> "write", pc |-> pc, name |-> "", off |-> off, len |-> n, at |-> off,
                 skip |-> off \div N, cluster |-> file.first, copied |-> <<>>, scan |-> 0,
                 slot |-> 0, before |-> [table |-> table, data |-> data]]
  BY DEF FAT_Write, Begin, Step, Idle
<1>2. UNCHANGED <<table, data, cache, cached, file, faults>> /\ file # None
  BY DEF FAT_Write, Begin, disk, tableCache
<1>3. /\ DOMAIN call' = CallFields /\ call'.op = "write" /\ call'.pc = pc /\ call'.len = n
      /\ call'.at = off /\ call'.cluster = file.first /\ call'.copied = <<>> /\ call'.scan = 0
  BY ZenonT(60), <1>1, Fields
<1>4. FileSound /\ RootSound => FileSound'
  BY <1>2 DEF FileSound, Heads, Entries
<1>5. off \in Nat /\ n \in Nat
  BY SizesAssumption
<1>6. FileSound /\ RootSound => Held(call.cluster)'
  <2>1. ASSUME FileSound, RootSound, file.first \in Clusters, NEW h \in Heads(data[Root]) \ {file.first}
        PROVE  Avoids(table, h, file.first) /\ Avoids(Buffered, h, file.first)
    <3>1. h \in Clusters /\ file.first \in Heads(data[Root])
      BY <1>2, <2>1, HeadsAreClusters, Marks DEF FileSound
    <3>2. \A p \in Clusters : table[p] # file.first /\ Buffered[p] # file.first
      BY <2>1, <3>1 DEF RootSound, Agree, Apart
    <3> QED
      BY <3>1, <3>2, NothingLeadsTo
  <2>2. Buffered' = Buffered /\ Heads(data[Root])' = Heads(data[Root])
    BY <1>2, Still
  <2> QED
    BY <1>2, <1>3, <2>1, <2>2 DEF Held, Avoids
<1>7. CallTypes' /\ Placed' /\ (FileSound /\ RootSound => CallSound')
  BY <1>2, <1>3, <1>5, <1>6, Begun
<1> QED
  BY <1>2, <1>4, <1>7, Still, Quiet DEF IInv, Types, Holds

-----------------------------------------------------------------------------
(* Looking up a name, and reading *)

LEMMA Least ==
  ASSUME NEW S, S \subseteq 1 .. N, S # {}
  PROVE  (CHOOSE i \in S : \A j \in S : i <= j) \in S
<1>1. S \subseteq Nat
  BY SizesAssumption
<1>2. \E i \in S : \A j \in S : i <= j
  BY <1>1, Smallest
<1> QED
  BY <1>2

LEMMA FileStays ==
  ASSUME UNCHANGED <<file, data[Root]>>
  PROVE  FileSound => FileSound'
BY DEF FileSound, Heads, Entries

LEMMA HeldStays ==
  ASSUME UNCHANGED <<table, file, data[Root], call.cluster>>, Buffered' \in {Buffered, table}
  PROVE  Held(call.cluster) => Held(call.cluster)'
<1>1. Heads(data[Root])' = Heads(data[Root])
  BY DEF Heads, Entries
<1>2. ASSUME Held(call.cluster), call.cluster \in Clusters, NEW h \in Heads(data[Root]) \ {file.first}
      PROVE  Avoids(table, h, call.cluster)' /\ Avoids(Buffered, h, call.cluster)'
  BY <1>2 DEF Held, Avoids
<1> QED
  BY <1>1, <1>2 DEF Held

LEMMA LooseStays ==
  ASSUME UNCHANGED <<table, data[Root]>>, Buffered' \in {Buffered, table}
  PROVE  /\ UNCHANGED call.scan /\ Loose(call.scan) => Loose(call.scan)'
         /\ UNCHANGED call.cluster /\ Loose(call.cluster) => Loose(call.cluster)'
<1>1. Heads(data[Root])' = Heads(data[Root])
  BY DEF Heads, Entries
<1> QED
  BY <1>1 DEF Loose

LEMMA CallStays ==
  ASSUME UNCHANGED <<call, table, file, data[Root]>>, Buffered' \in {Buffered, table}
  PROVE  (CallTypes => CallTypes') /\ (Placed => Placed') /\ (CallSound => CallSound')
<1>1. (CallTypes => CallTypes') /\ (Placed => Placed')
  BY DEF CallTypes, Placed
<1>2. Held(call.cluster) => Held(call.cluster)'
  BY HeldStays
<1>3. (Loose(call.scan) => Loose(call.scan)') /\ (Loose(call.cluster) => Loose(call.cluster)')
  BY LooseStays
<1>4. CallSound => CallSound'
  BY <1>2, <1>3 DEF CallSound
<1> QED
  BY <1>1, <1>4

LEMMA HeldIsNotRoot ==
  ASSUME FileSound, file # None, Held(call.cluster), call.cluster \in Clusters
  PROVE  call.cluster # Root
BY SizesAssumption, Marks DEF Held, FileSound, Heads, Avoids

LEMMA Returned ==
  ASSUME CallTypes, Return(call)
  PROVE  /\ CallTypes' /\ Placed'
         /\ CallSound => CallSound'
<1>1. call' = [call EXCEPT !.pc = "done"]
  BY DEF Return
<1>2. /\ DOMAIN call' = CallFields /\ call'.op = call.op /\ call'.pc = "done" /\ call'.at = call.at
      /\ call'.len = call.len /\ call'.copied = call.copied /\ call'.scan = call.scan
      /\ call'.cluster = call.cluster
  BY <1>1 DEF CallTypes, CallFields
<1> HIDE <1>1
<1> QED
  BY <1>2 DEF CallTypes, Placed, CallSound, Places

LEMMA LookupKeeps ==
  ASSUME IInv, Lookup
  PROVE  IInv'
<1> DEFINE there == Named(call.cluster, call.name)
           i == CHOOSE i \in there : \A j \in there : i <= j
           e == data[Root][i]
<1>1. /\ UNCHANGED <<table, data, cache, cached>> /\ ("torn" \notin faults' => "torn" \notin faults)
      /\ call.cluster = Root /\ call.op \in {"open", "create"}
  BY DEF Lookup, At, disk, tableCache, Fail, IInv, Placed
<1>2. there # {} => e \in RootEntries
  <2>1. there # {} => i \in there
    <3>1. there \subseteq 1 .. N
      BY DEF Named, Before
    <3> HIDE DEF there
    <3> QED
      BY <3>1, Least
  <2>2. there # {} => i \in 1 .. N /\ data[Root][i] \notin {End, Unused}
    <3>1. \A k \in there : k \in 1 .. N /\ data[Root][k] # Unused
      BY <1>1 DEF Named, Before
    <3>2. \A k \in there : data[Root][k] # End
      BY <1>1, SizesAssumption DEF Named, Before
    <3> HIDE DEF there, i
    <3> QED
      BY <2>1, <3>1, <3>2
  <2> HIDE DEF there, i
  <2> QED
    BY <2>2 DEF RootEntries, Entries
<1>3. CASE Return(call)
  <2>1. CallTypes' /\ Placed' /\ (CallSound => CallSound')
    BY <1>1, <1>3, Returned DEF IInv, Types
  <2>2. \/ UNCHANGED file
        \/ there # {} /\ file' = [first |-> e.first, size |-> e.size, dir |-> e.dir]
    BY <1>1, <1>3 DEF Lookup
  <2>3. FileSound /\ RootSound => FileSound'
    <3>1. UNCHANGED file => (FileSound => FileSound')
      BY <1>1, FileStays
    <3>2. Heads(data[Root])' = Heads(data[Root])
      BY <1>1
    <3> HIDE DEF there, e
    <3>3. e \in RootEntries /\ RootSound => e.first \in (Heads(data[Root]) \ {Root}) \cup {0} /\ e.size \in Nat
      BY DEF RootSound, Heads, RootEntries
    <3> QED
      BY <1>2, <2>2, <3>1, <3>2, <3>3 DEF FileSound
  <2> QED
    BY <1>1, <2>1, <2>3, Still, Quiet DEF IInv, Types, Holds
<1>4. CASE /\ UNCHANGED file
           /\ Step(call) \/ (Step([call EXCEPT !.pc = "search", !.cluster = Root]) /\ call.op = "create")
  <2>1. CASE Step(call)
    <3>1. CallTypes' /\ Placed' /\ (CallSound => CallSound')
      BY <1>1, <1>4, <2>1, Still, CallStays DEF Step, IInv, Types
    <3> QED
      BY <1>1, <1>4, <3>1, FileStays, Still, Quiet DEF IInv, Types, Holds
  <2>2. CASE Step([call EXCEPT !.pc = "search", !.cluster = Root]) /\ call.op = "create"
    <3>1. /\ DOMAIN call' = CallFields /\ call'.op = call.op /\ call'.pc = "search" /\ call'.at = call.at
          /\ call'.len = call.len /\ call'.copied = call.copied /\ call'.scan = call.scan
      BY <2>2 DEF Step, IInv, Types, CallTypes, CallFields
    <3>2. CallTypes' /\ Placed' /\ (CallSound => CallSound')
      BY <2>2, <3>1 DEF IInv, Types, CallTypes, Placed, CallSound, Places
    <3> QED
      BY <1>1, <1>4, <3>2, FileStays, Still, Quiet DEF IInv, Types, Holds
  <2> QED
    BY <1>4, <2>1, <2>2
<1>5. ASSUME NotFound PROVE Return(call) \/ (Step([call EXCEPT !.pc = "search", !.cluster = Root]) /\ call.op = "create")
  BY <1>5 DEF NotFound
<1>6. Return(call) \/ (UNCHANGED file /\ (Step(call) \/ NotFound))
  BY Zenon DEF Lookup
<1> QED
  BY <1>3, <1>4, <1>5, <1>6, Zenon

LEMMA Reading ==
  ASSUME CallTypes, call.op = "read", file' # None, DOMAIN call' = CallFields, call'.op = call.op,
         call'.len = call.len, call'.scan = call.scan, call'.pc \in {"seek", "copy", "next"},
         call'.pc = "next" => call'.cluster \in Clusters
  PROVE  /\ CallTypes' /\ Placed'
         /\ UNCHANGED <<call.at, call.copied>> => (CallSound => CallSound')
         /\ call'.at \in Nat /\ call'.len \in Nat /\ (\E S : call'.copied \in Seq(S))
              /\ Len(call'.copied) <= call.len + N - 1 => CallSound'
BY DEF CallTypes, Placed, CallSound, Places

LEMMA ReadSeekKeeps ==
  ASSUME IInv, ReadSeek
  PROVE  IInv'
<1>1. /\ UNCHANGED <<table, data, file>> /\ call.op = "read" /\ call.pc = "seek" /\ file # None
      /\ DOMAIN call = CallFields /\ CallTypes
  BY DEF ReadSeek, At, disk, IInv, Placed, Types, CallTypes
<1>2. CASE Step([call EXCEPT !.pc = "copy"]) /\ UNCHANGED <<tableCache, faults>>
  <2>1. /\ DOMAIN call' = CallFields /\ call'.op = call.op /\ call'.pc = "copy" /\ call'.len = call.len
        /\ call'.scan = call.scan /\ UNCHANGED <<call.at, call.copied>>
    BY <1>1, <1>2 DEF Step, CallFields
  <2> QED
    BY <1>1, <1>2, <2>1, Reading, FileStays, Still, Quiet DEF tableCache, IInv, Types, Holds
<1>3. CASE Return(call) /\ UNCHANGED <<tableCache, faults>>
  BY <1>1, <1>3, Returned, FileStays, Still, Quiet DEF tableCache, IInv, Types, Holds
<1>4. ASSUME call.cluster \in Clusters, NEW r \in GetNext(call.cluster), Took(r),
             Step([call EXCEPT !.skip = @ - 1, !.cluster = r.next])
      PROVE  IInv'
  <2>1. /\ DOMAIN call' = CallFields /\ call'.op = call.op /\ call'.pc = "seek" /\ call'.len = call.len
        /\ call'.scan = call.scan /\ UNCHANGED <<call.at, call.copied>>
    BY <1>1, <1>4 DEF Step, CallFields
  <2>2. CallTypes' /\ Placed' /\ (CallSound => CallSound')
    BY <1>1, <2>1, Reading
  <2>3. /\ BufferTypes'
        /\ "torn" \notin faults' => "torn" \notin faults /\ Buffered' \in {Buffered, table}
    BY <1>1, <1>4, GetNextKeeps DEF IInv
  <2> QED
    BY <1>1, <2>2, <2>3, FileStays, Quiet DEF Holds
<1> QED
  BY <1>2, <1>3, <1>4, Zenon DEF ReadSeek

LEMMA ReadCopyKeeps ==
  ASSUME IInv, ReadCopy
  PROVE  IInv'
<1>1. /\ UNCHANGED <<table, data, cache, cached, file>> /\ call.op = "read" /\ file # None
      /\ DOMAIN call = CallFields /\ CallTypes /\ BufferTypes' /\ Buffered' = Buffered
      /\ "torn" \notin faults' => "torn" \notin faults
  BY Still DEF ReadCopy, At, Fail, disk, tableCache, IInv, Placed, Types, CallTypes
<1>2. CASE Return(call)
  BY <1>1, <1>2, Returned, FileStays, Quiet DEF Holds
<1>3. CASE /\ Step([call EXCEPT !.copied = @ \o Piece, !.at = @ + ToCopy, !.pc = "next"])
           /\ ~(Len(call.copied) >= call.len) /\ call.cluster \in Clusters
  <2>1. /\ DOMAIN call' = CallFields /\ call'.op = call.op /\ call'.pc = "next" /\ call'.len = call.len
        /\ call'.scan = call.scan /\ call'.at = call.at + ToCopy /\ call'.copied = call.copied \o Piece
        /\ call'.cluster = call.cluster
    BY <1>1, <1>3 DEF Step, CallFields
  <2>2. ASSUME CallSound
        PROVE  /\ call'.at \in Nat /\ (\E S : call'.copied \in Seq(S))
               /\ Len(call'.copied) <= call.len + N - 1
    <3> DEFINE i == call.at % N
    <3>1. call.at \in Nat /\ call.len \in Nat /\ N \in Nat \ {0}
      BY <2>2, SizesAssumption DEF CallSound
    <3>2. i \in 0 .. N - 1
      BY <3>1
    <3> HIDE DEF i
    <3>3. ToCopy \in Nat /\ ToCopy <= N
      BY <3>1, <3>2 DEF ToCopy, i
    <3>4. PICK S : Piece \in Seq(S) /\ Len(Piece) = ToCopy
      <4> DEFINE T == {data[call.cluster][j] : j \in i + 1 .. i + ToCopy}
      <4>1. Piece = SubSeq(data[call.cluster], i + 1, i + ToCopy)
        BY DEF Piece, i
      <4>2. Piece \in Seq(T) /\ Len(Piece) = IF i + 1 <= i + ToCopy THEN (i + ToCopy) - (i + 1) + 1 ELSE 0
        <5>1. i + 1 \in Int /\ i + ToCopy \in Int
          BY <3>2, <3>3
        <5>2. \A j \in i + 1 .. i + ToCopy : data[call.cluster][j] \in T
          OBVIOUS
        <5> HIDE DEF T
        <5> QED
          BY <4>1, <5>1, <5>2, SubSeqProperties
      <4> QED
        BY <3>2, <3>3, <4>2
    <3>5. PICK U : call.copied \in Seq(U) /\ Len(call.copied) <= call.len + N - 1
      BY <2>2 DEF CallSound
    <3>6. call.copied \o Piece \in Seq(U \cup S) /\ Len(call.copied \o Piece) = Len(call.copied) + ToCopy
      <4>1. call.copied \in Seq(U \cup S) /\ Piece \in Seq(U \cup S)
        BY <3>4, <3>5
      <4> QED
        BY <3>4, <4>1, ConcatProperties
    <3>7. Len(call.copied) \in Nat
      BY <3>5, LenProperties
    <3> QED
      BY SMTT(60), <1>3, <2>1, <3>1, <3>3, <3>6, <3>7
  <2>3. CallTypes' /\ Placed' /\ (CallSound => CallSound')
    BY <1>1, <1>3, <2>1, <2>2, Reading DEF CallSound
  <2> QED
    BY <1>1, <2>3, FileStays, Quiet DEF Holds
<1> QED
  BY <1>2, <1>3, Zenon DEF ReadCopy

LEMMA ReadNextKeeps ==
  ASSUME IInv, ReadNext
  PROVE  IInv'
<1>1. /\ UNCHANGED <<table, data, file>> /\ call.op = "read" /\ call.cluster \in Clusters /\ file # None
      /\ DOMAIN call = CallFields /\ CallTypes
  BY DEF ReadNext, At, disk, IInv, Placed, Types, CallTypes
<1>2. PICK r \in GetNext(call.cluster) : Took(r) /\ Step([call EXCEPT !.pc = "copy", !.cluster = r.next])
  BY DEF ReadNext
<1>3. /\ DOMAIN call' = CallFields /\ call'.op = call.op /\ call'.pc = "copy" /\ call'.len = call.len
      /\ call'.scan = call.scan /\ UNCHANGED <<call.at, call.copied>>
  BY <1>1, <1>2 DEF Step, CallFields
<1>4. CallTypes' /\ Placed' /\ (CallSound => CallSound')
  BY <1>1, <1>3, Reading
<1>5. /\ BufferTypes'
      /\ "torn" \notin faults' => "torn" \notin faults /\ Buffered' \in {Buffered, table}
  BY <1>1, <1>2, GetNextKeeps DEF IInv
<1> QED
  BY <1>1, <1>4, <1>5, FileStays, Quiet DEF Holds

-----------------------------------------------------------------------------
(* Writing *)

LEMMA Writing ==
  ASSUME CallTypes, call.op = "write", file' # None, DOMAIN call' = CallFields, call'.op = call.op,
         call'.len = call.len, call'.scan \in {2, call.scan}, call'.pc \in {"panic", "put", "next", "scan"},
         call'.pc = "scan" => call'.scan >= 2,
         call'.pc \in {"next", "scan"} => call'.cluster \in Clusters
  PROVE  /\ CallTypes' /\ Placed'
         /\ UNCHANGED <<call.at, call.copied>> /\ Held(call.cluster)' /\ CallSound => CallSound'
         /\ call'.at \in Nat /\ call'.len \in Nat /\ (\E S : call'.copied \in Seq(S))
              /\ Len(call'.copied) <= call.len /\ Held(call.cluster)' => CallSound'
<1>1. ClusterCount \in Nat /\ 2 \in 0 .. ClusterCount /\ N \in Nat \ {0}
  BY SizesAssumption DEF Clusters
<1>2. CallTypes' /\ Placed'
  BY <1>1 DEF CallTypes, Placed, Places
<1>3. UNCHANGED <<call.at, call.copied>> /\ Held(call.cluster)' /\ CallSound => CallSound'
  BY DEF CallSound
<1>4. ASSUME NEW S, call'.copied \in Seq(S), call'.len \in Nat, Len(call'.copied) <= call'.len
      PROVE  Len(call'.copied) <= call'.len + N - 1
  BY <1>1, <1>4, LenProperties
<1>5. call'.at \in Nat /\ call'.len \in Nat /\ (\E S : call'.copied \in Seq(S))
        /\ Len(call'.copied) <= call.len /\ Held(call.cluster)' => CallSound'
  BY <1>4 DEF CallSound
<1> QED
  BY <1>2, <1>3, <1>5

LEMMA Ended ==
  ASSUME EndWrite, UNCHANGED <<table, data>>, CallTypes, file # None
  PROVE  /\ CallTypes' /\ Placed' /\ (CallSound => CallSound')
         /\ CallSound /\ FileSound => FileSound'
<1>1. Return(call)
  BY DEF EndWrite
<1>3. file' = [file EXCEPT !.size = call.at] \/ file' = file
  BY DEF EndWrite
<1>4. CallSound /\ FileSound => DOMAIN file' = {"first", "size", "dir"} /\ file'.size \in Nat /\ file'.first = file.first
  BY <1>3 DEF CallSound, FileSound
<1>5. Heads(data[Root])' = Heads(data[Root])
  BY DEF Heads, Entries
<1>6. CallSound /\ FileSound => FileSound'
  BY <1>4, <1>5 DEF FileSound
<1> QED
  BY <1>1, <1>6, Returned

LEMMA WriteSeekKeeps ==
  ASSUME IInv, WriteSeek
  PROVE  IInv'
<1>1. /\ UNCHANGED <<table, data, cache, cached, file, faults>> /\ call.op = "write" /\ file # None
      /\ DOMAIN call = CallFields /\ CallTypes /\ BufferTypes' /\ Buffered' = Buffered /\ call.pc = "seek"
  BY Still DEF WriteSeek, At, disk, tableCache, IInv, Placed, Types, CallTypes
<1>2. PICK pc \in {"panic", "put"} : call' = [call EXCEPT !.pc = pc]
  BY DEF WriteSeek, Step
<1>3. /\ DOMAIN call' = CallFields /\ call'.op = call.op /\ call'.pc = pc /\ call'.len = call.len
      /\ call'.scan = call.scan /\ UNCHANGED <<call.at, call.copied, call.cluster>>
  BY <1>1, <1>2 DEF CallFields
<1>4. Held(call.cluster) => Held(call.cluster)'
  BY <1>1, <1>3, HeldStays
<1>5. CallTypes' /\ Placed' /\ (CallSound => CallSound')
  BY <1>1, <1>3, <1>4, Writing DEF CallSound
<1> QED
  BY <1>1, <1>5, FileStays, Quiet DEF Holds

LEMMA WritePutKeeps ==
  ASSUME IInv, WritePut
  PROVE  IInv'
<1>1. /\ UNCHANGED <<table, cache, cached>> /\ call.op = "write" /\ call.pc = "put" /\ file # None
      /\ DOMAIN call = CallFields /\ CallTypes /\ BufferTypes' /\ Buffered' = Buffered
      /\ "torn" \notin faults' => "torn" \notin faults
  BY Still DEF WritePut, At, Fail, tableCache, IInv, Placed, Types, CallTypes
<1>2. CASE EndWrite /\ UNCHANGED data
  BY <1>1, <1>2, Ended, Quiet DEF Holds
<1>3. CASE /\ Written < call.len /\ call.cluster \in Clusters
           /\ data' = [data EXCEPT ![call.cluster] = Merged]
           /\ Step([call EXCEPT
                !.copied = @ \o [k \in 1 .. WriteLen |-> Source(Written + k)],
                !.at = @ + WriteLen,
                !.pc = IF Written + WriteLen < call.len THEN "next" ELSE "put"])
           /\ UNCHANGED <<file, faults>>
  <2> DEFINE piece == [k \in 1 .. WriteLen |-> Source(Written + k)]
  <2>1. /\ DOMAIN call' = CallFields /\ call'.op = call.op /\ call'.pc \in {"next", "put"} /\ call'.len = call.len
        /\ call'.scan = call.scan /\ call'.at = call.at + WriteLen /\ call'.copied = call.copied \o piece
        /\ call'.cluster = call.cluster
    BY <1>1, <1>3 DEF Step, CallFields
  <2>2. ASSUME CallSound
        PROVE  call'.at \in Nat /\ (\E S : call'.copied \in Seq(S)) /\ Len(call'.copied) <= call.len
    <3> DEFINE i == call.at % N
               S == {Source(Written + k) : k \in 1 .. WriteLen}
    <3>1. call.at \in Nat /\ call.len \in Nat /\ N \in Nat \ {0}
      BY <2>2, SizesAssumption DEF CallSound
    <3>2. i \in 0 .. N - 1
      BY <3>1
    <3>3. PICK U : call.copied \in Seq(U)
      BY <2>2 DEF CallSound
    <3>4. Written \in Nat /\ Written < call.len
      BY <1>3, <3>3, LenProperties DEF Written
    <3>5. WriteLen = IF N - i < call.len - Written THEN N - i ELSE call.len - Written
      BY DEF WriteLen
    <3> HIDE DEF i
    <3>6. WriteLen \in Nat /\ Written + WriteLen <= call.len
      BY <3>1, <3>2, <3>4, <3>5
    <3>7. piece \in [1 .. WriteLen -> S]
      OBVIOUS
    <3> HIDE DEF piece, S
    <3>8. piece \in Seq(S) /\ Len(piece) = WriteLen
      BY <3>6, <3>7
    <3>9. call.copied \in Seq(U \cup S) /\ piece \in Seq(U \cup S)
      BY <3>3, <3>8
    <3>10. call.copied \o piece \in Seq(U \cup S) /\ Len(call.copied \o piece) = Written + WriteLen
      BY <3>8, <3>9, ConcatProperties DEF Written
    <3> QED
      BY <2>1, <3>1, <3>6, <3>10
  <2>3. FileSound /\ Held(call.cluster) => Held(call.cluster)' /\ UNCHANGED data[Root]
    <3>1. FileSound /\ Held(call.cluster) => UNCHANGED data[Root]
      BY <1>1, <1>3, HeldIsNotRoot
    <3> QED
      BY <1>1, <1>3, <2>1, <3>1, HeldStays
  <2>4. CallTypes' /\ Placed' /\ (CallSound /\ FileSound => CallSound')
    <3> HIDE DEF piece
    <3> QED
      BY <1>1, <1>3, <2>1, <2>2, <2>3, Writing DEF CallSound
  <2>5. DOMAIN data' = Clusters /\ \A c \in Clusters : DOMAIN data'[c] = 1 .. N
    BY <1>3 DEF IInv, Types, Merged
  <2>6. Holds => Held(call.cluster)
    BY <1>1 DEF Holds, CallSound
  <2> HIDE DEF piece
  <2> QED
    BY <1>1, <1>3, <2>3, <2>4, <2>5, <2>6, FileStays, Rewritten DEF Holds
<1> QED
  BY <1>2, <1>3, Zenon DEF WritePut

LEMMA WriteNextKeeps ==
  ASSUME IInv, WriteNext
  PROVE  IInv'
<1>1. /\ UNCHANGED <<table, data, file>> /\ call.op = "write" /\ call.cluster \in Clusters /\ file # None
      /\ DOMAIN call = CallFields /\ CallTypes /\ call.pc = "next"
  BY DEF WriteNext, At, disk, IInv, Placed, Types, CallTypes
<1>2. PICK r \in GetNext(call.cluster) :
        /\ Took(r)
        /\ call' = IF r.next = 0 THEN [call EXCEPT !.pc = "scan", !.scan = 2]
                                 ELSE [call EXCEPT !.pc = "put", !.cluster = r.next]
  BY DEF WriteNext, Step
<1>3. /\ BufferTypes'
      /\ "torn" \notin faults' =>
           /\ "torn" \notin faults /\ Buffered' \in {Buffered, table}
           /\ r.next \in {0, Buffered[call.cluster], table[call.cluster]}
  BY <1>1, <1>2, GetNextKeeps DEF IInv
<1>4. /\ DOMAIN call' = CallFields /\ call'.op = call.op /\ call'.len = call.len
      /\ UNCHANGED <<call.at, call.copied>>
      /\ \/ r.next = 0 /\ call'.pc = "scan" /\ call'.scan = 2 /\ call'.cluster = call.cluster
         \/ call'.pc = "put" /\ call'.scan = call.scan /\ call'.cluster = r.next
  BY <1>1, <1>2 DEF CallFields
<1>5. Holds => Held(call.cluster)
  BY <1>1 DEF Holds, CallSound
<1>6. ASSUME "torn" \notin faults', Holds PROVE Held(call.cluster)'
  <2>1. CASE call'.cluster = call.cluster
    BY <1>1, <1>3, <1>5, <1>6, <2>1, HeldStays
  <2>2. CASE r.next = 0 /\ call'.cluster = r.next
    BY <2>2, Marks DEF Held
  <2>3. CASE r.next \in {Buffered[call.cluster], table[call.cluster]} /\ call'.cluster = r.next /\ r.next \in Clusters
    <3>1. ASSUME NEW h \in Heads(data[Root]) \ {file.first}
          PROVE  Avoids(table, h, r.next) /\ Avoids(Buffered, h, r.next)
      <4>1. Avoids(table, h, call.cluster) /\ Avoids(Buffered, h, call.cluster)
        BY <1>1, <1>5, <1>6 DEF Held
      <4>2. r.next # h
        BY <1>1, <1>6, <2>3 DEF Holds, RootSound, Agree, Apart
      <4>3. \A p \in Clusters : table[p] = r.next \/ Buffered[p] = r.next => p = call.cluster
        BY <1>1, <1>6, <2>3 DEF Holds, RootSound, Agree, Apart
      <4> QED
        BY <4>1, <4>2, <4>3, AvoidsNext
    <3>2. Heads(data[Root])' = Heads(data[Root]) /\ Buffered' \in {Buffered, table}
      BY <1>1, <1>3, <1>6
    <3>3. ASSUME NEW h \in Heads(data[Root]) \ {file.first}
          PROVE  Avoids(table, h, call.cluster)' /\ Avoids(Buffered, h, call.cluster)'
      BY <1>1, <2>3, <3>1, <3>2 DEF Avoids
    <3> QED
      BY <1>1, <3>2, <3>3 DEF Held
  <2>4. r.next \notin Clusters /\ call'.cluster = r.next => Held(call.cluster)'
    BY DEF Held
  <2> QED
    BY <1>3, <1>4, <1>6, <2>1, <2>2, <2>3, <2>4
<1>7. CallTypes' /\ Placed' /\ ("torn" \notin faults' /\ Holds => CallSound')
  BY <1>1, <1>4, <1>6, Writing DEF Holds
<1> QED
  BY <1>1, <1>3, <1>7, FileStays, Quiet DEF Holds

-----------------------------------------------------------------------------
(* A cluster is marked, and linked *)

LEMMA TableSectorIs ==
  ASSUME Types, NEW c \in Clusters
  PROVE  /\ c \in Cells /\ SectorOf(c) \in Sectors /\ TableSector(c) \in [Slots -> TableEntries]
         /\ View(table, TableSector(c), SectorOf(c)) \in {Buffered, table}
         /\ View(table, TableSector(c), SectorOf(c))[c] = TableSector(c)[c % EntriesPerSector]
         /\ View(table, TableSector(c), SectorOf(c)) \in [Cells -> TableEntries]
<1>1. c \in Cells /\ SectorOf(c) \in Sectors
  BY SectorTypes
<1>2. TableSector(c) \in [Slots -> TableEntries]
  BY <1>1, Loaded DEF TableSector, Types, BufferTypes
<1>3. View(table, TableSector(c), SectorOf(c)) \in {Buffered, table}
  BY <1>1, Loaded DEF TableSector, Buffered
<1>4. View(table, TableSector(c), SectorOf(c))[c] = TableSector(c)[c % EntriesPerSector]
  BY <1>1 DEF View, Types
<1> QED
  BY <1>1, <1>2, <1>3, <1>4, ViewType

\* One entry of the table is replaced, in the buffer.
LEMMA Changed ==
  ASSUME Types, NEW c \in Clusters, NEW v \in TableEntries,
         cache' = [TableSector(c) EXCEPT ![c % EntriesPerSector] = v], cached' = SectorOf(c)
  PROVE  \E x \in {Buffered, table} :
           /\ x \in [Cells -> TableEntries] /\ [x EXCEPT ![c] = v] \in [Cells -> TableEntries]
           /\ x[c] = TableSector(c)[c % EntriesPerSector]
           /\ BufferTypes' /\ View(table, cache', cached') = [x EXCEPT ![c] = v]
<1> DEFINE i == c % EntriesPerSector
           s == SectorOf(c)
           x == View(table, TableSector(c), s)
<1>1. /\ c \in Cells /\ s \in Sectors /\ TableSector(c) \in [Slots -> TableEntries]
      /\ x \in {Buffered, table} /\ x \in [Cells -> TableEntries] /\ x[c] = TableSector(c)[i]
  BY TableSectorIs
<1>2. View(table, [TableSector(c) EXCEPT ![i] = v], s) = [x EXCEPT ![c] = v]
  <2>1. \A p \in Cells : p % EntriesPerSector \in Slots
    BY SectorTypes
  <2> QED
    BY <1>1, <2>1, OneCell DEF View
<1>3. BufferTypes'
  BY <1>1 DEF BufferTypes
<1> HIDE DEF i, s, x
<1>4. View(table, cache', cached') = [x EXCEPT ![c] = v]
  BY <1>2 DEF i, s
<1> QED
  BY <1>1, <1>3, <1>4 DEF i

LEMMA AlsoAgrees ==
  ASSUME RootSound, NEW x \in {Buffered, table}
  PROVE  Agree(x, table, Heads(data[Root]))
BY HeadsAreClusters, AgreeSound DEF RootSound

\* A free cluster is marked: it is in no chain, on disk or buffered.
LEMMA Marking ==
  ASSUME Types, NEW c \in Clusters, IsFree(TableSector(c)[c % EntriesPerSector]),
         cache' = Marked(TableSector(c), c % EntriesPerSector), cached' = SectorOf(c)
  PROVE  \E x \in {Buffered, table} :
           /\ x \in [Cells -> TableEntries] /\ [x EXCEPT ![c] = EOC] \in [Cells -> TableEntries]
           /\ BufferTypes' /\ View(table, cache', cached') = [x EXCEPT ![c] = EOC]
           /\ RootSound => /\ Agree([x EXCEPT ![c] = EOC], table, Heads(data[Root]))
                           /\ c \notin Heads(data[Root])
                           /\ \A p \in Clusters : table[p] # c /\ x[p] # c
<1>1. EOC \in TableEntries
  BY DEF TableEntries
<1>2. cache' = [TableSector(c) EXCEPT ![c % EntriesPerSector] = EOC]
  BY DEF Marked
<1>3. PICK x \in {Buffered, table} :
           /\ x \in [Cells -> TableEntries] /\ [x EXCEPT ![c] = EOC] \in [Cells -> TableEntries]
           /\ x[c] = TableSector(c)[c % EntriesPerSector]
           /\ BufferTypes' /\ View(table, cache', cached') = [x EXCEPT ![c] = EOC]
  BY <1>1, <1>2, Changed, Zenon
<1>4. ASSUME RootSound
      PROVE  /\ Agree([x EXCEPT ![c] = EOC], table, Heads(data[Root]))
             /\ c \notin Heads(data[Root])
             /\ \A p \in Clusters : table[p] # c /\ x[p] # c
  <2>1. Agree(x, table, Heads(data[Root]))
    BY <1>3, <1>4, AlsoAgrees
  <2>2. table[c] = 0
    BY <1>3, <2>1 DEF Agree, IsFree
  <2>3. c \notin Heads(data[Root]) /\ \A p \in Clusters : table[p] # c /\ x[p] # c
    BY <2>1, <2>2, FreeIsLoose
  <2>4. table \in [Cells -> TableEntries]
    BY DEF Types
  <2>5. Agree([x EXCEPT ![c] = EOC], table, Heads(data[Root]))
    BY <1>3, <2>1, <2>4, AgreeMarked
  <2> QED
    BY <2>3, <2>5
<1> QED
  BY <1>3, <1>4

\* The marked cluster is linked to.
LEMMA Linking ==
  ASSUME Types, NEW c \in Clusters, NEW next \in Clusters,
         cache' = [TableSector(c) EXCEPT ![c % EntriesPerSector] = next], cached' = SectorOf(c)
  PROVE  \E x \in {Buffered, table} :
           /\ x \in [Cells -> TableEntries] /\ [x EXCEPT ![c] = next] \in [Cells -> TableEntries]
           /\ BufferTypes' /\ View(table, cache', cached') = [x EXCEPT ![c] = next]
           /\ RootSound /\ Loose(next) => Agree([x EXCEPT ![c] = next], table, Heads(data[Root]))
<1>1. PICK x \in {Buffered, table} :
           /\ x \in [Cells -> TableEntries] /\ [x EXCEPT ![c] = next] \in [Cells -> TableEntries]
           /\ BufferTypes' /\ View(table, cache', cached') = [x EXCEPT ![c] = next]
  <2>1. next \in TableEntries
    BY Marks
  <2>2. \E x \in {Buffered, table} :
           /\ x \in [Cells -> TableEntries] /\ [x EXCEPT ![c] = next] \in [Cells -> TableEntries]
           /\ x[c] = TableSector(c)[c % EntriesPerSector]
           /\ BufferTypes' /\ View(table, cache', cached') = [x EXCEPT ![c] = next]
    BY <2>1, Changed, Zenon
  <2> QED
    BY <2>2, Zenon
<1>2. ASSUME RootSound, Loose(next) PROVE Agree([x EXCEPT ![c] = next], table, Heads(data[Root]))
  <2>1. Agree(x, table, Heads(data[Root]))
    BY <1>1, <1>2, AlsoAgrees
  <2>2. /\ table[next] # 0 /\ next \notin Heads(data[Root])
        /\ \A p \in Clusters : x[p] # next /\ table[p] # next
    BY <1>1, <1>2 DEF Loose
  <2> QED
    BY <1>1, <2>1, <2>2, AgreeLinked DEF Types
<1> QED
  BY <1>1, <1>2

\* A step that changes the table, or only the buffered sector of it.
LEMMA Replaced ==
  ASSUME IInv, UNCHANGED data, NEW y \in [Cells -> TableEntries], Buffered' = y, table' \in {table, y},
         BufferTypes', CallTypes', Placed', "torn" \notin faults' => "torn" \notin faults,
         Holds => Agree(y, table, Heads(data[Root])),
         "torn" \notin faults' /\ Holds => FileSound' /\ CallSound'
  PROVE  IInv'
<1>1. Types'
  BY DEF IInv, Types
<1>2. Heads(data[Root])' = Heads(data[Root]) /\ RootEntries' = RootEntries
  BY DEF Heads, RootEntries, Entries
<1>3. Holds => Agree(y, table', Heads(data[Root]))
  BY HeadsAreClusters, AgreeSound DEF Holds
<1>4. Agree(Buffered, table, Heads(data[Root]))' = Agree(y, table', Heads(data[Root]))
  BY <1>2 DEF Agree, Apart
<1>5. Holds => RootSound'
  BY <1>2, <1>3, <1>4 DEF Holds, RootSound
<1> QED
  BY <1>1, <1>5 DEF IInv, Holds

LEMMA NoClusterKeeps ==
  ASSUME NoCluster, UNCHANGED <<table, data>>, CallTypes, call.op = "write" => file # None
  PROVE  /\ CallTypes' /\ Placed' /\ (CallSound => CallSound')
         /\ CallSound /\ FileSound => FileSound'
<1>1. CASE EndWrite /\ file # None
  BY <1>1, Ended
<1>2. CASE Return(call) /\ UNCHANGED file
  BY <1>2, Returned, FileStays
<1> QED
  BY <1>1, <1>2, Zenon DEF NoCluster

LEMMA ScanKeeps ==
  ASSUME IInv, Scan
  PROVE  IInv'
<1> DEFINE c == call.scan
           i == c % EntriesPerSector
           s == SectorOf(c)
           heads == Heads(data[Root])
<1>1. /\ UNCHANGED data /\ call.op \in {"write", "create"} /\ (call.op = "write" => file # None)
      /\ DOMAIN call = CallFields /\ CallTypes /\ Types /\ call.pc = "scan"
      /\ "torn" \notin faults' => "torn" \notin faults
  BY DEF Scan, At, Fail, IInv, Placed, Types, CallTypes
<1>2. CASE NoCluster /\ UNCHANGED <<table, tableCache>>
  BY <1>1, <1>2, NoClusterKeeps, Still, Quiet DEF tableCache, Types, Holds
<1>3. CASE /\ c \in Clusters /\ cache' = TableSector(c) /\ cached' = s
           /\ Step([call EXCEPT !.scan = c + 1]) /\ UNCHANGED <<table, file, faults>>
  <2>1. /\ DOMAIN call' = CallFields /\ call'.op = call.op /\ call'.pc = "scan" /\ call'.scan = c + 1
        /\ UNCHANGED <<call.at, call.len, call.copied, call.cluster, call.slot>>
    BY <1>1, <1>3 DEF Step, CallFields
  <2>2. c + 1 \in 0 .. ClusterCount /\ c + 1 >= 2
    BY <1>3, SizesAssumption DEF Clusters
  <2> HIDE DEF c
  <2>3. BufferTypes' /\ Buffered' \in {Buffered, table}
    BY <1>1, <1>3, TableSectorIs DEF BufferTypes, Buffered
  <2>4. Held(call.cluster) => Held(call.cluster)'
    BY <1>1, <1>3, <2>1, <2>3, HeldStays
  <2>5. CallTypes' /\ Placed' /\ (CallSound => CallSound')
    BY <1>1, <1>3, <2>1, <2>2, <2>4 DEF CallTypes, CallSound, Placed, IInv
  <2> QED
    BY <1>1, <1>3, <2>3, <2>5, FileStays, Quiet DEF Holds
<1>4. ASSUME c \in Clusters, IsFree(TableSector(c)[i]), cache' = Marked(TableSector(c), i), cached' = s
      PROVE  \E x \in {Buffered, table} :
               /\ x \in [Cells -> TableEntries] /\ [x EXCEPT ![c] = EOC] \in [Cells -> TableEntries]
               /\ BufferTypes' /\ View(table, cache', cached') = [x EXCEPT ![c] = EOC]
               /\ RootSound => /\ Agree([x EXCEPT ![c] = EOC], table, heads) /\ c \notin heads
                               /\ \A p \in Clusters : table[p] # c /\ x[p] # c
  BY <1>1, <1>4, Marking
<1>5. CASE /\ c \in Clusters /\ IsFree(TableSector(c)[i]) /\ cache' = Marked(TableSector(c), i) /\ cached' = s
           /\ Fail("write") /\ NoCluster /\ UNCHANGED table
  <2> HIDE DEF c, heads
  <2>1. PICK y \in [Cells -> TableEntries] :
          BufferTypes' /\ View(table, cache', cached') = y /\ (RootSound => Agree(y, table, heads))
    BY <1>4, <1>5
  <2>2. Buffered' = y
    BY <1>5, <2>1 DEF Buffered, View
  <2>3. CallTypes' /\ Placed' /\ (CallSound => CallSound') /\ (CallSound /\ FileSound => FileSound')
    BY <1>1, <1>5, NoClusterKeeps
  <2> QED
    BY <1>1, <1>5, <2>1, <2>2, <2>3, Replaced DEF Holds, heads
<1>6. CASE /\ c \in Clusters /\ IsFree(TableSector(c)[i]) /\ cache' = Marked(TableSector(c), i) /\ cached' = s
           /\ WriteTable(s, cache') /\ UNCHANGED <<file, faults>>
           /\ \/ call.op = "write" /\ Step([call EXCEPT !.pc = "link"])
              \/ call.op = "create" /\ Step([call EXCEPT !.pc = "format", !.cluster = c])
  <2>1. /\ DOMAIN call' = CallFields /\ call'.op = call.op /\ call'.scan = call.scan
        /\ UNCHANGED <<call.at, call.len, call.copied, call.slot>>
        /\ \/ call.op = "write" /\ call'.pc = "link" /\ call'.cluster = call.cluster
           \/ call.op = "create" /\ call'.pc = "format" /\ call'.cluster = c
    BY <1>1, <1>6 DEF Step, CallFields
  <2>2. CallTypes' /\ Placed'
    BY <1>1, <1>6, <2>1 DEF CallTypes, Placed, Places, IInv
  <2> HIDE DEF c, heads
  <2>3. PICK x \in {Buffered, table} :
          /\ x \in [Cells -> TableEntries] /\ [x EXCEPT ![c] = EOC] \in [Cells -> TableEntries]
          /\ BufferTypes' /\ View(table, cache', cached') = [x EXCEPT ![c] = EOC]
          /\ RootSound => /\ Agree([x EXCEPT ![c] = EOC], table, heads) /\ c \notin heads
                          /\ \A p \in Clusters : table[p] # c /\ x[p] # c
    BY <1>4, <1>6
  <2> DEFINE y == [x EXCEPT ![c] = EOC]
  <2>4. table' = y /\ Buffered' = y
    BY <1>1, <1>6, <2>3, WrittenBack DEF Buffered
  <2>5. heads' = heads
    BY <1>1 DEF heads, Heads, Entries
  <2>6. ASSUME Holds PROVE CallSound'
    <3>1. call.op = "write" => Held(call.cluster)'
      <4>1. ASSUME call.op = "write", call.cluster \in Clusters, NEW h \in heads \ {file.first}
            PROVE  Avoids(y, h, call.cluster)
        <5>1. Avoids(x, h, call.cluster)
          BY <1>1, <2>3, <2>6, <4>1 DEF Holds, CallSound, Held, heads
        <5> QED
          BY <2>3, <5>1, AvoidsMarked
      <4> HIDE DEF y
      <4>2. ASSUME call.op = "write", call.cluster \in Clusters, NEW h \in heads \ {file.first}
            PROVE  Avoids(table, h, call.cluster)' /\ Avoids(Buffered, h, call.cluster)'
        BY <2>1, <2>4, <4>1, <4>2 DEF Avoids
      <4> QED
        BY <1>6, <2>1, <2>5, <4>2 DEF Held, heads
    <3>2. y[c] # 0 /\ \A p \in Clusters : y[p] # c
      BY <1>6, <2>3, <2>6, SectorTypes, Marks DEF EOC, Holds
    <3> HIDE DEF y
    <3>3. Loose(call.scan)' /\ (call'.cluster = c => Loose(call.cluster)')
      BY <2>1, <2>3, <2>4, <2>5, <2>6, <3>2 DEF Loose, Holds, heads, c
    <3> QED
      BY <1>1, <2>1, <2>6, <3>1, <3>3 DEF CallSound, Holds
  <2> HIDE DEF y
  <2>7. y \in [Cells -> TableEntries] /\ BufferTypes' /\ (RootSound => Agree(y, table, heads))
    BY <2>3 DEF y
  <2> QED
    BY <1>1, <1>6, <2>2, <2>4, <2>6, <2>7, FileStays, Replaced DEF Holds, heads
<1> QED
  BY <1>1, <1>2, <1>3, <1>5, <1>6 DEF Scan, Allocated

LEMMA LinkKeeps ==
  ASSUME IInv, Link
  PROVE  IInv'
<1> DEFINE c == call.cluster
           i == c % EntriesPerSector
           s == SectorOf(c)
           heads == Heads(data[Root])
<1>1. /\ UNCHANGED data /\ call.op = "write" /\ file # None /\ c \in Clusters /\ call.scan \in Clusters
      /\ DOMAIN call = CallFields /\ CallTypes /\ Types /\ call.pc = "link"
      /\ "torn" \notin faults' => "torn" \notin faults
  BY DEF Link, At, Fail, IInv, Placed, Types, CallTypes
<1>2. CASE NoCluster /\ UNCHANGED <<table, tableCache>>
  BY <1>1, <1>2, NoClusterKeeps, Still, Quiet DEF tableCache, Types, Holds
<1>3. ASSUME cache' = Linked(TableSector(c), i), cached' = s
      PROVE  \E x \in {Buffered, table} :
               /\ x \in [Cells -> TableEntries] /\ [x EXCEPT ![c] = call.scan] \in [Cells -> TableEntries]
               /\ BufferTypes' /\ View(table, cache', cached') = [x EXCEPT ![c] = call.scan]
               /\ Holds => Agree([x EXCEPT ![c] = call.scan], table, heads)
  <2>1. cache' = [TableSector(c) EXCEPT ![c % EntriesPerSector] = call.scan] /\ cached' = SectorOf(c)
    BY <1>3 DEF Linked
  <2>2. Holds => RootSound /\ Loose(call.scan)
    BY <1>1 DEF Holds, CallSound
  <2> HIDE DEF c, i, s
  <2>3. PICK x \in {Buffered, table} :
           /\ x \in [Cells -> TableEntries] /\ [x EXCEPT ![c] = call.scan] \in [Cells -> TableEntries]
           /\ BufferTypes' /\ View(table, cache', cached') = [x EXCEPT ![c] = call.scan]
           /\ RootSound /\ Loose(call.scan) => Agree([x EXCEPT ![c] = call.scan], table, heads)
    BY <1>1, <2>1, Linking, Zenon
  <2> QED
    BY <2>2, <2>3
<1>4. CASE /\ cache' = Linked(TableSector(c), i) /\ cached' = s
           /\ Fail("write") /\ NoCluster /\ UNCHANGED table
  <2> HIDE DEF c, heads
  <2>1. PICK y \in [Cells -> TableEntries] :
          BufferTypes' /\ View(table, cache', cached') = y /\ (Holds => Agree(y, table, heads))
    BY <1>3, <1>4
  <2>2. Buffered' = y
    BY <1>4, <2>1 DEF Buffered, View
  <2>3. CallTypes' /\ Placed' /\ (CallSound => CallSound') /\ (CallSound /\ FileSound => FileSound')
    BY <1>1, <1>4, NoClusterKeeps
  <2> QED
    BY <1>1, <1>4, <2>1, <2>2, <2>3, Replaced DEF Holds, heads
<1>5. CASE /\ cache' = Linked(TableSector(c), i) /\ cached' = s /\ WriteTable(s, cache')
           /\ Step([call EXCEPT !.pc = "put", !.cluster = call.scan]) /\ UNCHANGED <<file, faults>>
  <2>1. /\ DOMAIN call' = CallFields /\ call'.op = call.op /\ call'.scan = call.scan
        /\ UNCHANGED <<call.at, call.len, call.copied>> /\ call'.pc = "put" /\ call'.cluster = call.scan
    BY <1>1, <1>5 DEF Step, CallFields
  <2> HIDE DEF c, heads
  <2>2. PICK x \in {Buffered, table} :
          /\ x \in [Cells -> TableEntries] /\ [x EXCEPT ![c] = call.scan] \in [Cells -> TableEntries]
          /\ BufferTypes' /\ View(table, cache', cached') = [x EXCEPT ![c] = call.scan]
          /\ Holds => Agree([x EXCEPT ![c] = call.scan], table, heads)
    BY <1>3, <1>5
  <2> DEFINE y == [x EXCEPT ![c] = call.scan]
  <2>3. table' = y /\ Buffered' = y
    BY <1>1, <1>5, <2>2, WrittenBack DEF Buffered
  <2>4. heads' = heads
    BY <1>1 DEF heads, Heads, Entries
  <2>5. ASSUME Holds PROVE Held(call.cluster)'
    <3>1. ASSUME NEW h \in heads \ {file.first} PROVE Avoids(y, h, call.scan)
      <4>1. Avoids(x, h, c)
        BY <1>1, <2>2, <2>5 DEF Holds, CallSound, Held, heads, c
      <4>2. call.scan # h /\ \A p \in Clusters : x[p] # call.scan
        BY <1>1, <2>2, <2>5 DEF Holds, CallSound, Loose, heads
      <4> QED
        BY <2>2, <4>1, <4>2, AvoidsLinked
    <3> HIDE DEF y
    <3>2. ASSUME NEW h \in heads \ {file.first}
          PROVE  Avoids(table, h, call.cluster)' /\ Avoids(Buffered, h, call.cluster)'
      BY <2>1, <2>3, <3>1 DEF Avoids
    <3> QED
      BY <1>5, <2>1, <2>4, <3>2 DEF Held, heads
  <2>6. CallTypes' /\ Placed' /\ (Holds => CallSound')
    BY <1>1, <1>5, <2>1, <2>5, Writing DEF Holds
  <2> HIDE DEF y
  <2>7. y \in [Cells -> TableEntries] /\ BufferTypes' /\ (Holds => Agree(y, table, heads))
    BY <2>2 DEF y
  <2> QED
    BY <1>1, <1>5, <2>3, <2>6, <2>7, FileStays, Replaced DEF Holds, heads
<1> QED
  BY <1>1, <1>2, <1>4, <1>5 DEF Link, Allocated

-----------------------------------------------------------------------------
(* A directory is created *)

LEMMA SearchKeeps ==
  ASSUME IInv, Search
  PROVE  IInv'
<1> DEFINE free == {i \in 1 .. N : data[call.cluster][i] \in {End, Unused}}
           least == CHOOSE i \in free : \A j \in free : i <= j
<1>1. /\ UNCHANGED <<table, data, file>> /\ call.op = "create" /\ call.pc = "search"
      /\ DOMAIN call = CallFields /\ CallTypes
  BY DEF Search, At, disk, IInv, Placed, Types, CallTypes
<1>2. CASE Return(call) /\ UNCHANGED tableCache /\ (UNCHANGED faults \/ Fail("read"))
  <2>1. CallTypes' /\ Placed' /\ (CallSound => CallSound')
    BY <1>1, <1>2, Returned
  <2>2. BufferTypes' /\ Buffered' = Buffered
    BY <1>1, <1>2, Still DEF tableCache, IInv, Types
  <2> QED
    BY <1>1, <1>2, <2>1, <2>2, FileStays, Quiet DEF Holds, Fail
<1>3. CASE /\ call.cluster \in Clusters /\ free # {}
           /\ Step([call EXCEPT !.pc = "scan", !.scan = 2, !.slot = least])
           /\ UNCHANGED <<tableCache, faults>>
  <2>1. least \in 1 .. N
    <3>1. free \subseteq 1 .. N
      OBVIOUS
    <3> HIDE DEF free
    <3> QED
      BY <1>3, <3>1, Least
  <2> HIDE DEF least
  <2>2. /\ DOMAIN call' = CallFields /\ call'.op = call.op /\ call'.pc = "scan" /\ call'.scan = 2
        /\ UNCHANGED <<call.at, call.len, call.copied>> /\ call'.slot = least
    BY <1>1, <1>3 DEF Step, CallFields
  <2>3. 2 \in 0 .. ClusterCount
    BY SizesAssumption DEF Clusters
  <2>4. CallTypes' /\ Placed' /\ (CallSound => CallSound')
    BY <1>1, <2>1, <2>2, <2>3 DEF CallTypes, Placed, Places, CallSound
  <2>5. BufferTypes' /\ Buffered' = Buffered
    BY <1>1, <1>3, Still DEF tableCache, IInv, Types
  <2> QED
    BY <1>1, <1>3, <2>4, <2>5, FileStays, Quiet DEF Holds
<1>4. ASSUME call.cluster \in Clusters, NEW r \in GetNext(call.cluster), Took(r),
             Step([call EXCEPT !.cluster = r.next])
      PROVE  IInv'
  <2>1. /\ DOMAIN call' = CallFields /\ call'.op = call.op /\ call'.pc = "search" /\ call'.scan = call.scan
        /\ UNCHANGED <<call.at, call.len, call.copied>>
    BY <1>1, <1>4 DEF Step, CallFields
  <2>2. CallTypes' /\ Placed' /\ (CallSound => CallSound')
    BY <1>1, <2>1 DEF CallTypes, Placed, Places, CallSound
  <2>3. /\ BufferTypes'
        /\ "torn" \notin faults' => "torn" \notin faults /\ Buffered' \in {Buffered, table}
    BY <1>1, <1>4, GetNextKeeps DEF IInv
  <2> QED
    BY <1>1, <2>2, <2>3, FileStays, Quiet DEF Holds
<1> HIDE DEF least
<1>5. \/ Return(call) /\ UNCHANGED tableCache /\ (UNCHANGED faults \/ Fail("read"))
      \/ /\ call.cluster \in Clusters /\ free # {}
         /\ Step([call EXCEPT !.pc = "scan", !.scan = 2, !.slot = least])
         /\ UNCHANGED <<tableCache, faults>>
      \/ /\ call.cluster \in Clusters
         /\ \E r \in GetNext(call.cluster) : Took(r) /\ Step([call EXCEPT !.cluster = r.next])
  BY Zenon DEF Search, least
<1> HIDE DEF free
<1> QED
  BY <1>2, <1>3, <1>4, <1>5, Zenon

LEMMA EntryKeeps ==
  ASSUME IInv, Format \/ EnterName
  PROVE  IInv'
<1>1. /\ UNCHANGED <<table, cache, cached, file>> /\ call.op = "create" /\ call.cluster \in Clusters
      /\ call.pc \in {"format", "enter"} /\ DOMAIN call = CallFields /\ CallTypes /\ BufferTypes'
      /\ Buffered' = Buffered /\ call.slot \in 1 .. N /\ ("torn" \notin faults' => "torn" \notin faults)
  BY Still DEF Format, EnterName, At, Fail, tableCache, IInv, Placed, Types, CallTypes
<1>2. \/ UNCHANGED data
      \/ data' = [data EXCEPT ![call.cluster] = Dots]
      \/ data' = [data EXCEPT ![call.cluster][call.slot] = Entry(call.name, call.cluster, 0, TRUE)]
  BY DEF Format, EnterName
<1>3. DOMAIN data' = Clusters /\ \A c \in Clusters : DOMAIN data'[c] = 1 .. N
  BY <1>1, <1>2 DEF IInv, Types, Dots
<1>4. Holds => UNCHANGED data[Root]
  <2>1. Holds => call.cluster # Root
    BY <1>1 DEF Holds, CallSound, Loose, Heads
  <2> QED
    BY <1>1, <1>2, <2>1, SizesAssumption DEF IInv, Types
<1>5. CallTypes' /\ Placed' /\ (Holds => CallSound')
  <2>1. CASE Return(call)
    BY <1>1, <2>1, Returned DEF Holds
  <2>2. CASE Step([call EXCEPT !.pc = "enter"])
    <3>1. /\ DOMAIN call' = CallFields /\ call'.op = call.op /\ call'.pc = "enter" /\ call'.scan = call.scan
          /\ UNCHANGED <<call.at, call.len, call.copied, call.slot, call.cluster>>
      BY <1>1, <2>2 DEF Step, CallFields
    <3>2. Holds => Loose(call.cluster)'
      BY <1>1, <1>4, <3>1, LooseStays DEF Holds, CallSound
    <3> QED
      BY <1>1, <3>1, <3>2 DEF CallTypes, Placed, Places, CallSound, Holds
  <2> QED
    BY <2>1, <2>2 DEF Format, EnterName
<1> QED
  BY <1>1, <1>3, <1>4, <1>5, FileStays, Rewritten DEF Holds

-----------------------------------------------------------------------------
(* The invariant *)

LEMMA InitHolds == Init => IInv
<1> SUFFICES ASSUME Init PROVE IInv
  OBVIOUS
<1>1. PICK d \in Disks : table = d.table /\ data = d.data
  BY DEF Init
<1>2. cache = [i \in Slots |-> 0] /\ cached = -1 /\ file = None /\ call = Idle /\ faults = {}
  BY DEF Init
<1>3. /\ DOMAIN call = CallFields /\ call.op = "none" /\ call.pc = "done" /\ call.len = 0 /\ call.at = 0
      /\ call.cluster = 0 /\ call.copied = <<>> /\ call.scan = 0
  BY <1>2 DEF Idle, CallFields
<1>4. CallTypes /\ Placed /\ CallSound
  <2>1. call.copied \in Seq({}) /\ Len(call.copied) = 0
    BY <1>3, EmptySeq
  <2> QED
    BY <1>3, <2>1, SizesAssumption DEF CallTypes, Placed, Places, CallSound
<1>5. Types
  <2>1. BufferTypes
    BY <1>2 DEF BufferTypes, TableEntries
  <2> QED
    BY <1>1, <1>4, <2>1, DisksAssumption DEF Types, Cells
<1>6. Buffered = table
  <2>1. \A c \in Cells : SectorOf(c) # -1
    BY SectorTypes DEF Sectors
  <2>2. table = [c \in Cells |-> table[c]]
    BY <1>5 DEF Types
  <2> QED
    BY <1>2, <2>1, <2>2 DEF Buffered, View
<1>7. RootSound
  <2>1. Agree(table, table, Heads(data[Root]))
    BY <1>1, DisksAssumption DEF Agree, Apart, Sound
  <2> QED
    BY <1>1, <1>6, <2>1, DisksAssumption DEF RootSound, RootEntries
<1> QED
  BY <1>2, <1>4, <1>5, <1>7 DEF IInv, Holds, FileSound

LEMMA StepKeeps == IInv /\ [Next]_vars => IInv'
<1> SUFFICES ASSUME IInv, [Next]_vars PROVE IInv'
  OBVIOUS
<1>1. CASE UNCHANGED vars
  <2>1. UNCHANGED <<table, data, cache, cached, file, call, faults>>
    BY <1>1 DEF vars, disk, tableCache
  <2>2. BufferTypes' /\ Buffered' = Buffered
    BY <2>1, Still DEF IInv, Types
  <2>3. CallTypes' /\ Placed' /\ (CallSound => CallSound')
    BY <2>1, <2>2, CallStays DEF IInv, Types
  <2> QED
    BY <2>1, <2>2, <2>3, FileStays, Quiet DEF Holds
<1>2. CASE Client
  BY <1>2, OpenKeeps, CloseKeeps, ReadKeeps, WriteKeeps, Zenon DEF Client
<1>3. CASE Working
  BY <1>3, LookupKeeps, ReadSeekKeeps, ReadCopyKeeps, ReadNextKeeps, WriteSeekKeeps, WritePutKeeps,
     WriteNextKeeps, ScanKeeps, LinkKeeps, SearchKeeps, EntryKeeps, Zenon DEF Working
<1> QED
  BY <1>1, <1>2, <1>3 DEF Next

\* A volume and the calls on it are as IInv says, always: the allocation table on disk and
\* the one seen through the buffer agree, whichever device accesses fail, and a call goes
\* only to clusters that are its own.  The failures that a sector of the table is taken
\* for another after are left out.
THEOREM FatInvariant == Spec => []IInv
<1>1. Init => IInv
  BY InitHolds
<1>2. IInv /\ [Next]_vars => IInv'
  BY StepKeeps
<1> QED
  BY <1>1, <1>2, PTL DEF Spec

\* No cluster is in two files or directories or twice in one, and none that is in one is
\* free, after any calls and failures; a read is less than a cluster too long.
THEOREM ClustersNotShared == Spec => []NoSharedClusters
<1>1. IInv => NoSharedClusters
  <2> SUFFICES ASSUME IInv PROVE NoSharedClusters
    OBVIOUS
  <2>1. TypeOK
    <3>1. cached \in -1 .. SectorOf(ClusterCount - 1)
      BY SectorTypes DEF IInv, Types, BufferTypes, Sectors
    <3> QED
      BY <3>1 DEF TypeOK, IInv, Types, BufferTypes, CallTypes
  <2>2. Holds => Sound(table, Heads(data[Root]))
    BY HeadsAreClusters, AgreeSound DEF Holds, RootSound
  <2> QED
    BY <2>1, <2>2 DEF NoSharedClusters, IInv, Holds, FileSound, CallSound
<1> QED
  BY <1>1, FatInvariant, PTL

-----------------------------------------------------------------------------
(* What a chain holds, and the calls that do not reach it *)

\* f goes through a chain, m links far.
Walks(f, t, first, m) == f = [n \in 0 .. m |->
  IF n = 0 THEN first ELSE IF f[n - 1] \in Clusters THEN t[f[n - 1]] ELSE EOC]

LEMMA WalkExists ==
  ASSUME NEW t, NEW first
  PROVE  \A m \in Nat : \E f : Walks(f, t, first, m)
<1> DEFINE Bad == {m \in Nat : ~ \E f : Walks(f, t, first, m)}
<1>1. SUFFICES ASSUME Bad # {} PROVE FALSE
  OBVIOUS
<1>2. PICK m \in Bad : \A k \in Bad : m <= k
  <2> HIDE DEF Bad
  <2>1. Bad \subseteq Nat
    BY DEF Bad
  <2> QED
    BY <1>1, <2>1, Smallest
<1>3. m \in Nat /\ ~ \E f : Walks(f, t, first, m)
  OBVIOUS
<1>4. CASE m = 0
  <2> DEFINE f == [n \in 0 .. 0 |-> first]
  <2>1. f = [n \in 0 .. 0 |-> IF n = 0 THEN first ELSE IF f[n - 1] \in Clusters THEN t[f[n - 1]] ELSE EOC]
    OBVIOUS
  <2> QED
    BY <1>3, <1>4, <2>1 DEF Walks
<1>5. CASE m # 0
  <2>1. m - 1 \in Nat /\ m - 1 \notin Bad
    BY <1>2, <1>3, <1>5
  <2>2. PICK f : Walks(f, t, first, m - 1)
    BY <2>1
  <2> DEFINE g == [n \in 0 .. m |->
               IF n = m THEN IF f[m - 1] \in Clusters THEN t[f[m - 1]] ELSE EOC ELSE f[n]]
  <2>3. \A n \in 0 .. m - 1 : g[n] = f[n]
    BY <1>3, <1>5
  <2>4. \A n \in 0 .. m - 1 :
          f[n] = IF n = 0 THEN first ELSE IF f[n - 1] \in Clusters THEN t[f[n - 1]] ELSE EOC
    BY <2>2 DEF Walks
  <2>5. ASSUME NEW n \in 0 .. m
        PROVE  g[n] = IF n = 0 THEN first ELSE IF g[n - 1] \in Clusters THEN t[g[n - 1]] ELSE EOC
    <3>1. CASE n = m
      <4>1. g[n] = IF f[m - 1] \in Clusters THEN t[f[m - 1]] ELSE EOC
        BY <3>1
      <4>2. g[m - 1] = f[m - 1]
        BY <1>3, <1>5, <2>3
      <4> HIDE DEF g
      <4> QED
        BY <1>5, <3>1, <4>1, <4>2
    <3>2. CASE n \in 0 .. m - 1
      <4>1. n # 0 => n - 1 \in 0 .. m - 1
        BY <1>3, <3>2
      <4> HIDE DEF g
      <4> QED
        BY <2>3, <2>4, <3>2, <4>1
    <3> QED
      BY <1>3, <3>1, <3>2
  <2>6. g = [n \in 0 .. m |-> g[n]]
    OBVIOUS
  <2> HIDE DEF g
  <2>7. Walks(g, t, first, m)
    BY <2>5, <2>6 DEF Walks
  <2> QED
    BY <1>3, <2>7
<1> QED
  BY <1>4, <1>5

LEMMA ChainWalks ==
  ASSUME NEW t, NEW first
  PROVE  Walks(ChainCell(t, first), t, first, ClusterCount)
<1>1. \E f : f = [n \in 0 .. ClusterCount |->
        IF n = 0 THEN first ELSE IF f[n - 1] \in Clusters THEN t[f[n - 1]] ELSE EOC]
  <2>1. \E f : Walks(f, t, first, ClusterCount)
    BY WalkExists, SizesAssumption
  <2> QED
    BY <2>1 DEF Walks
<1> QED
  BY <1>1, Zenon DEF ChainCell, Walks

\* Tables that are the same where a chain goes have the same chain.
LEMMA ChainSame ==
  ASSUME NEW t, NEW u, NEW S \in SUBSET Clusters, NEW first \in S,
         \A p \in S : t[p] \in Clusters => t[p] \in S, \A p \in S : u[p] = t[p]
  PROVE  /\ ChainCell(u, first) = ChainCell(t, first)
         /\ \A n \in 0 .. ClusterCount : ChainCell(t, first)[n] \in Clusters => ChainCell(t, first)[n] \in S
<1> DEFINE f == ChainCell(t, first)
           g == ChainCell(u, first)
           Bad == {n \in 0 .. ClusterCount : ~(g[n] = f[n] /\ (f[n] \in Clusters => f[n] \in S))}
<1>1. /\ f = [n \in 0 .. ClusterCount |->
           IF n = 0 THEN first ELSE IF f[n - 1] \in Clusters THEN t[f[n - 1]] ELSE EOC]
      /\ g = [n \in 0 .. ClusterCount |->
           IF n = 0 THEN first ELSE IF g[n - 1] \in Clusters THEN u[g[n - 1]] ELSE EOC]
  <2>1. Walks(f, t, first, ClusterCount) /\ Walks(g, u, first, ClusterCount)
    BY ChainWalks
  <2> HIDE DEF f, g
  <2> QED
    BY <2>1 DEF Walks
<1> HIDE DEF f, g
<1>2. ASSUME NEW n \in 0 .. ClusterCount
      PROVE  /\ f[n] = IF n = 0 THEN first ELSE IF f[n - 1] \in Clusters THEN t[f[n - 1]] ELSE EOC
             /\ g[n] = IF n = 0 THEN first ELSE IF g[n - 1] \in Clusters THEN u[g[n - 1]] ELSE EOC
  BY <1>1
<1>3. Bad = {}
  <2>1. SUFFICES ASSUME Bad # {} PROVE FALSE
    OBVIOUS
  <2>2. PICK n \in Bad : \A k \in Bad : n <= k
    <3>1. Bad \subseteq Nat
      OBVIOUS
    <3> HIDE DEF Bad
    <3> QED
      BY <2>1, <3>1, Smallest
  <2>3. CASE n = 0
    BY <1>2, <2>3
  <2>4. CASE n # 0
    <3>1. n - 1 \in 0 .. ClusterCount /\ n - 1 \notin Bad
      BY <2>2, <2>4, SizesAssumption
    <3>2. g[n - 1] = f[n - 1] /\ (f[n - 1] \in Clusters => f[n - 1] \in S)
      BY <3>1
    <3>3. /\ f[n] = IF f[n - 1] \in Clusters THEN t[f[n - 1]] ELSE EOC
          /\ g[n] = IF g[n - 1] \in Clusters THEN u[g[n - 1]] ELSE EOC
      BY <1>2, <2>4
    <3>4. g[n] = f[n] /\ (f[n] \in Clusters => f[n] \in S)
      BY <3>2, <3>3, Marks
    <3> QED
      BY <3>4
  <2> QED
    BY <2>3, <2>4
<1>4. \A n \in 0 .. ClusterCount : g[n] = f[n] /\ (f[n] \in Clusters => f[n] \in S)
  BY <1>3
<1>5. f = [n \in 0 .. ClusterCount |-> f[n]] /\ g = [n \in 0 .. ClusterCount |-> g[n]]
  BY <1>1, Zenon
<1>6. g = f
  BY <1>4, <1>5
<1> QED
  BY <1>4, <1>6 DEF f, g

\* A step that changes the table x, and the clusters, nowhere but in c.
LEMMA ContentSame ==
  ASSUME NEW x, NEW first, NEW c, Avoids(x, first, c),
         \A p \in Clusters \ {c} : table'[p] = x[p] /\ data'[p] = data[p]
  PROVE  Content(table, first)' = Content(x, first)
<1>1. PICK S \in SUBSET Clusters : first \in S /\ c \notin S /\ \A p \in S : x[p] \in Clusters => x[p] \in S
  BY DEF Avoids
<1> DEFINE f == ChainCell(x, first)
<1>2. PICK y : y = table'
  OBVIOUS
<1>3. /\ ChainCell(y, first) = f
      /\ \A n \in 0 .. ClusterCount : f[n] \in Clusters => f[n] \in S
  <2>1. \A p \in S : y[p] = x[p]
    BY <1>1, <1>2
  <2>2. first \in S /\ \A p \in S : x[p] \in Clusters => x[p] \in S
    BY <1>1
  <2>3. /\ ChainCell(y, first) = ChainCell(x, first)
        /\ \A n \in 0 .. ClusterCount : ChainCell(x, first)[n] \in Clusters => ChainCell(x, first)[n] \in S
    <3> HIDE DEF f
    <3> QED
      BY <2>1, <2>2, ChainSame
  <2> QED
    BY <2>3
<1> HIDE DEF f
<1>4. [n \in 1 .. ClusterCount |-> IF f[n - 1] \in Clusters THEN data'[f[n - 1]] ELSE <<>>]
        = [n \in 1 .. ClusterCount |-> IF f[n - 1] \in Clusters THEN data[f[n - 1]] ELSE <<>>]
  <2>1. ASSUME NEW n \in 1 .. ClusterCount, f[n - 1] \in Clusters PROVE data'[f[n - 1]] = data[f[n - 1]]
    <3>1. n - 1 \in 0 .. ClusterCount
      BY SizesAssumption
    <3> QED
      BY <1>1, <1>3, <2>1, <3>1
  <2> QED
    BY <2>1
<1>5. Content(x, first) = FlattenSeq([n \in 1 .. ClusterCount |->
        IF f[n - 1] \in Clusters THEN data[f[n - 1]] ELSE <<>>])
  BY DEF Content, f
<1>6. Content(table, first)' = FlattenSeq([n \in 1 .. ClusterCount |->
        IF f[n - 1] \in Clusters THEN data'[f[n - 1]] ELSE <<>>])
  <2>1. ChainCell(table, first)' = f
    BY <1>2, <1>3 DEF ChainCell
  <2> QED
    BY <2>1 DEF Content
<1> QED
  BY <1>4, <1>5, <1>6

LEMMA FaultsStay ==
  ASSUME [Next]_vars
  PROVE  faults \subseteq faults' /\ ("torn" \notin faults' => "torn" \notin faults)
<1>1. ASSUME NEW c, NEW r \in GetNext(c), Took(r) PROVE faults \subseteq faults'
  BY <1>1 DEF GetNext, Took, Outcome
<1>2. ASSUME NEW kind, Fail(kind) PROVE faults \subseteq faults'
  BY <1>2 DEF Fail
<1>3. Client => faults \subseteq faults'
  BY DEF Client, FAT_Open, FAT_Close, FAT_Read, FAT_Write, FAT_CreateDirectory, Begin
<1>4. Lookup \/ ReadSeek \/ ReadCopy \/ ReadNext => faults \subseteq faults'
  BY <1>1, <1>2 DEF Lookup, ReadSeek, ReadCopy, ReadNext
<1>5. WriteSeek \/ WritePut \/ WriteNext => faults \subseteq faults'
  BY <1>1, <1>2 DEF WriteSeek, WritePut, WriteNext
<1>6. Scan \/ Link => faults \subseteq faults'
  BY <1>2 DEF Scan, Link
<1>7. Search \/ Format \/ EnterName => faults \subseteq faults'
  BY <1>1, <1>2 DEF Search, Format, EnterName
<1>8. Next => faults \subseteq faults'
  BY <1>3, <1>4, <1>5, <1>6, <1>7, Zenon DEF Next, Working
<1> QED
  BY <1>8 DEF vars

\* What a step may write: a cluster of data, or one entry of the table.
LEMMA Writes ==
  ASSUME [Next]_vars
  PROVE  \/ UNCHANGED <<table, data>>
         \/ /\ UNCHANGED table /\ call.pc = "put" /\ call.op = "write" /\ call.cluster \in Clusters
            /\ \E v : data' = [data EXCEPT ![call.cluster] = v]
         \/ /\ UNCHANGED table /\ call.pc \in {"format", "enter"}
            /\ \E v : data' = [data EXCEPT ![call.cluster] = v]
         \/ Scan \/ Link
<1>1. UNCHANGED vars => UNCHANGED <<table, data>>
  BY DEF vars, disk
<1>2. Client => UNCHANGED <<table, data>>
  BY DEF Client, FAT_Open, FAT_Close, FAT_Read, FAT_Write, FAT_CreateDirectory, Begin, disk
<1>3. Lookup \/ ReadSeek \/ ReadCopy \/ ReadNext \/ WriteSeek \/ WriteNext \/ Search => UNCHANGED <<table, data>>
  BY DEF Lookup, ReadSeek, ReadCopy, ReadNext, WriteSeek, WriteNext, Search, disk
<1>4. ASSUME WritePut
      PROVE  \/ UNCHANGED <<table, data>>
             \/ /\ UNCHANGED table /\ call.pc = "put" /\ call.op = "write" /\ call.cluster \in Clusters
                /\ \E v : data' = [data EXCEPT ![call.cluster] = v]
  BY <1>4 DEF WritePut, At
<1>5. ASSUME Format \/ EnterName
      PROVE  \/ UNCHANGED <<table, data>>
             \/ /\ UNCHANGED table /\ call.pc \in {"format", "enter"}
                /\ \E v : data' = [data EXCEPT ![call.cluster] = v]
  BY <1>5 DEF Format, EnterName, At
<1> QED
  BY <1>1, <1>2, <1>3, <1>4, <1>5, Zenon DEF Next, Working

\* A step leaves a chain whose file is not the open one, or follows the table as it is
\* buffered.
LEMMA OtherKept ==
  ASSUME IInv, [Next]_vars, "torn" \notin faults', NEW h \in Heads(data[Root]),
         file = None \/ h # file.first
  PROVE  Content(table, h)' \in {Content(table, h), Content(Buffered, h)}
<1> DEFINE heads == Heads(data[Root])
<1>1. Holds /\ Types /\ Placed
  BY FaultsStay DEF IInv
<1>2. h \in Clusters /\ h \in heads
  BY <1>1, HeadsAreClusters DEF Holds
<1>3. DOMAIN data = Clusters
  BY <1>1 DEF Types
<1>4. ASSUME NEW c, NEW x \in {Buffered, table}, Avoids(x, h, c),
             \A p \in Clusters \ {c} : table'[p] = x[p] /\ data'[p] = data[p]
      PROVE  Content(table, h)' \in {Content(table, h), Content(Buffered, h)}
  <2>1. Content(table, h)' = Content(x, h)
    BY <1>4, ContentSame
  <2> QED
    BY <1>4, <2>1
<1>5. CASE UNCHANGED <<table, data>>
  <2>1. Avoids(table, h, 0)
    BY <1>2, Marks DEF Avoids
  <2> QED
    BY <1>4, <1>5, <2>1
<1>6. CASE /\ UNCHANGED table /\ call.pc = "put" /\ call.op = "write" /\ call.cluster \in Clusters
           /\ \E v : data' = [data EXCEPT ![call.cluster] = v]
  <2>1. Avoids(table, h, call.cluster)
    BY <1>1, <1>2, <1>6 DEF Holds, CallSound, Held, Placed
  <2> QED
    BY <1>3, <1>4, <1>6, <2>1
<1>7. CASE /\ UNCHANGED table /\ call.pc \in {"format", "enter"}
           /\ \E v : data' = [data EXCEPT ![call.cluster] = v]
  <2>1. Loose(call.cluster)
    BY <1>1, <1>7 DEF Holds, CallSound
  <2>2. Avoids(table, h, call.cluster)
    BY <1>2, <2>1, NothingLeadsTo DEF Loose
  <2> QED
    BY <1>3, <1>4, <1>7, <2>2
<1>8. CASE Scan
  <2> DEFINE c == call.scan
             i == c % EntriesPerSector
             s == SectorOf(c)
  <2>1. UNCHANGED data
    BY <1>8 DEF Scan
  <2>2. CASE UNCHANGED table
    BY <1>5, <2>1, <2>2
  <2>3. CASE /\ c \in Clusters /\ IsFree(TableSector(c)[i]) /\ cache' = Marked(TableSector(c), i)
             /\ cached' = s /\ WriteTable(s, cache')
    <3> HIDE DEF c
    <3>1. PICK x \in {Buffered, table} :
            /\ x \in [Cells -> TableEntries] /\ View(table, cache', cached') = [x EXCEPT ![c] = EOC]
            /\ RootSound => c \notin heads /\ \A p \in Clusters : table[p] # c /\ x[p] # c
      <4>1. \E x \in {Buffered, table} :
           /\ x \in [Cells -> TableEntries] /\ [x EXCEPT ![c] = EOC] \in [Cells -> TableEntries]
           /\ BufferTypes' /\ View(table, cache', cached') = [x EXCEPT ![c] = EOC]
           /\ RootSound => /\ Agree([x EXCEPT ![c] = EOC], table, Heads(data[Root]))
                           /\ c \notin Heads(data[Root])
                           /\ \A p \in Clusters : table[p] # c /\ x[p] # c
        BY <1>1, <2>3, Marking, Zenon
      <4> QED
        BY <4>1, Zenon
    <3>2. table' = [x EXCEPT ![c] = EOC]
      BY <1>1, <2>3, <3>1, WrittenBack
    <3>3. Avoids(x, h, c)
      BY <1>1, <1>2, <3>1, NothingLeadsTo DEF Holds
    <3>4. \A p \in Clusters \ {c} : table'[p] = x[p]
      BY <3>1, <3>2, SectorTypes
    <3> QED
      BY <1>4, <2>1, <3>3, <3>4
  <2> QED
    BY <1>8, <2>2, <2>3, Zenon DEF Scan
<1>9. CASE Link
  <2> DEFINE c == call.cluster
             i == c % EntriesPerSector
             s == SectorOf(c)
  <2>1. UNCHANGED data /\ call.pc = "link" /\ call.op = "write" /\ c \in Clusters /\ call.scan \in Clusters
    BY <1>1, <1>9 DEF Link, At, Placed
  <2>2. CASE UNCHANGED table
    BY <1>5, <2>1, <2>2
  <2>3. CASE cache' = Linked(TableSector(c), i) /\ cached' = s /\ WriteTable(s, cache')
    <3>1. cache' = [TableSector(c) EXCEPT ![c % EntriesPerSector] = call.scan] /\ cached' = SectorOf(c)
      BY <2>3 DEF Linked
    <3> HIDE DEF c
    <3>2. PICK x \in {Buffered, table} :
            /\ x \in [Cells -> TableEntries] /\ [x EXCEPT ![c] = call.scan] \in [Cells -> TableEntries]
            /\ BufferTypes' /\ View(table, cache', cached') = [x EXCEPT ![c] = call.scan]
            /\ RootSound /\ Loose(call.scan) => Agree([x EXCEPT ![c] = call.scan], table, Heads(data[Root]))
      BY <1>1, <2>1, <3>1, Linking, Zenon
    <3>3. table' = [x EXCEPT ![c] = call.scan]
      BY <1>1, <2>3, <3>2, WrittenBack
    <3>4. Avoids(x, h, c)
      BY <1>1, <1>2, <2>1, <3>2 DEF Holds, CallSound, Held, Placed, c
    <3>5. \A p \in Clusters \ {c} : table'[p] = x[p]
      BY <3>2, <3>3, SectorTypes
    <3> QED
      BY <1>4, <2>1, <3>4, <3>5
  <2> QED
    BY <1>9, <2>2, <2>3, Zenon DEF Link
<1> QED
  BY <1>5, <1>6, <1>7, <1>8, <1>9, Writes

\* Whatever calls are made and whichever device accesses fail, the files that are not open
\* keep every byte, however many links of however many chains that takes: but for a link that
\* could not be written when it was made, and is written with its sector later.
THEOREM OthersKept == Spec => OthersKeepContent
<1>1. IInv /\ [Next]_vars =>
        [\A e \in RootEntries :
           (file = None \/ e.first # file.first) /\ "torn" \notin faults' /\ e.first # 0
             => Content(table, e.first)' \in {Content(table, e.first), Content(Buffered, e.first)}]_vars
  <2>1. ASSUME NEW e \in RootEntries, e.first # 0 PROVE e.first \in Heads(data[Root])
    BY <2>1 DEF RootEntries, Heads
  <2> QED
    BY <2>1, OtherKept
<1> QED
  BY <1>1, FatInvariant, PTL DEF Spec, OthersKeepContent

-----------------------------------------------------------------------------
(* Reads and writes of the open file: where they are in its chain *)

\* The chain of the open file: its clusters are those it is on.
Walk == ChainCell(table, file.first)
On(n) == n <= ClusterCount /\ Walk[n] \in Clusters

\* Without a failed write, the buffer shows what is on disk.
Fresh == faults \subseteq {"read"} => Buffered = table

\* A call is at the n-th cluster of the chain, or past its end if no read failed.
AtPlace(n) == IF call.cluster \in Clusters THEN On(n) /\ call.cluster = Walk[n]
                                           ELSE faults = {} => ~On(n)
ReadInv ==
  call.op = "read" /\ faults \subseteq {"read"} =>
    /\ call.off \in Nat /\ call.at = call.off + Written
    /\ \A k \in 1 .. Written : Has(call.off + k - 1) /\ call.copied[k] = ByteAt(call.off + k - 1)
    /\ call.pc = "seek" => Written = 0 /\ call.skip \in 0 .. call.off \div N /\ AtPlace((call.off \div N) - call.skip)
    /\ call.pc = "copy" /\ Written < call.len => AtPlace(call.at \div N)
    /\ call.pc = "next" => \E n \in 0 .. ClusterCount :
         /\ On(n) /\ call.cluster = Walk[n]
         /\ Written < call.len => call.at = (n + 1) * N
    /\ call.pc = "done" /\ faults = {} => Written >= call.len \/ ~On(call.at \div N)

\* The i-th byte of the n-th cluster is the written one, or as it was.
Wrote(n, i) ==
  LET k == n * N + i - call.off + 1 IN
  data[Walk[n]][i + 1] = IF k \in 1 .. Written THEN Source(k) ELSE call.before.data[Walk[n]][i + 1]
WriteInv ==
  call.op = "write" /\ faults = {} /\ call.off < N /\ file.first # 0 =>
    /\ call.off \in Nat /\ call.at = call.off + Written /\ Written <= call.len
    /\ table = call.before.table
    /\ \A n \in 0 .. ClusterCount, i \in 0 .. N - 1 : On(n) => Wrote(n, i)
    /\ call.pc \in {"seek", "put", "next", "done"}
    /\ call.pc = "seek" => Written = 0 /\ call.skip = 0 /\ call.cluster = file.first
    /\ call.pc = "put" /\ Written < call.len => AtPlace(call.at \div N)
    /\ call.pc = "next" => Written < call.len /\ \E n \in 0 .. ClusterCount :
         On(n) /\ call.cluster = Walk[n] /\ call.at = (n + 1) * N
    /\ call.pc = "done" => Written = call.len \/ ~On(call.at \div N)
ReadWriteInv == Fresh /\ ReadInv /\ WriteInv

\* The table as it is buffered stays the one on disk, but for a failed write.
LEMMA FreshStays ==
  ASSUME IInv, Fresh, [Next]_vars
  PROVE  Fresh'
<1> SUFFICES ASSUME faults' \subseteq {"read"} PROVE (Buffered = table)'
  BY DEF Fresh
<1>1. /\ faults \subseteq {"read"} /\ "torn" \notin faults' /\ "write" \notin faults'
      /\ Buffered = table /\ Types /\ Placed
  BY FaultsStay DEF Fresh, IInv
<1>2. CASE UNCHANGED <<table, cache, cached>>
  BY <1>1, <1>2, Still
<1>3. ASSUME NEW c \in Clusters, NEW r \in GetNext(c), Took(r), UNCHANGED table PROVE (Buffered = table)'
  BY <1>1, <1>3, GetNextKeeps
<1>4. CASE ReadSeek \/ ReadNext \/ WriteNext \/ Search
  <2>1. ReadNext \/ WriteNext => call.cluster \in Clusters
    BY <1>1 DEF ReadNext, WriteNext, At, Placed
  <2> QED
    BY <1>2, <1>3, <1>4, <2>1, Zenon DEF ReadSeek, ReadNext, WriteNext, Search, disk, tableCache
<1>5. CASE Scan
  <2> DEFINE c == call.scan
             i == c % EntriesPerSector
             now == TableSector(c)
  <2>1. CASE UNCHANGED <<table, cache, cached>>
    BY <1>2, <2>1
  <2>2. CASE c \in Clusters /\ cache' = now /\ cached' = SectorOf(c) /\ UNCHANGED table
    <3>1. View(table, now, SectorOf(c)) = table
      BY <1>1, <2>2, TableSectorIs
    <3> QED
      BY <2>2, <3>1 DEF Buffered, View
  <2>3. CASE WriteTable(SectorOf(c), cache') /\ cached' = SectorOf(c)
    BY <1>1, <2>3, WrittenBack DEF Buffered, View
  <2>4. CASE Fail("write")
    BY <1>1, <2>4 DEF Fail
  <2> QED
    BY <1>5, <2>1, <2>2, <2>3, <2>4, Zenon DEF Scan, tableCache
<1>6. CASE Link
  <2>1. CASE UNCHANGED <<table, cache, cached>>
    BY <1>2, <2>1
  <2>2. CASE WriteTable(SectorOf(call.cluster), cache') /\ cached' = SectorOf(call.cluster)
    BY <1>1, <2>2, WrittenBack DEF Buffered, View
  <2>3. CASE Fail("write")
    BY <1>1, <2>3 DEF Fail
  <2> QED
    BY <1>6, <2>1, <2>2, <2>3, Zenon DEF Link, tableCache
<1>7. CASE Client \/ Lookup \/ ReadCopy \/ WriteSeek \/ WritePut \/ Format \/ EnterName
  <2>1. UNCHANGED <<table, cache, cached>>
    BY <1>7 DEF Client, FAT_Open, FAT_Close, FAT_Read, FAT_Write, FAT_CreateDirectory, Begin,
       Lookup, ReadCopy, WriteSeek, WritePut, Format, EnterName, disk, tableCache
  <2> QED
    BY <1>2, <2>1
<1>8. CASE UNCHANGED vars
  BY <1>2, <1>8 DEF vars, disk, tableCache
<1> QED
  BY <1>4, <1>5, <1>6, <1>7, <1>8, Zenon DEF Next, Working

-----------------------------------------------------------------------------
(* The chain of the open file *)

LEMMA WalkSteps ==
  /\ Walk[0] = file.first
  /\ \A n \in 1 .. ClusterCount :
       Walk[n] = IF Walk[n - 1] \in Clusters THEN table[Walk[n - 1]] ELSE EOC
<1>1. Walk = [n \in 0 .. ClusterCount |->
        IF n = 0 THEN file.first ELSE IF Walk[n - 1] \in Clusters THEN table[Walk[n - 1]] ELSE EOC]
  <2>1. Walks(Walk, table, file.first, ClusterCount)
    BY ChainWalks DEF Walk
  <2> QED
    BY <2>1 DEF Walks
<1> HIDE DEF Walk
<1>2. \A n \in 0 .. ClusterCount : Walk[n] =
        IF n = 0 THEN file.first ELSE IF Walk[n - 1] \in Clusters THEN table[Walk[n - 1]] ELSE EOC
  BY <1>1
<1> QED
  BY <1>2, SizesAssumption

\* What is on the chain comes after a cluster that is on it, or is the first.
LEMMA Previous ==
  ASSUME NEW n \in Nat, n # 0, On(n)
  PROVE  n - 1 \in Nat /\ On(n - 1) /\ Walk[n] = table[Walk[n - 1]]
<1>1. n \in 1 .. ClusterCount /\ Walk[n] \in Clusters
  BY SizesAssumption DEF On
<1> HIDE DEF Walk
<1>2. Walk[n - 1] \in Clusters /\ Walk[n] = table[Walk[n - 1]]
  BY <1>1, WalkSteps, Marks
<1> QED
  BY <1>1, <1>2, SizesAssumption DEF On

LEMMA EndsForGood ==
  ASSUME NEW n \in Nat, NEW m \in Nat, n <= m, On(m)
  PROVE  On(n)
<1> DEFINE S == {k \in Nat : n <= k /\ On(k)}
<1>1. S \subseteq Nat /\ S # {}
  OBVIOUS
<1> HIDE DEF S
<1>2. PICK k \in S : \A j \in S : k <= j
  BY <1>1, Smallest
<1>3. k \in Nat /\ n <= k /\ On(k)
  BY <1>2 DEF S
<1>4. CASE k = n
  BY <1>3, <1>4
<1>5. CASE k # n
  <2>1. k # 0 /\ n <= k - 1 /\ k - 1 \in Nat
    BY <1>3, <1>5
  <2>2. On(k - 1)
    BY <1>3, <2>1, Previous
  <2>3. k - 1 \in S
    BY <2>1, <2>2 DEF S
  <2> QED
    BY <1>2, <1>3, <2>3
<1> QED
  BY <1>4, <1>5

\* The open file is one of the directory's, and the table is sound.
Chained == Sound(table, Heads(data[Root])) /\ file.first \in Heads(data[Root]) \cup {0}

LEMMA IsChained == ASSUME IInv, "torn" \notin faults, file # None PROVE Chained
BY HeadsAreClusters, AgreeSound DEF IInv, Holds, RootSound, FileSound, Chained

LEMMA Distinct ==
  ASSUME Chained
  PROVE  \A n, m \in Nat : n < m /\ On(n) /\ On(m) => Walk[n] # Walk[m]
<1> DEFINE S == {n \in Nat : \E m \in Nat : n < m /\ On(n) /\ On(m) /\ Walk[n] = Walk[m]}
<1>1. SUFFICES ASSUME S # {} PROVE FALSE
  OBVIOUS
<1>2. PICK n \in S : \A k \in S : n <= k
  <2>1. S \subseteq Nat
    OBVIOUS
  <2> HIDE DEF S
  <2> QED
    BY <1>1, <2>1, Smallest
<1>3. PICK m \in Nat : n \in Nat /\ n < m /\ On(n) /\ On(m) /\ Walk[n] = Walk[m]
  BY <1>2
<1>4. m # 0 /\ Walk[n] \in Clusters
  BY <1>3 DEF On
<1>5. m - 1 \in Nat /\ On(m - 1) /\ Walk[m] = table[Walk[m - 1]] /\ Walk[m - 1] \in Clusters
  BY <1>3, <1>4, Previous DEF On
<1>6. CASE n = 0
  <2>1. Walk[n] = file.first
    BY <1>6, WalkSteps
  <2>2. file.first \in Heads(data[Root])
    BY <1>4, <2>1, Marks DEF Chained
  <2> QED
    BY <1>3, <1>4, <1>5, <2>1, <2>2 DEF Chained, Sound
<1>7. CASE n # 0
  <2>1. n - 1 \in Nat /\ On(n - 1) /\ Walk[n] = table[Walk[n - 1]] /\ Walk[n - 1] \in Clusters
    BY <1>3, <1>7, Previous DEF On
  <2>2. Walk[n - 1] = Walk[m - 1]
    BY <1>3, <1>4, <1>5, <2>1 DEF Chained, Sound
  <2>3. n - 1 < m - 1
    BY <1>3
  <2>4. n - 1 \in S
    BY <1>5, <2>1, <2>2, <2>3
  <2> HIDE DEF S
  <2> QED
    BY <1>2, <1>3, <2>4
<1> QED
  BY <1>6, <1>7

\* There are more clusters than a chain can go through.
LEMMA Short ==
  ASSUME Chained, NEW n \in Nat, On(n)
  PROVE  n + 1 <= ClusterCount
<1> DEFINE f == [k \in 0 .. n |-> Walk[k]]
<1>1. f \in Injection(0 .. n, Clusters)
  <2>1. \A k \in 0 .. n : On(k)
    BY EndsForGood
  <2>2. \A k \in 0 .. n : Walk[k] \in Clusters
    BY <2>1 DEF On
  <2>3. ASSUME NEW a \in 0 .. n, NEW b \in 0 .. n, f[a] = f[b] PROVE a = b
    <3>1. Walk[a] = Walk[b]
      BY <2>3
    <3>2. ~(a < b) /\ ~(b < a)
      BY <2>1, <3>1, Distinct
    <3> QED
      BY <3>2
  <2>4. f \in [0 .. n -> Clusters]
    BY <2>2
  <2> QED
    BY <2>3, <2>4, Zenon DEF Injection, IsInjective
<1>2. ClusterCount \in Nat /\ 2 <= ClusterCount
  BY SizesAssumption DEF Clusters
<1>3. IsFiniteSet(Clusters) /\ Cardinality(Clusters) = ClusterCount - 2
  BY <1>2, FS_Interval DEF Clusters
<1>4. Cardinality(0 .. n) <= Cardinality(Clusters)
  BY <1>1, <1>3, FS_Injection
<1>5. Cardinality(0 .. n) = n + 1
  BY FS_Interval
<1> QED
  BY <1>2, <1>3, <1>4, <1>5

LEMMA Further ==
  ASSUME Chained, NEW n \in Nat, On(n)
  PROVE  /\ n + 1 \in Nat /\ Walk[n + 1] = table[Walk[n]]
         /\ On(n + 1) <=> table[Walk[n]] \in Clusters
<1>1. n + 1 \in 1 .. ClusterCount /\ (n + 1) - 1 = n
  BY Short, SizesAssumption
<1>2. Walk[n + 1] = table[Walk[n]]
  BY <1>1, WalkSteps DEF On
<1> QED
  BY <1>1, <1>2 DEF On

\* The next cluster is read from the table, and is the next of the chain.
LEMMA Follow ==
  ASSUME IInv, Fresh, Chained, NEW n \in Nat, On(n), NEW r \in GetNext(Walk[n]), Took(r),
         UNCHANGED table, faults \subseteq {"read"}, faults' \subseteq {"read"}
  PROVE  /\ r.next \in Clusters => On(n + 1) /\ r.next = Walk[n + 1]
         /\ faults' = {} => r.next = Walk[n + 1]
         /\ r.next \notin Clusters /\ faults' = {} => ~On(n + 1)
<1>1. Walk[n] \in Clusters /\ Buffered = table /\ "torn" \notin faults' /\ Types
  BY DEF On, Fresh, IInv
<1>2. r.next \in {0, table[Walk[n]]} /\ (faults' = {} => r.next = table[Walk[n]])
  BY <1>1, GetNextKeeps
<1> QED
  BY <1>2, Further, Marks

-----------------------------------------------------------------------------
(* Positions in a file *)

LEMMA Position ==
  ASSUME NEW p \in Nat
  PROVE  p \div N \in Nat /\ p % N \in 0 .. N - 1 /\ p = (p \div N) * N + (p % N)
BY SizesAssumption

\* A position is in one cluster only.
LEMMA Multiples ==
  ASSUME NEW m \in Nat, NEW n \in Nat
  PROVE  /\ m * N \in Nat /\ n * N \in Nat /\ (n + 1) * N = n * N + N
         /\ m < n => m * N + N <= n * N
<1>1. N \in Nat \ {0}
  BY SizesAssumption
<1>2. m * N \in Nat /\ n * N \in Nat /\ (n + 1) * N = n * N + N /\ (m + 1) * N = m * N + N
  BY <1>1
<1>3. m < n => (m + 1) * N <= n * N
  BY <1>1
<1> QED
  BY <1>2, <1>3

LEMMA AtPosition ==
  ASSUME NEW n \in Nat, NEW i \in 0 .. N - 1
  PROVE  /\ n * N + i \in Nat /\ (n * N + i) \div N = n /\ (n * N + i) % N = i
<1> DEFINE p == n * N + i
           m == p \div N
           j == p % N
<1>1. N \in Nat \ {0} /\ n * N \in Nat /\ p \in Nat
  BY SizesAssumption, Multiples
<1>2. m \in Nat /\ j \in 0 .. N - 1 /\ p = m * N + j
  BY <1>1, Position
<1>3. n * N + i = m * N + j
  BY <1>2
<1>4. /\ m < n => m * N + N <= n * N
      /\ n < m => n * N + N <= m * N
      /\ m * N \in Nat
  BY <1>2, Multiples
<1> HIDE DEF p, m, j
<1>5. m = n
  BY <1>1, <1>2, <1>3, <1>4
<1>6. j = i
  BY <1>1, <1>2, <1>3, <1>4, <1>5
<1> QED
  BY <1>1, <1>5, <1>6 DEF p, m, j

LEMMA HasIsOn ==
  ASSUME NEW n \in Nat, NEW i \in 0 .. N - 1, NEW p, p = n * N + i
  PROVE  /\ Has(p) <=> On(n)
         /\ ByteAt(p) = data[Walk[n]][i + 1]
BY AtPosition DEF Has, On, ByteAt, ClusterAt, Walk

\* The bytes of a piece that begins at a position, in the cluster of that position.
LEMMA InPiece ==
  ASSUME NEW m \in Nat, NEW j \in 0 .. N - 1, NEW off \in Nat, NEW w \in Nat, off + w = m * N + j,
         NEW l \in Nat, l <= N - j, NEW n \in Nat, NEW i \in 0 .. N - 1, NEW k, k = n * N + i - off + 1
  PROVE  /\ k \in Int
         /\ k \in 1 .. w + l <=> k \in 1 .. w \/ (n = m /\ i + 1 - j \in 1 .. l)
         /\ n = m => k = w + (i + 1 - j)
<1> DEFINE a == m * N
           b == n * N
<1>1. N \in Nat \ {0} /\ a \in Nat /\ b \in Nat /\ (m < n => a + N <= b) /\ (n < m => b + N <= a)
  BY SizesAssumption, Multiples
<1>2. off + w = a + j /\ k = b + i - off + 1 /\ (n = m => b = a)
  OBVIOUS
<1> HIDE DEF a, b
<1>3. CASE n = m
  BY <1>1, <1>2, <1>3
<1>4. CASE n < m
  BY <1>1, <1>2, <1>4
<1>5. CASE m < n
  BY <1>1, <1>2, <1>5
<1> QED
  BY <1>3, <1>4, <1>5

-----------------------------------------------------------------------------
(* Reading *)

LEMMA OpStays ==
  ASSUME CallTypes, Working
  PROVE  call'.op = call.op
<1> USE DEF Step, Return, CallTypes, CallFields
<1>1. CASE Lookup
  BY <1>1 DEF Lookup, NotFound
<1>2. CASE ReadSeek \/ ReadCopy \/ ReadNext
  BY <1>2 DEF ReadSeek, ReadCopy, ReadNext
<1>3. CASE WriteSeek \/ WritePut \/ WriteNext
  BY <1>3 DEF WriteSeek, WritePut, WriteNext, EndWrite
<1>4. CASE Scan
  BY <1>4 DEF Scan, NoCluster, EndWrite, Allocated
<1>5. CASE Link
  BY <1>5 DEF Link, NoCluster, EndWrite, Allocated
<1>6. CASE Search \/ Format \/ EnterName
  BY <1>6 DEF Search, Format, EnterName
<1> QED
  BY <1>1, <1>2, <1>3, <1>4, <1>5, <1>6, Zenon DEF Working

LEMMA OpBegins ==
  /\ \A name : FAT_Open(name) => call'.op = "open"
  /\ \A name : FAT_CreateDirectory(name) => call'.op = "create"
  /\ \A off, len : FAT_Read(off, len) => call'.op = "read"
  /\ \A off, len : FAT_Write(off, len) => call'.op = "write"
  /\ FAT_Close => call'.op = "close"
<1>1. \A name : FAT_Open(name) => call'.op = "open"
  BY DEF FAT_Open, Begin, Step, Idle
<1>2. \A name : FAT_CreateDirectory(name) => call'.op = "create"
  BY DEF FAT_CreateDirectory, Begin, Step, Idle
<1>3. \A off, len : FAT_Read(off, len) => call'.op = "read"
  BY DEF FAT_Read, Begin, Step, Idle
<1>4. \A off, len : FAT_Write(off, len) => call'.op = "write"
  BY DEF FAT_Write, Begin, Step, Idle
<1>5. FAT_Close => call'.op = "close"
  BY DEF FAT_Close, Begin, Step, Idle
<1> QED
  BY <1>1, <1>2, <1>3, <1>4, <1>5, Zenon

\* The steps of a read, and those of a write.
LEMMA Steps ==
  ASSUME IInv, Next
  PROVE  /\ call'.op = "read" =>
              ReadSeek \/ ReadCopy \/ ReadNext \/ \E off \in Offsets, len \in Lengths : FAT_Read(off, len)
         /\ call'.op = "write" =>
              \/ WriteSeek \/ WritePut \/ WriteNext \/ Scan \/ Link
              \/ \E off \in Offsets, len \in Lengths : FAT_Write(off, len)
<1>1. CASE Client
  BY <1>1, OpBegins DEF Client
<1>2. CASE Working
  <2>1. call'.op = call.op
    BY <1>2, OpStays DEF IInv, Types
  <2>2. Lookup \/ Search \/ Format \/ EnterName => call.op \notin {"read", "write"}
    BY DEF Lookup, Search, Format, EnterName, At, IInv, Placed
  <2>3. Scan \/ Link \/ WriteSeek \/ WritePut \/ WriteNext => call.op # "read"
    BY DEF Scan, Link, WriteSeek, WritePut, WriteNext, At, IInv, Placed
  <2>4. ReadSeek \/ ReadCopy \/ ReadNext => call.op = "read"
    BY DEF ReadSeek, ReadCopy, ReadNext
  <2> QED
    BY <1>2, <2>1, <2>2, <2>3, <2>4 DEF Working
<1> QED
  BY <1>1, <1>2 DEF Next

\* A read begins at the first cluster, or is over.
LEMMA ReadBegins ==
  ASSUME IInv, NEW off \in Offsets, NEW len \in Lengths, FAT_Read(off, len)
  PROVE  ReadInv'
<1> DEFINE m == IF off + len > file.size THEN file.size - off ELSE len
<1>1. PICK pc \in {"done", "seek"}, n \in {0, m} :
        /\ call' = [op |-> "read", pc |-> pc, name |-> "", off |-> off, len |-> n, at |-> off,
                    skip |-> off \div N, cluster |-> file.first, copied |-> <<>>, scan |-> 0,
                    slot |-> 0, before |-> <<>>]
        /\ pc = "done" => n = 0
  BY DEF FAT_Read, Begin, Step, Idle
<1> HIDE DEF m
<1>2. /\ call'.pc = pc /\ call'.off = off /\ call'.at = off /\ call'.len = n /\ call'.cluster = file.first
      /\ call'.skip = off \div N /\ Written' = 0
  BY <1>1 DEF Written
<1>3. file' = file /\ table' = table
  BY DEF FAT_Read, Begin, disk
<1>4. off \in Nat /\ off \div N \in Nat
  BY SizesAssumption, Position
<1>5. AtPlace(0)'
  <2>1. Walk' = Walk /\ Walk[0] = file.first
    BY <1>3, WalkSteps DEF Walk, ChainCell
  <2>2. 0 <= ClusterCount
    BY SizesAssumption
  <2> HIDE DEF Walk
  <2> QED
    BY <1>2, <2>1, <2>2 DEF AtPlace, On
<1>6. (off \div N) - (off \div N) = 0 /\ off + 0 = off /\ off \div N \in 0 .. off \div N
  BY <1>4
<1>7. AtPlace((call.off \div N) - call.skip)'
  BY <1>2, <1>5, <1>6, Zenon
<1>8. 1 .. 0 = {}
  OBVIOUS
<1>9. /\ call'.off \in Nat /\ call'.at = call'.off + Written'
      /\ \A k \in 1 .. Written' : Has(call.off + k - 1)' /\ call'.copied[k] = ByteAt(call.off + k - 1)'
      /\ call'.pc = "seek" => Written' = 0 /\ call'.skip \in 0 .. call'.off \div N
      /\ call'.pc = "done" => Written' >= call'.len
  <2>1. call'.off \in Nat /\ call'.at = call'.off + Written'
    BY <1>2, <1>4, <1>6
  <2>2. \A k \in 1 .. Written' : FALSE
    BY <1>2, <1>8
  <2>3. call'.pc = "seek" => Written' = 0 /\ call'.skip \in 0 .. call'.off \div N
    BY <1>2, <1>6
  <2>4. call'.pc = "done" => Written' >= call'.len
    <3>1. 0 >= 0
      OBVIOUS
    <3> QED
      BY <1>1, <1>2, <3>1, Zenon
  <2> QED
    BY <2>1, <2>2, <2>3, <2>4, Zenon
<1> QED
  BY <1>2, <1>7, <1>9 DEF ReadInv

\* What a step of a read leaves: the file, its chain, and what is in it.
LEMMA SameFile ==
  ASSUME UNCHANGED <<table, data, file>>
  PROVE  /\ Walk' = Walk
         /\ \A p : (Has(p))' = Has(p) /\ (ByteAt(p))' = ByteAt(p)
         /\ \A n : (On(n))' = On(n)
BY DEF Walk, ChainCell, Has, ByteAt, ClusterAt, On

\* A read that has nothing new is where it says.
LEMMA SameBytes ==
  ASSUME ReadInv, call.op = "read", faults \subseteq {"read"}, UNCHANGED <<table, data, file>>,
         UNCHANGED <<call.off, call.at, call.copied>>
  PROVE  /\ call'.off \in Nat /\ call'.at = call'.off + Written'
         /\ \A k \in 1 .. Written' : Has(call.off + k - 1)' /\ call'.copied[k] = ByteAt(call.off + k - 1)'
BY SameFile DEF ReadInv, Written

\* To be at a place is the same after a step that stays there.
LEMMA StillThere ==
  ASSUME NEW n, AtPlace(n), UNCHANGED <<table, data, file>>, call'.cluster = call.cluster, faults \subseteq faults'
  PROVE  AtPlace(n)'
BY SameFile DEF AtPlace

LEMMA ReadSeeks ==
  ASSUME IInv, Fresh, ReadInv, ReadSeek, [Next]_vars
  PROVE  ReadInv'
<1> SUFFICES ASSUME faults' \subseteq {"read"} PROVE ReadInv'
  BY DEF ReadInv
<1>1. /\ faults \subseteq faults' /\ faults \subseteq {"read"} /\ "torn" \notin faults /\ CallTypes
      /\ call.op = "read" /\ call.pc = "seek" /\ UNCHANGED <<table, data, file>> /\ file # None
  BY FaultsStay DEF ReadSeek, At, disk, IInv, Types, Placed
<1>n. PICK n : n = (call.off \div N) - call.skip
  OBVIOUS
<1>2. /\ call.off \in Nat /\ call.at = call.off + Written /\ Written = 0
      /\ call.skip \in 0 .. call.off \div N /\ AtPlace(n)
  BY <1>1, <1>n DEF ReadInv
<1>3. call.off \div N \in Nat /\ call.skip \in Nat /\ n \in Nat /\ n <= call.off \div N /\ call.at = call.off
  <2>1. call.off \div N \in Nat
    BY <1>2, Position
  <2> QED
    BY <1>n, <1>2, <2>1
<1>4. CASE call.skip = 0 /\ call' = [call EXCEPT !.pc = "copy"]
  <2>1. /\ call'.pc = "copy" /\ call'.cluster = call.cluster /\ call'.op = call.op
        /\ UNCHANGED <<call.off, call.at, call.copied>>
    BY <1>1, <1>4 DEF CallTypes, CallFields
  <2>2. n = call.off \div N
    BY <1>n, <1>3, <1>4
  <2>3. AtPlace(n)'
    BY <1>1, <1>2, <2>1, StillThere
  <2>4. AtPlace(call.at \div N)'
    BY <1>3, <2>1, <2>2, <2>3
  <2> QED
    BY <1>1, <2>1, <2>4, SameBytes DEF ReadInv
<1>5. CASE call.cluster \notin Clusters /\ call' = [call EXCEPT !.pc = "done"] /\ UNCHANGED faults
  <2>1. /\ call'.pc = "done" /\ call'.op = call.op /\ UNCHANGED <<call.off, call.at, call.copied>>
    BY <1>1, <1>5 DEF CallTypes, CallFields
  <2>2. faults = {} => ~On(n)
    BY <1>2, <1>5 DEF AtPlace
  <2>3. faults' = {} => ~On(call.at \div N)'
    BY <1>1, <1>3, <1>5, <2>1, <2>2, EndsForGood, SameFile
  <2> QED
    BY <1>1, <2>1, <2>3, SameBytes DEF ReadInv
<1>6. ASSUME call.skip # 0, call.cluster \in Clusters, NEW r \in GetNext(call.cluster), Took(r),
             call' = [call EXCEPT !.skip = @ - 1, !.cluster = r.next]
      PROVE  ReadInv'
  <2>1. /\ call'.pc = "seek" /\ call'.op = call.op /\ call'.skip = call.skip - 1 /\ call'.cluster = r.next
        /\ UNCHANGED <<call.off, call.at, call.copied>>
    BY <1>1, <1>6 DEF CallTypes, CallFields
  <2>2. On(n) /\ call.cluster = Walk[n]
    BY <1>2, <1>6 DEF AtPlace
  <2>3. /\ r.next \in Clusters => On(n + 1) /\ r.next = Walk[n + 1]
        /\ r.next \notin Clusters /\ faults' = {} => ~On(n + 1)
    BY <1>1, <1>3, <1>6, <2>2, IsChained, Follow
  <2>4. AtPlace(n + 1)'
    BY <1>1, <2>1, <2>3, SameFile DEF AtPlace
  <2>5. call.skip - 1 \in 0 .. call.off \div N /\ (call.off \div N) - (call.skip - 1) = n + 1
    BY <1>n, <1>2, <1>3, <1>6
  <2>6. AtPlace((call.off \div N) - call.skip)' /\ call'.skip \in 0 .. call'.off \div N
    BY <2>1, <2>4, <2>5
  <2>7. Written' = 0
    BY <1>2, <2>1 DEF Written
  <2> QED
    BY <1>1, <2>1, <2>6, <2>7, SameBytes DEF ReadInv
<1> QED
  BY <1>4, <1>5, <1>6, Zenon DEF ReadSeek, Step, Return

LEMMA ReadNexts ==
  ASSUME IInv, Fresh, ReadInv, ReadNext, [Next]_vars
  PROVE  ReadInv'
<1> SUFFICES ASSUME faults' \subseteq {"read"} PROVE ReadInv'
  BY DEF ReadInv
<1>1. /\ faults \subseteq faults' /\ faults \subseteq {"read"} /\ "torn" \notin faults /\ CallTypes
      /\ call.op = "read" /\ call.pc = "next" /\ UNCHANGED <<table, data, file>> /\ file # None
  BY FaultsStay DEF ReadNext, At, disk, IInv, Types, Placed
<1>2. PICK n \in 0 .. ClusterCount :
        On(n) /\ call.cluster = Walk[n] /\ (Written < call.len => call.at = (n + 1) * N)
  BY <1>1 DEF ReadInv
<1>3. PICK r \in GetNext(call.cluster) : Took(r) /\ call' = [call EXCEPT !.pc = "copy", !.cluster = r.next]
  BY DEF ReadNext, Step
<1>4. /\ call'.pc = "copy" /\ call'.op = call.op /\ call'.cluster = r.next /\ call'.len = call.len
      /\ UNCHANGED <<call.off, call.at, call.copied>> /\ Written' = Written
  BY <1>1, <1>3 DEF CallTypes, CallFields, Written
<1>5. n \in Nat /\ n + 1 \in Nat
  OBVIOUS
<1>6. /\ r.next \in Clusters => On(n + 1) /\ r.next = Walk[n + 1]
      /\ r.next \notin Clusters /\ faults' = {} => ~On(n + 1)
  BY <1>1, <1>2, <1>3, <1>5, IsChained, Follow
<1>7. AtPlace(n + 1)'
  BY <1>1, <1>4, <1>6, SameFile DEF AtPlace
<1>8. Written' < call'.len => AtPlace(call.at \div N)'
  <2>1. 0 \in 0 .. N - 1 /\ (n + 1) * N + 0 = (n + 1) * N
    BY <1>5, SizesAssumption, Multiples
  <2>2. ((n + 1) * N) \div N = n + 1
    BY <1>5, <2>1, AtPosition
  <2> QED
    BY <1>2, <1>4, <1>7, <2>2
<1> QED
  BY <1>1, <1>4, <1>8, SameBytes DEF ReadInv

LEMMA CutOut ==
  ASSUME NEW s, NEW j \in Nat, NEW m \in Nat
  PROVE  \E T : /\ SubSeq(s, j + 1, j + m) \in Seq(T) /\ Len(SubSeq(s, j + 1, j + m)) = m
               /\ \A i \in 1 .. m : SubSeq(s, j + 1, j + m)[i] = s[j + i]
<1> DEFINE T == {s[i] : i \in j + 1 .. j + m}
<1>1. PICK a, b : a = j + 1 /\ b = j + m /\ a \in Int /\ b \in Int
  OBVIOUS
<1>2. \A i \in a .. b : s[i] \in T
  BY <1>1
<1> HIDE DEF T
<1>3. /\ SubSeq(s, a, b) \in Seq(T) /\ Len(SubSeq(s, a, b)) = IF a <= b THEN b - a + 1 ELSE 0
      /\ \A i \in 1 .. b - a + 1 : SubSeq(s, a, b)[i] = s[a + i - 1]
  BY <1>1, <1>2, SubSeqProperties
<1>4. b - a + 1 = m /\ (a <= b \/ m = 0) /\ \A i \in 1 .. m : a + i - 1 = j + i
  BY <1>1
<1>5. Len(SubSeq(s, a, b)) = m
  BY <1>1, <1>3, <1>4
<1> QED
  BY <1>1, <1>3, <1>4, <1>5

\* The bytes that are copied, as a sequence.
LEMMA PieceIs ==
  ASSUME NEW j \in 0 .. N - 1, j = call.at % N, ToCopy \in Nat, NEW S, call.copied \in Seq(S)
  PROVE  /\ Len(call.copied \o Piece) = Written + ToCopy
         /\ \A k \in 1 .. Written : (call.copied \o Piece)[k] = call.copied[k]
         /\ \A k \in 1 .. ToCopy : (call.copied \o Piece)[Written + k] = data[call.cluster][j + k]
<1>1. Piece = SubSeq(data[call.cluster], j + 1, j + ToCopy)
  BY DEF Piece
<1>2. j \in Nat /\ ToCopy \in Nat
  BY SizesAssumption
<1>5. PICK T : /\ Piece \in Seq(T) /\ Len(Piece) = ToCopy
               /\ \A i \in 1 .. ToCopy : Piece[i] = data[call.cluster][j + i]
  <2>1. PICK T : /\ SubSeq(data[call.cluster], j + 1, j + ToCopy) \in Seq(T)
                 /\ Len(SubSeq(data[call.cluster], j + 1, j + ToCopy)) = ToCopy
                 /\ \A i \in 1 .. ToCopy :
                      SubSeq(data[call.cluster], j + 1, j + ToCopy)[i] = data[call.cluster][j + i]
    BY <1>2, CutOut, ZenonT(60)
  <2> QED
    BY <1>1, <2>1, Zenon
<1>6. call.copied \in Seq(S \cup T) /\ Piece \in Seq(S \cup T)
  BY <1>5
<1>7. /\ Len(call.copied \o Piece) = Written + ToCopy
      /\ \A k \in 1 .. Written + ToCopy : (call.copied \o Piece)[k] =
           IF k <= Written THEN call.copied[k] ELSE Piece[k - Written]
  BY ZenonT(60), <1>5, <1>6, ConcatProperties DEF Written
<1>8. Written \in Nat
  BY LenProperties DEF Written
<1>9. ASSUME NEW k \in 1 .. ToCopy
      PROVE  /\ Written + k \in 1 .. Written + ToCopy /\ ~(Written + k <= Written)
             /\ (Written + k) - Written = k
  <2> HIDE DEF Written
  <2> QED
    BY <1>8
<1>10. ASSUME NEW k \in 1 .. Written PROVE k \in 1 .. Written + ToCopy /\ k <= Written
  <2> HIDE DEF Written
  <2> QED
    BY <1>8
<1>11. \A k \in 1 .. ToCopy : (call.copied \o Piece)[Written + k] = data[call.cluster][j + k]
  BY <1>5, <1>7, <1>9
<1> QED
  BY <1>7, <1>10, <1>11

\* A cluster is copied from the place on that the read is at, no further than it goes.
LEMMA ReadCopies ==
  ASSUME IInv, Fresh, ReadInv, ReadCopy, [Next]_vars
  PROVE  ReadInv'
<1> SUFFICES ASSUME faults' \subseteq {"read"} PROVE ReadInv'
  BY DEF ReadInv
<1>1. /\ faults \subseteq faults' /\ faults \subseteq {"read"} /\ "torn" \notin faults /\ CallTypes
      /\ call.op = "read" /\ call.pc = "copy" /\ UNCHANGED <<table, data, file>> /\ file # None
  BY FaultsStay DEF ReadCopy, At, disk, IInv, Types, Placed
<1>2. /\ call.off \in Nat /\ call.at = call.off + Written
      /\ \A k \in 1 .. Written : Has(call.off + k - 1) /\ call.copied[k] = ByteAt(call.off + k - 1)
      /\ Written < call.len => AtPlace(call.at \div N)
  BY <1>1 DEF ReadInv
<1>3. call.at \in Nat /\ call.len \in Nat /\ Written \in Nat
  BY <1>1, LenProperties DEF IInv, Holds, CallSound, Written
<1>4. CASE call' = [call EXCEPT !.pc = "done"] /\ (faults' = {} => Len(call.copied) >= call.len \/ call.cluster \notin Clusters)
  <2>1. /\ call'.pc = "done" /\ call'.op = call.op /\ UNCHANGED <<call.off, call.at, call.copied, call.len>>
        /\ Written' = Written
    BY <1>1, <1>4 DEF CallTypes, CallFields, Written
  <2>2. faults' = {} => Written >= call.len \/ ~On(call.at \div N)
    <3>1. faults' = {} => faults = {}
      BY <1>1
    <3>2. Written >= call.len \/ Written < call.len
      BY <1>3
    <3> QED
      BY <1>2, <1>4, <3>1, <3>2 DEF AtPlace, Written
  <2>3. faults' = {} => Written' >= call'.len \/ ~On(call.at \div N)'
    BY <1>1, <2>1, <2>2, SameFile
  <2> QED
    BY <1>1, <2>1, <2>3, SameBytes DEF ReadInv
<1>5. CASE /\ ~(Len(call.copied) >= call.len) /\ call.cluster \in Clusters
           /\ call' = [call EXCEPT !.copied = @ \o Piece, !.at = @ + ToCopy, !.pc = "next"]
  <2>1. /\ call'.pc = "next" /\ call'.op = call.op /\ call'.off = call.off /\ call'.len = call.len
        /\ call'.at = call.at + ToCopy /\ call'.cluster = call.cluster
        /\ call'.copied = call.copied \o Piece
    BY <1>1, <1>5 DEF CallTypes, CallFields
  <2>2. PICK n \in Nat, j \in 0 .. N - 1 :
          n = call.at \div N /\ j = call.at % N /\ call.at = n * N + j
    BY <1>3, Position
  <2>3. On(n) /\ call.cluster = Walk[n]
    <3>1. Written < call.len
      BY <1>3, <1>5 DEF Written
    <3> QED
      BY <1>2, <1>5, <2>2, <3>1 DEF AtPlace
  <2>4. N \in Nat \ {0} /\ n * N \in Nat /\ (n + 1) * N = n * N + N
    BY SizesAssumption, Multiples
  <2>5. ToCopy \in Nat /\ ToCopy <= N - j /\ (ToCopy = N - j \/ ToCopy = call.len)
    <3>1. ToCopy = IF N - j < call.len THEN N - j ELSE call.len
      BY <2>2 DEF ToCopy
    <3>2. N \in Nat /\ j \in Nat /\ j < N
      BY SizesAssumption
    <3> QED
      BY <1>3, <3>1, <3>2
  <2>6. PICK S : call.copied \in Seq(S)
    BY <1>1 DEF IInv, Holds, CallSound
  <2>7. /\ Len(call.copied \o Piece) = Written + ToCopy
        /\ \A k \in 1 .. Written : (call.copied \o Piece)[k] = call.copied[k]
        /\ \A k \in 1 .. ToCopy : (call.copied \o Piece)[Written + k] = data[call.cluster][j + k]
    BY <2>2, <2>5, <2>6, PieceIs
  <2>8. Written' = Written + ToCopy
    BY <2>1, <2>7 DEF Written
  <2>9. PICK w, m : w = Written /\ m = ToCopy /\ w \in Nat /\ m \in Nat
    BY <1>3, <2>5
  <2>10. PICK off : off = call.off /\ off \in Nat /\ off + w = n * N + j
    BY <1>2, <2>2, <2>9
  <2>11. ASSUME NEW k \in 1 .. w
         PROVE  Has(off + k - 1) /\ (call.copied \o Piece)[k] = ByteAt(off + k - 1)
    BY <1>2, <2>7, <2>9, <2>10, <2>11
  <2>12. ASSUME NEW k \in 1 .. m
         PROVE  Has(off + (w + k) - 1) /\ (call.copied \o Piece)[w + k] = ByteAt(off + (w + k) - 1)
    <3>1. PICK i \in 0 .. N - 1 : i = j + k - 1
      BY <2>4, <2>5, <2>9
    <3>2. off + (w + k) - 1 = n * N + i /\ i + 1 = j + k
      BY <2>4, <2>9, <2>10, <3>1
    <3>3. Has(off + (w + k) - 1) /\ ByteAt(off + (w + k) - 1) = data[Walk[n]][i + 1]
      BY <2>3, <3>2, HasIsOn
    <3>4. (call.copied \o Piece)[w + k] = data[Walk[n]][j + k]
      BY <2>3, <2>7, <2>9, <2>12
    <3> QED
      BY <3>2, <3>3, <3>4
  <2>13. \A k \in 1 .. w + m : Has(off + k - 1) /\ (call.copied \o Piece)[k] = ByteAt(off + k - 1)
    <3>1. ASSUME NEW k \in 1 .. w + m PROVE k \in 1 .. w \/ \E i \in 1 .. m : k = w + i
      <4>1. k - w \in 1 .. m \/ k \in 1 .. w
        BY <2>9, <3>1
      <4>2. k = w + (k - w)
        BY <2>9, <3>1
      <4> QED
        BY <4>1, <4>2
    <3> QED
      BY <2>11, <2>12, <3>1, Zenon
  <2>14. /\ call'.off \in Nat /\ call'.at = call'.off + Written'
         /\ \A k \in 1 .. Written' : Has(call.off + k - 1)' /\ call'.copied[k] = ByteAt(call.off + k - 1)'
    <3>1. Written' = w + m /\ call'.off = off
      BY <2>1, <2>8, <2>9, <2>10
    <3>2. call'.at = call'.off + Written'
      BY <1>2, <2>1, <2>4, <2>9, <2>10, <3>1
    <3>3. ASSUME NEW k \in 1 .. Written' PROVE Has(call.off + k - 1)' /\ call'.copied[k] = ByteAt(call.off + k - 1)'
      <4>1. Has(off + k - 1) /\ (call.copied \o Piece)[k] = ByteAt(off + k - 1)
        BY <2>13, <3>1, <3>3
      <4>2. call'.off + k - 1 = off + k - 1
        BY <3>1
      <4> QED
        BY <1>1, <2>1, <4>1, <4>2, SameFile
    <3> QED
      BY <2>10, <3>1, <3>2, <3>3
  <2>15. Written' < call'.len => call'.at = (n + 1) * N
    <3>1. Written' < call'.len => ToCopy # call.len
      BY <1>3, <2>1, <2>5, <2>8
    <3>2. ToCopy = N - j => call'.at = (n + 1) * N
      <4>1. PICK a : a = n * N /\ a \in Nat /\ (n + 1) * N = a + N /\ call.at = a + j /\ N \in Nat
        BY <2>2, <2>4
      <4>2. ToCopy = N - j => call'.at = a + j + (N - j)
        BY <2>1, <4>1
      <4>3. a + j + (N - j) = a + N
        BY <4>1
      <4> QED
        BY <4>1, <4>2, <4>3, Zenon
    <3> QED
      BY <2>5, <3>1, <3>2
  <2>16. On(n)' /\ call'.cluster = Walk'[n] /\ n \in 0 .. ClusterCount
    <3>1. n \in 0 .. ClusterCount
      BY <2>3, SizesAssumption DEF On
    <3> QED
      BY <1>1, <2>1, <2>3, <3>1, SameFile
  <2> QED
    BY <1>1, <2>1, <2>14, <2>15, <2>16 DEF ReadInv
<1>6. faults' = {} \/ faults' # {}
  OBVIOUS
<1>7. Fail("read") => faults' # {}
  BY DEF Fail
<1> QED
  BY <1>4, <1>5, <1>7, Zenon DEF ReadCopy, Step, Return

-----------------------------------------------------------------------------
(* Writing *)

\* The chain of the open file is that of its first cluster.
LEMMA SameChain ==
  ASSUME table' = table, file'.first = file.first
  PROVE  Walk' = Walk /\ \A n : (On(n))' = On(n)
BY DEF Walk, ChainCell, On

\* What was written stays, when nothing is.
LEMMA WroteStays ==
  ASSUME UNCHANGED <<table, data>>, file'.first = file.first, UNCHANGED <<call.off, call.copied, call.before>>
  PROVE  \A n, i : Wrote(n, i) => Wrote(n, i)'
<1>1. Walk' = Walk
  BY SameChain
<1> QED
  BY <1>1 DEF Wrote, Written

\* A write that starts in the first cluster of a file, and no failure so far.
Untroubled == call.op = "write" /\ faults = {} /\ call.off < N /\ file.first # 0

LEMMA WriteGoesOn ==
  ASSUME WriteInv, Untroubled, UNCHANGED <<table, data>>, file'.first = file.first,
         UNCHANGED <<call.off, call.at, call.copied, call.before, call.len>>
  PROVE  /\ call'.off \in Nat /\ call'.at = call'.off + Written' /\ Written' <= call'.len
         /\ table' = call'.before.table
         /\ \A n \in 0 .. ClusterCount, i \in 0 .. N - 1 : On(n)' => Wrote(n, i)'
<1>1. \A n, i : Wrote(n, i) => Wrote(n, i)'
  BY WroteStays
<1> QED
  BY <1>1, SameChain DEF WriteInv, Untroubled, Written

LEMMA WriteBegins ==
  ASSUME IInv, NEW off \in Offsets, NEW len \in Lengths, FAT_Write(off, len)
  PROVE  WriteInv'
<1> SUFFICES ASSUME Untroubled' PROVE WriteInv'
  BY DEF WriteInv, Untroubled
<1>1. PICK pc \in {"done", "seek"}, n \in {0, len} :
        /\ call' = [op |-> "write", pc |-> pc, name |-> "", off |-> off, len |-> n, at |-> off,
                    skip |-> off \div N, cluster |-> file.first, copied |-> <<>>, scan |-> 0,
                    slot |-> 0, before |-> [table |-> table, data |-> data]]
        /\ pc = "done" => n = 0
  BY DEF FAT_Write, Begin, Step, Idle
<1>2. /\ call'.pc = pc /\ call'.off = off /\ call'.at = off /\ call'.len = n /\ call'.cluster = file.first
      /\ call'.skip = off \div N /\ Written' = 0 /\ call'.before.table = table /\ call'.before.data = data
  BY <1>1 DEF Written
<1>3. file' = file /\ table' = table /\ data' = data
  BY DEF FAT_Write, Begin, disk
<1>4. off \in Nat /\ len \in Nat /\ n \in Nat /\ 0 <= n /\ off + 0 = off
  BY SizesAssumption
<1>5. off \div N = 0
  <2>1. off < N
    BY <1>2 DEF Untroubled
  <2>2. off \in 0 .. N - 1 /\ 0 * N + off = off
    BY <1>4, <2>1, SizesAssumption
  <2> QED
    BY <2>2, AtPosition
<1>6. Walk' = Walk
  BY <1>3, SameChain
<1>7. ASSUME NEW m, NEW i PROVE Wrote(m, i)'
  <2>1. \A k : k \notin 1 .. 0
    OBVIOUS
  <2> QED
    BY <1>2, <1>3, <1>6, <2>1 DEF Wrote
<1>8. pc = "done" => Written' = call'.len
  BY <1>1, <1>2
<1>9. call'.off \in Nat /\ call'.at = call'.off + Written' /\ Written' <= call'.len
  BY <1>2, <1>4
<1> QED
  BY <1>2, <1>3, <1>5, <1>7, <1>8, <1>9 DEF WriteInv

LEMMA WriteSeeks ==
  ASSUME IInv, WriteInv, WriteSeek
  PROVE  WriteInv'
<1> SUFFICES ASSUME Untroubled' PROVE WriteInv'
  BY DEF WriteInv, Untroubled
<1>1. /\ call.op = "write" /\ call.pc = "seek" /\ UNCHANGED <<table, data, file, faults>> /\ file # None
      /\ CallTypes /\ "torn" \notin faults
  BY DEF WriteSeek, At, disk, tableCache, IInv, Types, Placed, Untroubled
<1>2. PICK pc : call' = [call EXCEPT !.pc = pc] /\ (~(call.skip > 0) => pc = "put")
  BY DEF WriteSeek, Step
<1>3. /\ call'.pc = pc /\ call'.op = call.op /\ call'.cluster = call.cluster
      /\ UNCHANGED <<call.off, call.at, call.copied, call.before, call.len>>
  BY <1>1, <1>2 DEF CallTypes, CallFields
<1>4. Untroubled
  BY <1>1, <1>3 DEF Untroubled
<1>5. /\ call.off \in Nat /\ call.at = call.off + Written /\ Written = 0 /\ call.skip = 0
      /\ call.cluster = file.first
  BY <1>1, <1>4 DEF WriteInv, Untroubled
<1>6. pc = "put"
  BY <1>2, <1>5
<1>7. AtPlace(0)
  <2>1. Chained
    BY <1>1, IsChained
  <2>2. file.first \in Clusters
    <3>1. Heads(data[Root]) \subseteq Clusters
      BY <1>1, HeadsAreClusters DEF IInv, Holds
    <3> QED
      BY <1>4, <2>1, <3>1 DEF Chained, Untroubled
  <2>3. Walk[0] = file.first /\ 0 <= ClusterCount
    BY WalkSteps, SizesAssumption
  <2> HIDE DEF Walk
  <2> QED
    BY <1>5, <2>2, <2>3 DEF AtPlace, On
<1>8. call.at \div N = 0
  <2>1. call.at \in 0 .. N - 1 /\ 0 * N + call.at = call.at
    BY <1>4, <1>5, SizesAssumption DEF Untroubled
  <2> QED
    BY <2>1, AtPosition
<1>9. AtPlace(call.at \div N)'
  BY <1>1, <1>3, <1>7, <1>8, StillThere
<1> QED
  BY <1>1, <1>3, <1>4, <1>6, <1>9, WriteGoesOn DEF WriteInv

LEMMA WriteNexts ==
  ASSUME IInv, Fresh, WriteInv, WriteNext, [Next]_vars
  PROVE  WriteInv'
<1> SUFFICES ASSUME Untroubled' PROVE WriteInv'
  BY DEF WriteInv, Untroubled
<1>1. /\ call.op = "write" /\ call.pc = "next" /\ UNCHANGED <<table, data, file>> /\ file # None
      /\ CallTypes /\ faults' = {} /\ faults = {} /\ "torn" \notin faults
  BY FaultsStay DEF WriteNext, At, disk, IInv, Types, Placed, Untroubled
<1>2. PICK r \in GetNext(call.cluster) :
        /\ Took(r)
        /\ call' = IF r.next = 0 THEN [call EXCEPT !.pc = "scan", !.scan = 2]
                                 ELSE [call EXCEPT !.pc = "put", !.cluster = r.next]
  BY DEF WriteNext, Step
<1>3. call'.op = call.op /\ UNCHANGED <<call.off, call.at, call.copied, call.before, call.len>>
  BY <1>1, <1>2 DEF CallTypes, CallFields
<1>4. Untroubled
  BY <1>1, <1>3 DEF Untroubled
<1>5. PICK n \in 0 .. ClusterCount : On(n) /\ call.cluster = Walk[n] /\ call.at = (n + 1) * N
  BY <1>1, <1>4 DEF WriteInv, Untroubled
<1>6. n \in Nat /\ n + 1 \in Nat /\ Chained
  BY <1>1, IsChained
<1>7. r.next = Walk[n + 1] /\ (r.next \in Clusters => On(n + 1)) /\ (r.next \notin Clusters => ~On(n + 1))
  <2>1. faults \subseteq {"read"} /\ faults' \subseteq {"read"}
    BY <1>1
  <2> QED
    BY <1>1, <1>2, <1>5, <1>6, <2>1, Follow
<1>8. r.next # 0
  <2>1. table[Walk[n]] # 0
    <3>1. CASE n = 0
      <4>1. Walk[n] = file.first
        BY <3>1, WalkSteps
      <4> QED
        BY <1>4, <1>6, <4>1 DEF Chained, Sound, Untroubled
    <3>2. CASE n # 0
      <4>1. On(n - 1) /\ Walk[n] = table[Walk[n - 1]] /\ Walk[n - 1] \in Clusters /\ Walk[n] \in Clusters
        BY <1>5, <1>6, <3>2, Previous DEF On
      <4> QED
        BY <1>6, <4>1 DEF Chained, Sound
    <3> QED
      BY <3>1, <3>2
  <2> QED
    BY <1>5, <1>6, <1>7, <2>1, Further
<1>9. call'.pc = "put" /\ call'.cluster = r.next
  BY <1>1, <1>2, <1>8 DEF CallTypes, CallFields
<1>10. AtPlace(n + 1)'
  BY <1>1, <1>7, <1>9, SameFile DEF AtPlace
<1>11. AtPlace(call.at \div N)'
  <2>1. 0 \in 0 .. N - 1 /\ (n + 1) * N + 0 = (n + 1) * N
    BY <1>6, SizesAssumption, Multiples
  <2>2. ((n + 1) * N) \div N = n + 1
    BY <1>6, <2>1, AtPosition
  <2> QED
    BY <1>3, <1>5, <1>10, <2>2
<1> QED
  BY <1>1, <1>3, <1>4, <1>9, <1>11, WriteGoesOn DEF WriteInv

\* As much as is left of the request, or as fits in the cluster.
LEMMA Amount ==
  ASSUME NEW j \in 0 .. N - 1, NEW w \in Nat, NEW len \in Nat, w < len,
         NEW l, l = IF N - j < len - w THEN N - j ELSE len - w
  PROVE  /\ l \in Nat /\ l <= N - j /\ w + l <= len /\ w + l \in Nat
         /\ w + l < len => l = N - j
         /\ ~(w + l < len) => w + l = len
BY SizesAssumption

LEMMA PutIs ==
  ASSUME WriteLen \in Nat, NEW S, call.copied \in Seq(S)
  PROVE  Len(call.copied \o [k \in 1 .. WriteLen |-> Source(Written + k)]) = Written + WriteLen
<1> DEFINE piece == [k \in 1 .. WriteLen |-> Source(Written + k)]
           T == {Source(Written + k) : k \in 1 .. WriteLen}
<1>1. piece \in [1 .. WriteLen -> T]
  OBVIOUS
<1> HIDE DEF piece, T
<1>2. piece \in Seq(T) /\ Len(piece) = WriteLen
  BY <1>1
<1>3. call.copied \in Seq(S \cup T) /\ piece \in Seq(S \cup T)
  BY <1>2
<1>4. Len(call.copied \o piece) = Written + WriteLen
  BY <1>2, <1>3, ConcatProperties DEF Written
<1> QED
  BY <1>4 DEF piece

\* A cluster is written from the place on that the write is at, and no other cluster is.
LEMMA WritePlaces ==
  ASSUME IInv, WriteInv, Untroubled, call.pc = "put", file # None, Written < call.len, call.cluster \in Clusters,
         data' = [data EXCEPT ![call.cluster] = Merged], UNCHANGED <<table, file, faults>>,
         call' = [call EXCEPT
           !.copied = @ \o [k \in 1 .. WriteLen |-> Source(Written + k)],
           !.at = @ + WriteLen,
           !.pc = IF Written + WriteLen < call.len THEN "next" ELSE "put"]
  PROVE  WriteInv'
<1>1. /\ CallTypes /\ DOMAIN data = Clusters /\ call.op = "write" /\ faults = {} /\ "torn" \notin faults
      /\ call.off < N /\ file.first # 0
  BY DEF IInv, Types, Untroubled
<1>2. /\ call.off \in Nat /\ call.at = call.off + Written /\ Written <= call.len
      /\ table = call.before.table
      /\ \A n \in 0 .. ClusterCount, i \in 0 .. N - 1 : On(n) => Wrote(n, i)
      /\ AtPlace(call.at \div N)
  BY <1>1 DEF WriteInv
<1>3. call.at \in Nat /\ call.len \in Nat /\ Written \in Nat
  BY <1>1, LenProperties DEF IInv, Holds, CallSound, Written
<1>4. PICK m \in Nat, j \in 0 .. N - 1 : m = call.at \div N /\ j = call.at % N /\ call.at = m * N + j
  BY <1>3, Position
<1>5. PICK off, w, l, len : off = call.off /\ w = Written /\ l = WriteLen /\ len = call.len
  OBVIOUS
<1>6. off \in Nat /\ w \in Nat /\ len \in Nat /\ off + w = m * N + j /\ w < len
  BY <1>2, <1>3, <1>4, <1>5
<1>7. /\ l \in Nat /\ l <= N - j /\ w + l <= len /\ w + l \in Nat
      /\ w + l < len => l = N - j
      /\ ~(w + l < len) => w + l = len
  <2>1. l = IF N - j < len - w THEN N - j ELSE len - w
    BY <1>4, <1>5 DEF WriteLen
  <2> QED
    BY <1>6, <2>1, Amount
<1>8. On(m) /\ call.cluster = Walk[m] /\ m \in 0 .. ClusterCount
  <2>1. On(m) /\ call.cluster = Walk[m]
    BY <1>2, <1>4 DEF AtPlace
  <2> QED
    BY <2>1, SizesAssumption DEF On
<1>9. PICK S : call.copied \in Seq(S)
  BY <1>1 DEF IInv, Holds, CallSound
<1>10. /\ call'.pc = IF w + l < len THEN "next" ELSE "put"
       /\ call'.op = call.op /\ call'.off = off /\ call'.len = len /\ call'.cluster = call.cluster
       /\ call'.before = call.before
       /\ call'.at = call.at + l
       /\ call'.copied = call.copied \o [k \in 1 .. WriteLen |-> Source(Written + k)]
  BY <1>1, <1>5 DEF CallTypes, CallFields
<1>11. Written' = w + l
  BY <1>5, <1>7, <1>9, <1>10, PutIs DEF Written
<1>12. Walk' = Walk /\ \A n : (On(n))' = On(n)
  BY SameChain
<1>13. ASSUME NEW n \in 0 .. ClusterCount, NEW i \in 0 .. N - 1, On(n) PROVE Wrote(n, i)'
  <2>1. PICK k : k = n * N + i - off + 1
    OBVIOUS
  <2>2. n \in Nat /\ Walk[n] \in Clusters
    BY <1>13 DEF On
  <2>3. /\ k \in 1 .. w + l <=> k \in 1 .. w \/ (n = m /\ i + 1 - j \in 1 .. l)
        /\ n = m => k = w + (i + 1 - j)
    BY <1>6, <1>7, <2>1, <2>2, InPiece
  <2>4. data[Walk[n]][i + 1] = IF k \in 1 .. w THEN Source(k) ELSE call.before.data[Walk[n]][i + 1]
    BY <1>2, <1>5, <1>13, <2>1 DEF Wrote
  <2>5. data'[Walk[n]][i + 1] = IF n = m /\ i + 1 - j \in 1 .. l THEN Source(k) ELSE data[Walk[n]][i + 1]
    <3>1. CASE n = m
      <4>1. data'[Walk[n]] = Merged
        BY <1>1, <1>8, <2>2, <3>1
      <4>2. i + 1 \in 1 .. N
        BY SizesAssumption
      <4>3. Merged[i + 1] = IF i + 1 - j \in 1 .. l THEN Source(w + (i + 1 - j)) ELSE data[Walk[n]][i + 1]
        <5>1. Merged[i + 1] = IF (i + 1) - (call.at % N) \in 1 .. WriteLen
                                THEN Source(Written + ((i + 1) - (call.at % N))) ELSE data[call.cluster][i + 1]
          BY <4>2, ZenonT(60) DEF Merged
        <5>2. /\ call.at % N = j /\ WriteLen = l /\ Written = w
              /\ data[call.cluster][i + 1] = data[Walk[n]][i + 1]
          BY <1>4, <1>5, <1>8, <3>1
        <5>3. (i + 1) - j = i + 1 - j
          OBVIOUS
        <5> QED
          BY <5>1, <5>2, <5>3
      <4> QED
        BY <2>3, <3>1, <4>1, <4>3
    <3>2. CASE n # m
      <4>1. Walk[n] # Walk[m]
        <5>1. n < m \/ m < n
          BY <2>2, <3>2
        <5> QED
          BY <1>1, <1>8, <1>13, <2>2, <5>1, IsChained, Distinct
      <4> QED
        BY <1>1, <1>8, <2>2, <3>2, <4>1
    <3> QED
      BY <3>1, <3>2
  <2>6. data'[Walk[n]][i + 1] = IF k \in 1 .. w + l THEN Source(k) ELSE call.before.data[Walk[n]][i + 1]
    BY <2>3, <2>4, <2>5
  <2>7. Walk'[n] = Walk[n] /\ call'.before.data = call.before.data /\ call'.off = off
    BY <1>10, <1>12
  <2> QED
    BY <1>11, <2>1, <2>6, <2>7 DEF Wrote
<1>14. call'.off \in Nat /\ call'.at = call'.off + Written' /\ Written' <= call'.len /\ table' = call'.before.table
  <2>1. off + w + l = off + (w + l)
    BY <1>6, <1>7
  <2>2. call'.at = off + w + l
    BY <1>4, <1>6, <1>10
  <2> QED
    BY <1>2, <1>6, <1>7, <1>10, <1>11, <2>1, <2>2
<1>15. call'.pc = "put" => ~(Written' < call'.len)
  BY <1>10, <1>11
<1>16. call'.pc = "next" => Written' < call'.len /\ \E n \in 0 .. ClusterCount :
          On(n)' /\ call'.cluster = Walk'[n] /\ call'.at = (n + 1) * N
  <2> SUFFICES ASSUME call'.pc = "next" PROVE Written' < call'.len /\ call'.at = (m + 1) * N
    BY <1>8, <1>10, <1>12
  <2>1. w + l < len /\ l = N - j
    BY <1>7, <1>10
  <2>2. PICK a : a = m * N /\ a \in Nat /\ (m + 1) * N = a + N /\ N \in Nat
    BY SizesAssumption, Multiples
  <2>3. a + j + (N - j) = a + N
    BY <2>2
  <2>4. call'.at = a + j + (N - j)
    BY <1>4, <1>10, <2>1, <2>2, Zenon
  <2> QED
    BY <1>10, <1>11, <2>1, <2>2, <2>3, <2>4
<1>17. call'.pc \in {"put", "next"}
  BY <1>10
<1>18. \A n \in 0 .. ClusterCount, i \in 0 .. N - 1 : On(n)' => Wrote(n, i)'
  BY <1>12, <1>13
<1> QED
  BY <1>14, <1>15, <1>16, <1>17, <1>18 DEF WriteInv

\* A write that is over has written all, or came to the end of the chain.
LEMMA WriteEnds ==
  ASSUME IInv, WriteInv, Untroubled, call.pc = "put", file # None,
         ~(Written < call.len) \/ call.cluster \notin Clusters, EndWrite, UNCHANGED <<table, data, faults>>
  PROVE  WriteInv'
<1>1. /\ CallTypes /\ call.op = "write" /\ faults = {} /\ "torn" \notin faults /\ call.off < N /\ file.first # 0
  BY DEF IInv, Types, Untroubled
<1>2. /\ call'.pc = "done" /\ UNCHANGED <<call.off, call.at, call.copied, call.before, call.len>>
      /\ Written' = Written
  BY <1>1 DEF EndWrite, Return, CallTypes, CallFields, Written
<1>3. file'.first = file.first
  BY <1>1 DEF EndWrite, IInv, Holds, FileSound
<1>4. call.len \in Nat /\ Written \in Nat /\ Written <= call.len
  BY <1>1, LenProperties DEF IInv, Holds, CallSound, Written, WriteInv
<1>5. Written < call.len => AtPlace(call.at \div N)
  BY <1>1 DEF WriteInv
<1>6. Written = call.len \/ ~On(call.at \div N)
  <2>1. Written = call.len \/ Written < call.len
    BY <1>4
  <2> QED
    BY <1>1, <1>5, <2>1 DEF AtPlace
<1>7. Written' = call'.len \/ ~On(call.at \div N)'
  BY <1>2, <1>3, <1>6, SameChain
<1> QED
  BY <1>2, <1>3, <1>7, WriteGoesOn DEF WriteInv

LEMMA WritePuts ==
  ASSUME IInv, WriteInv, WritePut, [Next]_vars
  PROVE  WriteInv'
<1> SUFFICES ASSUME Untroubled' PROVE WriteInv'
  BY DEF WriteInv, Untroubled
<1>1. /\ call.op = "write" /\ call.pc = "put" /\ UNCHANGED table /\ file # None /\ faults' = {} /\ faults = {}
      /\ CallTypes /\ UNCHANGED faults
  BY FaultsStay DEF WritePut, At, IInv, Types, Placed, Untroubled
<1>2. \A kind : ~Fail(kind)
  BY <1>1 DEF Fail
<1>3. CASE (~(Written < call.len) \/ call.cluster \notin Clusters) /\ EndWrite /\ UNCHANGED data
  <2>1. call'.off = call.off
    BY <1>1, <1>3 DEF EndWrite, Return, CallTypes, CallFields
  <2>2. file'.first = file.first
    BY <1>1, <1>3 DEF EndWrite, IInv, Holds, FileSound
  <2>3. Untroubled
    BY <1>1, <2>1, <2>2 DEF Untroubled
  <2> QED
    BY <1>1, <1>3, <2>3, WriteEnds
<1>4. CASE /\ Written < call.len /\ call.cluster \in Clusters
           /\ data' = [data EXCEPT ![call.cluster] = Merged]
           /\ call' = [call EXCEPT
                !.copied = @ \o [k \in 1 .. WriteLen |-> Source(Written + k)],
                !.at = @ + WriteLen,
                !.pc = IF Written + WriteLen < call.len THEN "next" ELSE "put"]
           /\ UNCHANGED file
  <2>1. call'.off = call.off
    BY <1>1, <1>4 DEF CallTypes, CallFields
  <2>2. Untroubled
    BY <1>1, <1>4, <2>1 DEF Untroubled
  <2> QED
    BY <1>1, <1>4, <2>2, WritePlaces
<1>5. Written \in Nat /\ call.len \in Nat
  BY <1>1, LenProperties DEF IInv, Holds, CallSound, Written
<1>6. Written >= call.len => ~(Written < call.len)
  BY <1>5
<1> QED
  BY <1>2, <1>3, <1>4, <1>6, Zenon DEF WritePut, Step

-----------------------------------------------------------------------------
(* The invariant of reads and writes *)

LEMMA ReadWriteBegins == Init => ReadWriteInv
<1> SUFFICES ASSUME Init PROVE ReadWriteInv
  OBVIOUS
<1>1. call.op = "none"
  BY DEF Init, Idle
<1>2. Types
  BY InitHolds DEF IInv
<1>3. \A c \in Cells : SectorOf(c) # -1
  BY SectorTypes DEF Sectors
<1>4. Buffered = table
  BY <1>2, <1>3 DEF Init, Buffered, View, Types
<1> QED
  BY <1>1, <1>4 DEF ReadWriteInv, Fresh, ReadInv, WriteInv

LEMMA ReadWriteStill ==
  ASSUME ReadWriteInv, UNCHANGED vars
  PROVE  ReadInv' /\ WriteInv'
<1>1. UNCHANGED <<table, data, file, call, faults>>
  BY DEF vars
<1>2. UNCHANGED <<ClusterCount, EntriesPerSector, N>>
  OBVIOUS
<1>3. ReadInv' = ReadInv
  BY <1>1 DEF ReadInv, AtPlace, On, Walk, ChainCell, Has, ByteAt, ClusterAt, Written
<1>4. WriteInv' = WriteInv
  BY <1>1 DEF WriteInv, AtPlace, On, Walk, ChainCell, Wrote, Written
<1> QED
  BY <1>3, <1>4 DEF ReadWriteInv

LEMMA ReadWriteStep == IInv /\ ReadWriteInv /\ [Next]_vars => ReadWriteInv'
<1> SUFFICES ASSUME IInv, ReadWriteInv, [Next]_vars PROVE ReadWriteInv'
  OBVIOUS
<1>1. Fresh /\ ReadInv /\ WriteInv
  BY DEF ReadWriteInv
<1>2. Fresh'
  BY <1>1, FreshStays
<1>3. CASE Next
  <2>1. ReadInv'
    <3>1. call'.op # "read" => ReadInv'
      BY DEF ReadInv
    <3> QED
      BY <1>1, <1>3, <3>1, Steps, ReadSeeks, ReadCopies, ReadNexts, ReadBegins
  <2>2. WriteInv'
    <3>1. ~Untroubled' => WriteInv'
      BY DEF WriteInv, Untroubled
    <3>2. Scan \/ Link => ~Untroubled'
      <4> SUFFICES ASSUME Scan \/ Link, Untroubled' PROVE FALSE
        OBVIOUS
      <4>1. call.pc \in {"scan", "link"} /\ faults = {} /\ Working /\ CallTypes
        BY FaultsStay DEF Scan, Link, At, Untroubled, Working, IInv, Types
      <4>2. call'.op = call.op /\ call'.off = call.off /\ (file' = file \/ file' = [file EXCEPT !.size = call.at])
        BY <4>1 DEF Scan, Link, NoCluster, EndWrite, Allocated, Step, Return, CallTypes, CallFields, Untroubled
      <4>3. file # None
        BY <4>1, <4>2 DEF IInv, Placed, Untroubled
      <4>4. file'.first = file.first
        BY <4>1, <4>2, <4>3 DEF IInv, Holds, FileSound
      <4> QED
        BY <1>1, <4>1, <4>2, <4>4 DEF WriteInv, Untroubled
    <3> QED
      BY <1>1, <1>3, <3>1, <3>2, Steps, WriteSeeks, WritePuts, WriteNexts, WriteBegins DEF Untroubled
  <2> QED
    BY <1>2, <2>1, <2>2 DEF ReadWriteInv
<1>4. CASE UNCHANGED vars
  BY <1>2, <1>4, ReadWriteStill DEF ReadWriteInv
<1> QED
  BY <1>3, <1>4

\* The allocation table is sound, and reads and writes are at the cluster of the open file's
\* chain that their position is in: what is copied, and what was written, is at its place.
THEOREM ReadsAndWritesPlaced == Spec => [](IInv /\ ReadWriteInv)
<1>1. Init => IInv /\ ReadWriteInv
  BY InitHolds, ReadWriteBegins
<1>2. (IInv /\ ReadWriteInv) /\ [Next]_vars => (IInv /\ ReadWriteInv)'
  BY StepKeeps, ReadWriteStep
<1> QED
  BY <1>1, <1>2, PTL DEF Spec

\* From any place of any file, over any number of clusters: a read returns the bytes the file
\* has there, and all that were asked for or that the chain has unless the device failed.
THEOREM ReadsReturnTheFile == Spec => []ReadReturnsFile
<1>1. IInv /\ ReadWriteInv => ReadReturnsFile
  <2> SUFFICES ASSUME IInv, ReadInv, call.op = "read", At("done"), faults \subseteq {"read"}
               PROVE  /\ \A k \in 1 .. Written : Has(call.off + k - 1) /\ call.copied[k] = ByteAt(call.off + k - 1)
                      /\ faults = {} => Written >= call.len \/ ~Has(call.off + Written)
    BY DEF ReadReturnsFile, ReadWriteInv
  <2>1. Has(call.at) <=> On(call.at \div N)
    BY DEF Has, ClusterAt, On, Walk
  <2> QED
    BY <2>1 DEF ReadInv, At
<1> QED
  BY <1>1, ReadsAndWritesPlaced, PTL

\* A write that starts in the first cluster of a file, of any length: the bytes written are in
\* the file from the offset on, the others of its chain as they were; and it has written all,
\* or to the end of the chain.
THEOREM WritesLand == Spec => []WriteLands
<1>1. IInv /\ ReadWriteInv => WriteLands
  <2> SUFFICES ASSUME WriteInv, Untroubled, At("done") PROVE Lands
    BY DEF WriteLands, ReadWriteInv, Untroubled
  <2>1. /\ table = call.before.table /\ call.at = call.off + Written /\ call.off \in Nat
        /\ \A n \in 0 .. ClusterCount, i \in 0 .. N - 1 : On(n) => Wrote(n, i)
        /\ Written = call.len \/ ~On(call.at \div N)
    BY DEF WriteInv, Untroubled, At
  <2>2. Has(call.at) <=> On(call.at \div N)
    BY DEF Has, ClusterAt, On, Walk
  <2>3. ASSUME NEW p \in 0 .. N * ClusterCount - 1, Has(p), NEW k, k = p - call.off + 1
        PROVE  ByteAt(p) = IF k \in 1 .. Written THEN Source(k) ELSE call.before.data[ClusterAt(p)][(p % N) + 1]
    <3>1. PICK n \in Nat, i \in 0 .. N - 1 : n = p \div N /\ i = p % N /\ p = n * N + i
      <4>1. p \in Nat
        BY SizesAssumption
      <4> QED
        BY <4>1, Position
    <3>2. On(n) /\ ClusterAt(p) = Walk[n] /\ n \in 0 .. ClusterCount
      <4>1. On(n) /\ ClusterAt(p) = Walk[n]
        BY <2>3, <3>1 DEF Has, ClusterAt, On, Walk
      <4> QED
        BY <4>1, SizesAssumption DEF On
    <3>3. Wrote(n, i)
      BY <2>1, <3>2
    <3>4. n * N + i - call.off + 1 = k
      <4>1. k = p - call.off + 1
        BY <2>3
      <4>2. PICK q : q = n * N /\ q \in Nat
        BY Multiples
      <4>3. p = q + i
        BY <3>1, <4>2
      <4>4. q + i - call.off + 1 = k
        BY <2>1, <4>1, <4>2, <4>3
      <4> QED
        BY <4>2, <4>4
    <3>5. data[Walk[n]][i + 1] = IF k \in 1 .. Written THEN Source(k) ELSE call.before.data[Walk[n]][i + 1]
      BY <3>3, <3>4 DEF Wrote
    <3> QED
      BY <3>1, <3>2, <3>5 DEF ByteAt
  <2> QED
    BY <2>1, <2>2, <2>3, Zenon DEF Lands
<1> QED
  BY <1>1, ReadsAndWritesPlaced, PTL
=============================================================================
