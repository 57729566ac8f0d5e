-------------------------------- MODULE Fat --------------------------------
(* drivers/filesystem/fat.c: files and one directory on a FAT16 or FAT32       *)
(* volume, call after call, each a sequence of device accesses any of which    *)
(* may fail.  The allocation table is read through one buffered sector.        *)
(*                                                                             *)
(* The client has one file open at a time, and calls follow one another: there *)
(* is one thread.                                                              *)
(*                                                                             *)
(* A cluster is one sector of N elements: bytes of a file, or directory        *)
(* entries.  Memory always suffices.  FAT12 packs its entries differently and  *)
(* is not modelled, nor are the fixed root directory of FAT16, names (a name   *)
(* is one value) and cluster numbers above 65535.                              *)
EXTENDS Integers, SequencesExt

CONSTANTS ClusterCount,       \* cluster_count; clusters are used up to ClusterCount - 1
          EntriesPerSector,   \* table entries in one sector
          N,                  \* elements in a cluster
          Disks,              \* volumes as found: records [table, data]
          Root,               \* root_file.first_cluster
          Names,              \* names looked for and created
          Offsets, Lengths,   \* of reads and writes
          MaxCalls            \* bound on calls

EOC == 9999                   \* marks the end of a chain
End == [name |-> "end"]       \* name[0] = 0
Unused == [name |-> "unused"] \* name[0] = 0xE5
Entry(name, first, size, dir) == [name |-> name, first |-> first, size |-> size, dir |-> dir]
Source(i) == <<0, i>>         \* the bytes a caller writes (those found on disk are <<cluster, i>>)

Clusters == 2 .. ClusterCount - 1
SectorOf(c) == c \div EntriesPerSector
Slots == 0 .. EntriesPerSector - 1
TableEntries == Clusters \cup {0, EOC}

\* The entries of a directory cluster, and the clusters that begin a chain, Root included.
Entries(dir) == {e \in {dir[i] : i \in 1 .. N} : e \notin {End, Unused}}
Heads(dir) == {Root} \cup ({e.first : e \in Entries(dir)} \ {0})

\* A table in which no cluster is in two chains or twice in one, and none that is in a
\* chain is free.
Sound(t, heads) ==
  /\ \A p \in Clusters : t[p] \in Clusters => t[t[p]] # 0 /\ t[p] \notin heads
  /\ \A p, q \in Clusters : t[p] \in Clusters /\ t[p] = t[q] => p = q
  /\ \A h \in heads : t[h] # 0

ASSUME SizesAssumption ==
  /\ ClusterCount \in Nat /\ ClusterCount <= EOC /\ EntriesPerSector \in Nat \ {0} /\ N \in Nat \ {0}
  /\ Root \in Clusters /\ Offsets \subseteq Nat /\ Lengths \subseteq Nat
\* A volume as found: the table fills its sectors and is sound, and the entries of the root
\* directory begin chains, other ones than its own.
ASSUME DisksAssumption == \A d \in Disks :
  /\ d.table \in [0 .. (SectorOf(ClusterCount - 1) + 1) * EntriesPerSector - 1 -> TableEntries]
  /\ DOMAIN d.data = Clusters /\ \A c \in Clusters : DOMAIN d.data[c] = 1 .. N
  /\ \A e \in Entries(d.data[Root]) : e.first \in (Clusters \cup {0}) \ {Root} /\ e.size \in Nat
  /\ Sound(d.table, Heads(d.data[Root]))

VARIABLES
  table, data,    \* the device: allocation table, contents of the clusters
  cache, cached,  \* sector_buffer and sector_buffer_sector
  file,           \* the client's FAT_file_t, or None
  call,           \* the call in progress
  calls,          \* calls made
  faults          \* kinds of device failure so far: "read", "torn", "write"

vars == <<table, data, cache, cached, file, call, calls, faults>>
disk == <<table, data>>
tableCache == <<cache, cached>>

None == [none |-> TRUE]
Idle == [op |-> "none", pc |-> "done", name |-> "", off |-> 0, len |-> 0, at |-> 0, skip |-> 0,
         cluster |-> 0, copied |-> <<>>, scan |-> 0, slot |-> 0, before |-> <<>>]

SectorData(s) == [i \in Slots |-> table[s * EntriesPerSector + i]]
\* The sector with the entry of c: the buffered one, or read in its place.
TableSector(c) == IF cached = SectorOf(c) THEN cache ELSE SectorData(SectorOf(c))

Init ==
  /\ \E d \in Disks : table = d.table /\ data = d.data
  /\ cache = [i \in Slots |-> 0] /\ cached = -1
  /\ file = None /\ call = Idle /\ calls = 0 /\ faults = {}

-----------------------------------------------------------------------------
(* The device, and the buffered sector of the table *)

Fail(kind) == faults' = faults \cup {kind}

Outcome(next, sector, number, failures) ==
  [next |-> next, cache |-> sector, cached |-> number, faults |-> faults \cup failures]

\* What get_next_cluster can do.  It reads two sectors: when the second fails, the first
\* is in the buffer already.
GetNext(c) ==
  LET i == c % EntriesPerSector
      new == SectorData(SectorOf(c))
  IN IF cached = SectorOf(c) THEN {Outcome(cache[i], cache, cached, {})}
     ELSE {Outcome(new[i], new, SectorOf(c), {}),
           Outcome(0, cache, cached, {"read"}), Outcome(0, new, cached, {"torn"})}
Took(r) == cache' = r.cache /\ cached' = r.cached /\ faults' = r.faults

\* A table with sector s replaced: what is on disk once that is written, and what the
\* table looks like through the buffer, which keeps what a failed write did not write.
View(t, sector, s) == [c \in DOMAIN t |-> IF SectorOf(c) = s THEN sector[c % EntriesPerSector] ELSE t[c]]
Buffered == View(table, cache, cached)
WriteTable(s, sector) == table' = View(table, sector, s)

At(pc) == call.pc = pc
Step(c) == call' = c
Return(c) == call' = [c EXCEPT !.pc = "done"]

-----------------------------------------------------------------------------
(* Calls begin *)

ChainCell(t, first) ==  \* reference: the clusters of a chain, one after the other
  LET walk[n \in 0 .. ClusterCount] ==
        IF n = 0 THEN first
        ELSE IF walk[n - 1] \in Clusters THEN t[walk[n - 1]] ELSE EOC
  IN walk
Content(t, first) ==    \* reference: all cells a chain has
  LET walk == ChainCell(t, first)
  IN  FlattenSeq([n \in 1 .. ClusterCount |->
        IF walk[n - 1] \in Clusters THEN data[walk[n - 1]] ELSE <<>>])

Begin(c) ==
  /\ At("done") /\ calls < MaxCalls /\ calls' = calls + 1
  /\ Step(c)
  /\ UNCHANGED <<disk, tableCache, faults>>

FAT_Open(name) ==
  /\ file = None
  /\ Begin([Idle EXCEPT !.op = "open", !.pc = "lookup", !.name = name, !.cluster = Root])
  /\ UNCHANGED file

FAT_Close ==
  /\ file # None
  /\ Begin([Idle EXCEPT !.op = "close"]) /\ file' = None

FAT_Read(off, len) ==
  /\ file # None
  /\ LET n == IF off + len > file.size THEN file.size - off ELSE len
         c == [Idle EXCEPT !.op = "read", !.off = off, !.len = n, !.at = off,
                           !.skip = off \div N, !.cluster = file.first]
     IN Begin(IF file.dir \/ off >= file.size THEN [c EXCEPT !.len = 0] ELSE [c EXCEPT !.pc = "seek"])
  /\ UNCHANGED file

FAT_Write(off, len) ==
  /\ file # None
  /\ LET c == [Idle EXCEPT !.op = "write", !.off = off, !.len = len, !.at = off,
                           !.skip = off \div N, !.cluster = file.first,
                           !.before = [table |-> table, data |-> data]]
     IN Begin(IF file.dir THEN [c EXCEPT !.len = 0] ELSE [c EXCEPT !.pc = "seek"])
  /\ UNCHANGED file

FAT_CreateDirectory(name) ==
  /\ Begin([Idle EXCEPT !.op = "create", !.pc = "lookup", !.name = name, !.cluster = Root])
  /\ UNCHANGED file

-----------------------------------------------------------------------------
(* Looking up a name in the root directory *)

\* The entries for_each_fat_dir_entry goes through before it stops.
Before(cluster) ==
  LET ends == {i \in 1 .. N : data[cluster][i] = End} IN
  {i \in 1 .. N : (\A e \in ends : i < e) /\ data[cluster][i] # Unused}
HasEnd(cluster) == \E i \in 1 .. N : data[cluster][i] = End
Named(cluster, name) == {i \in Before(cluster) : data[cluster][i].name = name}

NotFound == IF call.op = "create" THEN Step([call EXCEPT !.pc = "search", !.cluster = Root])
                                  ELSE Return(call)
\* A directory cluster without the name and without an end is looked at again, for ever.
Lookup ==
  /\ At("lookup")
  /\ \/ /\ Named(call.cluster, call.name) # {}
        /\ LET e == data[call.cluster][CHOOSE i \in Named(call.cluster, call.name) :
                                         \A j \in Named(call.cluster, call.name) : i <= j] IN
           IF call.op = "create" THEN Return(call) /\ UNCHANGED file
           ELSE Return(call) /\ file' = [first |-> e.first, size |-> e.size, dir |-> e.dir]
        /\ UNCHANGED faults
     \/ /\ Named(call.cluster, call.name) = {}
        /\ IF HasEnd(call.cluster) THEN NotFound ELSE Step(call)
        /\ UNCHANGED <<file, faults>>
     \/ Fail("read") /\ NotFound /\ UNCHANGED file
  /\ UNCHANGED <<disk, tableCache, calls>>

-----------------------------------------------------------------------------
(* FAT_Read *)

ReadSeek ==
  /\ At("seek") /\ call.op = "read"
  /\ IF call.skip = 0 THEN Step([call EXCEPT !.pc = "copy"]) /\ UNCHANGED <<tableCache, faults>>
     ELSE IF call.cluster \notin Clusters THEN Return(call) /\ UNCHANGED <<tableCache, faults>>
     ELSE \E r \in GetNext(call.cluster) :
            Took(r) /\ Step([call EXCEPT !.skip = @ - 1, !.cluster = r.next])
  /\ UNCHANGED <<disk, file, calls>>

\* The length is that of the whole request, also in a later cluster: more than was asked
\* for may be copied (fat.c:511).
ToCopy == LET left == N - (call.at % N) IN IF left < call.len THEN left ELSE call.len
SkipsOffset == SubSeq(data[call.cluster], 1, ToCopy)                 \* mutant
Piece == SubSeq(data[call.cluster], (call.at % N) + 1, (call.at % N) + ToCopy)
ReadCopy ==
  /\ At("copy") /\ call.op = "read"
  /\ IF Len(call.copied) >= call.len \/ call.cluster \notin Clusters
       THEN Return(call) /\ UNCHANGED faults
       ELSE \/ /\ Step([call EXCEPT !.copied = @ \o Piece, !.at = @ + ToCopy, !.pc = "next"])
               /\ UNCHANGED faults
            \/ Fail("read") /\ Return(call)
  /\ UNCHANGED <<disk, tableCache, file, calls>>

ReadNext ==
  /\ At("next") /\ call.op = "read"
  /\ \E r \in GetNext(call.cluster) :
       Took(r) /\ Step([call EXCEPT !.pc = "copy", !.cluster = r.next])
  /\ UNCHANGED <<disk, file, calls>>

-----------------------------------------------------------------------------
(* FAT_Write *)

\* The size in memory follows the offset, which may be beyond what was written.  On disk
\* update_file_size_in_dir_entry looks for the entry in the file's own first cluster, and
\* writes that back as it was.
EndWrite ==
  /\ Return(call)
  /\ file' = IF call.at > file.size THEN [file EXCEPT !.size = call.at] ELSE file

\* The chain is followed only from a cluster that is not valid, which get_next_cluster
\* answers with a panic (fat.c:767).
WriteSeek ==
  /\ At("seek") /\ call.op = "write"
  /\ IF call.skip > 0 /\ call.cluster \notin Clusters
       THEN Step([call EXCEPT !.pc = "panic"])
       ELSE Step([call EXCEPT !.pc = "put"])
  /\ UNCHANGED <<disk, tableCache, file, calls, faults>>

Written == Len(call.copied)
WriteLen ==
  LET left == N - (call.at % N) IN IF left < call.len - Written THEN left ELSE call.len - Written

WithoutReading == [i \in 1 .. N |->                                  \* mutant
  LET k == i - (call.at % N) IN IF k \in 1 .. WriteLen THEN Source(Written + k) ELSE <<1, 0>>]
Merged == [i \in 1 .. N |->
  LET k == i - (call.at % N) IN
  IF k \in 1 .. WriteLen THEN Source(Written + k) ELSE data[call.cluster][i]]

WritePut ==
  /\ At("put") /\ call.op = "write"
  /\ \/ /\ Written >= call.len \/ call.cluster \notin Clusters
        /\ EndWrite /\ UNCHANGED <<data, faults>>
     \/ /\ Written < call.len /\ call.cluster \in Clusters
        /\ \/ /\ data' = [data EXCEPT ![call.cluster] = Merged]
              /\ Step([call EXCEPT
                   !.copied = @ \o [k \in 1 .. WriteLen |-> Source(Written + k)],
                   !.at = @ + WriteLen,
                   !.pc = IF Written + WriteLen < call.len THEN "next" ELSE "put"])
              /\ UNCHANGED <<file, faults>>
           \/ /\ WriteLen < N /\ Fail("read") /\ EndWrite /\ UNCHANGED data
           \/ /\ Fail("write") /\ EndWrite /\ UNCHANGED data
  /\ UNCHANGED <<table, tableCache, calls>>

\* No next cluster and a table that cannot be read look the same: 0.
WriteNext ==
  /\ At("next") /\ call.op = "write"
  /\ \E r \in GetNext(call.cluster) :
       /\ Took(r)
       /\ Step(IF r.next = 0 THEN [call EXCEPT !.pc = "scan", !.scan = 2]
                             ELSE [call EXCEPT !.pc = "put", !.cluster = r.next])
  /\ UNCHANGED <<disk, file, calls>>

-----------------------------------------------------------------------------
(* allocate_new_cluster, for FAT_Write after call.cluster, or for a directory *)

Allocated(c) ==
  IF call.op = "write" THEN Step([call EXCEPT !.pc = "put", !.cluster = c]) /\ UNCHANGED file
                       ELSE Step([call EXCEPT !.pc = "format", !.cluster = c]) /\ UNCHANGED file
NoCluster == IF call.op = "write" THEN EndWrite ELSE Return(call) /\ UNCHANGED file

AnyEntry(value) == value \in {0, EOC}                                \* mutant
IsFree(value) == value = 0

NotMarked(sector, i) == sector                                       \* mutant
Marked(sector, i) == [sector EXCEPT ![i] = EOC]

Scan ==
  /\ At("scan")
  /\ LET c == call.scan
         i == c % EntriesPerSector
         now == TableSector(c)
     IN \/ /\ c \notin Clusters
           /\ NoCluster /\ UNCHANGED <<table, tableCache, faults>>
        \/ /\ c \in Clusters /\ cached # SectorOf(c)
           /\ Fail("read") /\ NoCluster /\ UNCHANGED <<table, tableCache>>
        \/ /\ c \in Clusters /\ ~IsFree(now[i])
           /\ cache' = now /\ cached' = SectorOf(c)
           /\ Step([call EXCEPT !.scan = c + 1]) /\ UNCHANGED <<table, file, faults>>
        \/ /\ c \in Clusters /\ IsFree(now[i])
           /\ cache' = Marked(now, i) /\ cached' = SectorOf(c)
           /\ \/ /\ WriteTable(SectorOf(c), cache') /\ UNCHANGED faults
                 /\ IF call.op = "write" THEN Step([call EXCEPT !.pc = "link"]) /\ UNCHANGED file
                                         ELSE Allocated(c)
              \/ Fail("write") /\ NoCluster /\ UNCHANGED table
  /\ UNCHANGED <<data, calls>>

Linked(sector, i) == [sector EXCEPT ![i] = call.scan]

Link ==
  /\ At("link")
  /\ LET prev == call.cluster
         now == TableSector(prev)
     IN \/ /\ cached # SectorOf(prev)
           /\ Fail("read") /\ NoCluster /\ UNCHANGED <<table, tableCache>>
        \/ /\ cache' = Linked(now, prev % EntriesPerSector)
           /\ cached' = SectorOf(prev)
           /\ \/ WriteTable(SectorOf(prev), cache') /\ Allocated(call.scan) /\ UNCHANGED faults
              \/ Fail("write") /\ NoCluster /\ UNCHANGED table
  /\ UNCHANGED <<data, calls>>

-----------------------------------------------------------------------------
(* FAT_CreateDirectory, once the name was not found *)

Search ==
  /\ At("search")
  /\ LET free == {i \in 1 .. N : data[call.cluster][i] \in {End, Unused}} IN
     \/ call.cluster \notin Clusters /\ Return(call) /\ UNCHANGED <<tableCache, faults>>
     \/ /\ call.cluster \in Clusters /\ Fail("read") /\ Return(call) /\ UNCHANGED tableCache
     \/ /\ call.cluster \in Clusters /\ free # {}
        /\ Step([call EXCEPT !.pc = "scan", !.scan = 2,
                             !.slot = CHOOSE i \in free : \A j \in free : i <= j])
        /\ UNCHANGED <<tableCache, faults>>
     \/ /\ call.cluster \in Clusters /\ free = {}
        /\ \E r \in GetNext(call.cluster) :
             Took(r) /\ Step([call EXCEPT !.cluster = r.next])
  /\ UNCHANGED <<disk, file, calls>>

\* The new directory gets its two dot entries, and then, in the place that was free in the
\* parent, its own entry: the parent is not written (fat.c:717-724).
Dots == [i \in 1 .. N |-> CASE i = 1 -> Entry(".", call.cluster, 0, TRUE)
                            [] i = 2 -> Entry("..", Root, 0, TRUE)
                            [] OTHER -> End]
Format ==
  /\ At("format")
  /\ \/ data' = [data EXCEPT ![call.cluster] = Dots]
        /\ Step([call EXCEPT !.pc = "enter"]) /\ UNCHANGED faults
     \/ Fail("write") /\ Return(call) /\ UNCHANGED data
  /\ UNCHANGED <<table, tableCache, file, calls>>
EnterName ==
  /\ At("enter")
  /\ \/ data' = [data EXCEPT ![call.cluster][call.slot] = Entry(call.name, call.cluster, 0, TRUE)]
        /\ UNCHANGED faults
     \/ Fail("write") /\ UNCHANGED data
  /\ Return(call)
  /\ UNCHANGED <<table, tableCache, file, calls>>

-----------------------------------------------------------------------------
Client ==
  \/ \E name \in Names : FAT_Open(name) \/ FAT_CreateDirectory(name)
  \/ \E off \in Offsets, len \in Lengths : FAT_Read(off, len) \/ FAT_Write(off, len)
  \/ FAT_Close
Working ==
  \/ Lookup \/ ReadSeek \/ ReadCopy \/ ReadNext \/ WriteSeek \/ WritePut \/ WriteNext
  \/ Scan \/ Link \/ Search \/ Format \/ EnterName

Next == Client \/ Working
Spec == Init /\ [][Next]_vars
-----------------------------------------------------------------------------
(* Properties *)

\* The table names clusters, and the buffered sector is one of it, or none.
TypeOK ==
  /\ \A c \in DOMAIN table : table[c] \in TableEntries
  /\ \A c \in Clusters : DOMAIN data[c] = 1 .. N
  /\ cached \in -1 .. SectorOf(ClusterCount - 1) /\ cache \in [Slots -> TableEntries]
  /\ call.scan \in 0 .. ClusterCount

\* On disk no cluster belongs to two chains or twice to one, and none in a chain is free,
\* even when the device fails between marking a cluster and linking it, or the table in
\* memory is ahead of it.  A table read that fails halfway is the exception: its sector is
\* then taken for another.  The variables keep their types, and a read copies less than a
\* cluster too much.
RootEntries == Entries(data[Root])
NoSharedClusters ==
  TypeOK /\ ("torn" \notin faults =>
    /\ Sound(table, Heads(data[Root]))
    /\ file = None \/ file.size \in Nat
    /\ Len(call.copied) <= call.len + N - 1)

\* Whatever is done to one file, and whichever access fails, the others keep every byte.
\* The exception is a link that could not be written: it stays in the buffer, and gets to
\* the disk with a later write of that sector, on behalf of another file.
OthersKeepContent ==
  [][\A e \in RootEntries :
       (file = None \/ e.first # file.first) /\ "torn" \notin faults' /\ e.first # 0
         => Content(table, e.first)' \in {Content(table, e.first), Content(Buffered, e.first)}]_vars

\* The cluster that has a position of the open file, if its chain goes so far, and the byte
\* there: the reference for reads and writes.
ClusterAt(p) == ChainCell(table, file.first)[p \div N]
Has(p) == p \div N <= ClusterCount /\ ClusterAt(p) \in Clusters
ByteAt(p) == data[ClusterAt(p)][(p % N) + 1]

\* What FAT_Read copies is what the file has from the offset on, and if the device did not fail
\* as much as was asked for or the chain has.  A read that the device ends early returns what
\* it copied before (fat.c:506-509, 521), and that is right as far as it goes; fat.h:78-79
\* promises a 0 then, which this does not ask for.
ReadReturnsFile ==
  call.op = "read" /\ At("done") /\ call.len > 0 /\ faults \subseteq {"read"} =>
    /\ \A k \in 1 .. Written : Has(call.off + k - 1) /\ call.copied[k] = ByteAt(call.off + k - 1)
    /\ faults = {} => Written >= call.len \/ ~Has(call.off + Written)

\* A write that starts in the first cluster leaves the file as it was but for the bytes
\* written, and does not stop before the chain ends.  It may stop there, which the code does;
\* "Allocate a new cluster if necessary" (fat.c:813) wants more, which this does not exclude.
Lands ==
  /\ \A p \in 0 .. N * ClusterCount - 1 : Has(p) =>
       LET k == p - call.off + 1 IN
       ByteAt(p) = IF k \in 1 .. Written THEN Source(k) ELSE call.before.data[ClusterAt(p)][(p % N) + 1]
  /\ Written = call.len \/ ~Has(call.off + Written)
WriteLands ==
  call.op = "write" /\ At("done") /\ faults = {} /\ call.off < N /\ file.first # 0 => Lands

\* The same for any offset in the file: "Move to the correct cluster" (fat.c:765).
WritesWhereAsked ==
  call.op = "write" /\ At("done") /\ faults = {} /\ call.off < file.size => Lands

\* "Read bytes from a FAT file from given offset", "return the number of bytes read"
\* (fat.h:73-75): into a buffer of that length, never more than asked for.
ReadsNoMore == call.op = "read" /\ At("done") => Len(call.copied) <= call.len
=============================================================================
