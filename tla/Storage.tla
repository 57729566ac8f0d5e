------------------------------ MODULE Storage ------------------------------
(* The disks: the two ATA channels (storage/ata.c), the table of devices       *)
(* (storage/device.c), the partitions found on them (storage/gpt.c and         *)
(* storage/partition.c), and reading through a partition.                      *)
(*                                                                             *)
(* A drive is a number of sectors with a partition table, of PerSector entries *)
(* a sector, somewhere on it; it may fail any read.  Its size is below 2^32    *)
(* sectors, and the table begins after sector 0 and below 4 GiB, where         *)
(* byte_offset is exact.  Device memory comes from a heap nothing was given    *)
(* back to yet: the list of partitions, which no code clears, is empty.        *)
EXTENDS Integers, Sequences

CONSTANTS U64, U32, Byte,   \* number of values of a u64, a u32, and a u8
          Lba28,            \* number of values of the sector registers, 2^28
          PerSector,        \* entries of a partition table in a sector
          Capacity,         \* of the table of devices, to begin with
          Drives,           \* what may be connected
          Sectors, Counts   \* of the reads that callers ask for

U64s == 0 .. U64 - 1
Entries == [zero : BOOLEAN, first : U64s, last : U64s]
ASSUME WidthAssumption ==
  /\ U64 \in Nat /\ U32 \in Nat /\ Byte \in Nat /\ Lba28 \in Nat
  /\ Lba28 > 0 /\ 2 * Lba28 <= U32 /\ Byte <= U32 /\ 2 * U32 <= U64
ASSUME TableAssumption == PerSector \in Nat \ {0} /\ Capacity \in Nat \ {0}
ASSUME InputAssumption == Sectors \subseteq 0 .. U32 - 1 /\ Counts \subseteq 1 .. U32 - 1
ASSUME DrivesAssumption ==
  Drives \subseteq [kind : {"no channel", "none", "other", "error", "disk"}, sectors : 0 .. U32 - 1,
                    gpt : BOOLEAN, entry_lba : 1 .. U32 - 1, entries : Seq(Entries)]

VARIABLES
  drive,      \* what is connected, for each slot: 0, 1 on one channel, 2, 3 on the other
  at,         \* where storage_device_init is
  devices,    \* g_storage_devices
  capacity,   \* g_storage_device_capacity
  last_lba,   \* last_partition_lba
  loaded,     \* the sector that is in partition_buffer
  command     \* the read or write in progress

vars == <<drive, at, devices, capacity, last_lba, loaded, command>>
probing == <<at, devices, capacity, last_lba, loaded>>

Slots == 0 .. 3
Nothing == [device |-> 0, partition |-> 0, sector |-> 0, lba |-> 0, count |-> 0, done |-> 0, result |-> "none"]

Unprobed ==
  /\ at = [in |-> "ata", k |-> 0, entry |-> 0]
  /\ devices = <<>> /\ capacity = Capacity
  /\ last_lba = 0 /\ loaded = 0
  /\ command = Nothing
Init == drive \in [Slots -> Drives] /\ Unprobed

\* A sum or a difference of two u64.
Wrap64(n) == IF n >= U64 THEN n - U64 ELSE IF n < 0 THEN n + U64 ELSE n

-----------------------------------------------------------------------------
(* ata_bus_init: identify the drives of a channel, the first one first *)

\* The upper word is shifted as an int: from half of U32 on, its sign goes into the upper half.
Identified(sectors) == IF 2 * sectors >= U32 THEN U64 - U32 + sectors ELSE sectors

NextSlot(n) == IF at.k + n < 4 THEN [at EXCEPT !.k = @ + n] ELSE [in |-> "probe", k |-> 1, entry |-> 0]

NoChannel ==
  /\ at.in = "ata" /\ at.k % 2 = 0 /\ drive[at.k].kind = "no channel"
  /\ at' = NextSlot(2)
  /\ UNCHANGED <<drive, devices, capacity, last_lba, loaded, command>>

\* No drive, none that speaks ATA, one that fails, or no memory for it.
NoDevice ==
  /\ at.in = "ata" /\ (at.k % 2 = 0 => drive[at.k].kind # "no channel")
  /\ at' = NextSlot(1)
  /\ UNCHANGED <<drive, devices, capacity, last_lba, loaded, command>>

\* storage_device_add; a full table is copied into one of twice the size.
Device(slot) ==
  [slot |-> slot, sectors |-> Identified(drive[slot].sectors), partitions |-> <<>>, probed |-> "no"]
AddDevice ==
  /\ at.in = "ata" /\ drive[at.k].kind = "disk" /\ (at.k % 2 = 1 => drive[at.k - 1].kind # "no channel")
  /\ devices' = Append(devices, Device(at.k))
  /\ capacity' = IF Len(devices) = capacity THEN 2 * capacity ELSE capacity
  /\ at' = NextSlot(1)
  /\ UNCHANGED <<drive, last_lba, loaded, command>>

\* Without memory for the table, or for a partition, its name or the list of them: panic.
NoMemory ==
  /\ \/ at.in = "ata" /\ at.k = 0
     \/ at.in = "ata" /\ drive[at.k].kind = "disk" /\ Len(devices) = capacity
     \/ at.in = "gpt"
  /\ at' = [at EXCEPT !.in = "panic"]
  /\ UNCHANGED <<drive, devices, capacity, last_lba, loaded, command>>

-----------------------------------------------------------------------------
(* ata_read_sectors *)

Accepts(device, sector, count) ==
  /\ Wrap64(sector + count) <= Lba28
  /\ count < Byte
  /\ Wrap64(sector + count) <= device.sectors

-----------------------------------------------------------------------------
(* partition_probe: the header, then one entry after the other *)

Probed == at.in = "probe" /\ at.k > Len(devices)
NextDevice == [in |-> "probe", k |-> at.k + 1, entry |-> 0]
Ends(result) ==
  /\ at' = NextDevice
  /\ devices' = [devices EXCEPT ![at.k].probed = result]

ProbeDone ==
  /\ Probed
  /\ at' = [at EXCEPT !.in = "done"]
  /\ UNCHANGED <<drive, devices, capacity, last_lba, loaded, command>>

\* The header is in sector 1.
ReadHeader ==
  /\ at.in = "probe" /\ ~Probed
  /\ \/ Ends("failed")
     \/ /\ Accepts(devices[at.k], 1, 1) /\ ~drive[devices[at.k].slot].gpt /\ Ends("no table")
     \/ /\ Accepts(devices[at.k], 1, 1) /\ drive[devices[at.k].slot].gpt
        /\ at' = [at EXCEPT !.in = "gpt", !.entry = 0] /\ UNCHANGED devices
  /\ last_lba' = 0 /\ UNCHANGED <<drive, capacity, loaded, command>>

Medium == drive[devices[at.k].slot]
EntryLba == Medium.entry_lba + at.entry \div PerSector

\* A sector of the table is read when the one before does not hold the entry.
ReadsOnce == last_lba = 0                                            \* mutant
MustRead == EntryLba # last_lba

\* The entry as it is in the buffer, in whose sector there may be no more entries.
InBuffer ==
  LET i == (loaded - Medium.entry_lba) * PerSector + (at.entry % PerSector) + 1 IN
  IF i \in DOMAIN Medium.entries THEN Medium.entries[i] ELSE [zero |-> TRUE, first |-> 0, last |-> 0]

Partition(entry) == [first |-> entry.first, sectors |-> Wrap64(Wrap64(entry.last - entry.first) + 1)]

ReadEntry ==
  /\ at.in = "gpt" /\ at.entry < Len(Medium.entries) /\ MustRead
  /\ \/ /\ Accepts(devices[at.k], EntryLba, 1)
        /\ last_lba' = EntryLba /\ loaded' = EntryLba /\ UNCHANGED <<at, devices>>
     \/ Ends("failed") /\ UNCHANGED <<last_lba, loaded>>
  /\ UNCHANGED <<drive, capacity, command>>

\* partition_add_to_device: the list is copied into one longer by one.
Added(partitions, p) == Append(partitions, p)
TakeEntry ==
  /\ at.in = "gpt" /\ at.entry < Len(Medium.entries) /\ ~MustRead
  /\ at' = [at EXCEPT !.entry = @ + 1]
  /\ devices' = IF InBuffer.zero THEN devices
                ELSE [devices EXCEPT ![at.k].partitions = Added(@, Partition(InBuffer))]
  /\ UNCHANGED <<drive, capacity, last_lba, loaded, command>>

TableEnds ==
  /\ at.in = "gpt" /\ at.entry >= Len(Medium.entries)
  /\ Ends("found")
  /\ UNCHANGED <<drive, capacity, last_lba, loaded, command>>

-----------------------------------------------------------------------------
(* Afterwards: reading and writing through a partition *)

Refused(d, k, sector, count) ==
  command' = [Nothing EXCEPT !.device = d, !.partition = k, !.sector = sector, !.result = "refused"]

\* The drive takes the sector from its registers, which hold 28 bits.
Sent(d, k, sector, lba, count) ==
  command' = [device |-> d, partition |-> k, sector |-> sector, lba |-> lba % Lba28,
              count |-> count, done |-> 0, result |-> "busy"]

UncheckedEnd(p, sector, count) == sector < p.sectors                 \* mutant
InPartition(p, sector, count) == Wrap64(sector + count) <= p.sectors
ReadSectors(d, k, sector, count) ==
  /\ at.in = "done" /\ command = Nothing
  /\ LET p == devices[d].partitions[k]
         lba == Wrap64(p.first + sector)
     IN IF InPartition(p, sector, count) /\ Accepts(devices[d], lba, count)
          THEN Sent(d, k, sector, lba, count) ELSE Refused(d, k, sector, count)
  /\ UNCHANGED <<drive, probing>>

\* Sector by sector: the drive has the data, or an error, which leaves the rest of the
\* caller's buffer as it was.
Transfer ==
  /\ command.result = "busy"
  /\ command' = [command EXCEPT !.done = @ + 1, !.result = IF command.done + 1 = command.count THEN "ok" ELSE @]
  /\ UNCHANGED <<drive, probing>>
ReadError ==
  /\ command.result = "busy"
  /\ command' = [command EXCEPT !.result = "failed"]
  /\ UNCHANGED <<drive, probing>>

\* Whatever the partition says, the drive's write is not there.
WriteSectors(d, k, sector, count) ==
  /\ at.in = "done" /\ command = Nothing
  /\ Refused(d, k, sector, count)
  /\ UNCHANGED <<drive, probing>>

\* The caller has its answer.
Return ==
  /\ command.result \in {"refused", "ok", "failed"}
  /\ command' = Nothing
  /\ UNCHANGED <<drive, probing>>

Use ==
  \E d \in DOMAIN devices : \E k \in DOMAIN devices[d].partitions :
    \E sector \in Sectors, count \in Counts :
      ReadSectors(d, k, sector, count) \/ WriteSectors(d, k, sector, count)

Next ==
  \/ NoChannel \/ NoDevice \/ AddDevice \/ NoMemory
  \/ ProbeDone \/ ReadHeader \/ ReadEntry \/ TakeEntry \/ TableEnds
  \/ Use \/ Transfer \/ ReadError \/ Return

Spec == Init /\ [][Next]_vars
-----------------------------------------------------------------------------
(* Properties *)

Partitions == [first : U64s, sectors : U64s]
Devices == [slot : Slots, sectors : U64s, partitions : Seq(Partitions),
            probed : {"no", "failed", "no table", "found"}]
Commands == [device : Nat, partition : Nat, sector : Nat, lba : Nat, count : Nat, done : Nat,
             result : {"none", "refused", "busy", "ok", "failed"}]
\* The variables have the types of the C declarations.
TypeOK ==
  /\ drive \in [Slots -> Drives]
  /\ at \in [in : {"ata", "probe", "gpt", "done", "panic"}, k : Nat, entry : Nat]
  /\ devices \in Seq(Devices) /\ capacity \in Nat
  /\ last_lba \in Nat /\ loaded \in Nat
  /\ command \in Commands

\* The sectors of a command are those of the partition that were asked for, and are on the
\* drive: three checks in two functions, of sums that may wrap, against a size that may be
\* wrong (Identified).  For partitions that do not end before they begin, nor at the last of
\* the 2^64 sectors, where the sums do wrap.
ReadsInside ==
  command.result \in {"busy", "ok", "failed"} =>
    LET d == devices[command.device]
        p == d.partitions[command.partition]
    IN p.first + p.sectors < U64 =>
         /\ command.lba = p.first + command.sector
         /\ command.sector + command.count <= p.sectors
         /\ command.lba + command.count <= drive[d.slot].sectors
         /\ command.done <= command.count

\* A list of partitions has one for each of the first n entries of a table that is used, in
\* their order.
Lists(partitions, entries, n) ==
  \E place \in [DOMAIN partitions -> 1 .. n] :
    /\ \A i, j \in DOMAIN partitions : i < j => place[i] < place[j]
    /\ \A i \in DOMAIN partitions :
         ~entries[place[i]].zero /\ partitions[i] = Partition(entries[place[i]])
    /\ \A e \in 1 .. n : ~entries[e].zero => \E i \in DOMAIN partitions : place[i] = e

\* Each device lists its partitions in the order of the table, nothing in between left out;
\* all of them, unless a sector of the table could not be read.
PartitionsListed ==
  \A d \in DOMAIN devices :
    LET entries == drive[devices[d].slot].entries
        partitions == devices[d].partitions
    IN /\ \E n \in 0 .. Len(entries) : Lists(partitions, entries, n)
       /\ devices[d].probed = "found" => Lists(partitions, entries, Len(entries))
=============================================================================
