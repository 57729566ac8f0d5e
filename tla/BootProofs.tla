----------------------------- MODULE BootProofs -----------------------------
(* The disks: type correctness, that no command leaves its partition nor its   *)
(* drive, and that the partitions of the table, all of them and in its order,  *)
(* are found, whatever is connected and whatever its partition table says.     *)
(* Then the text mode and the PS/2 controller, and the boot that runs the      *)
(* three one after the other.                                                  *)
EXTENDS Boot, TLAPS

\* What the devices say of their size is what they identified with.
Sized == \A d \in DOMAIN devices : devices[d].sectors = Identified(drive[devices[d].slot].sectors)

\* A command is of a partition that is there, and comes after all the probing.
Accepted == {"busy", "ok", "failed"}
Addressed ==
  command.result \in Accepted =>
    /\ at.in = "done"
    /\ command.device \in DOMAIN devices
    /\ command.partition \in DOMAIN devices[command.device].partitions

\* The loops stay within the slots and the table of devices.
Pointing ==
  /\ at.in = "ata" => at.k \in Slots
  /\ at.in = "probe" => at.k > 0
  /\ at.in = "gpt" => at.k \in DOMAIN devices

\* A read is not over before its last sector, and not after it.
Counted ==
  /\ command.result = "busy" => command.done < command.count
  /\ command.result \in Accepted => command.done <= command.count

Inv == TypeOK /\ Sized /\ Pointing /\ Addressed /\ Counted /\ ReadsInside

-----------------------------------------------------------------------------
\* A sum or difference of two u64 is a u64 again.
LEMMA WrapType == ASSUME NEW n \in Int, -U64 <= n, n < 2 * U64 PROVE Wrap64(n) \in U64s
BY WidthAssumption DEF Wrap64, U64s

\* The size a drive identifies with is a u64, and its own, or too much by far.
LEMMA IdentifiedSize ==
  ASSUME NEW n \in 0 .. U32 - 1
  PROVE  Identified(n) \in U64s /\ (Identified(n) = n \/ Lba28 <= n)
BY WidthAssumption DEF Identified, U64s

\* Three checks of sums that may wrap: together they keep a command on the drive.
LEMMA InsideDrive ==
  ASSUME NEW size \in 0 .. U32 - 1, NEW first \in U64s, NEW sectors \in U64s,
         NEW sector \in 0 .. U32 - 1, NEW count \in 1 .. U32 - 1,
         first + sectors < U64,
         Wrap64(sector + count) <= sectors,
         Wrap64(Wrap64(first + sector) + count) <= Lba28,
         Wrap64(Wrap64(first + sector) + count) <= Identified(size)
  PROVE  /\ Wrap64(first + sector) = first + sector
         /\ sector + count <= sectors
         /\ first + sector < Lba28
         /\ first + sector + count <= size
<1>1. Wrap64(sector + count) = sector + count
  BY WidthAssumption DEF Wrap64
<1>2. sector + count <= sectors
  BY <1>1
<1>3. Wrap64(first + sector) = first + sector
  BY <1>2, WidthAssumption DEF Wrap64, U64s
<1>4. Wrap64(first + sector + count) = first + sector + count
  BY <1>2, WidthAssumption DEF Wrap64, U64s
<1>5. first + sector + count <= Lba28 /\ first + sector + count <= Identified(size)
  BY <1>3, <1>4
<1>6. QED
  BY <1>2, <1>3, <1>5, IdentifiedSize, WidthAssumption DEF U64s

\* Below 2^28 the registers of the drive hold a sector.
LEMMA FitsRegisters == ASSUME NEW n \in Nat, n < Lba28 PROVE n % Lba28 = n
BY WidthAssumption

\* Any number is cut to one that is not negative.
LEMMA RegistersType == ASSUME NEW n \in Nat PROVE n % Lba28 \in Nat
BY WidthAssumption

-----------------------------------------------------------------------------
(* What is put into the tables *)

LEMMA DriveType == ASSUME TypeOK, NEW slot \in Slots
                   PROVE  /\ drive[slot] \in Drives
                          /\ drive[slot].sectors \in 0 .. U32 - 1
                          /\ drive[slot].entry_lba \in Nat
                          /\ drive[slot].entries \in Seq(Entries)
<1>1. drive[slot] \in Drives
  BY DEF TypeOK
<1>2. /\ drive[slot].sectors \in 0 .. U32 - 1
      /\ drive[slot].entry_lba \in 1 .. U32 - 1
      /\ drive[slot].entries \in Seq(Entries)
  BY <1>1, DrivesAssumption
<1>3. drive[slot].entry_lba \in Nat
  BY <1>2, WidthAssumption
<1>4. QED
  BY <1>1, <1>2, <1>3

LEMMA ElementType == ASSUME NEW S, NEW s \in Seq(S), NEW k \in DOMAIN s PROVE s[k] \in S
OBVIOUS

LEMMA IndexType == ASSUME NEW S, NEW s \in Seq(S), NEW k \in DOMAIN s PROVE k \in Nat
OBVIOUS

LEMMA ListedType == ASSUME TypeOK, NEW d \in DOMAIN devices
                    PROVE  devices[d] \in Devices /\ devices[d].slot \in Slots
<1>1. devices[d] \in Devices
  BY ElementType DEF TypeOK
<1>2. QED
  BY <1>1 DEF Devices

\* A device as it is added: typed, sized, without partitions.
LEMMA DeviceType ==
  ASSUME TypeOK, NEW slot \in Slots
  PROVE  /\ Device(slot) \in Devices
         /\ Device(slot).slot = slot
         /\ Device(slot).sectors = Identified(drive[slot].sectors)
<1>1. Identified(drive[slot].sectors) \in U64s
  BY DriveType, IdentifiedSize
<1>2. QED
  BY <1>1 DEF Device, Devices

\* An entry, whatever its first and last sector, makes a partition.
LEMMA PartitionType == ASSUME NEW entry \in Entries PROVE Partition(entry) \in Partitions
<1>1. entry.first \in U64s /\ entry.last \in U64s
  BY DEF Entries
<1>2. Wrap64(entry.last - entry.first) \in U64s
  BY <1>1, WrapType, WidthAssumption DEF U64s
<1>3. Wrap64(Wrap64(entry.last - entry.first) + 1) \in U64s
  BY <1>2, WrapType, WidthAssumption DEF U64s
<1>4. QED
  BY <1>1, <1>3 DEF Partition, Partitions

\* What is read out of the buffer is an entry, within the table or past its end.
LEMMA InBufferType ==
  ASSUME TypeOK, at.k \in DOMAIN devices PROVE InBuffer \in Entries
<1>1. devices[at.k].slot \in Slots
  BY ListedType
<1>2. Medium.entries \in Seq(Entries)
  BY <1>1, DriveType DEF Medium
<1>3. [zero |-> TRUE, first |-> 0, last |-> 0] \in Entries
  BY WidthAssumption DEF Entries, U64s
<1>4. \A j : j \in DOMAIN Medium.entries => Medium.entries[j] \in Entries
  BY <1>2, ElementType
<1>5. QED
  BY <1>3, <1>4 DEF InBuffer

\* A sector number of a table that begins somewhere is one.
LEMMA EntryLbaType ==
  ASSUME TypeOK, at.k \in DOMAIN devices PROVE EntryLba \in Nat
<1>1. devices[at.k].slot \in Slots
  BY ListedType
<1>2. Medium.entry_lba \in Nat
  BY <1>1, DriveType DEF Medium
<1>3. at.entry \in Nat
  BY DEF TypeOK
<1>4. \A n \in Nat : n \div PerSector \in Nat
  BY TableAssumption
<1>5. QED
  BY <1>2, <1>3, <1>4 DEF EntryLba

-----------------------------------------------------------------------------
(* The steps *)

Places == [in : {"ata", "probe", "gpt", "done", "panic"}, k : Nat, entry : Nat]

\* Before the probing is over there is no command to disturb.
LEMMA Probes ==
  ASSUME Inv, at.in # "done", drive' = drive, command' = command,
         at' \in Places, devices' \in Seq(Devices), Sized', Pointing',
         capacity' \in Nat, last_lba' \in Nat, loaded' \in Nat
  PROVE  Inv'
<1>1. command.result \notin Accepted
  BY DEF Inv, Addressed
<1>2. TypeOK'
  BY DEF Inv, TypeOK, Places
<1>3. Addressed' /\ Counted' /\ ReadsInside'
  BY <1>1 DEF Addressed, Counted, ReadsInside, Accepted
<1>4. QED
  BY <1>2, <1>3 DEF Inv

\* A command finds and leaves the tables as they are.
LEMMA Serves ==
  ASSUME Inv, drive' = drive, UNCHANGED probing, command' \in Commands, Addressed', Counted', ReadsInside'
  PROVE  Inv'
<1>1. TypeOK'
  BY DEF Inv, TypeOK, probing
<1>2. Sized'
  BY DEF Inv, Sized, probing
<1>3. Pointing'
  BY DEF Inv, Pointing, probing
<1>4. QED
  BY <1>1, <1>2, <1>3 DEF Inv

\* The device that is probed gets a result, or another partition: its size stays.
LEMMA Changed ==
  ASSUME Inv, NEW d \in DOMAIN devices, drive' = drive, NEW device \in Devices,
         device.slot = devices[d].slot, device.sectors = devices[d].sectors,
         devices' = [devices EXCEPT ![d] = device]
  PROVE  devices' \in Seq(Devices) /\ Sized' /\ DOMAIN devices' = DOMAIN devices
<1>1. devices' \in Seq(Devices) /\ DOMAIN devices' = DOMAIN devices
  BY DEF Inv, TypeOK
<1>2. Sized'
  BY DEF Inv, Sized
<1>3. QED
  BY <1>1, <1>2

\* The next device, or the one past the last.
LEMMA NextDeviceType == ASSUME Inv, at' = NextDevice PROVE at' \in Places /\ Pointing'
<1>0. at.k \in Nat
  BY DEF Inv, TypeOK
<1>a. at' = [in |-> "probe", k |-> at.k + 1, entry |-> 0]
  BY DEF NextDevice
<1>b. at' \in Places
  BY <1>0, <1>a DEF Places
<1>c. at'.in = "probe" /\ at'.k > 0
  BY <1>0, <1>a
<1>1. QED
  BY <1>b, <1>c DEF Pointing

LEMMA EndsType ==
  ASSUME Inv, at.k \in DOMAIN devices, drive' = drive,
         NEW result \in {"failed", "no table", "found"}, at' = NextDevice,
         devices' = [devices EXCEPT ![at.k].probed = result]
  PROVE  at' \in Places /\ devices' \in Seq(Devices) /\ Sized' /\ Pointing'
<1>1. at' \in Places /\ Pointing'
  BY NextDeviceType
<1> DEFINE device == [devices[at.k] EXCEPT !.probed = result]
<1>2. devices[at.k] \in Devices
  BY ListedType DEF Inv
<1>3. device \in Devices /\ device.slot = devices[at.k].slot /\ device.sectors = devices[at.k].sectors
  BY <1>2 DEF Devices
<1>4. devices' = [devices EXCEPT ![at.k] = device]
  OBVIOUS
<1> HIDE DEF device
<1>5. devices' \in Seq(Devices) /\ Sized'
  BY <1>3, <1>4, Changed
<1>6. QED
  BY <1>1, <1>5

\* A slot is left for the next one, or for the first device.
LEMMA NextSlotType ==
  ASSUME Inv, at.in = "ata", NEW n \in 1 .. 2, at' = NextSlot(n)
  PROVE  at' \in Places /\ Pointing'
<1>1. at.k \in 0 .. 3 /\ at.entry \in Nat
  BY DEF Inv, TypeOK, Pointing, Slots
<1>2. CASE at.k + n < 4
  <2>1. at' = [at EXCEPT !.k = at.k + n]
    BY <1>2 DEF NextSlot
  <2>2. QED
    BY <1>1, <1>2, <2>1 DEF Inv, TypeOK, Places, Pointing, Slots
<1>3. CASE ~(at.k + n < 4)
  BY <1>3 DEF NextSlot, Places, Pointing
<1>4. QED
  BY <1>2, <1>3

\* At the end of the table of devices: the probing step keeps the invariant.
LEMMA ProbingKeeps ==
  ASSUME Inv, NoChannel \/ NoDevice \/ AddDevice \/ NoMemory \/ ProbeDone
              \/ ReadHeader \/ ReadEntry \/ TakeEntry \/ TableEnds
  PROVE  Inv'
<1>0. TypeOK /\ Sized /\ Pointing
  BY DEF Inv
<1>1. CASE NoChannel
  <2>0. at.in = "ata" /\ at' = NextSlot(2)
    BY <1>1 DEF NoChannel
  <2>1. at' \in Places /\ Pointing'
    BY <2>0, NextSlotType
  <2>2. QED
    BY <1>0, <1>1, <2>1, Probes DEF NoChannel, TypeOK, Sized
<1>2. CASE NoDevice
  <2>0. at.in = "ata" /\ at' = NextSlot(1)
    BY <1>2 DEF NoDevice
  <2>1. at' \in Places /\ Pointing'
    BY <2>0, NextSlotType
  <2>2. QED
    BY <1>0, <1>2, <2>1, Probes DEF NoDevice, TypeOK, Sized
<1>3. CASE AddDevice
  <2>0. at.in = "ata" /\ at' = NextSlot(1)
    BY <1>3 DEF AddDevice
  <2>1. at' \in Places /\ Pointing'
    BY <2>0, NextSlotType
  <2>2. at.k \in Slots
    BY <1>0, <1>3 DEF AddDevice, Pointing
  <2>3. devices' = Append(devices, Device(at.k))
    BY <1>3 DEF AddDevice
  <2>4. devices' \in Seq(Devices)
    BY <1>0, <2>2, <2>3, DeviceType DEF TypeOK
  <2>5. Sized'
    <3>1. drive' = drive
      BY <1>3 DEF AddDevice
    <3>2. devices \in Seq(Devices) /\ Device(at.k).slot = at.k
          /\ Device(at.k).sectors = Identified(drive[at.k].sectors)
      BY <1>0, <2>2, DeviceType DEF TypeOK
    <3>3. QED
      BY <1>0, <2>3, <3>1, <3>2 DEF Sized
  <2>6. capacity' \in Nat
    <3>1. capacity \in Nat
      BY <1>0 DEF TypeOK
    <3>2. capacity' = capacity \/ capacity' = 2 * capacity
      BY <1>3 DEF AddDevice
    <3>3. QED
      BY <3>1, <3>2
  <2>7. QED
    BY <1>0, <1>3, <2>1, <2>4, <2>5, <2>6, Probes DEF AddDevice, TypeOK
<1>4. CASE NoMemory
  <2>1. at' \in Places /\ Pointing' /\ at.in # "done"
    BY <1>0, <1>4 DEF NoMemory, TypeOK, Places, Pointing
  <2>2. QED
    BY <1>0, <1>4, <2>1, Probes DEF NoMemory, TypeOK, Sized
<1>5. CASE ProbeDone
  <2>1. at' \in Places /\ Pointing' /\ at.in # "done"
    BY <1>0, <1>5 DEF ProbeDone, Probed, TypeOK, Places, Pointing
  <2>2. QED
    BY <1>0, <1>5, <2>1, Probes DEF ProbeDone, TypeOK, Sized
<1>6. CASE ReadHeader
  <2>1. at.in = "probe" /\ at.k \in DOMAIN devices
    <3>1. devices \in Seq(Devices) /\ at.k \in Nat
      BY <1>0 DEF TypeOK
    <3>2. at.in = "probe" /\ ~(at.k > Len(devices))
      BY <1>6 DEF ReadHeader, Probed
    <3>3. at.k > 0
      BY <1>0, <3>2 DEF Pointing
    <3>4. QED
      BY <3>1, <3>2, <3>3
  <2>2. drive' = drive /\ command' = command /\ capacity' = capacity /\ loaded' = loaded /\ last_lba' = 0
    BY <1>6 DEF ReadHeader
  <2>3. \/ Ends("failed") \/ Ends("no table")
        \/ at' = [at EXCEPT !.in = "gpt", !.entry = 0] /\ devices' = devices
    BY <1>6 DEF ReadHeader
  <2>4. at' \in Places /\ devices' \in Seq(Devices) /\ Sized' /\ Pointing'
    <3>1. CASE Ends("failed") \/ Ends("no table")
      BY <2>1, <2>2, <3>1, EndsType DEF Ends
    <3>2. CASE at' = [at EXCEPT !.in = "gpt", !.entry = 0] /\ devices' = devices
      BY <1>0, <2>1, <2>2, <3>2 DEF TypeOK, Places, Sized, Pointing
    <3>3. QED
      BY <2>3, <3>1, <3>2
  <2>5. QED
    BY <1>0, <2>1, <2>2, <2>4, Probes DEF TypeOK
<1>7. CASE ReadEntry
  <2>1. at.in = "gpt" /\ at.k \in DOMAIN devices
    BY <1>0, <1>7 DEF ReadEntry, Pointing
  <2>2. drive' = drive /\ command' = command /\ capacity' = capacity
    BY <1>7 DEF ReadEntry
  <2>3. CASE Ends("failed") /\ UNCHANGED <<last_lba, loaded>>
    BY <1>0, <2>1, <2>2, <2>3, EndsType, Probes DEF Ends, TypeOK
  <2>4. CASE last_lba' = EntryLba /\ loaded' = EntryLba /\ UNCHANGED <<at, devices>>
    BY <1>0, <2>1, <2>2, <2>4, EntryLbaType, Probes DEF TypeOK, Places, Sized, Pointing
  <2>5. QED
    BY <1>7, <2>3, <2>4 DEF ReadEntry
<1>8. CASE TakeEntry
  <2>1. at.in = "gpt" /\ at.k \in DOMAIN devices
    BY <1>0, <1>8 DEF TakeEntry, Pointing
  <2>2. UNCHANGED <<drive, capacity, last_lba, loaded, command>> /\ at' = [at EXCEPT !.entry = @ + 1]
    BY <1>8 DEF TakeEntry
  <2> DEFINE device == [devices[at.k] EXCEPT !.partitions = Append(@, Partition(InBuffer))]
  <2>3. devices' = devices \/ devices' = [devices EXCEPT ![at.k] = device]
    BY <1>8 DEF TakeEntry, Added
  <2>4. devices[at.k] \in Devices
    BY <1>0, <2>1, ListedType
  <2>5. Partition(InBuffer) \in Partitions
    BY <1>0, <2>1, InBufferType, PartitionType
  <2>6. device \in Devices /\ device.slot = devices[at.k].slot /\ device.sectors = devices[at.k].sectors
    <3>1. devices[at.k].partitions \in Seq(Partitions)
      BY <2>4 DEF Devices
    <3>2. Append(devices[at.k].partitions, Partition(InBuffer)) \in Seq(Partitions)
      BY <2>5, <3>1
    <3>3. QED
      BY <2>4, <3>2 DEF Devices
  <2> HIDE DEF device
  <2>7. devices' \in Seq(Devices) /\ Sized' /\ DOMAIN devices' = DOMAIN devices
    <3>1. CASE devices' = devices
      BY <1>0, <2>2, <3>1 DEF TypeOK, Sized
    <3>2. CASE devices' = [devices EXCEPT ![at.k] = device]
      BY <2>1, <2>2, <2>6, <3>2, Changed
    <3>3. QED
      BY <2>3, <3>1, <3>2
  <2>8. at' \in Places /\ Pointing'
    BY <1>0, <2>1, <2>2, <2>7 DEF TypeOK, Places, Pointing
  <2>9. QED
    BY <1>0, <2>1, <2>2, <2>7, <2>8, Probes DEF TypeOK
<1>9. CASE TableEnds
  <2>1. at.in = "gpt" /\ at.k \in DOMAIN devices
    BY <1>0, <1>9 DEF TableEnds, Pointing
  <2>2. at' \in Places /\ devices' \in Seq(Devices) /\ Sized' /\ Pointing'
    BY <1>9, <2>1, EndsType DEF Ends, TableEnds
  <2>3. QED
    BY <1>0, <1>9, <2>1, <2>2, Probes DEF TableEnds, TypeOK
<1>10. QED
  BY <1>1, <1>2, <1>3, <1>4, <1>5, <1>6, <1>7, <1>8, <1>9

-----------------------------------------------------------------------------
(* The commands *)

Sector32 == 0 .. U32 - 1
Count32 == 1 .. U32 - 1

LEMMA RefusedKeeps ==
  ASSUME Inv, drive' = drive, UNCHANGED probing, NEW d \in Nat, NEW k \in Nat, NEW sector \in Nat,
         command' = [Nothing EXCEPT !.device = d, !.partition = k, !.sector = sector, !.result = "refused"]
  PROVE  Inv'
<1>1. command' \in Commands /\ command'.result \notin Accepted
  BY DEF Commands, Nothing, Accepted
<1>2. Addressed' /\ Counted' /\ ReadsInside'
  BY <1>1 DEF Addressed, Counted, ReadsInside, Accepted
<1>3. QED
  BY <1>1, <1>2, Serves

\* A read that the three checks let through.
LEMMA SentKeeps ==
  ASSUME Inv, at.in = "done", drive' = drive, UNCHANGED probing,
         NEW d \in DOMAIN devices, NEW k \in DOMAIN devices[d].partitions,
         NEW sector \in Sector32, NEW count \in Count32,
         InPartition(devices[d].partitions[k], sector, count),
         Accepts(devices[d], Wrap64(devices[d].partitions[k].first + sector), count),
         command' = [device |-> d, partition |-> k, sector |-> sector,
                     lba |-> Wrap64(devices[d].partitions[k].first + sector) % Lba28,
                     count |-> count, done |-> 0, result |-> "busy"]
  PROVE  Inv'
<1> DEFINE p == devices[d].partitions[k]
           lba == Wrap64(p.first + sector)
           size == drive[devices[d].slot].sectors
<1>1. devices \in Seq(Devices) /\ devices[d] \in Devices /\ devices[d].slot \in Slots
  BY ListedType DEF Inv, TypeOK
<1>2. p \in Partitions
  BY <1>1, ElementType DEF Devices
<1>3. p.first \in U64s /\ p.sectors \in U64s
  BY <1>2 DEF Partitions
<1>4. size \in 0 .. U32 - 1
  BY <1>1, DriveType DEF Inv
<1>5. devices[d].sectors = Identified(size)
  BY DEF Inv, Sized
<1>6. /\ Wrap64(sector + count) <= p.sectors
      /\ Wrap64(lba + count) <= Lba28
      /\ Wrap64(lba + count) <= Identified(size)
  BY <1>5 DEF InPartition, Accepts
<1> HIDE DEF p, size
<1>7. ASSUME p.first + p.sectors < U64
      PROVE  /\ lba = p.first + sector /\ sector + count <= p.sectors
             /\ lba < Lba28 /\ lba + count <= size
  BY <1>3, <1>4, <1>6, <1>7, InsideDrive DEF Sector32, Count32
<1>8. lba \in Nat
  <2>1. p.first + sector \in Int /\ -U64 <= p.first + sector /\ p.first + sector < 2 * U64
    BY <1>3, WidthAssumption DEF U64s, Sector32
  <2>2. QED
    BY <2>1, WrapType, WidthAssumption DEF U64s
<1>9. lba % Lba28 \in Nat
  BY <1>8, RegistersType
<1>10. ASSUME p.first + p.sectors < U64
       PROVE  /\ lba % Lba28 = p.first + sector /\ sector + count <= p.sectors
              /\ (lba % Lba28) + count <= size
  BY <1>7, <1>8, <1>10, FitsRegisters
<1>11. command' = [device |-> d, partition |-> k, sector |-> sector, lba |-> lba % Lba28,
                   count |-> count, done |-> 0, result |-> "busy"]
  BY DEF p
<1> HIDE DEF lba
<1>12. command' \in Commands
  <2>1. d \in Nat /\ k \in Nat /\ sector \in Nat /\ count \in Nat
    <3>1. devices[d].partitions \in Seq(Partitions)
      BY <1>1 DEF Devices
    <3>2. d \in Nat /\ k \in Nat
      BY <1>1, <3>1
    <3>3. sector \in Nat /\ count \in Nat
      BY WidthAssumption DEF Sector32, Count32
    <3>4. QED
      BY <3>2, <3>3
  <2>2. QED
    BY <1>9, <1>11, <2>1 DEF Commands
<1>13. devices' = devices /\ at' = at
  BY DEF probing
<1>14. Addressed' /\ Counted'
  BY <1>11, <1>13, WidthAssumption DEF Addressed, Counted, Count32
<1>15. ReadsInside'
  <2>1. 0 <= count
    BY WidthAssumption DEF Count32
  <2>2. devices'[command'.device] = devices[d] /\ devices[d].partitions[command'.partition] = p
    BY <1>11, <1>13 DEF p
  <2>3. drive'[devices[d].slot].sectors = size
    BY DEF size
  <2>4. QED
    BY <1>10, <1>11, <2>1, <2>2, <2>3 DEF ReadsInside
<1>16. QED
  BY <1>12, <1>14, <1>15, Serves
LEMMA UseKeeps == ASSUME Inv, Use PROVE Inv'
<1>1. PICK d \in DOMAIN devices : \E k \in DOMAIN devices[d].partitions :
        \E sector \in Sectors, count \in Counts :
          ReadSectors(d, k, sector, count) \/ WriteSectors(d, k, sector, count)
  BY DEF Use
<1>2. PICK k \in DOMAIN devices[d].partitions :
        \E sector \in Sectors, count \in Counts :
          ReadSectors(d, k, sector, count) \/ WriteSectors(d, k, sector, count)
  BY <1>1
<1>3. PICK sector \in Sectors, count \in Counts :
        ReadSectors(d, k, sector, count) \/ WriteSectors(d, k, sector, count)
  BY <1>2
<1>4. sector \in Sector32 /\ count \in Count32
  BY InputAssumption DEF Sector32, Count32
<1>5. d \in Nat /\ k \in Nat /\ sector \in Nat
  <2>1. devices \in Seq(Devices) /\ devices[d] \in Devices
    BY ListedType DEF Inv, TypeOK
  <2>2. devices[d].partitions \in Seq(Partitions)
    BY <2>1 DEF Devices
  <2>3. d \in Nat /\ k \in Nat
    BY <2>1, <2>2
  <2>4. QED
    BY <1>4, <2>3, WidthAssumption DEF Sector32
<1>6. at.in = "done" /\ drive' = drive /\ UNCHANGED probing
  BY <1>3 DEF ReadSectors, WriteSectors
<1> DEFINE p == devices[d].partitions[k]
           lba == Wrap64(p.first + sector)
<1>7. \/ Refused(d, k, sector, count)
      \/ InPartition(p, sector, count) /\ Accepts(devices[d], lba, count) /\ Sent(d, k, sector, lba, count)
  BY <1>3 DEF ReadSectors, WriteSectors
<1>8. CASE Refused(d, k, sector, count)
  BY <1>5, <1>6, <1>8, RefusedKeeps DEF Refused
<1>9. CASE InPartition(p, sector, count) /\ Accepts(devices[d], lba, count) /\ Sent(d, k, sector, lba, count)
  BY <1>4, <1>6, <1>9, SentKeeps DEF Sent
<1>10. QED
  BY <1>7, <1>8, <1>9

LEMMA TransferKeeps == ASSUME Inv, Transfer \/ ReadError \/ Return PROVE Inv'
<1>1. drive' = drive /\ UNCHANGED probing /\ devices' = devices /\ at' = at
  BY DEF Transfer, ReadError, Return, probing
<1>2. command \in Commands
  BY DEF Inv, TypeOK
<1>3. CASE Return
  <2>1. command' \in Commands /\ command'.result \notin Accepted
    BY <1>3 DEF Return, Commands, Nothing, Accepted
  <2>2. Addressed' /\ Counted' /\ ReadsInside'
    BY <2>1 DEF Addressed, Counted, ReadsInside, Accepted
  <2>3. QED
    BY <1>1, <2>1, <2>2, Serves
<1>4. CASE Transfer \/ ReadError
  <2>1. command.result = "busy"
    BY <1>4 DEF Transfer, ReadError
  <2>2. PICK done \in {command.done, command.done + 1}, result \in Accepted :
          command' = [command EXCEPT !.done = done, !.result = result]
    BY ZenonT(60), <1>2, <1>4 DEF Transfer, ReadError, Accepted, Commands
  <2>3. command.done \in Nat /\ command.count \in Nat /\ done \in Nat
    BY <1>2, <2>2 DEF Commands
  <2>4. result \in {"none", "refused", "busy", "ok", "failed"}
    BY <2>2 DEF Accepted
  <2>5. command' \in Commands
    BY <1>2, <2>2, <2>3, <2>4 DEF Commands
  <2>6. /\ command'.device = command.device /\ command'.partition = command.partition
        /\ command'.sector = command.sector /\ command'.lba = command.lba
        /\ command'.count = command.count /\ command'.done = done /\ command'.result = result
    BY <1>2, <2>2 DEF Commands
  <2>7. Addressed'
    BY <1>1, <2>1, <2>6 DEF Inv, Addressed, Accepted
  <2>8. command.done < command.count
    BY <2>1 DEF Inv, Counted
  <2>9. result = "busy" => done < command.count
    <3>1. CASE ReadError
      BY <1>2, <2>6, <3>1 DEF ReadError, Commands
    <3>2. CASE Transfer
      <4>1. command' = [command EXCEPT !.done = command.done + 1,
                          !.result = IF command.done + 1 = command.count THEN "ok" ELSE command.result]
        BY <3>2 DEF Transfer
      <4>2. command'.done = command.done + 1
            /\ (command.done + 1 = command.count => command'.result = "ok")
        BY <1>2, <4>1 DEF Commands
      <4>3. QED
        BY <2>3, <2>6, <2>8, <4>2
    <3>3. QED
      BY <1>4, <3>1, <3>2
  <2>10. Counted'
    BY <2>2, <2>3, <2>6, <2>8, <2>9 DEF Counted
  <2>11. ReadsInside'
    BY <1>1, <2>1, <2>2, <2>3, <2>6, <2>8 DEF Inv, ReadsInside
  <2>12. QED
    BY <1>1, <2>5, <2>7, <2>10, <2>11, Serves
<1>5. QED
  BY <1>3, <1>4
-----------------------------------------------------------------------------

LEMMA StorageInit == Init => Inv
<1> SUFFICES ASSUME Init PROVE Inv
  OBVIOUS
<1>1. /\ drive \in [Slots -> Drives] /\ at = [in |-> "ata", k |-> 0, entry |-> 0]
      /\ devices = <<>> /\ capacity = Capacity /\ last_lba = 0 /\ loaded = 0 /\ command = Nothing
  BY DEF Init, Unprobed
<1>2. command \in Commands /\ command.result = "none"
  BY <1>1 DEF Commands, Nothing
<1>3. TypeOK
  BY <1>1, <1>2, TableAssumption DEF TypeOK
<1>4. Sized /\ Pointing
  BY <1>1 DEF Sized, Pointing, Slots
<1>5. Addressed /\ Counted /\ ReadsInside
  BY <1>2 DEF Addressed, Counted, ReadsInside, Accepted
<1>6. QED
  BY <1>3, <1>4, <1>5 DEF Inv

LEMMA StorageStepKeeps == Inv /\ [Next]_vars => Inv'
<1> SUFFICES ASSUME Inv, [Next]_vars PROVE Inv'
  OBVIOUS
<1>1. CASE NoChannel \/ NoDevice \/ AddDevice \/ NoMemory \/ ProbeDone
           \/ ReadHeader \/ ReadEntry \/ TakeEntry \/ TableEnds
  BY <1>1, ProbingKeeps
<1>2. CASE Use
  BY <1>2, UseKeeps
<1>3. CASE Transfer \/ ReadError \/ Return
  BY <1>3, TransferKeeps
<1>4. CASE UNCHANGED vars
  BY <1>4 DEF vars, Inv, TypeOK, Sized, Pointing, Addressed, Counted, ReadsInside
<1>5. QED
  BY <1>1, <1>2, <1>3, <1>4 DEF Next

\* The invariant holds while the disks are probed, and for every command after.
THEOREM StorageSafe == Spec => []Inv
  BY StorageInit, StorageStepKeeps, PTL DEF Spec

\* The tables keep the types of their declarations, whatever is connected.
THEOREM StorageTypeCorrect == Spec => []TypeOK
<1>1. Inv => TypeOK
  BY DEF Inv
<1>2. QED
  BY <1>1, StorageSafe, PTL

\* For drives of any size and tables of any content: a command reads the sectors of its
\* partition that were asked for, and they are on the drive.
THEOREM CommandsStayInside == Spec => []ReadsInside
<1>1. Inv => ReadsInside
  BY DEF Inv
<1>2. QED
  BY <1>1, StorageSafe, PTL

-----------------------------------------------------------------------------
(* The partitions that are found *)

\* What is in the buffer is the sector that was read last for this table.
Buffered == at.in = "gpt" => last_lba = 0 \/ loaded = last_lba

\* A device that was not probed has no partition yet.
Untouched(d) == at.in = "ata" \/ (at.in = "probe" /\ at.k <= d) \/ (at.in = "gpt" /\ at.k < d)
NoneYet ==
  \A d \in DOMAIN devices : Untouched(d) => devices[d].partitions = <<>> /\ devices[d].probed = "no"

\* The one that is probed has those of the entries that the loop is past.
Underway ==
  at.in = "gpt" =>
    /\ at.entry <= Len(Medium.entries) /\ devices[at.k].probed = "no"
    /\ Lists(devices[at.k].partitions, Medium.entries, at.entry)

TablesInv == Buffered /\ NoneYet /\ Underway /\ PartitionsListed

\* Nothing is listed of no entry.
LEMMA NoneListed == ASSUME NEW entries PROVE Lists(<<>>, entries, 0)
<1> DEFINE place == [m \in {} |-> 1]
<1>1. DOMAIN <<>> = {}
  OBVIOUS
<1>2. place \in [DOMAIN <<>> -> 1 .. 0]
  BY <1>1
<1>3. 1 .. 0 = {}
  OBVIOUS
<1>4. QED
  BY <1>1, <1>2, <1>3 DEF Lists

\* An entry that is not used adds nothing to the list.
LEMMA UnusedListed ==
  ASSUME NEW entries \in Seq(Entries), NEW partitions \in Seq(Partitions), NEW n \in Nat,
         Lists(partitions, entries, n), entries[n + 1].zero
  PROVE  Lists(partitions, entries, n + 1)
<1>1. PICK place \in [DOMAIN partitions -> 1 .. n] :
        /\ \A m, j \in DOMAIN partitions : m < j => place[m] < place[j]
        /\ \A m \in DOMAIN partitions :
             ~entries[place[m]].zero /\ partitions[m] = Partition(entries[place[m]])
        /\ \A e \in 1 .. n : ~entries[e].zero => \E m \in DOMAIN partitions : place[m] = e
  BY DEF Lists
<1>2. place \in [DOMAIN partitions -> 1 .. n + 1]
  OBVIOUS
<1>3. ASSUME NEW e \in 1 .. n + 1, ~entries[e].zero
      PROVE  \E m \in DOMAIN partitions : place[m] = e
  <2>1. e # n + 1
    BY <1>3
  <2>2. e \in 1 .. n
    BY <2>1
  <2>3. QED
    BY <1>1, <1>3, <2>2
<1>4. QED
  BY <1>1, <1>2, <1>3 DEF Lists

\* One that is used adds its partition, after all the others.
LEMMA UsedListed ==
  ASSUME NEW entries \in Seq(Entries), NEW partitions \in Seq(Partitions), NEW n \in Nat,
         Lists(partitions, entries, n), ~entries[n + 1].zero,
         NEW p \in Partitions, p = Partition(entries[n + 1])
  PROVE  Lists(Append(partitions, p), entries, n + 1)
<1>1. PICK place \in [DOMAIN partitions -> 1 .. n] :
        /\ \A m, j \in DOMAIN partitions : m < j => place[m] < place[j]
        /\ \A m \in DOMAIN partitions :
             ~entries[place[m]].zero /\ partitions[m] = Partition(entries[place[m]])
        /\ \A e \in 1 .. n : ~entries[e].zero => \E m \in DOMAIN partitions : place[m] = e
  BY DEF Lists
<1> DEFINE last == Len(partitions) + 1
           longer == Append(partitions, p)
           further == [m \in 1 .. last |-> IF m = last THEN n + 1 ELSE place[m]]
<1>2. /\ last \in 1 .. last /\ last \in Nat /\ DOMAIN longer = 1 .. last /\ DOMAIN partitions = 1 .. last - 1
      /\ longer[last] = p
      /\ \A m \in 1 .. last - 1 : longer[m] = partitions[m]
  OBVIOUS
<1> HIDE DEF last, longer
<1>3. /\ \A m \in 1 .. last - 1 : further[m] = place[m] /\ place[m] \in 1 .. n
      /\ further[last] = n + 1
      /\ further \in [1 .. last -> 1 .. n + 1]
  <2>1. \A m \in 1 .. last - 1 : place[m] \in 1 .. n
    BY <1>1, <1>2
  <2>2. \A m \in 1 .. last - 1 : m \in 1 .. last /\ m # last
    BY <1>2
  <2>3. \A m \in 1 .. last : m # last => m \in 1 .. last - 1
    BY <1>2
  <2>4. 1 .. n \subseteq 1 .. n + 1 /\ n + 1 \in 1 .. n + 1
    OBVIOUS
  <2>5. QED
    BY <1>2, <2>1, <2>2, <2>3, <2>4, Zenon
<1> HIDE DEF further
<1>4. \A m \in 1 .. last : m = last \/ m \in 1 .. last - 1
  BY <1>2
<1>5. ASSUME NEW m \in 1 .. last, NEW j \in 1 .. last, m < j PROVE further[m] < further[j]
  <2>1. m \in 1 .. last - 1
    BY <1>2, <1>5
  <2>2. CASE j = last
    BY <1>3, <2>1, <2>2
  <2>3. CASE j \in 1 .. last - 1
    BY <1>1, <1>2, <1>3, <1>5, <2>1, <2>3
  <2>4. QED
    BY <1>4, <2>2, <2>3
<1>6. ASSUME NEW m \in 1 .. last
      PROVE  ~entries[further[m]].zero /\ longer[m] = Partition(entries[further[m]])
  <2>1. CASE m = last
    BY <1>2, <1>3, <2>1
  <2>2. CASE m \in 1 .. last - 1
    BY <1>1, <1>2, <1>3, <2>2
  <2>3. QED
    BY <1>4, <2>1, <2>2
<1>7. ASSUME NEW e \in 1 .. n + 1, ~entries[e].zero
      PROVE  \E m \in 1 .. last : further[m] = e
  <2>1. CASE e = n + 1
    BY <1>2, <1>3, <2>1
  <2>2. CASE e # n + 1
    <3>1. e \in 1 .. n
      BY <2>2
    <3>2. PICK m \in 1 .. last - 1 : place[m] = e
      BY <1>1, <1>2, <1>7, <3>1
    <3>3. m \in 1 .. last
      BY <1>2
    <3>4. QED
      BY <1>3, <3>2, <3>3
  <2>3. QED
    BY <2>1, <2>2
<1>8. Lists(longer, entries, n + 1)
  <2>1. further \in [DOMAIN longer -> 1 .. n + 1]
    BY <1>2, <1>3, Zenon
  <2>2. \A m, j \in DOMAIN longer : m < j => further[m] < further[j]
    BY <1>2, <1>5, Zenon
  <2>3. \A m \in DOMAIN longer :
          ~entries[further[m]].zero /\ longer[m] = Partition(entries[further[m]])
    BY <1>2, <1>6, Zenon
  <2>4. \A e \in 1 .. n + 1 : ~entries[e].zero => \E m \in DOMAIN longer : further[m] = e
    BY <1>2, <1>7, Zenon
  <2>5. QED
    BY <2>1, <2>2, <2>3, <2>4, Zenon DEF Lists
<1>9. QED
  BY <1>8 DEF longer

\* A number is made up of its quotient and its remainder.
LEMMA QuotientRemainder ==
  ASSUME NEW a \in Nat, NEW b \in Nat \ {0}, NEW q \in Int, NEW r \in Int, q = a \div b, r = a % b
  PROVE  q * b + r = a
OBVIOUS

\* The entry that the loop takes is the one in the table: it is at its place in the sector that
\* is in the buffer.
LEMMA EntryInBuffer ==
  ASSUME Inv, Buffered, at.in = "gpt", at.entry < Len(Medium.entries), ~MustRead
  PROVE  InBuffer = Medium.entries[at.entry + 1]
<1>1. at.k \in DOMAIN devices /\ at.entry \in Nat
  BY DEF Inv, TypeOK, Pointing
<1>2. devices[at.k].slot \in Slots
  BY <1>1, ListedType DEF Inv
<1>3. Medium.entries \in Seq(Entries) /\ Medium.entry_lba \in 1 .. U32 - 1
  BY <1>2, DriveType, DrivesAssumption DEF Inv, Medium
<1> DEFINE first == Medium.entry_lba
           entries == Medium.entries
           m == (loaded - first) * PerSector + (at.entry % PerSector) + 1
<1>4. last_lba = first + at.entry \div PerSector
  BY DEF MustRead, EntryLba
<1>5. first \in Nat /\ first > 0
  BY <1>3, WidthAssumption
<1>6. loaded = last_lba
  <2>1. at.entry \div PerSector \in Nat
    BY <1>1, TableAssumption
  <2>2. last_lba # 0
    BY <1>4, <1>5, <2>1
  <2>3. QED
    BY <2>2 DEF Buffered
<1>7. m = at.entry + 1
  <2> DEFINE q == at.entry \div PerSector
             r == at.entry % PerSector
  <2>1. q \in Int /\ r \in Int
    BY <1>1, TableAssumption
  <2>2. q * PerSector + r = at.entry
    BY <1>1, <2>1, QuotientRemainder, TableAssumption
  <2>3. loaded - first = q
    <3> HIDE DEF q
    <3>1. loaded = first + q
      BY <1>4, <1>6 DEF q
    <3>2. QED
      BY <1>5, <2>1, <3>1
  <2>4. QED
    BY <2>2, <2>3
<1>8. m \in DOMAIN entries
  BY <1>1, <1>3, <1>7
<1>9. QED
  BY <1>7, <1>8 DEF InBuffer

\* What PartitionsListed says of one device.
Found(device) ==
  LET entries == drive[device.slot].entries IN
    /\ \E n \in 0 .. Len(entries) : Lists(device.partitions, entries, n)
    /\ device.probed = "found" => Lists(device.partitions, entries, Len(entries))

LEMMA PartitionsListedEach == PartitionsListed <=> \A d \in DOMAIN devices : Found(devices[d])
BY DEF PartitionsListed, Found

\* A table has a length, and the list of what was found is one.
LEMMA TableType ==
  ASSUME Inv, NEW d \in DOMAIN devices
  PROVE  /\ drive[devices[d].slot].entries \in Seq(Entries)
         /\ Len(drive[devices[d].slot].entries) \in Nat
         /\ devices[d].partitions \in Seq(Partitions)
<1>1. devices[d] \in Devices /\ devices[d].slot \in Slots
  BY ListedType DEF Inv
<1>2. drive[devices[d].slot].entries \in Seq(Entries)
  BY <1>1, DriveType DEF Inv
<1>3. devices[d].partitions \in Seq(Partitions)
  BY <1>1 DEF Devices
<1>4. QED
  BY <1>2, <1>3

\* A device without partitions, of which nothing else is said.
LEMMA EmptyFound ==
  ASSUME NEW device, drive[device.slot].entries \in Seq(Entries),
         device.partitions = <<>>, device.probed # "found"
  PROVE  Found(device)
<1>1. 0 \in 0 .. Len(drive[device.slot].entries)
  OBVIOUS
<1>2. QED
  BY <1>1, NoneListed DEF Found

LEMMA Later == ASSUME NEW a \in Nat, NEW b \in Nat, a + 1 <= b PROVE b # a /\ a < b /\ a <= b
OBVIOUS

\* When the probing of a device ends, with whatever result, it has what was found so far.
LEMMA EndsListed ==
  ASSUME Inv, TablesInv, at.in \in {"probe", "gpt"}, at.k \in DOMAIN devices, drive' = drive,
         NEW result \in {"failed", "no table", "found"},
         result = "found" => Lists(devices[at.k].partitions, Medium.entries, Len(Medium.entries)),
         at' = NextDevice, devices' = [devices EXCEPT ![at.k].probed = result]
  PROVE  TablesInv'
<1>1. at'.in = "probe" /\ at'.k = at.k + 1 /\ at.k \in Nat
  BY DEF NextDevice, Inv, TypeOK
<1>2. /\ DOMAIN devices' = DOMAIN devices
      /\ devices'[at.k].slot = devices[at.k].slot
      /\ devices'[at.k].partitions = devices[at.k].partitions
      /\ devices'[at.k].probed = result
      /\ \A d \in DOMAIN devices : d # at.k => devices'[d] = devices[d]
  <2>1. devices \in Seq(Devices) /\ devices[at.k] \in Devices
    BY ListedType DEF Inv, TypeOK
  <2>2. QED
    BY <2>1 DEF Devices
<1>3. \A d \in DOMAIN devices : Found(devices[d])
  BY PartitionsListedEach DEF TablesInv
<1>4. ASSUME NEW d \in DOMAIN devices PROVE Found(devices[d])'
  <2>1. CASE d = at.k
    BY <1>2, <1>3, <2>1 DEF Found, Medium
  <2>2. CASE d # at.k
    BY <1>2, <1>3, <2>2 DEF Found
  <2>3. QED
    BY <2>1, <2>2
<1>5. PartitionsListed'
  BY <1>2, <1>4 DEF PartitionsListed, Found
<1>6. Buffered' /\ Underway'
  BY <1>1 DEF Buffered, Underway
<1>7. ASSUME NEW d \in DOMAIN devices, Untouched(d)'
      PROVE  devices'[d].partitions = <<>> /\ devices'[d].probed = "no"
  <2>0. d \in Nat
    <3>1. devices \in Seq(Devices)
      BY DEF Inv, TypeOK
    <3>2. QED
      BY <3>1, IndexType, Zenon
  <2>1. at.k + 1 <= d
    BY <1>1, <1>7 DEF Untouched
  <2>2. d # at.k /\ at.k < d /\ at.k <= d
    BY <1>1, <2>0, <2>1, Later, Zenon
  <2>3. Untouched(d)
    BY <2>2 DEF Untouched
  <2>4. QED
    BY <1>2, <2>2, <2>3 DEF TablesInv, NoneYet
<1>8. NoneYet'
  BY <1>2, <1>7 DEF NoneYet
<1>9. QED
  BY <1>5, <1>6, <1>8 DEF TablesInv

\* While the channels are searched, no device was probed.
LEMMA SearchListed == ASSUME Inv, TablesInv, NoChannel \/ NoDevice \/ AddDevice PROVE TablesInv'
<1>1. at.in = "ata" /\ drive' = drive /\ UNCHANGED <<last_lba, loaded>>
      /\ (at' = NextSlot(1) \/ at' = NextSlot(2))
  BY DEF NoChannel, NoDevice, AddDevice
<1>2. at'.in \in {"ata", "probe"}
  <2>1. at \in Places
    BY DEF Inv, TypeOK, Places
  <2>2. QED
    BY <1>1, <2>1 DEF NextSlot, Places
<1>3. \A d \in DOMAIN devices : devices[d].partitions = <<>> /\ devices[d].probed = "no"
  BY <1>1 DEF TablesInv, NoneYet, Untouched
<1>4. \A d \in DOMAIN devices' : devices'[d].partitions = <<>> /\ devices'[d].probed = "no"
  <2>1. CASE devices' = devices
    BY <1>3, <2>1
  <2>2. CASE AddDevice
    <3>1. devices' = Append(devices, Device(at.k)) /\ devices \in Seq(Devices) /\ at.k \in Slots
      BY <1>1, <2>2 DEF AddDevice, Inv, TypeOK, Pointing
    <3>2. Device(at.k).partitions = <<>> /\ Device(at.k).probed = "no" /\ Device(at.k) \in Devices
      BY <3>1, DeviceType DEF Device, Inv
    <3>3. QED
      BY <1>3, <3>1, <3>2
  <2>3. QED
    BY <2>1, <2>2 DEF NoChannel, NoDevice
<1>5. ASSUME NEW d \in DOMAIN devices' PROVE Found(devices[d])'
  <2>1. Inv'
    BY ProbingKeeps
  <2>2. drive'[devices'[d].slot].entries \in Seq(Entries)
    <3>1. devices'[d].slot \in Slots
      <4>1. devices' \in Seq(Devices)
        BY <2>1 DEF Inv, TypeOK
      <4>2. devices'[d] \in Devices
        BY <4>1, ElementType
      <4>3. QED
        BY <4>2 DEF Devices
    <3>2. QED
      BY <1>1, <3>1, DriveType DEF Inv
  <2>3. 0 \in 0 .. Len(drive'[devices'[d].slot].entries)
    BY <2>2
  <2>4. QED
    BY <1>4, <2>3, NoneListed DEF Found
<1>6. PartitionsListed'
  BY <1>5 DEF PartitionsListed, Found
<1>7. Buffered' /\ Underway'
  BY <1>2 DEF Buffered, Underway
<1>8. NoneYet'
  BY <1>4 DEF NoneYet
<1>9. QED
  BY <1>6, <1>7, <1>8 DEF TablesInv

\* The next entry of the table becomes a partition, unless it is not used.
LEMMA TakeEntryListed == ASSUME Inv, TablesInv, TakeEntry PROVE TablesInv'
<1>1. /\ at.in = "gpt" /\ at.entry < Len(Medium.entries) /\ ~MustRead
      /\ at' = [at EXCEPT !.entry = @ + 1]
      /\ drive' = drive /\ last_lba' = last_lba /\ loaded' = loaded
  BY DEF TakeEntry
<1> DEFINE k == at.k
           n == at.entry
           old == devices[k].partitions
           entries == Medium.entries
           p == Partition(entries[n + 1])
<1>2. k \in DOMAIN devices /\ n \in Nat /\ devices \in Seq(Devices) /\ devices[k] \in Devices
  BY <1>1, ListedType DEF Inv, TypeOK, Pointing
<1>3. at'.in = "gpt" /\ at'.k = k /\ at'.entry = n + 1
  <2>1. at \in Places
    BY DEF Inv, TypeOK, Places
  <2>2. QED
    BY <1>1, <2>1 DEF Places
<1>4. entries \in Seq(Entries) /\ Len(entries) \in Nat /\ old \in Seq(Partitions)
  BY <1>2, TableType DEF Medium
<1>5. Lists(old, entries, n) /\ devices[k].probed = "no"
  BY <1>1 DEF TablesInv, Underway
<1>6. InBuffer = entries[n + 1]
  BY <1>1, EntryInBuffer DEF TablesInv
<1>7. n + 1 \in 0 .. Len(entries)
  BY <1>1, <1>2, <1>4
<1>8. /\ DOMAIN devices' = DOMAIN devices
      /\ \A d \in DOMAIN devices : d # k => devices'[d] = devices[d]
      /\ devices'[k].slot = devices[k].slot /\ devices'[k].probed = "no"
      /\ devices'[k].partitions = IF entries[n + 1].zero THEN old ELSE Append(old, p)
  <2>1. CASE entries[n + 1].zero
    <3>1. devices' = devices
      BY <1>6, <2>1 DEF TakeEntry
    <3>2. QED
      BY <1>5, <2>1, <3>1
  <2>2. CASE ~entries[n + 1].zero
    <3>1. devices' = [devices EXCEPT ![k].partitions = Append(old, p)]
      BY <1>6, <2>2 DEF TakeEntry, Added
    <3> HIDE DEF p, old
    <3>2. QED
      BY <1>2, <1>5, <2>2, <3>1 DEF Devices
  <2>3. QED
    BY <2>1, <2>2
<1>9. Lists(devices'[k].partitions, entries, n + 1)
  <2>1. CASE entries[n + 1].zero
    BY <1>2, <1>4, <1>5, <1>8, <2>1, UnusedListed
  <2>2. CASE ~entries[n + 1].zero
    <3>1. entries[n + 1] \in Entries
      <4>1. n + 1 \in DOMAIN entries
        BY <1>1, <1>2, <1>4
      <4>2. QED
        BY <1>4, <4>1, ElementType
    <3>2. p \in Partitions
      BY <3>1, PartitionType
    <3>3. Lists(Append(old, p), entries, n + 1)
      BY <1>2, <1>4, <1>5, <2>2, <3>2, UsedListed
    <3>4. QED
      BY <1>8, <2>2, <3>3
  <2>3. QED
    BY <2>1, <2>2
<1>10. Medium' = Medium
  BY <1>1, <1>3, <1>8 DEF Medium
<1>11. Buffered' /\ Underway'
  <2>1. Buffered'
    BY <1>1, <1>3 DEF TablesInv, Buffered
  <2>2. n + 1 <= Len(entries)
    BY <1>7
  <2>3. Underway'
    BY <1>3, <1>8, <1>9, <1>10, <2>2 DEF Underway
  <2>4. QED
    BY <2>1, <2>3
<1>12. \A d \in DOMAIN devices : Found(devices[d])
  BY PartitionsListedEach DEF TablesInv
<1>13. ASSUME NEW d \in DOMAIN devices PROVE Found(devices[d])'
  <2>1. CASE d = k
    <3>1. drive'[devices'[d].slot].entries = entries
      BY <1>1, <1>8, <2>1 DEF Medium
    <3>2. QED
      BY <1>7, <1>8, <1>9, <2>1, <3>1 DEF Found
  <2>2. CASE d # k
    BY <1>1, <1>8, <1>12, <2>2 DEF Found
  <2>3. QED
    BY <2>1, <2>2
<1>14. PartitionsListed'
  BY <1>8, <1>13 DEF PartitionsListed, Found
<1>15. ASSUME NEW d \in DOMAIN devices, Untouched(d)'
       PROVE  devices'[d].partitions = <<>> /\ devices'[d].probed = "no"
  <2>1. k < d /\ k \in Nat /\ d \in Nat
    BY <1>2, <1>3, <1>15 DEF Untouched
  <2>2. d # k /\ Untouched(d)
    BY <1>1, <2>1 DEF Untouched
  <2>3. QED
    BY <1>8, <2>2 DEF TablesInv, NoneYet
<1>16. NoneYet'
  BY <1>8, <1>15 DEF NoneYet
<1>17. QED
  BY <1>11, <1>14, <1>16 DEF TablesInv

\* Every step of the probing keeps what is known of the lists.
LEMMA ProbingLists ==
  ASSUME Inv, TablesInv, NoMemory \/ ProbeDone \/ ReadHeader \/ ReadEntry \/ TableEnds
  PROVE  TablesInv'
<1>1. at \in Places /\ at.k \in Nat
  BY DEF Inv, TypeOK, Places
<1>2. CASE NoMemory \/ ProbeDone
  <2>1. at'.in \in {"panic", "done"} /\ devices' = devices /\ drive' = drive
    BY <1>1, <1>2 DEF NoMemory, ProbeDone, Places
  <2>2. PartitionsListed'
    BY <2>1 DEF TablesInv, PartitionsListed
  <2>3. QED
    BY <2>1, <2>2 DEF TablesInv, Buffered, Underway, NoneYet, Untouched
<1>3. CASE ReadHeader
  <2>1. at.in = "probe" /\ at.k \in DOMAIN devices /\ drive' = drive /\ last_lba' = 0
    <3>1. devices \in Seq(Devices)
      BY DEF Inv, TypeOK
    <3>2. at.in = "probe" /\ ~(at.k > Len(devices)) /\ drive' = drive /\ last_lba' = 0
      BY <1>3 DEF ReadHeader, Probed
    <3>3. at.k > 0
      BY <3>2 DEF Inv, Pointing
    <3>4. QED
      BY <1>1, <3>1, <3>2, <3>3
  <2>2. CASE Ends("failed") \/ Ends("no table")
    BY <2>1, <2>2, EndsListed DEF Ends
  <2>3. CASE at' = [at EXCEPT !.in = "gpt", !.entry = 0] /\ devices' = devices
    <3>1. at'.in = "gpt" /\ at'.k = at.k /\ at'.entry = 0
      BY <1>1, <2>3 DEF Places
    <3>2. PartitionsListed'
      BY <2>1, <2>3 DEF TablesInv, PartitionsListed
    <3>3. NoneYet'
      <4>1. ASSUME NEW d \in DOMAIN devices, Untouched(d)' PROVE Untouched(d)
        <5>1. d \in Nat
          <6>1. devices \in Seq(Devices)
            BY DEF Inv, TypeOK
          <6>2. QED
            BY <6>1
        <5>2. at.k < d
          BY <3>1, <4>1 DEF Untouched
        <5>3. QED
          BY <1>1, <2>1, <5>1, <5>2 DEF Untouched
      <4>2. QED
        BY <2>3, <4>1 DEF TablesInv, NoneYet
    <3>4. Untouched(at.k)
      BY <1>1, <2>1 DEF Untouched
    <3>5. devices[at.k].partitions = <<>> /\ devices[at.k].probed = "no"
      BY <2>1, <3>4 DEF TablesInv, NoneYet
    <3>6. Medium' = Medium /\ Len(Medium.entries) \in Nat
      BY <2>1, <2>3, <3>1, TableType DEF Medium
    <3>7. 0 <= Len(Medium.entries)
      BY <3>6
    <3>8. Underway'
      BY <2>3, <3>1, <3>5, <3>6, <3>7, NoneListed DEF Underway
    <3>9. Buffered'
      BY <2>1 DEF Buffered
    <3>10. QED
      BY <3>2, <3>3, <3>8, <3>9 DEF TablesInv
  <2>4. QED
    BY <1>3, <2>2, <2>3 DEF ReadHeader
<1>4. CASE ReadEntry
  <2>1. at.in = "gpt" /\ at.k \in DOMAIN devices /\ drive' = drive
    BY <1>4 DEF ReadEntry, Inv, Pointing
  <2>2. CASE Ends("failed")
    BY <2>1, <2>2, EndsListed DEF Ends
  <2>3. CASE last_lba' = EntryLba /\ loaded' = EntryLba /\ UNCHANGED <<at, devices>>
    <3>1. Medium' = Medium
      BY <2>1, <2>3 DEF Medium
    <3>2. Buffered'
      BY <2>3 DEF Buffered
    <3>3. Underway'
      BY <2>3, <3>1 DEF TablesInv, Underway
    <3>4. NoneYet'
      BY <2>3 DEF TablesInv, NoneYet, Untouched
    <3>5. PartitionsListed'
      BY <2>1, <2>3 DEF TablesInv, PartitionsListed
    <3>6. QED
      BY <3>2, <3>3, <3>4, <3>5 DEF TablesInv
  <2>4. QED
    BY <1>4, <2>2, <2>3 DEF ReadEntry
<1>5. CASE TableEnds
  <2>1. at.in = "gpt" /\ at.k \in DOMAIN devices /\ drive' = drive /\ at.entry >= Len(Medium.entries)
    BY <1>5 DEF TableEnds, Inv, Pointing
  <2>2. at.entry <= Len(Medium.entries) /\ Lists(devices[at.k].partitions, Medium.entries, at.entry)
    BY <2>1 DEF TablesInv, Underway
  <2>3. at.entry = Len(Medium.entries)
    <3>1. at.entry \in Nat /\ Len(Medium.entries) \in Nat
      BY <2>1, TableType DEF Inv, TypeOK, Medium
    <3>2. QED
      BY <2>1, <2>2, <3>1
  <2>4. QED
    BY <1>5, <2>1, <2>2, <2>3, EndsListed DEF TableEnds, Ends
<1>6. QED
  BY <1>2, <1>3, <1>4, <1>5

LEMMA TablesInit == Init => TablesInv
BY DEF Init, Unprobed, TablesInv, Buffered, Underway, NoneYet, PartitionsListed

LEMMA TablesStepKeeps == Inv /\ TablesInv /\ [Next]_vars => TablesInv'
<1> SUFFICES ASSUME Inv, TablesInv, [Next]_vars PROVE TablesInv'
  OBVIOUS
<1>1. CASE NoChannel \/ NoDevice \/ AddDevice
  BY <1>1, SearchListed
<1>2. CASE NoMemory \/ ProbeDone \/ ReadHeader \/ ReadEntry \/ TableEnds
  BY <1>2, ProbingLists
<1>3. CASE TakeEntry
  BY <1>3, TakeEntryListed
<1>4. CASE Use \/ Transfer \/ ReadError \/ Return \/ UNCHANGED vars
  <2>1. UNCHANGED <<drive, at, devices, last_lba, loaded>>
    BY <1>4 DEF Use, ReadSectors, WriteSectors, Transfer, ReadError, Return, vars, probing
  <2>2. PartitionsListed' /\ NoneYet' /\ Buffered'
    BY <2>1 DEF TablesInv, PartitionsListed, NoneYet, Untouched, Buffered
  <2>3. Underway'
    BY <2>1 DEF TablesInv, Underway, Medium
  <2>4. QED
    BY <2>2, <2>3 DEF TablesInv
<1>5. QED
  BY <1>1, <1>2, <1>3, <1>4 DEF Next

\* The disks are typed and sized as before, and their lists are those of the tables.
THEOREM TablesFound == Spec => [](Inv /\ TablesInv)
  BY TablesInit, TablesStepKeeps, StorageSafe, PTL DEF Spec

\* For tables of any length and content, over any number of sectors, one of which is buffered
\* at a time: the partitions of a device are those of the table, in its order, all of them
\* unless a sector could not be read.
THEOREM PartitionsAreThoseOfTheTable == Spec => []PartitionsListed
<1>1. TablesInv => PartitionsListed
  BY DEF TablesInv
<1>2. QED
  BY <1>1, TablesFound, PTL
-----------------------------------------------------------------------------
(* The registers of the text mode: vga_text_init *)

Octets == 0 .. 255
Groups == {"misc", "seq", "crtc", "gc", "ac"}
Registers == [misc : [1 .. 1 -> Octets], seq : [1 .. 5 -> Octets], crtc : [1 .. 25 -> Octets],
              gc : [1 .. 9 -> Octets], ac : [1 .. 21 -> Octets]]
Size == [misc |-> 1, seq |-> 5, crtc |-> 25, gc |-> 9, ac |-> 21]

\* The table has bytes, as many as the adapter has registers.
LEMMA ModeType ==
  /\ V!Mode \in Registers /\ DOMAIN V!Mode = Groups
  /\ \A g \in Groups : Len(V!Mode[g]) = Size[g] /\ DOMAIN V!Mode[g] = 1 .. Size[g]
<1>1. V!Mode.misc \in [1 .. 1 -> Octets] BY DEF V!Mode, Octets
<1>2. V!Mode.seq \in [1 .. 5 -> Octets] BY DEF V!Mode, Octets
<1>3. V!Mode.crtc \in [1 .. 25 -> Octets]
  <2>1. V!Mode.crtc = [j \in 1 .. 25 |-> V!Mode.crtc[j]] BY SMTT(60) DEF V!Mode
  <2>2. \A j \in 1 .. 25 : V!Mode.crtc[j] \in 0 .. 255 BY SMTT(60) DEF V!Mode
  <2> QED BY <2>1, <2>2, ZenonT(60) DEF Octets
<1>4. V!Mode.gc \in [1 .. 9 -> Octets] BY DEF V!Mode, Octets
<1>5. V!Mode.ac \in [1 .. 21 -> Octets]
  <2>1. V!Mode.ac = [j \in 1 .. 21 |-> V!Mode.ac[j]] BY SMTT(60) DEF V!Mode
  <2>2. \A j \in 1 .. 21 : V!Mode.ac[j] \in 0 .. 255 BY SMTT(60) DEF V!Mode
  <2> QED BY <2>1, <2>2, ZenonT(60) DEF Octets
<1>6. V!Mode \in Registers BY <1>1, <1>2, <1>3, <1>4, <1>5 DEF V!Mode, Registers
<1>7. DOMAIN V!Mode = Groups BY DEF V!Mode, Groups
<1>8. Len(V!Mode.misc) = 1 /\ Len(V!Mode.seq) = 5 /\ Len(V!Mode.crtc) = 25 /\ Len(V!Mode.gc) = 9 /\ Len(V!Mode.ac) = 21
  BY DEF V!Mode
<1>9. DOMAIN V!Mode.misc = 1 .. 1 /\ DOMAIN V!Mode.seq = 1 .. 5 /\ DOMAIN V!Mode.crtc = 1 .. 25
      /\ DOMAIN V!Mode.gc = 1 .. 9 /\ DOMAIN V!Mode.ac = 1 .. 21
  BY <1>6 DEF Registers
<1> QED BY <1>6, <1>7, <1>8, <1>9 DEF Groups, Size

LEMMA ModeValues ==
  /\ V!Mode.seq[3] = 3 /\ V!Mode.seq[5] = 2
  /\ V!Mode.crtc[18] = 14
  /\ V!Mode.gc[5] = 0 /\ V!Mode.gc[6] = 16 /\ V!Mode.gc[7] = 14
  BY DEF V!Mode

\* s is r with v in one register.
Writes(r, s, g, k, v) ==
  /\ s \in Registers
  /\ s[g][k] = v
  /\ \A h \in Groups : \A j \in 1 .. Size[h] : h # g \/ j # k => s[h][j] = r[h][j]

LEMMA WriteRegister ==
  ASSUME NEW r \in Registers, NEW g \in Groups, NEW k \in 1 .. Size[g], NEW v \in Octets,
         NEW s, s = [r EXCEPT ![g][k] = v]
  PROVE  Writes(r, s, g, k, v)
  BY DEF Registers, Groups, Size, Writes

LEMMA LiteralPlaces ==
  /\ Size["seq"] = 5 /\ Size["gc"] = 9 /\ Size["crtc"] = 25
  /\ "seq" \in Groups /\ "gc" \in Groups /\ "crtc" \in Groups /\ "ac" \in Groups
  /\ 5 \in 1 .. Size["seq"] /\ 3 \in 1 .. Size["seq"]
  /\ 5 \in 1 .. Size["gc"] /\ 6 \in 1 .. Size["gc"] /\ 7 \in 1 .. Size["gc"]
  /\ 18 \in 1 .. Size["crtc"] /\ 1 .. 21 = 1 .. Size["ac"]
  BY DEF Size, Groups

\* s is r with other registers of the sequencer and of graphics.
Replaced(r, s, seq, gc) ==
  /\ s \in Registers /\ s.seq = seq /\ s.gc = gc
  /\ s.misc = r.misc /\ s.crtc = r.crtc /\ s.ac = r.ac
LEMMA ReplaceGroups ==
  ASSUME NEW r \in Registers, NEW seq \in [1 .. 5 -> Octets], NEW gc \in [1 .. 9 -> Octets],
         NEW s, s = [r EXCEPT !.seq = seq, !.gc = gc]
  PROVE  Replaced(r, s, seq, gc)
  BY DEF Registers, Replaced

LEMMA TwoChanges ==
  ASSUME NEW D, NEW S, NEW f \in [D -> S], NEW j, NEW k, NEW v \in S, NEW w \in S,
         NEW g, g = [f EXCEPT ![j] = v, ![k] = w]
  PROVE  g \in [D -> S]
  OBVIOUS
LEMMA ThreeChanges ==
  ASSUME NEW D, NEW S, NEW f \in [D -> S], NEW first, NEW j, NEW k, NEW u \in S, NEW v \in S, NEW w \in S,
         NEW g, g = [f EXCEPT ![first] = u, ![j] = v, ![k] = w]
  PROVE  g \in [D -> S]
  OBVIOUS
LEMMA SomeOctets == 0 \in Octets /\ 2 \in Octets /\ 3 \in Octets /\ 4 \in Octets /\ 6 \in Octets
                    /\ 12 \in Octets /\ 14 \in Octets /\ 16 \in Octets
  BY DEF Octets

LEMMA SameRegisters ==
  ASSUME NEW r \in Registers, NEW s \in Registers,
         \A g \in Groups : \A k \in 1 .. Size[g] : r[g][k] = s[g][k]
  PROVE  r = s
<1>1. r.misc = s.misc /\ r.seq = s.seq /\ r.crtc = s.crtc /\ r.gc = s.gc /\ r.ac = s.ac
  BY DEF Registers, Groups, Size
<1> QED BY <1>1 DEF Registers

\* The places before the loop over a group, and what a place has reached.
Behind == [misc |-> {}, seq |-> {"misc"}, crtc |-> {"misc", "seq", "unlock"},
           gc |-> {"misc", "seq", "unlock", "crtc"}, ac |-> {"misc", "seq", "unlock", "crtc", "gc"}]
VgaPlaces == {"misc", "seq", "unlock", "crtc", "gc", "ac", "unblank", "address", "flatten",
              "glyphs", "clear", "done"}
VgaType ==
  /\ regs \in Registers /\ port \in [takes : {"index", "value"}, index : Nat]
  /\ vga_pc \in VgaPlaces /\ vga_i \in Nat
  /\ vga_pc \in Groups => vga_i < Size[vga_pc]
  /\ vga_pc \notin Groups \cup {"glyphs"} => vga_i = 0
Reached(g, k) == vga_pc \notin Behind[g] /\ (vga_pc = g => k <= vga_i)
\* The registers written so far are those of the table, whatever is in the others.
RightSoFar ==
  vga_pc # "glyphs" =>
    \A g \in Groups : \A k \in 1 .. Size[g] : Reached(g, k) => regs[g][k] = V!Mode[g][k]
\* The first eight CRTC registers take what is written: Unlock took the protection off, and the
\* table does not put it back.
Unprotected == vga_pc = "crtc" => ~V!Bit(regs.crtc[18], 128)
\* While the glyphs are written, the registers put them where the adapter looks for them, and
\* what was saved makes them those of the table again.
Restorable == vga_pc = "glyphs" => V!Restored = V!Mode /\ V!Flat
\* The glyphs written so far are in; the display is on again, and the address is that of text.
GlyphsIn ==
  glyphs = CASE vga_pc = "glyphs" -> 0 .. vga_i - 1
             [] vga_pc \in {"clear", "done"} -> 0 .. Glyphs - 1 [] OTHER -> {}
FontFits == vga_pc = "glyphs" => vga_i <= Glyphs
Lit ==
  /\ vga_pc \in {"address", "flatten", "glyphs", "clear", "done"} => port.index >= 32
  /\ vga_pc \in {"flatten", "glyphs", "clear", "done"} => segment = 3
VgaInv == VgaType /\ RightSoFar /\ Unprotected /\ Restorable /\ GlyphsIn /\ FontFits /\ Lit

LEMMA VgaInitInv == ASSUME Left \subseteq Octets, V!VgaInit PROVE VgaInv
<1>1. PICK left \in Left : regs = [g \in DOMAIN V!Mode |-> [k \in DOMAIN V!Mode[g] |-> left]]
  BY DEF V!VgaInit
<1>2. regs = [g \in Groups |-> [k \in 1 .. Size[g] |-> left]] BY <1>1, ModeType
<1>3. regs \in Registers
  BY <1>2 DEF Groups, Size, Registers
<1>4. VgaType
  <2>1. port \in [takes : {"index", "value"}, index : Nat]
    <3>1. port.takes \in {"index", "value"} /\ port.index \in Octets
          /\ port = [takes |-> port.takes, index |-> port.index]
      BY DEF V!VgaInit
    <3> QED BY <3>1 DEF Octets
  <2> QED BY <1>3, <2>1 DEF VgaType, V!VgaInit, VgaPlaces, Groups, Size
<1>5. \A g \in Groups : \A k \in 1 .. Size[g] : ~Reached(g, k)
  BY DEF V!VgaInit, Reached, Behind, Groups, Size
<1> QED
  BY <1>4, <1>5 DEF VgaInv, RightSoFar, Unprotected, Restorable, GlyphsIn, FontFits, Lit, V!VgaInit

LEMMA ModeOctets == ASSUME NEW g \in Groups, NEW k \in 1 .. Size[g] PROVE V!Mode[g][k] \in Octets
  BY ModeType DEF Registers, Groups, Size

NextGroup == [misc |-> "seq", seq |-> "unlock", crtc |-> "gc", gc |-> "ac"]

LEMMA WriteGroupKeeps == ASSUME VgaInv, V!WriteGroup PROVE VgaInv'
<1> USE DEF V!WriteGroup
<1>1. PICK g \in {"misc", "seq", "crtc", "gc"} : g = vga_pc OBVIOUS
<1>2. vga_i \in Nat /\ vga_i < Size[g] /\ Size[g] \in Nat /\ g \in Groups /\ regs \in Registers
  BY <1>1 DEF VgaInv, VgaType, Groups, Size
<1>3. PICK k \in 1 .. Size[g] : k = vga_i + 1 BY <1>2
<1>4. PICK v \in Octets : v = V!Mode[g][k] BY <1>2, <1>3, ModeOctets
<1>5. ~V!Protected(g, vga_i) BY <1>1 DEF V!Protected, VgaInv, Unprotected
<1>6. regs' = [regs EXCEPT ![g][k] = v] BY <1>1, <1>3, <1>4, <1>5 DEF V!Out
<1>7. Writes(regs, regs', g, k, v) BY <1>2, <1>3, <1>4, <1>6, WriteRegister
<1>8. IF k < Size[g] THEN vga_i' = k /\ vga_pc' = g ELSE vga_i' = 0 /\ vga_pc' = NextGroup[g]
  BY <1>1, <1>2, <1>3, ModeType DEF V!After, NextGroup
<1>9. VgaType'
  <2>1. regs' \in Registers BY <1>7 DEF Writes
  <2> QED BY <1>1, <1>2, <1>3, <1>8, <2>1 DEF VgaInv, VgaType, Groups, Size, VgaPlaces, NextGroup
<1>10. RightSoFar'
  <2> SUFFICES ASSUME NEW h \in Groups, NEW j \in 1 .. Size[h], Reached(h, j)'
               PROVE  regs'[h][j] = V!Mode[h][j]
    BY DEF RightSoFar
  <2>1. CASE h = g /\ j = k BY <1>7, <1>4, <2>1 DEF Writes
  <2>2. CASE h # g \/ j # k
    <3>1. regs'[h][j] = regs[h][j] BY <1>7, <2>2 DEF Writes
    <3>2. Reached(h, j)
      BY <1>1, <1>2, <1>3, <1>8, <2>2 DEF Reached, Behind, Groups, Size, NextGroup
    <3>3. vga_pc # "glyphs" BY <1>1
    <3> QED BY <3>1, <3>2, <3>3 DEF VgaInv, RightSoFar
  <2> QED BY <2>1, <2>2
<1>11. Unprotected'
  <2> SUFFICES ASSUME vga_pc' = "crtc" PROVE ~V!Bit(regs'.crtc[18], 128) BY DEF Unprotected
  <2>1. g = "crtc" BY <1>1, <1>8 DEF NextGroup
  <2>2. regs'["crtc"][18] = (IF k = 18 THEN 14 ELSE regs["crtc"][18])
    BY <1>4, <1>7, <2>1, ModeValues DEF Writes, Groups, Size
  <2> QED BY <2>1, <2>2, <1>1 DEF VgaInv, Unprotected, V!Bit
<1>12. vga_pc' \in Groups \cup {"unlock"} BY <1>1, <1>2, <1>8 DEF NextGroup, Groups
<1> QED
  BY <1>1, <1>9, <1>10, <1>11, <1>12
  DEF VgaInv, Restorable, GlyphsIn, FontFits, Lit, Groups

\* A register of the CRT controller holds a byte.
LEMMA CrtcOctet ==
  ASSUME NEW r \in Registers, NEW j \in 1 .. 25
  PROVE  r.crtc[j] \in 0 .. 255
<1>1. r.crtc \in [1 .. 25 -> Octets] BY DEF Registers
<1>2. r.crtc[j] \in Octets BY <1>1, Zenon
<1> QED BY <1>2 DEF Octets

LEMMA UnlockKeeps == ASSUME VgaInv, V!Unlock PROVE VgaInv'
<1> USE DEF V!Unlock
<1>1. regs \in Registers /\ vga_i = 0 BY DEF VgaInv, VgaType, Groups
<1>2. PICK v \in Octets : v = V!With(regs.crtc[4], 128)
  <2>0. 4 \in 1 .. 25 OBVIOUS
  <2>1. regs.crtc[4] \in 0 .. 255 BY <1>1, <2>0, CrtcOctet, ZenonT(60)
  <2> QED BY SMTT(60), <2>1 DEF V!With, V!Bit, Octets
<1>3. PICK r : r = V!Out("crtc", 3, V!With(regs.crtc[4], 128)) OBVIOUS
<1>4. r = regs \/ r = [regs EXCEPT !["crtc"][4] = v] BY <1>2, <1>3 DEF V!Out
<1>5. r \in Registers /\ \A h \in Groups : \A j \in 1 .. Size[h] : h # "crtc" => r[h][j] = regs[h][j]
  <2>1. Writes(regs, [regs EXCEPT !["crtc"][4] = v], "crtc", 4, v)
    BY <1>1, WriteRegister, LiteralPlaces
  <2> QED BY <2>1, <1>1, <1>4 DEF Writes
<1>6. PICK w \in Octets : w = V!Without(r.crtc[18], 128) /\ ~V!Bit(w, 128)
  <2>1. r \in Registers BY <1>5
  <2>2. 18 \in 1 .. 25 OBVIOUS
  <2>3. r.crtc[18] \in 0 .. 255 BY <2>1, <2>2, CrtcOctet, ZenonT(60)
  <2> QED BY SMTT(60), <2>3 DEF V!Without, V!Bit, Octets
<1>7. regs' = [r EXCEPT !["crtc"][18] = w] BY <1>3, <1>6 DEF V!Unlocked
<1>8. Writes(r, regs', "crtc", 18, w) BY <1>5, <1>7, WriteRegister, LiteralPlaces
<1>9. VgaType'
  BY <1>8 DEF Writes, VgaInv, VgaType, Groups, Size, VgaPlaces
<1>10. RightSoFar'
  <2> SUFFICES ASSUME NEW h \in Groups, NEW j \in 1 .. Size[h], Reached(h, j)'
               PROVE  regs'[h][j] = V!Mode[h][j]
    BY DEF RightSoFar
  <2>1. h # "crtc" BY <1>1 DEF Reached
  <2>2. regs'[h][j] = regs[h][j] BY <1>5, <1>8, <2>1 DEF Writes
  <2>3. Reached(h, j) BY <1>1, <2>1 DEF Reached, Behind, Groups, Size
  <2> QED BY <2>2, <2>3 DEF VgaInv, RightSoFar
<1>11. Unprotected' BY <1>6, <1>8 DEF Unprotected, Writes
<1> QED BY <1>9, <1>10, <1>11 DEF VgaInv, Restorable, GlyphsIn, FontFits, Lit

LEMMA WriteAttributeKeeps == ASSUME VgaInv, V!WriteAttribute PROVE VgaInv'
<1> USE DEF V!WriteAttribute
<1>1. regs \in Registers /\ vga_i \in Nat /\ vga_i < 21 /\ vga_pc = "ac"
  BY DEF VgaInv, VgaType, Groups, Size
<1>2. PICK k \in 1 .. 21 : k = vga_i + 1 BY <1>1
<1>3. PICK v \in Octets : v = V!Mode["ac"][k] BY <1>2, ModeOctets DEF Groups, Size
<1>4. V!Aligned BY DEF V!Aligned, V!ReadStatus, VgaInv, VgaType
<1>5. regs' = [regs EXCEPT !["ac"][k] = v] BY <1>1, <1>2, <1>3, <1>4 DEF V!PutAttribute
<1>6. Writes(regs, regs', "ac", k, v) BY <1>1, <1>2, <1>3, <1>5, WriteRegister, LiteralPlaces
<1>7. port' \in [takes : {"index", "value"}, index : Nat]
  BY <1>1, <1>4 DEF V!ReadStatus, VgaInv, VgaType
<1>8. VgaType'
  BY <1>1, <1>6, <1>7 DEF Writes, VgaInv, VgaType, Groups, Size, VgaPlaces
<1>9. RightSoFar'
  <2> SUFFICES ASSUME NEW h \in Groups, NEW j \in 1 .. Size[h], Reached(h, j)'
               PROVE  regs'[h][j] = V!Mode[h][j]
    BY DEF RightSoFar
  <2>1. CASE h = "ac" /\ j = k BY <1>6, <1>3, <2>1 DEF Writes
  <2>2. CASE h # "ac" \/ j # k
    <3>1. regs'[h][j] = regs[h][j] BY <1>6, <2>2 DEF Writes
    <3>2. Reached(h, j) BY <1>1, <1>2, <2>2 DEF Reached, Behind, Groups, Size
    <3> QED BY <1>1, <3>1, <3>2 DEF VgaInv, RightSoFar
  <2> QED BY <2>1, <2>2
<1> QED BY <1>1, <1>8, <1>9 DEF VgaInv, Unprotected, Restorable, GlyphsIn, FontFits, Lit

\* From there on all registers are right.
LEMMA AllRight ==
  ASSUME VgaInv, vga_pc \in {"unblank", "address", "flatten", "clear", "done"}
  PROVE  regs = V!Mode
<1>1. \A g \in Groups : \A k \in 1 .. Size[g] : Reached(g, k) BY DEF Reached, Behind, Groups
<1>2. \A g \in Groups : \A k \in 1 .. Size[g] : regs[g][k] = V!Mode[g][k]
  BY <1>1 DEF VgaInv, RightSoFar
<1> QED BY <1>2, ModeType, SameRegisters DEF VgaInv, VgaType

LEMMA RightIs == ASSUME regs' = V!Mode PROVE RightSoFar' BY DEF RightSoFar

LEMMA UnblankKeeps == ASSUME VgaInv, V!Unblank PROVE VgaInv'
<1> USE DEF V!Unblank
<1>1. V!Aligned BY DEF V!Aligned, V!ReadStatus, VgaInv, VgaType
<1>2. regs' = V!Mode /\ regs' = regs BY <1>1, AllRight
<1>3. RightSoFar' BY <1>2, RightIs
<1>4. port' = [takes |-> "value", index |-> 32] BY <1>1
<1> QED BY <1>2, <1>3, <1>4
  DEF VgaInv, VgaType, Unprotected, Restorable, GlyphsIn, FontFits, Lit, Groups, VgaPlaces

LEMMA AddressKeeps == ASSUME VgaInv, V!Address PROVE VgaInv'
<1> USE DEF V!Address
<1>1. regs = V!Mode BY AllRight
<1>2. RightSoFar' BY <1>1, RightIs
<1>3. segment' = 3 BY <1>1, ModeValues
<1> QED BY <1>2, <1>3
  DEF VgaInv, VgaType, Unprotected, Restorable, GlyphsIn, FontFits, Lit, Groups, VgaPlaces

LEMMA FlattenKeeps == ASSUME Glyphs \in Nat, VgaInv, V!Flatten PROVE VgaInv'
<1> USE DEF V!Flatten
<1>1. regs = V!Mode /\ vga_i = 0 BY AllRight DEF VgaInv, VgaType, Groups
<1>2. saved' = <<3, 2, 0, 16, 14>> BY <1>1, ModeValues
<1>3. V!With(2, 4) = 6 /\ V!Without(16, 16) = 0 /\ V!Without(14, 2) = 12
  BY DEF V!With, V!Without, V!Bit
<1>4. regs \in Registers BY DEF VgaInv, VgaType
<1>5. regs.seq[5] = 2 /\ regs.gc[6] = 16 /\ regs.gc[7] = 14 BY <1>1, ModeValues
<1>6. regs' = [regs EXCEPT !.seq = [regs.seq EXCEPT ![5] = 6, ![3] = 4],
                           !.gc = [regs.gc EXCEPT ![6] = 0, ![7] = 12, ![5] = 2]]
  <2>1. regs' = [regs EXCEPT !.seq[5] = 6, !.gc[6] = 0, !.gc[7] = 12, !.gc[5] = 2, !.seq[3] = 4]
    BY ZenonT(60), <1>3, <1>4, <1>5 DEF Registers
  <2> QED BY <1>4, <2>1 DEF Registers
<1>7. PICK seq : seq = [regs.seq EXCEPT ![5] = 6, ![3] = 4] OBVIOUS
<1>7a. seq \in [1 .. 5 -> Octets]
  <2>1. regs.seq \in [1 .. 5 -> Octets] BY <1>4 DEF Registers
  <2> QED BY <1>7, <2>1, TwoChanges, SomeOctets
<1>8. PICK gc : gc = [regs.gc EXCEPT ![6] = 0, ![7] = 12, ![5] = 2] OBVIOUS
<1>8a. gc \in [1 .. 9 -> Octets]
  <2>1. regs.gc \in [1 .. 9 -> Octets] BY <1>4 DEF Registers
  <2> QED BY <1>8, <2>1, ThreeChanges, SomeOctets
<1>9. Replaced(regs, regs', seq, gc) BY <1>4, <1>6, <1>7, <1>7a, <1>8, <1>8a, ReplaceGroups
<1>10. seq[3] = 4 /\ seq[5] = 6 /\ gc[5] = 2 /\ gc[6] = 0 /\ gc[7] = 12
  BY <1>4, <1>7, <1>8 DEF Registers
<1>11. V!Flat'
  <2>1. regs'.seq[3] = 4 /\ regs'.seq[5] = 6 /\ regs'.gc[6] = 0 /\ regs'.gc[7] = 12
    BY <1>9, <1>10 DEF Replaced
  <2> QED BY <2>1 DEF V!Flat, V!Bit
<1>12. V!Restored' = V!Mode
  <2>1. PICK a : a = [seq EXCEPT ![3] = 3, ![5] = 2] OBVIOUS
  <2>1a. a \in [1 .. 5 -> Octets] BY <1>7a, <2>1, TwoChanges, SomeOctets
  <2>2. PICK b : b = [gc EXCEPT ![5] = 0, ![6] = 16, ![7] = 14] OBVIOUS
  <2>2a. b \in [1 .. 9 -> Octets] BY <1>8a, <2>2, ThreeChanges, SomeOctets
  <2>3. PICK q : q = regs' OBVIOUS
  <2>3a. PICK r : r = [q EXCEPT !.seq = a, !.gc = b] OBVIOUS
  <2>3b. q.seq = seq /\ q.gc = gc /\ q \in Registers BY <1>9, <2>3 DEF Replaced
  <2>4. Replaced(q, r, a, b) BY <2>1a, <2>2a, <2>3a, <2>3b, ReplaceGroups
  <2>5. V!Restored' = r
    <3>1. V!Restored' = [q EXCEPT !.seq[3] = 3, !.seq[5] = 2, !.gc[5] = 0, !.gc[6] = 16, !.gc[7] = 14]
      <4>1. saved'[1] = 3 /\ saved'[2] = 2 /\ saved'[3] = 0 /\ saved'[4] = 16 /\ saved'[5] = 14 BY <1>2
      <4> QED BY <4>1, <2>3 DEF V!Restored
    <3> QED BY <2>1, <2>2, <2>3a, <2>3b, <3>1 DEF Registers
  <2>6. a = regs.seq
    BY <1>1, <1>4, <1>7, <2>1, ModeValues DEF Registers
  <2>7. b = regs.gc
    BY <1>1, <1>4, <1>8, <2>2, ModeValues DEF Registers
  <2>8. r = regs
    <3>1. r \in Registers /\ r.seq = regs.seq /\ r.gc = regs.gc /\ r.misc = regs.misc
          /\ r.crtc = regs.crtc /\ r.ac = regs.ac
      BY <1>9, <2>3, <2>4, <2>6, <2>7 DEF Replaced
    <3> QED BY <1>4, <3>1 DEF Registers
  <2> QED BY <1>1, <2>5, <2>8
<1> QED
  BY <1>1, <1>9, <1>11, <1>12
  DEF VgaInv, VgaType, RightSoFar, Unprotected, Restorable, GlyphsIn, FontFits, Lit, Groups, VgaPlaces,
      Replaced

LEMMA WriteGlyphKeeps == ASSUME Glyphs \in Nat, VgaInv, V!WriteGlyph PROVE VgaInv'
<1> USE DEF V!WriteGlyph
<1>1. vga_i \in Nat /\ V!Flat /\ glyphs = 0 .. vga_i - 1 BY DEF VgaInv, VgaType, Restorable, GlyphsIn
<1>2. GlyphsIn' BY <1>1 DEF GlyphsIn
<1>3. Restorable'
  <2>1. V!Restored' = V!Restored /\ V!Flat' = V!Flat BY DEF V!Restored, V!Flat
  <2> QED BY <2>1 DEF VgaInv, Restorable
<1> QED
  BY <1>1, <1>2, <1>3
  DEF VgaInv, VgaType, RightSoFar, Unprotected, FontFits, Lit, Groups, VgaPlaces

LEMMA RestoreKeeps == ASSUME VgaInv, V!Restore PROVE VgaInv'
<1> USE DEF V!Restore
<1>1. regs' = V!Mode BY DEF VgaInv, Restorable
<1>2. RightSoFar' BY <1>1, RightIs
<1>3. glyphs = 0 .. Glyphs - 1 BY DEF VgaInv, GlyphsIn
<1> QED
  BY <1>1, <1>2, <1>3, ModeType
  DEF VgaInv, VgaType, Unprotected, Restorable, GlyphsIn, FontFits, Lit, Groups, VgaPlaces

LEMMA ClearKeeps == ASSUME VgaInv, V!Clear PROVE VgaInv'
<1> USE DEF V!Clear
<1>1. regs' = V!Mode BY AllRight
<1>2. RightSoFar' BY <1>1, RightIs
<1> QED
  BY <1>2
  DEF VgaInv, VgaType, Unprotected, Restorable, GlyphsIn, FontFits, Lit, Groups, VgaPlaces

LEMMA VgaNextKeeps == ASSUME Glyphs \in Nat, VgaInv, V!VgaNext PROVE VgaInv'
  BY WriteGroupKeeps, UnlockKeeps, WriteAttributeKeeps, UnblankKeeps, AddressKeeps, FlattenKeeps,
     WriteGlyphKeeps, RestoreKeeps, ClearKeeps DEF V!VgaNext

LEMMA VgaReady == ASSUME VgaInv PROVE V!TextModeReady
<1>1. vga_pc = "done" => regs = V!Mode BY AllRight
<1> QED BY <1>1 DEF VgaInv, GlyphsIn, Lit, V!TextModeReady
-----------------------------------------------------------------------------
\* ps2_init
Ps2Places == {"disable", "flush", "read config", "write config", "self test", "resend config", "second",
              "test", "enable", "reset", "scanning", "identify", "irq", "final config", "done"}
Lines == {"int1", "int2"}
Ps2Type ==
  /\ pc \in Ps2Places /\ i \in {1, 2} /\ valid_ports \subseteq {1, 2}
  /\ type \in [{1, 2} -> {"none", "mouse", "keyboard"}]
\* What ps2_init has read and writes again has no interrupts in it, nor has what was written
\* last, until all ports are done.
Quiet ==
  /\ pc \in {"write config", "self test", "resend config"} \cup K!Polling => config \cap Lines = {}
  /\ pc \in K!Polling => controller \cap Lines = {}
\* No interrupt is let through before its handler is registered, for a device that is known.
HandlersFirst ==
  /\ pc \notin {"final config", "done"} => handlers = {}
  /\ handlers = unmasked
  /\ \A p \in handlers : p \in {1, 2} /\ type[p] # "none"
Ps2Inv == Ps2Type /\ Quiet /\ HandlersFirst

\* What a port that is not there makes of a configuration has no more interrupts.
LEMMA WrittenQuiet == ASSUME NEW bits, bits \cap Lines = {} PROVE K!Written(bits) \cap Lines = {}
  BY DEF K!Written, Lines

LEMMA TypeChange ==
  ASSUME Ps2Type, NEW d \in {"none", "mouse", "keyboard"}
  PROVE  [type EXCEPT ![i] = d] \in [{1, 2} -> {"none", "mouse", "keyboard"}]
  BY DEF Ps2Type

LEMMA LoopType ==
  ASSUME NEW again \in Ps2Places, NEW next \in Ps2Places, Ps2Type, K!Loop(again, next)
  PROVE  pc' \in {again, next} /\ i' \in {1, 2}
  BY DEF K!Loop, K!Last, Ps2Type

LEMMA Ps2NextKeeps == ASSUME Ps2Inv, K!Next PROVE Ps2Inv'
<1> USE DEF Ps2Inv, Ps2Type, Quiet, HandlersFirst, K!Gives, K!Polling, K!locals, K!lines, Ps2Places
<1>1. ASSUME K!TimesOut PROVE Ps2Inv' BY <1>1 DEF K!TimesOut
<1>2. ASSUME K!Disable PROVE Ps2Inv'
  <2>1. pc' \in {"disable", "flush"} /\ i' \in {1, 2} BY <1>2 DEF K!Disable
  <2> QED BY <1>2, <2>1 DEF K!Disable
<1>3. ASSUME K!Flush PROVE Ps2Inv' BY <1>3 DEF K!Flush
<1>4. ASSUME K!ReadConfig PROVE Ps2Inv' BY <1>4 DEF K!ReadConfig, Lines
<1>5. ASSUME K!WriteConfig PROVE Ps2Inv' BY <1>5, WrittenQuiet DEF K!WriteConfig
<1>6. ASSUME K!SelfTest PROVE Ps2Inv' BY <1>6 DEF K!SelfTest, K!Resent
<1>7. ASSUME K!Second PROVE Ps2Inv'
  <2>1. controller' \cap Lines = {}
    <3>1. CASE "clock2" \notin config BY <1>7, <3>1 DEF K!Second
    <3>2. ASSUME NEW enabled \in {controller, K!Written(controller \ {"clock2"})},
                 controller' \in {enabled, K!Written(enabled \cup {"clock2"})}
          PROVE  controller' \cap Lines = {}
      <4>1. enabled \cap Lines = {} BY <1>7, <3>2, WrittenQuiet DEF K!Second
      <4> QED BY <3>2, <4>1, WrittenQuiet DEF Lines
    <3> QED BY <1>7, <3>1, <3>2 DEF K!Second
  <2> QED BY <1>7, <2>1 DEF K!Second
<1>8. ASSUME K!TestPort PROVE Ps2Inv'
  <2>1. pc' \in {"test", "enable"} /\ i' \in {1, 2} BY <1>8, LoopType DEF K!TestPort
  <2>2. valid_ports' \subseteq {1, 2} BY <1>8 DEF K!TestPort
  <2> QED BY <1>8, <2>1, <2>2 DEF K!TestPort
<1>9. ASSUME K!NoPorts PROVE Ps2Inv' BY <1>9 DEF K!NoPorts
<1>10. ASSUME K!Enable PROVE Ps2Inv' BY <1>10, WrittenQuiet DEF K!Enable
<1>11. ASSUME K!Skip PROVE Ps2Inv'
  <2>1. pc' \in {"enable", "irq"} /\ i' \in {1, 2} BY <1>11, LoopType DEF K!Skip
  <2> QED BY <1>11, <2>1 DEF K!Skip
<1>12. ASSUME K!Acknowledged PROVE Ps2Inv' BY <1>12 DEF K!Acknowledged
<1>13. ASSUME K!Identify PROVE Ps2Inv'
  <2>1. pc' \in {"enable", "irq"} /\ i' \in {1, 2} BY <1>13, LoopType DEF K!Identify
  <2>2. type' \in [{1, 2} -> {"none", "mouse", "keyboard"}]
    BY <1>13, TypeChange DEF K!Identify, K!Identified
  <2>3. handlers = {} BY <1>13 DEF K!Identify
  <2> QED BY <1>13, <2>1, <2>2, <2>3 DEF K!Identify
<1>14. ASSUME K!EnableInterrupts PROVE Ps2Inv'
  <2>1. \A p \in handlers' : p \in {1, 2} /\ type'[p] # "none"
    BY <1>14 DEF K!EnableInterrupts, K!Known, K!Ports
  <2> QED BY <1>14, <2>1 DEF K!EnableInterrupts
<1>15. ASSUME K!FinalConfig PROVE Ps2Inv' BY <1>15 DEF K!FinalConfig
<1> QED
  BY <1>1, <1>2, <1>3, <1>4, <1>5, <1>6, <1>7, <1>8, <1>9, <1>10, <1>11, <1>12, <1>13, <1>14, <1>15
  DEF K!Next

LEMMA Ps2Ready == ASSUME Ps2Inv PROVE K!PortsReady
  BY DEF Ps2Inv, Ps2Type, Quiet, HandlersFirst, K!PortsReady, Lines
-----------------------------------------------------------------------------
(* k_main *)

\* Each part is what it should be when it is started, keeps its invariant while it runs, and is
\* not looked at again.
Stages == {"vga", "ps2", "storage", "panic"}
BootInv ==
  /\ stage \in Stages
  /\ IF stage = "vga" THEN VgaInv ELSE vga_pc = "gone"
  /\ stage = "ps2" => Ps2Inv
  /\ stage # "ps2" => type = [p \in {1, 2} |-> "none"] /\ handlers = {} /\ unmasked = {}
  /\ IF stage = "storage" THEN Inv /\ TablesInv ELSE Unprobed

LEMMA BootInitInv == BootInit => BootInv
  BY VgaInitInv, AdapterAssumption DEF BootInit, BootInv, Stages, K!Ports, Octets

LEMMA StorageInitNext == Init' => Inv' /\ TablesInv'
  BY StorageInit, TablesInit, PTL

\* What Storage is about, but for the drives; the drives are looked at when it starts.
LEMMA UnprobedStays == ASSUME Unprobed, UNCHANGED <<probing, command>> PROVE Unprobed'
  BY DEF Unprobed, probing

LEMMA VgaStepKeeps == ASSUME BootInv, VgaStep PROVE BootInv'
<1> USE DEF VgaStep
<1>1. VgaInv' BY VgaNextKeeps, AdapterAssumption DEF BootInv
<1>2. Unprobed' BY UnprobedStays DEF BootInv, vars, probing
<1> QED BY <1>1, <1>2 DEF BootInv, ps2Vars

LEMMA WrongMagicKeeps == ASSUME BootInv, WrongMagic PROVE BootInv'
<1> USE DEF WrongMagic
<1>1. Unprobed' BY UnprobedStays DEF BootInv, vars, probing
<1> QED BY <1>1 DEF BootInv, ps2Vars, ForgetVga, Stages

\* ps2_init starts with whatever the firmware left in the controller.
LEMMA StartTimerKeeps == ASSUME BootInv, StartTimer PROVE BootInv'
<1> USE DEF StartTimer
<1>1. Unprobed' BY UnprobedStays DEF BootInv, vars, probing
<1>2. Ps2Inv'
  BY DEF BootInv, Ps2Inv, Ps2Type, Quiet, HandlersFirst, Ps2Places, K!Polling, Lines
<1> QED BY <1>1, <1>2 DEF BootInv, ForgetVga, Stages

LEMMA Ps2StepKeeps == ASSUME BootInv, Ps2Step PROVE BootInv'
<1> USE DEF Ps2Step
<1>1. Ps2Inv' BY Ps2NextKeeps DEF BootInv
<1>2. Unprobed' BY UnprobedStays DEF BootInv, vars, probing
<1> QED BY <1>1, <1>2 DEF BootInv, vgaVars

LEMMA StartStorageKeeps == ASSUME BootInv, StartStorage PROVE BootInv'
<1> USE DEF StartStorage
<1>1. Unprobed' BY UnprobedStays DEF BootInv
<1>2. Init' BY <1>1 DEF Init
<1>3. Inv' /\ TablesInv' BY <1>2, StorageInitNext
<1> QED BY <1>3 DEF BootInv, ForgetPs2, vgaVars, Stages, K!Ports

LEMMA StorageRuns == ASSUME BootInv, StorageStep PROVE BootInv'
<1> USE DEF StorageStep
<1>1. Inv' /\ TablesInv' BY StorageStepKeeps, TablesStepKeeps DEF BootInv
<1> QED BY <1>1 DEF BootInv, vgaVars, ps2Vars

LEMMA BootStutters == ASSUME BootInv, UNCHANGED bootVars PROVE BootInv'
<1> USE DEF bootVars
<1>1. stage = "vga" => VgaInv'
  BY DEF BootInv, vgaVars, VgaInv, VgaType, RightSoFar, Reached, Unprotected, Restorable, GlyphsIn,
         FontFits, Lit, V!Restored, V!Flat
<1>2. stage = "ps2" => Ps2Inv' BY DEF BootInv, ps2Vars, Ps2Inv, Ps2Type, Quiet, HandlersFirst
<1>3. stage = "storage" => Inv' /\ TablesInv' BY StorageStepKeeps, TablesStepKeeps DEF BootInv
<1>4. stage # "storage" => Unprobed' BY UnprobedStays DEF BootInv, vars, probing
<1> QED BY <1>1, <1>2, <1>3, <1>4 DEF BootInv, vgaVars, ps2Vars

\* k_main, whatever the loader, the adapter, the controller and the disks do.
THEOREM BootSafe == BootSpec => []BootInv
<1>1. BootInv /\ [BootNext]_bootVars => BootInv'
  BY VgaStepKeeps, WrongMagicKeeps, StartTimerKeeps, Ps2StepKeeps, StartStorageKeeps, StorageRuns,
     BootStutters DEF BootNext
<1> QED BY BootInitInv, <1>1, PTL DEF BootSpec

\* vga_text_init ends with the registers of the text mode, the display on and the whole font
\* in, for whatever was in the registers before.
THEOREM TextModeIsReady == BootSpec => []TextModeReady
<1>1. BootInv => TextModeReady
  <2>1. vga_pc = "gone" => V!TextModeReady BY DEF V!TextModeReady
  <2> QED BY <2>1, VgaReady DEF BootInv, TextModeReady
<1> QED BY <1>1, BootSafe, PTL

\* ps2_init polls with the interrupts of the controller off, and a port interrupts only with
\* its handler registered: for whatever the firmware left, the devices answer, and wherever a
\* timeout ends the function.
THEOREM PortsAreReady == BootSpec => []PortsReady
<1>1. BootInv => PortsReady BY Ps2Ready DEF BootInv, PortsReady
<1> QED BY <1>1, BootSafe, PTL

\* What is proved of the disks alone holds of them where k_main puts them: after the text mode
\* and the controller, with the drives that are connected then.
THEOREM DisksAfterBoot == BootSpec => [](ReadsInside /\ PartitionsListed)
<1>1. Unprobed => ReadsInside /\ PartitionsListed
  BY DEF Unprobed, Nothing, ReadsInside, PartitionsListed
<1>2. BootInv => ReadsInside /\ PartitionsListed BY <1>1 DEF BootInv, Inv, TablesInv
<1> QED BY <1>2, BootSafe, PTL
=============================================================================
