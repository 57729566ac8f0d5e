------------------------------ MODULE MCBoot ------------------------------
(* Registers all clear or all set; disks without a table, with a hole in it,   *)
(* and with one over two sectors, whose partitions are out of order, overlap   *)
(* the end of the disk, and end before they begin.                             *)
EXTENDS Boot

None(kind) == [kind |-> kind, sectors |-> 0, gpt |-> FALSE, entry_lba |-> 1, entries |-> <<>>]
Used(first, last) == [zero |-> FALSE, first |-> first, last |-> last]
Unused == [zero |-> TRUE, first |-> 0, last |-> 0]
Disk(sectors, entries) == [kind |-> "disk", sectors |-> sectors, gpt |-> TRUE, entry_lba |-> 2, entries |-> entries]
MCDrives ==
  {None("no channel"), [None("disk") EXCEPT !.sectors = 4],
   Disk(12, <<Used(5, 7), Unused, Used(8, 11), Used(11, 14)>>),
   Disk(20, <<Unused, Unused, Used(14, 17), Used(3, 1)>>)}
MCAnswers == {<<>>, <<0>>, <<171>>, <<171, 131>>, <<0, 0>>}
=============================================================================
