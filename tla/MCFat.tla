------------------------------- MODULE MCFat -------------------------------
(* A file of two clusters that are not neighbours, one that fills its cluster, *)
(* and a third entry of the root directory: free, an empty file, or a          *)
(* directory.  The table takes three sectors, so that the buffered one is      *)
(* often another than the one needed; two free clusters lie in the sector of   *)
(* the first file, so that what was left in the buffer may get to the disk.    *)
EXTENDS Fat
MCTable == [c \in 0 .. 17 |-> CASE c = 3 -> 12 [] c \in {4, 5, 8} -> 0 [] OTHER -> EOC]
MCRoots == {<<Entry("A", 3, 5, FALSE), Entry("B", 7, 3, FALSE), third>> :
             third \in {End, Entry("C", 0, 0, FALSE), Entry("D", 8, 0, TRUE)}}
MCDisks ==
  {[table |-> IF root[3].name = "D" THEN [MCTable EXCEPT ![8] = EOC] ELSE MCTable,
    data |-> [c \in 2 .. 12 |-> IF c = 2 THEN root
                               ELSE IF c = 8 /\ root[3].name = "D" THEN <<End, End, End>>
                               ELSE [i \in 1 .. 3 |-> <<c, i>>]]] : root \in MCRoots}
=============================================================================
