------------------------------ MODULE Kmalloc ------------------------------
(* The kernel heap, memory/kmalloc.c: one static arena tiled by nodes, each a *)
(* 16 byte header (data_size, free) followed by its data.  kmalloc walks the  *)
(* nodes first fit, merging free neighbours on its way; kfree only clears a   *)
(* flag.  The unit of address and length is 16 bytes, the header's size and   *)
(* the alignment; a request stays in bytes.  Every unit of the arena is kept  *)
(* as what a header read there would say, because headers and client data     *)
(* share the memory: a client may write anything into the block it holds, and *)
(* a header merged away stays behind as stale bytes.                          *)
EXTENDS Integers

CONSTANTS Units,     \* sizeof(s_kmalloc_static) / 16
          Requests,  \* the sizes clients ask for, in bytes
          Scribble   \* what a client's data may read as in the data_size field

ASSUME UnitsAssumption == Units \in Nat /\ Units >= 2
ASSUME RequestsAssumption == Requests \subseteq Nat
ASSUME ScribbleAssumption == Scribble \subseteq Nat

VARIABLES
  data_size, free,   \* the arena: the two header fields as read at each unit
  pc, node, asked,   \* kmalloc: in its loop or not, the node it looks at, its argument
  ret,               \* the pointer kmalloc returned last (the unit where data begins)
  owned,             \* auxiliary: header of each block a client holds -> bytes asked, or 0
  nodes              \* auxiliary: where the headers are

memory == <<data_size, free>>
vars == <<data_size, free, pc, node, asked, ret, owned, nodes>>

Addr == 0 .. Units - 1
NULL == 0

UnitsFor(bytes) == (bytes + 15) \div 16

Want == UnitsFor(asked)
Following(n) == n + 1 + data_size[n]          \* next_node, when not past the end
IsLast(n) == Following(n) >= Units

Init ==
  /\ data_size = [u \in Addr |-> IF u = 0 THEN Units - 1 ELSE 0]
  /\ free = [u \in Addr |-> u = 0]
  /\ pc = "idle" /\ node = 0 /\ asked = 0 /\ ret = NULL
  /\ owned = [u \in Addr |-> 0]
  /\ nodes = {0}

-----------------------------------------------------------------------------
(* kmalloc *)

Valid(bytes) == bytes # 0 /\ bytes < 16 * Units

KmallocReject(bytes) ==
  /\ pc = "idle" /\ ~Valid(bytes)
  /\ ret' = NULL
  /\ UNCHANGED <<memory, pc, node, asked, owned, nodes>>

KmallocEnter(bytes) ==
  /\ pc = "idle" /\ Valid(bytes)
  /\ pc' = "search" /\ node' = 0 /\ asked' = bytes
  /\ UNCHANGED <<memory, ret, owned, nodes>>

FitsUsedToo(n) == data_size[n] >= Want                               \* mutant
Fits(n) == data_size[n] >= Want /\ free[n]

\* kmalloc returns: its locals are gone.
Return(pointer) == pc' = "idle" /\ node' = 0 /\ asked' = 0 /\ ret' = pointer

\* One turn of the loop: the node does not do and is the last one.
GiveUp ==
  /\ pc = "search" /\ ~Fits(node) /\ IsLast(node)
  /\ Return(NULL)
  /\ UNCHANGED <<memory, owned, nodes>>

NeverMerges(n) == FALSE                                              \* mutant
Mergeable(n) == free[n] /\ free[Following(n)]

\* One turn of the loop: a free node swallows the free node after it.
MergedWithoutGrowing(n) == data_size[n]                              \* mutant
MergedSize(n) == data_size[n] + data_size[Following(n)] + 1

Merge ==
  /\ pc = "search" /\ ~Fits(node) /\ ~IsLast(node) /\ Mergeable(node)
  /\ data_size' = [data_size EXCEPT ![node] = MergedSize(node)]
  /\ nodes' = nodes \ {Following(node)}
  /\ UNCHANGED <<free, pc, node, asked, ret, owned>>

\* One turn of the loop: on to the next node.
Advance ==
  /\ pc = "search" /\ ~Fits(node) /\ ~IsLast(node) /\ ~Mergeable(node)
  /\ node' = Following(node)
  /\ UNCHANGED <<memory, pc, asked, ret, owned, nodes>>

Splits(n) == data_size[n] > Want + 1

LeftWithHeader(n) == data_size[n] - Want                             \* mutant
Left(n) == data_size[n] - Want - 1

NotMarked(n) == free                                                 \* mutant
Marked(n) == [free EXCEPT ![n] = FALSE]

\* The node fits: split it if that leaves room for a node, and mark it used.
Take ==
  /\ pc = "search" /\ Fits(node)
  /\ LET rest == node + 1 + Want IN
     IF Splits(node)
       THEN /\ data_size' = [data_size EXCEPT ![node] = Want, ![rest] = Left(node)]
            /\ free' = [Marked(node) EXCEPT ![rest] = TRUE]
            /\ nodes' = nodes \cup {rest}
       ELSE free' = Marked(node) /\ UNCHANGED <<data_size, nodes>>
  /\ owned' = [owned EXCEPT ![node] = asked]
  /\ Return(node + 1)

Search == GiveUp \/ Merge \/ Advance \/ Take

-----------------------------------------------------------------------------
(* kfree, and the clients: a client frees a block it holds and writes to the  *)
(* bytes it asked for.                                                        *)

Kfree(n) ==
  /\ pc = "idle" /\ owned[n] # 0
  /\ IF free[n]
       THEN pc' = "panic" /\ UNCHANGED <<free, owned>>
       ELSE /\ free' = [free EXCEPT ![n] = TRUE]
            /\ owned' = [owned EXCEPT ![n] = 0]
            /\ UNCHANGED pc
  /\ UNCHANGED <<data_size, node, asked, ret, nodes>>

ClientWrite(n) ==
  /\ pc = "idle" /\ owned[n] # 0
  /\ \E u \in n + 1 .. n + UnitsFor(owned[n]), s \in Scribble, f \in BOOLEAN :
       /\ data_size' = [data_size EXCEPT ![u] = s]
       /\ free' = [free EXCEPT ![u] = f]
  /\ UNCHANGED <<pc, node, asked, ret, owned, nodes>>

Next ==
  \/ \E bytes \in Requests : KmallocReject(bytes) \/ KmallocEnter(bytes)
  \/ Search
  \/ \E n \in Addr : Kfree(n) \/ ClientWrite(n)

Spec == Init /\ [][Next]_vars
\* The loop of kmalloc runs to its end: nothing else runs until it returns.
FairSpec == Spec /\ WF_vars(Search)
-----------------------------------------------------------------------------
(* Properties *)

TypeOK ==
  /\ data_size \in [Addr -> Nat] /\ free \in [Addr -> BOOLEAN]
  /\ pc \in {"idle", "search", "panic"}
  /\ node \in Addr /\ asked \in 0 .. 16 * Units - 1 /\ ret \in Addr
  /\ owned \in [Addr -> 0 .. 16 * Units - 1]
  /\ nodes \subseteq Addr

\* The headers tile the arena: each node has data, ends where the next begins or
\* where the arena does, no header lies inside the data of a node, and no unit is
\* outside every node.
Tiled ==
  /\ 0 \in nodes
  /\ \A a \in Addr : \E n \in nodes : n <= a /\ a < Following(n)
  /\ \A n \in nodes : /\ data_size[n] >= 1
                      /\ Following(n) = Units \/ Following(n) \in nodes
                      /\ \A m \in nodes : m > n => m >= Following(n)

\* The nodes kmalloc's walk reaches by reading the arena are those headers and no
\* others, so the arena stays walkable whatever clients write into their blocks and
\* whatever stale headers merging leaves behind (next_node, kmalloc.c:15-20).
Reached ==
  LET walk[k \in 0 .. Units] ==
        IF k = 0 THEN {0}
        ELSE walk[k - 1] \cup {Following(n) : n \in {m \in walk[k - 1] : ~IsLast(m)}}
  IN  walk[Units]
ArenaIntact == Tiled /\ Reached = nodes

\* A block is held by a client exactly when its node is marked used, and it has the
\* bytes asked for: nothing is handed out twice and nothing is lost to everybody.
BlocksMarked == \A n \in Addr : owned[n] # 0 <=> n \in nodes /\ ~free[n]
BlocksFit == \A n \in Addr : owned[n] # 0 => owned[n] <= 16 * data_size[n]
BlocksSound == BlocksMarked /\ BlocksFit

\* A client that frees only what it holds never meets the panic of kmalloc.c:80-82.
NeverPanics == pc # "panic"

\* kmalloc returns NULL only when it must: no run of units clear of every held block
\* could hold the header and the data (lazy merging in one pass is enough, :46-50).
\* Scanned is why: behind the node looked at, free nodes are too small and apart.
Scanned ==
  pc = "search" =>
    /\ node \in nodes /\ asked \in Requests /\ Valid(asked)
    /\ \A n \in nodes : n < node /\ free[n] => data_size[n] < Want /\ ~free[Following(n)]
NoRoomFor(want) ==
  \A a \in Addr : a + want \in Addr =>
     \E n \in Addr : owned[n] # 0 /\ n <= a + want /\ a <= n + data_size[n]
FailsOnlyWhenFull ==
  [][pc = "search" /\ pc' = "idle" /\ ret' = NULL => NoRoomFor(Want)]_vars

\* kmalloc's loop ends: every turn merges two nodes or moves past one.
KmallocReturns == pc = "search" ~> pc = "idle"

\* The allocator is a Heap: callers' blocks are disjoint, inside the arena and big
\* enough, and no call of kmalloc or kfree changes a byte a client holds.
Blocks(own) == {[at |-> n + 1, bytes |-> own[n]] : n \in {m \in Addr : own[m] # 0}}
UnitsOf(own) == UNION {n + 1 .. n + UnitsFor(own[n]) : n \in {m \in Addr : own[m] # 0}}
Abstract == INSTANCE Heap WITH
  blocks <- Blocks(owned),
  store <- [u \in UnitsOf(owned) |-> <<data_size[u], free[u]>>],
  Contents <- Nat \X BOOLEAN
ImplementsHeap == Abstract!Spec
=============================================================================
