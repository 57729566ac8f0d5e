-------------------------------- MODULE Heap --------------------------------
(* What a caller of kmalloc and kfree may rely on: every block it holds is a   *)
(* run of bytes of its own, at least as long as it asked for, whose contents   *)
(* only it changes.  Nothing is said here of headers, nodes or coalescing.     *)
EXTENDS Integers

CONSTANTS Units,     \* size of the arena, in units of 16 bytes
          Requests,  \* sizes in bytes that callers ask for
          Contents   \* what a unit of memory may hold

VARIABLES blocks,    \* the blocks held: [at |-> first unit, bytes |-> size asked for]
          store      \* the contents of every unit of a held block

Span(b) == b.at .. b.at + (b.bytes - 1) \div 16
Held == UNION {Span(b) : b \in blocks}

Init == blocks = {} /\ store = [u \in {} |-> 0]

\* A new block lies inside the arena, clear of the others; their contents stay.
Alloc == \E at \in 1 .. Units - 1, bytes \in Requests \ {0} :
    LET b == [at |-> at, bytes |-> bytes] IN
    /\ Span(b) \subseteq 1 .. Units - 1
    /\ Span(b) \cap Held = {}
    /\ blocks' = blocks \cup {b}
    /\ DOMAIN store' = Held'
    /\ \A u \in Held : store'[u] = store[u]
    /\ \A u \in Held' : store'[u] \in Contents

Free == \E b \in blocks :
    /\ blocks' = blocks \ {b}
    /\ store' = [u \in Held' |-> store[u]]

Write == \E u \in Held :
    /\ DOMAIN store' = Held
    /\ store'[u] \in Contents
    /\ \A v \in Held \ {u} : store'[v] = store[v]
    /\ UNCHANGED blocks

Next == Alloc \/ Free \/ Write
Spec == Init /\ [][Next]_<<blocks, store>>
=============================================================================
