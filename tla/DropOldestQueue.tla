--------------------------- MODULE DropOldestQueue ---------------------------
(* What the readers of input events may rely on: a queue in order of arrival,  *)
(* of bounded length, that makes room by dropping its oldest entries.          *)
EXTENDS Sequences, Naturals

CONSTANTS Events,  \* what may be queued
          Size,    \* the most entries held
          Batch,   \* the most that arrive at once
          None     \* what a reader gets from an empty queue

VARIABLES q,       \* the entries, oldest first
          out      \* what the reader got last

Init == q = <<>> /\ out = None

\* Up to Batch events arrive together; if they do not fit, as many of the oldest go first.
Arrive == \E n \in 1 .. Batch :
    LET kept == IF Len(q) + n > Size THEN SubSeq(q, n + 1, Len(q)) ELSE q IN
    /\ Len(q') = Len(kept) + n /\ SubSeq(q', 1, Len(kept)) = kept
    /\ \A i \in Len(kept) + 1 .. Len(q') : q'[i] \in Events
    /\ UNCHANGED out

Get == q # <<>> /\ out' = Head(q) /\ q' = Tail(q)
GetNone == q = <<>> /\ out' = None /\ UNCHANGED q

Next == Arrive \/ Get \/ GetNone
Spec == Init /\ [][Next]_<<q, out>>
=============================================================================
