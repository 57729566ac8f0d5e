----------------------------- MODULE MCPs2Queue -----------------------------
(* The usual machine, one with the mouse alone, and one with two mice, which  *)
(* has the longest setup: twenty commands.                                    *)
EXTENDS Ps2Queue
Ports2(a, b) == [d \in Ports |-> IF d = 0 THEN a ELSE b]
MCSetups == {Ports2("keyboard", "mouse"), Ports2("none", "mouse"), Ports2("mouse", "mouse")}
=============================================================================
