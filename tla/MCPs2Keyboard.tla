--------------------------- MODULE MCPs2Keyboard ---------------------------
(* Both shift keys, the right Ctrl key, whose code is the left one's after    *)
(* E0, and the key of 1 and !; a ring of two events, so that it overflows,    *)
(* and five bytes of keyboard buffer, so that an overrun can follow a partly  *)
(* read code.                                                                 *)
EXTENDS Ps2Keyboard
MCKeys == {[ext |-> FALSE, code |-> "12"], [ext |-> FALSE, code |-> "59"],
           [ext |-> TRUE, code |-> "14"], [ext |-> FALSE, code |-> "16"]}
=============================================================================
