----------------------------- MODULE MCPs2Mouse -----------------------------
(* The left button and the second extra one, the longest movements and short  *)
(* ones, both ways of the wheel, and a ring that two packets overflow.         *)
EXTENDS Ps2Mouse
MCWheel == {0, -1}
MCMoves == {<<0, 0>>, <<-256, 255>>, <<8, -1>>}
=============================================================================
