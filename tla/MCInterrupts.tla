---------------------------- MODULE MCInterrupts ----------------------------
(* The three devices the kernel serves.  Noise on a line of the master ends in *)
(* spurious interrupt 7; noise on one of the slave, in the other run, in 15.   *)
EXTENDS Interrupts
=============================================================================
