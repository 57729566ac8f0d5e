----------------------------- MODULE MCTerminal -----------------------------
(* Three columns, two rows on the screen, two more to scroll through.          *)
EXTENDS Terminal
=============================================================================
