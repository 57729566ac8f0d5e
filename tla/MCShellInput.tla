---------------------------- MODULE MCShellInput ----------------------------
(* A buffer in which one Tab fits, a history of three, so that four wrap.  *)
EXTENDS ShellInput
MCEvents == {"Released", "None", "Char", "Tab", "Backspace", "Enter", "ArrowUp", "ArrowDown"}
=============================================================================
