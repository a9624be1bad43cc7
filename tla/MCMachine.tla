----------------------------- MODULE MCMachine ------------------------------
(* An instance of Machine for TLC: the main loop, a gdb thread and the tape  *)
(* drive, each of which may or may not use the machine.                      *)
EXTENDS Machine

CONSTANTS main, gdb

MCCaller == {main, gdb}
=============================================================================
