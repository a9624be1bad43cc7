----------------------------- MODULE MCDebugger -----------------------------
(* An instance of Debugger for TLC.                                          *)
EXTENDS Debugger

CONSTANT a1

MCAddr == {a1}
=============================================================================
