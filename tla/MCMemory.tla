------------------------------ MODULE MCMemory ------------------------------
(* Instances of Memory for TLC: a handful of pages, with the ROM, symbol and *)
(* device areas next to each other and less RAM than pages.                  *)
EXTENDS Memory

CONSTANTS d1, d2

MCDevice == {d1, d2}
=============================================================================
