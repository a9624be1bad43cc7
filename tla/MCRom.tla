------------------------------- MODULE MCRom --------------------------------
(* An instance of Rom for TLC: keyboard, tape drive and clock, and a ring of  *)
(* four entries, which a program that does not wait soon fills.              *)
EXTENDS Rom

CONSTANTS kbd, tape, clock

MCDevice == {kbd, tape}
MCUnlocked == {tape}
=============================================================================
