------------------------------ MODULE MCArmv2 -------------------------------
(* Instances of Armv2 for TLC: pages of eight words, so that the vectors     *)
(* fill page 0 and the guest's code and data share the pages after it.       *)
EXTENDS Armv2

CONSTANTS d1, kbd, tape

MCNoDevice == {}
MCOneDevice == {d1}
MCSources == {kbd, tape}
MCLocked == {kbd}
MCTape == {tape}
MCBudget == {-1, 2}
=============================================================================
