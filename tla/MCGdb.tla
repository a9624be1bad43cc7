------------------------------- MODULE MCGdb --------------------------------
(* An instance of Gdb for TLC: registers, memory, breakpoints of a known and *)
(* of an unknown kind, files, commands that raise and one nobody knows; data *)
(* and a file with bytes that are escaped, and data with a ':'.              *)
EXTENDS Gdb

MCPayload == {<<103>>, <<109, 44>>, <<80, 61>>, <<77, 58>>, <<99>>, <<67>>, <<67, 59>>, <<63>>,
              <<90, 48>>, <<122, 57>>, <<68>>, <<112>>, <<107>>, <<72>>, <<113, 67>>, <<113, 63>>,
              <<118, 111>>, <<118, 99, 48>>, <<118, 102, 48>>, <<118, 112, 48>>, <<118, 115>>, <<118, 63>>}
MCData    == {<<35>>, <<125, 36>>, <<42, 36>>, <<58>>}
MCFile    == <<35, 42, 125, 7>>
=============================================================================
