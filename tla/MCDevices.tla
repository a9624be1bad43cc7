------------------------------ MODULE MCDevices -----------------------------
(* An instance of Devices for TLC.                                           *)
EXTENDS Devices

\* A font of which only glyph 1 has any dots, a different row each.
MCPetscii == [g \in 0 .. 3 |-> IF g = 1 THEN [r \in 1 .. 8 |-> 10 + r] ELSE [r \in 1 .. 8 |-> 0]]

MCWord == {<<1, 3, 2, 1>>}

\* Two functions of the OS, a and b, of which b comes first in the table.
MCOsSymbols == << <<20, <<98>>>>, <<16, <<97>>>> >>

Rel(type, offset, sym) == [type |-> type, offset |-> offset, sym |-> sym]

\* A program that calls b, points behind its own c and has a mapping symbol.
MCCaller ==
    [name |-> <<76, 79, 65, 68, 69>>, addr |-> 258, data |-> <<0, 0, 0, 0, 1, 0, 0, 0>>,
     table |-> << <<0, <<98>>>>, <<262, <<99>>>>, <<258, <<109>>>>, <<259, <<36>>>> >>,
     rels |-> <<Rel("JUMP_SLOT", 0, 1), Rel("ABS32", 4, 2)>>]

\* One that points into the OS, has a bx lr and is not made of whole words.
MCPointer ==
    [name |-> <<80>>, addr |-> 266, data |-> <<2, 0, 0, 0, 30, 255, 47, 225, 5>>,
     table |-> << <<270, <<100>>>>, <<266, <<109>>>>, <<0, <<97>>>> >>,
     rels |-> <<Rel("ABS32", 0, 3)>>]

\* One that has but main.
MCSmall ==
    [name |-> <<83>>, addr |-> 258, data |-> <<9, 0, 0, 0>>,
     table |-> << <<258, <<109>>>> >>, rels |-> <<>>]

\* One that defines a, as the OS does, and fills the table of symbols.
MCFull ==
    [name |-> <<70>>, addr |-> 258, data |-> <<0, 0, 0, 0, 0, 0, 0, 0>>,
     table |-> << <<262, <<97>>>>, <<258, <<109>>>>, <<260, <<101, 101>>>> >>,
     rels |-> <<Rel("JUMP_SLOT", 0, 1), Rel("ABS32", 4, 1)>>]

\* One that calls what nobody has defined.
MCUndefined ==
    [name |-> <<85>>, addr |-> 258, data |-> <<0, 0, 0, 0>>,
     table |-> << <<0, <<122>>>>, <<258, <<109>>>> >>, rels |-> <<Rel("JUMP_SLOT", 0, 1)>>]

MCTape == <<[loader |-> <<MCCaller>>, bins |-> << <<7>> >>, program |-> MCPointer],
            [loader |-> <<MCSmall>>, bins |-> <<>>, program |-> MCPointer],
            [loader |-> <<MCFull>>, bins |-> <<>>, program |-> MCPointer],
            [loader |-> <<>>, bins |-> <<>>, program |-> MCUndefined]>>
=============================================================================
