------------------------------- MODULE Screens ------------------------------
(***************************************************************************)
(* The screens that emulated machines are drawn on: CrtBuffer of           *)
(* drawing/opengl.py lends them out, Display takes one when it is made and *)
(* gives it back when it is powered down, and Emulator makes displays,     *)
(* powers them down and replaces them.                                     *)
(***************************************************************************)
EXTENDS Integers, Sequences, SequencesExt

CONSTANTS
    Emulator,      \* machines that share the window
    GridNum        \* GRID_NUM: screens in a row of the texture, 5

ASSUME ScreensAssumption == GridNum \in Nat \ {0}

VARIABLES
    available,     \* CrtBuffer.available: numbers of screens
    emulators,     \* per machine: whether it exists, is powered on, its screen
    lost,          \* history: screens that were not given back
    twice          \* history: a machine that was off was powered off

screensVars == <<available, emulators, lost, twice>>

max     == GridNum * GridNum - 1
Nowhere == <<>>

Point(index)   == <<index % GridNum, index \div GridNum>>
IndexOf(point) == point[1] + point[2] * GridNum

\* CrtBuffer.get(), put(): the screen that was given back last is lent first.
CanGet == available # <<>>
get    == Point(Head(available))

\* Mutant of put: the row is dropped.
put_NoRow(point) == <<point[1]>> \o available

put(point) == <<IndexOf(point)>> \o available

\* Emulator.__init__() raises if there is no screen.
NewEmulator(e) ==
    /\ ~emulators[e].exists
    /\ CanGet
    /\ emulators' = [emulators EXCEPT ![e] = [exists |-> TRUE, on |-> TRUE, screen |-> get]]
    /\ available' = Tail(available)
    /\ UNCHANGED <<lost, twice>>

\* Display.power_down() gives the screen back and goes on naming it.
power_off(e) ==
    /\ emulators[e].exists
    /\ available' = put(emulators[e].screen)
    /\ Len(available) < max     \* bound: a machine may be powered off for ever
    /\ emulators' = [emulators EXCEPT ![e].on = FALSE]
    /\ twice' = (twice \/ ~emulators[e].on)
    /\ UNCHANGED lost

\* The new machine's display takes a screen before the old machine goes; if
\* there is none, all stays as it was.  A machine that is on is not powered
\* down first, and its screen is lost.
power_on(e) ==
    /\ emulators[e].exists
    /\ CanGet
    /\ emulators' = [emulators EXCEPT ![e] = [exists |-> TRUE, on |-> TRUE, screen |-> get]]
    /\ available' = Tail(available)
    /\ lost' = IF emulators[e].on THEN lost \cup {IndexOf(emulators[e].screen)} ELSE lost
    /\ UNCHANGED twice

\* Emulator.__exit__() deletes the machine and leaves its display alone.
exit(e) ==
    /\ emulators[e].exists
    /\ emulators' = [emulators EXCEPT ![e] = [exists |-> FALSE, on |-> FALSE, screen |-> Nowhere]]
    /\ lost' = IF emulators[e].on THEN lost \cup {IndexOf(emulators[e].screen)} ELSE lost
    /\ UNCHANGED <<available, twice>>

ScreensInit ==
    /\ available = [i \in 1 .. max |-> i - 1]
    /\ emulators = [e \in Emulator |-> [exists |-> FALSE, on |-> FALSE, screen |-> Nowhere]]
    /\ lost = {}
    /\ twice = FALSE

-----------------------------------------------------------------------------

\* Each screen is in one place: to be had, with one machine that is on, or
\* lost.  So no two machines that are on are drawn on the same screen, also
\* when they are powered off and on in any order, provided that no machine is
\* powered off twice in a row.  A machine that is off has no screen of its own:
\* it goes on being drawn from the one it gave back, which is to be had by any
\* machine at once, although a comment in power_down() says that it "won't be
\* reused until this screen is cancelled".
ScreensAccounted ==
    ~twice =>
        LET on == {e \in Emulator : emulators[e].on}
            taken == {IndexOf(emulators[e].screen) : e \in on}
        IN  /\ IsInjective(available)
            /\ \A e, f \in on : emulators[e].screen = emulators[f].screen => e = f
            /\ ToSet(available) \cup taken \cup lost = 0 .. max - 1
            /\ ToSet(available) \cap (taken \cup lost) = {}
            /\ taken \cap lost = {}
=============================================================================
