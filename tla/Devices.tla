------------------------------- MODULE Devices ------------------------------
(***************************************************************************)
(* The emulator and its devices: the keyboard, the display, the screens    *)
(* and the shapes, the guest that loads a tape, and the power switch,      *)
(* which gives a machine a new keyboard, display and memory.               *)
(*                                                                         *)
(* The devices share no state but through the switch, so a behaviour uses  *)
(* one of them (used) and the switch of its machine, Mine; the screens are *)
(* used by all machines.                                                   *)
(***************************************************************************)
EXTENDS Keyboard, Display, Shapes, Screens, TapeLoader

CONSTANTS Mine, Group

ASSUME DevicesAssumption ==
    /\ Mine \in Emulator
    /\ Group \subseteq {"keyboard", "display", "shapes", "screens", "tape"}

VARIABLE used

vars == <<keyboardVars, displayVars, shapesVars, screensVars, loaderVars, used>>

devices == <<keyboardVars, displayVars>>

\* Emulators other than Mine matter to the screens only; in the other groups
\* the switch is on or off by turns.
May(e, on) == used = "screens" \/ (e = Mine /\ used # "shapes" /\ emulators[e].on = on)

\* Emulator.__init__() with a machine whose devices are new.
Start(e) ==
    /\ May(e, FALSE)
    /\ NewEmulator(e)
    /\ UNCHANGED <<devices, loaderVars, shapesVars, used>>

PowerOff(e) ==
    /\ May(e, TRUE)
    /\ Outside
    /\ power_off(e)
    /\ IF e = Mine THEN LoaderPowerOff ELSE UNCHANGED loaderVars
    /\ UNCHANGED <<devices, shapesVars, used>>

PowerOn(e) ==
    /\ May(e, FALSE)
    /\ power_on(e)
    /\ IF e = Mine THEN KeyboardReset /\ DisplayReset /\ LoaderReset
       ELSE UNCHANGED <<devices, loaderVars>>
    /\ UNCHANGED <<shapesVars, used>>

Exit(e) ==
    /\ used = "screens"
    /\ exit(e)
    /\ UNCHANGED <<devices, loaderVars, shapesVars, used>>

\* A machine that is off still gets its keys, and its guest still runs until
\* the steps it was asked for are done.
UseKeyboard ==
    /\ used = "keyboard"
    /\ emulators[Mine].exists
    /\ KeyboardNext
    /\ UNCHANGED <<displayVars, loaderVars, shapesVars, screensVars, used>>

UseDisplay ==
    /\ used = "display"
    /\ emulators[Mine].exists
    /\ DisplayNext
    /\ UNCHANGED <<keyboardVars, loaderVars, shapesVars, screensVars, used>>

UseShapes ==
    /\ used = "shapes"
    /\ ShapesNext
    /\ UNCHANGED <<devices, loaderVars, screensVars, used>>

UseTape ==
    /\ used = "tape"
    /\ emulators[Mine].exists
    /\ LoaderNext
    /\ UNCHANGED <<devices, shapesVars, screensVars, used>>

Init ==
    /\ used \in Group
    /\ KeyboardInit /\ DisplayInit /\ ShapesInit /\ ScreensInit /\ LoaderInit

Next ==
    \/ \E e \in Emulator : Start(e) \/ PowerOff(e) \/ PowerOn(e) \/ Exit(e)
    \/ UseKeyboard \/ UseDisplay \/ UseShapes \/ UseTape

Spec == Init /\ [][Next]_vars

-----------------------------------------------------------------------------

\* The guest's byte and word accesses agree, although each register has code of
\* its own for either: an aligned word of the keyboard reads as its four bytes
\* do, and what the guest last wrote to the display, as bytes or as a word, is
\* there to be read both ways.
WordsMatchBytes == KeyboardWordsAreBytes /\ ReadsBack
=============================================================================
