-------------------------------- MODULE Rom ---------------------------------
(***************************************************************************)
(* The boot ROM's interrupt handling (src/boot.S): the handler that puts   *)
(* each interrupt into a ring and the system call that takes them out      *)
(* again and waits for one when the ring is empty, together with the rules *)
(* by which the processor accepts and takes interrupts (init.c, step.c).   *)
(*                                                                         *)
(* The guest's code is cut where an interrupt can come between: IRQs are   *)
(* masked from the SWI on, except around the CDP that waits.  interrupt()  *)
(* is atomic here; module Armv2 has its race with the entry of an IRQ.     *)
(***************************************************************************)
EXTENDS Integers, Sequences

CONSTANTS
    Device,     \* hw_id of the devices that raise interrupts when they like
    Unlocked,   \* those of them that do not wait for the machine's lock, and
                \* so raise interrupts while the processor runs (hardware.py:370)
    Clock,      \* hw_id of the clock, which goes on firing
    RingSize,   \* entries of interrupt_ringbuffer
    Burst       \* most IRQs the processor takes between two instructions of
                \* the code they interrupt

Id == Device \cup {Clock}

ASSUME RomAssumption ==
    /\ RingSize \in Nat \ {0}
    /\ Burst \in Nat
    /\ Unlocked \subseteq Device
    /\ "none" \notin Id

\* What the liveness of wfi needs: the two places where it can be interrupted
\* do not let in enough interrupts to fill the ring.
ASSUME BurstAssumption == 2 * Burst < RingSize

Slot == 0 .. RingSize - 1

VARIABLES
    pin,             \* PIN_I
    last_interrupt,  \* hardware_manager.last_interrupt_id
    waiting,         \* the processor's WAIT flag
    code,            \* where the interrupted code is
    handler,         \* where interrupt_handler is, "none" outside of it
    r8,              \* the id the handler has fetched
    burst,           \* IRQs taken since the last step of "code"
    interrupt_ringbuffer, interrupt_ringbuffer_pos, wfi_ringbuffer_pos,
    returned         \* what wfi last returned, or "none"

cpuVars  == <<pin, last_interrupt, waiting>>
ringVars == <<interrupt_ringbuffer, interrupt_ringbuffer_pos, wfi_ringbuffer_pos>>
vars     == <<cpuVars, code, handler, r8, burst, ringVars, returned>>

\* AND #0xff on a byte offset into the ring.
Wrap(n) == n % RingSize

\* FLAG_I: set by the SWI and by wfi, clear where wfi opens the mask, set
\* again in the handler.
Masked == handler # "none" \/ code \in {"check", "return"}

IrqPending == pin /\ ~Masked

\* The program's or wfi's next instruction is executed: no IRQ is taken and
\* the processor is not waiting.
CodeStep ==
    /\ handler = "none"
    /\ ~IrqPending
    /\ ~waiting
    /\ burst' = 0

\* The instruction masks IRQs, and one may be accepted after run_armv2 looked
\* at the pin and before the instruction masked it.
MaskingStep ==
    /\ CodeStep
    /\ \/ UNCHANGED <<pin, last_interrupt>>
       \/ pin' = TRUE /\ last_interrupt' \in Unlocked
    /\ UNCHANGED waiting

-----------------------------------------------------------------------------
(* The host.                                                               *)

\* interrupt(): dropped unless the pin is off and IRQs are enabled.
interrupt(id) ==
    /\ ~pin
    /\ ~Masked
    /\ burst < Burst
    /\ pin' = TRUE
    /\ last_interrupt' = id
    /\ UNCHANGED <<waiting, code, handler, r8, burst, ringVars, returned>>

\* Mutant of fired: a processor that waits is not told.
fired_NotWaiting == ~waiting /\ interrupt(Clock)

\* Clock.fired(), from the main loop's timer event.
fired == interrupt(Clock)

-----------------------------------------------------------------------------
(* The IRQ and its handler.                                                *)

TakeIrq ==
    /\ IrqPending
    /\ pin' = FALSE
    /\ waiting' = FALSE
    /\ handler' = "fetch"
    /\ burst' = burst + 1
    /\ UNCHANGED <<last_interrupt, code, r8, ringVars, returned>>

\* CDP #interrupt_data and MRC into R8.
FetchData ==
    /\ handler = "fetch"
    /\ r8' = last_interrupt
    /\ handler' = "store"
    /\ UNCHANGED <<cpuVars, code, burst, ringVars, returned>>

\* The stores into the ring and the return.
StoreData ==
    /\ handler = "store"
    /\ interrupt_ringbuffer' = [interrupt_ringbuffer EXCEPT ![interrupt_ringbuffer_pos] = r8]
    /\ interrupt_ringbuffer_pos' = Wrap(interrupt_ringbuffer_pos + 1)
    /\ handler' = "none"
    /\ UNCHANGED <<cpuVars, code, r8, burst, wfi_ringbuffer_pos, returned>>

-----------------------------------------------------------------------------
(* The program and its system call wfi.                                    *)

\* The program does something else.
Compute ==
    /\ code = "program"
    /\ CodeStep
    /\ UNCHANGED <<cpuVars, code, handler, r8, ringVars, returned>>

\* SWI with syscall number 0.
wfi ==
    /\ code = "program"
    /\ MaskingStep
    /\ code' = "check"
    /\ UNCHANGED <<handler, r8, ringVars, returned>>

\* With IRQs masked: is there anything in the ring?  If not, IRQs are enabled.
check_position ==
    /\ code = "check"
    /\ CodeStep
    /\ code' = IF interrupt_ringbuffer_pos # wfi_ringbuffer_pos THEN "return" ELSE "open"
    /\ UNCHANGED <<cpuVars, handler, r8, ringVars, returned>>

\* CDP #wait_for_interrupt, with IRQs enabled.
wait_for_interrupt ==
    /\ code = "open"
    /\ CodeStep
    /\ waiting' = TRUE
    /\ code' = "waited"
    /\ UNCHANGED <<pin, last_interrupt, handler, r8, ringVars, returned>>

\* IRQs are masked again before the ring is looked at.
MaskAgain ==
    /\ code = "waited"
    /\ MaskingStep
    /\ code' = "check"
    /\ UNCHANGED <<handler, r8, ringVars, returned>>

\* Mutant of return_interrupt: the entry is not taken out of the ring.
return_interrupt_Keeps ==
    /\ code = "return"
    /\ CodeStep
    /\ returned' = interrupt_ringbuffer[wfi_ringbuffer_pos]
    /\ code' = "program"
    /\ UNCHANGED <<cpuVars, handler, r8, ringVars>>

return_interrupt ==
    /\ code = "return"
    /\ CodeStep
    /\ returned' = interrupt_ringbuffer[wfi_ringbuffer_pos]
    /\ wfi_ringbuffer_pos' = Wrap(wfi_ringbuffer_pos + 1)
    /\ code' = "program"
    /\ UNCHANGED <<cpuVars, handler, r8, interrupt_ringbuffer, interrupt_ringbuffer_pos>>

Init ==
    /\ pin = FALSE
    /\ last_interrupt = "none"
    /\ waiting = FALSE
    /\ code = "program"
    /\ handler = "none"
    /\ r8 = "none"
    /\ burst = 0
    /\ interrupt_ringbuffer = [i \in Slot |-> "none"]
    /\ interrupt_ringbuffer_pos = 0
    /\ wfi_ringbuffer_pos = 0
    /\ returned = "none"

Irq    == TakeIrq \/ FetchData \/ StoreData
Wfi    == check_position \/ wait_for_interrupt \/ MaskAgain \/ return_interrupt

Next ==
    \/ \E id \in Device : interrupt(id)
    \/ fired
    \/ Irq
    \/ Compute
    \/ wfi
    \/ Wfi

Spec == Init /\ [][Next]_vars

\* The machine goes on stepping the processor, and the clock goes on firing
\* (boot.S sets it to 500 ms).  Nothing is assumed of the other devices.
Fairness == WF_vars(Irq) /\ WF_vars(Wfi) /\ WF_vars(fired)

FairSpec == Spec /\ Fairness

-----------------------------------------------------------------------------
(* Properties.                                                             *)

\* The interrupts that are in the ring, in the handler or at the pin.
Outstanding ==
    [i \in 1 .. Wrap(interrupt_ringbuffer_pos - wfi_ringbuffer_pos) |->
        interrupt_ringbuffer[Wrap(wfi_ringbuffer_pos + i - 1)]]
    \o (IF handler = "store" THEN <<r8>> ELSE <<>>)
    \o (IF handler = "fetch" \/ pin THEN <<last_interrupt>> ELSE <<>>)

Queue == INSTANCE InterruptQueue WITH Capacity <- RingSize, queue <- Outstanding

\* From the pin to the value wait_for_interrupt() returns, through the
\* handler's registers and the ring's two positions, every interrupt that was
\* accepted is handed out once and in order (module InterruptQueue).
InterruptsHandedOut == Queue!Spec

\* wait_for_interrupt() returns.  An interrupt between the check of the ring
\* and the CDP is put into the ring and the processor waits all the same:
\* the clock's next interrupt ends that wait.
WfiReturns == code # "program" ~> code = "program"
=============================================================================
