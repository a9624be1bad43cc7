------------------------------- MODULE Armv2 --------------------------------
(***************************************************************************)
(* The processor: one call of run_armv2 (step.c) is a sequence of steps,   *)
(* one per turn of its loop, interleaved with what other host threads do   *)
(* to the same struct armv2 through init.c: interrupt(), the breakpoint    *)
(* and watchpoint masks, and the debugger's register writes (armv2.pyx).   *)
(* run_armv2 runs without Python's global interpreter lock (armv2.pyx:368) *)
(* and every other call holds it, so those calls exclude each other and    *)
(* the entry of run_armv2, but none of its steps.                          *)
(*                                                                         *)
(* Kept: the mode, the I and F flags, the register bank pointers, the      *)
(* interrupt pins, the processor's own flags, the program counter, the     *)
(* exception vectors, the instruction budget and the memory of module      *)
(* Memory.  Left out: register contents, the condition flags and           *)
(* instruction encodings.  An instruction is any outcome its handler       *)
(* (instructions.c) has for some register contents, so a behaviour of      *)
(* this module is a run of an arbitrary guest program.                     *)
(***************************************************************************)
EXTENDS Memory

CONSTANTS
    WordsPerPage,   \* words in a page
    DataAddr,       \* word addresses the guest's loads and stores use
    PcValue,        \* word addresses the guest loads into the PC
    Breakable,      \* word addresses the debugger sets breakpoints at
    Watchable,      \* word addresses the debugger watches
    MaxTransfer,    \* most registers of one LDM or STM
    Budget,         \* values run_armv2 is called with (-1: run forever)
    Source,         \* hw_id values passed to interrupt()
    Locked,         \* the sources that hold the machine's lock, which the
                    \* thread that runs the processor holds too (hardware.py)
    FiqLine,        \* TRUE when something on the host asserts PIN_F
    DebugPc         \* word addresses the debugger writes into the PC

USR == 0
FIQ == 1
IRQ == 2
SUP == 3
Mode == {USR, FIQ, IRQ, SUP}

\* What r15 holds besides the PC and the condition flags.
Psr == [mode : Mode, I : BOOLEAN, F : BOOLEAN]

NumAddr   == NUM_PAGE_TABLES * WordsPerPage
Addr      == 0 .. NumAddr - 1
PageOf(a) == a \div WordsPerPage

ASSUME Armv2Assumption ==
    /\ WordsPerPage \in Nat \ {0}
    /\ DataAddr \subseteq Addr
    /\ PcValue \subseteq Addr
    /\ Breakable \subseteq Addr
    /\ Watchable \subseteq Addr
    /\ MaxTransfer \in 0 .. WordsPerPage
    /\ Budget \subseteq Nat \cup {-1}
    /\ FiqLine \in BOOLEAN
    /\ DebugPc \subseteq Addr
    /\ Locked \subseteq Source
    /\ Source \cap {"none", "BREAK", "READ", "WRITE"} = {}

\* g_vector_table, in words.
Vector == [SOFTWARE_INTERRUPT |-> 2, PREFETCH_ABORT |-> 3, DATA_ABORT |-> 4,
           ADDRESS |-> 5, IRQ |-> 6, FIQ |-> 7]

ASSUME VectorAssumption == NumAddr > 7

Exception == {"NONE", "BREAKPOINT", "SOFTWARE_INTERRUPT", "PREFETCH_ABORT",
              "DATA_ABORT", "ADDRESS"}
\* What run_armv2 returned, or where it is: at the top of its loop, or
\* between clearing the interrupt pin and masking interrupts.
Status == {"OK", "WAIT_FOR_INTERRUPT", "BREAKPOINT", "RUNNING", "IRQ_ENTRY", "CRASHED"}
AllMasks == {"BREAK", "READ", "WRITE"}

VARIABLES
    r15,           \* mode and interrupt masks: regs.actual[PC]
    effective,     \* regs.effective: physical register behind each number
    pc,            \* cpu->pc: one word before the next instruction
    pins,          \* cpu->pins
    flags,         \* cpu->flags: WAIT and WATCHPOINT
    breakpoints,   \* words set in breakpoint_bitmask
    watchpoints,   \* words set in watchpoint_bitmask, by type of access
    masks,         \* the bit masks that are mapped: BREAK, READ, WRITE
    instructions,  \* what is left of run_armv2's budget
    status,        \* where run_armv2 is or what it last returned
    last_interrupt,\* hardware_manager.last_interrupt_id
    call,          \* the call in progress under the interpreter lock: the
                   \* hw_id of an interrupt() past its check, the mask that
                   \* is being reset, or "none"
    service        \* history: hw_id whose IRQ entry still masks I, or "none"

cpuVars  == <<r15, effective, pc, pins, flags, instructions, status, service>>
dbgVars  == <<breakpoints, watchpoints, masks>>
intrVars == <<last_interrupt, call>>
vars     == <<cpuVars, dbgVars, intrVars, memVars>>

\* cpu->pc is only used modulo the 26 bit address space.
Succ(a) == IF a = NumAddr - 1 THEN 0 ELSE a + 1
Pred(a) == IF a = 0 THEN NumAddr - 1 ELSE a - 1

-----------------------------------------------------------------------------
(* Register banks.                                                         *)

Reg      == 0 .. 15    \* NUM_EFFECTIVE_REGS
Physical == 0 .. 26    \* NUMREGS

\* Mutant of Bank: the offset within the supervisor's bank is forgotten.
Bank_NoOffset(m) ==
    [i \in Reg |-> IF m = SUP /\ i \in 13 .. 14 THEN 16
                   ELSE IF m = IRQ /\ i \in 13 .. 14 THEN i + 5
                   ELSE IF m = FIQ /\ i \in 8 .. 14 THEN i + 12
                   ELSE i]

\* The bank a mode is meant to see: supervisor and IRQ mode have their own
\* r13 and r14, FIQ mode its own r8 to r14.
Bank(m) ==
    [i \in Reg |-> IF m = SUP /\ i \in 13 .. 14 THEN i + 3
                   ELSE IF m = IRQ /\ i \in 13 .. 14 THEN i + 5
                   ELSE IF m = FIQ /\ i \in 8 .. 14 THEN i + 12
                   ELSE i]

\* Mutant of rebank: leaving FIQ mode does not restore r8 to r12.
rebank_KeepsFiq(eff, old, new) ==
    [i \in Reg |-> IF i \in (IF new = FIQ THEN 8 .. 14 ELSE 13 .. 14) THEN Bank(new)[i] ELSE eff[i]]

\* The loops that bank registers after a change of mode: leaving FIQ mode
\* restores r8 upwards, then the new mode's own registers are put in place.
rebank(eff, old, new) ==
    LET base == [i \in Reg |-> IF old = FIQ /\ i >= 8 THEN i ELSE eff[i]]
        own  == IF new = FIQ THEN 8 .. 14 ELSE 13 .. 14
    IN  [i \in Reg |-> IF i \in own THEN Bank(new)[i] ELSE base[i]]

-----------------------------------------------------------------------------
(* Instruction handlers.  Each maps the state before the instruction to    *)
(* the set of its outcomes: the exception returned, r15, cpu->pc, the      *)
(* memory and the device regions afterwards, whether WATCHPOINT or WAIT is *)
(* raised, and whether the host process dies of an invalid pointer.        *)

Effect == [exception : Exception, r15 : Psr, pc : Addr, mem : Mem,
           mapped : [Device -> Region],
           watch : BOOLEAN, wait : BOOLEAN, crash : BOOLEAN]

Before(m) == [exception |-> "NONE", r15 |-> r15, pc |-> Succ(pc), mem |-> m,
              mapped |-> mapped, watch |-> FALSE, wait |-> FALSE, crash |-> FALSE]

User(b) == b.r15.mode = USR
Raise(b, ex) == [b EXCEPT !.exception = ex]

\* HAS_READ_WATCHPOINT and HAS_WRITE_WATCHPOINT on the words transferred.
Watch(c, type, words) ==
    [c EXCEPT !.watch = words \cap watchpoints[type] # {},
              !.crash = words # {} /\ type \notin masks]

\* The outcomes of writing a value to the PC without its flags.
SetPc(b) == {[b EXCEPT !.pc = Pred(v)] : v \in PcValue}

\* The outcomes of writing a whole word to r15: user mode keeps the
\* protected bits.
SetR15(b) ==
    UNION {SetPc([b EXCEPT !.r15 = w]) : w \in IF User(b) THEN {b.r15} ELSE Psr}

alu_instruction(b) == {b} \cup SetPc(b) \cup SetR15(b)

multiply_instruction(b) == {b}

branch_instruction(b) == SetPc(b)

\* Mutant of MayStore: the last word of a transfer is not looked at.
MayStore_AllButLast(b, words) ==
    \A a \in words : (\E w \in words : w > a) => Permitted(PageOf(a), User(b), TRUE)

\* The store of these words is permitted.
MayStore(b, words) == \A a \in words : Permitted(PageOf(a), User(b), TRUE)

\* The transfer of some words, once their pages have been touched (t).
perform_load(b, t, words)  == Watch([b EXCEPT !.mem = t.mem], "READ", words)
perform_store(b, t, words) ==
    Watch([b EXCEPT !.mem = IF \E a \in words : PageOf(a) = 0 THEN stored(t.mem, 0) ELSE t.mem],
          "WRITE", words)

\* LDR or STR of word d: the page cannot be populated, the access is
\* misaligned or forbidden, or the transfer, whose destination or write back
\* register may be the PC.
SingleTransfer(b, d, t) ==
    LET load  == perform_load(b, t, {d})
        store == perform_store(b, t, {d})
    IN  {Raise([b EXCEPT !.mem = t.mem], "DATA_ABORT")}
        \cup (IF t.ok THEN {load} \cup SetPc(load) ELSE {})
        \cup (IF t.ok /\ MayStore(b, {d}) THEN {store} \cup SetPc(store) ELSE {})

\* LDR and STR: an address outside 26 bits is an exception of its own.
single_data_transfer_instruction(b) ==
    {Raise(b, "ADDRESS")} \cup
    UNION {UNION {SingleTransfer(b, d, t) : t \in touch(b.mem, PageOf(d))} : d \in DataAddr}

\* The pages of the words d .. d + n - 1 populated in order: the memory, the
\* words reached before a page could not be populated, and success.
touchRange(m, d, n) ==
    LET last == d + n - 1
    IN  UNION {IF ~t.ok THEN {[mem |-> t.mem, words |-> {}, ok |-> FALSE]}
               ELSE IF PageOf(last) = PageOf(d)
               THEN {[mem |-> t.mem, words |-> d .. last, ok |-> TRUE]}
               ELSE {[mem |-> u.mem, ok |-> u.ok,
                      words |-> IF u.ok THEN d .. last
                                ELSE {a \in d .. last : PageOf(a) = PageOf(d)}]
                     : u \in touch(t.mem, PageOf(last))}
               : t \in touch(m, PageOf(d))}

\* LDM or STM of n registers from word d upwards, within the address space.
\* A page that cannot be populated ends the instruction after the words
\* before it were transferred; a misaligned base aborts without any transfer.
\* LDM may end with the PC, with or without the flags.
MultiTransfer(b, t) ==
    LET load  == perform_load(b, t, t.words)
        store == perform_store(b, t, t.words)
    IN  {Raise([b EXCEPT !.mem = t.mem], "DATA_ABORT")}
        \cup (IF t.ok THEN {load} \cup SetPc(load) \cup SetR15(load) ELSE {Raise(load, "DATA_ABORT")})
        \cup (IF ~MayStore(b, t.words) THEN {}
              ELSE IF t.ok THEN {store} ELSE {Raise(store, "DATA_ABORT")})

\* Only the first address is checked against the 26 bits, so the transfer can
\* run off the end of page_tables.
Overrun(b, t) ==
    {Raise([b EXCEPT !.mem = t.mem], "DATA_ABORT")}
    \cup (IF t.ok THEN {[b EXCEPT !.mem = t.mem, !.crash = TRUE]} ELSE {})

TransferFrom(b, d, n) ==
    IF d + n - 1 < NumAddr
    THEN UNION {MultiTransfer(b, t) : t \in touchRange(b.mem, d, n)}
    ELSE UNION {Overrun(b, t) : t \in touch(b.mem, PageOf(d))}

multi_data_transfer_instruction(b) ==
    {b, Raise(b, "ADDRESS")}
    \cup UNION {TransferFrom(b, d, n) : d \in DataAddr, n \in 1 .. MaxTransfer}

\* SWP of word d: a load and a store.  The byte form reads the page's memory
\* directly, and a device page has none.
Swap(b, d, t) ==
    LET swp == [b EXCEPT !.mem = IF PageOf(d) = 0 THEN stored(t.mem, 0) ELSE t.mem,
                         !.watch = d \in watchpoints["READ"] \cup watchpoints["WRITE"],
                         !.crash = \/ "WRITE" \notin masks
                                   \/ d \notin watchpoints["WRITE"] /\ "READ" \notin masks]
    IN  {Raise([b EXCEPT !.mem = t.mem], "DATA_ABORT")}
        \cup (IF t.ok /\ MayStore(b, {d}) THEN {swp} \cup SetPc(swp) ELSE {})
        \cup (IF t.ok /\ MayStore(b, {d}) /\ t.mem.page_tables[PageOf(d)] \in Device
              THEN {[swp EXCEPT !.crash = TRUE]} ELSE {})

swap_instruction(b) ==
    {Raise(b, "ADDRESS")} \cup
    UNION {UNION {Swap(b, d, t) : t \in touch(b.mem, PageOf(d))} : d \in DataAddr}

software_interrupt_instruction(b) ==
    {Raise(b, "SOFTWARE_INTERRUPT"), Raise(b, "BREAKPOINT")}

coprocessor_data_transfer_instruction(b) == {b}

\* The 2 bit mode fields ORed together.
OrMode(m, n) == IF m = n \/ n = USR THEN m ELSE IF m = USR THEN n ELSE SUP

\* MRC into r15: SETPSR clears the flags and ORs in the whole register.
hw_manager_register_transfer(b) ==
    {b} \cup {[b EXCEPT !.r15 = [w EXCEPT !.mode = OrMode(b.r15.mode, w.mode)]] : w \in Psr}

\* The MAP_MEMORY operation.
MapOperation(b, n, s, e) ==
    {[b EXCEPT !.mem = o.mem, !.mapped = o.mapped] : o \in map_memory(b.mem, b.mapped, n, s, e)}

\* Mutant of hw_manager_data_operation: a wait starts whatever is masked.
hw_manager_data_operation_AlwaysWaits(b) == {b, [b EXCEPT !.wait = TRUE]}

\* CDP of the hardware manager: WAIT_FOR_INTERRUPT, MAP_MEMORY, whose status
\* is not reported to the guest, and the operations that only move data.
hw_manager_data_operation(b) ==
    {b, [b EXCEPT !.wait = ~b.r15.I /\ ~b.r15.F]}
    \cup UNION {MapOperation(b, n, s, e) : n \in 1 .. Len(hardware_devices), s, e \in Page}

\* The handlers the decoder of run_armv2 chooses from.
Outcomes(b) ==
    alu_instruction(b) \cup multiply_instruction(b) \cup branch_instruction(b)
    \cup single_data_transfer_instruction(b) \cup multi_data_transfer_instruction(b)
    \cup swap_instruction(b) \cup software_interrupt_instruction(b)
    \cup coprocessor_data_transfer_instruction(b)
    \cup hw_manager_register_transfer(b) \cup hw_manager_data_operation(b)

-----------------------------------------------------------------------------
(* run_armv2.                                                              *)

HostAlive == stage = "loaded" /\ status # "CRASHED"
Inside    == status \in {"RUNNING", "IRQ_ENTRY"}

\* Entering the function with a budget.
run_armv2(n) ==
    /\ HostAlive
    /\ ~Inside
    /\ call = "none"
    /\ status' = "RUNNING"
    /\ instructions' = n
    /\ UNCHANGED <<r15, effective, pc, pins, flags, service, dbgVars, intrVars, memVars>>

\* The two returns at the top of the loop.
ReturnOk ==
    /\ status = "RUNNING"
    /\ instructions = 0
    /\ status' = "OK"
    /\ UNCHANGED <<r15, effective, pc, pins, flags, instructions, service,
                   dbgVars, intrVars, memVars>>

\* Mutant of Parked: the IRQ pin is not looked at.
Parked_IgnoresIrq == "WAIT" \in flags /\ "F" \notin pins

Parked == "WAIT" \in flags /\ pins = {}

ReturnWait ==
    /\ status = "RUNNING"
    /\ instructions # 0
    /\ Parked
    /\ status' = "WAIT_FOR_INTERRUPT"
    /\ UNCHANGED <<r15, effective, pc, pins, flags, instructions, service,
                   dbgVars, intrVars, memVars>>

\* Mutants of Turn: the last instruction of the budget is never used up; the
\* budget of a run without end is counted down too.
Turn_KeepsLast ==
    /\ status = "RUNNING"
    /\ instructions # 0
    /\ ~Parked
    /\ instructions' = IF instructions > 1 THEN instructions - 1 ELSE instructions

Turn_CountsForever ==
    /\ status = "RUNNING"
    /\ instructions # 0
    /\ ~Parked
    /\ instructions' = instructions - 1

\* A turn of the loop gets past the returns and uses up an instruction.
Turn ==
    /\ status = "RUNNING"
    /\ instructions # 0
    /\ ~Parked
    /\ instructions' = IF instructions > 0 THEN instructions - 1 ELSE instructions

\* The IRQ that last_interrupt describes is being serviced until I is clear.
ServiceAfter(w) == IF w.I THEN service ELSE "none"

FiqPending == ~r15.F /\ "F" \in pins
IrqPending == ~FiqPending /\ ~r15.I /\ "I" \in pins

TakeFiq ==
    /\ Turn
    /\ FiqPending
    /\ r15' = [mode |-> FIQ, I |-> TRUE, F |-> TRUE]
    /\ effective' = [i \in Reg |-> IF i \in 8 .. 14 THEN 20 + (i - 8) ELSE effective[i]]
    /\ pc' = Pred(Vector.FIQ)
    /\ UNCHANGED <<pins, flags, status, service, dbgVars, intrVars, memVars>>

\* Taking an IRQ clears the pin ...
TakeIrq ==
    /\ Turn
    /\ IrqPending
    /\ r15' = [r15 EXCEPT !.mode = IRQ]
    /\ pins' = pins \ {"I"}
    /\ service' = last_interrupt
    /\ status' = "IRQ_ENTRY"
    /\ UNCHANGED <<effective, pc, flags, dbgVars, intrVars, memVars>>

\* ... and then masks IRQs, ends a wait and goes to the vector.
MaskIrq ==
    /\ status = "IRQ_ENTRY"
    /\ r15' = [r15 EXCEPT !.I = TRUE]
    /\ effective' = [i \in Reg |-> IF i \in 8 .. 12 THEN i
                                   ELSE IF i \in 13 .. 14 THEN 18 + (i - 13)
                                   ELSE effective[i]]
    /\ flags' = flags \ {"WAIT"}
    /\ pc' = Pred(Vector.IRQ)
    /\ status' = "RUNNING"
    /\ UNCHANGED <<pins, instructions, service, dbgVars, intrVars, memVars>>

\* The label handle_exception.  A breakpoint stops the emulator, unless the
\* budget is unlimited, when it becomes a software interrupt; any other
\* exception enters supervisor mode at its vector; then the registers are
\* banked if the mode has changed since the start of the turn.
handle_exception(ex, e) ==
    LET stop == ex = "BREAKPOINT" /\ instructions' # -1
        exc  == IF ex = "BREAKPOINT" THEN "SOFTWARE_INTERRUPT" ELSE ex
        w    == IF ex = "NONE" \/ stop THEN e.r15
                ELSE [mode |-> SUP, I |-> TRUE, F |-> FALSE]
    IN  /\ r15' = w
        /\ pc' = IF ex = "NONE" THEN e.pc
                 ELSE IF stop THEN Pred(e.pc) ELSE Pred(Vector[exc])
        /\ status' = IF stop THEN "BREAKPOINT" ELSE status
        /\ effective' = IF stop \/ w.mode = r15.mode THEN effective
                        ELSE rebank(effective, r15.mode, w.mode)
        /\ service' = ServiceAfter(w)
        /\ mem' = e.mem
        /\ mapped' = e.mapped

Crash ==
    /\ status' = "CRASHED"
    /\ UNCHANGED <<r15, effective, pc, pins, flags, service, dbgVars, intrVars, memVars>>

\* No interrupt is taken, so the instruction at Succ(pc) is looked up.
FetchTurn == Turn /\ ~FiqPending /\ ~IrqPending

\* The page of the instruction is populated, or there is a prefetch abort.
\* A device page has no memory to read the instruction from.
PrefetchAbort ==
    /\ FetchTurn
    /\ \E t \in touch(mem, PageOf(Succ(pc))) :
          ~t.ok /\ handle_exception("PREFETCH_ABORT", Before(t.mem))
    /\ UNCHANGED <<pins, flags, dbgVars, intrVars, hardware_devices, stage>>

FetchCrash ==
    /\ FetchTurn
    /\ \E t \in touch(mem, PageOf(Succ(pc))) :
          /\ t.ok
          /\ \/ "BREAK" \notin masks
             \/ /\ Succ(pc) \notin breakpoints
                /\ t.mem.page_tables[PageOf(Succ(pc))] \in Device
    /\ Crash

Fetched(t) == t.ok /\ "BREAK" \in masks /\ t.mem.page_tables[PageOf(Succ(pc))] \notin Device

\* Mutant of HitBreakpoint: the PC has moved on to the next instruction.
HitBreakpoint_Skips ==
    /\ FetchTurn
    /\ "BREAK" \in masks
    /\ Succ(pc) \in breakpoints
    /\ \E t \in touch(mem, PageOf(Succ(pc))) :
          t.ok /\ handle_exception("BREAKPOINT", [Before(t.mem) EXCEPT !.pc = Succ(@)])
    /\ UNCHANGED <<pins, flags, dbgVars, intrVars, hardware_devices, stage>>

HitBreakpoint ==
    /\ FetchTurn
    /\ "BREAK" \in masks
    /\ Succ(pc) \in breakpoints
    /\ \E t \in touch(mem, PageOf(Succ(pc))) :
          t.ok /\ handle_exception("BREAKPOINT", Before(t.mem))
    /\ UNCHANGED <<pins, flags, dbgVars, intrVars, hardware_devices, stage>>

\* The condition of the instruction does not hold.
SkipInstruction ==
    /\ FetchTurn
    /\ Succ(pc) \notin breakpoints
    /\ \E t \in touch(mem, PageOf(Succ(pc))) : Fetched(t) /\ mem' = t.mem
    /\ pc' = Succ(pc)
    /\ UNCHANGED <<r15, effective, pins, flags, status, service, dbgVars, intrVars,
                   hardware_devices, mapped, stage>>

\* After the handler: a raised WATCHPOINT flag stops the emulator like a
\* breakpoint, but only if the handler returned no exception of its own.
AfterHandler(e) ==
    LET watching == "WATCHPOINT" \in flags \/ e.watch
        trapped  == watching /\ e.exception = "NONE"
    IN  /\ handle_exception(IF trapped THEN "BREAKPOINT" ELSE e.exception, e)
        /\ flags' = (flags \ {"WATCHPOINT"})
                    \cup (IF watching /\ ~trapped THEN {"WATCHPOINT"} ELSE {})
                    \cup (IF e.wait THEN {"WAIT"} ELSE {})

ExecuteInstruction ==
    /\ FetchTurn
    /\ Succ(pc) \notin breakpoints
    /\ \E t \in touch(mem, PageOf(Succ(pc))) :
          /\ Fetched(t)
          /\ \E e \in Outcomes(Before(t.mem)) : ~e.crash /\ AfterHandler(e)
    /\ UNCHANGED <<pins, dbgVars, intrVars, hardware_devices, stage>>

ExecuteCrash ==
    /\ FetchTurn
    /\ Succ(pc) \notin breakpoints
    /\ \E t \in touch(mem, PageOf(Succ(pc))) :
          Fetched(t) /\ \E e \in Outcomes(Before(t.mem)) : e.crash
    /\ Crash

CpuStep ==
    \/ ReturnOk \/ ReturnWait \/ TakeFiq \/ TakeIrq \/ MaskIrq
    \/ PrefetchAbort \/ FetchCrash \/ HitBreakpoint \/ SkipInstruction
    \/ ExecuteInstruction \/ ExecuteCrash

-----------------------------------------------------------------------------
(* What other host threads do to the processor.  Only interrupt() on       *)
(* behalf of a Locked source waits for run_armv2 to return: the tape drive *)
(* calls interrupt() and the debugger the mask functions without the lock. *)

HostCall == HostAlive /\ call = "none"

\* Mutant of InterruptCheck: masked interrupts are not dropped.
InterruptCheck_Masked(hw_id) ==
    /\ HostCall
    /\ hw_id \in Locked => ~Inside
    /\ "I" \notin pins
    /\ call' = hw_id
    /\ UNCHANGED <<cpuVars, dbgVars, last_interrupt, memVars>>

\* interrupt(): the request is dropped unless the pin is off and interrupts
\* are enabled ...
InterruptCheck(hw_id) ==
    /\ HostCall
    /\ hw_id \in Locked => ~Inside
    /\ "I" \notin pins
    /\ ~r15.I
    /\ call' = hw_id
    /\ UNCHANGED <<cpuVars, dbgVars, last_interrupt, memVars>>

\* ... and only then are the interrupt's data and the pin set.
InterruptSet ==
    /\ HostAlive
    /\ call \in Source
    /\ last_interrupt' = call
    /\ pins' = pins \cup {"I"}
    /\ call' = "none"
    /\ UNCHANGED <<r15, effective, pc, flags, instructions, status, service, dbgVars, memVars>>

\* The FIQ line, which the tests' harness drives between two runs.
AssertFiq ==
    /\ HostCall
    /\ FiqLine
    /\ ~Inside
    /\ pins' = pins \cup {"F"}
    /\ UNCHANGED <<r15, effective, pc, flags, instructions, status, service,
                   dbgVars, intrVars, memVars>>

\* set_breakpoint() and unset_breakpoint() refuse an unmapped mask.
set_breakpoint(a) ==
    /\ HostCall
    /\ "BREAK" \in masks
    /\ breakpoints' = breakpoints \cup {a}
    /\ UNCHANGED <<cpuVars, watchpoints, masks, intrVars, memVars>>

unset_breakpoint(a) ==
    /\ HostCall
    /\ "BREAK" \in masks
    /\ breakpoints' = breakpoints \ {a}
    /\ UNCHANGED <<cpuVars, watchpoints, masks, intrVars, memVars>>

\* The types of access a watchpoint type stands for.
WatchTypes == {{"READ"}, {"WRITE"}, {"READ", "WRITE"}}

\* set_watchpoint() and unset_watchpoint() only look at the breakpoint mask
\* and then write to the watchpoint masks, mapped or not.
ChangeWatchpoints(types, new) ==
    /\ HostCall
    /\ "BREAK" \in masks
    /\ IF types \subseteq masks
       THEN /\ watchpoints' = [k \in {"READ", "WRITE"} |->
                                  IF k \in types THEN new[k] ELSE watchpoints[k]]
            /\ UNCHANGED <<cpuVars, breakpoints, masks, intrVars, memVars>>
       ELSE Crash /\ UNCHANGED instructions

set_watchpoint(types, a) ==
    ChangeWatchpoints(types, [k \in {"READ", "WRITE"} |-> watchpoints[k] \cup {a}])

unset_watchpoint(types, a) ==
    ChangeWatchpoints(types, [k \in {"READ", "WRITE"} |-> watchpoints[k] \ {a}])

\* reset_breakpoints() unmaps the mask and then maps a fresh one.
reset_breakpoints ==
    /\ HostCall
    /\ masks' = masks \ {"BREAK"}
    /\ breakpoints' = {}
    /\ call' = "BREAK"
    /\ UNCHANGED <<cpuVars, watchpoints, last_interrupt, memVars>>

\* reset_watchpoints() does the same for the write mask, then the read mask.
reset_watchpoints ==
    /\ HostCall
    /\ masks' = masks \ {"WRITE"}
    /\ watchpoints' = [watchpoints EXCEPT !.WRITE = {}]
    /\ call' = "WRITE"
    /\ UNCHANGED <<cpuVars, breakpoints, last_interrupt, memVars>>

MapMask ==
    /\ HostAlive
    /\ call \in AllMasks
    /\ IF call = "WRITE"
       THEN /\ masks' = (masks \cup {"WRITE"}) \ {"READ"}
            /\ watchpoints' = [watchpoints EXCEPT !.READ = {}]
            /\ call' = "READ"
       ELSE /\ masks' = masks \cup {call}
            /\ call' = "none"
            /\ UNCHANGED watchpoints
    /\ UNCHANGED <<cpuVars, breakpoints, last_interrupt, memVars>>

\* mmap() fails: the breakpoint mask stays unmapped, and a watchpoint mask
\* takes the other one with it.
MapMaskFails ==
    /\ HostAlive
    /\ HostAllocMayFail
    /\ call \in AllMasks
    /\ IF call = "BREAK"
       THEN UNCHANGED <<masks, watchpoints>>
       ELSE /\ masks' = masks \ {"READ", "WRITE"}
            /\ watchpoints' = [k \in {"READ", "WRITE"} |-> {}]
    /\ call' = "none"
    /\ UNCHANGED <<cpuVars, breakpoints, last_interrupt, memVars>>

\* The debugger's write of the PC: Armv2.setregs() on register 15 with the
\* mode and the flags that are there.
setregs(v) ==
    /\ HostCall
    /\ ~Inside
    /\ pc' = Pred(v)
    /\ UNCHANGED <<r15, effective, pins, flags, instructions, status, service,
                   dbgVars, intrVars, memVars>>

\* The machine loads the ROM when it is built; Machine.add_hardware takes
\* the lock.
Build ==
    /\ \/ load_rom
       \/ HostCall /\ ~Inside /\ \E d \in Device : add_hardware(d)
    /\ UNCHANGED <<cpuVars, dbgVars, intrVars>>

Debugger ==
    \/ \E a \in Breakable : set_breakpoint(a) \/ unset_breakpoint(a)
    \/ \E a \in Watchable, types \in WatchTypes :
          set_watchpoint(types, a) \/ unset_watchpoint(types, a)
    \/ Breakable # {} /\ reset_breakpoints
    \/ Watchable # {} /\ reset_watchpoints
    \/ MapMask
    \/ MapMaskFails
    \/ \E v \in DebugPc : setregs(v)

Init ==
    /\ MemInit
    /\ r15 = [mode |-> SUP, I |-> TRUE, F |-> FALSE]
    /\ effective = [i \in Reg |-> IF i \in 13 .. 14 THEN 16 + (i - 13) ELSE i]
    /\ pc = NumAddr - 1
    /\ pins = {}
    /\ flags = {}
    /\ breakpoints = {}
    /\ watchpoints = [k \in {"READ", "WRITE"} |-> {}]
    /\ masks = AllMasks
    /\ instructions = 0
    /\ status = "OK"
    /\ last_interrupt = "none"
    /\ call = "none"
    /\ service = "none"

Next ==
    \/ Build
    \/ \E n \in Budget : run_armv2(n)
    \/ CpuStep
    \/ \E s \in Source : InterruptCheck(s)
    \/ InterruptSet
    \/ AssertFiq
    \/ Debugger

Spec == Init /\ [][Next]_vars

\* The host schedules the thread that is inside run_armv2, a call that has
\* entered interrupt() completes, and Machine's thread or its caller asks for
\* more instructions again and again.
Fairness ==
    /\ WF_vars(CpuStep)
    /\ WF_vars(InterruptSet)
    /\ WF_vars(\E n \in Budget \ {0} : run_armv2(n))

FairSpec == Spec /\ Fairness

-----------------------------------------------------------------------------
(* Properties.                                                             *)

\* Every variable has its type.
TypeOK ==
    /\ r15 \in Psr
    /\ effective \in [Reg -> Physical]
    /\ pc \in Addr
    /\ pins \in SUBSET {"I", "F"}
    /\ flags \in SUBSET {"WAIT", "WATCHPOINT"}
    /\ breakpoints \in SUBSET Addr
    /\ watchpoints \in [{"READ", "WRITE"} -> SUBSET Addr]
    /\ masks \in SUBSET AllMasks
    /\ instructions \in Nat \cup {-1}
    /\ status \in Status
    /\ last_interrupt \in Source \cup {"none"}
    /\ call \in Source \cup AllMasks \cup {"none"}
    /\ service \in Source \cup {"none"}

\* Whatever mixture of instructions, exceptions and interrupts led here, the
\* registers the next instruction names are those of the current mode.
\* step.c:246: "The instruction changed the mode of the processor so we need
\* to bank registers".
BankMatchesMode ==
    status \notin {"IRQ_ENTRY", "CRASHED"} => effective = Bank(r15.mode)

\* Two register numbers never name the same storage, even after a stop at a
\* watchpoint that left the registers of the previous mode in place.
NoAliasing == \A i, j \in Reg : i # j => effective[i] # effective[j]

\* A processor that is waiting for an interrupt can be woken by one: IRQs are
\* not masked, so interrupt() will not drop the request, or PIN_F is on.
\* tests/test_coproc.c:76: "it does not park if interrupts are masked, or we
\* would never get going again".
WaitIsWakeable == "WAIT" \in flags => (~r15.I /\ ~r15.F) \/ "F" \in pins

\* From the moment an IRQ is taken until its handler enables IRQs again, the
\* interrupt's data (INTERRUPT_DATA) is that of the interrupt that was taken:
\* init.c:399, "for now drop interrupts that happen while we're doing this".
InterruptDataIntact == service # "none" => last_interrupt = service

\* Only a source that calls interrupt() without the lock can put its data in the
\* place of the one that is served, and then its own interrupt is pending: no
\* handler reads the data of an interrupt that is not to come, and the calls
\* made under the lock disturb none.
InterruptDataKept ==
    service # "none" =>
        \/ last_interrupt = service
        \/ last_interrupt \in Source \ Locked /\ "I" \in pins

\* run_armv2 with a budget returns, whatever the guest executes and however
\* many interrupts arrive: every way through the loop uses up the budget.
RunReturns == Inside /\ instructions >= 0 ~> ~Inside

\* An interrupt that was accepted ends a wait.
\* tests/test_coproc.c:76: "or we would never get going again".
InterruptWakes == "WAIT" \in flags /\ "I" \in pins ~> "WAIT" \notin flags

\* A stopped emulator resumes with the instruction it stopped at:
\* tests/test_swi.c:88 ("the instruction will be executed again when the
\* emulator is resumed") and step.c:233 ("Don't advance PC next time").
StopRefetches == [][status = "RUNNING" /\ status' = "BREAKPOINT" => pc' = pc]_vars

\* In user mode no instruction stores to the boot ROM's page, whether it is
\* a store, the store of a swap or a multiple store that crosses pages:
\* tests/test_ldrstr.c:247, "Page zero holds the boot rom and is never
\* writable, which user mode code finds out about the hard way".
RomClosedToUser ==
    [][~mem.rom_stored /\ mem'.rom_stored => r15.mode # USR]_vars
=============================================================================
