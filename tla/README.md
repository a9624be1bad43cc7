# A verification project for the armv2 emulator

The repository emulates a small home computer: an ARMv2 processor written in C,
wrapped for Python, with a keyboard, a display, a clock and a tape drive in
Python, a boot ROM and a small operating system that run inside it, a tool that
puts programs on tapes, and a debugger that gdb connects to. This directory holds
TLA+ models of the parts of it that are hard to test, TLC configurations that
check them on small instances and TLAPS proofs for every instance. Paths below are
relative to the repository's root.

## 1. The system

| component | state | operations | module |
|---|---|---|---|
| memory (`init.c`, `fault` of `step.c`) | page tables, free RAM, attached devices and the last region of each | `init`, `load_rom`, `add_hardware`, `map_memory`, `fault`, loads and stores, `cleanup_armv2` | `Memory` |
| processor (`step.c`, `instructions.c`) | r15 (mode, I, F), the table of effective registers, pins, flags, PC, budget, masks | `run_armv2` and every instruction class, exceptions, IRQ and FIQ entry, `interrupt`, break- and watchpoints | `Armv2` |
| hardware manager (`hw_manager.c`) | data of the last interrupt | coprocessor operations: wait, map, transfer | `Armv2`, `Memory` |
| machine thread (`Machine` of `hardware.py`) | `steps_to_run`, `status`, `running`, the condition variable | `step`, `step_and_wait`, `interrupt`, `delete`, the thread's loop | `Machine` |
| boot ROM (`src/boot.S`) | interrupt ring and its two positions | `interrupt_handler`, the system call `wfi` | `Rom` over `InterruptQueue` |
| tape drive (`TapeDrive` of `hardware.py`, `tapes.py`, `tape_next_byte` of `src/os.c`) | status and data byte, the buttons' state, the tape's position | guest reads and writes, `feed_byte`, `update`, the buttons, `copy_from` | `TapeDrive` |
| tape builder and loader (`create.py`, `ProgramTape`, `load_tape` of `src/os.c`, `load_symbols` of `debugger.py`) | the file, its blocks, the guest's memory with its table of symbols, `tape_regions` | linking, writing, cutting into blocks, loading byte by byte, merging symbols, reading them | `TapeLoader` |
| debugger (`debugger.py`) | `stopped`, `num_to_step`, breakpoints, symbols, the server and its connection | gdb's commands, `step_num`, `resume`, `new_machine`, `load_symbols`, starting and ending the server | `Debugger` |
| gdb protocol (`comms/gdb.py`, `comms/comms.py`) | bytes read, open files, the session | framing, checksums, escapes, dispatch, replies | `Gdb` |
| keyboard (`Keyboard`, `tty_read` of `src/libc/terminal.c`) | ring, position, mask of keys | key events, register reads, the guest's reader | `Keyboard` |
| display (`Display`) | palette, letters, font, pixels | byte and word reads and writes | `Display` |
| drawing (`drawing/quads.py`, `drawing/opengl.py`) | slots of a vertex buffer, screens | new, change, disable, delete; lend and give back | `Shapes`, `Screens` |
| emulator (`emulate.py`) | the machine, `powered_on` | frame, keys, `power_off`, `power_on`, end | in `Debugger`, `TapeDrive`, `Devices` |
| guest library (`src/libc`) | free list, cursor | `malloc`, terminal, `qsort`, `div` | not modelled |

How they interact. The *machine thread* holds `cv` and calls `run_armv2`
without Python's interpreter lock. The *main loop* (`Emulator.mainloop`) asks
for a frame's worth of steps through the debugger, sends key and clock interrupts
through `Machine.interrupt` (which takes `cv`) and calls `TapeDrive.update`, which
takes nothing and raises interrupts straight on the processor. The guest's loads and
stores to a device's pages call Python back on the machine thread. The *gdb
thread* calls the same debugger, which has no lock at all. Switching the machine off
and on replaces it under all of them. So one `struct armv2`, one condition variable,
one debugger and one tape drive are each shared by up to three threads, with
different ideas of what protects them.

What is hard here, and what makes each part correct:

* *Memory*: a page costs RAM once, whatever failed half way; a device's pages are
  its own and stay so.
* *Processor*: banked registers are patched incrementally, from the old mode; a stop
  for a debugger leaves the loop in the middle; interrupts come from other
  threads at any step; a wait must be wakeable; the loop must end.
* *Machine thread*: no lost wake-up with one condition variable for both
  directions, a status that outlives the request it answered, timeouts.
* *Boot ROM*: interrupts between the check and the wait; a ring without a check for
  full.
* *Tape drive*: two threads hand one byte over through two fields without a lock,
  and a machine that is switched on inherits a drive that another still uses.
* *Tapes*: four programs in two languages agree on a format; a load can fail at any
  byte and be tried again over what it left.
* *Debugger*: breakpoints are kept twice, in the debugger and in a machine that is
  replaced; a session can end in many ways; steps are counted by two threads.
* *gdb protocol*: TCP may cut and join packets anywhere.
* *Keyboard and display*: keys arrive while the guest empties the ring; bytes and
  words, top-down and bottom-up, must agree.
* *Drawing*: slots and screens are reused, and their former owners still know them.

`PROJECT.json` lists the hazards line by line with the properties that would
catch them, and says for those without a property why there is none.

## 2. Modules

**Memory.** `mem` holds the page table (`"null"`, `"ram"` or the device), the free
RAM in pages and whether page 0 was stored to; page contents are left out.
Operators such as `fault`, `load_section`, `map_memory` yield the *set* of outcomes, with a
host allocation that may fail at each place where `calloc` or `mmap` is called.
`MCMemory` drives it with any sequence of calls, `Access` standing for guest
loads and stores.

**Armv2** extends `Memory`. A turn of `run_armv2`'s loop is one action (`TakeFiq`,
`TakeIrq`, `PrefetchAbort`, `HitBreakpoint`, `SkipInstruction`,
`ExecuteInstruction`), interleaved with calls by other threads. An instruction
handler is a set of effects (memory, r15, PC, flags, exception): all those it has
for some register contents, so one behaviour is a run of an arbitrary guest
program. IRQ entry is cut in two (`TakeIrq`, `MaskIrq`) where a caller without
the lock can come between, and `interrupt` in two (`InterruptCheck`,
`InterruptSet`) because the C code checks and then sets. Calls that hold Python's
lock exclude each other. `status = "CRASHED"` is a dereference of an invalid pointer: a mask
that is unmapped, a device page that has no memory, or `page_tables` indexed one
past its end, where the struct holds `exception_handlers[0]`, whose bytes are a
non-NULL pointer to nowhere. gdb writes registers only while the machine is
stopped, so `setregs` is not taken inside `run_armv2`; the PC it writes is a word's address
(`debugger.py` puts in whatever the client sends).

**Machine.** A critical section of `cv` is one action; `cpu.step()` is two, since
the tape drive's interrupts come in between. `waiters` is the queue of the condition
variable; `notify` ends the longest wait. The processor is reduced to `parked` and
`pin`. `active` is the set of threads that use the machine, so that one run covers a
lone caller, two of them, and the tape's interrupts.

**InterruptQueue** is the promise: interrupts accepted are handed out once, in order,
and lost only all together when `Capacity` are outstanding. **Rom** models the
handler, the ring and `wfi`, cut wherever an interrupt can be accepted or taken,
and maps the ring's contents, the handler's register and the pin to that queue.

**TapeDrive.** `feed_byte` is four steps (take the byte, data, status, end) on
either thread, `update` up to eight. The tape is one block; its position counts
noise, pilot tone, start, one value per byte, and 100 ms after the end. Since the
main loop takes `cv` before each frame (`Debugger.step_num` asks
`Machine.stepping`), and the machine thread holds it while a callback runs, a
callback meets at most one `update` (`NewFrame`). This is not so while a debugger
has stopped the machine, which is left out. `main = "dead"` is an uncaught
exception in the main loop: `update` with `playing` and no tape (after
`unload_tape`), or the guest's `power_down` between `update`'s test of `playing`
and its use of `last_time` or `start_time`. `PowerOff` leaves the guest's thread
running; `copy_from` gives its drive's fields to a new drive, and `PowerOn` ends the
old thread when it gives up the lock.

**TapeLoader** follows a program from `create.py` to the debugger. `CreatedBlocks`,
`to_binary_format` and `from_binary` are functions on bytes: relocation, the removal
of `bx lr`, the sorted table of symbols, padding, the final flag in the length, the
file's framing. `load_tape` is a machine that takes one byte per action, may fail
before any of them (`TapeFails`), writes memory as it goes, and looks for the place
of the symbols with the walk of `load_tape_symbols`. Memory has the addresses from
the program to behind the symbols, byte by byte. How a byte gets there is
`TapeDrive`'s matter. `TapeLoaderAssumption` says what tapes there are: at most one
loader, programs whose padded data end below the symbols and whose relocations are of
words of the data (`IsProgram`), addresses of 26 bits, blocks shorter than the address
space. That the data end there is the author's matter: no code looks at it.

**Debugger** cuts both threads before every use of a field that the other changes:
`step_num`, `resume` and `step_num_internal` (which both run), the handlers, `send`,
`reset_debugging`, `stop_listening`, `load_symbols`, `power_off` and `power_on`. The
machine is what `Machine` promises: requests are served, `cpu.step` returns. Messages
come in whole; commands whose handlers raise are one command.

**Gdb** has the bytes of one connection. The client sends packets, spoilt packets,
acknowledgements and interrupts, and every read takes any number of the bytes that
are under way; file descriptors are digits. `Scan` is the first loop of `process_data`, `HandleMessage` the second.

**Keyboard**, **Display**, **Shapes**, **Screens** and `TapeLoader` are composed in
**Devices** with the power switch, which gives a machine a new keyboard, display and
memory and takes or returns a screen. The devices have no other state in common, so
a behaviour picks one of them (`used`) and the switch: their product would add states
and no behaviour. `Keyboard` cuts `key_down` where the position is past the ring for
a moment, and `tty_read` between its look at the position and its use; `unseen` and `stuck`
are the keys of which it was not told that they were pressed or let go. `Display`
keeps, as history, the picture as the guest drew it. A shape of `Shapes` may be used after
it was deleted, also by `delete` and `translate`, which do not look at its flag;
`misused` are the slots that were changed so.

Definitions named `X_Something` next to `X` are mutants: plausible bugs that the
properties are shown to notice.

## 3. Runs

Passing:

| run | instance | shows |
|---|---|---|
| `memory` | 6 pages, 4 of RAM, 2 devices, failing host allocations; 13 596 states | `MemTypeOK`, `RamAccounted`, `MappingBacked`, `BackingIsStable` |
| `arm_irq` | two sources of interrupts, one of which takes the lock, fairness; 29 064 states | `InterruptDataKept`, `RunReturns`, `InterruptWakes` |
| `arm_break` | three pages, one device, breakpoints, FIQs, a source without the lock, debugger; 1.0 M states | `BankMatchesMode`, `WaitIsWakeable`, `StopRefetches` |
| `arm_watch` | watchpoints of all types, transfers of two registers across a page boundary; 0.4 M states | `NoAliasing`, `RomClosedToUser` |
| `machine` | main loop and gdb, one of them or both, with and without tape interrupts; 2 069 states | `NoLostWakeup` (a lone caller), `RequestsServed`, `CallsReturn`, `ParkedInterruptTaken` |
| `rom` | keyboard, tape and clock, a ring of four; 99 137 states | `InterruptsHandedOut` (refinement), `WfiReturns` |
| `tape` | two bytes, a cache of one, all buttons, power; 1.9 M states | `BytesDelivered`, `ByteArrives` |
| `debugger` | one address, one kind of watchpoint, one client, one restart; 0.9 M states | `BreakpointsHeld`, `QuietWhenOff`, `SymbolsFresh`, `MachineRuns` |
| `gdb` | 22 packets and 4 of binary data, two sendings, one file; 0.15 M states | `OnlyWhatWasSent`, `WholePacketsHandled`, `RepliesReadable`, `SurvivesCutting` |
| `devices` | see below; 1.0 M states | `KeysInOrder`, `KeysAsHeld`; `WordsMatchBytes`, `ScreenShows`; `SlotsExclusive`, `DrawnAsWanted`; `ScreensAccounted`; `LoadedAsBuilt`, `SymbolsMerged`, `ReferencesResolved` |

`memory`, `arm_break` and `machine` check the type invariants `MemTypeOK`, `TypeOK` and
`MachineTypeOK` as well; the other modules describe the types of their variables where they
declare them.

Violated, each a disagreement between the code and what the repository says of it
(`findings` in `PROJECT.json` quote the line):

| run | what the counterexample shows |
|---|---|
| `arm_irq_race` | an interrupt without the lock, between `CLEARPIN` and `SETFLAG`, replaces the data of the one being taken |
| `debugger_session` | a command whose handler raises ends the session without the reset that is promised "whatever happens": the machine stays stopped, with its breakpoints |

Four more disagreements are findings that a passing run shows, by a property that says
what the code does instead:

* `ScreenShows` has the cells of the display count from the top, as `redraw` does; the
  docstring of `Display` has the letters and colours start at the bottom left.
* `ScreensAccounted` has the screen of a machine that is off among those to be had by any
  other; the comment in `Display.power_down` says it is not reused before this machine
  gives it up. The machine is still drawn from it.
* `DrawnAsWanted` and `SlotsExclusive` leave out the slots in `misused`. The docstring of
  `Shape.delete` says that the flag keeps a deleted shape from being used;
  `DevicesShapes.cfg` (with `MCDevices`) has TLC find a deleted shape that changes the
  next owner's (`DeletedShapesInert`).
* `OnlyWhatWasSent` allows a stop without an interrupt if binary data with a byte 3, or
  with a `#`, which is escaped as `7d 03`, were sent. `GdbStop.cfg` (with `MCGdb`) has TLC
  find the read that brings that byte by itself (`StopsWereSent`).

`DevicesShapes.cfg` and `GdbStop.cfg` are counterexamples to look at and no runs of
`PROJECT.json`.

Several properties that pass leave out a case that the code does not survive, and
say so in their comment: a guest that looks at the keyboard's position before it is
wrapped, a machine that comes on with a drive that is still loading, a load after
one that failed in the middle of its symbols, a read with more than one packet, two
threads that load symbols at once, a thread that is asked for steps before it took
the lock first (`StartedFirst`), interrupt data that a source without the lock replaces,
keys of which the keyboard was not told, slots changed through deleted shapes, a byte 3 of
binary data that is read alone. `BankMatchesMode` is checked without watchpoints, because a
watchpoint hit by an instruction that changes the mode stops before the registers are
banked, and they never are.

*Bounds.* Three pages are enough for page 0 (the ROM's), a page of RAM and one
that may be a device's; two addresses hit two different pages, or the last word of
one and of the next (`DataAddr` of `arm_watch`). A budget of -1 (run forever), 0
and small numbers covers every branch on `instructions`. Two RAM pages with three
or six pages of address space make the budget run out. Two callers are what the
program has. A ring of four entries with one interrupt between two instructions
wraps and overflows; `Burst` bounds how many IRQs are taken between two
instructions of the interrupted code, which is needed for `WfiReturns` alone
(`2 * Burst < RingSize`: enough interrupts in a row would empty the ring each
time `wfi` looks). Two bytes and a cache of one have every case of `trim_cache`:
nothing late, one byte late, all of them late. A drive that was copied while it was
loading is not switched off again.

`Debugger`: one address has the breakpoint that is set, forgotten or copied at the
wrong moment; a second client differs from the first only in what the first left
behind, which the invariants speak of. `MinNum` stops step commands once
`num_to_step` is not positive, below which nothing new happens. `Gdb`: two sendings give a packet
before, after or joined with another, cut at every byte. `Devices`: three
keys typed before the guest's first `tty_read` and three after it pass the end of a ring of
four and use its places again, two of three keys share a code (`KeysAsHeld`); a display of
4 by 2 cells has every register and two rows of cells, and two writes overwrite each other as bytes, words, letters and
pixels; three shapes on two slots make the buffer overflow and a slot pass to another
shape; three machines share the three screens of a two by two grid
(one of its places is not lent); four tapes have a loader and further data, a program not made of
whole words, a program with fewer symbols than the one before, one that fills the
table so that the next does not fit, and one that does not link; two loads follow
each other with any failure in between. `load_tape` starts at the start of a block: a
guest that starts elsewhere takes data for a header, and nothing can be said of it.

*Deadlock* is checked except where the system may really stop: a ROM that did not
load, a crashed host, memory torn down, a main loop that has ended, and the bounds of
`Debugger`, `Gdb` and `Devices`.

*Fairness.* `Armv2`: the host schedules the machine thread, a call of
`interrupt` that has begun ends, and the main loop asks for steps again and again
(`mainloop` does so every frame). `Machine`: weak fairness of the machine thread
and of timeouts (they are timeouts of `cv.wait`), strong fairness for a caller that
needs the lock in `step_and_wait`: the machine thread releases it at every
`cv.wait` and the interpreter's lock does not starve a thread for ever. `Rom`: the
processor goes on stepping and the clock goes on firing (`boot.S` sets it to
500 ms); nothing is assumed of other devices. `TapeDrive`: the main loop and a
callback that has begun go on, and time passes again and again between the calls of
`update`. `Debugger`: the main loop goes on and the processor's steps return, which
`RunReturns` and `RequestsServed` show of the parts; nothing is assumed of the gdb
thread or its client. The user is never assumed to press anything.

## 4. Proofs

`Armv2_proofs` begins with the memory alone, for any number of pages, devices and failures:
`MemTypes`, `RamIsAccounted`, `MappingIsBacked` and `BackingNeverChanges`. The
inductive invariant is `MemInv`, the conjunction of the three invariants: the budget needs the types
(cardinalities of finite sets of pages), and backing needs both. The argument
goes through `Grows(m, n)`: every operation either leaves a page as it was or
turns a `"null"` page into RAM that is charged, or into a device's. It is
reflexive and transitive, so multi-step operations follow from their pieces.

It goes on to prove for any memory, guest program, sources and debugger:

* `CpuTypes` and `CpuRamAccounted`, from `CpuInv` (types, `MemInv`, not torn
  down). `Follows` says what the effect of an instruction may be, one lemma per
  handler, and `Handled` what a turn of the loop then does; all later
  theorems use `Handled` instead of the handlers.
* `WaitWakeable`. Strengthened by: a pending WATCHPOINT flag implies that IRQs are
  masked. It is needed because a stale flag stops the turn in which a wait begins.
* `RegistersDistinct`: each register number always points into its own group of
  cells (`Cells`), and the groups are disjoint. It holds with watchpoints too,
  where `BankMatchesMode` fails: the wrong bank may be visible, never a mixture
  that aliases.
* `DataKept`, for any sources, with the lock or without: the data of an interrupt that is
  being taken are its own, unless another that was raised without the lock is pending with
  its data in their place. That this happens is `arm_irq_race`; the theorem says that
  nothing else does, and that the interrupt whose data these are is not lost.
* `BankMatches` and `StopsRefetch`, assuming no watchpoints (`Watchable = {}`),
  without which `BankMatches` is false.

* `RomIsClosedToUser`, an action property, from `CpuInv` alone. That user mode is not
  permitted to store to page 0 (`UserStores`) gives it for one store, then for the
  loop of a multiple store, which may cross into another page, and for a
  swap; fetching, populating and mapping pages store nothing.

`Machine_proofs`, for any callers and requests: `MachineTypes` and `NoWakeupLost`.
`MachineInv` says that `waiters` holds exactly the waiting threads, each once
(`Fits`), which `notify`, a new waiter and a timeout preserve (three lemmas on
sequences without repetition); that other threads have never entered the machine
of a thread that is alone (`OthersIdle`), so that `notify` can only wake
the machine's thread; and that this thread first takes the lock with status OK
(`FreshStart`), without which it could begin to wait with steps pending.

`Rom_proofs`: `RomHandsOut`, the refinement of `InterruptQueue`, for a ring of any
size. The lemmas about `Wrap` say what positions modulo the ring's size do; those
about `RingOf` what storing at one position and returning from the other do to the
ring read as a sequence: append, drop the head, or empty it when the store makes the
positions meet. Each step of `Rom` is then a step of the queue or a stutter.
`RomInv` adds that the handler runs alone (`HandlerAlone`) and that `wfi` takes an
entry only if there is one (`ReturnReady`).

`TapeDrive_proofs`: `EachByteRead`, an action property, for tapes and caches of any
length. Its invariant `TapeInv` says where the byte that was taken is at each step of
either thread (`ByteInHand`, `MainTakesForGuest`), why a main loop that found
`NOT_READY` finds a guest that waits (`NotReadyWaits`, `FreshGuest`), and what a
machine that is off leaves behind (`OffStandsStill`). All of it is needed: the
action property itself speaks of one step only.

`Debugger_proofs`, for any addresses, sessions and restarts: `NoBreakpointMissing`,
`LeavesNothing`, `SymbolsStayFresh`. `DebuggerInv` says of every breakpoint
where it is while it is not in the mask (on its way there in `new_machine`, or in the hand
of a handler: `HeldInv`), that nothing is on its way when nobody listens
(`QuietInv`), and whose reading of symbols a pending store is (`FreshInv`).

`Devices_proofs`, for any sizes of the ring, the grid of cells, the font, the vertex buffer and the grid of
screens:

* `KeysReadInOrder`, `KeysComeUp`. `RingHolds`: the keys that were typed and not read
  lie in the ring from the guest's position to the keyboard's, which may be past
  the ring for a moment, and the position that the guest looked at is between them.
  `KeysComeUp` is `KeysAsHeld`: which keys may be down and are not held is said by
  `stuck`, which are held and not down by `unseen`, and for all others the mask is right.
* `ScreenIsAsWritten`, `WordsAreTheirBytes`. `DisplayInv` says pixel by pixel and row
  by row of each glyph that the display, bottom-up, has what the guest wrote from
  the top down. The arithmetic (a frame offset to its place on the screen and back,
  the four bytes of a word to four cells of one row, which needs
  `Width % 4 = 0`) is in lemmas of its own. A word's write is handled by a different
  branch for each register, as in the code, and each is shown to be its four bytes.
* `SlotsAreExclusive`, `ShapesDrawnAsWanted`, for all slots that were not changed through a
  shape that was deleted before, whatever is done through it to others. `ShapesInv` adds that holes lie below
  the end of the used part, that nothing behind it was ever coloured, and that a disabled
  shape remembers its vertices.
* `ScreensAreAccounted`. `ScreensInv` adds that a machine that is off still names
  a screen, which is what makes giving it back twice different.
* `ProgramsLoadAsBuilt`, for any tapes that `create.py` can write. `LoaderInv` says of
  each phase of `load_tape` where on the tape it is and that what it has read are the
  program's bytes at that place of its block (`Reading`, `ReadingData`, `HeaderIs`).
  Three arguments carry it. What is on the tape is what was written: `RoundTrip`, that
  `from_binary` undoes `to_binary_format`, an induction from the last block to the
  first. A block has its parts where the loader looks for them, in bytes that are
  bytes: `ProgramParts`, on the types of relocation, `NoBxLr` and the sorted table, and
  on reading a word back with its final flag cleared (`LengthWordReads`). And the
  symbols do the program no harm: the walk in `load_tape_symbols`, however damaged the
  table is, ends at or above `SYMBOLS_ADDR` (`EntryAbove`).

The power switch resets keyboard, display and memory: `DevicesInv`, the conjunction of the
five invariants, is preserved by each group's steps and by the switch.

`Induction_proofs` has what proofs about loops over bytes need. The library's induction
theorems take an operator as a parameter, which the provers cannot instantiate; so a
property of numbers is stated as the *set* of those that have it, and `SetInduction`
follows from the least number outside of the set (`WFMin`). With it `FoldSteps` says that
a left fold is the last of a sequence of values, each made from the one before, which
turns a statement about `FoldLeft` into an induction along that sequence. `FlatSteps` and
`FlatAt` do this for `FlattenSeq`: they say at which place of the whole each part lies.
`AscentExists` gives a recursion that calls itself for a larger argument, below a bound,
its function, and `DownInduction` the induction along it.

`Gdb_proofs`, for any packets, binary data of any length, any file, and any way of
cutting and joining what the client sends: `OnlySentIsHandled` (commands
and stops), `WholePacketsAreHandled`,
`RepliesAreReadable`, `SessionSurvivesCutting`. Every read starts anew, so the invariant
`WireInv` is about bytes: what is under way, and what was read last, is a `Piece` of what
was sent, that is, a sequence in which `$` and `#` take turns, digits follow each `#`, and
what stands between a `$` and the next `#` is, if its checksum is right, the contents of a
packet that was sent. Pieces may be cut anywhere (`PartOfPiece`) and joined where one ends
and the next starts (`JoinedPieces`), and each packet is one, spoilt or not
(`PacketIsPiece`). The lemmas then go through each loop once: `ScanResult` says what the
first loop of `process_data` makes of any piece, `ScanWhole` of a whole packet,
`HandleRuns` what the second loop comes to, `UnescapeUndoes` and `ReadsBack` that
`unescape`, and the client's reading, undo `escape`. A reply is a text without escapes and
escaped data behind it (`Readable`). `SignalInv` says of a byte 3, wherever it is, that what
was sent has one (`HoldsInterrupt`); so a stop comes from an interrupt or from binary data. `GdbAssumption` says what the proofs need of the
client: its text packets are not empty and hold no `$`, `#` or escape, which gdb
escapes, and no byte 3, and there are ten descriptors (`handle_file_open`). The length of the file in a
reply has as many hexadecimal digits as it needs; `DigitsExist` shows that there is such a
sequence and `HexadecimalPlain` that nothing in it needs an escape.

`MachineInv`, `RomInv`, `TapeInv`, `DebuggerInv` and `DevicesInv` say more than the
properties the runs check. TLC finds each of them to hold in every state of its run's
instance in section 3 (as an `INVARIANT`, in a module that extends the MC module and the
proofs). `WireInv` of `Gdb` is checked in the same way.

The constants' assumptions are the ones named `...Assumption` in the modules, which TLC
evaluates in the runs. They say what the code's constants satisfy: sizes are positive
(`RingSize`, `Width`, `Height`, `NumGlyphs`, `BufferSize`, `GridNum`, `FrameSteps`), the
width and the ring are multiples of four, a byte that is written is a glyph's number
(there are 256), tapes are what `create.py` writes (section 2). `BurstAssumption` of `Rom` is used by its liveness
alone; no proof cites it.

Only model-checked:

* Liveness (`RunReturns`, `InterruptWakes`, `RequestsServed`, `CallsReturn`,
  `ParkedInterruptTaken`, `WfiReturns`, `ByteArrives`, `MachineRuns`): `ENABLED` and
  fairness are out of the prover's reach.
* `SymbolsMerged` and `ReferencesResolved` of `TapeLoader`. They need what
  `load_symbols` and `symbol_entry_pos` compute, not only where they end, and that all
  relocations together leave each word as its own made it; and they need the sorted
  table not to hold two names at one place. This is an induction over the whole table
  for each of the two walks, which is not done.

## 5. Not modelled

* Results of arithmetic, condition flags and encodings of instructions, and what the
  barrel shifter computes: `Armv2` has all effects an instruction may have.
* `comms/custom.py`, the protocol of an earlier debugger: nothing imports it.
  `disassemble.py` and the debugger's handlers for next, restart, memory watches and
  disassembly: no message of `gdb.py` reaches them. `comms.Client`: no caller.
* Reading ELF files, the symbols that `create.py` makes up for the procedure linkage
  table, the ELF file that `get_file` writes for gdb, the zip file around a tape: formats of
  others, read and written through libraries.
* Sound synthesis (`tapes.py`, `popcnt.pyx`), textures and sprites, the OpenGL calls:
  numbers for output that no control depends on. The pilot tone between the blocks
  of one tape (`TapeDrive` has one block, `TapeLoader` the bytes of all).
* The guest's allocator, terminal, `qsort` and `div`: sequential, planned below.
* Third-party code (`lzg.c`, `xprintf.c`, `rijndael-alg-fst.h`), build scripts.

## 6. Plan

Done: `Memory`, `Armv2`, `Machine`, `Rom` with `InterruptQueue`, `TapeDrive`,
`Debugger`, `Gdb`, `Keyboard`, `Display`, `Shapes`, `Screens`, `TapeLoader` and
`Devices`, and the proofs of all safety properties but `SymbolsMerged` and
`ReferencesResolved`.
Next, the most important first:

1. `TapeLoader`: what the two walks over the table of symbols compute, as lemmas on
   tables written to memory, and from them `SymbolsMerged`.
2. `Malloc`: the free list as a refinement of an abstract allocator (disjoint live
   blocks, adjacent free blocks merged), with the heap's end.
3. `Shifter` and `Alu`: `operand_shift` and the flags, as operators on w-bit words
   against a reference definition.
4. `Terminal`: cursor and scrolling. Tapes of several blocks in `TapeDrive`.
