----------------------------- MODULE Debugger -------------------------------
(***************************************************************************)
(* The debugger (class Debugger of debugger.py) between its two threads:   *)
(* the main loop, which runs the machine for one frame after the other,    *)
(* and the thread of the gdb server, which handles one client's commands   *)
(* (BaseHandler.handle of comms/gdb.py) over one connection (class Comms   *)
(* of comms/comms.py).  None of the debugger's fields has a lock, so a     *)
(* thread is cut before every use of a field that the other one changes.   *)
(*                                                                         *)
(* The machine is what Machine promises of it: request is steps_to_run,    *)
(* busy while its thread holds the lock inside cpu.step(), which returns.  *)
(* Commands come in as messages already; module Gdb takes them from the    *)
(* stream.  Commands that only read or write registers or memory are one,  *)
(* "access", and those whose handler raises are "raise".                   *)
(*                                                                         *)
(* next() and its secret breakpoint are left out, since no message type of *)
(* gdb.py reaches them (debugger.py:29-55).                                *)
(***************************************************************************)
EXTENDS Integers, FiniteSets

CONSTANTS
    Addr,          \* word addresses that breakpoints are set on
    Watch,         \* kinds of watchpoints: read and write; access is both
    FrameSteps,    \* steps of a frame: clock_rate times its milliseconds
    MaxSessions,   \* bound: clients that connect
    MaxPower,      \* bound: times that the machine is switched on again
    MinNum         \* bound: no step command once num_to_step is below this

ASSUME DebuggerAssumption ==
    /\ FrameSteps \in Nat \ {0}
    /\ {MaxSessions, MaxPower} \subseteq Nat
    /\ MinNum \in Int

Thread == {"main", "gdb"}
Status == {"OK", "WAIT_FOR_INTERRUPT", "BREAKPOINT"}

VARIABLES
    dbg,     \* the debugger: stopped, num_to_step, breakpoints, need_symbols
             \* and current (symbols are those in the machine's memory)
    mach,    \* its machine: breakpoint and watchpoint masks, request, busy,
             \* status, up (it has a thread), and read: the threads that have
             \* read the symbols in its memory since they last changed
    comm,    \* the connection: connected, socket, done; sessions so far
    at,      \* where each thread is: in step_num_internal() and resume() or in
             \* Comms.send(), which both threads run, or in code of its own; the
             \* gdb thread is at "none" without a server, at "listen" without a
             \* client, at "orphan" in step_and_wait() of a deleted machine
    num,     \* step_num_internal(): the steps a thread asks for
    status,  \* and the status it got, "None" or "unbound"
    job,     \* the command that the gdb thread handles, and its address
    power    \* the emulator: powered_on, whether power_on() is under way, the
             \* breakpoints that new_machine() found, and a count

vars == <<dbg, mach, comm, at, num, status, job, power>>

Go(t, place) == at' = [at EXCEPT ![t] = place]

\* The lock of the machine is free.
Unlocked == ~mach.busy

\* An exception ends the main loop.  In the gdb thread it ends the session:
\* handle() catches socket errors only, and the server closes the request.
Raise(t) ==
    /\ Go(t, IF t = "main" THEN "dead" ELSE "listen")
    /\ comm' = IF t = "gdb" /\ comm.socket = "open" THEN [comm EXCEPT !.socket = "closed"] ELSE comm

NoJob == [command |-> "none", addr |-> {}]

\* A handler that has returned is forgotten, but for detach().
Handled == job' = IF at'["gdb"] = "idle" /\ job.command # "detach" THEN NoJob ELSE job

-----------------------------------------------------------------------------
(* The machine's thread.                                                   *)

CpuStarts ==
    /\ mach.request # 0 /\ ~mach.busy
    /\ mach' = [mach EXCEPT !.busy = TRUE]
    /\ UNCHANGED <<dbg, comm, at, num, status, job, power>>

\* cpu.step() returns; a guest may execute a breakpoint SWI by itself.
CpuReturns ==
    /\ mach.busy
    /\ \E s \in Status : mach' = [mach EXCEPT !.busy = FALSE, !.request = 0, !.status = s]
    /\ UNCHANGED <<dbg, comm, at, num, status, job, power>>

\* The guest has loaded a tape, symbols and all, and the drive tells
\* set_need_symbols().
set_need_symbols ==
    /\ mach.busy
    /\ mach' = [mach EXCEPT !.read = {}]
    /\ dbg' = [dbg EXCEPT !.current = FALSE, !.need_symbols = TRUE]
    /\ UNCHANGED <<comm, at, num, status, job, power>>

-----------------------------------------------------------------------------
(* What both threads run.                                                  *)

\* resume(): stopped is cleared ...
Resume(t) ==
    /\ at[t] = "resume"
    /\ dbg' = [dbg EXCEPT !.stopped = FALSE]
    /\ Go(t, "num")
    /\ UNCHANGED <<mach, comm, num, status, job, power>>

\* ... and num_to_step read; without steps step_num_internal() returns None.
ResumeNum(t) ==
    /\ at[t] = "num"
    /\ num' = [num EXCEPT ![t] = dbg.num_to_step]
    /\ status' = [status EXCEPT ![t] = "None"]
    /\ Go(t, IF dbg.num_to_step = 0 THEN "result" ELSE "sub")
    /\ UNCHANGED <<dbg, mach, comm, job, power>>

\* num_to_step -= num.  With a negative num nothing is stepped and status is
\* never assigned.
Subtract(t) ==
    /\ at[t] = "sub"
    /\ dbg' = [dbg EXCEPT !.num_to_step = @ - num[t]]
    /\ status' = [status EXCEPT ![t] = "unbound"]
    /\ Go(t, IF num[t] > 0 THEN "step" ELSE "after")
    /\ UNCHANGED <<mach, comm, num, job, power>>

\* step_and_wait() on the machine of now.
StepAndWait(t) ==
    /\ at[t] = "step"
    /\ Unlocked
    /\ IF mach.up
       THEN mach' = [mach EXCEPT !.request = num[t]] /\ Go(t, "wait") /\ UNCHANGED comm
       ELSE Raise(t) /\ UNCHANGED mach
    /\ UNCHANGED <<dbg, num, status, job, power>>

StepDone(t) ==
    /\ at[t] = "wait"
    /\ Unlocked
    /\ mach.request = 0 \/ mach.status = "WAIT_FOR_INTERRUPT"
    /\ status' = [status EXCEPT ![t] = mach.status]
    /\ Go(t, "after")
    /\ UNCHANGED <<dbg, mach, comm, num, job, power>>

\* load_symbols() clears need_symbols first, so that a tape loaded while it
\* reads the memory is not forgotten.
AfterStep(t) ==
    /\ at[t] = "after"
    /\ dbg' = [dbg EXCEPT !.need_symbols = FALSE]
    /\ Go(t, IF dbg.need_symbols THEN "load" ELSE "result")
    /\ UNCHANGED <<mach, comm, num, status, job, power>>

ReadSymbols(t) ==
    /\ at[t] = "load"
    /\ Unlocked
    /\ mach' = [mach EXCEPT !.read = @ \cup {t}]
    /\ Go(t, "store")
    /\ UNCHANGED <<dbg, comm, num, status, job, power>>

\* Mutant of StoreSymbols: need_symbols is cleared when the symbols are there.
StoreSymbols_ClearsLate(t) ==
    /\ at[t] = "store"
    /\ dbg' = [dbg EXCEPT !.current = t \in mach.read, !.need_symbols = FALSE]
    /\ Go(t, IF t = "main" /\ power.restarting THEN "idle" ELSE "result")
    /\ power' = IF t = "main" THEN [power EXCEPT !.on = TRUE, !.restarting = FALSE] ELSE power
    /\ mach' = [mach EXCEPT !.read = @ \ {t}]
    /\ UNCHANGED <<comm, num, status, job>>

\* power_on() goes on from here to its end.
StoreSymbols(t) ==
    /\ at[t] = "store"
    /\ dbg' = [dbg EXCEPT !.current = t \in mach.read]
    /\ Go(t, IF t = "main" /\ power.restarting THEN "idle" ELSE "result")
    /\ power' = IF t = "main" THEN [power EXCEPT !.on = TRUE, !.restarting = FALSE] ELSE power
    /\ mach' = [mach EXCEPT !.read = @ \ {t}]
    /\ UNCHANGED <<comm, num, status, job>>

\* A handle_step() replies; a resume() stops at a breakpoint and tells gdb.
Result(t) ==
    /\ at[t] = "result"
    /\ IF status[t] = "unbound" THEN Raise(t) /\ UNCHANGED dbg
       ELSE IF t = "gdb" /\ job.command = "step"
       THEN Go(t, "send") /\ UNCHANGED <<dbg, comm>>
       ELSE IF status[t] = "BREAKPOINT"
       THEN dbg' = [dbg EXCEPT !.stopped = TRUE] /\ Go(t, "send") /\ UNCHANGED comm
       ELSE Go(t, "idle") /\ UNCHANGED <<dbg, comm>>
    /\ num' = [num EXCEPT ![t] = 0]
    /\ status' = [status EXCEPT ![t] = "None"]
    /\ Handled
    /\ UNCHANGED <<mach, power>>

\* Comms.send(): nothing without a connection ...
Send(t) ==
    /\ at[t] = "send"
    /\ Go(t, IF comm.connected THEN "socket" ELSE "idle")
    /\ Handled
    /\ UNCHANGED <<dbg, mach, comm, num, status, power>>

\* ... but disconnect() may come in between: a closed socket is noticed, one
\* set to None raises.
SendSocket(t) ==
    /\ at[t] = "socket"
    /\ CASE comm.socket = "none"   -> Raise(t)
         [] comm.socket = "closed" -> Go(t, "idle") /\ comm' = [comm EXCEPT !.connected = FALSE]
         [] comm.socket = "open"   -> Go(t, "idle") /\ UNCHANGED comm
    /\ Handled
    /\ UNCHANGED <<dbg, mach, num, status, power>>

Common(t) ==
    \/ Resume(t) \/ ResumeNum(t) \/ Subtract(t) \/ StepAndWait(t) \/ StepDone(t)
    \/ AfterStep(t) \/ ReadSymbols(t) \/ StoreSymbols(t) \/ Result(t)
    \/ Send(t) \/ SendSocket(t)

-----------------------------------------------------------------------------
(* The main loop.                                                          *)

\* step_num(), once a frame.
StepNum ==
    /\ at["main"] = "idle"
    /\ power.on
    /\ dbg' = [dbg EXCEPT !.num_to_step = FrameSteps]
    /\ Go("main", "stopped?")
    /\ UNCHANGED <<mach, comm, num, status, job, power>>

TestStopped ==
    /\ at["main"] = "stopped?"
    /\ Go("main", IF dbg.stopped THEN "idle" ELSE "stepping?")
    /\ UNCHANGED <<dbg, mach, comm, num, status, job, power>>

\* Mutant of TestStepping: a machine that waits for an interrupt gets no steps.
TestStepping_NotWaiting ==
    /\ at["main"] = "stepping?"
    /\ Unlocked
    /\ Go("main", IF mach.request # 0 \/ mach.status = "WAIT_FOR_INTERRUPT" THEN "idle" ELSE "resume")
    /\ UNCHANGED <<dbg, mach, comm, num, status, job, power>>

TestStepping ==
    /\ at["main"] = "stepping?"
    /\ Unlocked
    /\ Go("main", IF mach.request # 0 THEN "idle" ELSE "resume")
    /\ UNCHANGED <<dbg, mach, comm, num, status, job, power>>

\* A key or the clock interrupts the machine, stopped or not, and has it make
\* one step.
Interrupt ==
    /\ at["main"] = "idle"
    /\ Unlocked
    /\ mach' = [mach EXCEPT !.request = IF @ = 0 THEN 1 ELSE @]
    /\ UNCHANGED <<dbg, comm, at, num, status, job, power>>

power_off ==
    /\ at["main"] = "idle"
    /\ power.on
    /\ power.count < MaxPower
    /\ power' = [power EXCEPT !.on = FALSE]
    /\ UNCHANGED <<dbg, mach, comm, at, num, status, job>>

power_on ==
    /\ at["main"] = "idle"
    /\ ~power.on
    /\ power' = [power EXCEPT !.restarting = TRUE, !.count = @ + 1]
    /\ Go("main", "delete")
    /\ UNCHANGED <<dbg, mach, comm, num, status, job>>

\* The old machine is deleted while the debugger still uses it.
DeleteOld ==
    /\ at["main"] = "delete"
    /\ Unlocked
    /\ mach' = [mach EXCEPT !.up = FALSE]
    /\ at' = [at EXCEPT !["main"] = "new", !["gdb"] = IF @ = "wait" THEN "orphan" ELSE @]
    /\ UNCHANGED <<dbg, comm, num, status, job, power>>

NewMachine ==
    [mask |-> {}, watch |-> {}, request |-> 0, busy |-> FALSE, status |-> "OK",
     up |-> TRUE, read |-> {}]

\* Debugger.new_machine(): from now on the debugger uses the new machine ...
new_machine ==
    /\ at["main"] = "new"
    /\ ~mach.busy
    /\ mach' = NewMachine
    /\ dbg' = [dbg EXCEPT !.current = FALSE]
    /\ power' = [power EXCEPT !.todo = dbg.breakpoints]
    /\ Go("main", "copy")
    /\ UNCHANGED <<comm, num, status, job>>

\* Mutant of CopyBreakpoints: new_machine() only takes the machine.
CopyBreakpoints_None ==
    /\ at["main"] = "copy"
    /\ power' = [power EXCEPT !.todo = {}]
    /\ dbg' = [dbg EXCEPT !.need_symbols = FALSE]
    /\ Go("main", "load")
    /\ UNCHANGED <<mach, comm, num, status, job>>

\* ... gets its breakpoints, and load_symbols() begins.
CopyBreakpoints ==
    /\ at["main"] = "copy"
    /\ mach' = [mach EXCEPT !.mask = @ \cup power.todo]
    /\ power' = [power EXCEPT !.todo = {}]
    /\ dbg' = [dbg EXCEPT !.need_symbols = FALSE]
    /\ Go("main", "load")
    /\ UNCHANGED <<comm, num, status, job>>

\* The server takes a free port and its thread starts.
start_listening ==
    /\ at["main"] = "idle"
    /\ at["gdb"] = "none"
    /\ Go("gdb", "listen")
    /\ comm' = [comm EXCEPT !.done = FALSE]
    /\ UNCHANGED <<dbg, mach, num, status, job, power>>

\* Comms.disconnect().
Disconnected == [comm EXCEPT !.connected = FALSE, !.socket = "none"]

\* stop_listening() hangs up, and waits in exit() for the server's thread ...
stop_listening ==
    /\ at["main"] = "idle"
    /\ at["gdb"] # "none"
    /\ comm' = [Disconnected EXCEPT !.done = TRUE]
    /\ Go("main", "shutdown")
    /\ UNCHANGED <<dbg, mach, num, status, job, power>>

\* Mutant of Unlisten: the debugger is not reset.
Unlisten_NoReset ==
    /\ at["main"] = "shutdown"
    /\ at["gdb"] = "listen"
    /\ at' = [at EXCEPT !["main"] = "idle", !["gdb"] = "none"]
    /\ UNCHANGED <<dbg, mach, comm, num, status, job, power>>

\* ... then resets debugging, with no other thread left.
Unlisten ==
    /\ at["main"] = "shutdown"
    /\ at["gdb"] = "listen"
    /\ at' = [at EXCEPT !["main"] = "idle", !["gdb"] = "none"]
    /\ dbg' = [dbg EXCEPT !.stopped = FALSE, !.breakpoints = {}]
    /\ mach' = [mach EXCEPT !.mask = {}, !.watch = {}]
    /\ UNCHANGED <<comm, num, status, job, power>>

Frame == StepNum \/ TestStopped \/ TestStepping
PowerOn == power_on \/ DeleteOld \/ new_machine \/ CopyBreakpoints
Main == Frame \/ Common("main") \/ PowerOn \/ Unlisten

-----------------------------------------------------------------------------
(* The gdb thread: a session, and the handlers of its commands.            *)

\* handle() begins; Connect() only tells the emulator's owner.
Accept ==
    /\ at["gdb"] = "listen"
    /\ ~comm.done
    /\ comm.sessions < MaxSessions
    /\ comm' = [comm EXCEPT !.connected = TRUE, !.socket = "open", !.sessions = @ + 1]
    /\ job' = NoJob
    /\ Go("gdb", "idle")
    /\ UNCHANGED <<dbg, mach, num, status, power>>

\* The next message; detach() has set the handler's done.
Receive(command, addr) ==
    /\ at["gdb"] = "idle"
    /\ comm.socket = "open"
    /\ job.command # "detach"
    /\ job' = [command |-> command, addr |-> addr]

handle_stop ==
    /\ Receive("stop", {})
    /\ dbg' = [dbg EXCEPT !.stopped = TRUE]
    /\ Go("gdb", "send")
    /\ UNCHANGED <<mach, comm, num, status, power>>

\* resume(), and no reply before the machine stops.
handle_continue ==
    /\ Receive("continue", {})
    /\ Go("gdb", "resume")
    /\ UNCHANGED <<dbg, mach, comm, num, status, power>>

handle_step ==
    /\ Receive("step", {})
    /\ dbg.num_to_step >= MinNum
    /\ num' = [num EXCEPT !["gdb"] = 1]
    /\ Go("gdb", "sub")
    /\ UNCHANGED <<dbg, mach, comm, status, power>>

\* breakpoints gains or loses a key.  The loop of new_machine() raises when it
\* has begun, and finds the new keys when it has not.
Rekeyed(breakpoints) ==
    /\ dbg' = [dbg EXCEPT !.breakpoints = breakpoints]
    /\ \/ /\ at' = [at EXCEPT !["gdb"] = "bits", !["main"] = IF @ = "copy" THEN "dead" ELSE @]
          /\ UNCHANGED power
       \/ /\ at["main"] = "copy"
          /\ Go("gdb", "bits")
          /\ power' = [power EXCEPT !.todo = breakpoints]

\* add_breakpoint() notes the address, unless it has it ...
handle_set_breakpoint(a) ==
    /\ Receive("set", {a})
    /\ IF a \in dbg.breakpoints THEN Go("gdb", "send") /\ UNCHANGED <<dbg, power>>
       ELSE Rekeyed(dbg.breakpoints \cup {a})
    /\ UNCHANGED <<mach, comm, num, status>>

\* ... remove_breakpoint() forgets it, and raises when it does not have it ...
handle_unset_breakpoint(a) ==
    /\ Receive("unset", {a})
    /\ IF a \in dbg.breakpoints THEN Rekeyed(dbg.breakpoints \ {a}) /\ UNCHANGED comm
       ELSE Raise("gdb") /\ UNCHANGED <<dbg, power>>
    /\ UNCHANGED <<mach, num, status>>

\* ... and then each changes the mask of the machine of now.
MachineBreakpoint ==
    /\ at["gdb"] = "bits"
    /\ mach' = [mach EXCEPT !.mask = IF job.command = "set" THEN @ \cup job.addr ELSE @ \ job.addr]
    /\ Go("gdb", "send")
    /\ UNCHANGED <<dbg, comm, num, status, job, power>>

\* The debugger keeps no record of watchpoints; an access watchpoint is both.
handle_watchpoint(command, kinds) ==
    /\ Receive(command, {})
    /\ mach' = [mach EXCEPT !.watch = IF command = "watch" THEN @ \cup kinds ELSE @ \ kinds]
    /\ Go("gdb", "send")
    /\ UNCHANGED <<dbg, comm, num, status, power>>

Access ==
    /\ Receive("access", {})
    /\ Unlocked
    /\ Go("gdb", "send")
    /\ UNCHANGED <<dbg, mach, comm, num, status, power>>

\* Registers and memory are read and written under the machine's lock.
handle_get_regs == Access
handle_set_reg == Access
handle_read_mem == Access
handle_write_mem == Access

Fails ==
    /\ Receive("raise", {})
    /\ Raise("gdb")
    /\ UNCHANGED <<dbg, mach, num, status, power>>

\* handle_get_reg() sends a RegisterValue, which has no regs to print ...
handle_get_reg == Unlocked /\ Fails

\* ... handle_set_regs() unpacks each register into two ...
handle_set_regs == Fails

\* ... and some messages do not parse, or have an address that is not aligned.
Malformed == Fails

handle_detach ==
    /\ Receive("detach", {})
    /\ Go("gdb", "reset")
    /\ UNCHANGED <<dbg, mach, comm, num, status, power>>

Handlers ==
    \/ handle_stop \/ handle_continue \/ handle_step
    \/ \E a \in Addr : handle_set_breakpoint(a) \/ handle_unset_breakpoint(a)
    \/ \E kinds \in SUBSET Watch \ {{}}, command \in {"watch", "unwatch"} : handle_watchpoint(command, kinds)
    \/ handle_get_regs \/ handle_set_reg \/ handle_read_mem \/ handle_write_mem
    \/ handle_get_reg \/ handle_set_regs \/ Malformed
    \/ handle_detach

\* The client has hung up or detached, or the server is shutting down:
\* Disconnect() is handled.
HangUp ==
    /\ at["gdb"] = "idle"
    /\ job' = [command |-> "hangup", addr |-> {}]
    /\ Go("gdb", "reset")
    /\ UNCHANGED <<dbg, mach, comm, num, status, power>>

\* reset_debugging() ...
ResetStopped ==
    /\ at["gdb"] = "reset"
    /\ dbg' = [dbg EXCEPT !.stopped = FALSE]
    /\ Go("gdb", "unmask")
    /\ UNCHANGED <<mach, comm, num, status, job, power>>

ResetMasks ==
    /\ at["gdb"] = "unmask"
    /\ mach' = [mach EXCEPT !.mask = {}, !.watch = {}]
    /\ Go("gdb", "forget")
    /\ UNCHANGED <<dbg, comm, num, status, job, power>>

\* ... binds breakpoints to a new dictionary, which disturbs no loop.
ResetBreakpoints ==
    /\ at["gdb"] = "forget"
    /\ dbg' = [dbg EXCEPT !.breakpoints = {}]
    /\ Go("gdb", IF job.command = "detach" THEN "send" ELSE "close")
    /\ UNCHANGED <<mach, comm, num, status, job, power>>

\* handle() ends with disconnect().  get_factory_class() calls __init__ of
\* both parents, and so handle() once more on the closed request: it connects,
\* reads nothing and disconnects.
CloseSession ==
    /\ at["gdb"] = "close"
    /\ IF job.command = "again"
       THEN comm' = Disconnected /\ Go("gdb", "listen") /\ UNCHANGED job
       ELSE /\ comm' = [comm EXCEPT !.connected = TRUE, !.socket = "closed"]
            /\ job' = [job EXCEPT !.command = "again"]
            /\ Go("gdb", "reset")
    /\ UNCHANGED <<dbg, mach, num, status, power>>

\* The machine was deleted under a step_and_wait().
Orphaned ==
    /\ at["gdb"] = "orphan"
    /\ Raise("gdb")
    /\ UNCHANGED <<dbg, mach, num, status, job, power>>

Session == HangUp \/ ResetStopped \/ ResetMasks \/ ResetBreakpoints \/ CloseSession \/ Orphaned

Init ==
    /\ dbg = [stopped |-> FALSE, num_to_step |-> 0, breakpoints |-> {}, need_symbols |-> FALSE,
              current |-> TRUE]
    /\ mach = NewMachine
    /\ comm = [connected |-> FALSE, socket |-> "none", done |-> FALSE, sessions |-> 0]
    /\ at = [t \in Thread |-> IF t = "main" THEN "idle" ELSE "none"]
    /\ num = [t \in Thread |-> 0]
    /\ status = [t \in Thread |-> "None"]
    /\ job = NoJob
    /\ power = [on |-> TRUE, restarting |-> FALSE, todo |-> {}, count |-> 0]

Next ==
    \/ CpuStarts \/ CpuReturns \/ set_need_symbols
    \/ Main \/ Interrupt \/ power_off \/ start_listening \/ stop_listening
    \/ Accept \/ Handlers \/ MachineBreakpoint \/ Common("gdb") \/ Session

Spec == Init /\ [][Next]_vars

\* The main loop goes round and cpu.step() returns (Armv2!RunReturns).
Fairness == WF_vars(Main) /\ WF_vars(CpuStarts \/ CpuReturns)

FairSpec == Spec /\ Fairness

-----------------------------------------------------------------------------
(* Properties.                                                             *)

\* No breakpoint that the client has set is missing in the machine that runs,
\* also when the machine was switched off and on between add_breakpoint()'s
\* two statements or in the middle of reset_debugging().
BreakpointsHeld ==
    at["gdb"] \notin {"bits", "forget"} /\ at["main"] \notin {"copy", "dead"}
        => dbg.breakpoints \subseteq mach.mask

\* Once the debugger does not listen, the machine runs as if it never had.
\* debugger.py:218: "If there was a debugger connected it might have
\* breakpoints set up and have stopped the cpu. We need to disable all that".
QuietWhenOff ==
    at["gdb"] = "none" => dbg.breakpoints = {} /\ mach.mask = {} /\ mach.watch = {}

\* Without a client the debugger's symbols are those in the machine's memory
\* or will be read again, whenever a tape is loaded while they are read.
SymbolsFresh ==
    comm.sessions = 0 /\ at["main"] \notin {"copy", "load", "store"}
        => dbg.need_symbols \/ dbg.current

\* A machine that is on and not stopped gets its steps, whatever num_to_step
\* has come to between the two threads.
MachineRuns ==
    power.on /\ ~dbg.stopped
        ~> mach.request # 0 \/ dbg.stopped \/ ~power.on \/ at["main"] \in {"dead", "shutdown"}

\* comms/gdb.py:598: "Whatever happens, if the machine is stopped when we
\* disconnect, we need to resume it and clear any breakpoints and stuff".
SessionEndsClean ==
    at["gdb"] = "listen" /\ at["main"] = "idle" => ~dbg.stopped /\ mach.mask = {}
=============================================================================
