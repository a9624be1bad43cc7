--------------------------- MODULE Debugger_proofs ---------------------------
(***************************************************************************)
(* Proofs about the debugger's two threads, for any addresses, watchpoints,*)
(* frame lengths, numbers of sessions and restarts.                        *)
(***************************************************************************)
EXTENDS Debugger, TLAPS

-----------------------------------------------------------------------------
(* Types.                                                                  *)

\* The values of the variables: where the threads are, what a client may
\* command, and the fields of the debugger, the machine and the server.
Place == {"idle", "none", "listen", "orphan", "resume", "num", "sub", "step", "wait", "after",
          "load", "store", "result", "send", "socket", "stopped?", "stepping?", "delete", "new",
          "copy", "shutdown", "dead", "bits", "reset", "unmask", "forget", "close"}

Command == {"none", "stop", "continue", "step", "set", "unset", "watch", "unwatch", "access",
            "raise", "detach", "hangup", "again"}

Dbg   == [stopped : BOOLEAN, num_to_step : Int, breakpoints : SUBSET Addr,
          need_symbols : BOOLEAN, current : BOOLEAN]
Mach  == [mask : SUBSET Addr, watch : SUBSET Watch, request : Int, busy : BOOLEAN,
          status : Status, up : BOOLEAN, read : SUBSET Thread]
Comm  == [connected : BOOLEAN, socket : {"none", "open", "closed"}, done : BOOLEAN,
          sessions : Nat]
Job   == [command : Command, addr : SUBSET Addr]
Power == [on : BOOLEAN, restarting : BOOLEAN, todo : SUBSET Addr, count : Nat]

DebuggerTypeOK ==
    /\ dbg \in Dbg
    /\ mach \in Mach
    /\ comm \in Comm
    /\ at \in [Thread -> Place]
    /\ num \in [Thread -> Int]
    /\ status \in [Thread -> Status \cup {"None", "unbound"}]
    /\ job \in Job
    /\ power \in Power

\* The records that the actions make.
LEMMA DbgForms ==
    \A d \in Dbg :
        /\ [d EXCEPT !.stopped = FALSE] \in Dbg
        /\ [d EXCEPT !.stopped = TRUE] \in Dbg
        /\ [d EXCEPT !.stopped = FALSE, !.breakpoints = {}] \in Dbg
        /\ [d EXCEPT !.need_symbols = FALSE] \in Dbg
        /\ [d EXCEPT !.current = FALSE] \in Dbg
        /\ [d EXCEPT !.current = FALSE, !.need_symbols = TRUE] \in Dbg
        /\ \A n \in Int : /\ [d EXCEPT !.num_to_step = n] \in Dbg
                          /\ [d EXCEPT !.num_to_step = @ - n] \in Dbg
        /\ \A b \in BOOLEAN : [d EXCEPT !.current = b] \in Dbg
        /\ \A s \in SUBSET Addr : [d EXCEPT !.breakpoints = s] \in Dbg
  <1> TAKE d \in Dbg
  <1>1. \A n \in Int : /\ [d EXCEPT !.num_to_step = n] \in Dbg
                       /\ [d EXCEPT !.num_to_step = @ - n] \in Dbg
    BY SMT DEF Dbg
  <1>2. /\ [d EXCEPT !.stopped = FALSE] \in Dbg
        /\ [d EXCEPT !.stopped = TRUE] \in Dbg
        /\ [d EXCEPT !.stopped = FALSE, !.breakpoints = {}] \in Dbg
        /\ [d EXCEPT !.need_symbols = FALSE] \in Dbg
        /\ [d EXCEPT !.current = FALSE] \in Dbg
        /\ [d EXCEPT !.current = FALSE, !.need_symbols = TRUE] \in Dbg
    BY Zenon DEF Dbg
  <1>3. \A b \in BOOLEAN : [d EXCEPT !.current = b] \in Dbg
    BY Zenon DEF Dbg
  <1>4. \A s \in SUBSET Addr : [d EXCEPT !.breakpoints = s] \in Dbg
    BY Zenon DEF Dbg
  <1>5. QED
    BY <1>1, <1>2, <1>3, <1>4, Zenon

LEMMA MachForms ==
    \A m \in Mach :
        /\ [m EXCEPT !.busy = TRUE] \in Mach
        /\ [m EXCEPT !.up = FALSE] \in Mach
        /\ [m EXCEPT !.mask = {}, !.watch = {}] \in Mach
        /\ [m EXCEPT !.request = IF @ = 0 THEN 1 ELSE @] \in Mach
        /\ \A n \in Int : [m EXCEPT !.request = n] \in Mach
        /\ \A x \in Status : [m EXCEPT !.busy = FALSE, !.request = 0, !.status = x] \in Mach
        /\ \A r \in SUBSET Thread : [m EXCEPT !.read = r] \in Mach
        /\ \A s \in SUBSET Addr : [m EXCEPT !.mask = s] \in Mach
        /\ \A w \in SUBSET Watch : [m EXCEPT !.watch = w] \in Mach
  <1> TAKE m \in Mach
  <1>1. /\ \A n \in Int : [m EXCEPT !.request = n] \in Mach
        /\ [m EXCEPT !.request = IF @ = 0 THEN 1 ELSE @] \in Mach
    BY SMT DEF Mach
  <1>2. 0 \in Int
    OBVIOUS
  <1>3. \A x \in Status : [m EXCEPT !.busy = FALSE, !.request = 0, !.status = x] \in Mach
    BY <1>2, Zenon DEF Mach
  <1>4. /\ [m EXCEPT !.busy = TRUE] \in Mach
        /\ [m EXCEPT !.up = FALSE] \in Mach
        /\ [m EXCEPT !.mask = {}, !.watch = {}] \in Mach
    BY Zenon DEF Mach
  <1>5. \A r \in SUBSET Thread : [m EXCEPT !.read = r] \in Mach
    BY Zenon DEF Mach
  <1>6. \A s \in SUBSET Addr : [m EXCEPT !.mask = s] \in Mach
    BY Zenon DEF Mach
  <1>7. \A w \in SUBSET Watch : [m EXCEPT !.watch = w] \in Mach
    BY Zenon DEF Mach
  <1>8. QED
    BY <1>1, <1>3, <1>4, <1>5, <1>6, <1>7, Zenon

LEMMA CommForms ==
    \A k \in Comm :
        /\ [k EXCEPT !.socket = "closed"] \in Comm
        /\ [k EXCEPT !.connected = FALSE] \in Comm
        /\ [k EXCEPT !.connected = FALSE, !.socket = "none"] \in Comm
        /\ [k EXCEPT !.connected = TRUE, !.socket = "closed"] \in Comm
        /\ [k EXCEPT !.connected = TRUE, !.socket = "open", !.sessions = @ + 1] \in Comm
        /\ [k EXCEPT !.done = FALSE] \in Comm
        /\ [k EXCEPT !.done = TRUE] \in Comm
  <1> TAKE k \in Comm
  <1>1. k.sessions + 1 \in Nat
    BY DEF Comm
  <1>2. QED
    BY <1>1, Zenon DEF Comm

LEMMA PowerForms ==
    \A p \in Power :
        /\ [p EXCEPT !.on = TRUE, !.restarting = FALSE] \in Power
        /\ [p EXCEPT !.on = FALSE] \in Power
        /\ [p EXCEPT !.restarting = TRUE, !.count = @ + 1] \in Power
        /\ \A s \in SUBSET Addr : [p EXCEPT !.todo = s] \in Power
  <1> TAKE p \in Power
  <1>1. p.count + 1 \in Nat
    BY DEF Power
  <1>2. QED
    BY <1>1, Zenon DEF Power

LEMMA JobForms ==
    /\ NoJob \in Job
    /\ \A k \in Command, s \in SUBSET Addr : [command |-> k, addr |-> s] \in Job
    /\ \A j \in Job, k \in Command : [j EXCEPT !.command = k] \in Job
  BY DEF Job, NoJob, Command

LEMMA NewMachineType == NewMachine \in Mach
  BY DEF NewMachine, Mach, Status

LEMMA TypeInit == Init => DebuggerTypeOK
  <1>1. Init => dbg \in Dbg /\ mach \in Mach /\ comm \in Comm /\ power \in Power /\ job \in Job
    BY DEF Init, Dbg, Mach, Comm, Power, Job, NewMachine, NoJob, Command, Status
  <1>2. Init => at \in [Thread -> Place] /\ num \in [Thread -> Int]
    BY DEF Init, Place, Thread
  <1>3. Init => status \in [Thread -> Status \cup {"None", "unbound"}]
    BY DEF Init
  <1>4. QED
    BY <1>1, <1>2, <1>3 DEF DebuggerTypeOK

LEMMA Fields ==
    ASSUME DebuggerTypeOK
    PROVE  /\ dbg.num_to_step \in Int /\ dbg.breakpoints \in SUBSET Addr
           /\ mach.mask \in SUBSET Addr /\ mach.watch \in SUBSET Watch
           /\ mach.status \in Status /\ mach.read \in SUBSET Thread
           /\ job.command \in Command /\ job.addr \in SUBSET Addr
           /\ power.todo \in SUBSET Addr /\ comm.sessions \in Nat
  BY DEF DebuggerTypeOK, Dbg, Mach, Job, Power, Comm

LEMMA Goes ==
    ASSUME DebuggerTypeOK, NEW t \in Thread, NEW p \in Place, Go(t, p)
    PROVE  at' \in [Thread -> Place] /\ at'[t] = p /\ \A u \in Thread \ {t} : at'[u] = at[u]
  BY DEF DebuggerTypeOK, Go

LEMMA Raises ==
    ASSUME DebuggerTypeOK, NEW t \in Thread, Raise(t)
    PROVE  /\ at' \in [Thread -> Place] /\ comm' \in Comm
           /\ at'[t] = IF t = "main" THEN "dead" ELSE "listen"
           /\ \A u \in Thread \ {t} : at'[u] = at[u]
           /\ comm'.sessions = comm.sessions
  <1>1. Go(t, IF t = "main" THEN "dead" ELSE "listen")
    BY DEF Raise
  <1>2. (IF t = "main" THEN "dead" ELSE "listen") \in Place
    BY DEF Place
  <1>3. comm' = comm \/ comm' = [comm EXCEPT !.socket = "closed"]
    BY DEF Raise
  <1>4. comm \in Comm
    BY DEF DebuggerTypeOK
  <1>5. comm' \in Comm
    BY <1>3, <1>4, CommForms
  <1>6. comm'.sessions = comm.sessions
    BY <1>3, <1>4 DEF Comm
  <1>7. QED
    BY <1>1, <1>2, <1>5, <1>6, Goes

LEMMA JobHandled ==
    ASSUME DebuggerTypeOK, Handled
    PROVE  job' \in Job
  <1>1. job' = NoJob \/ job' = job
    BY DEF Handled
  <1>2. QED
    BY <1>1, JobForms DEF DebuggerTypeOK

\* What both threads run.
LEMMA TypeCommon ==
    ASSUME DebuggerTypeOK, NEW t \in Thread, Common(t)
    PROVE  DebuggerTypeOK'
  <1> USE Fields DEF DebuggerTypeOK, Thread, Status
  <1>1. CASE Resume(t)
    BY <1>1, DbgForms, MachForms, CommForms, PowerForms, JobHandled DEF Resume, Go, Place
  <1>2. CASE ResumeNum(t)
    BY <1>2, DbgForms, MachForms, CommForms, PowerForms, JobHandled DEF ResumeNum, Go, Place
  <1>3. CASE Subtract(t)
    BY <1>3, DbgForms, MachForms, CommForms, PowerForms, JobHandled DEF Subtract, Go, Place
  <1>4. CASE StepDone(t)
    BY <1>4, DbgForms, MachForms, CommForms, PowerForms, JobHandled DEF StepDone, Go, Place
  <1>5. CASE AfterStep(t)
    BY <1>5, DbgForms, MachForms, CommForms, PowerForms, JobHandled DEF AfterStep, Go, Place
  <1>6. CASE ReadSymbols(t)
    BY <1>6, DbgForms, MachForms, CommForms, PowerForms, JobHandled DEF ReadSymbols, Go, Place
  <1>7. CASE Send(t)
    BY <1>7, DbgForms, MachForms, CommForms, PowerForms, JobHandled DEF Send, Go, Place
  <1>8. CASE StepAndWait(t)
    <2>1. at' \in [Thread -> Place] /\ comm' \in Comm
      BY <1>8, Raises DEF StepAndWait, Go, Place
    <2>2. mach' \in Mach
      <3>1. num[t] \in Int
        OBVIOUS
      <3>2. mach' = mach \/ mach' = [mach EXCEPT !.request = num[t]]
        BY <1>8 DEF StepAndWait
      <3>3. mach \in Mach
        OBVIOUS
      <3>4. QED
        BY ONLY <3>1, <3>2, <3>3, MachForms
    <2>3. QED
      BY <1>8, <2>1, <2>2 DEF StepAndWait
  <1>9. CASE StoreSymbols(t)
    <2>1. dbg' \in Dbg
      <3>1. dbg' = [dbg EXCEPT !.current = t \in mach.read]
        BY <1>9 DEF StoreSymbols
      <3>2. (t \in mach.read) \in BOOLEAN
        OBVIOUS
      <3>3. QED
        BY <3>1, <3>2, Zenon DEF Dbg
    <2>2. mach' \in Mach
      BY <1>9, MachForms DEF StoreSymbols
    <2>3. power' \in Power
      BY <1>9, PowerForms DEF StoreSymbols
    <2>4. at' \in [Thread -> Place]
      BY <1>9 DEF StoreSymbols, Go, Place
    <2>5. QED
      BY <1>9, <2>1, <2>2, <2>3, <2>4 DEF StoreSymbols
  <1>10. CASE Result(t)
    <2>1. at' \in [Thread -> Place] /\ comm' \in Comm
      BY <1>10, Raises DEF Result, Go, Place
    <2>2. dbg' \in Dbg
      BY <1>10, DbgForms DEF Result
    <2>3. job' \in Job
      BY <1>10, JobHandled DEF Result
    <2>4. num' \in [Thread -> Int] /\ status' \in [Thread -> Status \cup {"None", "unbound"}]
      <3>1. num' = [num EXCEPT ![t] = 0] /\ status' = [status EXCEPT ![t] = "None"]
        BY <1>10 DEF Result
      <3>2. 0 \in Int /\ "None" \in Status \cup {"None", "unbound"}
        OBVIOUS
      <3>3. QED
        BY <3>1, <3>2
    <2>5. QED
      BY <1>10, <2>1, <2>2, <2>3, <2>4 DEF Result
  <1>11. CASE SendSocket(t)
    <2>1. comm.socket \in {"none", "open", "closed"}
      BY DEF Comm
    <2>2. at' \in [Thread -> Place] /\ comm' \in Comm
      BY <1>11, <2>1, Raises, CommForms DEF SendSocket, Go, Place
    <2>3. job' \in Job
      BY <1>11, JobHandled DEF SendSocket
    <2>4. QED
      BY <1>11, <2>2, <2>3 DEF SendSocket
  <1>12. QED
    BY <1>1, <1>2, <1>3, <1>4, <1>5, <1>6, <1>7, <1>8, <1>9, <1>10, <1>11 DEF Common


\* The main loop and the machine's thread.
LEMMA TypeMain ==
    ASSUME DebuggerTypeOK,
           CpuStarts \/ CpuReturns \/ set_need_symbols \/ Frame \/ PowerOn \/ Unlisten
              \/ Interrupt \/ power_off \/ start_listening \/ stop_listening
    PROVE  DebuggerTypeOK'
  <1> USE Fields DEF DebuggerTypeOK, Thread, Status
  <1>1. CASE CpuStarts
    BY <1>1, DbgForms, MachForms, CommForms, PowerForms DEF CpuStarts, Go, Place
  <1>2. CASE CpuReturns
    <2>1. PICK s \in Status : mach' = [mach EXCEPT !.busy = FALSE, !.request = 0, !.status = s]
      BY <1>2 DEF CpuReturns
    <2>2. mach \in Mach
      OBVIOUS
    <2>3. mach' \in Mach
      BY ONLY <2>1, <2>2, MachForms DEF Status
    <2>4. QED
      BY <1>2, <2>3 DEF CpuReturns
  <1>3. CASE set_need_symbols
    BY <1>3, DbgForms, MachForms, CommForms, PowerForms DEF set_need_symbols, Go, Place
  <1>4. CASE StepNum
    <2>1. FrameSteps \in Int /\ dbg \in Dbg
      BY DebuggerAssumption
    <2>2. dbg' \in Dbg
      BY ONLY <1>4, <2>1, DbgForms DEF StepNum
    <2>3. QED
      BY <1>4, <2>2 DEF StepNum, Go, Place
  <1>5. CASE TestStopped
    BY <1>5, DbgForms, MachForms, CommForms, PowerForms DEF TestStopped, Go, Place
  <1>6. CASE TestStepping
    BY <1>6, DbgForms, MachForms, CommForms, PowerForms DEF TestStepping, Go, Place
  <1>7. CASE power_on
    BY <1>7, DbgForms, MachForms, CommForms, PowerForms DEF power_on, Go, Place
  <1>8. CASE DeleteOld
    BY <1>8, DbgForms, MachForms, CommForms, PowerForms DEF DeleteOld, Go, Place
  <1>9. CASE new_machine
    BY <1>9, DbgForms, MachForms, CommForms, PowerForms, NewMachineType DEF new_machine, Go, Place
  <1>10. CASE CopyBreakpoints
    BY <1>10, DbgForms, MachForms, CommForms, PowerForms DEF CopyBreakpoints, Go, Place
  <1>11. CASE Unlisten
    BY <1>11, DbgForms, MachForms, CommForms, PowerForms DEF Unlisten, Go, Place
  <1>12. CASE Interrupt
    BY <1>12, DbgForms, MachForms, CommForms, PowerForms DEF Interrupt, Go, Place
  <1>13. CASE power_off
    BY <1>13, DbgForms, MachForms, CommForms, PowerForms DEF power_off, Go, Place
  <1>14. CASE start_listening
    BY <1>14, DbgForms, MachForms, CommForms, PowerForms DEF start_listening, Go, Place
  <1>15. CASE stop_listening
    BY <1>15, DbgForms, MachForms, CommForms, PowerForms DEF stop_listening, Go, Place, Disconnected
  <1>16. QED
    BY <1>1, <1>2, <1>3, <1>4, <1>5, <1>6, <1>7, <1>8, <1>9, <1>10, <1>11, <1>12, <1>13, <1>14, <1>15 DEF Frame, PowerOn

\* A message is received.
LEMMA Receives ==
    ASSUME DebuggerTypeOK, NEW k \in Command, NEW s \in SUBSET Addr, Receive(k, s)
    PROVE  at["gdb"] = "idle" /\ job' \in Job /\ job'.command = k /\ job'.addr = s
  BY JobForms DEF Receive

LEMMA Rekeys ==
    ASSUME DebuggerTypeOK, NEW s \in SUBSET Addr, Rekeyed(s)
    PROVE  dbg' \in Dbg /\ power' \in Power /\ at' \in [Thread -> Place]
  <1>1. dbg \in Dbg /\ power \in Power /\ at \in [Thread -> Place]
    BY DEF DebuggerTypeOK
  <1>2. dbg' = [dbg EXCEPT !.breakpoints = s]
    BY DEF Rekeyed
  <1>3. power' = power \/ power' = [power EXCEPT !.todo = s]
    BY DEF Rekeyed
  <1>4. at' \in [Thread -> Place]
    BY <1>1 DEF Rekeyed, Go, Thread, Place
  <1>5. dbg' \in Dbg
    BY ONLY <1>1, <1>2, DbgForms
  <1>6. power' \in Power
    BY ONLY <1>1, <1>3, PowerForms
  <1>7. QED
    BY <1>4, <1>5, <1>6

\* The gdb thread.
LEMMA TypeGdb ==
    ASSUME DebuggerTypeOK, Accept \/ Handlers \/ MachineBreakpoint \/ Session
    PROVE  DebuggerTypeOK'
  <1> USE Fields DEF DebuggerTypeOK, Thread, Status
  <1>1. CASE Accept
    BY <1>1, DbgForms, MachForms, CommForms, PowerForms, JobForms DEF Accept, Go, Place
  <1>2. CASE handle_stop
    <2>1. job' \in Job
      BY <1>2, Receives DEF handle_stop, Command
    <2>2. QED
      BY <1>2, <2>1, DbgForms, MachForms, CommForms, PowerForms, Raises DEF handle_stop, Go, Place
  <1>3. CASE handle_continue
    <2>1. job' \in Job
      BY <1>3, Receives DEF handle_continue, Command
    <2>2. QED
      BY <1>3, <2>1, DbgForms, MachForms, CommForms, PowerForms, Raises DEF handle_continue, Go, Place
  <1>4. CASE handle_step
    <2>1. job' \in Job
      BY <1>4, Receives DEF handle_step, Command
    <2>2. num' = [num EXCEPT !["gdb"] = 1] /\ num \in [Thread -> Int] /\ 1 \in Int
      BY <1>4 DEF handle_step
    <2>3. num' \in [Thread -> Int]
      BY ONLY <2>2
    <2>4. QED
      BY <1>4, <2>1, <2>3 DEF handle_step, Go, Place
  <1>5. CASE Access
    <2>1. job' \in Job
      BY <1>5, Receives DEF Access, Command
    <2>2. QED
      BY <1>5, <2>1, DbgForms, MachForms, CommForms, PowerForms, Raises DEF Access, Go, Place
  <1>6. CASE Fails
    <2>1. job' \in Job
      BY <1>6, Receives DEF Fails, Command
    <2>2. QED
      BY <1>6, <2>1, DbgForms, MachForms, CommForms, PowerForms, Raises DEF Fails, Go, Place
  <1>7. CASE handle_detach
    <2>1. job' \in Job
      BY <1>7, Receives DEF handle_detach, Command
    <2>2. QED
      BY <1>7, <2>1, DbgForms, MachForms, CommForms, PowerForms, Raises DEF handle_detach, Go, Place
  <1>8. ASSUME NEW a \in Addr, handle_set_breakpoint(a) PROVE DebuggerTypeOK'
    <2>1. job' \in Job
      BY <1>8, Receives DEF handle_set_breakpoint, Command
    <2>2. dbg' \in Dbg /\ power' \in Power
      BY <1>8, Rekeys DEF handle_set_breakpoint
    <2>3. at' \in [Thread -> Place] /\ comm' \in Comm
      BY <1>8, Raises DEF handle_set_breakpoint, Rekeyed, Go, Place
    <2>4. QED
      BY <1>8, <2>1, <2>2, <2>3 DEF handle_set_breakpoint
  <1>9. ASSUME NEW a \in Addr, handle_unset_breakpoint(a) PROVE DebuggerTypeOK'
    <2>1. job' \in Job
      BY <1>9, Receives DEF handle_unset_breakpoint, Command
    <2>2. dbg' \in Dbg /\ power' \in Power
      BY <1>9, Rekeys DEF handle_unset_breakpoint
    <2>3. at' \in [Thread -> Place] /\ comm' \in Comm
      BY <1>9, Raises DEF handle_unset_breakpoint, Rekeyed, Go, Place
    <2>4. QED
      BY <1>9, <2>1, <2>2, <2>3 DEF handle_unset_breakpoint
  <1>10. ASSUME NEW kinds \in SUBSET Watch, NEW command \in {"watch", "unwatch"},
               handle_watchpoint(command, kinds)
        PROVE  DebuggerTypeOK' 
    <2>1. job' \in Job
      BY <1>10, Receives DEF handle_watchpoint, Command
    <2>2. mach' \in Mach
      BY <1>10, MachForms DEF handle_watchpoint
    <2>3. QED
      BY <1>10, <2>1, <2>2 DEF handle_watchpoint, Go, Place
  <1>11. CASE MachineBreakpoint
    BY <1>11, DbgForms, MachForms, CommForms, PowerForms DEF MachineBreakpoint, Go, Place
  <1>12. CASE HangUp
    BY <1>12, DbgForms, MachForms, CommForms, PowerForms, JobForms DEF HangUp, Go, Place, Command
  <1>13. CASE ResetStopped
    BY <1>13, DbgForms, MachForms, CommForms, PowerForms, JobForms DEF ResetStopped, Go, Place, Command
  <1>14. CASE ResetMasks
    BY <1>14, DbgForms, MachForms, CommForms, PowerForms, JobForms DEF ResetMasks, Go, Place, Command
  <1>15. CASE ResetBreakpoints
    BY <1>15, DbgForms, MachForms, CommForms, PowerForms, JobForms DEF ResetBreakpoints, Go, Place, Command
  <1>16. CASE CloseSession
    <2>1. comm' \in Comm /\ job' \in Job
      BY <1>16, CommForms, JobForms DEF CloseSession, Disconnected, Command
    <2>2. QED
      BY <1>16, <2>1 DEF CloseSession, Go, Place
  <1>17. CASE Orphaned
    BY <1>17, Raises DEF Orphaned
  <1>18. QED
    BY <1>1, <1>2, <1>3, <1>4, <1>5, <1>6, <1>7, <1>8, <1>9, <1>10, <1>11, <1>12, <1>13, <1>14, <1>15, <1>16, <1>17 DEF Handlers, Session,
      handle_get_regs, handle_set_reg, handle_read_mem, handle_write_mem, handle_get_reg,
      handle_set_regs, Malformed

LEMMA TypeNext == DebuggerTypeOK /\ [Next]_vars => DebuggerTypeOK'
  <1> SUFFICES ASSUME DebuggerTypeOK, [Next]_vars PROVE DebuggerTypeOK'
    OBVIOUS
  <1>1. CASE UNCHANGED vars
    BY <1>1 DEF vars, DebuggerTypeOK
  <1>2. CASE Common("main") \/ Common("gdb")
    BY <1>2, TypeCommon DEF Thread
  <1>3. CASE Next /\ ~(Common("main") \/ Common("gdb"))
    BY <1>3, TypeMain, TypeGdb DEF Next, Main
  <1>4. QED
    BY <1>1, <1>2, <1>3

-----------------------------------------------------------------------------
(* The invariant.                                                          *)

\* Nothing is left of the debugger in a machine whose debugger does not
\* listen, nor on its way there from a new_machine() that has begun.
QuietInv ==
    /\ at["gdb"] = "none" => /\ dbg.breakpoints = {} /\ power.todo = {}
                             /\ mach.mask = {} /\ mach.watch = {}
    /\ at["main"] \notin {"copy", "dead"} => power.todo = {}

\* What the gdb thread is about to change in the mask.
InHand == IF at["gdb"] = "bits" THEN job.addr ELSE {}

\* Every breakpoint is in the mask, on its way there from new_machine(), or in
\* the hand of a handler that sets it; one that is being removed is no longer
\* among the breakpoints.
HeldInv ==
    /\ at["main"] # "dead" /\ at["gdb"] # "forget"
          => dbg.breakpoints \subseteq mach.mask \cup power.todo \cup InHand
    /\ at["gdb"] = "bits" =>
          \/ job.command = "set"
          \/ job.command = "unset" /\ job.addr \cap dbg.breakpoints = {}

\* Before the first client nobody else reads symbols, and what the main loop
\* is about to store is either that of now or will be read again.
FreshInv ==
    comm.sessions = 0 =>
        /\ at["gdb"] \in {"none", "listen"}
        /\ at["main"] \notin {"copy", "load", "store"} => dbg.need_symbols \/ dbg.current
        /\ at["main"] = "store" => "main" \in mach.read \/ dbg.need_symbols

\* The inductive invariant.
DebuggerInv == DebuggerTypeOK /\ QuietInv /\ HeldInv /\ FreshInv

LEMMA InvInit == Init => DebuggerInv
  BY TypeInit DEF DebuggerInv, QuietInv, HeldInv, FreshInv, InHand, Init, NewMachine, Thread

\* What both threads run touches neither breakpoints nor masks, and moves on
\* between places that the invariant does not speak of.
LEMMA InvCommon ==
    ASSUME DebuggerInv, DebuggerTypeOK', NEW t \in Thread, Common(t)
    PROVE  QuietInv' /\ HeldInv' /\ FreshInv'
  <1> USE DEF DebuggerInv, DebuggerTypeOK, QuietInv, HeldInv, FreshInv, InHand,
              Dbg, Mach, Power, Comm, Thread
  <1>1. CASE Resume(t)
    BY <1>1 DEF Resume, Go, Raise, Handled
  <1>2. CASE ResumeNum(t)
    BY <1>2 DEF ResumeNum, Go, Raise, Handled
  <1>3. CASE Subtract(t)
    BY <1>3 DEF Subtract, Go, Raise, Handled
  <1>4. CASE StepAndWait(t)
    BY <1>4 DEF StepAndWait, Go, Raise, Handled
  <1>5. CASE StepDone(t)
    BY <1>5 DEF StepDone, Go, Raise, Handled
  <1>6. CASE AfterStep(t)
    BY <1>6 DEF AfterStep, Go, Raise, Handled
  <1>7. CASE ReadSymbols(t)
    BY <1>7 DEF ReadSymbols, Go, Raise, Handled
  <1>8. CASE StoreSymbols(t)
    BY <1>8 DEF StoreSymbols, Go, Raise, Handled
  <1>9. CASE Result(t)
    BY <1>9 DEF Result, Go, Raise, Handled
  <1>10. CASE Send(t)
    BY <1>10 DEF Send, Go, Raise, Handled
  <1>11. CASE SendSocket(t)
    <2>1. comm.socket \in {"none", "open", "closed"}
      OBVIOUS
    <2>2. \/ Raise(t)
          \/ Go(t, "idle") /\ comm' = [comm EXCEPT !.connected = FALSE]
          \/ Go(t, "idle") /\ UNCHANGED comm
      BY <1>11, <2>1 DEF SendSocket
    <2>3. CASE Raise(t)
      BY <1>11, <2>3, Raises DEF SendSocket, Handled
    <2>4. CASE Go(t, "idle") /\ comm' = [comm EXCEPT !.connected = FALSE]
      BY <1>11, <2>4 DEF SendSocket, Go, Handled
    <2>5. CASE Go(t, "idle") /\ UNCHANGED comm
      BY <1>11, <2>5 DEF SendSocket, Go, Handled
    <2>6. QED
      BY <2>2, <2>3, <2>4, <2>5
  <1>12. QED
    BY <1>1, <1>2, <1>3, <1>4, <1>5, <1>6, <1>7, <1>8, <1>9, <1>10, <1>11 DEF Common

\* The main loop and the machine's thread.
LEMMA InvMain ==
    ASSUME DebuggerInv, DebuggerTypeOK',
           CpuStarts \/ CpuReturns \/ set_need_symbols \/ Frame \/ PowerOn \/ Unlisten
              \/ Interrupt \/ power_off \/ start_listening \/ stop_listening
    PROVE  QuietInv' /\ HeldInv' /\ FreshInv'
  <1> USE DEF DebuggerInv, DebuggerTypeOK, QuietInv, HeldInv, FreshInv, InHand,
              Dbg, Mach, Power, Comm, Thread
  <1>1. CASE CpuStarts
    BY <1>1 DEF CpuStarts, Go
  <1>2. CASE CpuReturns
    BY <1>2 DEF CpuReturns, Go
  <1>3. CASE set_need_symbols
    BY <1>3 DEF set_need_symbols, Go
  <1>4. CASE StepNum
    BY <1>4 DEF StepNum, Go
  <1>5. CASE TestStopped
    BY <1>5 DEF TestStopped, Go
  <1>6. CASE TestStepping
    BY <1>6 DEF TestStepping, Go
  <1>7. CASE power_on
    BY <1>7 DEF power_on, Go
  <1>8. CASE DeleteOld
    BY <1>8 DEF DeleteOld, Go
  <1>9. CASE new_machine
    BY <1>9 DEF new_machine, Go, NewMachine
  <1>10. CASE CopyBreakpoints
    BY <1>10 DEF CopyBreakpoints, Go
  <1>11. CASE Unlisten
    BY <1>11 DEF Unlisten, Go
  <1>12. CASE Interrupt
    BY <1>12 DEF Interrupt, Go
  <1>13. CASE power_off
    BY <1>13 DEF power_off, Go
  <1>14. CASE start_listening
    BY <1>14 DEF start_listening, Go
  <1>15. CASE stop_listening
    BY <1>15 DEF stop_listening, Go, Disconnected
  <1>16. QED
    BY <1>1, <1>2, <1>3, <1>4, <1>5, <1>6, <1>7, <1>8, <1>9, <1>10, <1>11, <1>12, <1>13, <1>14, <1>15 DEF Frame, PowerOn

\* The gdb thread.
LEMMA InvGdb ==
    ASSUME DebuggerInv, DebuggerTypeOK', Accept \/ Handlers \/ MachineBreakpoint \/ Session
    PROVE  QuietInv' /\ HeldInv' /\ FreshInv'
  <1> USE DEF DebuggerInv, DebuggerTypeOK, QuietInv, HeldInv, FreshInv, InHand,
              Dbg, Mach, Power, Comm, Thread
  <1>1. CASE Accept
    BY <1>1 DEF Accept, Go
  <1>2. CASE handle_stop
    BY <1>2 DEF handle_stop, Receive, Go
  <1>3. CASE handle_continue
    BY <1>3 DEF handle_continue, Receive, Go
  <1>4. CASE handle_step
    BY <1>4 DEF handle_step, Receive, Go
  <1>5. CASE Access
    BY <1>5 DEF Access, Receive, Go
  <1>6. CASE Fails
    BY <1>6, Raises DEF Fails, Receive, Go
  <1>7. CASE handle_detach
    BY <1>7 DEF handle_detach, Receive, Go
  <1>8. ASSUME NEW a \in Addr, handle_set_breakpoint(a) PROVE QuietInv' /\ HeldInv' /\ FreshInv'
    BY <1>8, Raises DEF handle_set_breakpoint, Receive, Rekeyed, Go
  <1>9. ASSUME NEW a \in Addr, handle_unset_breakpoint(a) PROVE QuietInv' /\ HeldInv' /\ FreshInv'
    BY <1>9, Raises DEF handle_unset_breakpoint, Receive, Rekeyed, Go
  <1>10. ASSUME NEW kinds \in SUBSET Watch, NEW command \in {"watch", "unwatch"},
               handle_watchpoint(command, kinds)
        PROVE  QuietInv' /\ HeldInv' /\ FreshInv'
    BY <1>10 DEF handle_watchpoint, Receive, Go
  <1>11. CASE MachineBreakpoint
    BY <1>11 DEF MachineBreakpoint, Go
  <1>12. CASE HangUp
    BY <1>12 DEF HangUp, Go
  <1>13. CASE ResetStopped
    BY <1>13 DEF ResetStopped, Go
  <1>14. CASE ResetMasks
    BY <1>14 DEF ResetMasks, Go
  <1>15. CASE ResetBreakpoints
    BY <1>15 DEF ResetBreakpoints, Go
  <1>16. CASE CloseSession
    <2>1. comm.sessions # 0
      BY <1>16 DEF CloseSession
    <2>2. \/ comm' = [comm EXCEPT !.connected = FALSE, !.socket = "none"]
          \/ comm' = [comm EXCEPT !.connected = TRUE, !.socket = "closed"]
      BY <1>16 DEF CloseSession, Disconnected
    <2>3. comm'.sessions = comm.sessions
      BY <2>2
    <2>4. UNCHANGED <<dbg, mach, power>> /\ at'["main"] = at["main"] /\ at'["gdb"] \in {"listen", "reset"}
      BY <1>16 DEF CloseSession, Go
    <2>5. at["gdb"] = "close"
      BY <1>16 DEF CloseSession
    <2>6. QED
      BY <2>1, <2>3, <2>4, <2>5
  <1>17. CASE Orphaned
    BY <1>17, Raises DEF Orphaned, Go
  <1>18. QED
    BY <1>1, <1>2, <1>3, <1>4, <1>5, <1>6, <1>7, <1>8, <1>9, <1>10, <1>11, <1>12, <1>13, <1>14, <1>15, <1>16, <1>17 DEF Handlers, Session,
      handle_get_regs, handle_set_reg, handle_read_mem, handle_write_mem, handle_get_reg,
      handle_set_regs, Malformed

LEMMA InvNext == DebuggerInv /\ [Next]_vars => DebuggerInv'
  <1> SUFFICES ASSUME DebuggerInv, [Next]_vars PROVE DebuggerInv'
    OBVIOUS
  <1>1. DebuggerTypeOK'
    BY TypeNext DEF DebuggerInv
  <1>2. CASE UNCHANGED vars
    BY <1>1, <1>2 DEF vars, DebuggerInv, QuietInv, HeldInv, FreshInv, InHand
  <1>3. CASE Common("main") \/ Common("gdb")
    BY <1>1, <1>3, InvCommon DEF Thread, DebuggerInv
  <1>4. CASE Next /\ ~(Common("main") \/ Common("gdb"))
    BY <1>1, <1>4, InvMain, InvGdb DEF Next, Main, DebuggerInv
  <1>5. QED
    BY <1>2, <1>3, <1>4

LEMMA InvHolds == Spec => []DebuggerInv
  BY InvInit, InvNext, PTL DEF Spec

-----------------------------------------------------------------------------
(* Theorems.                                                               *)

\* The machine that runs has every breakpoint that the client has set, whatever
\* the two threads interleave and however often the machine is replaced.
THEOREM NoBreakpointMissing == Spec => []BreakpointsHeld
  <1>1. DebuggerInv => BreakpointsHeld
    BY DEF DebuggerInv, QuietInv, HeldInv, InHand, BreakpointsHeld
  <1>2. QED
    BY <1>1, InvHolds, PTL

\* A debugger that does not listen has left nothing behind.
THEOREM LeavesNothing == Spec => []QuietWhenOff
  <1>1. DebuggerInv => QuietWhenOff
    BY DEF DebuggerInv, QuietInv, QuietWhenOff
  <1>2. QED
    BY <1>1, InvHolds, PTL

\* Symbols of a tape that is loaded while symbols are read are read again.
THEOREM SymbolsStayFresh == Spec => []SymbolsFresh
  <1>1. DebuggerInv => SymbolsFresh
    BY DEF DebuggerInv, FreshInv, SymbolsFresh
  <1>2. QED
    BY <1>1, InvHolds, PTL
=============================================================================
