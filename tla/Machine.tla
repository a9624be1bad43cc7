------------------------------ MODULE Machine -------------------------------
(***************************************************************************)
(* The threads of one emulated machine (class Machine of hardware.py): the *)
(* thread that runs the processor and the threads that ask it to, which    *)
(* share the fields steps_to_run, status and running under the condition   *)
(* variable cv.                                                            *)
(*                                                                         *)
(* A block of code between taking cv and releasing or waiting on it is one *)
(* action, except cpu.step(), which runs with the lock held and next to    *)
(* the tape drive's unlocked interrupts.  The processor is kept as far as  *)
(* Machine tells its states apart: whether it is parked in a wait for an   *)
(* interrupt and whether the interrupt pin is on; module Armv2 has the     *)
(* rest.                                                                   *)
(***************************************************************************)
EXTENDS Integers, Sequences, SequencesExt

CONSTANTS
    Caller,        \* the threads that use the machine: the main loop, gdb
    Steps,         \* numbers of instructions they ask for
    StartedFirst   \* TRUE: no caller uses the machine before its thread has
                   \* taken the lock for the first time

ASSUME MachineAssumption ==
    /\ {"cpu", "tape"} \cap Caller = {}
    /\ Steps \subseteq Nat \ {0}
    /\ StartedFirst \in BOOLEAN

VARIABLES
    active,        \* who uses this machine as long as it lives: callers, and
                   \* the tape drive with its interrupts (hardware.py:370)
    thread,        \* where each thread is
    waiters,       \* the threads in cv.wait(), longest waiting first
    running, steps_to_run, status,
    parked,        \* cpu->flags has WAIT
    pin            \* cpu->pins has I

vars == <<active, thread, waiters, running, steps_to_run, status, parked, pin>>

Thread == Caller \cup {"cpu"}
CpuPlace    == {"start", "wait", "woken", "step", "spin", "done"}
CallerPlace == {"idle", "test", "wait", "join", "gone"}
Status      == {"OK", "WAIT_FOR_INTERRUPT", "BREAKPOINT"}

\* cv is a plain lock: the machine's thread holds it while it steps or spins.
LockFree == thread["cpu"] \notin {"step", "spin"}

\* Where a thread goes on when its cv.wait() ends, once it has the lock.
Woken(t) == IF t = "cpu" THEN "woken" ELSE "test"

\* cv.notify() ends the longest wait; "places" is where the threads are
\* otherwise.
notify(places) ==
    IF waiters = <<>>
    THEN thread' = places /\ waiters' = waiters
    ELSE /\ thread' = [places EXCEPT ![Head(waiters)] = Woken(Head(waiters))]
         /\ waiters' = Tail(waiters)

\* A wait that times out takes its lock out of the queue.
Without(t) == RemoveAt(waiters, CHOOSE i \in DOMAIN waiters : waiters[i] = t)

-----------------------------------------------------------------------------
(* The machine's thread.                                                   *)

\* The condition of the loop in thread_main_loop.
Rests == steps_to_run = 0 \/ (status = "WAIT_FOR_INTERRUPT" /\ ~pin)

\* The thread takes the lock for the first time and comes to the loop.  When
\* steps are already wanted the loop does not run, and thread_main calls it
\* again for ever with the lock held.
thread_main ==
    /\ thread["cpu"] = "start"
    /\ IF ~running
       THEN thread' = [thread EXCEPT !["cpu"] = "done"] /\ UNCHANGED waiters
       ELSE IF Rests
       THEN thread' = [thread EXCEPT !["cpu"] = "wait"] /\ waiters' = Append(waiters, "cpu")
       ELSE thread' = [thread EXCEPT !["cpu"] = "spin"] /\ UNCHANGED waiters
    /\ UNCHANGED <<active, running, steps_to_run, status, parked, pin>>

\* Mutant of EndBody: the thread waits again although the machine is deleted.
EndBody_IgnoresDelete ==
    /\ steps_to_run' = 0
    /\ thread' = [t \in Thread |-> IF t = "cpu" THEN "wait"
                                   ELSE IF waiters # <<>> /\ t = Head(waiters) THEN "test" ELSE thread[t]]
    /\ waiters' = Append(IF waiters = <<>> THEN <<>> ELSE Tail(waiters), "cpu")

\* The end of the loop's body: the request is over, one waiting thread is
\* told, and the thread waits again unless the machine was deleted.
EndBody ==
    /\ steps_to_run' = 0
    /\ LET told  == IF waiters = <<>> THEN {} ELSE {Head(waiters)}
           rest  == IF waiters = <<>> THEN <<>> ELSE Tail(waiters)
       IN  /\ thread' = [t \in Thread |-> IF t = "cpu" THEN (IF running THEN "wait" ELSE "done")
                                          ELSE IF t \in told THEN "test" ELSE thread[t]]
           /\ waiters' = IF running THEN Append(rest, "cpu") ELSE rest

\* cv.wait(5) has returned, notified or not: nothing to do ...
WakeIdle ==
    /\ thread["cpu"] = "woken"
    /\ steps_to_run = 0
    /\ EndBody
    /\ UNCHANGED <<active, running, status, parked, pin>>

\* ... or steps to run, even when the machine has been deleted meanwhile.
WakeStep ==
    /\ thread["cpu"] = "woken"
    /\ steps_to_run > 0
    /\ thread' = [thread EXCEPT !["cpu"] = "step"]
    /\ UNCHANGED <<active, waiters, running, steps_to_run, status, parked, pin>>

\* cpu.step() returns.  A parked processor without an interrupt does nothing;
\* a parked one with an interrupt takes it, since it has IRQs enabled; any
\* other may or may not take a pending interrupt.
StepReturns ==
    /\ thread["cpu"] = "step"
    /\ IF parked /\ ~pin
       THEN status' = "WAIT_FOR_INTERRUPT" /\ UNCHANGED <<parked, pin>>
       ELSE \E out \in Status :
               /\ status' = out
               /\ parked' = (out = "WAIT_FOR_INTERRUPT")
               /\ pin' \in (IF parked \/ out = "WAIT_FOR_INTERRUPT" THEN {FALSE} ELSE {FALSE, pin})
    /\ EndBody
    /\ UNCHANGED <<active, running>>

\* Mutants of CpuTimeout: the thread stays in cv's queue; there is no timeout.
CpuTimeout_StaysQueued ==
    /\ thread["cpu"] = "wait"
    /\ thread' = [thread EXCEPT !["cpu"] = "woken"]
    /\ UNCHANGED <<active, waiters, running, steps_to_run, status, parked, pin>>

CpuTimeout_Never == FALSE /\ UNCHANGED vars

\* The timeout of cv.wait(5).
CpuTimeout ==
    /\ thread["cpu"] = "wait"
    /\ thread' = [thread EXCEPT !["cpu"] = "woken"]
    /\ waiters' = Without("cpu")
    /\ UNCHANGED <<active, running, steps_to_run, status, parked, pin>>

-----------------------------------------------------------------------------
(* The callers.                                                            *)

Ready(t) ==
    /\ t \in active
    /\ thread[t] = "idle"
    /\ LockFree
    /\ StartedFirst => thread["cpu"] # "start"

\* Mutant of step: the request is stored and nobody is told.
step_Silent(t, num) ==
    /\ Ready(t)
    /\ steps_to_run' = num
    /\ UNCHANGED <<active, thread, waiters, running, status, parked, pin>>

\* Machine.step(), which does not wait.
step(t, num) ==
    /\ Ready(t)
    /\ steps_to_run' = num
    /\ notify(thread)
    /\ UNCHANGED <<active, running, status, parked, pin>>

\* Machine.step_and_wait(): step(), then the loop that waits until the steps
\* are done, the processor waits for an interrupt, or the machine is gone.
step_and_wait(t, num) ==
    /\ Ready(t)
    /\ steps_to_run' = num
    /\ notify([thread EXCEPT ![t] = "test"])
    /\ UNCHANGED <<active, running, status, parked, pin>>

WaitForSteps(t) ==
    /\ thread[t] = "test"
    /\ LockFree
    /\ IF running /\ steps_to_run # 0 /\ status # "WAIT_FOR_INTERRUPT"
       THEN thread' = [thread EXCEPT ![t] = "wait"] /\ waiters' = Append(waiters, t)
       ELSE thread' = [thread EXCEPT ![t] = "idle"] /\ UNCHANGED waiters
    /\ UNCHANGED <<active, running, steps_to_run, status, parked, pin>>

\* The timeout of cv.wait(0.1).
CallerTimeout(t) ==
    /\ thread[t] = "wait"
    /\ thread' = [thread EXCEPT ![t] = "test"]
    /\ waiters' = Without(t)
    /\ UNCHANGED <<active, running, steps_to_run, status, parked, pin>>

\* Mutant of interrupt: no step is asked for.
interrupt_NoStep(t) ==
    /\ Ready(t)
    /\ pin' \in (IF parked THEN {TRUE} ELSE {pin, TRUE})
    /\ notify(thread)
    /\ UNCHANGED <<active, running, steps_to_run, status, parked>>

\* Machine.interrupt(): a parked processor accepts the interrupt, any other
\* may have IRQs masked; and one step is asked for when none is pending.
interrupt(t) ==
    /\ Ready(t)
    /\ pin' \in (IF parked THEN {TRUE} ELSE {pin, TRUE})
    /\ steps_to_run' = IF steps_to_run = 0 THEN 1 ELSE steps_to_run
    /\ notify(thread)
    /\ UNCHANGED <<active, running, status, parked>>

\* Machine.delete() asks the thread to end and joins it.
delete(t) ==
    /\ Ready(t)
    /\ running' = FALSE
    /\ notify([thread EXCEPT ![t] = "join"])
    /\ UNCHANGED <<active, steps_to_run, status, parked, pin>>

Join(t) ==
    /\ thread[t] = "join"
    /\ thread["cpu"] = "done"
    /\ thread' = [thread EXCEPT ![t] = "gone"]
    /\ UNCHANGED <<active, waiters, running, steps_to_run, status, parked, pin>>

\* TapeDrive.feed_byte() calls cpu.interrupt() without the lock and asks for
\* no step; it runs on a caller's thread or inside cpu.step().
TapeInterrupt ==
    /\ "tape" \in active
    /\ running
    /\ ~pin
    /\ pin' = TRUE
    /\ UNCHANGED <<active, thread, waiters, running, steps_to_run, status, parked>>

\* The machine is deleted and no caller is inside it.
Deleted == ~running /\ thread["cpu"] = "done" /\ \A t \in Caller : thread[t] \in {"idle", "gone"}

Init ==
    /\ active \in {a \in SUBSET (Caller \cup {"tape"}) : a \cap Caller # {}}
    /\ thread = [t \in Thread |-> IF t = "cpu" THEN "start" ELSE "idle"]
    /\ waiters = <<>>
    /\ running = TRUE
    /\ steps_to_run = 0
    /\ status = "OK"
    /\ parked = FALSE
    /\ pin = FALSE

CpuThread == thread_main \/ WakeIdle \/ WakeStep \/ StepReturns

Next ==
    \/ CpuThread
    \/ CpuTimeout
    \/ \E t \in Caller :
          \/ \E num \in Steps : step(t, num) \/ step_and_wait(t, num)
          \/ WaitForSteps(t) \/ CallerTimeout(t)
          \/ interrupt(t)
          \/ delete(t) \/ Join(t)
    \/ TapeInterrupt
    \/ Deleted /\ UNCHANGED vars

Spec == Init /\ [][Next]_vars

\* Every thread that can run does, cpu.step() returns (Armv2!RunReturns), and
\* every cv.wait() ends at its timeout at the latest.  A thread that wants
\* the lock gets it when it becomes free often enough.
Fairness ==
    /\ WF_vars(CpuThread)
    /\ WF_vars(CpuTimeout)
    /\ \A t \in Caller : /\ SF_vars(WaitForSteps(t))
                         /\ WF_vars(CallerTimeout(t))
                         /\ WF_vars(Join(t))

FairSpec == Spec /\ Fairness

-----------------------------------------------------------------------------
(* Properties.                                                             *)

\* Every variable has its type, and exactly the waiting threads are in cv's
\* queue, once each.
MachineTypeOK ==
    /\ active \subseteq Caller \cup {"tape"}
    /\ thread \in [Thread -> CpuPlace \cup CallerPlace]
    /\ thread["cpu"] \in CpuPlace
    /\ waiters \in Seq(Thread)
    /\ IsInjective(waiters)
    /\ ToSet(waiters) = {t \in Thread : thread[t] = "wait"}
    /\ running \in BOOLEAN
    /\ steps_to_run \in Nat
    /\ status \in Status
    /\ parked \in BOOLEAN
    /\ pin \in BOOLEAN

\* A single thread uses the machine, and no tape interrupts it.
Alone(t) == active = {t}

\* A request for steps always has the machine's thread on its way to it: it
\* is never left in cv.wait() for the five seconds of its timeout, as long as
\* a single thread uses the machine.
NoLostWakeup == (\E t \in Caller : Alone(t)) /\ steps_to_run # 0 => thread["cpu"] # "wait"

\* What is asked of the machine is done: no request stays pending for ever
\* unless the machine is deleted, whoever uses it.
RequestsServed == running /\ steps_to_run # 0 ~> ~running \/ steps_to_run = 0

\* step_and_wait() returns, or raises because the machine was deleted, when no
\* other thread's requests come between; and delete() does not hang in join().
CallsReturn ==
    \A t \in Caller :
        /\ Alone(t) /\ thread[t] \in {"test", "wait"} ~> thread[t] = "idle"
        /\ thread[t] = "join" ~> thread[t] = "gone"

\* An interrupt that reaches a parked processor is taken.  hardware.py:982:
\* "If the CPU is presently paused, it won't ever know it's received an
\* interrupt, it needs to take one step to take the exception".  The tape
\* drive's interrupts ask for no step and are left to the next request.
ParkedInterruptTaken ==
    "tape" \notin active /\ running /\ parked /\ pin ~> ~running \/ ~(parked /\ pin)
=============================================================================
