----------------------------- MODULE TapeDrive ------------------------------
(***************************************************************************)
(* The tape drive (class TapeDrive of hardware.py), the tape in it (class  *)
(* ProgramTape of tapes.py) and the guest that loads from it               *)
(* (tape_next_byte of src/os.c).                                           *)
(*                                                                         *)
(* Two threads share the drive.  The guest's loads and stores run its      *)
(* callbacks on the processor's thread; the main loop calls update() and   *)
(* the buttons.  Neither takes a lock, so the other thread can come        *)
(* between any two statements: a callback and update() are cut before      *)
(* every use of a field that the other side changes.  But before each      *)
(* frame the main loop takes the lock that the processor's thread holds    *)
(* while it runs the guest (step_num() of debugger.py), so one callback    *)
(* meets one update() at most.  A machine that a debugger has stopped,     *)
(* whose main loop does not take the lock, is left out.                    *)
(*                                                                         *)
(* A tape is one block of NumBytes bytes, told apart by their number.      *)
(* Time is the tape's position, measured from block_start: 0 is noise, 1   *)
(* the pilot tone, 2 the start of the block, byte b has passed at b + 2,   *)
(* and the last value lies 100 ms behind the end.  Sound, stripes and the  *)
(* duration of winding are left out.                                       *)
(***************************************************************************)
EXTENDS Integers

CONSTANTS
    NumBytes,      \* bytes on the tape
    CacheBytes,    \* cache_seconds, in bytes
    Button         \* what the user and the emulator's owner do to the drive,
                   \* besides switching the machine off and on

AllButtons == {"start_playing", "stop_playing", "pause", "unpause", "rewind",
               "fast_forward", "stop_winding", "load_tape", "unload_tape",
               "skip_loading", "open"}

ASSUME TapeAssumption ==
    /\ NumBytes \in Nat \ {0}
    /\ CacheBytes \in Nat
    /\ Button \subseteq AllButtons

LastPosition == NumBytes + 3

Feeding == {"take", "data", "status", "end"}

VARIABLES
    drive,    \* the fields of TapeDrive
    reel,     \* the fields of ProgramTape: position, block_pos, and shown,
              \* whether current_bit is at the end
    guest,    \* where the processor's thread is
    main,     \* where the main loop is
    stage,    \* update(): what tape.update() told it
    c,        \* feed_byte(): the byte each thread has in hand, 0 for None
    powered_on,
    kept,     \* power_on(): the drive of the new machine
    owed,     \* history: the byte taken from the tape that the guest has not
              \* read yet, or 0
    asked     \* history: the machine was not switched on with a drive that
              \* was loading

power == <<powered_on, kept, asked>>

vars == <<drive, reel, guest, main, stage, c, owed, power>>

-----------------------------------------------------------------------------
(* The tape, and methods of the drive that both threads call.              *)

\* The drive of a new machine.  "tape" is whether there is one, "winding" stands
\* for rewinding and fast_forwarding.  start_time and last_time are None
\* exactly when it does not play.  entered_pilot only tells when to draw.
NewDrive == [status |-> "NOT_READY", data_byte |-> 0, tape |-> FALSE, open |-> FALSE,
             playing |-> FALSE, paused |-> FALSE, loading |-> FALSE, skipped |-> FALSE,
             entered_first_pilot |-> FALSE, winding |-> "none"]

\* Mutant of byte_ready: nothing is ready once there is no block left.
byte_ready_NoEnd == reel.block_pos < NumBytes /\ reel.position > reel.block_pos + 2

\* byte_ready(): the next byte has passed, or there is none.
byte_ready == reel.block_pos = NumBytes \/ reel.position > reel.block_pos + 2

\* trim_cache(): bytes that passed too long ago are skipped.
Late == reel.block_pos < NumBytes /\ reel.position > reel.block_pos + 2 + CacheBytes
trim_cache ==
    reel' = IF ~Late THEN reel
            ELSE LET p == reel.position - 2 - CacheBytes
                 IN  IF p < NumBytes THEN [reel EXCEPT !.block_pos = p]
                     ELSE [reel EXCEPT !.block_pos = NumBytes, !.shown = FALSE]

is_byte_ready == drive.tape /\ drive.playing /\ (drive.skipped \/ byte_ready)

\* The call of is_byte_ready(), which calls trim_cache() on the way.
AskReady == IF drive.tape /\ drive.playing /\ ~drive.skipped THEN trim_cache ELSE UNCHANGED reel

\* stop_playing() does nothing without a tape.
stop_playing(d) == IF d.tape THEN [d EXCEPT !.playing = FALSE] ELSE d

power_down(d) ==
    [stop_playing(d) EXCEPT !.loading = FALSE, !.entered_first_pilot = FALSE]

\* get_byte(): the tape after the next byte, if there is a tape to take it from.
Takes == drive.tape /\ ~drive.open /\ reel.block_pos < NumBytes
Taken == IF ~Takes THEN reel
         ELSE [reel EXCEPT !.block_pos = @ + 1, !.shown = @ /\ reel.block_pos + 1 < NumBytes]

\* feed_byte() takes a byte from the tape ...
FeedTake(t) ==
    /\ c' = [c EXCEPT ![t] = IF Takes THEN reel.block_pos + 1 ELSE 0]
    /\ owed' = IF Takes THEN reel.block_pos + 1 ELSE owed
    /\ reel' = Taken
    /\ UNCHANGED <<drive, stage>>

\* ... puts it, or 0, where the guest finds it ...
FeedData(t) ==
    /\ drive' = [drive EXCEPT !.data_byte = c[t]]
    /\ UNCHANGED <<reel, stage, c, owed>>

\* ... then sets the status ...
FeedStatus(t) ==
    /\ drive' = [drive EXCEPT !.status = IF c[t] # 0 THEN "READY"
                                         ELSE IF drive.paused THEN "NOT_READY" ELSE "END_OF_TAPE"]
    /\ UNCHANGED <<reel, stage, c, owed>>

\* ... and stops the drive if there was no byte.
FeedEnd(t) ==
    /\ drive' = IF c[t] # 0 THEN drive ELSE stop_playing([drive EXCEPT !.loading = FALSE])
    /\ c' = [c EXCEPT ![t] = 0]
    /\ UNCHANGED <<reel, stage, owed>>

\* The step of feed_byte() that is due at "place", after which the thread is
\* at "next"; "done" is where it goes on after the call.
FeedStep(t, place, next, done) ==
    \/ place = "take"   /\ FeedTake(t)   /\ next = "data"
    \/ place = "data"   /\ FeedData(t)   /\ next = "status"
    \/ place = "status" /\ FeedStatus(t) /\ next = "end"
    \/ place = "end"    /\ FeedEnd(t)    /\ next = done

-----------------------------------------------------------------------------
(* The guest: tape_next_byte(), and the callbacks it runs.                 *)

\* Writing NEXT_BYTE.
NextByte ==
    /\ guest = "idle"
    /\ IF drive.tape
       THEN drive' = [drive EXCEPT !.loading = TRUE] /\ guest' = "ready"
       ELSE /\ drive' = [drive EXCEPT !.data_byte = 0, !.status = "DRIVE_EMPTY"]
            /\ guest' = "poll"
    /\ UNCHANGED <<reel, main, stage, c, owed, power>>

NextByteReady ==
    /\ guest = "ready"
    /\ guest' = IF is_byte_ready THEN "take" ELSE "clear"
    /\ AskReady
    /\ UNCHANGED <<drive, main, stage, c, owed, power>>

NextByteNotReady ==
    /\ guest = "clear"
    /\ drive' = [drive EXCEPT !.data_byte = 0, !.status = "NOT_READY"]
    /\ guest' = "poll"
    /\ UNCHANGED <<reel, main, stage, c, owed, power>>

GuestFeeds ==
    /\ guest \in Feeding
    /\ FeedStep("guest", guest, guest', "poll")
    /\ UNCHANGED <<main, power>>

\* Reading the status, again after each interrupt until it is not NOT_READY;
\* a status other than READY ends the load.
ReadStatus ==
    /\ guest = "poll"
    /\ drive.status # "NOT_READY"
    /\ guest' = IF drive.status = "READY" THEN "read" ELSE "idle"
    /\ UNCHANGED <<drive, reel, main, stage, c, owed, power>>

ReadData ==
    /\ guest = "read"
    /\ owed' = 0
    /\ guest' = "idle"
    /\ UNCHANGED <<drive, reel, main, stage, c, power>>

\* load_tape() has what it wants and writes READY.
PowerDown ==
    /\ guest = "idle"
    /\ drive' = power_down(drive)
    /\ UNCHANGED <<reel, guest, main, stage, c, owed, power>>

Guest ==
    \/ NextByte \/ NextByteReady \/ NextByteNotReady \/ GuestFeeds
    \/ ReadStatus \/ ReadData

-----------------------------------------------------------------------------
(* The main loop: update().                                                *)

Stage(p) == IF p = 0 THEN "no_tone" ELSE IF p = 1 THEN "tone" ELSE "data"

\* tape.update() with the tape at position p: the stage it reports and the
\* tape afterwards.  The tape runs on even when nobody takes its bytes.
TapeUpdate(p) ==
    LET moved == [reel EXCEPT !.position = p]
    IN  IF reel.block_pos = NumBytes THEN [stage |-> "no_data", reel |-> moved]
        ELSE IF reel.shown /\ p = LastPosition
        THEN [stage |-> "IndexError", reel |-> [moved EXCEPT !.block_pos = NumBytes, !.shown = FALSE]]
        ELSE IF reel.shown THEN [stage |-> "no_data", reel |-> moved]
        ELSE [stage |-> Stage(p),
              reel  |-> [moved EXCEPT !.shown = p > NumBytes + 1 /\ ~drive.paused]]

\* Inside a callback, with the machine's lock.
Calling == guest \in {"ready", "clear"} \cup Feeding

\* The next frame of a machine that is on calls step_num(), which asks whether
\* the machine is stepping and for that waits for its lock.
NewFrame ==
    /\ main = "drawn"
    /\ powered_on => ~Calling
    /\ main' = "idle"
    /\ UNCHANGED <<drive, reel, guest, stage, c, owed, power>>

\* Winding ends, and update() returns.
UpdateWinds ==
    /\ main = "idle"
    /\ drive.winding # "none"
    /\ drive' = [drive EXCEPT !.winding = "none"]
    /\ reel' = IF ~drive.tape THEN reel
               ELSE IF drive.winding = "rewind"
               THEN [position |-> 0, block_pos |-> 0, shown |-> FALSE]
               ELSE [position |-> 2, block_pos |-> NumBytes - 1, shown |-> FALSE]
    /\ main' = "drawn"
    /\ UNCHANGED <<guest, stage, c, owed, power>>

\* Does the tape play?
UpdatePlaying ==
    /\ main = "idle"
    /\ drive.winding = "none"
    /\ main' = IF drive.playing THEN "elapsed" ELSE "loading"
    /\ UNCHANGED <<drive, reel, guest, stage, c, owed, power>>

\* A playing tape moves on unless it is paused.  If the guest has stopped it
\* since, last_time is None and the subtraction raises; without a tape the
\* call of self.tape.update() does.  Nothing catches either, and the main loop
\* ends.
UpdateTape(p) ==
    /\ main = "elapsed"
    /\ IF ~drive.playing \/ ~drive.tape
       THEN main' = "dead" /\ UNCHANGED <<drive, reel, stage>>
       ELSE LET u == TapeUpdate(IF drive.paused THEN reel.position ELSE p)
            IN  /\ reel' = u.reel
                /\ IF u.stage = "IndexError"
                   THEN drive' = power_down(drive) /\ main' = "drawn" /\ UNCHANGED stage
                   ELSE main' = "loading" /\ stage' = u.stage /\ UNCHANGED drive
    /\ UNCHANGED <<guest, c, owed, power>>

\* Mutant of UpdateLoading: the byte is due, whether or not the guest waits.
UpdateLoading_AnyStatus ==
    /\ main = "loading"
    /\ IF drive.loading
       THEN main' = (IF drive.entered_first_pilot THEN "ready" ELSE "pilot") /\ UNCHANGED stage
       ELSE main' = "drawn" /\ stage' = "no_data"
    /\ UNCHANGED <<drive, reel, guest, c, owed, power>>

\* Is the guest waiting for a byte?
UpdateLoading ==
    /\ main = "loading"
    /\ IF drive.loading
       THEN /\ main' = IF drive.entered_first_pilot /\ drive.status = "NOT_READY" THEN "ready"
                       ELSE "pilot"
            /\ UNCHANGED stage
       ELSE main' = "drawn" /\ stage' = "no_data"
    /\ UNCHANGED <<drive, reel, guest, c, owed, power>>

UpdateReady ==
    /\ main = "ready"
    /\ main' = IF is_byte_ready THEN "take" ELSE "pilot"
    /\ AskReady
    /\ UNCHANGED <<drive, guest, stage, c, owed, power>>

MainFeeds ==
    /\ main \in Feeding
    /\ FeedStep("main", main, main', "pilot")
    /\ UNCHANGED <<guest, power>>

\* The rest of update() notices the pilot tone and draws ...
UpdatePilot ==
    /\ main = "pilot"
    /\ drive' = [drive EXCEPT !.entered_first_pilot = @ \/ stage = "tone"]
    /\ main' = IF drive.playing /\ ~drive.paused /\ stage = "tone" THEN "bars" ELSE "drawn"
    /\ stage' = "no_data"
    /\ UNCHANGED <<reel, guest, c, owed, power>>

\* ... the tone's bars from start_time, None if the guest stopped the tape.
UpdateBars ==
    /\ main = "bars"
    /\ main' = IF drive.playing THEN "drawn" ELSE "dead"
    /\ UNCHANGED <<drive, reel, guest, stage, c, owed, power>>

update ==
    \/ NewFrame
    \/ UpdateWinds \/ UpdatePlaying \/ UpdateLoading \/ UpdateReady \/ MainFeeds
    \/ UpdatePilot \/ UpdateBars
    \/ \E p \in reel.position .. LastPosition : UpdateTape(p)

-----------------------------------------------------------------------------
(* The buttons.                                                            *)

\* A button's effect on the drive.
Press(b, d) ==
    CASE b = "start_playing" -> IF d.tape THEN [d EXCEPT !.skipped = FALSE, !.playing = TRUE] ELSE d
      [] b = "stop_playing"  -> stop_playing(d)
      [] b = "pause"         -> [d EXCEPT !.paused = TRUE]
      [] b = "unpause"       -> [d EXCEPT !.paused = FALSE]
      [] b \in {"rewind", "fast_forward"} -> IF d.tape THEN [d EXCEPT !.winding = b] ELSE d
      [] b = "stop_winding"  -> [d EXCEPT !.winding = "none"]
      [] b = "unload_tape"   -> IF d.tape THEN stop_playing([d EXCEPT !.tape = FALSE]) ELSE d
      [] b = "load_tape"     -> [(IF d.tape THEN stop_playing([d EXCEPT !.tape = FALSE]) ELSE d)
                                    EXCEPT !.tape = TRUE]
      [] b = "skip_loading"  -> IF d.playing THEN [d EXCEPT !.skipped = TRUE] ELSE d
      [] b = "open"          -> [d EXCEPT !.open = ~@]

\* The drive plays without a tape and the button makes it touch the tape's
\* sound: the call raises.
Raises(b) == b \in {"pause", "unpause", "skip_loading"} /\ drive.playing /\ ~drive.tape

\* Bound: nobody touches the drive of a machine that is off.
PressButton(b) ==
    /\ main = "idle"
    /\ powered_on
    /\ IF Raises(b) THEN main' = "dead" /\ UNCHANGED drive
       ELSE drive' = Press(b, drive) /\ UNCHANGED main
    /\ UNCHANGED <<reel, guest, stage, c, owed, power>>

\* Emulator.power_off().  The processor's thread is not told and goes on for
\* the steps it was asked for, and so does the drive.  Bound: not again after
\* a start with a drive that was loading.
PowerOff ==
    /\ main = "idle"
    /\ powered_on /\ asked
    /\ drive' = power_down(drive)
    /\ powered_on' = FALSE
    /\ UNCHANGED <<reel, guest, main, stage, c, owed, kept, asked>>

\* Emulator.power_on() makes a machine and copies the old drive's fields, all
\* but the byte.  The old machine's thread may still run and change status and
\* loading meanwhile; any pair of them is also that of some moment.
copy_from ==
    /\ main = "idle"
    /\ ~powered_on
    /\ kept' = [drive EXCEPT !.data_byte = 0]
    /\ main' = "copied"
    /\ UNCHANGED <<drive, reel, guest, stage, c, owed, powered_on, asked>>

\* Then it ends the old machine's thread, which gives up the lock first.  The
\* tape is the same one, and the new guest has not asked for anything.
PowerOn ==
    /\ main = "copied"
    /\ ~Calling
    /\ drive' = kept
    /\ guest' = "idle"
    /\ main' = "idle"
    /\ powered_on' = TRUE
    /\ kept' = NewDrive
    /\ owed' = 0
    /\ asked' = ~kept.loading
    /\ UNCHANGED <<reel, stage, c>>

Init ==
    /\ drive = NewDrive
    /\ reel = [position |-> 0, block_pos |-> 0, shown |-> FALSE]
    /\ guest = "idle"
    /\ main = "idle"
    /\ stage = "no_data"
    /\ c = [t \in {"guest", "main"} |-> 0]
    /\ powered_on = TRUE
    /\ kept = NewDrive
    /\ owed = 0
    /\ asked = TRUE

Next ==
    \/ Guest \/ PowerDown
    \/ update
    \/ \E b \in Button : PressButton(b)
    \/ PowerOff \/ copy_from \/ PowerOn

Spec == Init /\ [][Next]_vars

\* The main loop goes round, the guest's thread is scheduled, and time passes
\* on a tape that plays.
Fairness ==
    /\ WF_vars(update)
    /\ WF_vars(GuestFeeds \/ NextByteReady \/ NextByteNotReady)
    /\ SF_vars(\E p \in reel.position + 1 .. LastPosition : UpdateTape(p))

FairSpec == Spec /\ Fairness

-----------------------------------------------------------------------------
(* Properties.                                                             *)

\* Whichever thread takes a byte from the tape, the guest reads that byte,
\* and reads it before the next one is taken: no byte is overwritten by the
\* other thread, cleared by a late NOT_READY or read before it is there.  Only
\* a new machine forgets what the old one was owed, and only one that comes on
\* with a drive that is loading, for the old machine's guest, can lose a byte.
BytesDelivered ==
    [][owed # 0 /\ owed' # owed /\ asked =>
          \/ guest = "read" /\ drive.data_byte = owed
          \/ PowerOn]_vars

\* A guest that waits for a byte after the pilot tone was heard gets an
\* answer as long as the tape goes on playing.  hardware.py:118: "the read
\* control will change to NOT_READY until there is a data byte ready".
Waiting == guest = "poll" /\ drive.status = "NOT_READY"
Playing == /\ drive.tape /\ ~drive.open /\ drive.playing /\ ~drive.paused
           /\ drive.winding = "none" /\ main # "dead"
ByteArrives ==
    Waiting /\ drive.loading /\ drive.entered_first_pilot ~> ~Waiting \/ ~Playing
=============================================================================
