-------------------------- MODULE TapeDrive_proofs --------------------------
(***************************************************************************)
(* Proofs about the tape drive's two threads, for tapes and caches of any  *)
(* length and any buttons.                                                 *)
(***************************************************************************)
EXTENDS TapeDrive, TLAPS

-----------------------------------------------------------------------------
(* Types.                                                                  *)

\* The fields of the drive and the position of its tape.
Drive == [status : {"NOT_READY", "READY", "END_OF_TAPE", "DRIVE_EMPTY"}, data_byte : Int,
          tape : BOOLEAN, open : BOOLEAN, playing : BOOLEAN, paused : BOOLEAN,
          loading : BOOLEAN, skipped : BOOLEAN, entered_first_pilot : BOOLEAN,
          winding : {"none", "rewind", "fast_forward"}]

Reel == [position : Int, block_pos : Int, shown : BOOLEAN]

TapeTypeOK ==
    /\ drive \in Drive /\ kept \in Drive
    /\ reel \in Reel
    /\ guest \in {"idle", "ready", "clear", "poll", "read"} \cup Feeding
    /\ main \in {"idle", "elapsed", "loading", "ready", "pilot", "bars", "drawn", "dead",
                 "copied"} \cup Feeding
    /\ stage \in {"no_data", "no_tone", "tone", "data"}
    /\ c \in [{"guest", "main"} -> Int]
    /\ owed \in Int
    /\ powered_on \in BOOLEAN /\ asked \in BOOLEAN

\* The drives that the actions make, and what they leave alone.
LEMMA DriveForms ==
    \A d \in Drive :
        /\ \A n \in Int : [d EXCEPT !.data_byte = n] \in Drive
        /\ \A b \in BOOLEAN : /\ [d EXCEPT !.loading = b] \in Drive
                              /\ [d EXCEPT !.playing = b] \in Drive
                              /\ [d EXCEPT !.entered_first_pilot = b] \in Drive
                              /\ [d EXCEPT !.paused = b] \in Drive
                              /\ [d EXCEPT !.skipped = b] \in Drive
                              /\ [d EXCEPT !.tape = b] \in Drive
                              /\ [d EXCEPT !.open = b] \in Drive
                              /\ [d EXCEPT !.skipped = FALSE, !.playing = b] \in Drive
                              /\ [d EXCEPT !.loading = b, !.entered_first_pilot = b] \in Drive
        /\ \A s \in {"NOT_READY", "READY", "END_OF_TAPE", "DRIVE_EMPTY"} :
              /\ [d EXCEPT !.status = s] \in Drive
              /\ \A n \in Int : [d EXCEPT !.data_byte = n, !.status = s] \in Drive
        /\ \A w \in {"none", "rewind", "fast_forward"} : [d EXCEPT !.winding = w] \in Drive
  <1> TAKE d \in Drive
  <1>1. \A n \in Int : [d EXCEPT !.data_byte = n] \in Drive
    BY Zenon DEF Drive
  <1>2. \A b \in BOOLEAN : /\ [d EXCEPT !.loading = b] \in Drive
                           /\ [d EXCEPT !.playing = b] \in Drive
                           /\ [d EXCEPT !.entered_first_pilot = b] \in Drive
                           /\ [d EXCEPT !.paused = b] \in Drive
                           /\ [d EXCEPT !.skipped = b] \in Drive
                           /\ [d EXCEPT !.tape = b] \in Drive
                           /\ [d EXCEPT !.open = b] \in Drive
    BY Zenon DEF Drive
  <1>3. \A b \in BOOLEAN : /\ [d EXCEPT !.skipped = FALSE, !.playing = b] \in Drive
                           /\ [d EXCEPT !.loading = b, !.entered_first_pilot = b] \in Drive
    BY Zenon DEF Drive
  <1>4. \A s \in {"NOT_READY", "READY", "END_OF_TAPE", "DRIVE_EMPTY"} :
            /\ [d EXCEPT !.status = s] \in Drive
            /\ \A n \in Int : [d EXCEPT !.data_byte = n, !.status = s] \in Drive
    BY Zenon DEF Drive
  <1>5. \A w \in {"none", "rewind", "fast_forward"} : [d EXCEPT !.winding = w] \in Drive
    BY Zenon DEF Drive
  <1>6. QED
    BY <1>1, <1>2, <1>3, <1>4, <1>5, Zenon

\* The fields that the invariant is about.
Same(d, e) ==
    /\ e.status = d.status /\ e.data_byte = d.data_byte
    /\ e.entered_first_pilot = d.entered_first_pilot

LEMMA StopPlaying ==
    \A d \in Drive : /\ stop_playing(d) \in Drive
                     /\ Same(d, stop_playing(d))
                     /\ stop_playing(d).loading = d.loading
                     /\ stop_playing(d).tape = d.tape
                     /\ ~(stop_playing(d).playing /\ stop_playing(d).tape)
  <1> TAKE d \in Drive
  <1>1. stop_playing(d) = [d EXCEPT !.playing = FALSE] \/ (~d.tape /\ stop_playing(d) = d)
    BY DEF stop_playing
  <1>2. stop_playing(d) \in Drive
    BY <1>1, DriveForms
  <1>3. QED
    BY <1>1, <1>2 DEF Drive, Same

LEMMA PoweredDown ==
    \A d \in Drive : /\ power_down(d) \in Drive
                     /\ power_down(d).status = d.status
                     /\ power_down(d).data_byte = d.data_byte
                     /\ ~power_down(d).loading /\ ~power_down(d).entered_first_pilot
                     /\ ~(power_down(d).playing /\ power_down(d).tape)
  <1> TAKE d \in Drive
  <1> DEFINE e == stop_playing(d)
  <1>1. e \in Drive /\ Same(d, e) /\ ~(e.playing /\ e.tape)
    BY StopPlaying
  <1>2. power_down(d) = [e EXCEPT !.loading = FALSE, !.entered_first_pilot = FALSE]
    BY DEF power_down
  <1> HIDE DEF e
  <1>3. power_down(d) \in Drive
    BY <1>1, <1>2, DriveForms
  <1>4. QED
    BY <1>1, <1>2, <1>3 DEF Drive, Same

\* What a button may make of the drive.
Like(d, e) == e \in Drive /\ Same(d, e) /\ e.loading = d.loading

LEMMA ButtonForms ==
    \A d \in Drive :
        /\ \A b \in BOOLEAN : /\ Like(d, [d EXCEPT !.paused = b])
                              /\ Like(d, [d EXCEPT !.skipped = b])
                              /\ Like(d, [d EXCEPT !.tape = b])
                              /\ Like(d, [d EXCEPT !.open = b])
                              /\ Like(d, [d EXCEPT !.skipped = FALSE, !.playing = b])
        /\ \A w \in {"none", "rewind", "fast_forward"} : Like(d, [d EXCEPT !.winding = w])
        /\ Like(d, d) /\ Like(d, stop_playing(d))
  <1> TAKE d \in Drive
  <1>1. \A b \in BOOLEAN : /\ Same(d, [d EXCEPT !.paused = b])
                           /\ Same(d, [d EXCEPT !.skipped = b])
                           /\ Same(d, [d EXCEPT !.tape = b])
                           /\ Same(d, [d EXCEPT !.open = b])
                           /\ Same(d, [d EXCEPT !.skipped = FALSE, !.playing = b])
    BY SMT DEF Drive, Same
  <1>2. \A b \in BOOLEAN : /\ [d EXCEPT !.paused = b].loading = d.loading
                           /\ [d EXCEPT !.skipped = b].loading = d.loading
                           /\ [d EXCEPT !.tape = b].loading = d.loading
                           /\ [d EXCEPT !.open = b].loading = d.loading
                           /\ [d EXCEPT !.skipped = FALSE, !.playing = b].loading = d.loading
    BY SMT DEF Drive
  <1>3. \A w \in {"none", "rewind", "fast_forward"} :
            Same(d, [d EXCEPT !.winding = w]) /\ [d EXCEPT !.winding = w].loading = d.loading
    BY SMT DEF Drive, Same
  <1>4. Like(d, d) /\ Like(d, stop_playing(d))
    BY StopPlaying DEF Like, Same
  <1>5. QED
    BY <1>1, <1>2, <1>3, <1>4, DriveForms, Zenon DEF Like

LEMMA Pressed ==
    \A d \in Drive, b \in AllButtons : Like(d, Press(b, d))
  <1> TAKE d \in Drive, b \in AllButtons
  <1>1. CASE b = "start_playing"
    BY <1>1, ButtonForms DEF Press
  <1>2. CASE b = "stop_playing"
    BY <1>2, ButtonForms DEF Press
  <1>3. CASE b \in {"pause", "unpause"}
    BY <1>3, ButtonForms DEF Press
  <1>4. CASE b \in {"rewind", "fast_forward", "stop_winding"}
    BY <1>4, ButtonForms DEF Press
  <1>5. CASE b \in {"unload_tape", "load_tape"}
    <2> DEFINE out == [d EXCEPT !.tape = FALSE]
               gone == IF d.tape THEN stop_playing(out) ELSE d
    <2>1. Like(d, out)
      BY ButtonForms
    <2>2. Press(b, d) = IF b = "load_tape" THEN [gone EXCEPT !.tape = TRUE] ELSE gone
      BY <1>5 DEF Press
    <2> HIDE DEF out
    <2>3. Like(out, stop_playing(out))
      BY <2>1, ButtonForms DEF Like
    <2>4. Like(d, gone)
      BY <2>1, <2>3, ButtonForms DEF Like, Same
    <2> HIDE DEF gone
    <2>5. Like(gone, [gone EXCEPT !.tape = TRUE])
      BY <2>4, ButtonForms DEF Like
    <2>6. QED
      BY <2>2, <2>4, <2>5 DEF Like, Same
  <1>6. CASE b = "skip_loading"
    BY <1>6, ButtonForms DEF Press
  <1>7. CASE b = "open"
    <2>1. Press(b, d) = [d EXCEPT !.open = ~d.open]
      BY <1>7 DEF Press
    <2>2. (~d.open) \in BOOLEAN
      OBVIOUS
    <2>3. QED
      BY <2>1, <2>2, ButtonForms, Zenon
  <1>8. QED
    BY <1>1, <1>2, <1>3, <1>4, <1>5, <1>6, <1>7 DEF AllButtons

\* The tapes that the actions make.
LEMMA ReelForms ==
    \A r \in Reel, n \in Int, b \in BOOLEAN :
        /\ [r EXCEPT !.position = n] \in Reel
        /\ [r EXCEPT !.block_pos = n] \in Reel
        /\ [r EXCEPT !.shown = b] \in Reel
        /\ [r EXCEPT !.block_pos = n, !.shown = b] \in Reel
        /\ \A m \in Int : [position |-> m, block_pos |-> n, shown |-> b] \in Reel
  BY Zenon DEF Reel

LEMMA Constants ==
    /\ NumBytes \in Int /\ CacheBytes \in Int /\ LastPosition \in Int
    /\ Button \subseteq AllButtons
  BY TapeAssumption DEF LastPosition

LEMMA Trimmed == TapeTypeOK /\ trim_cache => reel' \in Reel
  <1> SUFFICES ASSUME TapeTypeOK, trim_cache PROVE reel' \in Reel
    OBVIOUS
  <1> DEFINE p == reel.position - 2 - CacheBytes
  <1>1. reel \in Reel /\ p \in Int
    BY Constants DEF TapeTypeOK, Reel
  <1>2. \/ reel' = reel
        \/ reel' = [reel EXCEPT !.block_pos = p]
        \/ reel' = [reel EXCEPT !.block_pos = NumBytes, !.shown = FALSE]
    BY DEF trim_cache
  <1> HIDE DEF p
  <1>3. QED
    BY <1>1, <1>2, ReelForms, Constants

LEMMA Asked == TapeTypeOK /\ AskReady => reel' \in Reel
  BY Trimmed DEF AskReady, TapeTypeOK

LEMMA TakenType == TapeTypeOK => Taken \in Reel
  <1> SUFFICES ASSUME TapeTypeOK PROVE Taken \in Reel
    OBVIOUS
  <1> DEFINE b == reel.shown /\ reel.block_pos + 1 < NumBytes
  <1>1. reel \in Reel /\ reel.block_pos + 1 \in Int /\ b \in BOOLEAN
    BY DEF TapeTypeOK, Reel
  <1>2. \/ Taken = reel
        \/ Taken = [reel EXCEPT !.block_pos = reel.block_pos + 1, !.shown = b]
    BY <1>1 DEF Taken, Reel
  <1> HIDE DEF b
  <1>3. QED
    BY <1>1, <1>2, ReelForms

LEMMA Updated ==
    ASSUME TapeTypeOK, NEW p \in Int
    PROVE  /\ TapeUpdate(p).reel \in Reel
           /\ TapeUpdate(p).stage \in {"no_data", "no_tone", "tone", "data", "IndexError"}
  <1> DEFINE moved == [reel EXCEPT !.position = p]
             b == p > NumBytes + 1 /\ ~drive.paused
  <1>1. moved \in Reel /\ b \in BOOLEAN
    BY ReelForms DEF TapeTypeOK
  <1>2. /\ [moved EXCEPT !.block_pos = NumBytes, !.shown = FALSE] \in Reel
        /\ [moved EXCEPT !.shown = b] \in Reel
    <2> HIDE DEF moved, b
    <2>1. QED
      BY <1>1, ReelForms, Constants
  <1>3. Stage(p) \in {"no_tone", "tone", "data"}
    BY DEF Stage
  <1>4. TapeUpdate(p) \in {[stage |-> "no_data", reel |-> moved],
                           [stage |-> "IndexError",
                            reel |-> [moved EXCEPT !.block_pos = NumBytes, !.shown = FALSE]],
                           [stage |-> Stage(p), reel |-> [moved EXCEPT !.shown = b]]}
    BY DEF TapeUpdate
  <1> HIDE DEF moved, b
  <1>5. QED
    BY <1>1, <1>2, <1>3, <1>4

LEMMA FeedTypes ==
    ASSUME TapeTypeOK, NEW t \in {"guest", "main"}, NEW place, NEW next, NEW done,
           FeedStep(t, place, next, done)
    PROVE  /\ drive' \in Drive /\ reel' \in Reel /\ owed' \in Int
           /\ c' \in [{"guest", "main"} -> Int]
           /\ stage' = stage
           /\ next \in {"data", "status", "end", done}
  <1>1. /\ drive \in Drive /\ reel \in Reel /\ owed \in Int
        /\ c \in [{"guest", "main"} -> Int] /\ c[t] \in Int /\ reel.block_pos + 1 \in Int
    BY DEF TapeTypeOK, Reel
  <1>2. CASE FeedTake(t) /\ next = "data"
    BY <1>1, <1>2, TakenType DEF FeedTake
  <1>3. CASE FeedData(t) /\ next = "status"
    BY <1>1, <1>3, DriveForms DEF FeedData
  <1>4. CASE FeedStatus(t) /\ next = "end"
    BY <1>1, <1>4, DriveForms DEF FeedStatus
  <1>5. CASE FeedEnd(t) /\ next = done
    <2>1. [drive EXCEPT !.loading = FALSE] \in Drive
      BY <1>1, DriveForms
    <2>2. drive' \in Drive
      BY <1>1, <1>5, <2>1, StopPlaying DEF FeedEnd
    <2>3. QED
      BY <1>1, <1>5, <2>2 DEF FeedEnd
  <1>6. QED
    BY <1>2, <1>3, <1>4, <1>5 DEF FeedStep

LEMMA Zero == 0 \in Int /\ 2 \in Int
  OBVIOUS

LEMMA TypeInit == Init => TapeTypeOK
  BY Constants DEF Init, NewDrive, TapeTypeOK, Drive, Reel

LEMMA TypeGuest ==
    ASSUME TapeTypeOK, Guest \/ PowerDown
    PROVE  TapeTypeOK'
  <1> USE DEF TapeTypeOK, Feeding
  <1>1. CASE NextByte
    <2>1. [drive EXCEPT !.loading = TRUE] \in Drive
      BY DriveForms
    <2>2. [drive EXCEPT !.data_byte = 0, !.status = "DRIVE_EMPTY"] \in Drive
      BY Zero, DriveForms, Zenon
    <2>3. QED
      BY <1>1, <2>1, <2>2 DEF NextByte, power
  <1>2. CASE NextByteReady
    BY <1>2, Asked DEF NextByteReady, power
  <1>3. CASE NextByteNotReady
    <2>1. [drive EXCEPT !.data_byte = 0, !.status = "NOT_READY"] \in Drive
      BY Zero, DriveForms, Zenon
    <2>2. QED
      BY <1>3, <2>1 DEF NextByteNotReady, power
  <1>4. CASE GuestFeeds
    BY <1>4, FeedTypes DEF GuestFeeds, power
  <1>5. CASE ReadStatus
    BY <1>5 DEF ReadStatus, power
  <1>6. CASE ReadData
    BY <1>6 DEF ReadData, power
  <1>7. CASE PowerDown
    BY <1>7, PoweredDown DEF PowerDown, power
  <1>8. QED
    BY <1>1, <1>2, <1>3, <1>4, <1>5, <1>6, <1>7 DEF Guest

LEMMA TypeTape ==
    ASSUME TapeTypeOK, NEW p \in reel.position .. LastPosition, UpdateTape(p)
    PROVE  TapeTypeOK'
  <1> USE DEF TapeTypeOK, Feeding
  <1> DEFINE q == IF drive.paused THEN reel.position ELSE p
             u == TapeUpdate(q)
  <1>1. q \in Int
    BY Constants DEF Reel
  <1> HIDE DEF q
  <1>2. u.reel \in Reel /\ u.stage \in {"no_data", "no_tone", "tone", "data", "IndexError"}
    BY <1>1, Updated
  <1>3. \/ main' = "dead" /\ UNCHANGED <<drive, reel, stage>>
        \/ /\ reel' = u.reel
           /\ IF u.stage = "IndexError"
              THEN drive' = power_down(drive) /\ main' = "drawn" /\ UNCHANGED stage
              ELSE main' = "loading" /\ stage' = u.stage /\ UNCHANGED drive
    BY DEF UpdateTape, q
  <1> HIDE DEF u
  <1>4. UNCHANGED <<guest, c, owed, power>>
    BY DEF UpdateTape
  <1>5. QED
    BY <1>2, <1>3, <1>4, PoweredDown DEF power

LEMMA TypeUpdate == TapeTypeOK /\ update => TapeTypeOK'
  <1> SUFFICES ASSUME TapeTypeOK, update PROVE TapeTypeOK'
    OBVIOUS
  <1> USE DEF TapeTypeOK, Feeding
  <1>1. CASE NewFrame
    BY <1>1 DEF NewFrame, power
  <1>2. CASE UpdateWinds
    <2>1. /\ [position |-> 0, block_pos |-> 0, shown |-> FALSE] \in Reel
          /\ [position |-> 2, block_pos |-> NumBytes - 1, shown |-> FALSE] \in Reel
      BY Zero, Constants DEF Reel
    <2>2. [drive EXCEPT !.winding = "none"] \in Drive
      BY DriveForms
    <2>3. QED
      BY <1>2, <2>1, <2>2 DEF UpdateWinds, power
  <1>3. CASE UpdatePlaying
    BY <1>3 DEF UpdatePlaying, power
  <1>4. CASE UpdateLoading
    BY <1>4 DEF UpdateLoading, power
  <1>5. CASE UpdateReady
    BY <1>5, Asked DEF UpdateReady, power
  <1>6. CASE MainFeeds
    BY <1>6, FeedTypes DEF MainFeeds, power
  <1>7. CASE UpdatePilot
    <2>1. (drive.entered_first_pilot \/ stage = "tone") \in BOOLEAN
      BY DEF Drive
    <2>2. [drive EXCEPT !.entered_first_pilot = @ \/ stage = "tone"] \in Drive
      BY <2>1, DriveForms, Zenon
    <2>3. QED
      BY <1>7, <2>2 DEF UpdatePilot, power
  <1>8. CASE UpdateBars
    BY <1>8 DEF UpdateBars, power
  <1>9. ASSUME NEW p \in reel.position .. LastPosition, UpdateTape(p) PROVE TapeTypeOK'
    BY <1>9, TypeTape
  <1>10. QED
    BY <1>1, <1>2, <1>3, <1>4, <1>5, <1>6, <1>7, <1>8, <1>9 DEF update

LEMMA TypeSwitch ==
    ASSUME TapeTypeOK, (\E b \in Button : PressButton(b)) \/ PowerOff \/ copy_from \/ PowerOn
    PROVE  TapeTypeOK'
  <1> USE DEF TapeTypeOK, Feeding
  <1>1. ASSUME NEW b \in Button, PressButton(b) PROVE TapeTypeOK'
    <2>1. Press(b, drive) \in Drive
      BY Pressed, Constants DEF Like
    <2>2. QED
      BY <1>1, <2>1 DEF PressButton, power
  <1>2. CASE PowerOff
    BY <1>2, PoweredDown DEF PowerOff, power
  <1>3. CASE copy_from
    <2>1. [drive EXCEPT !.data_byte = 0] \in Drive
      BY Zero, DriveForms, Zenon
    <2>2. QED
      BY <1>3, <2>1 DEF copy_from, power
  <1>4. CASE PowerOn
    <2>1. NewDrive \in Drive
      BY DEF NewDrive, Drive
    <2>2. (~kept.loading) \in BOOLEAN
      OBVIOUS
    <2>3. asked' \in BOOLEAN
      BY <1>4, <2>2, Zenon DEF PowerOn
    <2>4. QED
      BY <1>4, <2>1, <2>3 DEF PowerOn
  <1>5. QED
    BY <1>1, <1>2, <1>3, <1>4

LEMMA TypeNext == TapeTypeOK /\ [Next]_vars => TapeTypeOK'
  <1>1. TapeTypeOK /\ UNCHANGED vars => TapeTypeOK'
    BY DEF TapeTypeOK, vars, power
  <1>2. QED
    BY <1>1, TypeGuest, TypeUpdate, TypeSwitch DEF Next

-----------------------------------------------------------------------------
(* The invariant.                                                          *)

\* A machine that is off has a drive that stands still: it has lost the pilot
\* tone, and what it may still play is no tape.
OffStandsStill ==
    /\ ~powered_on => /\ asked /\ ~drive.entered_first_pilot /\ stage = "no_data"
                      /\ ~(drive.playing /\ drive.tape)
                      /\ main \in {"idle", "elapsed", "loading", "pilot", "drawn", "copied", "dead"}
    /\ main = "copied" => ~powered_on /\ ~kept.entered_first_pilot

\* The stage is handed from tape.update() to the end of update() only.
StageUsed == main \in {"idle", "drawn", "elapsed", "copied", "bars"} => stage = "no_data"

\* A guest that is not loading finds NOT_READY only on a new machine, whose
\* drive has not been asked for anything.
FreshGuest ==
    guest = "idle" /\ drive.status = "NOT_READY" =>
        /\ ~drive.loading /\ ~drive.entered_first_pilot
        /\ main \notin {"ready", "pilot"} \cup Feeding

\* Once the pilot tone was heard, NOT_READY says that the guest is waiting,
\* or is about to in a callback that update() cannot meet again.
NotReadyWaits ==
    drive.entered_first_pilot /\ drive.status = "NOT_READY" =>
        \/ guest \in {"end", "poll"}
        \/ main \in {"bars", "drawn", "dead"} /\ Calling

\* update() takes a byte for a waiting guest that has none.
MainTakesForGuest ==
    main \in {"ready", "take", "data", "status"} =>
        /\ guest \in {"end", "poll"}
        /\ guest = "end" => c["guest"] = 0
        /\ drive.status = "NOT_READY"
        /\ owed = IF main \in {"data", "status"} THEN c["main"] ELSE 0
        /\ main = "status" => drive.data_byte = c["main"]

\* Where the byte is that was taken and not read yet.
ByteInHand ==
    /\ guest \in {"idle", "ready", "clear", "take"} => owed = 0
    /\ guest \in {"data", "status"} => owed = c["guest"]
    /\ guest = "status" => drive.data_byte = c["guest"]
    /\ guest = "end" /\ c["guest"] # 0 =>
          c["guest"] = owed /\ drive.data_byte = owed /\ drive.status = "READY"
    /\ guest \in {"end", "poll"} /\ owed # 0 =>
          \/ main \in {"data", "status"}
          \/ drive.status = "READY" /\ drive.data_byte = owed
    /\ guest = "read" => drive.status = "READY" /\ (owed # 0 => drive.data_byte = owed)

\* The inductive invariant.  Of a machine that came on with a drive still
\* loading for the old one, nothing is said of the byte in hand.
TapeInv ==
    /\ TapeTypeOK
    /\ OffStandsStill
    /\ StageUsed
    /\ asked => FreshGuest /\ NotReadyWaits /\ MainTakesForGuest /\ ByteInHand

LEMMA Invs ==
    ASSUME TapeTypeOK
    PROVE  /\ drive \in Drive /\ kept \in Drive /\ c \in [{"guest", "main"} -> Int]
           /\ drive.loading \in BOOLEAN /\ drive.entered_first_pilot \in BOOLEAN
  BY DEF TapeTypeOK, Drive

LEMMA InvInit == Init => TapeInv
  <1> SUFFICES ASSUME Init PROVE TapeInv
    OBVIOUS
  <1>1. TapeTypeOK
    BY TypeInit
  <1>2. QED
    BY <1>1 DEF Init, NewDrive, TapeInv, OffStandsStill, StageUsed, FreshGuest, NotReadyWaits,
                MainTakesForGuest, ByteInHand, Feeding

\* The four parts that speak of the guest, for a machine that was not
\* switched on with a drive that was loading.
GuestParts == FreshGuest /\ NotReadyWaits /\ MainTakesForGuest /\ ByteInHand

LEMMA GuestStep ==
    ASSUME TapeInv, Guest
    PROVE  OffStandsStill' /\ StageUsed' /\ (asked' => GuestParts')
  <1> USE Invs DEF TapeInv, GuestParts, OffStandsStill, StageUsed, FreshGuest, NotReadyWaits,
                   MainTakesForGuest, ByteInHand, Feeding, Calling, power, Drive
  <1>1. CASE NextByte
    BY <1>1 DEF NextByte
  <1>2. CASE NextByteReady
    BY <1>2 DEF NextByteReady
  <1>3. CASE NextByteNotReady
    BY <1>3 DEF NextByteNotReady
  <1>4. CASE GuestFeeds
    <2>1. CASE guest = "take"
      BY <1>4, <2>1 DEF GuestFeeds, FeedStep, FeedTake
    <2>2. CASE guest = "data"
      BY <1>4, <2>2 DEF GuestFeeds, FeedStep, FeedData
    <2>3. CASE guest = "status"
      BY <1>4, <2>3 DEF GuestFeeds, FeedStep, FeedStatus
    <2>4. CASE guest = "end"
      BY <1>4, <2>4 DEF GuestFeeds, FeedStep, FeedEnd, stop_playing
    <2>5. QED
      BY <1>4, <2>1, <2>2, <2>3, <2>4 DEF GuestFeeds
  <1>5. CASE ReadStatus
    BY <1>5 DEF ReadStatus
  <1>6. CASE ReadData
    BY <1>6 DEF ReadData
  <1>7. QED
    BY <1>1, <1>2, <1>3, <1>4, <1>5, <1>6 DEF Guest

LEMMA PowerDownStep ==
    ASSUME TapeInv, PowerDown
    PROVE  OffStandsStill' /\ StageUsed' /\ (asked' => GuestParts')
  <1>1. /\ drive'.status = drive.status /\ drive'.data_byte = drive.data_byte
        /\ ~drive'.loading /\ ~drive'.entered_first_pilot
        /\ ~(drive'.playing /\ drive'.tape)
    BY PoweredDown, Invs DEF PowerDown, TapeInv
  <1>2. guest = "idle" /\ UNCHANGED <<reel, guest, main, stage, c, owed, powered_on, kept, asked>>
    BY DEF PowerDown, power
  <1>3. QED
    BY <1>1, <1>2 DEF TapeInv, GuestParts, OffStandsStill, StageUsed, FreshGuest, NotReadyWaits,
                      MainTakesForGuest, ByteInHand, Feeding, Calling

LEMMA TapeStep ==
    ASSUME TapeInv, NEW p \in reel.position .. LastPosition, UpdateTape(p)
    PROVE  OffStandsStill' /\ StageUsed' /\ (asked' => GuestParts')
  <1> USE DEF TapeInv, GuestParts, OffStandsStill, StageUsed, FreshGuest, NotReadyWaits,
              MainTakesForGuest, ByteInHand, Feeding, Calling
  <1> DEFINE u == TapeUpdate(IF drive.paused THEN reel.position ELSE p)
  <1>1. main = "elapsed" /\ UNCHANGED <<guest, c, owed, powered_on, kept, asked>>
    BY DEF UpdateTape, power
  <1>2. CASE ~drive.playing \/ ~drive.tape
    BY <1>1, <1>2 DEF UpdateTape
  <1>3. CASE drive.playing /\ drive.tape /\ u.stage = "IndexError"
    <2>1. drive' = power_down(drive) /\ main' = "drawn" /\ stage' = stage
      BY <1>3 DEF UpdateTape
    <2>2. /\ drive'.status = drive.status /\ drive'.data_byte = drive.data_byte
          /\ ~drive'.loading /\ ~drive'.entered_first_pilot
          /\ ~(drive'.playing /\ drive'.tape)
      BY <2>1, PoweredDown, Invs
    <2>3. QED
      BY <1>1, <1>3, <2>1, <2>2
  <1>4. CASE drive.playing /\ drive.tape /\ u.stage # "IndexError"
    <2>1. drive' = drive /\ main' = "loading"
      BY <1>4 DEF UpdateTape
    <2>2. QED
      BY <1>1, <1>4, <2>1
  <1>5. QED
    BY <1>2, <1>3, <1>4

LEMMA UpdateStep ==
    ASSUME TapeInv, update
    PROVE  OffStandsStill' /\ StageUsed' /\ (asked' => GuestParts')
  <1> USE Invs DEF TapeInv, GuestParts, OffStandsStill, StageUsed, FreshGuest, NotReadyWaits,
                   MainTakesForGuest, ByteInHand, Feeding, Calling, power, Drive
  <1>1. CASE NewFrame
    BY <1>1 DEF NewFrame
  <1>2. CASE UpdateWinds
    BY <1>2 DEF UpdateWinds
  <1>3. CASE UpdatePlaying
    BY <1>3 DEF UpdatePlaying
  <1>4. CASE UpdateLoading
    BY <1>4 DEF UpdateLoading
  <1>5. CASE UpdateReady
    BY <1>5 DEF UpdateReady
  <1>6. CASE MainFeeds
    <2>1. CASE main = "take"
      BY <1>6, <2>1 DEF MainFeeds, FeedStep, FeedTake
    <2>2. CASE main = "data"
      BY <1>6, <2>2 DEF MainFeeds, FeedStep, FeedData
    <2>3. CASE main = "status"
      BY <1>6, <2>3 DEF MainFeeds, FeedStep, FeedStatus
    <2>4. CASE main = "end"
      BY <1>6, <2>4 DEF MainFeeds, FeedStep, FeedEnd, stop_playing
    <2>5. QED
      BY <1>6, <2>1, <2>2, <2>3, <2>4 DEF MainFeeds
  <1>7. CASE UpdatePilot
    BY <1>7, TypeNext DEF UpdatePilot, TapeTypeOK
  <1>8. CASE UpdateBars
    BY <1>8 DEF UpdateBars
  <1>9. QED
    BY <1>1, <1>2, <1>3, <1>4, <1>5, <1>6, <1>7, <1>8, TapeStep DEF update

LEMMA SwitchStep ==
    ASSUME TapeInv, (\E b \in Button : PressButton(b)) \/ PowerOff \/ copy_from \/ PowerOn
    PROVE  OffStandsStill' /\ StageUsed' /\ (asked' => GuestParts')
  <1> USE Invs DEF TapeInv, GuestParts, OffStandsStill, StageUsed, FreshGuest, NotReadyWaits,
                   MainTakesForGuest, ByteInHand, Feeding, Calling, power
  <1>1. ASSUME NEW b \in Button, PressButton(b)
        PROVE  OffStandsStill' /\ StageUsed' /\ (asked' => GuestParts')
    <2>1. /\ main = "idle" /\ powered_on /\ main' \in {"idle", "dead"}
          /\ UNCHANGED <<reel, guest, stage, c, owed, powered_on, kept, asked>>
      BY <1>1 DEF PressButton
    <2>2. drive' = drive \/ drive' = Press(b, drive)
      BY <1>1 DEF PressButton
    <2>3. Same(drive, drive') /\ drive'.loading = drive.loading
      BY <2>2, Pressed, Constants DEF Like, Same
    <2>4. QED
      BY <2>1, <2>3 DEF Same
  <1>2. CASE PowerOff
    <2>1. /\ drive'.status = drive.status /\ drive'.data_byte = drive.data_byte
          /\ ~drive'.loading /\ ~drive'.entered_first_pilot
          /\ ~(drive'.playing /\ drive'.tape)
      BY <1>2, PoweredDown DEF PowerOff
    <2>2. /\ main = "idle" /\ asked /\ ~powered_on'
          /\ UNCHANGED <<reel, guest, main, stage, c, owed, kept, asked>>
      BY <1>2 DEF PowerOff
    <2>3. QED
      BY <2>1, <2>2
  <1>3. CASE copy_from
    BY <1>3 DEF copy_from, Drive
  <1>4. CASE PowerOn
    BY <1>4 DEF PowerOn, Drive
  <1>5. QED
    BY <1>1, <1>2, <1>3, <1>4

LEMMA InvNext == TapeInv /\ [Next]_vars => TapeInv'
  <1> SUFFICES ASSUME TapeInv, [Next]_vars PROVE TapeInv'
    OBVIOUS
  <1>1. TapeTypeOK'
    BY TypeNext DEF TapeInv
  <1>2. CASE UNCHANGED vars
    BY <1>1, <1>2 DEF TapeInv, OffStandsStill, StageUsed, FreshGuest, NotReadyWaits,
                      MainTakesForGuest, ByteInHand, Feeding, Calling, vars, power
  <1>3. CASE Next
    <2>1. OffStandsStill' /\ StageUsed' /\ (asked' => GuestParts')
      BY <1>3, GuestStep, PowerDownStep, UpdateStep, SwitchStep DEF Next
    <2>2. QED
      BY <1>1, <2>1 DEF TapeInv, GuestParts
  <1>4. QED
    BY <1>2, <1>3

-----------------------------------------------------------------------------
(* The theorem.                                                            *)

\* Who changes what is owed: a thread that takes a byte, the guest that reads
\* it, or the machine that replaces the guest.
LEMMA Owing ==
    ASSUME TapeInv, [Next]_vars, owed # 0, owed' # owed, asked
    PROVE  \/ guest = "read" /\ drive.data_byte = owed
           \/ PowerOn
  <1>1. CASE Guest
    <2>1. CASE GuestFeeds
      <3>1. guest = "take" => owed = 0
        BY DEF TapeInv, ByteInHand
      <3>2. QED
        BY <2>1, <3>1 DEF GuestFeeds, FeedStep, FeedTake, FeedData, FeedStatus, FeedEnd
    <2>2. CASE ReadData
      BY <2>2 DEF ReadData, TapeInv, ByteInHand
    <2>3. QED
      BY <1>1, <2>1, <2>2 DEF Guest, NextByte, NextByteReady, NextByteNotReady, ReadStatus
  <1>2. CASE update
    <2>1. CASE MainFeeds
      <3>1. main = "take" => owed = 0
        BY DEF TapeInv, MainTakesForGuest
      <3>2. QED
        BY <2>1, <3>1 DEF MainFeeds, FeedStep, FeedTake, FeedData, FeedStatus, FeedEnd
    <2>2. QED
      BY <1>2, <2>1 DEF update, NewFrame, UpdateWinds, UpdatePlaying, UpdateLoading,
                        UpdateReady, UpdatePilot, UpdateBars, UpdateTape
  <1>3. CASE UNCHANGED vars
    BY <1>3 DEF vars
  <1>4. QED
    BY <1>1, <1>2, <1>3 DEF Next, PowerDown, PressButton, PowerOff, copy_from

\* Every byte that either thread takes from the tape is read by the guest
\* before another is taken, for every interleaving of the guest's callbacks
\* (TapeDrive's write and read callbacks) with update(), which share the drive
\* without a lock.
THEOREM EachByteRead == Spec => BytesDelivered
  <1>1. Init => TapeInv
    BY InvInit
  <1>2. TapeInv /\ [Next]_vars => TapeInv'
    BY InvNext
  <1>3. TapeInv /\ [Next]_vars =>
            [owed # 0 /\ owed' # owed /\ asked =>
                \/ guest = "read" /\ drive.data_byte = owed
                \/ PowerOn]_vars
    BY Owing
  <1>4. QED
    BY <1>1, <1>2, <1>3, PTL DEF Spec, BytesDelivered
=============================================================================
