------------------------------ MODULE Keyboard ------------------------------
(***************************************************************************)
(* The keyboard (class Keyboard of hardware.py) between the emulator, which*)
(* delivers keys to it, and the guest's tty_read(), which empties its ring *)
(* while more keys arrive.                                                 *)
(*                                                                         *)
(* The device's registers are a bit mask of the keys that are down, then   *)
(* the ring, then the ring's position.  A byte of the mask is the set of   *)
(* its bits and a word a tuple of four bytes, lowest first.                *)
(***************************************************************************)
EXTENDS Integers, Sequences, SequencesExt

CONSTANTS
    Key,           \* codes of the keys that are typed
    MaskBytes,     \* ringbuffer_start: 0x20
    RingSize,      \* ringbuffer_size: 128
    MaxKeys        \* bound: keys typed

ASSUME KeyboardAssumption ==
    /\ MaskBytes \in Nat /\ RingSize \in Nat \ {0}
    /\ MaskBytes % 4 = 0 /\ RingSize % 4 = 0
    /\ Key \subseteq 0 .. 8 * MaskBytes - 1

VARIABLES
    keyboard,      \* ring_buffer, pos and key_state
    stopped,       \* the debugger's flag
    held,          \* history: the keys that are down on the user's desk
    unseen,        \* history: keys that are held and whose press this keyboard
                   \* has not seen, or has seen let go with another's release
    stuck,         \* history: keys that were let go unseen
    tty,           \* the guest's tty_read(): init, last_pos, new_pos
    typed,         \* history: keys delivered since tty_read() began
    got,           \* history: what tty_read() has returned of them
    overrun        \* history: RingSize keys were unread at some time, or the
                   \* guest looked at a position past the ring

keyboardVars == <<keyboard, stopped, held, unseen, stuck, tty, typed, got, overrun>>

\* Emulator.key_down(), key_up(): return is sent as newline.
Code(key) == IF key = 13 THEN 10 ELSE key

ringbuffer_pos == MaskBytes + RingSize

-----------------------------------------------------------------------------
(* What the guest reads.                                                   *)

MaskByte(n) == {k % 8 : k \in {j \in keyboard.key_state : j \div 8 = n}}

read_byte_callback(addr) ==
    IF addr < MaskBytes THEN MaskByte(addr)
    ELSE IF addr < ringbuffer_pos THEN keyboard.ring_buffer[addr - MaskBytes]
    ELSE IF addr = ringbuffer_pos THEN keyboard.pos
    ELSE 0

\* A word of the mask is empty behind the mask's end; one of the ring that is
\* not aligned raises near the ring's end, since % binds tighter than +.
read_callback(addr) ==
    IF addr < MaskBytes THEN [i \in 1 .. 4 |-> MaskByte(addr + i - 1)]
    ELSE IF addr < ringbuffer_pos
    THEN LET At(i) == addr - MaskBytes + ((i - 1) % RingSize)
         IN  IF At(4) >= RingSize THEN <<"raises">>
             ELSE [i \in 1 .. 4 |-> keyboard.ring_buffer[At(i)]]
    ELSE <<IF addr = ringbuffer_pos THEN keyboard.pos ELSE 0, 0, 0, 0>>

-----------------------------------------------------------------------------
(* The emulator.                                                           *)

\* The main loop is not in the middle of a key_down().
Outside == keyboard.pos < RingSize

Pressed(key, code) ==
    /\ Len(typed) < MaxKeys
    /\ Outside
    /\ held' = held \cup {key}
    /\ stuck' = stuck \ {key}
    /\ IF stopped THEN /\ unseen' = unseen \cup ({key} \ held)
                       /\ UNCHANGED <<keyboard, typed, overrun>>
       ELSE /\ keyboard' = [ring_buffer |-> [keyboard.ring_buffer EXCEPT ![keyboard.pos] = code],
                            pos |-> keyboard.pos + 1,
                            key_state |-> keyboard.key_state \cup {code}]
            /\ typed' = Append(typed, code)
            /\ overrun' = (overrun \/ Len(typed) + 1 - Len(got) >= RingSize)
            /\ unseen' = unseen \ {key}
    /\ UNCHANGED <<stopped, tty, got>>

\* A key that is held is delivered again and again.  What becomes of the
\* interrupt is in modules Machine and Rom.
key_down(key) == Pressed(key, Code(key))

\* The end of key_down(): the guest's thread may see the position before.
WrapPos ==
    /\ keyboard.pos = RingSize
    /\ keyboard' = [keyboard EXCEPT !.pos = 0]
    /\ UNCHANGED <<stopped, held, unseen, stuck, tty, typed, got, overrun>>

\* What it means for the keys that are held, or were, that a key is let go: the
\* keyboard knows of codes, which keys may share.
Released(key) ==
    LET same == {k \in Key : Code(k) = Code(key)}
    IN  /\ held' = held \ {key}
        /\ IF stopped THEN unseen' = unseen \ {key} /\ stuck' = stuck \cup {key}
           ELSE unseen' = (unseen \cup (held \cap same)) \ {key} /\ stuck' = stuck \ same

\* Mutant of key_up: the key is cleared under the code that was not sent.
key_up_NoCode(key) ==
    /\ key \in held
    /\ Outside
    /\ Released(key)
    /\ IF stopped THEN UNCHANGED keyboard
       ELSE keyboard' = [keyboard EXCEPT !.key_state = @ \ {key}]
    /\ UNCHANGED <<stopped, tty, typed, got, overrun>>

key_up(key) ==
    /\ key \in held
    /\ Outside
    /\ Released(key)
    /\ IF stopped THEN UNCHANGED keyboard
       ELSE keyboard' = [keyboard EXCEPT !.key_state = @ \ {Code(key)}]
    /\ UNCHANGED <<stopped, tty, typed, got, overrun>>

\* The debugger stops the machine or lets it go on (module Debugger).
ToggleStopped ==
    /\ stopped' = ~stopped
    /\ UNCHANGED <<keyboard, held, unseen, stuck, tty, typed, got, overrun>>

-----------------------------------------------------------------------------
(* The guest.                                                              *)

\* Mutant of TtyInit: it starts at the beginning of the ring.
TtyInit_FromStart ==
    /\ ~tty.init
    /\ tty' = [init |-> TRUE, last_pos |-> 0, new_pos |-> keyboard.pos]
    /\ typed' = <<>>
    /\ overrun' = ~Outside
    /\ UNCHANGED <<keyboard, stopped, held, unseen, stuck, got>>

\* The first tty_read() starts at the ring's position of then.
TtyInit ==
    /\ ~tty.init
    /\ tty' = [init |-> TRUE, last_pos |-> keyboard.pos, new_pos |-> keyboard.pos]
    /\ typed' = <<>>
    /\ overrun' = ~Outside
    /\ UNCHANGED <<keyboard, stopped, held, unseen, stuck, got>>

\* It looks for the ring's new position ...
TtyLook ==
    /\ tty.init
    /\ tty' = [tty EXCEPT !.new_pos = keyboard.pos]
    /\ overrun' = (overrun \/ ~Outside)
    /\ UNCHANGED <<keyboard, stopped, held, unseen, stuck, typed, got>>

\* ... and takes one key after the other up to there.
TtyTake ==
    /\ tty.init
    /\ tty.last_pos # tty.new_pos
    /\ tty' = [tty EXCEPT !.last_pos = (@ + 1) % RingSize]
    /\ got' = Append(got, read_byte_callback(MaskBytes + tty.last_pos))
    /\ ~overrun                 \* bound: then anything may be read
    /\ UNCHANGED <<keyboard, stopped, held, unseen, stuck, typed, overrun>>

-----------------------------------------------------------------------------

NewKeyboard == [ring_buffer |-> [i \in 0 .. RingSize - 1 |-> 0], pos |-> 0, key_state |-> {}]
NewTty      == [init |-> FALSE, last_pos |-> 0, new_pos |-> 0]

KeyboardInit ==
    /\ keyboard = NewKeyboard
    /\ stopped = FALSE
    /\ held = {}
    /\ unseen = {}
    /\ stuck = {}
    /\ tty = NewTty
    /\ typed = <<>>
    /\ got = <<>>
    /\ overrun = FALSE

\* A new machine has a new keyboard, which does not know what is held.
KeyboardReset ==
    /\ Outside
    /\ keyboard' = NewKeyboard
    /\ unseen' = held
    /\ stuck' = {}
    /\ tty' = NewTty
    /\ typed' = <<>>
    /\ got' = <<>>
    /\ overrun' = FALSE
    /\ UNCHANGED <<stopped, held>>

KeyboardNext ==
    \/ \E key \in Key : key_down(key) \/ key_up(key)
    \/ WrapPos \/ ToggleStopped
    \/ TtyInit \/ TtyLook \/ TtyTake

-----------------------------------------------------------------------------
(* Properties.                                                             *)

\* The guest reads the keys in the order they were typed, none twice and none
\* left out, whatever is typed between its looking at the position and its
\* taking the keys, as long as fewer than RingSize wait and the guest does not
\* look between key_down()'s increment of the position and its wrapping it.
KeysInOrder == ~overrun => IsPrefix(got, typed)

\* The keys that are down for the guest are those that are held, always and
\* but for what the keyboard was not told: a key that was let go while the
\* debugger had the machine stopped stays down until its code is let go again or
\* the machine is replaced, no other does; and a key that is held is down unless
\* it was pressed before this machine or while it was stopped, or a key with the
\* same code was let go since.
KeysAsHeld ==
    /\ keyboard.key_state \subseteq {Code(k) : k \in held \cup stuck}
    /\ {Code(k) : k \in held \ unseen} \subseteq keyboard.key_state

\* An aligned word reads as its four bytes do, for every register.
KeyboardWordsAreBytes ==
    \A addr \in {a \in 0 .. ringbuffer_pos : a % 4 = 0} :
        read_callback(addr) = [i \in 1 .. 4 |-> read_byte_callback(addr + i - 1)]
=============================================================================
