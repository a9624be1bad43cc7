----------------------------- MODULE Rom_proofs -----------------------------
(***************************************************************************)
(* Proofs about the boot ROM's interrupt handling, for a ring of any size  *)
(* and any devices: it implements module InterruptQueue.                   *)
(***************************************************************************)
EXTENDS Rom, SequenceTheorems, TLAPS

-----------------------------------------------------------------------------
(* Positions in the ring.                                                  *)

LEMMA WrapOnce ==
    /\ \A n \in 0 .. RingSize - 1 : Wrap(n) = n
    /\ \A n \in RingSize .. 2 * RingSize - 1 : Wrap(n) = n - RingSize
    /\ \A n \in 0 - RingSize .. 0 - 1 : Wrap(n) = n + RingSize
  BY RomAssumption DEF Wrap

LEMMA Differences ==
    \A p, w \in Slot : /\ Wrap(p - w) = IF p >= w THEN p - w ELSE p - w + RingSize
                       /\ Wrap(p - w) \in Slot
                       /\ Wrap(p - w) = 0 <=> p = w
  BY WrapOnce, RomAssumption DEF Slot

LEMMA NextSlot ==
    \A p \in Slot : /\ Wrap(p + 1) = IF p = RingSize - 1 THEN 0 ELSE p + 1
                    /\ Wrap(p + 1) \in Slot
  BY WrapOnce, RomAssumption DEF Slot

LEMMA Entries ==
    \A w, i \in Slot : /\ Wrap(w + i) = IF w + i < RingSize THEN w + i ELSE w + i - RingSize
                       /\ Wrap(w + i) \in Slot
  BY WrapOnce, RomAssumption DEF Slot

-----------------------------------------------------------------------------
(* The entries that the ring holds.                                        *)

Entry == Id \cup {"none"}

\* The ring rb between the program's position w and the handler's p.
RingOf(rb, p, w) == [i \in 1 .. Wrap(p - w) |-> rb[Wrap(w + i - 1)]]

LEMMA RingIsSeq ==
    ASSUME NEW rb \in [Slot -> Entry], NEW p \in Slot, NEW w \in Slot
    PROVE  /\ RingOf(rb, p, w) \in Seq(Entry)
           /\ Len(RingOf(rb, p, w)) = Wrap(p - w)
           /\ Wrap(p - w) \in Slot
           /\ \A i \in 1 .. Wrap(p - w) : /\ Wrap(w + i - 1) \in Slot
                                          /\ RingOf(rb, p, w)[i] = rb[Wrap(w + i - 1)]
  <1>1. Wrap(p - w) \in Slot /\ Wrap(p - w) \in Nat
    BY Differences DEF Slot
  <1>2. ASSUME NEW i \in 1 .. Wrap(p - w) PROVE Wrap(w + i - 1) \in Slot
    <2>1. i - 1 \in Slot /\ w + (i - 1) = w + i - 1
      BY <1>1, RomAssumption DEF Slot
    <2>2. QED
      BY <2>1, Entries
  <1>3. RingOf(rb, p, w) \in [1 .. Wrap(p - w) -> Entry]
    BY <1>2 DEF RingOf
  <1>4. QED
    BY <1>1, <1>2, <1>3 DEF RingOf

\* The handler's store puts an entry behind the others, and loses them all
\* and itself when there is one free slot left only.
LEMMA RingStores ==
    ASSUME NEW rb \in [Slot -> Entry], NEW p \in Slot, NEW w \in Slot, NEW x \in Entry
    PROVE  RingOf([rb EXCEPT ![p] = x], Wrap(p + 1), w) =
               IF Wrap(p - w) = RingSize - 1 THEN <<>> ELSE Append(RingOf(rb, p, w), x)
  <1> DEFINE n  == Wrap(p - w)
             q  == Wrap(p + 1)
             rc == [rb EXCEPT ![p] = x]
             old == RingOf(rb, p, w)
             new == RingOf(rc, q, w)
  <1>1. q \in Slot /\ n \in Slot /\ rc \in [Slot -> Entry]
    BY NextSlot, Differences
  <1>2. /\ old \in Seq(Entry) /\ Len(old) = n
        /\ \A i \in 1 .. n : Wrap(w + i - 1) \in Slot /\ old[i] = rb[Wrap(w + i - 1)]
    BY RingIsSeq
  <1>3. /\ new \in Seq(Entry) /\ Len(new) = Wrap(q - w)
        /\ \A i \in 1 .. Wrap(q - w) : Wrap(w + i - 1) \in Slot /\ new[i] = rc[Wrap(w + i - 1)]
    <2> HIDE DEF q, rc
    <2>1. QED
      BY <1>1, RingIsSeq
  <1>4. Wrap(q - w) = IF n = RingSize - 1 THEN 0 ELSE n + 1
    <2>1. q = IF p = RingSize - 1 THEN 0 ELSE p + 1
      BY NextSlot
    <2>2. n = IF p >= w THEN p - w ELSE p - w + RingSize
      BY Differences
    <2> HIDE DEF q, n
    <2>3. Wrap(q - w) = IF q >= w THEN q - w ELSE q - w + RingSize
      BY <1>1, Differences
    <2>4. QED
      BY <2>1, <2>2, <2>3, RomAssumption DEF Slot
  <1>5. CASE n = RingSize - 1
    BY <1>3, <1>4, <1>5, EmptySeq
  <1>6. CASE n # RingSize - 1
    <2> HIDE DEF old, new
    <2>1. ASSUME NEW i \in 1 .. n + 1
          PROVE  Wrap(w + i - 1) = p <=> i = n + 1
      <3>1. i - 1 \in Slot /\ w + i - 1 = w + (i - 1)
        BY <1>1, <1>6, RomAssumption DEF Slot
      <3>2. Wrap(w + i - 1) = IF w + (i - 1) < RingSize THEN w + (i - 1) ELSE w + (i - 1) - RingSize
        BY <3>1, Entries
      <3>3. n = IF p >= w THEN p - w ELSE p - w + RingSize
        BY Differences
      <3>4. QED
        BY <3>1, <3>2, <3>3, <1>1, RomAssumption DEF Slot
    <2>2. /\ Append(old, x) \in Seq(Entry) /\ Len(Append(old, x)) = n + 1
          /\ \A i \in 1 .. n : Append(old, x)[i] = old[i]
          /\ Append(old, x)[n + 1] = x
      BY <1>2, AppendProperties
    <2>3. \A i \in 1 .. n + 1 : new[i] = Append(old, x)[i]
      <3> TAKE i \in 1 .. n + 1
      <3>1. new[i] = rc[Wrap(w + i - 1)] /\ Wrap(w + i - 1) \in Slot
        BY <1>3, <1>4, <1>6
      <3>2. CASE i = n + 1
        BY <2>1, <2>2, <3>1, <3>2
      <3>3. CASE i # n + 1
        <4>1. i \in 1 .. n
          BY <3>3, <1>1, RomAssumption DEF Slot
        <4>2. QED
          BY <1>2, <2>1, <2>2, <3>1, <3>3, <4>1
      <3>4. QED
        BY <3>2, <3>3
    <2>4. new = Append(old, x)
      BY <1>3, <1>4, <1>6, <2>2, <2>3, SeqEqual
    <2>5. QED
      BY <1>6, <2>4 DEF old, new
  <1>7. QED
    BY <1>5, <1>6

\* The program takes the first entry.
LEMMA RingReturns ==
    ASSUME NEW rb \in [Slot -> Entry], NEW p \in Slot, NEW w \in Slot, p # w
    PROVE  /\ RingOf(rb, p, w) # <<>>
           /\ Head(RingOf(rb, p, w)) = rb[w]
           /\ RingOf(rb, p, Wrap(w + 1)) = Tail(RingOf(rb, p, w))
  <1> DEFINE n  == Wrap(p - w)
             v  == Wrap(w + 1)
             old == RingOf(rb, p, w)
             new == RingOf(rb, p, v)
  <1>1. v \in Slot /\ n \in Slot /\ n # 0 /\ n \in Nat
    BY NextSlot, Differences DEF Slot
  <1>2. /\ old \in Seq(Entry) /\ Len(old) = n
        /\ \A i \in 1 .. n : old[i] = rb[Wrap(w + i - 1)]
    BY RingIsSeq
  <1>3. /\ new \in Seq(Entry) /\ Len(new) = Wrap(p - v)
        /\ \A i \in 1 .. Wrap(p - v) : new[i] = rb[Wrap(v + i - 1)]
    BY <1>1, RingIsSeq
  <1>4. Wrap(p - v) = n - 1
    <2>1. v = IF w = RingSize - 1 THEN 0 ELSE w + 1
      BY NextSlot
    <2>2. n = IF p >= w THEN p - w ELSE p - w + RingSize
      BY Differences
    <2> HIDE DEF v, n
    <2>3. Wrap(p - v) = IF p >= v THEN p - v ELSE p - v + RingSize
      BY <1>1, Differences
    <2>4. QED
      BY <2>1, <2>2, <2>3, RomAssumption DEF Slot
  <1> HIDE DEF old, new
  <1>5. old # <<>> /\ Head(old) = rb[w]
    <2>1. Wrap(w + 1 - 1) = w
      BY WrapOnce, RomAssumption DEF Slot
    <2>2. QED
      BY <1>1, <1>2, <2>1
  <1>6. /\ Tail(old) \in Seq(Entry) /\ Len(Tail(old)) = n - 1
        /\ \A i \in 1 .. n - 1 : Tail(old)[i] = old[i + 1]
    BY <1>1, <1>2, <1>5, HeadTailProperties
  <1>7. ASSUME NEW i \in 1 .. n - 1 PROVE new[i] = Tail(old)[i]
    <2>1. i - 1 \in Slot /\ i \in Slot /\ i + 1 \in 1 .. n
      BY <1>1, RomAssumption DEF Slot
    <2>2. v + i - 1 = v + (i - 1) /\ w + (i + 1) - 1 = w + i
      BY <1>1, <2>1, RomAssumption DEF Slot
    <2>3. Wrap(v + (i - 1)) = Wrap(w + i)
      <3>1. Wrap(v + (i - 1)) = IF v + (i - 1) < RingSize THEN v + (i - 1) ELSE v + (i - 1) - RingSize
        BY <1>1, <2>1, Entries
      <3>2. Wrap(w + i) = IF w + i < RingSize THEN w + i ELSE w + i - RingSize
        BY <2>1, Entries
      <3>3. v = IF w = RingSize - 1 THEN 0 ELSE w + 1
        BY NextSlot
      <3>4. QED
        BY <2>1, <3>1, <3>2, <3>3, RomAssumption DEF Slot
    <2>4. QED
      BY <1>2, <1>3, <1>4, <1>6, <2>1, <2>2, <2>3
  <1>8. new = Tail(old)
    BY <1>3, <1>4, <1>6, <1>7, SeqEqual
  <1>9. QED
    BY <1>5, <1>8 DEF old, new

-----------------------------------------------------------------------------
(* The invariant.                                                          *)

\* The values of the variables.
RomTypeOK ==
    /\ pin \in BOOLEAN /\ waiting \in BOOLEAN
    /\ last_interrupt \in Entry /\ r8 \in Entry
    /\ code \in {"program", "check", "open", "waited", "return"}
    /\ handler \in {"none", "fetch", "store"}
    /\ interrupt_ringbuffer \in [Slot -> Entry]
    /\ interrupt_ringbuffer_pos \in Slot /\ wfi_ringbuffer_pos \in Slot

\* The handler runs with the pin off, since no interrupt is accepted while
\* IRQs are masked, and never within the masked part of wfi; and the program
\* comes to take an entry only when there is one.
HandlerAlone == handler # "none" => ~pin /\ code \notin {"check", "return"}
ReturnReady  == code = "return" => interrupt_ringbuffer_pos # wfi_ringbuffer_pos

\* The inductive invariant.
RomInv == RomTypeOK /\ HandlerAlone /\ ReturnReady

LEMMA InvInit == Init => RomInv
  <1>1. 0 \in Slot
    BY RomAssumption DEF Slot
  <1>2. QED
    BY <1>1 DEF Init, RomInv, RomTypeOK, HandlerAlone, ReturnReady, Entry

LEMMA InvNext == RomInv /\ [Next]_vars => RomInv'
  <1> SUFFICES ASSUME RomInv, [Next]_vars PROVE RomInv'
    OBVIOUS
  <1>1. Clock \in Entry /\ Device \subseteq Entry /\ Unlocked \subseteq Entry
    BY RomAssumption DEF Entry, Id
  <1> USE <1>1 DEF RomInv, RomTypeOK, HandlerAlone, ReturnReady, cpuVars, ringVars, Masked,
                   IrqPending, CodeStep, MaskingStep
  <1>2. ASSUME NEW id \in Device \cup {Clock}, interrupt(id) PROVE RomInv'
    BY <1>2 DEF interrupt
  <1>3. CASE TakeIrq
    BY <1>3 DEF TakeIrq
  <1>4. CASE FetchData
    BY <1>4 DEF FetchData
  <1>5. CASE StoreData
    BY <1>5, NextSlot DEF StoreData
  <1>6. CASE Compute
    BY <1>6 DEF Compute
  <1>7. CASE wfi
    BY <1>7 DEF wfi
  <1>8. CASE check_position
    BY <1>8 DEF check_position
  <1>9. CASE wait_for_interrupt
    BY <1>9 DEF wait_for_interrupt
  <1>10. CASE MaskAgain
    BY <1>10 DEF MaskAgain
  <1>11. CASE return_interrupt
    BY <1>11, NextSlot DEF return_interrupt
  <1>12. CASE UNCHANGED vars
    BY <1>12 DEF vars
  <1>13. QED
    BY <1>2, <1>3, <1>4, <1>5, <1>6, <1>7, <1>8, <1>9, <1>10, <1>11, <1>12
       DEF Next, fired, Irq, Wfi

-----------------------------------------------------------------------------
(* The refinement.                                                         *)

\* The entries in the ring, of which Outstanding is a continuation.
Held == RingOf(interrupt_ringbuffer, interrupt_ringbuffer_pos, wfi_ringbuffer_pos)

LEMMA Parts ==
    ASSUME NEW ring \in Seq(Entry), NEW x \in Entry
    PROVE  /\ ring \o <<>> \o <<>> = ring
           /\ ring \o <<x>> \o <<>> = Append(ring, x)
           /\ ring \o <<>> \o <<x>> = Append(ring, x)
  <1>1. ring \o <<>> = ring
    BY ConcatEmptySeq
  <1>2. ring \o <<x>> = Append(ring, x)
    BY AppendIsConcat
  <1>3. Append(ring, x) \o <<>> = Append(ring, x)
    BY AppendProperties, ConcatEmptySeq
  <1>4. QED
    BY <1>1, <1>2, <1>3

\* What is outstanding, by the handler's place and the pin.
LEMMA Cases ==
    ASSUME RomInv
    PROVE  /\ Held \in Seq(Entry)
           /\ handler = "store" => Outstanding = Append(Held, r8)
           /\ handler = "fetch" => Outstanding = Append(Held, last_interrupt)
           /\ handler = "none" /\ pin => Outstanding = Append(Held, last_interrupt)
           /\ handler = "none" /\ ~pin => Outstanding = Held
  <1>1. Held \in Seq(Entry)
    BY RingIsSeq DEF RomInv, RomTypeOK, Held
  <1>2. /\ r8 \in Entry /\ last_interrupt \in Entry
        /\ handler = "store" => ~pin
    BY DEF RomInv, RomTypeOK, HandlerAlone
  <1>3. Outstanding = Held
            \o (IF handler = "store" THEN <<r8>> ELSE <<>>)
            \o (IF handler = "fetch" \/ pin THEN <<last_interrupt>> ELSE <<>>)
    BY DEF Outstanding, Held, RingOf
  <1>4. handler = "store" => Outstanding = Held \o <<r8>> \o <<>>
    BY <1>2, <1>3
  <1>5. handler = "fetch" => Outstanding = Held \o <<>> \o <<last_interrupt>>
    BY <1>3
  <1>6. handler = "none" /\ pin => Outstanding = Held \o <<>> \o <<last_interrupt>>
    BY <1>3
  <1>7. handler = "none" /\ ~pin => Outstanding = Held \o <<>> \o <<>>
    BY <1>3
  <1>8. QED
    BY <1>1, <1>2, <1>4, <1>5, <1>6, <1>7, Parts

LEMMA CasesNext ==
    ASSUME RomInv'
    PROVE  /\ Held' \in Seq(Entry)
           /\ handler' = "store" => Outstanding' = Append(Held', r8')
           /\ handler' = "fetch" => Outstanding' = Append(Held', last_interrupt')
           /\ handler' = "none" /\ pin' => Outstanding' = Append(Held', last_interrupt')
           /\ handler' = "none" /\ ~pin' => Outstanding' = Held'
  <1>1. Held' \in Seq(Entry)
    BY RingIsSeq DEF RomInv, RomTypeOK, Held
  <1>2. /\ r8' \in Entry /\ last_interrupt' \in Entry
        /\ handler' = "store" => ~pin'
    BY DEF RomInv, RomTypeOK, HandlerAlone
  <1>3. Outstanding' = Held'
            \o (IF handler' = "store" THEN <<r8'>> ELSE <<>>)
            \o (IF handler' = "fetch" \/ pin' THEN <<last_interrupt'>> ELSE <<>>)
    BY DEF Outstanding, Held, RingOf
  <1>4. handler' = "store" => Outstanding' = Held' \o <<r8'>> \o <<>>
    BY <1>2, <1>3
  <1>5. handler' = "fetch" => Outstanding' = Held' \o <<>> \o <<last_interrupt'>>
    BY <1>3
  <1>6. handler' = "none" /\ pin' => Outstanding' = Held' \o <<>> \o <<last_interrupt'>>
    BY <1>3
  <1>7. handler' = "none" /\ ~pin' => Outstanding' = Held' \o <<>> \o <<>>
    BY <1>3
  <1>8. QED
    BY <1>1, <1>2, <1>4, <1>5, <1>6, <1>7, Parts

\* An interrupt that is accepted is behind the others.
LEMMA Accepts ==
    ASSUME RomInv, RomInv', handler = "none", ~pin, pin', handler' = "none",
           UNCHANGED <<ringVars, returned>>, last_interrupt' \in Id
    PROVE  Queue!Next
  <1>1. Held' = Held
    BY DEF Held, ringVars
  <1>2. Outstanding = Held /\ Outstanding' = Append(Held, last_interrupt')
    BY <1>1, Cases, CasesNext
  <1>3. Queue!Accept(last_interrupt')
    BY <1>2 DEF Queue!Accept
  <1>4. QED
    BY <1>3 DEF Queue!Next

\* A step that changes neither the pin, the handler nor the ring.
LEMMA Idles ==
    ASSUME UNCHANGED <<pin, last_interrupt, handler, r8, ringVars, returned>>
    PROVE  UNCHANGED <<Outstanding, returned>>
  BY DEF Outstanding, ringVars

LEMMA Masks ==
    ASSUME RomInv, RomInv', MaskingStep, code \in {"program", "waited"},
           UNCHANGED <<handler, r8, ringVars, returned>>
    PROVE  [Queue!Next]_<<Outstanding, returned>>
  <1>1. CASE UNCHANGED <<pin, last_interrupt>>
    BY <1>1, Idles
  <1>2. CASE pin' = TRUE /\ last_interrupt' \in Unlocked
    <2>1. handler = "none" /\ ~pin /\ last_interrupt' \in Id
      BY <1>2, RomAssumption DEF MaskingStep, CodeStep, IrqPending, Masked, Id
    <2>2. QED
      BY <1>2, <2>1, Accepts
  <1>3. QED
    BY <1>1, <1>2 DEF MaskingStep

LEMMA Stores ==
    ASSUME RomInv, RomInv', StoreData
    PROVE  [Queue!Next]_<<Outstanding, returned>>
  <1> DEFINE rb == interrupt_ringbuffer
             p  == interrupt_ringbuffer_pos
             w  == wfi_ringbuffer_pos
  <1>1. /\ rb \in [Slot -> Entry] /\ p \in Slot /\ w \in Slot /\ r8 \in Entry
        /\ handler = "store" /\ handler' = "none" /\ ~pin' /\ returned' = returned
        /\ rb' = [rb EXCEPT ![p] = r8] /\ p' = Wrap(p + 1) /\ w' = w
    BY DEF StoreData, RomInv, RomTypeOK, HandlerAlone, cpuVars
  <1>2. Outstanding = Append(Held, r8) /\ Outstanding' = Held'
    BY <1>1, Cases, CasesNext
  <1>3. Held = RingOf(rb, p, w) /\ Held' = RingOf([rb EXCEPT ![p] = r8], Wrap(p + 1), w)
    BY <1>1 DEF Held
  <1>4. Held' = IF Wrap(p - w) = RingSize - 1 THEN <<>> ELSE Append(Held, r8)
    BY <1>1, <1>3, RingStores
  <1>5. CASE Wrap(p - w) = RingSize - 1
    <2>1. Held \in Seq(Entry) /\ Len(Held) = RingSize - 1
      BY <1>1, <1>3, <1>5, RingIsSeq
    <2>2. Len(Outstanding) = RingSize
      BY <1>1, <1>2, <2>1, AppendProperties, RomAssumption
    <2>3. Queue!Overflow
      BY <1>1, <1>2, <1>4, <1>5, <2>2 DEF Queue!Overflow
    <2>4. QED
      BY <2>3 DEF Queue!Next
  <1>6. CASE Wrap(p - w) # RingSize - 1
    BY <1>1, <1>2, <1>4, <1>6
  <1>7. QED
    BY <1>5, <1>6

LEMMA HandsOut ==
    ASSUME RomInv, RomInv', return_interrupt
    PROVE  Queue!Next
  <1> DEFINE rb == interrupt_ringbuffer
             p  == interrupt_ringbuffer_pos
             w  == wfi_ringbuffer_pos
  <1>1. /\ rb \in [Slot -> Entry] /\ p \in Slot /\ w \in Slot /\ p # w
        /\ handler = "none" /\ handler' = "none" /\ pin' = pin /\ pin \in BOOLEAN
        /\ last_interrupt' = last_interrupt /\ last_interrupt \in Entry
        /\ rb' = rb /\ p' = p /\ w' = Wrap(w + 1) /\ returned' = rb[w]
    BY DEF return_interrupt, CodeStep, RomInv, RomTypeOK, ReturnReady, cpuVars
  <1>2. Held = RingOf(rb, p, w) /\ Held' = RingOf(rb, p, Wrap(w + 1))
    BY <1>1 DEF Held
  <1>3. Held # <<>> /\ Head(Held) = rb[w] /\ Held' = Tail(Held) /\ Held \in Seq(Entry)
    BY <1>1, <1>2, RingReturns, Cases
  <1>4. Outstanding # <<>> /\ Head(Outstanding) = rb[w] /\ Outstanding' = Tail(Outstanding)
    <2>1. CASE pin
      <3>1. Outstanding = Append(Held, last_interrupt)
        BY <1>1, <2>1, Cases
      <3>2. Outstanding' = Append(Held', last_interrupt)
        BY <1>1, <2>1, CasesNext
      <3>3. QED
        BY <1>1, <1>3, <3>1, <3>2, AppendProperties, HeadTailAppend
    <2>2. CASE ~pin
      BY <1>1, <1>3, <2>2, Cases, CasesNext
    <2>3. QED
      BY <1>1, <2>1, <2>2
  <1>5. Queue!Deliver
    BY <1>1, <1>4 DEF Queue!Deliver
  <1>6. QED
    BY <1>5 DEF Queue!Next

LEMMA StepMaps ==
    ASSUME RomInv, RomInv', [Next]_vars
    PROVE  [Queue!Next]_<<Outstanding, returned>>
  <1>1. ASSUME NEW id \in Device \cup {Clock}, interrupt(id)
        PROVE  [Queue!Next]_<<Outstanding, returned>>
    <2>1. /\ handler = "none" /\ ~pin /\ pin' /\ handler' = "none"
          /\ UNCHANGED <<ringVars, returned>> /\ last_interrupt' \in Id
      BY <1>1 DEF interrupt, Masked, Id
    <2>2. QED
      BY <2>1, Accepts
  <1>2. CASE TakeIrq
    <2>1. /\ handler = "none" /\ pin /\ handler' = "fetch"
          /\ last_interrupt' = last_interrupt /\ UNCHANGED <<ringVars, returned>>
      BY <1>2 DEF TakeIrq, IrqPending, Masked
    <2>2. Held' = Held
      BY <2>1 DEF Held, ringVars
    <2>3. QED
      BY <2>1, <2>2, Cases, CasesNext
  <1>3. CASE FetchData
    <2>1. /\ handler = "fetch" /\ handler' = "store" /\ r8' = last_interrupt
          /\ UNCHANGED <<ringVars, returned>>
      BY <1>3 DEF FetchData
    <2>2. Held' = Held
      BY <2>1 DEF Held, ringVars
    <2>3. QED
      BY <2>1, <2>2, Cases, CasesNext
  <1>4. CASE StoreData
    BY <1>4, Stores
  <1>5. CASE Compute
    BY <1>5, Idles DEF Compute, cpuVars
  <1>6. CASE wfi
    BY <1>6, Masks DEF wfi
  <1>7. CASE check_position
    BY <1>7, Idles DEF check_position, cpuVars
  <1>8. CASE wait_for_interrupt
    BY <1>8, Idles DEF wait_for_interrupt
  <1>9. CASE MaskAgain
    BY <1>9, Masks DEF MaskAgain
  <1>10. CASE return_interrupt
    BY <1>10, HandsOut
  <1>11. CASE UNCHANGED vars
    BY <1>11, Idles DEF vars, cpuVars
  <1>12. QED
    BY <1>1, <1>2, <1>3, <1>4, <1>5, <1>6, <1>7, <1>8, <1>9, <1>10, <1>11
       DEF Next, fired, Irq, Wfi

LEMMA InitMaps == Init => Queue!Init
  <1> SUFFICES ASSUME Init PROVE Queue!Init
    OBVIOUS
  <1>1. RomInv
    BY InvInit
  <1>2. Outstanding = Held
    BY <1>1, Cases DEF Init
  <1>3. Wrap(interrupt_ringbuffer_pos - wfi_ringbuffer_pos) = 0
    BY <1>1, Differences DEF Init, RomInv, RomTypeOK
  <1>4. Held = <<>>
    <2>1. Held \in Seq(Entry) /\ Len(Held) = 0
      BY <1>1, <1>3, RingIsSeq DEF Held, RomInv, RomTypeOK
    <2>2. QED
      BY <2>1, EmptySeq
  <1>5. QED
    BY <1>2, <1>4 DEF Init, Queue!Init

\* The boot ROM's handler, its ring and the system call wfi implement the
\* queue of module InterruptQueue for every size of the ring: an accepted
\* interrupt is handed out once and in order, and interrupts are lost only by
\* filling the ring, which loses all that are in it.
THEOREM RomHandsOut == Spec => InterruptsHandedOut
  <1>1. Init => Queue!Init
    BY InitMaps
  <1>2. Init => RomInv
    BY InvInit
  <1>3. RomInv /\ [Next]_vars => RomInv'
    BY InvNext
  <1>4. RomInv /\ RomInv' /\ [Next]_vars => [Queue!Next]_<<Outstanding, returned>>
    BY StepMaps
  <1>5. QED
    BY <1>1, <1>2, <1>3, <1>4, PTL DEF Spec, InterruptsHandedOut, Queue!Spec
=============================================================================
