---------------------------- MODULE Devices_proofs ---------------------------
(***************************************************************************)
(* Proofs about the emulator and its devices: the keyboard, for any keys   *)
(* and a ring of any size, the display, for any grid of cells and any      *)
(* font, the pool of shapes, for buffers of any size, the screens that     *)
(* machines borrow, for any number of them, the guest's loader, for any    *)
(* tapes that create.py can write, and then the whole of Devices, in which *)
(* the power switch makes keyboard, display and memory anew.               *)
(***************************************************************************)
EXTENDS Devices, Induction_proofs, FiniteSetTheorems

-----------------------------------------------------------------------------
(* Shapes: the invariant.                                                  *)

\* The vertex buffer, a shape in it, and what its owner wants to see.
Paint  == Colour \cup {0}
Buffer == [vertex : [Slot -> Int], shown : [Slot -> BOOLEAN], colour : [Slot -> Paint],
           current_size : Nat, vacant : SUBSET Slot]
Shape  == [slot : Slot, deleted : BOOLEAN, old_vertices : Int]
Wish   == [at : Nat, enabled : BOOLEAN, colour : Paint]

ShapesTypeOK ==
    /\ buffer \in Buffer
    /\ shapes \in Seq(Shape)
    /\ wanted \in Seq(Wish)
    /\ Len(wanted) = Len(shapes)
    /\ misused \subseteq Slot

\* Shapes, dead ones too, were given slots of the buffer's used part.
Housed ==
    /\ \A s \in DOMAIN shapes : shapes[s].slot < buffer.current_size
    /\ \A i \in misused : i < buffer.current_size

\* A living shape whose slot nobody touched through a deleted one.
Rightful(s) == Alive(s) /\ shapes[s].slot \notin misused

\* Holes lie below the end of the buffer's used part, and behind it nothing
\* was drawn yet.
UnusedBehind ==
    /\ \A i \in buffer.vacant : i < buffer.current_size
    /\ \A i \in Slot : i >= buffer.current_size => buffer.shown[i] /\ buffer.colour[i] = 0

\* A disabled shape remembers where its owner wants it.
Remembered ==
    \A s \in DOMAIN shapes :
        Rightful(s) => shapes[s].old_vertices = IF wanted[s].enabled THEN Nothing ELSE wanted[s].at

AllShown == \A s \in DOMAIN shapes : Rightful(s) => ShownAsWanted(s)

\* A slot that no living shape has draws nothing.
Unowned ==
    \A i \in Slot \ misused :
        (\A s \in DOMAIN shapes : Alive(s) => shapes[s].slot # i) => buffer.vertex[i] = 0

\* The inductive invariant.
ShapesInv ==
    ShapesTypeOK /\ Housed /\ SlotsExclusive /\ UnusedBehind /\ Remembered /\ AllShown /\ Unowned

LEMMA ShapesInvDraws == ShapesInv => DrawnAsWanted
  BY DEF ShapesInv, DrawnAsWanted, AllShown, Rightful, Unowned

LEMMA ShapesInvInit == ShapesInit => ShapesInv
  <1> SUFFICES ASSUME ShapesInit PROVE ShapesInv
    OBVIOUS
  <1>1. shapes = <<>> /\ wanted = <<>> /\ DOMAIN shapes = {} /\ Len(shapes) = 0 /\ Len(wanted) = 0
    BY DEF ShapesInit
  <1>2. shapes \in Seq(Shape) /\ wanted \in Seq(Wish)
    BY <1>1
  <1>3. buffer \in Buffer
    BY DEF ShapesInit, Buffer, Paint
  <1>4. SlotsExclusive /\ Remembered /\ AllShown /\ misused = {} /\ Housed
    BY <1>1 DEF SlotsExclusive, Remembered, AllShown, Housed, ShapesInit
  <1>5. UnusedBehind /\ Unowned
    BY DEF ShapesInit, UnusedBehind, Unowned
  <1>6. QED
    BY <1>1, <1>2, <1>3, <1>4, <1>5 DEF ShapesInv, ShapesTypeOK

-----------------------------------------------------------------------------
(* Shapes: the steps.                                                      *)

\* A shape that is alive, and its slot.
LEMMA ShapeFacts ==
    ASSUME ShapesInv
    PROVE  /\ DOMAIN shapes = 1 .. Len(shapes) /\ DOMAIN wanted = 1 .. Len(shapes)
           /\ Len(shapes) \in Nat
           /\ buffer \in Buffer
           /\ misused \subseteq Slot
           /\ \A s \in DOMAIN shapes : shapes[s] \in Shape /\ wanted[s] \in Wish
  BY DEF ShapesInv, ShapesTypeOK

\* The buffers that the actions make.
LEMMA BufferForms ==
    \A b \in Buffer, i \in Slot :
        /\ \A v \in Int : [b EXCEPT !.vertex[i] = v] \in Buffer
        /\ \A k \in Paint : [b EXCEPT !.colour[i] = k] \in Buffer
        /\ [b EXCEPT !.vacant = @ \ {i}, !.shown[i] = TRUE, !.colour[i] = 0] \in Buffer
        /\ [b EXCEPT !.vacant = @ \cup {i}, !.shown[i] = FALSE, !.vertex[i] = 0] \in Buffer
        /\ [b EXCEPT !.current_size = @ + 1] \in Buffer
  <1> TAKE b \in Buffer, i \in Slot
  <1>1. \A v \in Int : [b EXCEPT !.vertex[i] = v] \in Buffer
    BY DEF Buffer
  <1>2. \A k \in Paint : [b EXCEPT !.colour[i] = k] \in Buffer
    BY DEF Buffer
  <1>3. [b EXCEPT !.vacant = @ \ {i}, !.shown[i] = TRUE, !.colour[i] = 0] \in Buffer
    BY DEF Buffer, Paint
  <1>4. [b EXCEPT !.vacant = @ \cup {i}, !.shown[i] = FALSE, !.vertex[i] = 0] \in Buffer
    <2>1. b.vacant \cup {i} \in SUBSET Slot
      BY DEF Buffer
    <2>2. [b.shown EXCEPT ![i] = FALSE] \in [Slot -> BOOLEAN] /\ [b.vertex EXCEPT ![i] = 0] \in [Slot -> Int]
      BY DEF Buffer
    <2>3. [b EXCEPT !.vacant = b.vacant \cup {i}, !.shown = [b.shown EXCEPT ![i] = FALSE],
                    !.vertex = [b.vertex EXCEPT ![i] = 0]] \in Buffer
      BY <2>1, <2>2, Zenon DEF Buffer
    <2>4. QED
      BY <2>3
  <1>5. [b EXCEPT !.current_size = @ + 1] \in Buffer
    BY DEF Buffer
  <1>6. QED
    BY <1>1, <1>2, <1>3, <1>4, <1>5

\* A step that changes shape s and its slot only: every other shape that is
\* alive has another slot.
LEMMA OthersAside ==
    ASSUME ShapesInv, NEW s \in DOMAIN shapes, Rightful(s)
    PROVE  /\ shapes[s].slot \in Slot \ buffer.vacant
           /\ shapes[s].slot < buffer.current_size
           /\ \A t \in DOMAIN shapes : Alive(t) /\ t # s => shapes[t].slot # shapes[s].slot
           /\ ShownAsWanted(s)
           /\ shapes[s].old_vertices = IF wanted[s].enabled THEN Nothing ELSE wanted[s].at
  BY DEF ShapesInv, SlotsExclusive, AllShown, Remembered, Rightful

\* What a step may do to a shape that stays alive with its slot.
LEMMA OneChanges ==
    ASSUME ShapesInv, NEW s \in DOMAIN shapes, Rightful(s), UNCHANGED misused,
           buffer' \in Buffer,
           buffer'.vacant = buffer.vacant, buffer'.current_size = buffer.current_size,
           \A i \in Slot : i # shapes[s].slot =>
               /\ buffer'.vertex[i] = buffer.vertex[i]
               /\ buffer'.shown[i] = buffer.shown[i]
               /\ buffer'.colour[i] = buffer.colour[i],
           NEW h \in Shape, NEW w \in Wish,
           shapes' = [shapes EXCEPT ![s] = h], wanted' = [wanted EXCEPT ![s] = w],
           h.slot = shapes[s].slot, ~h.deleted,
           h.old_vertices = IF w.enabled THEN Nothing ELSE w.at,
           buffer'.vertex[h.slot] = IF w.enabled THEN w.at ELSE 0,
           buffer'.shown[h.slot],
           buffer'.colour[h.slot] = w.colour
    PROVE  ShapesInv'
  <1>1. /\ shapes' \in Seq(Shape) /\ wanted' \in Seq(Wish)
        /\ Len(shapes') = Len(shapes) /\ Len(wanted') = Len(shapes)
        /\ DOMAIN shapes' = DOMAIN shapes /\ DOMAIN wanted' = DOMAIN shapes
    BY DEF ShapesInv, ShapesTypeOK
  <1>2. /\ shapes'[s] = h /\ wanted'[s] = w
        /\ \A t \in DOMAIN shapes : t # s => shapes'[t] = shapes[t] /\ wanted'[t] = wanted[t]
    BY ShapeFacts
  <1>3. \A t \in DOMAIN shapes :
            /\ Alive(t)' <=> Alive(t)
            /\ shapes'[t].slot = shapes[t].slot
            /\ Rightful(t)' <=> Rightful(t)
    <2>1. \A t \in DOMAIN shapes : (Alive(t)' <=> Alive(t)) /\ shapes'[t].slot = shapes[t].slot
      BY <1>2 DEF Alive, Rightful
    <2>2. QED
      BY <2>1 DEF Rightful
  <1>4. ShapesTypeOK'
    <2>1. misused' \subseteq Slot
      BY ShapeFacts
    <2>2. QED
      BY <1>1, <2>1, Zenon DEF ShapesTypeOK
  <1>5. SlotsExclusive'
    BY <1>1, <1>3 DEF ShapesInv, SlotsExclusive
  <1>11. Housed'
    BY <1>1, <1>3 DEF ShapesInv, Housed
  <1>6. UnusedBehind'
    <2>1. \A i \in buffer.vacant : i < buffer.current_size
      BY DEF ShapesInv, UnusedBehind
    <2>2. ASSUME NEW i \in Slot, i >= buffer.current_size
          PROVE  buffer'.shown[i] /\ buffer'.colour[i] = 0
      <3>1. i # shapes[s].slot
        BY <2>2, OthersAside, ShapeFacts DEF Slot, Buffer
      <3>2. QED
        BY <2>2, <3>1 DEF ShapesInv, UnusedBehind
    <2>3. QED
      BY <2>1, <2>2 DEF UnusedBehind
  <1>7. Remembered'
    BY <1>1, <1>2, <1>3 DEF ShapesInv, Remembered
  <1>8. AllShown'
    <2>1. ASSUME NEW t \in DOMAIN shapes, Rightful(t), t # s PROVE ShownAsWanted(t)'
      <3>1. ShownAsWanted(t) /\ shapes[t].slot \in Slot /\ shapes[t].slot # shapes[s].slot
        BY <2>1, OthersAside DEF Rightful
      <3>2. shapes'[t] = shapes[t] /\ wanted'[t] = wanted[t]
        BY <1>2, <2>1
      <3>3. QED
        BY <3>1, <3>2 DEF ShownAsWanted
    <2>2. ShownAsWanted(s)'
      BY <1>2 DEF ShownAsWanted
    <2>3. QED
      BY <1>1, <1>3, <2>1, <2>2 DEF AllShown
  <1>9. Unowned'
    <2> SUFFICES ASSUME NEW i \in Slot \ misused,
                        \A t \in DOMAIN shapes' : Alive(t)' => shapes'[t].slot # i
                 PROVE  buffer'.vertex[i] = 0
      BY DEF Unowned
    <2>1. \A t \in DOMAIN shapes : Alive(t) => shapes[t].slot # i
      BY <1>1, <1>3
    <2>2. i # shapes[s].slot /\ buffer.vertex[i] = 0
      BY <2>1 DEF ShapesInv, Unowned, Rightful
    <2>3. QED
      BY <2>2
  <1>10. QED
    BY <1>4, <1>5, <1>6, <1>7, <1>8, <1>9, <1>11 DEF ShapesInv

\* A new shape in a slot that nobody has.
LEMMA OneMore ==
    ASSUME ShapesInv, NEW slot \in Slot \ misused, Made(slot), buffer' \in Buffer,
           \A t \in DOMAIN shapes : Alive(t) => shapes[t].slot # slot,
           buffer'.vertex = buffer.vertex, buffer'.vertex[slot] = 0,
           buffer'.vacant \subseteq buffer.vacant, slot \notin buffer'.vacant,
           buffer.current_size <= buffer'.current_size, slot < buffer'.current_size,
           buffer'.shown[slot], buffer'.colour[slot] = 0,
           \A i \in Slot : i # slot => /\ buffer'.shown[i] = buffer.shown[i]
                                       /\ buffer'.colour[i] = buffer.colour[i]
    PROVE  ShapesInv'
  <1>0. PICK n \in Nat : n = Len(shapes) + 1
    BY ShapeFacts
  <1> DEFINE h == [slot |-> slot, deleted |-> FALSE, old_vertices |-> Nothing]
             w == [at |-> 0, enabled |-> TRUE, colour |-> 0]
  <1>1. h \in Shape /\ w \in Wish
    BY DEF Shape, Wish, Nothing, Paint
  <1>2. shapes' = Append(shapes, h) /\ wanted' = Append(wanted, w) /\ misused' = misused
    BY DEF Made, Unasked
  <1>3. h.slot = slot /\ ~h.deleted /\ h.old_vertices = Nothing /\ w.at = 0 /\ w.enabled /\ w.colour = 0
    OBVIOUS
  <1> HIDE DEF h, w
  <1>4. /\ shapes' \in Seq(Shape) /\ wanted' \in Seq(Wish)
        /\ Len(shapes') = n /\ Len(wanted') = n
        /\ DOMAIN shapes' = 1 .. n /\ DOMAIN shapes = 1 .. n - 1 /\ n \in Nat
        /\ shapes'[n] = h /\ wanted'[n] = w
        /\ \A t \in DOMAIN shapes : shapes'[t] = shapes[t] /\ wanted'[t] = wanted[t]
    BY <1>0, <1>1, <1>2, AppendProperties DEF ShapesInv, ShapesTypeOK
  <1>5. /\ Alive(n)' /\ n \in DOMAIN shapes'
        /\ \A t \in DOMAIN shapes' : t = n \/ (t # n /\ t \in DOMAIN shapes)
        /\ \A t \in DOMAIN shapes : t # n /\ t \in DOMAIN shapes' /\ (Alive(t)' <=> Alive(t))
    <2>1. /\ n \in DOMAIN shapes'
          /\ \A t \in DOMAIN shapes' : t = n \/ (t # n /\ t \in DOMAIN shapes)
          /\ \A t \in DOMAIN shapes : t # n /\ t \in DOMAIN shapes'
      <3>1. DOMAIN shapes' = 1 .. n /\ DOMAIN shapes = 1 .. n - 1 /\ n \in Nat /\ n >= 1
        BY <1>0, <1>4, ShapeFacts
      <3>2. QED
        BY ONLY <3>1
    <2>2. \A t \in DOMAIN shapes : Alive(t)' <=> Alive(t)
      BY <1>4, Zenon DEF Alive
    <2>3. Alive(n)'
      BY <1>3, <1>4 DEF Alive
    <2>4. QED
      BY <2>1, <2>2, <2>3
  <1>6. ShapesTypeOK'
    BY <1>2, <1>4, ShapeFacts DEF ShapesTypeOK
  <1>13. Rightful(n)' /\ \A t \in DOMAIN shapes : Rightful(t)' <=> Rightful(t)
    BY <1>2, <1>3, <1>4, <1>5 DEF Rightful
  <1>14. Housed'
    <2>1. \A t \in DOMAIN shapes : shapes'[t].slot < buffer'.current_size
      BY <1>4, ShapeFacts DEF ShapesInv, Housed, Shape, Slot, Buffer
    <2>2. \A i \in misused : i < buffer'.current_size
      BY ShapeFacts DEF ShapesInv, Housed, Slot, Buffer
    <2>3. QED
      BY <1>2, <1>3, <1>4, <1>5, <2>1, <2>2 DEF Housed
  <1>7. SlotsExclusive'
    <2>1. shapes'[n].slot = slot /\ \A t \in DOMAIN shapes : shapes'[t].slot = shapes[t].slot
      BY <1>3, <1>4
    <2>2. \A t \in DOMAIN shapes : Rightful(t) =>
              /\ shapes[t].slot \in Slot \ buffer'.vacant
              /\ shapes[t].slot < buffer'.current_size
      BY OthersAside, ShapeFacts DEF Slot, Buffer
    <2>3. \A t, u \in DOMAIN shapes :
              Rightful(t) /\ Alive(u) /\ shapes[t].slot = shapes[u].slot => t = u
      BY DEF ShapesInv, SlotsExclusive, Rightful
    <2>4. QED
      BY <1>2, <1>5, <2>1, <2>2, <2>3 DEF SlotsExclusive, Rightful
  <1>8. UnusedBehind'
    <2>1. \A i \in buffer'.vacant : i < buffer'.current_size
      BY ShapeFacts DEF ShapesInv, UnusedBehind, Slot, Buffer
    <2>2. ASSUME NEW i \in Slot, i >= buffer'.current_size
          PROVE  buffer'.shown[i] /\ buffer'.colour[i] = 0
      <3>1. i # slot /\ i >= buffer.current_size
        BY <2>2, ShapeFacts DEF Slot, Buffer
      <3>2. QED
        BY <3>1 DEF ShapesInv, UnusedBehind
    <2>3. QED
      BY <2>1, <2>2 DEF UnusedBehind
  <1>9. Remembered'
    BY <1>3, <1>4, <1>5, <1>13 DEF ShapesInv, Remembered
  <1>10. AllShown'
    <2>1. ASSUME NEW t \in DOMAIN shapes, Rightful(t) PROVE ShownAsWanted(t)'
      <3>1. ShownAsWanted(t) /\ shapes[t].slot \in Slot /\ shapes[t].slot # slot
        BY <2>1, OthersAside DEF Rightful
      <3>2. shapes'[t] = shapes[t] /\ wanted'[t] = wanted[t]
        BY <1>4, <2>1
      <3>3. QED
        BY <3>1, <3>2 DEF ShownAsWanted
    <2>2. ShownAsWanted(n)'
      BY <1>3, <1>4 DEF ShownAsWanted
    <2>3. QED
      BY <1>5, <1>13, <2>1, <2>2 DEF AllShown
  <1>11. Unowned'
    <2> SUFFICES ASSUME NEW i \in Slot \ misused',
                        \A t \in DOMAIN shapes' : Alive(t)' => shapes'[t].slot # i
                 PROVE  buffer'.vertex[i] = 0
      BY DEF Unowned
    <2>1. \A t \in DOMAIN shapes : Alive(t) => shapes[t].slot # i
      BY <1>4, <1>5
    <2>2. QED
      BY <1>2, <2>1 DEF ShapesInv, Unowned
  <1>12. QED
    BY <1>6, <1>7, <1>8, <1>9, <1>10, <1>11, <1>14 DEF ShapesInv

\* A step that changes nothing but a slot that a deleted shape touched, and
\* shapes that have that slot.
OnlyAt(k) ==
    /\ buffer' \in Buffer /\ buffer'.current_size = buffer.current_size
    /\ \A i \in Slot : i # k =>
          /\ buffer'.vertex[i] = buffer.vertex[i]
          /\ buffer'.shown[i] = buffer.shown[i]
          /\ buffer'.colour[i] = buffer.colour[i]
          /\ i \in buffer'.vacant <=> i \in buffer.vacant

LEMMA Spoilt ==
    ASSUME ShapesInv, NEW k \in Slot, OnlyAt(k), ShapesTypeOK', k < buffer.current_size,
           k \in misused', misused' \in {misused, misused \cup {k}},
           DOMAIN shapes \subseteq DOMAIN shapes',
           \A t \in DOMAIN shapes : shapes[t].slot # k => shapes'[t] = shapes[t],
           \A t \in DOMAIN shapes' : shapes'[t].slot # k =>
               t \in DOMAIN shapes /\ shapes'[t] = shapes[t] /\ wanted'[t] = wanted[t]
    PROVE  ShapesInv'
  <1>1. misused \subseteq misused' /\ \A i \in misused' : i = k \/ i \in misused
    OBVIOUS
  <1>2. \A t \in DOMAIN shapes' : shapes'[t] \in Shape /\ shapes'[t].slot \in Slot
    <2>1. \A t \in DOMAIN shapes' : shapes'[t] \in Shape
      BY DEF ShapesTypeOK
    <2>2. QED
      BY <2>1 DEF Shape
  <1>3. \A t \in DOMAIN shapes' : Rightful(t)' =>
            /\ t \in DOMAIN shapes /\ Rightful(t) /\ shapes[t].slot # k
            /\ shapes'[t] = shapes[t] /\ wanted'[t] = wanted[t]
    BY <1>1 DEF Rightful, Alive
  <1>4. Housed'
    BY <1>1, <1>2 DEF ShapesInv, Housed, OnlyAt
  <1>5. SlotsExclusive'
    <2> SUFFICES ASSUME NEW t \in DOMAIN shapes', Rightful(t)'
                 PROVE  /\ shapes'[t].slot \in Slot \ buffer'.vacant
                        /\ shapes'[t].slot < buffer'.current_size
                        /\ \A u \in DOMAIN shapes' :
                              Alive(u)' /\ shapes'[u].slot = shapes'[t].slot => t = u
      BY DEF SlotsExclusive, Rightful
    <2>1. Rightful(t) /\ t \in DOMAIN shapes /\ shapes'[t] = shapes[t] /\ shapes[t].slot # k
      BY <1>3
    <2>2. /\ shapes[t].slot \in Slot \ buffer.vacant /\ shapes[t].slot < buffer.current_size
          /\ \A u \in DOMAIN shapes : Alive(u) /\ u # t => shapes[u].slot # shapes[t].slot
      BY <2>1, OthersAside
    <2>3. ASSUME NEW u \in DOMAIN shapes', Alive(u)', shapes'[u].slot = shapes'[t].slot
          PROVE  t = u
      BY <2>1, <2>2, <2>3 DEF Alive
    <2>4. QED
      BY <2>1, <2>2, <2>3 DEF OnlyAt
  <1>6. UnusedBehind'
    <2>1. \A i \in buffer'.vacant : i \in Slot /\ (i = k \/ i \in buffer.vacant)
      BY DEF OnlyAt, Buffer
    <2>2. \A i \in Slot : i >= buffer.current_size => i # k
      BY ShapeFacts DEF Slot, Buffer
    <2>3. QED
      BY <2>1, <2>2 DEF ShapesInv, UnusedBehind, OnlyAt
  <1>7. Remembered'
    BY <1>3 DEF ShapesInv, Remembered
  <1>8. AllShown'
    <2> SUFFICES ASSUME NEW t \in DOMAIN shapes', Rightful(t)' PROVE ShownAsWanted(t)'
      BY DEF AllShown
    <2>1. ShownAsWanted(t) /\ shapes[t].slot \in Slot /\ shapes[t].slot # k
      BY <1>3, OthersAside
    <2>2. QED
      BY <1>3, <2>1 DEF ShownAsWanted, OnlyAt
  <1>9. Unowned'
    <2> SUFFICES ASSUME NEW i \in Slot \ misused',
                        \A t \in DOMAIN shapes' : Alive(t)' => shapes'[t].slot # i
                 PROVE  buffer'.vertex[i] = 0
      BY DEF Unowned
    <2>1. i # k /\ i \notin misused
      BY <1>1
    <2>2. \A t \in DOMAIN shapes : Alive(t) => shapes[t].slot # i
      BY <2>1 DEF Alive
    <2>3. QED
      BY <2>1, <2>2 DEF ShapesInv, Unowned, OnlyAt
  <1>10. QED
    BY <1>4, <1>5, <1>6, <1>7, <1>8, <1>9 DEF ShapesInv

\* What a new shape leaves of the others.
LEMMA MadeAt ==
    ASSUME ShapesInv, NEW slot \in Slot, Made(slot), buffer' \in Buffer
    PROVE  /\ ShapesTypeOK'
           /\ DOMAIN shapes \subseteq DOMAIN shapes' /\ misused' = misused
           /\ \A t \in DOMAIN shapes : shapes'[t] = shapes[t]
           /\ \A t \in DOMAIN shapes' : shapes'[t].slot # slot =>
                  t \in DOMAIN shapes /\ shapes'[t] = shapes[t] /\ wanted'[t] = wanted[t]
  <1>0. PICK n \in Nat : n = Len(shapes) + 1
    BY ShapeFacts
  <1> DEFINE h == [slot |-> slot, deleted |-> FALSE, old_vertices |-> Nothing]
  <1>1. h \in Shape /\ Unasked \in Wish /\ h.slot = slot
    BY DEF Shape, Wish, Nothing, Paint, Unasked
  <1>2. shapes' = Append(shapes, h) /\ wanted' = Append(wanted, Unasked) /\ misused' = misused
    BY DEF Made
  <1> HIDE DEF h
  <1>3. /\ shapes' \in Seq(Shape) /\ wanted' \in Seq(Wish)
        /\ Len(shapes') = n /\ Len(wanted') = n
        /\ DOMAIN shapes' = 1 .. n /\ DOMAIN shapes = 1 .. n - 1 /\ shapes'[n] = h
        /\ \A t \in DOMAIN shapes : shapes'[t] = shapes[t] /\ wanted'[t] = wanted[t]
    BY <1>0, <1>1, <1>2, AppendProperties DEF ShapesInv, ShapesTypeOK
  <1>4. ShapesTypeOK'
    BY <1>2, <1>3, ShapeFacts DEF ShapesTypeOK
  <1>5. /\ DOMAIN shapes \subseteq DOMAIN shapes'
        /\ \A t \in DOMAIN shapes' : t = n \/ t \in DOMAIN shapes
    BY <1>3
  <1>6. QED
    BY <1>1, <1>2, <1>3, <1>4, <1>5

LEMMA StepHole == ShapesInv /\ NewShapeInHole => ShapesInv'
  <1> SUFFICES ASSUME ShapesInv, NewShapeInHole PROVE ShapesInv'
    OBVIOUS
  <1>1. PICK slot \in buffer.vacant : buffer' = Reuse(slot) /\ Made(slot)
    BY DEF NewShapeInHole
  <1>2. slot \in Slot /\ slot < buffer.current_size
    BY ShapeFacts DEF ShapesInv, UnusedBehind, Buffer
  <1>3. ASSUME slot \notin misused
        PROVE  /\ \A t \in DOMAIN shapes : Alive(t) => shapes[t].slot # slot
               /\ buffer.vertex[slot] = 0
    <2>1. \A t \in DOMAIN shapes : Alive(t) => shapes[t].slot # slot
      BY <1>3, OthersAside DEF Rightful
    <2>2. QED
      BY <1>2, <1>3, <2>1 DEF ShapesInv, Unowned
  <1>5. buffer' \in Buffer
    BY <1>1, <1>2, BufferForms, ShapeFacts, Zenon DEF Reuse
  <1>6. /\ buffer'.vertex = buffer.vertex /\ buffer'.current_size = buffer.current_size
        /\ buffer'.vacant = buffer.vacant \ {slot}
        /\ buffer'.shown = [buffer.shown EXCEPT ![slot] = TRUE]
        /\ buffer'.colour = [buffer.colour EXCEPT ![slot] = 0]
        /\ buffer.shown \in [Slot -> BOOLEAN] /\ buffer.colour \in [Slot -> Paint]
        /\ buffer.current_size \in Nat
    BY <1>1, ShapeFacts DEF Reuse, Buffer
  <1>7. /\ buffer'.shown[slot] /\ buffer'.colour[slot] = 0
        /\ \A i \in Slot : i # slot =>
              buffer'.shown[i] = buffer.shown[i] /\ buffer'.colour[i] = buffer.colour[i]
    BY <1>2, <1>6
  <1>8. /\ buffer'.vacant \subseteq buffer.vacant /\ slot \notin buffer'.vacant
        /\ buffer.current_size <= buffer'.current_size /\ slot < buffer'.current_size
        /\ buffer'.vertex = buffer.vertex
    BY <1>2, <1>6
  <1>9. CASE slot \notin misused
    <2>1. buffer'.vertex[slot] = 0
      BY <1>3, <1>8, <1>9
    <2>2. QED
      BY <1>1, <1>2, <1>3, <1>5, <1>7, <1>8, <1>9, <2>1, OneMore
  <1>10. CASE slot \in misused
    <2>1. OnlyAt(slot)
      BY <1>5, <1>6, <1>7, <1>8 DEF OnlyAt
    <2>2. /\ ShapesTypeOK' /\ DOMAIN shapes \subseteq DOMAIN shapes' /\ misused' = misused
          /\ \A t \in DOMAIN shapes : shapes'[t] = shapes[t]
          /\ \A t \in DOMAIN shapes' : shapes'[t].slot # slot =>
                 t \in DOMAIN shapes /\ shapes'[t] = shapes[t] /\ wanted'[t] = wanted[t]
      BY <1>1, <1>2, <1>5, MadeAt
    <2>3. slot \in misused' /\ misused' \in {misused, misused \cup {slot}}
      BY <1>10, <2>2
    <2>4. QED
      BY ONLY ShapesInv, <1>2, <2>1, <2>2, <2>3, Spoilt
  <1>11. QED
    BY <1>9, <1>10

LEMMA StepEnd == ShapesInv /\ NewShapeAtEnd => ShapesInv'
  <1> SUFFICES ASSUME ShapesInv, NewShapeAtEnd PROVE ShapesInv'
    OBVIOUS
  <1>1. PICK slot \in Nat : slot = buffer.current_size
    BY ShapeFacts DEF Buffer
  <1>2. /\ slot < BufferSize /\ buffer' = [buffer EXCEPT !.current_size = @ + 1] /\ Made(slot)
        /\ buffer.vacant = {}
    BY <1>1 DEF NewShapeAtEnd
  <1>3. slot \in Slot
    BY <1>1, <1>2, ShapesAssumption DEF Slot
  <1>4. slot \notin misused /\ \A t \in DOMAIN shapes : Alive(t) => shapes[t].slot # slot
    BY <1>1 DEF ShapesInv, Housed
  <1>5. /\ buffer.vertex[slot] = 0
        /\ buffer.shown[slot] /\ buffer.colour[slot] = 0
    BY <1>1, <1>3, <1>4 DEF ShapesInv, Unowned, UnusedBehind
  <1>6. buffer' \in Buffer
    BY <1>2, <1>3, BufferForms, ShapeFacts, Zenon
  <1>7. /\ buffer'.vertex = buffer.vertex /\ buffer'.current_size = buffer.current_size + 1
        /\ buffer'.vacant = {}
        /\ buffer'.shown = buffer.shown
        /\ buffer'.colour = buffer.colour
    BY <1>2, ShapeFacts DEF Buffer
  <1>8. QED
    BY <1>1, <1>2, <1>3, <1>4, <1>5, <1>6, <1>7, OneMore

LEMMA StepRaises == ShapesInv /\ NewShapeRaises => ShapesInv'
  <1> SUFFICES ASSUME ShapesInv, NewShapeRaises PROVE ShapesInv'
    OBVIOUS
  <1>1. /\ buffer' = [buffer EXCEPT !.current_size = @ + 1]
        /\ shapes' = shapes /\ wanted' = wanted /\ misused' = misused
    BY DEF NewShapeRaises
  <1>2. 0 \in Slot
    BY ShapesAssumption DEF Slot
  <1>3. buffer' \in Buffer
    BY <1>1, <1>2, BufferForms, ShapeFacts, Zenon
  <1>4. /\ buffer'.vertex = buffer.vertex /\ buffer'.current_size = buffer.current_size + 1
        /\ buffer'.vacant = buffer.vacant /\ buffer.vacant \subseteq Slot
        /\ buffer'.shown = buffer.shown /\ buffer'.colour = buffer.colour
        /\ buffer.current_size \in Nat
    BY <1>1, ShapeFacts DEF Buffer
  <1>5. ShapesTypeOK' /\ Remembered'
    BY <1>1, <1>3 DEF ShapesInv, ShapesTypeOK, Remembered, Rightful, Alive
  <1>6. SlotsExclusive' /\ UnusedBehind'
    BY <1>1, <1>4 DEF ShapesInv, SlotsExclusive, UnusedBehind, Alive, Slot
  <1>9. Housed'
    BY <1>1, <1>4, ShapeFacts DEF ShapesInv, Housed, Shape, Slot
  <1>7. AllShown' /\ Unowned'
    BY <1>1, <1>4 DEF ShapesInv, AllShown, ShownAsWanted, Unowned, Rightful, Alive
  <1>8. QED
    BY <1>5, <1>6, <1>7, <1>9 DEF ShapesInv

\* A shape goes, and its slot can be had again.
LEMMA StepDelete ==
    ASSUME ShapesInv, NEW s \in DOMAIN shapes, delete(s), Rightful(s)
    PROVE  ShapesInv'
  <1> DEFINE h == [shapes[s] EXCEPT !.deleted = TRUE]
  <1>1. PICK k \in Slot : k = shapes[s].slot
    BY OthersAside
  <1>2. /\ misused' = misused /\ wanted' = [wanted EXCEPT ![s] = Unasked]
        /\ buffer' = remove_shape(k) /\ shapes' = [shapes EXCEPT ![s] = h]
    BY <1>1 DEF delete, Touched, Rightful
  <1>3. h \in Shape /\ h.slot = k /\ h.deleted
    <2>1. h \in Shape
      BY ShapeFacts, Zenon DEF Shape
    <2>2. QED
      BY <1>1, <2>1, ShapeFacts DEF Shape
  <1> HIDE DEF h
  <1>4. /\ shapes' \in Seq(Shape) /\ Len(shapes') = Len(shapes) /\ DOMAIN shapes' = DOMAIN shapes
        /\ shapes'[s] = h /\ \A t \in DOMAIN shapes : t # s => shapes'[t] = shapes[t]
    BY <1>2, <1>3 DEF ShapesInv, ShapesTypeOK
  <1>17. /\ wanted' \in Seq(Wish) /\ Len(wanted') = Len(shapes)
         /\ \A t \in DOMAIN shapes : t # s => wanted'[t] = wanted[t]
    <2>1. Unasked \in Wish
      BY DEF Unasked, Wish, Paint
    <2>2. QED
      BY <1>2, <2>1 DEF ShapesInv, ShapesTypeOK
  <1>5. ~Alive(s)' /\ \A t \in DOMAIN shapes : t # s => (Alive(t)' <=> Alive(t))
    BY <1>3, <1>4 DEF Alive
  <1>18. ~Rightful(s)' /\ \A t \in DOMAIN shapes : t # s => (Rightful(t)' <=> Rightful(t))
    BY <1>2, <1>4, <1>5 DEF Rightful
  <1>6. buffer' \in Buffer
    BY <1>2, BufferForms, ShapeFacts, Zenon DEF remove_shape
  <1>7. /\ buffer'.current_size = buffer.current_size /\ buffer.current_size \in Nat
        /\ buffer'.vacant = buffer.vacant \cup {k} /\ buffer'.colour = buffer.colour
        /\ buffer'.vertex = [buffer.vertex EXCEPT ![k] = 0] /\ buffer.vertex \in [Slot -> Int]
        /\ buffer'.shown = [buffer.shown EXCEPT ![k] = FALSE] /\ buffer.shown \in [Slot -> BOOLEAN]
    BY <1>2, ShapeFacts DEF remove_shape, Buffer
  <1>8. \A i \in Slot : i # k =>
            buffer'.vertex[i] = buffer.vertex[i] /\ buffer'.shown[i] = buffer.shown[i]
    BY <1>7
  <1>9. \A t \in DOMAIN shapes : Rightful(t) /\ t # s =>
            /\ shapes[t].slot \in Slot \ buffer.vacant /\ shapes[t].slot < buffer.current_size
            /\ shapes[t].slot # k /\ ShownAsWanted(t)
    BY <1>1, <1>2, OthersAside DEF Rightful
  <1>10. ShapesTypeOK'
    BY <1>2, <1>4, <1>6, <1>17, ShapeFacts DEF ShapesTypeOK
  <1>19. Housed'
    BY <1>1, <1>2, <1>3, <1>4, <1>7 DEF ShapesInv, Housed
  <1>11. SlotsExclusive'
    <2> SUFFICES ASSUME NEW t \in DOMAIN shapes, t # s, Rightful(t)
                 PROVE  /\ shapes'[t].slot \in Slot \ buffer'.vacant
                        /\ shapes'[t].slot < buffer'.current_size
                        /\ \A u \in DOMAIN shapes :
                              Alive(u)' /\ shapes'[u].slot = shapes'[t].slot => t = u
      BY <1>4, <1>18 DEF SlotsExclusive, Rightful
    <2>1. \A u \in DOMAIN shapes : Alive(u) /\ shapes[u].slot = shapes[t].slot => t = u
      BY DEF ShapesInv, SlotsExclusive, Rightful
    <2>2. QED
      BY <1>4, <1>5, <1>7, <1>9, <2>1
  <1>12. UnusedBehind'
    <2>1. k < buffer.current_size
      BY <1>1, OthersAside
    <2>2. \A i \in buffer'.vacant : i < buffer'.current_size
      BY <1>7, <2>1 DEF ShapesInv, UnusedBehind
    <2>3. \A i \in Slot : i >= buffer'.current_size => buffer'.shown[i] /\ buffer'.colour[i] = 0
      <3> TAKE i \in Slot
      <3> HAVE i >= buffer'.current_size
      <3>1. i # k
        BY <1>1, <1>7, <2>1 DEF Slot
      <3>2. QED
        BY <1>7, <1>8, <3>1 DEF ShapesInv, UnusedBehind
    <2>4. QED
      BY <2>2, <2>3 DEF UnusedBehind
  <1>13. Remembered'
    BY <1>4, <1>17, <1>18 DEF ShapesInv, Remembered
  <1>14. AllShown'
    BY <1>4, <1>7, <1>8, <1>9, <1>17, <1>18 DEF AllShown, ShownAsWanted
  <1>15. Unowned'
    <2> SUFFICES ASSUME NEW i \in Slot \ misused, i # k,
                        \A t \in DOMAIN shapes' : Alive(t)' => shapes'[t].slot # i
                 PROVE  buffer'.vertex[i] = 0
      BY <1>2, <1>7 DEF Unowned
    <2>1. \A t \in DOMAIN shapes : Alive(t) => shapes[t].slot # i
      BY <1>1, <1>4, <1>5
    <2>2. QED
      BY <1>8, <2>1 DEF ShapesInv, Unowned
  <1>16. QED
    BY <1>10, <1>11, <1>19, <1>12, <1>13, <1>14, <1>15 DEF ShapesInv

\* Writing a record that is there already changes nothing.
LEMMA SameShape ==
    ASSUME ShapesInv, NEW s \in DOMAIN shapes
    PROVE  shapes = [shapes EXCEPT ![s] = shapes[s]] /\ wanted = [wanted EXCEPT ![s] = wanted[s]]
  BY DEF ShapesInv, ShapesTypeOK

\* The shape and the wish that an action leaves behind.
LEMMA ShapeForms ==
    ASSUME ShapesInv, NEW s \in DOMAIN shapes
    PROVE  /\ shapes[s] \in Shape /\ wanted[s] \in Wish
           /\ \A v \in Int : LET h == [shapes[s] EXCEPT !.old_vertices = v]
                             IN  /\ h \in Shape /\ h.slot = shapes[s].slot
                                 /\ h.deleted = shapes[s].deleted /\ h.old_vertices = v
           /\ \A b \in BOOLEAN : LET w == [wanted[s] EXCEPT !.enabled = b]
                                 IN  /\ w \in Wish /\ w.at = wanted[s].at
                                     /\ w.enabled = b /\ w.colour = wanted[s].colour
           /\ \A v \in Nat : LET w == [wanted[s] EXCEPT !.at = v]
                             IN  /\ w \in Wish /\ w.at = v
                                 /\ w.enabled = wanted[s].enabled /\ w.colour = wanted[s].colour
           /\ \A k \in Paint : LET w == [wanted[s] EXCEPT !.colour = k]
                               IN  /\ w \in Wish /\ w.at = wanted[s].at
                                   /\ w.enabled = wanted[s].enabled /\ w.colour = k
  <1>1. shapes[s] \in Shape /\ wanted[s] \in Wish
    BY ShapeFacts
  <1>2. \A v \in Int : [shapes[s] EXCEPT !.old_vertices = v] \in Shape
    BY <1>1, Zenon DEF Shape
  <1>3. \A b \in BOOLEAN : [wanted[s] EXCEPT !.enabled = b] \in Wish
    BY <1>1, Zenon DEF Wish
  <1>4. \A v \in Nat : [wanted[s] EXCEPT !.at = v] \in Wish
    BY <1>1, Zenon DEF Wish
  <1>5. \A k \in Paint : [wanted[s] EXCEPT !.colour = k] \in Wish
    BY <1>1, Zenon DEF Wish
  <1>6. \A v \in Int : LET h == [shapes[s] EXCEPT !.old_vertices = v]
                       IN  h.slot = shapes[s].slot /\ h.deleted = shapes[s].deleted /\ h.old_vertices = v
    BY <1>1 DEF Shape
  <1>7. \A b \in BOOLEAN : LET w == [wanted[s] EXCEPT !.enabled = b]
                           IN  w.at = wanted[s].at /\ w.enabled = b /\ w.colour = wanted[s].colour
    BY <1>1, Zenon DEF Wish
  <1>8. \A v \in Nat : LET w == [wanted[s] EXCEPT !.at = v]
                       IN  w.at = v /\ w.enabled = wanted[s].enabled /\ w.colour = wanted[s].colour
    BY <1>1, Zenon DEF Wish
  <1>9. \A k \in Paint : LET w == [wanted[s] EXCEPT !.colour = k]
                         IN  w.at = wanted[s].at /\ w.enabled = wanted[s].enabled /\ w.colour = k
    BY <1>1, Zenon DEF Wish
  <1>10. QED
    BY <1>1, <1>2, <1>3, <1>4, <1>5, <1>6, <1>7, <1>8, <1>9, Zenon

\* A shape that is alive moves in its slot, or behind its slot's back while it
\* is disabled.
LEMMA Moved ==
    ASSUME ShapesInv, NEW s \in DOMAIN shapes, Rightful(s), UNCHANGED misused,
           NEW h \in Shape, NEW w \in Wish, NEW v \in Int,
           buffer' = [buffer EXCEPT !.vertex[shapes[s].slot] = v],
           shapes' = [shapes EXCEPT ![s] = h], wanted' = [wanted EXCEPT ![s] = w],
           h.slot = shapes[s].slot, ~h.deleted,
           w.enabled => h.old_vertices = Nothing /\ v = w.at,
           ~w.enabled => h.old_vertices = w.at /\ v = 0,
           w.colour = wanted[s].colour
    PROVE  ShapesInv'
  <1>1. shapes[s].slot \in Slot /\ ShownAsWanted(s)
    BY OthersAside
  <1>2. buffer' \in Buffer
    BY <1>1, BufferForms, ShapeFacts, Zenon
  <1>3. /\ buffer'.vacant = buffer.vacant /\ buffer'.current_size = buffer.current_size
        /\ buffer'.shown = buffer.shown /\ buffer'.colour = buffer.colour
        /\ buffer'.vertex = [buffer.vertex EXCEPT ![shapes[s].slot] = v]
        /\ buffer.vertex \in [Slot -> Int]
    BY ShapeFacts DEF Buffer
  <1>4. \A i \in Slot : i # shapes[s].slot =>
            /\ buffer'.vertex[i] = buffer.vertex[i]
            /\ buffer'.shown[i] = buffer.shown[i]
            /\ buffer'.colour[i] = buffer.colour[i]
    BY <1>3
  <1>5. /\ buffer'.vertex[h.slot] = v /\ buffer'.shown[h.slot]
        /\ buffer'.colour[h.slot] = w.colour
    BY <1>1, <1>3 DEF ShownAsWanted
  <1>6. /\ h.old_vertices = IF w.enabled THEN Nothing ELSE w.at
        /\ buffer'.vertex[h.slot] = IF w.enabled THEN w.at ELSE 0
    BY <1>5
  <1>7. QED
    BY <1>2, <1>3, <1>4, <1>5, <1>6, OneChanges

\* Nothing changes in the buffer: its entry may as well be written again.
LEMMA StaysPut ==
    ASSUME ShapesInv, NEW s \in DOMAIN shapes, Rightful(s), UNCHANGED buffer
    PROVE  /\ buffer' = [buffer EXCEPT !.vertex[shapes[s].slot] = buffer.vertex[shapes[s].slot]]
           /\ buffer.vertex[shapes[s].slot] \in Int
  BY OthersAside, ShapeFacts DEF Buffer

LEMMA StepDisable ==
    ASSUME ShapesInv, NEW s \in DOMAIN shapes, disable(s), Rightful(s)
    PROVE  ShapesInv'
  <1> DEFINE w == [wanted[s] EXCEPT !.enabled = FALSE]
  <1>1. /\ Rightful(s) /\ wanted' = [wanted EXCEPT ![s] = w] /\ UNCHANGED misused
        /\ shapes[s] \in Shape /\ ~shapes[s].deleted /\ wanted[s].at \in Nat
        /\ shapes[s].old_vertices = IF wanted[s].enabled THEN Nothing ELSE wanted[s].at
        /\ buffer.vertex[shapes[s].slot] = IF wanted[s].enabled THEN wanted[s].at ELSE 0
    BY OthersAside, ShapeFacts DEF disable, Alive, Rightful, ShownAsWanted, Wish
  <1>2. w \in Wish /\ w.at = wanted[s].at /\ ~w.enabled /\ w.colour = wanted[s].colour
    BY ShapeForms, Zenon
  <1> HIDE DEF w
  <1>3. CASE shapes[s].old_vertices = Nothing
    <2> DEFINE h == [shapes[s] EXCEPT !.old_vertices = wanted[s].at]
    <2>1. h \in Shape /\ h.slot = shapes[s].slot /\ ~h.deleted /\ h.old_vertices = wanted[s].at
      BY <1>1, ShapeForms
    <2>2. wanted[s].enabled
      BY <1>1, <1>3 DEF Nothing
    <2>3. /\ shapes' = [shapes EXCEPT ![s] = h]
          /\ buffer' = [buffer EXCEPT !.vertex[shapes[s].slot] = 0]
      BY <1>1, <1>3, <2>2 DEF disable
    <2> HIDE DEF h
    <2>4. 0 \in Int /\ (~w.enabled => h.old_vertices = w.at) /\ ~w.enabled
      BY <1>2, <2>1
    <2>5. Rightful(s) /\ UNCHANGED misused /\ wanted' = [wanted EXCEPT ![s] = w] /\ w.colour = wanted[s].colour /\ w \in Wish
      BY <1>1, <1>2
    <2>6. QED
      BY ONLY ShapesInv, s \in DOMAIN shapes, <2>1, <2>3, <2>4, <2>5, Moved
  <1>4. CASE shapes[s].old_vertices # Nothing
    <2>1. ~wanted[s].enabled /\ UNCHANGED <<buffer, shapes>>
      BY <1>1, <1>4 DEF disable
    <2>2. PICK v \in Int : v = buffer.vertex[shapes[s].slot]
      BY <1>1, StaysPut, <2>1
    <2>3. /\ buffer' = [buffer EXCEPT !.vertex[shapes[s].slot] = v]
          /\ shapes' = [shapes EXCEPT ![s] = shapes[s]]
      BY <1>1, <2>1, <2>2, SameShape, StaysPut
    <2>4. /\ w.enabled => shapes[s].old_vertices = Nothing /\ v = w.at
          /\ ~w.enabled => shapes[s].old_vertices = w.at /\ v = 0
      BY <1>1, <1>2, <2>1, <2>2
    <2>5. QED
      BY ONLY ShapesInv, s \in DOMAIN shapes, <1>1, <1>2, <2>3, <2>4, Moved
  <1>5. QED
    BY <1>3, <1>4

LEMMA StepEnable ==
    ASSUME ShapesInv, NEW s \in DOMAIN shapes, enable(s), Rightful(s)
    PROVE  ShapesInv'
  <1> DEFINE w == [wanted[s] EXCEPT !.enabled = TRUE]
  <1>1. /\ Rightful(s) /\ wanted' = [wanted EXCEPT ![s] = w] /\ UNCHANGED misused
        /\ shapes[s] \in Shape /\ ~shapes[s].deleted /\ wanted[s].at \in Nat
        /\ shapes[s].old_vertices = IF wanted[s].enabled THEN Nothing ELSE wanted[s].at
        /\ buffer.vertex[shapes[s].slot] = IF wanted[s].enabled THEN wanted[s].at ELSE 0
    BY OthersAside, ShapeFacts DEF enable, Alive, Rightful, ShownAsWanted, Wish
  <1>2. w \in Wish /\ w.at = wanted[s].at /\ w.enabled /\ w.colour = wanted[s].colour
    BY ShapeForms, Zenon
  <1> HIDE DEF w
  <1>3. CASE shapes[s].old_vertices # Nothing
    <2> DEFINE h == [shapes[s] EXCEPT !.old_vertices = Nothing]
    <2>1. h \in Shape /\ h.slot = shapes[s].slot /\ ~h.deleted /\ h.old_vertices = Nothing
      BY <1>1, ShapeForms DEF Nothing
    <2>2. shapes[s].old_vertices = wanted[s].at
      BY <1>1, <1>3
    <2>3. /\ shapes' = [shapes EXCEPT ![s] = h]
          /\ buffer' = [buffer EXCEPT !.vertex[shapes[s].slot] = wanted[s].at]
      BY <1>3, <2>2 DEF enable
    <2> HIDE DEF h
    <2>4. /\ w.enabled => h.old_vertices = Nothing /\ wanted[s].at = w.at
          /\ wanted[s].at \in Int
      BY <1>1, <1>2, <2>1
    <2>5. QED
      BY ONLY ShapesInv, s \in DOMAIN shapes, <1>1, <1>2, <2>1, <2>3, <2>4, Moved
  <1>4. CASE shapes[s].old_vertices = Nothing
    <2>1. wanted[s].enabled /\ UNCHANGED <<buffer, shapes>>
      BY <1>1, <1>4 DEF enable, Nothing
    <2>2. PICK v \in Int : v = buffer.vertex[shapes[s].slot]
      BY <1>1, StaysPut, <2>1
    <2>3. /\ buffer' = [buffer EXCEPT !.vertex[shapes[s].slot] = v]
          /\ shapes' = [shapes EXCEPT ![s] = shapes[s]]
      BY <1>1, <2>1, <2>2, SameShape, StaysPut
    <2>4. /\ w.enabled => shapes[s].old_vertices = Nothing /\ v = w.at
          /\ ~w.enabled => shapes[s].old_vertices = w.at /\ v = 0
      BY <1>1, <1>2, <2>1, <2>2
    <2>5. QED
      BY ONLY ShapesInv, s \in DOMAIN shapes, <1>1, <1>2, <2>3, <2>4, Moved
  <1>5. QED
    BY <1>3, <1>4

\* set_vertices() and translate() of a shape that is alive.
LEMMA StepTo ==
    ASSUME ShapesInv, NEW s \in DOMAIN shapes, Rightful(s), UNCHANGED misused, NEW at \in Nat,
           wanted' = [wanted EXCEPT ![s].at = at],
           IF shapes[s].old_vertices # Nothing
           THEN /\ shapes' = [shapes EXCEPT ![s].old_vertices = at]
                /\ buffer' \in {buffer, [buffer EXCEPT !.vertex[shapes[s].slot] = 0]}
           ELSE /\ buffer' = [buffer EXCEPT !.vertex[shapes[s].slot] = at]
                /\ UNCHANGED shapes
    PROVE  ShapesInv'
  <1> DEFINE w == [wanted[s] EXCEPT !.at = at]
  <1>1. /\ wanted' = [wanted EXCEPT ![s] = w]
        /\ shapes[s] \in Shape /\ ~shapes[s].deleted /\ wanted[s].at \in Nat
        /\ shapes[s].old_vertices = IF wanted[s].enabled THEN Nothing ELSE wanted[s].at
        /\ buffer.vertex[shapes[s].slot] = IF wanted[s].enabled THEN wanted[s].at ELSE 0
    BY OthersAside, ShapeFacts DEF Alive, Rightful, ShownAsWanted, Wish
  <1>2. w \in Wish /\ w.at = at /\ w.enabled = wanted[s].enabled /\ w.colour = wanted[s].colour
    BY ShapeForms, Zenon
  <1> HIDE DEF w
  <1>3. CASE shapes[s].old_vertices # Nothing
    <2> DEFINE h == [shapes[s] EXCEPT !.old_vertices = at]
    <2>1. h \in Shape /\ h.slot = shapes[s].slot /\ ~h.deleted /\ h.old_vertices = at
      BY <1>1, ShapeForms
    <2>2. ~wanted[s].enabled /\ shapes' = [shapes EXCEPT ![s] = h]
      BY <1>1, <1>3
    <2>3. buffer' = [buffer EXCEPT !.vertex[shapes[s].slot] = 0]
      BY <1>1, <1>3, <2>2, StaysPut
    <2> HIDE DEF h
    <2>4. 0 \in Int /\ (~w.enabled => h.old_vertices = w.at) /\ ~w.enabled
      BY <1>2, <2>1, <2>2
    <2>5. QED
      BY ONLY ShapesInv, s \in DOMAIN shapes, Rightful(s), UNCHANGED misused, <1>1, <1>2, <2>1, <2>2, <2>3, <2>4, Moved
  <1>4. CASE shapes[s].old_vertices = Nothing
    <2>1. wanted[s].enabled
      BY <1>1, <1>4 DEF Nothing
    <2>2. /\ buffer' = [buffer EXCEPT !.vertex[shapes[s].slot] = at]
          /\ shapes' = [shapes EXCEPT ![s] = shapes[s]]
      BY <1>4, SameShape
    <2>3. at \in Int /\ (w.enabled => shapes[s].old_vertices = Nothing /\ at = w.at) /\ w.enabled
      BY <1>2, <1>4, <2>1
    <2>4. QED
      BY ONLY ShapesInv, s \in DOMAIN shapes, Rightful(s), UNCHANGED misused, <1>1, <1>2, <2>2, <2>3, Moved
  <1>5. QED
    BY <1>3, <1>4

LEMMA StepSetVertices ==
    ASSUME ShapesInv, NEW s \in DOMAIN shapes, NEW at \in Position, set_vertices(s, at),
           Rightful(s)
    PROVE  ShapesInv'
  BY StepTo, ShapesAssumption DEF set_vertices, Put, Rightful

LEMMA StepTranslate ==
    ASSUME ShapesInv, NEW s \in DOMAIN shapes, NEW amount \in Int, translate(s, amount), Rightful(s)
    PROVE  ShapesInv'
  <1> DEFINE at == wanted[s].at - amount
  <1>1. /\ at \in Nat /\ wanted[s].at \in Nat /\ UNCHANGED misused
        /\ shapes[s].old_vertices = IF wanted[s].enabled THEN Nothing ELSE wanted[s].at
        /\ buffer.vertex[shapes[s].slot] = IF wanted[s].enabled THEN wanted[s].at ELSE 0
        /\ wanted' = [wanted EXCEPT ![s].at = at]
    BY OthersAside, ShapeFacts, ShapesAssumption DEF translate, Touched, ShownAsWanted, Wish, Rightful
  <1>3. CASE shapes[s].old_vertices # Nothing
    <2>1. shapes[s].old_vertices = wanted[s].at
      BY <1>1, <1>3
    <2>2. shapes' = [shapes EXCEPT ![s].old_vertices = at] /\ buffer' = buffer
      BY <1>3, <2>1 DEF translate
    <2> HIDE DEF at
    <2>3. QED
      BY <1>1, <1>3, <2>2, StepTo
  <1>4. CASE shapes[s].old_vertices = Nothing
    <2>1. buffer.vertex[shapes[s].slot] = wanted[s].at
      BY <1>1, <1>4 DEF Nothing
    <2>2. buffer' = [buffer EXCEPT !.vertex[shapes[s].slot] = at] /\ shapes' = shapes
      BY <1>4, <2>1 DEF translate
    <2> HIDE DEF at
    <2>3. QED
      BY <1>1, <1>4, <2>2, StepTo
  <1>5. QED
    BY <1>3, <1>4

LEMMA StepSetColour ==
    ASSUME ShapesInv, NEW s \in DOMAIN shapes, NEW colour \in Colour, set_colour(s, colour),
           Rightful(s)
    PROVE  ShapesInv'
  <1> DEFINE w == [wanted[s] EXCEPT !.colour = colour]
             k == shapes[s].slot
  <1>1. /\ shapes' = shapes /\ wanted' = [wanted EXCEPT ![s] = w]
        /\ buffer' = [buffer EXCEPT !.colour[k] = colour] /\ UNCHANGED misused
    BY DEF set_colour, Rightful
  <1>2. colour \in Paint
    BY DEF Paint
  <1>3. w \in Wish /\ w.at = wanted[s].at /\ w.enabled = wanted[s].enabled /\ w.colour = colour
    BY <1>2, ShapeForms, Zenon
  <1>4. /\ k \in Slot /\ ShownAsWanted(s) /\ shapes[s] \in Shape /\ ~shapes[s].deleted
        /\ shapes[s].old_vertices = IF wanted[s].enabled THEN Nothing ELSE wanted[s].at
    BY OthersAside, ShapeFacts DEF Alive, Rightful
  <1> HIDE DEF w
  <1>5. buffer' \in Buffer
    BY <1>1, <1>2, <1>4, BufferForms, ShapeFacts, Zenon
  <1>6. /\ buffer'.vacant = buffer.vacant /\ buffer'.current_size = buffer.current_size
        /\ buffer'.shown = buffer.shown /\ buffer'.vertex = buffer.vertex
        /\ buffer'.colour = [buffer.colour EXCEPT ![k] = colour]
        /\ buffer.colour \in [Slot -> Paint]
    BY <1>1, ShapeFacts DEF Buffer
  <1>7. \A i \in Slot : i # k =>
            /\ buffer'.vertex[i] = buffer.vertex[i]
            /\ buffer'.shown[i] = buffer.shown[i]
            /\ buffer'.colour[i] = buffer.colour[i]
    BY <1>6
  <1>8. /\ buffer'.vertex[k] = IF w.enabled THEN w.at ELSE 0
        /\ buffer'.shown[k] /\ buffer'.colour[k] = w.colour
    BY <1>3, <1>4, <1>6 DEF ShownAsWanted
  <1>9. QED
    BY <1>1, <1>3, <1>4, <1>5, <1>6, <1>7, <1>8, SameShape, OneChanges

LEMMA ShapesStutter == ShapesInv /\ UNCHANGED shapesVars => ShapesInv'
  BY DEF shapesVars, ShapesInv, ShapesTypeOK, Housed, SlotsExclusive, UnusedBehind, Remembered,
         AllShown, ShownAsWanted, Unowned, Rightful, Alive

\* A deleted shape that leaves the buffer alone.
LEMMA DeadChanges ==
    ASSUME ShapesInv, NEW s \in DOMAIN shapes, ~Alive(s), UNCHANGED <<buffer, misused>>,
           NEW h \in Shape, NEW w \in Wish, h.slot = shapes[s].slot, h.deleted,
           shapes' = [shapes EXCEPT ![s] = h], wanted' = [wanted EXCEPT ![s] = w]
    PROVE  ShapesInv'
  <1>1. /\ shapes' \in Seq(Shape) /\ wanted' \in Seq(Wish)
        /\ Len(shapes') = Len(shapes) /\ Len(wanted') = Len(shapes)
        /\ DOMAIN shapes' = DOMAIN shapes
    BY DEF ShapesInv, ShapesTypeOK
  <1>2. /\ shapes'[s] = h
        /\ \A t \in DOMAIN shapes : t # s => shapes'[t] = shapes[t] /\ wanted'[t] = wanted[t]
    BY ShapeFacts
  <1>3. /\ ~Alive(s)' /\ ~Rightful(s)'
        /\ \A t \in DOMAIN shapes : t # s => (Alive(t)' <=> Alive(t)) /\ (Rightful(t)' <=> Rightful(t))
    <2>1. ~Alive(s)' /\ \A t \in DOMAIN shapes : t # s => (Alive(t)' <=> Alive(t))
      BY <1>2 DEF Alive
    <2>2. QED
      BY <1>2, <2>1 DEF Rightful
  <1>4. ShapesTypeOK' /\ Housed'
    BY <1>1, <1>2 DEF ShapesInv, ShapesTypeOK, Housed
  <1>5. SlotsExclusive' /\ UnusedBehind'
    BY <1>1, <1>2, <1>3 DEF ShapesInv, SlotsExclusive, UnusedBehind
  <1>6. Remembered' /\ AllShown'
    BY <1>1, <1>2, <1>3 DEF ShapesInv, Remembered, AllShown, ShownAsWanted
  <1>7. Unowned'
    BY <1>1, <1>2, <1>3 DEF ShapesInv, Unowned
  <1>8. QED
    BY <1>4, <1>5, <1>6, <1>7 DEF ShapesInv

\* The steps that write one slot.
LEMMA WritesOnlyAt ==
    ASSUME ShapesInv, NEW k \in Slot,
           \/ UNCHANGED buffer
           \/ \E v \in Int : buffer' = [buffer EXCEPT !.vertex[k] = v]
           \/ \E c \in Paint : buffer' = [buffer EXCEPT !.colour[k] = c]
           \/ buffer' = remove_shape(k)
    PROVE  OnlyAt(k)
  <1>1. CASE UNCHANGED buffer
    BY <1>1, ShapeFacts DEF OnlyAt
  <1>2. ASSUME NEW v \in Int, buffer' = [buffer EXCEPT !.vertex[k] = v] PROVE OnlyAt(k)
    <2>1. buffer' \in Buffer
      BY <1>2, BufferForms, ShapeFacts, Zenon
    <2>2. /\ buffer'.vacant = buffer.vacant /\ buffer'.current_size = buffer.current_size
          /\ buffer'.shown = buffer.shown /\ buffer'.colour = buffer.colour
          /\ buffer'.vertex = [buffer.vertex EXCEPT ![k] = v] /\ buffer.vertex \in [Slot -> Int]
      BY <1>2, ShapeFacts DEF Buffer
    <2>3. QED
      BY <2>1, <2>2 DEF OnlyAt
  <1>3. ASSUME NEW c \in Paint, buffer' = [buffer EXCEPT !.colour[k] = c] PROVE OnlyAt(k)
    <2>1. buffer' \in Buffer
      BY <1>3, BufferForms, ShapeFacts, Zenon
    <2>2. /\ buffer'.vacant = buffer.vacant /\ buffer'.current_size = buffer.current_size
          /\ buffer'.shown = buffer.shown /\ buffer'.vertex = buffer.vertex
          /\ buffer'.colour = [buffer.colour EXCEPT ![k] = c] /\ buffer.colour \in [Slot -> Paint]
      BY <1>3, ShapeFacts DEF Buffer
    <2>3. QED
      BY <2>1, <2>2 DEF OnlyAt
  <1>4. CASE buffer' = remove_shape(k)
    <2>1. buffer' \in Buffer
      BY <1>4, BufferForms, ShapeFacts, Zenon DEF remove_shape
    <2>2. /\ buffer'.current_size = buffer.current_size
          /\ buffer'.vacant = buffer.vacant \cup {k} /\ buffer'.colour = buffer.colour
          /\ buffer'.vertex = [buffer.vertex EXCEPT ![k] = 0] /\ buffer.vertex \in [Slot -> Int]
          /\ buffer'.shown = [buffer.shown EXCEPT ![k] = FALSE] /\ buffer.shown \in [Slot -> BOOLEAN]
      BY <1>4, ShapeFacts DEF remove_shape, Buffer
    <2>3. QED
      BY <2>1, <2>2 DEF OnlyAt
  <1>5. QED
    BY <1>1, <1>2, <1>3, <1>4

\* A step of a shape whose slot is exempt, or becomes so with the step.
LEMMA Exempt ==
    ASSUME ShapesInv, NEW s \in DOMAIN shapes, OnlyAt(shapes[s].slot),
           NEW h \in Shape, NEW w \in Wish, h.slot = shapes[s].slot,
           shapes' = [shapes EXCEPT ![s] = h], wanted' = [wanted EXCEPT ![s] = w],
           shapes[s].slot \in misused', misused' \in {misused, misused \cup {shapes[s].slot}}
    PROVE  ShapesInv'
  <1>1. PICK k \in Slot : k = shapes[s].slot /\ k < buffer.current_size
    BY ShapeFacts DEF Shape, ShapesInv, Housed
  <1>2. /\ shapes' \in Seq(Shape) /\ wanted' \in Seq(Wish)
        /\ Len(shapes') = Len(shapes) /\ Len(wanted') = Len(shapes)
        /\ DOMAIN shapes' = DOMAIN shapes
    BY DEF ShapesInv, ShapesTypeOK
  <1>3. /\ shapes'[s] = h
        /\ \A t \in DOMAIN shapes : t # s => shapes'[t] = shapes[t] /\ wanted'[t] = wanted[t]
    BY ShapeFacts
  <1>4. ShapesTypeOK'
    BY <1>1, <1>2, ShapeFacts DEF ShapesTypeOK, OnlyAt
  <1>5. QED
    BY <1>1, <1>2, <1>3, <1>4, Spoilt

\* A step that changes shape s, its wish and its slot, and nothing else.
ChangesOnly(s) ==
    /\ OnlyAt(shapes[s].slot)
    /\ \E h \in Shape, w \in Wish :
          /\ h.slot = shapes[s].slot /\ (~Alive(s) => h.deleted)
          /\ shapes' = [shapes EXCEPT ![s] = h] /\ wanted' = [wanted EXCEPT ![s] = w]

LEMMA DeleteAlone ==
    ASSUME ShapesInv, NEW s \in DOMAIN shapes, delete(s)
    PROVE  ChangesOnly(s)
  <1> DEFINE h == [shapes[s] EXCEPT !.deleted = TRUE]
  <1>1. shapes[s] \in Shape /\ shapes[s].slot \in Slot
    BY ShapeFacts DEF Shape
  <1>2. h \in Shape /\ Unasked \in Wish
    <2>1. h \in Shape
      BY <1>1, Zenon DEF Shape
    <2>2. Unasked \in Wish
      BY DEF Unasked, Wish, Paint
    <2>3. QED
      BY <2>1, <2>2
  <1>3. h.slot = shapes[s].slot /\ h.deleted
    BY <1>1 DEF Shape
  <1>4. /\ shapes' = [shapes EXCEPT ![s] = h] /\ wanted' = [wanted EXCEPT ![s] = Unasked]
        /\ buffer' = remove_shape(shapes[s].slot)
    BY DEF delete
  <1> HIDE DEF h
  <1>5. OnlyAt(shapes[s].slot)
    BY <1>1, <1>4, WritesOnlyAt
  <1>6. QED
    BY <1>2, <1>3, <1>4, <1>5 DEF ChangesOnly

\* The vertices of a shape's slot, or those it remembers, are written.
LEMMA VertexAlone ==
    ASSUME ShapesInv, NEW s \in DOMAIN shapes, NEW v \in Int, NEW o \in Int, NEW w \in Wish,
           buffer' \in {buffer, [buffer EXCEPT !.vertex[shapes[s].slot] = v]},
           shapes' \in {shapes, [shapes EXCEPT ![s].old_vertices = o]},
           wanted' = [wanted EXCEPT ![s] = w]
    PROVE  ChangesOnly(s)
  <1> DEFINE h == [shapes[s] EXCEPT !.old_vertices = o]
  <1>1. shapes[s] \in Shape /\ shapes[s].slot \in Slot
    BY ShapeFacts DEF Shape
  <1>2. OnlyAt(shapes[s].slot)
    BY <1>1, WritesOnlyAt
  <1>3. h \in Shape /\ h.slot = shapes[s].slot /\ h.deleted = shapes[s].deleted
    BY ShapeForms, Zenon
  <1>4. shapes' = [shapes EXCEPT ![s] = shapes[s]] \/ shapes' = [shapes EXCEPT ![s] = h]
    BY SameShape
  <1> HIDE DEF h
  <1>5. QED
    BY <1>1, <1>2, <1>3, <1>4 DEF ChangesOnly, Alive

LEMMA AbleAlone ==
    ASSUME ShapesInv, NEW s \in DOMAIN shapes, disable(s) \/ enable(s)
    PROVE  ChangesOnly(s)
  <1>1. /\ shapes[s].slot \in Slot /\ shapes[s].old_vertices \in Int
        /\ buffer.vertex[shapes[s].slot] \in Int
    BY ShapeFacts DEF Shape, Buffer
  <1>2. CASE disable(s)
    <2>1. PICK w \in Wish : wanted' = [wanted EXCEPT ![s] = w]
      <3>1. [wanted[s] EXCEPT !.enabled = FALSE] \in Wish
        BY ShapeForms, Zenon
      <3>2. QED
        BY <1>2, <3>1 DEF disable
    <2>2. PICK o \in Int : o = buffer.vertex[shapes[s].slot]
      BY <1>1
    <2>5. PICK v \in Int : v = 0
      OBVIOUS
    <2>3. /\ buffer' \in {buffer, [buffer EXCEPT !.vertex[shapes[s].slot] = v]}
          /\ shapes' \in {shapes, [shapes EXCEPT ![s].old_vertices = o]}
      <3>1. CASE shapes[s].old_vertices = Nothing
        BY <1>2, <2>2, <2>5, <3>1 DEF disable
      <3>2. CASE shapes[s].old_vertices # Nothing
        BY <1>2, <3>2 DEF disable
      <3>3. QED
        BY <3>1, <3>2
    <2>4. QED
      BY <2>1, <2>3, VertexAlone
  <1>3. CASE enable(s)
    <2>1. PICK w \in Wish : wanted' = [wanted EXCEPT ![s] = w]
      <3>1. [wanted[s] EXCEPT !.enabled = TRUE] \in Wish
        BY ShapeForms, Zenon
      <3>2. QED
        BY <1>3, <3>1 DEF enable
    <2>2. PICK v \in Int : v = shapes[s].old_vertices
      BY <1>1
    <2>3. PICK o \in Int : o = Nothing
      BY DEF Nothing
    <2>4. /\ buffer' \in {buffer, [buffer EXCEPT !.vertex[shapes[s].slot] = v]}
          /\ shapes' \in {shapes, [shapes EXCEPT ![s].old_vertices = o]}
      BY <1>3, <2>2, <2>3 DEF enable
    <2>5. QED
      BY <2>1, <2>4, VertexAlone
  <1>4. QED
    BY <1>2, <1>3

LEMMA PutAlone ==
    ASSUME ShapesInv, NEW s \in DOMAIN shapes, NEW at \in Position, set_vertices(s, at), Alive(s)
    PROVE  ChangesOnly(s)
  <1>1. at \in Nat /\ at \in Int
    BY ShapesAssumption
  <1>2. PICK w \in Wish : wanted' = [wanted EXCEPT ![s] = w]
    <2>1. [wanted[s] EXCEPT !.at = at] \in Wish
      BY <1>1, ShapeForms, Zenon
    <2>2. QED
      BY <2>1 DEF set_vertices
  <1>3. PICK v \in Int : buffer' \in {buffer, [buffer EXCEPT !.vertex[shapes[s].slot] = v]}
    BY <1>1 DEF set_vertices, Put
  <1>4. shapes' \in {shapes, [shapes EXCEPT ![s].old_vertices = at]}
    BY DEF set_vertices, Put
  <1>5. QED
    BY <1>1, <1>2, <1>3, <1>4, VertexAlone

LEMMA TranslateAlone ==
    ASSUME ShapesInv, NEW s \in DOMAIN shapes, NEW amount \in Int, translate(s, amount)
    PROVE  ChangesOnly(s)
  <1>1. PICK at \in Int :
            /\ buffer' \in {buffer, [buffer EXCEPT !.vertex[shapes[s].slot] = at]}
            /\ shapes' \in {shapes, [shapes EXCEPT ![s].old_vertices = at]}
    <2> DEFINE at == (IF shapes[s].old_vertices # Nothing THEN shapes[s].old_vertices
                      ELSE buffer.vertex[shapes[s].slot]) - amount
    <2>1. at \in Int
      BY ShapesAssumption DEF translate
    <2>2. /\ buffer' \in {buffer, [buffer EXCEPT !.vertex[shapes[s].slot] = at]}
          /\ shapes' \in {shapes, [shapes EXCEPT ![s].old_vertices = at]}
      BY Zenon DEF translate
    <2> HIDE DEF at
    <2>3. QED
      BY <2>1, <2>2
  <1>2. PICK w \in Wish : wanted' = [wanted EXCEPT ![s] = w]
    <2>1. CASE Alive(s)
      <3>1. wanted[s].at - amount \in Nat
        BY <2>1, ShapesAssumption DEF translate
      <3>2. [wanted[s] EXCEPT !.at = wanted[s].at - amount] \in Wish
        BY <3>1, ShapeForms, Zenon
      <3>3. QED
        BY <2>1, <3>2 DEF translate
    <2>2. CASE ~Alive(s)
      BY <2>2, ShapeFacts, SameShape DEF translate
    <2>3. QED
      BY <2>1, <2>2
  <1>3. QED
    BY <1>1, <1>2, VertexAlone

LEMMA ColourAlone ==
    ASSUME ShapesInv, NEW s \in DOMAIN shapes, NEW colour \in Colour, set_colour(s, colour), Alive(s)
    PROVE  ChangesOnly(s)
  <1>1. colour \in Paint /\ shapes[s].slot \in Slot /\ shapes[s] \in Shape
    BY ShapeFacts DEF Paint, Shape
  <1>2. /\ buffer' = [buffer EXCEPT !.colour[shapes[s].slot] = colour]
        /\ shapes' = shapes /\ wanted' = [wanted EXCEPT ![s].colour = colour]
    BY DEF set_colour
  <1>3. OnlyAt(shapes[s].slot)
    BY <1>1, <1>2, WritesOnlyAt
  <1>4. [wanted[s] EXCEPT !.colour = colour] \in Wish
    BY <1>1, ShapeForms, Zenon
  <1>5. shapes' = [shapes EXCEPT ![s] = shapes[s]]
    BY <1>2, SameShape
  <1>6. QED
    BY <1>1, <1>2, <1>3, <1>4, <1>5 DEF ChangesOnly

\* A shape that is deleted, or whose slot was touched by one, does no harm to
\* the other slots.
LEMMA StepExempt ==
    ASSUME ShapesInv, NEW s \in DOMAIN shapes, ~Rightful(s), ChangesOnly(s), Touched(s)
    PROVE  ShapesInv'
  <1>1. PICK h \in Shape, w \in Wish :
            /\ h.slot = shapes[s].slot /\ (~Alive(s) => h.deleted)
            /\ shapes' = [shapes EXCEPT ![s] = h] /\ wanted' = [wanted EXCEPT ![s] = w]
    BY DEF ChangesOnly
  <1>2. CASE ~Alive(s) /\ buffer' = buffer
    <2>1. misused' = misused
      BY <1>2 DEF Touched
    <2>2. QED
      BY <1>1, <1>2, <2>1, DeadChanges
  <1>3. CASE Alive(s) \/ buffer' # buffer
    <2>1. /\ shapes[s].slot \in misused'
          /\ misused' \in {misused, misused \cup {shapes[s].slot}}
      BY <1>3 DEF Touched, Rightful
    <2>2. OnlyAt(shapes[s].slot)
      BY DEF ChangesOnly
    <2>3. QED
      BY <1>1, <2>1, <2>2, Exempt
  <1>4. QED
    BY <1>2, <1>3

LEMMA ShapesInvNext == ShapesInv /\ ShapesNext => ShapesInv'
  <1> SUFFICES ASSUME ShapesInv, ShapesNext PROVE ShapesInv'
    OBVIOUS
  <1>1. CASE NewShapeInHole \/ NewShapeAtEnd \/ NewShapeRaises
    BY <1>1, StepHole, StepEnd, StepRaises
  <1>2. ASSUME NEW s \in DOMAIN shapes, delete(s) PROVE ShapesInv'
    <2>1. Touched(s)
      BY <1>2 DEF delete
    <2>2. QED
      BY <1>2, <2>1, StepDelete, DeleteAlone, StepExempt
  <1>3. ASSUME NEW s \in DOMAIN shapes, disable(s) \/ enable(s) PROVE ShapesInv'
    <2>1. Touched(s)
      BY <1>3 DEF disable, enable, Touched
    <2>2. QED
      BY <1>3, <2>1, StepDisable, StepEnable, AbleAlone, StepExempt
  <1>4. ASSUME NEW s \in DOMAIN shapes, NEW amount \in Int, translate(s, amount) PROVE ShapesInv'
    <2>1. Touched(s)
      BY <1>4 DEF translate
    <2>2. QED
      BY <1>4, <2>1, StepTranslate, TranslateAlone, StepExempt
  <1>5. ASSUME NEW s \in DOMAIN shapes, NEW at \in Position, set_vertices(s, at)
        PROVE  ShapesInv'
    <2>1. CASE Alive(s)
      <3>1. Touched(s)
        BY <1>5, <2>1 DEF set_vertices, Touched
      <3>2. QED
        BY <1>5, <2>1, <3>1, StepSetVertices, PutAlone, StepExempt
    <2>2. CASE ~Alive(s)
      BY <1>5, <2>2, ShapesStutter DEF set_vertices
    <2>3. QED
      BY <2>1, <2>2
  <1>6. ASSUME NEW s \in DOMAIN shapes, NEW colour \in Colour, set_colour(s, colour)
        PROVE  ShapesInv'
    <2>1. CASE Alive(s)
      <3>1. Touched(s)
        BY <1>6, <2>1 DEF set_colour, Touched
      <3>2. QED
        BY <1>6, <2>1, <3>1, StepSetColour, ColourAlone, StepExempt
    <2>2. CASE ~Alive(s)
      BY <1>6, <2>2, ShapesStutter DEF set_colour
    <2>3. QED
      BY <2>1, <2>2
  <1>7. {-1, 1} \subseteq Int
    OBVIOUS
  <1>8. QED
    BY <1>1, <1>2, <1>3, <1>4, <1>5, <1>6, <1>7 DEF ShapesNext

-----------------------------------------------------------------------------
(* Screens: the invariant.                                                 *)

\* The numbers of the screens that are lent, their places, and a machine.
ScreenNumber == 0 .. max - 1
Place  == {Point(i) : i \in ScreenNumber} \cup {Nowhere}
Drawn  == [exists : BOOLEAN, on : BOOLEAN, screen : Place]

\* A machine that exists names a screen, also when it is off, and one that
\* does not exist is not on.
ScreensTypeOK ==
    /\ available \in Seq(ScreenNumber)
    /\ emulators \in [Emulator -> Drawn]
    /\ lost \subseteq ScreenNumber
    /\ twice \in BOOLEAN
    /\ \A e \in Emulator : IF emulators[e].exists THEN emulators[e].screen # Nowhere
                           ELSE ~emulators[e].on

\* The number of the screen that a machine names.
IndexAt(e) == IndexOf(emulators[e].screen)

\* ScreensAccounted, machine by machine and screen by screen.
ScreensApart ==
    /\ IsInjective(available)
    /\ \A e, f \in Emulator :
          emulators[e].on /\ emulators[f].on /\ IndexAt(e) = IndexAt(f) => e = f
    /\ \A e \in Emulator : emulators[e].on => IndexAt(e) \notin ToSet(available) \cup lost
    /\ ToSet(available) \cap lost = {}
    /\ \A i \in ScreenNumber :
          \/ i \in ToSet(available) \cup lost
          \/ \E e \in Emulator : emulators[e].on /\ IndexAt(e) = i

\* The inductive invariant: the screens are apart until one was given back
\* twice.
ScreensInv == ScreensTypeOK /\ (~twice => ScreensApart)

-----------------------------------------------------------------------------
(* Screens: the numbers and the stack of the free ones.                    *)

LEMMA GridFacts == GridNum \in Nat /\ GridNum >= 1 /\ max \in Nat
  <1>1. GridNum \in Nat /\ GridNum >= 1
    BY ScreensAssumption
  <1>2. \A g \in Nat : g >= 1 => g * g >= 1 /\ g * g \in Nat
    OBVIOUS
  <1>3. QED
    BY <1>1, <1>2 DEF max

\* put() finds the number that get() made the point from.
LEMMA IndexOfPoint == \A i \in ScreenNumber : IndexOf(Point(i)) = i /\ Point(i) # Nowhere
  <1> TAKE i \in ScreenNumber
  <1>1. i \in Nat /\ GridNum \in Nat /\ GridNum > 0
    BY GridFacts DEF ScreenNumber
  <1>2. \A n, g \in Nat : g > 0 => n % g \in Nat /\ n \div g \in Nat /\ (n % g) + (n \div g) * g = n
    OBVIOUS
  <1>3. Point(i)[1] = i % GridNum /\ Point(i)[2] = i \div GridNum
    BY DEF Point
  <1>4. Point(i) # Nowhere
    BY DEF Point, Nowhere
  <1>5. QED
    BY <1>1, <1>2, <1>3, <1>4 DEF IndexOf

LEMMA IndexAtNumber ==
    ASSUME ScreensTypeOK, NEW e \in Emulator, emulators[e].exists
    PROVE  IndexAt(e) \in ScreenNumber /\ emulators[e].screen = Point(IndexAt(e))
  <1>1. emulators[e].screen \in Place /\ emulators[e].screen # Nowhere
    BY DEF ScreensTypeOK, Drawn
  <1>2. PICK i \in ScreenNumber : emulators[e].screen = Point(i)
    BY <1>1 DEF Place
  <1>3. QED
    BY <1>2, IndexOfPoint DEF IndexAt

\* get() takes the first screen, and put() lays one on top.
LEMMA Taking ==
    ASSUME ScreensTypeOK, CanGet
    PROVE  /\ Head(available) \in ScreenNumber /\ Tail(available) \in Seq(ScreenNumber)
           /\ get \in Place /\ get # Nowhere /\ IndexOf(get) = Head(available)
           /\ IsInjective(available) =>
                 /\ IsInjective(Tail(available))
                 /\ Head(available) \in ToSet(available)
                 /\ ToSet(Tail(available)) = ToSet(available) \ {Head(available)}
  <1> DEFINE q == available
             t == Tail(available)
  <1>1. /\ q \in Seq(ScreenNumber) /\ Len(q) \in Nat /\ Len(q) >= 1 /\ Head(q) = q[1]
        /\ DOMAIN q = 1 .. Len(q)
        /\ t \in Seq(ScreenNumber) /\ DOMAIN t = 1 .. Len(q) - 1
        /\ \A i \in 1 .. Len(q) - 1 : t[i] = q[i + 1]
    BY DEF ScreensTypeOK, CanGet
  <1>2. q[1] \in ScreenNumber
    BY <1>1
  <1>3. get \in Place /\ get # Nowhere /\ IndexOf(get) = q[1]
    BY <1>1, <1>2, IndexOfPoint DEF get, Place
  <1> HIDE DEF t
  <1>4. ASSUME IsInjective(q)
        PROVE  IsInjective(t) /\ q[1] \in ToSet(q) /\ ToSet(t) = ToSet(q) \ {q[1]}
    <2>1. IsInjective(t)
      BY <1>1, <1>4 DEF IsInjective
    <2>2. ASSUME NEW x \in ToSet(t) PROVE x \in ToSet(q) \ {q[1]}
      <3>1. PICK i \in 1 .. Len(q) - 1 : t[i] = x
        BY <1>1 DEF ToSet
      <3>2. i + 1 \in 1 .. Len(q) /\ q[i + 1] = x /\ i + 1 # 1 /\ 1 \in 1 .. Len(q)
        BY <1>1, <3>1
      <3>3. QED
        BY <1>1, <1>4, <3>2 DEF ToSet, IsInjective
    <2>3. ASSUME NEW x \in ToSet(q), x # q[1] PROVE x \in ToSet(t)
      <3>1. PICK i \in 2 .. Len(q) : q[i] = x
        BY <1>1, <2>3 DEF ToSet
      <3>2. i - 1 \in 1 .. Len(q) - 1 /\ t[i - 1] = x
        BY <1>1, <3>1
      <3>3. QED
        BY <1>1, <3>2 DEF ToSet
    <2>4. q[1] \in ToSet(q)
      BY <1>1 DEF ToSet
    <2>5. QED
      BY <2>1, <2>2, <2>3, <2>4
  <1>5. QED
    BY <1>1, <1>2, <1>3, <1>4 DEF t

LEMMA Giving ==
    ASSUME NEW i \in ScreenNumber, NEW q \in Seq(ScreenNumber), NEW p, p = <<i>> \o q
    PROVE  /\ p \in Seq(ScreenNumber)
           /\ ToSet(p) = ToSet(q) \cup {i}
           /\ IsInjective(q) /\ i \notin ToSet(q) => IsInjective(p)
  <1>1. /\ p \in Seq(ScreenNumber) /\ Len(q) \in Nat /\ DOMAIN q = 1 .. Len(q)
        /\ DOMAIN p = 1 .. Len(q) + 1
        /\ p[1] = i /\ \A k \in 1 .. Len(q) : p[k + 1] = q[k]
    OBVIOUS
  <1>2. \A k \in DOMAIN p : k = 1 \/ (k - 1 \in DOMAIN q /\ p[k] = q[k - 1])
    <2> TAKE k \in DOMAIN p
    <2> SUFFICES ASSUME k # 1 PROVE k - 1 \in DOMAIN q /\ p[k] = q[k - 1]
      OBVIOUS
    <2>1. k - 1 \in 1 .. Len(q) /\ (k - 1) + 1 = k
      BY <1>1
    <2>2. QED
      BY <1>1, <2>1
  <1>3. ToSet(p) = ToSet(q) \cup {i}
    <2>1. ASSUME NEW y \in ToSet(p) PROVE y \in ToSet(q) \cup {i}
      BY <1>1, <1>2 DEF ToSet
    <2>2. ASSUME NEW y \in ToSet(q) PROVE y \in ToSet(p)
      <3>1. PICK k \in 1 .. Len(q) : q[k] = y
        BY <1>1 DEF ToSet
      <3>2. k + 1 \in DOMAIN p /\ p[k + 1] = y
        BY <1>1, <3>1
      <3>3. QED
        BY <3>2 DEF ToSet
    <2>3. i \in ToSet(p)
      BY <1>1 DEF ToSet
    <2>4. QED
      BY <2>1, <2>2, <2>3
  <1>4. ASSUME IsInjective(q), i \notin ToSet(q) PROVE IsInjective(p)
    <2> SUFFICES ASSUME NEW a \in DOMAIN p, NEW b \in DOMAIN p, p[a] = p[b] PROVE a = b
      BY DEF IsInjective
    <2>1. CASE a = 1 \/ b = 1
      BY <1>1, <1>2, <1>4, <2>1 DEF ToSet
    <2>2. CASE a # 1 /\ b # 1
      <3>1. /\ a - 1 \in DOMAIN q /\ b - 1 \in DOMAIN q /\ q[a - 1] = q[b - 1]
            /\ a \in Nat /\ b \in Nat
        BY <1>1, <1>2, <2>2
      <3>2. a - 1 = b - 1
        BY <1>4, <3>1 DEF IsInjective
      <3>3. QED
        BY <3>1, <3>2
    <2>3. QED
      BY <2>1, <2>2
  <1>5. QED
    BY <1>1, <1>3, <1>4

-----------------------------------------------------------------------------
(* Screens: the steps.                                                     *)

LEMMA ScreensInvAccounts == ScreensInv => ScreensAccounted
  <1> SUFFICES ASSUME ScreensInv, ~twice PROVE ScreensAccounted
    BY DEF ScreensAccounted
  <1> DEFINE on    == {e \in Emulator : emulators[e].on}
             taken == {IndexOf(emulators[e].screen) : e \in on}
  <1>1. ScreensApart /\ ScreensTypeOK
    BY DEF ScreensInv
  <1>2. \A e \in on : IndexAt(e) \in ScreenNumber
    BY <1>1, IndexAtNumber DEF ScreensTypeOK
  <1>3. ToSet(available) \subseteq ScreenNumber
    BY <1>1 DEF ScreensTypeOK, ToSet
  <1>4. ToSet(available) \cup taken \cup lost = ScreenNumber
    BY <1>1, <1>2, <1>3 DEF ScreensApart, ScreensTypeOK, IndexAt
  <1>5. \A e, f \in on : emulators[e].screen = emulators[f].screen => e = f
    BY <1>1 DEF ScreensApart, IndexAt
  <1>6. ToSet(available) \cap (taken \cup lost) = {} /\ taken \cap lost = {}
    BY <1>1 DEF ScreensApart, IndexAt
  <1>7. QED
    BY <1>1, <1>4, <1>5, <1>6 DEF ScreensAccounted, ScreensApart, ScreenNumber

LEMMA ScreensInvInit == ScreensInit => ScreensInv
  <1> SUFFICES ASSUME ScreensInit PROVE ScreensInv
    OBVIOUS
  <1>1. /\ available = [i \in 1 .. max |-> i - 1] /\ lost = {} /\ twice = FALSE
        /\ \A e \in Emulator : emulators[e] = [exists |-> FALSE, on |-> FALSE, screen |-> Nowhere]
        /\ emulators = [e \in Emulator |-> [exists |-> FALSE, on |-> FALSE, screen |-> Nowhere]]
    BY DEF ScreensInit
  <1>2. available \in Seq(ScreenNumber) /\ DOMAIN available = 1 .. max
    <2>1. \A i \in 1 .. max : i - 1 \in ScreenNumber
      BY GridFacts DEF ScreenNumber
    <2>2. QED
      BY <1>1, <2>1, GridFacts, IsASeq
  <1>3. [exists |-> FALSE, on |-> FALSE, screen |-> Nowhere] \in Drawn
    BY Zenon DEF Drawn, Place
  <1>4. ScreensTypeOK
    BY <1>1, <1>2, <1>3 DEF ScreensTypeOK
  <1>5. \A i \in ScreenNumber : i \in ToSet(available)
    <2> TAKE i \in ScreenNumber
    <2>1. i + 1 \in 1 .. max /\ available[i + 1] = i
      BY <1>1, GridFacts DEF ScreenNumber
    <2>2. QED
      BY <1>2, <2>1 DEF ToSet
  <1>6. IsInjective(available)
    BY <1>1, GridFacts DEF IsInjective
  <1>7. ScreensApart
    BY <1>1, <1>5, <1>6 DEF ScreensApart
  <1>8. QED
    BY <1>4, <1>7 DEF ScreensInv

\* A machine takes the first screen, and the one it had is lost if it was on.
LEMMA StepTakes ==
    ASSUME ScreensInv, NEW e \in Emulator, CanGet,
           emulators' = [emulators EXCEPT ![e] = [exists |-> TRUE, on |-> TRUE, screen |-> get]],
           available' = Tail(available), twice' = twice,
           lost' = IF emulators[e].on THEN lost \cup {IndexAt(e)} ELSE lost
    PROVE  ScreensInv'
  <1> DEFINE r == [exists |-> TRUE, on |-> TRUE, screen |-> get]
  <1>1. ScreensTypeOK /\ (~twice => ScreensApart)
    BY DEF ScreensInv
  <1>2. r \in Drawn /\ r.exists /\ r.on /\ r.screen = get
    <2>1. get \in Place
      BY <1>1, Taking
    <2>2. r \in Drawn
      BY <2>1, Zenon DEF Drawn
    <2>3. QED
      BY <2>2
  <1> HIDE DEF r
  <1>3. /\ emulators' \in [Emulator -> Drawn] /\ emulators'[e] = r
        /\ \A f \in Emulator : f # e => emulators'[f] = emulators[f]
    BY <1>1, <1>2 DEF r, ScreensTypeOK
  <1>4. emulators[e].on => emulators[e].exists /\ IndexAt(e) \in ScreenNumber
    BY <1>1, IndexAtNumber DEF ScreensTypeOK
  <1>5. ScreensTypeOK'
    <2>1. available' \in Seq(ScreenNumber) /\ lost' \subseteq ScreenNumber /\ get # Nowhere
      BY <1>1, <1>4, Taking DEF ScreensTypeOK
    <2>2. QED
      BY <1>1, <1>2, <1>3, <2>1 DEF ScreensTypeOK
  <1>6. /\ IndexAt(e)' = Head(available) /\ emulators'[e].on
        /\ \A f \in Emulator : f # e => IndexAt(f)' = IndexAt(f) /\ emulators'[f].on = emulators[f].on
    BY <1>1, <1>2, <1>3, Taking DEF IndexAt
  <1>7. ASSUME ~twice PROVE ScreensApart'
    <2>1. /\ IsInjective(available') /\ Head(available) \in ToSet(available)
          /\ ToSet(available') = ToSet(available) \ {Head(available)}
      BY <1>1, <1>7, Taking DEF ScreensApart
    <2>2. \A f, g \in Emulator :
              emulators'[f].on /\ emulators'[g].on /\ IndexAt(f)' = IndexAt(g)' => f = g
      BY <1>1, <1>6, <1>7, <2>1 DEF ScreensApart
    <2>3. \A f \in Emulator : emulators'[f].on => IndexAt(f)' \notin ToSet(available') \cup lost'
      BY <1>1, <1>6, <1>7, <2>1 DEF ScreensApart
    <2>4. ToSet(available') \cap lost' = {}
      BY <1>1, <1>6, <1>7, <2>1 DEF ScreensApart
    <2>5. ASSUME NEW i \in ScreenNumber
          PROVE  \/ i \in ToSet(available') \cup lost'
                 \/ \E f \in Emulator : emulators'[f].on /\ IndexAt(f)' = i
      <3>1. CASE i \in ToSet(available) \cup lost
        BY <1>6, <2>1, <3>1
      <3>2. CASE \E f \in Emulator : emulators[f].on /\ IndexAt(f) = i
        BY <1>6, <3>2
      <3>3. QED
        BY <1>1, <1>7, <3>1, <3>2 DEF ScreensApart
    <2>6. QED
      BY <2>1, <2>2, <2>3, <2>4, <2>5 DEF ScreensApart
  <1>8. QED
    BY <1>5, <1>7 DEF ScreensInv

LEMMA StepNewEmulator ==
    ASSUME ScreensInv, NEW e \in Emulator, NewEmulator(e)
    PROVE  ScreensInv'
  <1>1. ~emulators[e].on
    BY DEF NewEmulator, ScreensInv, ScreensTypeOK
  <1>2. QED
    BY <1>1, StepTakes DEF NewEmulator

LEMMA StepPowerOn ==
    ASSUME ScreensInv, NEW e \in Emulator, power_on(e)
    PROVE  ScreensInv'
  BY StepTakes DEF power_on, IndexAt

LEMMA StepPowerOff ==
    ASSUME ScreensInv, NEW e \in Emulator, power_off(e)
    PROVE  ScreensInv'
  <1> DEFINE r == [emulators[e] EXCEPT !.on = FALSE]
  <1>1. ScreensTypeOK /\ (~twice => ScreensApart) /\ emulators[e] \in Drawn /\ emulators[e].exists
    BY DEF ScreensInv, ScreensTypeOK, power_off
  <1>2. r \in Drawn
    BY <1>1, Zenon DEF Drawn
  <1>3. ~r.on /\ r.exists /\ r.screen = emulators[e].screen
    BY <1>1 DEF Drawn
  <1>4. emulators' = [emulators EXCEPT ![e] = r]
    BY DEF power_off
  <1> HIDE DEF r
  <1>5. /\ emulators' \in [Emulator -> Drawn] /\ emulators'[e] = r
        /\ \A f \in Emulator : f # e => emulators'[f] = emulators[f]
    BY <1>1, <1>2, <1>4 DEF ScreensTypeOK
  <1>6. PICK i \in ScreenNumber : i = IndexAt(e)
    BY <1>1, IndexAtNumber
  <1>7. /\ available' = <<i>> \o available /\ lost' = lost
        /\ twice' \in BOOLEAN /\ (~twice' => ~twice /\ emulators[e].on)
    BY <1>6 DEF power_off, put, IndexAt
  <1>8. /\ available' \in Seq(ScreenNumber) /\ ToSet(available') = ToSet(available) \cup {i}
        /\ IsInjective(available) /\ i \notin ToSet(available) => IsInjective(available')
    BY <1>1, <1>7, Giving DEF ScreensTypeOK
  <1>9. ScreensTypeOK'
    BY <1>1, <1>3, <1>5, <1>7, <1>8 DEF ScreensTypeOK
  <1>10. /\ ~emulators'[e].on
         /\ \A f \in Emulator : f # e => IndexAt(f)' = IndexAt(f) /\ emulators'[f].on = emulators[f].on
    BY <1>3, <1>5 DEF IndexAt
  <1>11. ASSUME ~twice' PROVE ScreensApart'
    <2>1. ScreensApart /\ emulators[e].on
      BY <1>1, <1>7, <1>11
    <2>2. i \notin ToSet(available) \cup lost
      BY <1>6, <2>1 DEF ScreensApart
    <2>3. IsInjective(available') /\ ToSet(available') \cap lost' = {}
      BY <1>7, <1>8, <2>1, <2>2 DEF ScreensApart
    <2>4. \A f, g \in Emulator :
              emulators'[f].on /\ emulators'[g].on /\ IndexAt(f)' = IndexAt(g)' => f = g
      BY <1>10, <2>1 DEF ScreensApart
    <2>5. \A f \in Emulator : emulators'[f].on => IndexAt(f)' \notin ToSet(available') \cup lost'
      BY <1>6, <1>7, <1>8, <1>10, <2>1 DEF ScreensApart
    <2>6. ASSUME NEW j \in ScreenNumber
          PROVE  \/ j \in ToSet(available') \cup lost'
                 \/ \E f \in Emulator : emulators'[f].on /\ IndexAt(f)' = j
      BY <1>6, <1>7, <1>8, <1>10, <2>1 DEF ScreensApart
    <2>7. QED
      BY <2>3, <2>4, <2>5, <2>6 DEF ScreensApart
  <1>12. QED
    BY <1>9, <1>11 DEF ScreensInv

LEMMA StepExit ==
    ASSUME ScreensInv, NEW e \in Emulator, exit(e)
    PROVE  ScreensInv'
  <1> DEFINE r == [exists |-> FALSE, on |-> FALSE, screen |-> Nowhere]
  <1>1. ScreensTypeOK /\ (~twice => ScreensApart)
    BY DEF ScreensInv
  <1>2. r \in Drawn /\ ~r.exists /\ ~r.on
    <2>1. r \in Drawn
      BY Zenon DEF Drawn, Place
    <2>2. QED
      BY <2>1
  <1>3. /\ emulators' = [emulators EXCEPT ![e] = r] /\ available' = available /\ twice' = twice
        /\ lost' = IF emulators[e].on THEN lost \cup {IndexAt(e)} ELSE lost
    BY DEF exit, IndexAt
  <1> HIDE DEF r
  <1>4. /\ emulators' \in [Emulator -> Drawn] /\ emulators'[e] = r
        /\ \A f \in Emulator : f # e => emulators'[f] = emulators[f]
    BY <1>1, <1>2, <1>3 DEF ScreensTypeOK
  <1>5. emulators[e].on => IndexAt(e) \in ScreenNumber
    BY <1>1, IndexAtNumber DEF ScreensTypeOK
  <1>6. ScreensTypeOK'
    BY <1>1, <1>2, <1>3, <1>4, <1>5 DEF ScreensTypeOK
  <1>7. /\ ~emulators'[e].on
        /\ \A f \in Emulator : f # e => IndexAt(f)' = IndexAt(f) /\ emulators'[f].on = emulators[f].on
    BY <1>2, <1>4 DEF IndexAt
  <1>8. ASSUME ~twice PROVE ScreensApart'
    <2>1. ScreensApart
      BY <1>1, <1>8
    <2>2. IsInjective(available') /\ ToSet(available') \cap lost' = {}
      BY <1>3, <2>1 DEF ScreensApart
    <2>3. \A f, g \in Emulator :
              emulators'[f].on /\ emulators'[g].on /\ IndexAt(f)' = IndexAt(g)' => f = g
      BY <1>7, <2>1 DEF ScreensApart
    <2>4. \A f \in Emulator : emulators'[f].on => IndexAt(f)' \notin ToSet(available') \cup lost'
      BY <1>3, <1>7, <2>1 DEF ScreensApart
    <2>5. ASSUME NEW j \in ScreenNumber
          PROVE  \/ j \in ToSet(available') \cup lost'
                 \/ \E f \in Emulator : emulators'[f].on /\ IndexAt(f)' = j
      BY <1>3, <1>7, <2>1 DEF ScreensApart
    <2>6. QED
      BY <2>2, <2>3, <2>4, <2>5 DEF ScreensApart
  <1>9. QED
    BY <1>3, <1>6, <1>8 DEF ScreensInv

LEMMA ScreensStutter == ScreensInv /\ UNCHANGED screensVars => ScreensInv'
  BY DEF screensVars, ScreensInv, ScreensTypeOK, ScreensApart, IndexAt, IsInjective, ToSet

-----------------------------------------------------------------------------
(* Keyboard: the invariant.                                                *)

\* The registers of the keyboard, and what tty_read() remembers.
Device == [ring_buffer : [0 .. RingSize - 1 -> Int], pos : 0 .. RingSize, key_state : SUBSET Int]
Reader == [init : BOOLEAN, last_pos : 0 .. RingSize, new_pos : 0 .. RingSize]

KeyboardTypeOK ==
    /\ keyboard \in Device
    /\ stopped \in BOOLEAN
    /\ held \subseteq Key
    /\ unseen \subseteq Key /\ stuck \subseteq Key
    /\ tty \in Reader
    /\ typed \in Seq(Int)
    /\ got \in Seq(Int)
    /\ overrun \in BOOLEAN

\* The ring is a circle: the position n steps on from p.
Onward(p, n) == IF p + n < RingSize THEN p + n ELSE p + n - RingSize

\* How many keys were stored and not yet read.
Waiting == Len(typed) - Len(got)

\* The keys that wait lie in the ring from where tty_read() is to where
\* key_down() goes on, which may not have wrapped its position yet, and
\* tty_read() does not go further than that.
RingHolds ==
    /\ Waiting \in 0 .. RingSize - 1
    /\ tty.last_pos < RingSize /\ tty.new_pos < RingSize
    /\ \A i \in 1 .. Len(got) : got[i] = typed[i]
    /\ \A j \in 0 .. Waiting - 1 :
          keyboard.ring_buffer[Onward(tty.last_pos, j)] = typed[Len(got) + 1 + j]
    /\ Onward(tty.last_pos, Waiting) = IF keyboard.pos = RingSize THEN 0 ELSE keyboard.pos
    /\ \E n \in 0 .. Waiting : tty.new_pos = Onward(tty.last_pos, n)

\* The inductive invariant: the ring holds what it should as long as no key
\* overwrote one that waits.
KeyboardInv ==
    /\ KeyboardTypeOK
    /\ KeysAsHeld
    /\ ~tty.init => got = <<>>
    /\ tty.init /\ ~overrun => RingHolds

\* One step on in the ring is what the guest computes with %.
LEMMA OneOnward == \A p \in 0 .. RingSize - 1 : (p + 1) % RingSize = Onward(p, 1)
  <1>1. RingSize \in Nat /\ RingSize > 0
    BY KeyboardAssumption
  <1>2. \A r \in Nat, p \in Nat : p + 1 < r => (p + 1) % r = p + 1
    OBVIOUS
  <1>3. \A r \in Nat : r > 0 => r % r = 0
    OBVIOUS
  <1>4. QED
    BY <1>1, <1>2, <1>3 DEF Onward

\* A step on is a step on from anywhere.
LEMMA StepOnward ==
    ASSUME NEW a \in 0 .. RingSize - 1, NEW n \in 0 .. RingSize - 2
    PROVE  /\ Onward(a, n + 1) = IF Onward(a, n) + 1 = RingSize THEN 0 ELSE Onward(a, n) + 1
           /\ Onward(Onward(a, 1), n) = Onward(a, n + 1)
  <1>1. RingSize \in Nat /\ a \in Nat /\ n \in Nat /\ a < RingSize /\ n + 1 < RingSize
    BY KeyboardAssumption
  <1>2. CASE a + n + 1 < RingSize
    BY <1>1, <1>2 DEF Onward
  <1>3. CASE a + n + 1 >= RingSize
    <2>1. CASE a + 1 < RingSize
      BY <1>1, <1>3, <2>1 DEF Onward
    <2>2. CASE a + 1 = RingSize
      BY <1>1, <1>3, <2>2 DEF Onward
    <2>3. QED
      BY <1>1, <2>1, <2>2
  <1>4. QED
    BY <1>1, <1>2, <1>3

LEMMA KeyboardOrder == KeyboardInv => KeysInOrder
  <1> SUFFICES ASSUME KeyboardInv, ~overrun PROVE IsPrefix(got, typed)
    BY DEF KeysInOrder
  <1>1. Len(got) <= Len(typed) /\ \A i \in 1 .. Len(got) : got[i] = typed[i]
    <2>1. CASE tty.init
      BY <2>1 DEF KeyboardInv, KeyboardTypeOK, RingHolds, Waiting
    <2>2. CASE ~tty.init
      BY <2>2 DEF KeyboardInv, KeyboardTypeOK
    <2>3. QED
      BY <2>1, <2>2
  <1>2. typed \in Seq(Int) /\ got \in Seq(Int) /\ Len(got) \in Nat /\ Len(typed) \in Nat
    BY DEF KeyboardInv, KeyboardTypeOK
  <1>3. /\ SubSeq(got, 1, Len(got)) = got
        /\ SubSeq(typed, 1, Len(got)) \in Seq(Int) /\ Len(SubSeq(typed, 1, Len(got))) = Len(got)
        /\ \A i \in 1 .. Len(got) : SubSeq(typed, 1, Len(got))[i] = typed[i]
    BY <1>1, <1>2
  <1>4. SubSeq(typed, 1, Len(got)) = got
    BY <1>1, <1>2, <1>3, SeqEqual
  <1>5. QED
    BY <1>1, <1>3, <1>4 DEF IsPrefix

LEMMA KeyboardInvInit == KeyboardInit => KeyboardInv
  <1> SUFFICES ASSUME KeyboardInit PROVE KeyboardInv
    OBVIOUS
  <1>1. RingSize \in Nat /\ RingSize > 0
    BY KeyboardAssumption
  <1>2. keyboard \in Device /\ tty \in Reader
    BY <1>1 DEF KeyboardInit, NewKeyboard, NewTty, Device, Reader
  <1>3. typed \in Seq(Int) /\ got \in Seq(Int) /\ got = <<>> /\ ~tty.init /\ keyboard.key_state = {}
    BY DEF KeyboardInit, NewTty, NewKeyboard
  <1>4. QED
    BY <1>2, <1>3 DEF KeyboardInit, KeyboardInv, KeyboardTypeOK, KeysAsHeld, RingHolds

LEMMA KeyboardStutter == KeyboardInv /\ UNCHANGED keyboardVars => KeyboardInv'
  BY DEF keyboardVars, KeyboardInv, KeyboardTypeOK, KeysAsHeld, RingHolds, Waiting

-----------------------------------------------------------------------------
(* Keyboard: the steps.                                                    *)

LEMMA CodeIsInt == \A k \in Key : Code(k) \in Int
  BY KeyboardAssumption DEF Code

LEMMA KeyboardFacts ==
    ASSUME KeyboardInv
    PROVE  /\ RingSize \in Nat /\ RingSize > 0
           /\ keyboard.pos \in 0 .. RingSize /\ tty.last_pos \in 0 .. RingSize
           /\ tty.new_pos \in 0 .. RingSize /\ tty.init \in BOOLEAN
           /\ keyboard.ring_buffer \in [0 .. RingSize - 1 -> Int]
           /\ Len(typed) \in Nat /\ Len(got) \in Nat /\ Waiting \in Int
           /\ typed \in Seq(Int) /\ got \in Seq(Int)
  BY KeyboardAssumption DEF KeyboardInv, KeyboardTypeOK, Device, Reader, Waiting

LEMMA StepPressed ==
    ASSUME KeyboardInv, NEW key \in Key, key_down(key)
    PROVE  KeyboardInv'
  <1> DEFINE code == Code(key)
  <1>1. /\ Outside /\ held' = held \cup {key} /\ stuck' = stuck \ {key}
        /\ UNCHANGED <<stopped, tty, got>> /\ code \in Int
    BY CodeIsInt DEF key_down, Pressed
  <1>2. CASE stopped
    <2>1. unseen' = unseen \cup ({key} \ held) /\ UNCHANGED <<keyboard, typed, overrun>>
      BY <1>2 DEF key_down, Pressed
    <2>2. KeysAsHeld'
      BY <1>1, <2>1 DEF KeyboardInv, KeysAsHeld
    <2>3. KeyboardTypeOK'
      BY <1>1, <2>1 DEF KeyboardInv, KeyboardTypeOK
    <2>4. QED
      BY <1>1, <2>1, <2>2, <2>3 DEF KeyboardInv, RingHolds, Waiting
  <1>3. CASE ~stopped
    <2>1. /\ keyboard' = [ring_buffer |-> [keyboard.ring_buffer EXCEPT ![keyboard.pos] = code],
                          pos |-> keyboard.pos + 1,
                          key_state |-> keyboard.key_state \cup {code}]
          /\ typed' = Append(typed, code)
          /\ overrun' = (overrun \/ Len(typed) + 1 - Len(got) >= RingSize)
          /\ unseen' = unseen \ {key}
      BY <1>3 DEF key_down, Pressed
    <2>2. /\ keyboard.pos \in 0 .. RingSize - 1 /\ keyboard'.pos = keyboard.pos + 1
          /\ keyboard'.ring_buffer = [keyboard.ring_buffer EXCEPT ![keyboard.pos] = code]
          /\ keyboard'.key_state = keyboard.key_state \cup {code}
      BY <1>1, <2>1, KeyboardFacts DEF Outside
    <2>3. /\ typed' \in Seq(Int) /\ Len(typed') = Len(typed) + 1 /\ typed'[Len(typed) + 1] = code
          /\ \A i \in 1 .. Len(typed) : typed'[i] = typed[i]
      BY <1>1, <2>1, KeyboardFacts
    <2>4. KeyboardTypeOK'
      <3>1. keyboard' \in Device
        <4>1. /\ keyboard'.ring_buffer \in [0 .. RingSize - 1 -> Int]
              /\ keyboard'.pos \in 0 .. RingSize
          BY <1>1, <2>2, KeyboardFacts
        <4>2. keyboard'.key_state \in SUBSET Int
          BY <1>1, <2>2 DEF Device, KeyboardInv, KeyboardTypeOK
        <4>3. keyboard' = [ring_buffer |-> keyboard'.ring_buffer, pos |-> keyboard'.pos,
                           key_state |-> keyboard'.key_state]
          BY <2>1
        <4>4. QED
          BY <4>1, <4>2, <4>3, Zenon DEF Device
      <3>2. QED
        BY <1>1, <2>1, <2>3, <3>1 DEF KeyboardInv, KeyboardTypeOK
    <2>5. KeysAsHeld'
      <3>1. keyboard.key_state \subseteq {Code(k) : k \in held \cup stuck}
        BY DEF KeyboardInv, KeysAsHeld
      <3>2. {Code(k) : k \in held \ unseen} \subseteq keyboard.key_state
        BY DEF KeyboardInv, KeysAsHeld
      <3>3. held' \cup stuck' = held \cup stuck \cup {key}
        BY <1>1
      <3>4. held' \ unseen' \subseteq (held \ unseen) \cup {key}
        BY <1>1, <2>1
      <3>5. QED
        BY <2>2, <3>1, <3>2, <3>3, <3>4 DEF KeysAsHeld
    <2>6. ASSUME ~overrun', tty.init PROVE RingHolds'
      <3>0. RingHolds /\ ~(Len(typed) + 1 - Len(got) >= RingSize)
        BY <2>1, <2>6, Zenon DEF KeyboardInv
      <3>1. /\ RingHolds /\ Waiting' = Waiting + 1 /\ Waiting' \in 0 .. RingSize - 1
            /\ Waiting \in Nat /\ tty.last_pos \in 0 .. RingSize - 1
        <4>1. got' = got
          BY <1>1
        <4>2. Waiting \in Nat /\ tty.last_pos < RingSize
          BY <3>0 DEF RingHolds
        <4>3. Waiting' = Waiting + 1
          BY <2>3, <4>1, KeyboardFacts DEF Waiting
        <4>4. Waiting + 1 < RingSize
          BY <3>0, KeyboardFacts DEF Waiting
        <4>5. QED
          BY <3>0, <4>2, <4>3, <4>4, KeyboardFacts
      <3>2. Onward(tty.last_pos, Waiting) = keyboard.pos /\ Waiting < RingSize - 1
        BY <2>2, <2>6, <3>1, KeyboardFacts DEF RingHolds
      <3>3. \A i \in 1 .. Len(got) : got[i] = typed'[i]
        BY <2>3, <2>6, <3>1, KeyboardFacts DEF RingHolds, Waiting
      <3>4. ASSUME NEW j \in 0 .. Waiting
            PROVE  keyboard'.ring_buffer[Onward(tty.last_pos, j)] = typed'[Len(got) + 1 + j]
        <4>1. CASE j = Waiting
          <5>1. Len(got) + 1 + j = Len(typed) + 1
            BY <4>1, KeyboardFacts DEF Waiting
          <5>2. QED
            BY <2>2, <2>3, <3>2, <4>1, <5>1, KeyboardFacts
        <4>2. CASE j # Waiting
          <5>0. j \in 0 .. Waiting - 1
            BY <3>1, <4>2
          <5>1. j \in 0 .. Waiting - 1 /\ Len(got) + 1 + j \in 1 .. Len(typed)
            <6>1. Len(got) + Waiting = Len(typed)
              BY KeyboardFacts DEF Waiting
            <6>2. QED
              BY <3>1, <5>0, <6>1, KeyboardFacts
          <5>2. Onward(tty.last_pos, j) # keyboard.pos /\ Onward(tty.last_pos, j) \in 0 .. RingSize - 1
            <6>1. \A a \in 0 .. RingSize - 1, n \in 0 .. RingSize - 1 : \A i \in 0 .. n - 1 :
                      Onward(a, i) # Onward(a, n) /\ Onward(a, i) \in 0 .. RingSize - 1
              BY KeyboardFacts DEF Onward
            <6>2. Waiting \in 0 .. RingSize - 1
              BY <3>0 DEF RingHolds
            <6>3. QED
              BY <3>1, <3>2, <5>0, <6>1, <6>2
          <5>3. QED
            BY <2>2, <2>3, <2>6, <3>1, <5>1, <5>2, KeyboardFacts DEF RingHolds
        <4>3. QED
          BY <4>1, <4>2
      <3>5. Onward(tty.last_pos, Waiting + 1) = IF keyboard'.pos = RingSize THEN 0 ELSE keyboard'.pos
        <4>1. Waiting \in 0 .. RingSize - 2
          BY <3>1, <3>2, KeyboardFacts
        <4>2. Onward(tty.last_pos, Waiting + 1) = IF keyboard.pos + 1 = RingSize THEN 0 ELSE keyboard.pos + 1
          BY <3>1, <3>2, <4>1, StepOnward
        <4>3. QED
          BY <2>2, <4>2
      <3>6. \E n \in 0 .. Waiting + 1 : tty.new_pos = Onward(tty.last_pos, n)
        BY <2>6, <3>1 DEF RingHolds
      <3>7. tty.new_pos < RingSize
        BY <2>6, <3>1 DEF RingHolds
      <3>8. /\ tty' = tty /\ got' = got /\ tty.last_pos < RingSize
            /\ \A j \in 0 .. Waiting' - 1 : j \in 0 .. Waiting
        BY <1>1, <3>1, KeyboardFacts
      <3>9. QED
        BY <3>1, <3>3, <3>4, <3>5, <3>6, <3>7, <3>8 DEF RingHolds
    <2>7. tty' = tty /\ (~tty.init => got = <<>>)'
      BY <1>1 DEF KeyboardInv
    <2>8. QED
      BY <2>4, <2>5, <2>6, <2>7 DEF KeyboardInv
  <1>4. QED
    BY <1>2, <1>3 DEF KeyboardInv, KeyboardTypeOK

LEMMA StepReleased ==
    ASSUME KeyboardInv, NEW key \in Key, key_up(key)
    PROVE  KeyboardInv'
  <1> DEFINE same == {k \in Key : Code(k) = Code(key)}
  <1>1. /\ held' = held \ {key} /\ UNCHANGED <<stopped, tty, typed, got, overrun>>
        /\ held \subseteq Key /\ unseen \subseteq Key /\ stuck \subseteq Key
    BY DEF key_up, Released, KeyboardInv, KeyboardTypeOK
  <1>2. CASE stopped
    <2>1. unseen' = unseen \ {key} /\ stuck' = stuck \cup {key} /\ keyboard' = keyboard
      BY <1>2 DEF key_up, Released
    <2>2. held' \cup stuck' = held \cup stuck \cup {key} /\ held' \ unseen' \subseteq held \ unseen
      BY <1>1, <2>1
    <2>3. KeysAsHeld'
      BY <2>1, <2>2 DEF KeyboardInv, KeysAsHeld
    <2>4. KeyboardTypeOK'
      BY <1>1, <2>1 DEF KeyboardInv, KeyboardTypeOK
    <2>5. QED
      BY <1>1, <2>1, <2>3, <2>4 DEF KeyboardInv, RingHolds, Waiting
  <1>3. CASE ~stopped
    <2>0. unseen' = (unseen \cup (held \cap same)) \ {key} /\ stuck' = stuck \ same
      BY <1>3 DEF key_up, Released
    <2>1. /\ keyboard' = [keyboard EXCEPT !.key_state = @ \ {Code(key)}]
          /\ keyboard'.ring_buffer = keyboard.ring_buffer /\ keyboard'.pos = keyboard.pos
          /\ keyboard'.key_state = keyboard.key_state \ {Code(key)}
      BY <1>3 DEF key_up, KeyboardInv, KeyboardTypeOK, Device
    <2>2. keyboard' \in Device
      BY <2>1 DEF KeyboardInv, KeyboardTypeOK, Device
    <2>3. KeysAsHeld'
      <3>1. \A k \in held \cup stuck : Code(k) # Code(key) => k \in held' \cup stuck'
        BY <1>1, <2>0
      <3>2. \A k \in held' \ unseen' : k \in held \ unseen /\ Code(k) # Code(key)
        BY <1>1, <2>0
      <3>3. QED
        BY <2>1, <3>1, <3>2 DEF KeyboardInv, KeysAsHeld
    <2>4. KeyboardTypeOK'
      BY <1>1, <2>0, <2>1, <2>2 DEF KeyboardInv, KeyboardTypeOK
    <2>5. RingHolds => RingHolds'
      BY <1>1, <2>1 DEF RingHolds, Waiting
    <2>6. QED
      BY <1>1, <2>3, <2>4, <2>5 DEF KeyboardInv
  <1>4. QED
    BY <1>2, <1>3 DEF KeyboardInv, KeyboardTypeOK

LEMMA StepWrap == KeyboardInv /\ WrapPos => KeyboardInv'
  <1> SUFFICES ASSUME KeyboardInv, WrapPos PROVE KeyboardInv'
    OBVIOUS
  <1>1. /\ keyboard.pos = RingSize /\ keyboard' = [keyboard EXCEPT !.pos = 0]
        /\ UNCHANGED <<stopped, held, unseen, stuck, tty, typed, got, overrun>>
        /\ keyboard'.ring_buffer = keyboard.ring_buffer /\ keyboard'.pos = 0
        /\ keyboard'.key_state = keyboard.key_state
    BY DEF WrapPos, KeyboardInv, KeyboardTypeOK, Device
  <1>2. keyboard' \in Device
    <2>1. keyboard \in Device /\ 0 \in 0 .. RingSize
      BY KeyboardFacts DEF KeyboardInv, KeyboardTypeOK
    <2>2. QED
      BY <1>1, <2>1, Zenon DEF Device
  <1>3. KeyboardTypeOK' /\ KeysAsHeld' /\ (~tty.init => got = <<>>)'
    BY <1>1, <1>2 DEF KeyboardInv, KeyboardTypeOK, KeysAsHeld
  <1>4. (tty.init /\ ~overrun => RingHolds)'
    <2>1. RingSize # 0
      BY KeyboardFacts
    <2>2. RingHolds => RingHolds'
      BY <1>1, <2>1 DEF RingHolds, Waiting
    <2>3. QED
      BY <1>1, <2>2 DEF KeyboardInv
  <1>5. QED
    BY <1>3, <1>4 DEF KeyboardInv

LEMMA StepTty == KeyboardInv /\ (TtyInit \/ TtyLook) => KeyboardInv'
  <1>1. ASSUME KeyboardInv, TtyInit PROVE KeyboardInv'
    <2>1. /\ ~tty.init /\ tty' = [init |-> TRUE, last_pos |-> keyboard.pos, new_pos |-> keyboard.pos]
          /\ typed' = <<>> /\ overrun' = ~Outside /\ got = <<>>
          /\ UNCHANGED <<keyboard, stopped, held, unseen, stuck, got>>
      BY <1>1 DEF TtyInit, KeyboardInv
    <2>2. KeyboardTypeOK' /\ KeysAsHeld' /\ tty'.init
      <3>1. tty' \in Reader
        BY <1>1, <2>1, KeyboardFacts, Zenon DEF Reader
      <3>2. QED
        BY <1>1, <2>1, <3>1 DEF KeyboardInv, KeyboardTypeOK, KeysAsHeld
    <2>3. ASSUME ~overrun' PROVE RingHolds'
      <3>1. /\ Waiting' = 0 /\ Len(got') = 0 /\ tty'.last_pos = keyboard.pos /\ tty'.new_pos = keyboard.pos
            /\ keyboard.pos \in 0 .. RingSize - 1 /\ keyboard'.pos = keyboard.pos
        <4>1. Outside
          BY <2>1, <2>3
        <4>2. Len(typed') = 0 /\ Len(got') = 0 /\ keyboard' = keyboard
          BY <2>1
        <4>3. tty'.last_pos = keyboard.pos /\ tty'.new_pos = keyboard.pos
          BY <2>1
        <4>4. QED
          BY <1>1, <4>1, <4>2, <4>3, KeyboardFacts DEF Outside, Waiting
      <3>2. Onward(keyboard.pos, 0) = keyboard.pos /\ 0 \in 0 .. 0 /\ 0 \in 0 .. RingSize - 1
        BY <1>1, <3>1, KeyboardFacts DEF Onward
      <3>3. QED
        BY <1>1, <2>2, <3>1, <3>2, KeyboardFacts DEF RingHolds
    <2>4. QED
      BY <2>2, <2>3 DEF KeyboardInv
  <1>2. ASSUME KeyboardInv, TtyLook PROVE KeyboardInv'
    <2>1. /\ tty.init /\ tty' = [tty EXCEPT !.new_pos = keyboard.pos]
          /\ overrun' = (overrun \/ ~Outside)
          /\ UNCHANGED <<keyboard, stopped, held, unseen, stuck, typed, got>>
      BY <1>2 DEF TtyLook
    <2>2. KeyboardTypeOK' /\ KeysAsHeld'
      <3>1. tty' \in Reader
        BY <1>2, <2>1, KeyboardFacts, Zenon DEF Reader, KeyboardInv, KeyboardTypeOK
      <3>2. QED
        BY <1>2, <2>1, <3>1 DEF KeyboardInv, KeyboardTypeOK, KeysAsHeld
    <2>3. tty'.init /\ tty'.last_pos = tty.last_pos /\ tty'.new_pos = keyboard.pos
      BY <1>2, <2>1 DEF KeyboardInv, KeyboardTypeOK, Reader
    <2>4. ASSUME ~overrun' PROVE RingHolds'
      <3>1. RingHolds /\ keyboard.pos < RingSize /\ keyboard.pos \in Nat
        <4>1. RingHolds /\ Outside
          BY <1>2, <2>1, <2>4, Zenon DEF KeyboardInv
        <4>2. QED
          BY <1>2, <4>1, KeyboardFacts DEF Outside
      <3>2. Waiting' = Waiting /\ Waiting \in 0 .. Waiting /\ keyboard.pos = Onward(tty.last_pos, Waiting)
        BY <1>2, <2>1, <3>1, KeyboardFacts DEF RingHolds, Waiting
      <3>3. QED
        BY <2>1, <2>3, <3>1, <3>2 DEF RingHolds
    <2>5. QED
      BY <2>2, <2>3, <2>4 DEF KeyboardInv
  <1>3. QED
    BY <1>1, <1>2

\* tty_read() takes the oldest key that waits.
LEMMA StepTake == KeyboardInv /\ TtyTake => KeyboardInv'
  <1> SUFFICES ASSUME KeyboardInv, TtyTake PROVE KeyboardInv'
    OBVIOUS
  <1> DEFINE p == tty.last_pos
  <1>1. /\ tty.init /\ p # tty.new_pos /\ ~overrun /\ RingHolds
        /\ tty' = [tty EXCEPT !.last_pos = (p + 1) % RingSize]
        /\ got' = Append(got, read_byte_callback(MaskBytes + p))
        /\ UNCHANGED <<keyboard, stopped, held, unseen, stuck, typed, overrun>>
    BY DEF TtyTake, KeyboardInv
  <1>2. p \in 0 .. RingSize - 1 /\ Waiting \in Nat
    BY <1>1, KeyboardFacts DEF RingHolds
  <1>3. PICK n \in 0 .. Waiting : tty.new_pos = Onward(p, n)
    BY <1>1 DEF RingHolds
  <1>4. n >= 1 /\ Waiting >= 1 /\ 0 \in 0 .. Waiting - 1
    BY <1>1, <1>2, <1>3, KeyboardFacts, SMTT(20) DEF Onward
  <1>5. /\ tty' = [tty EXCEPT !.last_pos = Onward(p, 1)]
        /\ Onward(p, 1) \in 0 .. RingSize - 1
    <2>1. (p + 1) % RingSize = Onward(p, 1)
      BY <1>2, OneOnward
    <2>2. Onward(p, 1) \in 0 .. RingSize - 1
      BY <1>2, KeyboardFacts DEF Onward
    <2>3. QED
      BY <1>1, <2>1, <2>2
  <1>6. tty' \in Reader /\ tty'.init /\ tty'.last_pos = Onward(p, 1) /\ tty'.new_pos = tty.new_pos
    <2>1. tty \in Reader /\ Onward(p, 1) \in 0 .. RingSize
      BY <1>5, KeyboardFacts DEF KeyboardInv, KeyboardTypeOK
    <2>2. tty' \in Reader
      BY <1>5, <2>1, Zenon DEF Reader
    <2>3. QED
      BY <1>1, <1>5, <2>1, <2>2 DEF Reader
  <1>7. read_byte_callback(MaskBytes + p) = keyboard.ring_buffer[p]
    BY <1>2, KeyboardAssumption, KeyboardFacts DEF read_byte_callback, ringbuffer_pos
  <1>8. keyboard.ring_buffer[p] = typed[Len(got) + 1] /\ keyboard.ring_buffer[p] \in Int
    <2>1. Onward(p, 0) = p /\ Len(got) + 1 + 0 = Len(got) + 1
      BY <1>2, KeyboardFacts DEF Onward
    <2>2. QED
      BY <1>1, <1>2, <1>4, <2>1, KeyboardFacts DEF RingHolds
  <1>9. /\ got' \in Seq(Int) /\ Len(got') = Len(got) + 1 /\ got'[Len(got) + 1] = typed[Len(got) + 1]
        /\ \A i \in 1 .. Len(got) : got'[i] = got[i]
    BY <1>1, <1>7, <1>8, KeyboardFacts
  <1>10. KeyboardTypeOK' /\ KeysAsHeld'
    BY <1>1, <1>6, <1>9 DEF KeyboardInv, KeyboardTypeOK, KeysAsHeld
  <1>11. Waiting' = Waiting - 1 /\ Waiting' \in 0 .. RingSize - 1
    BY <1>1, <1>4, <1>9, KeyboardFacts DEF RingHolds, Waiting
  <1>12. \A m \in 0 .. RingSize - 1 : m >= 1 => Onward(Onward(p, 1), m - 1) = Onward(p, m)
    <2> TAKE m \in 0 .. RingSize - 1
    <2> HAVE m >= 1
    <2>1. m - 1 \in 0 .. RingSize - 2 /\ (m - 1) + 1 = m
      BY KeyboardFacts
    <2>2. QED
      BY <1>2, <2>1, StepOnward
  <1>13. \A i \in 1 .. Len(got') : got'[i] = typed'[i]
    <2>1. \A i \in 1 .. Len(got) : got[i] = typed[i]
      BY <1>1 DEF RingHolds
    <2>2. \A i \in 1 .. Len(got') : i = Len(got) + 1 \/ i \in 1 .. Len(got)
      BY <1>9, KeyboardFacts
    <2>3. typed' = typed
      BY <1>1
    <2>4. QED
      BY <1>9, <2>1, <2>2, <2>3
  <1>14. ASSUME NEW j \in 0 .. Waiting' - 1
         PROVE  keyboard'.ring_buffer[Onward(tty'.last_pos, j)] = typed'[Len(got') + 1 + j]
    <2>1. /\ j + 1 \in 0 .. Waiting - 1 /\ j + 1 \in 0 .. RingSize - 1 /\ j + 1 >= 1 /\ (j + 1) - 1 = j
          /\ Len(got') + 1 + j = Len(got) + 1 + (j + 1)
      <3>1. Waiting \in 0 .. RingSize - 1
        BY <1>1 DEF RingHolds
      <3>2. QED
        BY <1>9, <1>11, <3>1, KeyboardFacts
    <2>2. Onward(tty'.last_pos, j) = Onward(p, j + 1)
      BY <1>6, <1>12, <2>1
    <2>3. QED
      BY <1>1, <2>1, <2>2 DEF RingHolds
  <1>15. Onward(tty'.last_pos, Waiting') = IF keyboard'.pos = RingSize THEN 0 ELSE keyboard'.pos
    BY <1>1, <1>4, <1>6, <1>11, <1>12, KeyboardFacts DEF RingHolds
  <1>16. \E m \in 0 .. Waiting' : tty'.new_pos = Onward(tty'.last_pos, m)
    <2>1. n - 1 \in 0 .. Waiting' /\ n \in 0 .. RingSize - 1
      <3>1. Waiting \in 0 .. RingSize - 1
        BY <1>1 DEF RingHolds
      <3>2. QED
        BY <1>4, <1>11, <3>1, KeyboardFacts
    <2>2. tty'.new_pos = Onward(tty'.last_pos, n - 1)
      BY <1>3, <1>4, <1>6, <1>12, <2>1
    <2>3. QED
      BY <2>1, <2>2
  <1>17. RingHolds'
    <2>1. tty'.last_pos < RingSize /\ tty'.new_pos < RingSize
      BY <1>1, <1>5, <1>6, KeyboardFacts DEF RingHolds
    <2>2. QED
      BY <1>11, <1>13, <1>14, <1>15, <1>16, <2>1 DEF RingHolds
  <1>18. QED
    BY <1>1, <1>6, <1>10, <1>17 DEF KeyboardInv

LEMMA StepReset == KeyboardInv /\ KeyboardReset => KeyboardInv'
  <1> SUFFICES ASSUME KeyboardInv, KeyboardReset PROVE KeyboardInv'
    OBVIOUS
  <1>1. RingSize \in Nat /\ RingSize > 0
    BY KeyboardAssumption
  <1>2. keyboard' \in Device /\ tty' \in Reader
    BY <1>1 DEF KeyboardReset, NewKeyboard, NewTty, Device, Reader
  <1>3. typed' \in Seq(Int) /\ got' \in Seq(Int) /\ got' = <<>> /\ ~tty'.init /\ keyboard'.key_state = {}
    BY DEF KeyboardReset, NewTty, NewKeyboard
  <1>4. /\ overrun' \in BOOLEAN /\ stopped' \in BOOLEAN /\ held' \subseteq Key
        /\ unseen' = held /\ held' = held /\ stuck' = {}
    BY DEF KeyboardReset, KeyboardInv, KeyboardTypeOK
  <1>5. held' \ unseen' = {}
    BY <1>4
  <1>6. QED
    BY <1>2, <1>3, <1>4, <1>5 DEF KeyboardInv, KeyboardTypeOK, KeysAsHeld

LEMMA KeyboardInvNext == KeyboardInv /\ KeyboardNext => KeyboardInv'
  <1>1. KeyboardInv /\ ToggleStopped => KeyboardInv'
    BY DEF ToggleStopped, KeyboardInv, KeyboardTypeOK, KeysAsHeld, RingHolds, Waiting
  <1>2. QED
    BY <1>1, StepPressed, StepReleased, StepWrap, StepTty, StepTake DEF KeyboardNext

-----------------------------------------------------------------------------
(* Keyboard: its registers.                                                *)

\* Each register reads the same as an aligned word and byte by byte, whatever
\* the keyboard's state is.
LEMMA KeyboardWords == KeyboardWordsAreBytes
  <1> SUFFICES ASSUME NEW addr \in 0 .. ringbuffer_pos, addr % 4 = 0
               PROVE  read_callback(addr) = [i \in 1 .. 4 |-> read_byte_callback(addr + i - 1)]
    BY DEF KeyboardWordsAreBytes
  <1>1. /\ MaskBytes \in Nat /\ RingSize \in Nat /\ RingSize > 0
        /\ MaskBytes % 4 = 0 /\ RingSize % 4 = 0
        /\ ringbuffer_pos = MaskBytes + RingSize /\ addr \in Nat /\ addr % 4 = 0
    BY KeyboardAssumption DEF ringbuffer_pos
  <1>2. CASE addr < MaskBytes
    <2>1. addr + 3 < MaskBytes
      BY <1>1, <1>2
    <2>2. \A i \in 1 .. 4 : addr + i - 1 < MaskBytes
      BY <1>1, <2>1
    <2>3. QED
      BY <1>2, <2>2 DEF read_callback, read_byte_callback
  <1>3. CASE addr >= MaskBytes /\ addr < ringbuffer_pos
    <2>1. RingSize >= 4 /\ addr + 3 < ringbuffer_pos
      BY <1>1, <1>3
    <2>2. \A i \in 1 .. 4 : (i - 1) % RingSize = i - 1
      BY <1>1, <2>1
    <2>3. \A i \in 1 .. 4 : /\ addr + i - 1 >= MaskBytes /\ addr + i - 1 < ringbuffer_pos
                            /\ addr - MaskBytes + (i - 1) = addr + i - 1 - MaskBytes
      BY <1>1, <1>3, <2>1
    <2>4. ~(addr - MaskBytes + ((4 - 1) % RingSize) >= RingSize)
      BY <1>1, <2>1, <2>2
    <2>5. read_callback(addr) = [i \in 1 .. 4 |-> keyboard.ring_buffer[addr - MaskBytes + ((i - 1) % RingSize)]]
      <3>1. ~(addr < MaskBytes) /\ addr < ringbuffer_pos
        BY <1>1, <1>3
      <3>2. QED
        BY <2>4, <3>1, Zenon DEF read_callback
    <2>6. \A i \in 1 .. 4 : read_byte_callback(addr + i - 1)
                            = keyboard.ring_buffer[addr - MaskBytes + ((i - 1) % RingSize)]
      BY <1>1, <2>2, <2>3 DEF read_byte_callback
    <2>7. QED
      BY <2>5, <2>6
  <1>4. CASE addr = ringbuffer_pos
    <2>1. read_callback(addr) = <<keyboard.pos, 0, 0, 0>>
      BY <1>1, <1>4 DEF read_callback
    <2>2. \A i \in 1 .. 4 : read_byte_callback(addr + i - 1) = IF i = 1 THEN keyboard.pos ELSE 0
      BY <1>1, <1>4 DEF read_byte_callback
    <2>3. <<keyboard.pos, 0, 0, 0>> = [i \in 1 .. 4 |-> IF i = 1 THEN keyboard.pos ELSE 0]
      OBVIOUS
    <2>4. QED
      BY <2>1, <2>2, <2>3
  <1>5. QED
    BY <1>1, <1>2, <1>3, <1>4

-----------------------------------------------------------------------------
(* Display: where the bytes of the frame buffer are.                       *)

LEMMA Division ==
    ASSUME NEW n \in Nat, NEW w \in Nat, w > 0
    PROVE  /\ n \div w \in Nat /\ n % w \in 0 .. w - 1
           /\ n = w * (n \div w) + (n % w)
  OBVIOUS

\* Quotient and remainder are determined.
LEMMA Divided ==
    ASSUME NEW w \in Nat, w > 0, NEW q \in Nat, NEW r \in 0 .. w - 1, NEW n \in Nat,
           n = w * q + r
    PROVE  n \div w = q /\ n % w = r
  OBVIOUS

Frame == 0 .. Width * Height * 8 - 1

LEMMA DisplaySizes ==
    /\ Width \in Nat /\ Width >= 1 /\ Height \in Nat /\ Height >= 1
    /\ NumGlyphs \in Nat /\ NumGlyphs >= 1
    /\ Width % 4 = 0 /\ Width * Height \in Nat /\ Width * Height >= 1
    /\ (Width * Height) % 4 = 0
    /\ Width * Height * 8 = 8 * (Width * Height)
    /\ Width * Height * 8 = Width * (8 * Height)
  <1>1. /\ Width \in Nat /\ Width >= 1 /\ Height \in Nat /\ Height >= 1
        /\ NumGlyphs \in Nat /\ NumGlyphs >= 1 /\ Width % 4 = 0
    BY DisplayAssumption
  <1>2. \A w, h \in Nat : w >= 1 /\ h >= 1 =>
            w * h \in Nat /\ w * h >= 1 /\ w * h * 8 = 8 * (w * h) /\ w * h * 8 = w * (8 * h)
    OBVIOUS
  <1>3. (Width * Height) % 4 = 0
    <2>1. PICK k \in Nat : Width = 4 * k
      <3>1. Width = 4 * (Width \div 4) + 0 /\ Width \div 4 \in Nat
        BY <1>1
      <3>2. QED
        BY <3>1
    <2>2. Width * Height = 4 * (k * Height) /\ k * Height \in Nat
      BY <1>1, <2>1
    <2>3. QED
      BY <2>2
  <1>4. QED
    BY <1>1, <1>2, <1>3

\* Rows are counted from the other end, and columns stay.
LEMMA ScreenPlace ==
    ASSUME NEW o \in Frame
    PROVE  /\ o \in Nat /\ o \div Width \in 0 .. 8 * Height - 1 /\ o % Width \in 0 .. Width - 1
           /\ o = Width * (o \div Width) + (o % Width)
           /\ cpu_to_screen(o) \in Frame
           /\ cpu_to_screen(o) = Width * (8 * Height - 1 - (o \div Width)) + (o % Width)
           /\ cpu_to_screen(o) \div Width = 8 * Height - 1 - (o \div Width)
           /\ cpu_to_screen(o) % Width = o % Width
  <1>1. PICK w \in Nat : w = Width /\ w >= 1
    BY DisplaySizes
  <1>2. PICK h \in Nat : h = 8 * Height /\ h >= 8
    BY DisplaySizes
  <1>3. o \in Nat /\ o < w * h
    BY <1>1, <1>2, DisplaySizes DEF Frame
  <1>4. PICK q \in Nat : q = o \div w
    BY <1>1, <1>3, Division
  <1>5. PICK r \in 0 .. w - 1 : r = o % w
    BY <1>1, <1>3, Division
  <1>6. o = w * q + r
    BY <1>1, <1>3, <1>4, <1>5, Division
  <1>7. q < h
    <2>1. w * q < w * h
      BY <1>1, <1>2, <1>3, <1>6
    <2>2. ASSUME q >= h PROVE FALSE
      <3>1. w * q >= w * h
        BY <1>1, <1>2, <2>2
      <3>2. QED
        BY ONLY <2>1, <3>1, w \in Nat, q \in Nat, h \in Nat
    <2>3. QED
      BY <2>2
  <1>8. PICK y \in 0 .. h - 1 : y = h - 1 - q
    BY <1>7
  <1>9. PICK k \in Nat : k = w * y + r /\ k < w * h
    <2>1. w * y + r \in Nat
      BY <1>1
    <2>2. w * y <= w * (h - 1) /\ w * (h - 1) = w * h - w
      BY <1>1, <1>2
    <2>3. w * y + r < w * h
      <3>1. w * y \in Nat /\ w * h \in Nat /\ w * (h - 1) \in Int
        BY <1>1, <1>2
      <3>2. QED
        BY <2>2, <3>1
    <2>4. QED
      BY <2>1, <2>3
  <1>10. k \div w = y /\ k % w = r
    BY <1>1, <1>9, Divided
  <1>11. (o * 8) \div PixelWidth = q /\ (o * 8) % PixelWidth = 8 * r
    <2>1. PICK v \in Nat : v = w * 8
      BY <1>1
    <2>2. v > 0 /\ 8 * r \in 0 .. v - 1
      BY <1>1, <2>1
    <2>3. o * 8 = v * q + 8 * r
      <3>1. v * q = 8 * (w * q) /\ w * q \in Nat
        BY <2>1
      <3>2. QED
        BY <1>6, <3>1
    <2>4. o * 8 \in Nat
      BY <1>3
    <2>5. (o * 8) \div v = q /\ (o * 8) % v = 8 * r
      BY <2>2, <2>3, <2>4, Divided
    <2>6. QED
      BY <1>1, <2>1, <2>5 DEF PixelWidth
  <1>12. cpu_to_screen(o) = k
    <2>1. PixelHeight - 1 - (o * 8) \div PixelWidth = y
      BY <1>2, <1>8, <1>11, DisplaySizes DEF PixelHeight
    <2>2. y * PixelWidth + ((o * 8) % PixelWidth) = 8 * k
      <3>1. y * PixelWidth = 8 * (w * y) /\ w * y \in Nat
        BY <1>1 DEF PixelWidth
      <3>2. r \in Int /\ k = w * y + r
        BY <1>1, <1>9
      <3>3. y * PixelWidth + 8 * r = 8 * k
        BY ONLY <3>1, <3>2, k \in Nat
      <3>4. QED
        BY <1>11, <3>3
    <2>3. (8 * k) \div 8 = k
      OBVIOUS
    <2>4. QED
      BY <2>1, <2>2, <2>3, Zenon DEF cpu_to_screen
  <1>13. QED
    BY <1>1, <1>2, <1>3, <1>4, <1>5, <1>6, <1>7, <1>8, <1>9, <1>10, <1>12, DisplaySizes DEF Frame

\* No two bytes are in the same place.
LEMMA ScreenPlaces ==
    ASSUME NEW o \in Frame, NEW u \in Frame, cpu_to_screen(o) = cpu_to_screen(u)
    PROVE  o = u
  <1>1. /\ 8 * Height - 1 - (o \div Width) = 8 * Height - 1 - (u \div Width)
        /\ o % Width = u % Width
    BY ScreenPlace
  <1>2. o \div Width = u \div Width
    BY <1>1, ScreenPlace, DisplaySizes
  <1>3. QED
    BY <1>1, <1>2, ScreenPlace

\* The cell of a byte as the guest sees it is the cell that redraw() draws it
\* in, and its rows are counted from the other end.
LEMMA CellPlace ==
    ASSUME NEW o \in Frame, NEW pos \in Cell, NEW column,
           column = {((Height - 1 - pos \div Width) * 8 + r) * Width + (pos % Width) : r \in 0 .. 7}
    PROVE  /\ cpu_to_screen(o) \in column <=> CellOf(o) = pos
           /\ CellOf(o) \in Cell /\ RowOf(o) \in 0 .. 7
           /\ (cpu_to_screen(o) \div Width) % 8 = 7 - RowOf(o)
  <1>1. PICK w \in Nat : w = Width /\ w >= 1
    BY DisplaySizes
  <1>2. PICK h \in Nat : h = Height /\ h >= 1
    BY DisplaySizes
  <1>3. PICK q \in 0 .. 8 * h - 1 : q = o \div Width
    BY <1>2, ScreenPlace
  <1>4. PICK x \in 0 .. w - 1 : x = o % Width
    BY <1>1, ScreenPlace
  <1>5. PICK b \in Nat, s \in 0 .. 7 : b = q \div 8 /\ s = q % 8 /\ q = 8 * b + s
    <2>1. q \div 8 \in Nat /\ q % 8 \in 0 .. 7 /\ q = 8 * (q \div 8) + (q % 8)
      OBVIOUS
    <2>2. QED
      BY <2>1
  <1>6. pos \in Nat /\ pos < w * h
    BY <1>1, <1>2, DisplaySizes DEF Cell
  <1>7. PICK pq \in Nat, pr \in 0 .. w - 1 :
            pq = pos \div Width /\ pr = pos % Width /\ pos = w * pq + pr
    <2>1. pos \div w \in Nat /\ pos % w \in 0 .. w - 1 /\ pos = w * (pos \div w) + (pos % w)
      BY <1>1, <1>6, Division
    <2>2. QED
      BY <1>1, <2>1
  <1>8. pq <= h - 1
    <2>1. ASSUME pq >= h PROVE FALSE
      <3>1. w * pq >= w * h
        BY <1>1, <2>1
      <3>2. w * pq \in Nat /\ w * h \in Nat
        BY <1>1
      <3>3. QED
        BY <1>6, <1>7, <3>1, <3>2
    <2>2. QED
      BY <2>1
  <1>9. PICK k \in Nat : k = cpu_to_screen(o) /\ k \div w = 8 * h - 1 - q /\ k % w = x
                         /\ k = w * (8 * h - 1 - q) + x
    BY <1>1, <1>2, <1>3, <1>4, ScreenPlace DEF Frame
  <1>10. CellOf(o) = b * w + x /\ RowOf(o) = s
    BY <1>1, <1>3, <1>4, <1>5 DEF CellOf, RowOf
  <1>11. CellOf(o) = pos <=> b = pq /\ x = pr
    <2>1. b * w = w * b /\ w * b \in Nat
      BY <1>1
    <2>2. ASSUME CellOf(o) = pos PROVE b = pq /\ x = pr
      <3>1. pos \div w = b /\ pos % w = x
        BY <1>1, <1>6, <1>10, <2>1, <2>2, Divided
      <3>2. QED
        BY <1>1, <1>7, <3>1
    <2>3. QED
      BY <1>7, <1>10, <2>1, <2>2
  <1>12. ASSUME b = pq, x = pr PROVE k \in column
    <2>1. 7 - s \in 0 .. 7 /\ 8 * h - 1 - q = (h - 1 - pq) * 8 + (7 - s)
      BY <1>2, <1>5, <1>12
    <2>2. (h - 1 - pq) * 8 + (7 - s) \in Int
      BY <1>2
    <2>3. k = ((h - 1 - pq) * 8 + (7 - s)) * w + pr
      BY <1>1, <1>9, <1>12, <2>1, <2>2
    <2>4. QED
      BY <1>1, <1>2, <1>7, <2>1, <2>3
  <1>13. ASSUME k \in column PROVE b = pq /\ x = pr
    <2>1. PICK r \in 0 .. 7 : k = ((h - 1 - pq) * 8 + r) * w + pr
      BY <1>1, <1>2, <1>7, <1>13
    <2>2. PICK y \in Nat : y = (h - 1 - pq) * 8 + r
      BY <1>2, <1>8
    <2>3. k = w * y + pr
      BY <1>1, <2>1, <2>2
    <2>4. k \div w = y /\ k % w = pr
      BY <1>1, <2>3, Divided
    <2>5. 8 * h - 1 - q = y /\ x = pr
      BY <1>9, <2>4
    <2>6. 8 * b + s = 8 * pq + (7 - r)
      BY <1>2, <1>5, <2>2, <2>5
    <2>7. QED
      BY <2>5, <2>6
  <1>14. (k \div Width) % 8 = 7 - s
    <2>1. k \div Width = 8 * (h - 1 - b) + (7 - s)
      BY <1>1, <1>2, <1>5, <1>9
    <2>2. h - 1 - b \in Nat
      <3>1. 8 * b + s <= 8 * h - 1 /\ s >= 0
        BY <1>2, <1>3, <1>5
      <3>2. QED
        BY ONLY <3>1, h \in Nat, b \in Nat, s \in Int
    <2>3. QED
      BY <2>1, <2>2
  <1>15. b * w + x \in Cell
    <2>1. b <= h - 1
      <3>1. 8 * b + s <= 8 * h - 1 /\ s >= 0
        BY <1>2, <1>3, <1>5
      <3>2. QED
        BY ONLY <3>1, h \in Nat, b \in Nat, s \in Int
    <2>2. w * b <= w * (h - 1) /\ w * (h - 1) = w * h - w /\ b * w = w * b
      BY <1>1, <1>2, <2>1
    <2>3. w * b \in Nat /\ w * h \in Nat
      BY <1>1, <1>2
    <2>4. b * w + x \in 0 .. w * h - 1
      BY <2>2, <2>3
    <2>5. QED
      BY <1>1, <1>2, <2>4 DEF Cell
  <1>16. QED
    BY <1>9, <1>10, <1>11, <1>12, <1>13, <1>14, <1>15

\* The registers lie behind each other, in whole words.
LEMMA Registers ==
    /\ letter_start \in Nat /\ letter_start >= 1
    /\ letter_end = 2 * letter_start /\ font_start = letter_end /\ letter_end % 4 = 0
    /\ font_end = font_start + NumGlyphs * 8 /\ frame_buffer_start = font_end
    /\ frame_buffer_start \in Nat /\ frame_buffer_start >= letter_end + 8
    /\ frame_buffer_start % 4 = 0
    /\ frame_buffer_end = frame_buffer_start + Width * Height * 8
    /\ Cell = 0 .. letter_start - 1
  <1>1. PICK p \in Nat : p = Width * Height /\ p >= 1 /\ p % 4 = 0
    BY DisplaySizes
  <1>2. 2 * Width * Height = 2 * p
    BY <1>1, DisplaySizes
  <1>3. NumGlyphs \in Nat /\ NumGlyphs >= 1
    BY DisplaySizes
  <1>4. (2 * p) % 4 = 0 /\ (2 * p + NumGlyphs * 8) % 4 = 0
    BY <1>1, <1>3
  <1>5. QED
    BY <1>1, <1>2, <1>3, <1>4
       DEF letter_start, letter_end, font_start, font_end, frame_buffer_start, frame_buffer_end, Cell

-----------------------------------------------------------------------------
(* Display: the invariant.                                                 *)

\* The fields of the display, and what it draws from.
Font == [Glyph -> [0 .. 7 -> Int]]
Crt  == [palette_data : [Cell -> Int], letter_data : [Cell -> Glyph], font_data : Font,
         pixels : [Frame -> Int], quads : [Cell -> Int \X Int]]

\* The pixels and the font as the guest thinks of them, from the top down.
Picture == [Frame -> Int]
Glyphs  == [Glyph -> [1 .. 8 -> Int]]

\* The display d shows the picture p and has the glyphs g.
Shows(d, p, g) ==
    /\ \A o \in Frame : d.pixels[cpu_to_screen(o)] = p[o]
    /\ \A k \in Glyph, r \in 0 .. 7 : d.font_data[k][r] = g[k][8 - r]
    /\ \A c \in Cell : d.quads[c] = <<d.palette_data[c] % 16, (d.palette_data[c] \div 16) % 16>>

\* The inductive invariant: what is drawn is what was written, and the last
\* write can be read back.
DisplayInv ==
    /\ display \in Crt
    /\ picture \in Picture
    /\ glyphs \in Glyphs
    /\ Shows(display, picture, glyphs)
    /\ ReadsBack

\* What the write of one byte does to glyphs and picture.
ByteGlyphs(g, a, v) ==
    [k \in Glyph |-> [r \in 1 .. 8 |->
        IF font_start + k * 8 + r - 1 = a /\ k >= NumGlyphs \div 2 THEN v ELSE g[k][r]]]

BytePicture(p, g, a, v) ==
    [o \in Frame |-> IF frame_buffer_start + o = a THEN v
                     ELSE IF letter_start + CellOf(o) = a THEN g[v][RowOf(o) + 1]
                     ELSE p[o]]

\* What is read from where.
LEMMA ReadForms ==
    ASSUME NEW d, NEW a \in Nat
    PROVE  /\ a < letter_start => read_byte(d, a) = d.palette_data[a]
           /\ a >= letter_start /\ a < letter_end => read_byte(d, a) = d.letter_data[a - letter_start]
           /\ InFrame(a) => read_byte(d, a) = d.pixels[cpu_to_screen(a - frame_buffer_start)]
  <1>1. CASE a < letter_start
    <2>1. ~InFrame(a) /\ ~(a >= letter_start)
      BY <1>1, Registers, DisplaySizes DEF InFrame
    <2>2. QED
      BY <1>1, <2>1, Zenon DEF read_byte
  <1>2. CASE a >= letter_start /\ a < letter_end
    <2>1. ~InFrame(a) /\ ~(a < letter_start)
      BY <1>2, Registers, DisplaySizes DEF InFrame
    <2>2. QED
      BY <1>2, <2>1, Zenon DEF read_byte
  <1>3. CASE InFrame(a)
    <2>1. ~(a < letter_start) /\ ~(a < letter_end) /\ ~(a < font_end) /\ a < frame_buffer_end
      BY <1>3, Registers, DisplaySizes DEF InFrame
    <2>2. QED
      BY <2>1, Zenon DEF read_byte
  <1>4. QED
    BY <1>1, <1>2, <1>3, Registers, DisplaySizes DEF InFrame

LEMMA DisplayInvShows == DisplayInv => ScreenShows
  <1> SUFFICES ASSUME DisplayInv PROVE ScreenShows
    OBVIOUS
  <1>1. DOMAIN picture = Frame
    BY DEF DisplayInv, Picture
  <1>2. ASSUME NEW o \in Frame
        PROVE  read_byte(display, frame_buffer_start + o) = display.pixels[cpu_to_screen(o)]
    <2>1. PICK a \in Nat : a = frame_buffer_start + o /\ InFrame(a) /\ a - frame_buffer_start = o
      BY Registers, DisplaySizes DEF Frame, InFrame
    <2>2. QED
      BY <2>1, ReadForms
  <1>3. QED
    BY <1>1, <1>2 DEF DisplayInv, Shows, ScreenShows

LEMMA NewDisplayShows ==
    ASSUME NEW p, p = [o \in Frame |-> Petscii[0][RowOf(o) + 1]]
    PROVE  NewDisplay \in Crt /\ p \in Picture /\ Petscii \in Glyphs /\ Shows(NewDisplay, p, Petscii)
  <1> DEFINE d == NewDisplay
  <1>1. /\ 0 \in Glyph /\ 0 \in Cell
        /\ \A g \in Glyph : Petscii[g] \in [1 .. 8 -> Int]
    <2>1. \A g \in Glyph : Petscii[g] \in Seq(0 .. 255) /\ Len(Petscii[g]) = 8
      BY DisplayAssumption DEF Glyph
    <2>2. \A s \in Seq(0 .. 255) : Len(s) = 8 => s \in [1 .. 8 -> Int]
      <3> TAKE s \in Seq(0 .. 255)
      <3> HAVE Len(s) = 8
      <3>1. s = [i \in 1 .. 8 |-> s[i]] /\ \A i \in 1 .. 8 : s[i] \in Int
        <4>1. s \in [1 .. 8 -> 0 .. 255]
          <5>1. PICK T, n : T = 0 .. 255 /\ n = 8
            OBVIOUS
          <5>2. s \in Seq(T) /\ Len(s) = n
            BY <5>1
          <5>3. s \in [1 .. n -> T]
            BY <5>2, LenProperties, Zenon
          <5>4. QED
            BY <5>1, <5>3
        <4>2. \A b \in 0 .. 255 : b \in Int
          OBVIOUS
        <4>3. QED
          BY ONLY <4>1, <4>2
      <3>2. QED
        BY <3>1, Zenon
    <2>3. 0 \in Glyph /\ 0 \in Cell
      BY DisplaySizes, Registers DEF Glyph
    <2>4. QED
      BY <2>1, <2>2, <2>3
  <1>2. Petscii \in Glyphs
    <2>1. Petscii = [g \in Glyph |-> Petscii[g]]
      BY DisplayAssumption DEF Glyph
    <2>2. QED
      BY <1>1, <2>1, Zenon DEF Glyphs
  <1>3. p \in Picture
    <2>1. \A o \in Frame : RowOf(o) + 1 \in 1 .. 8
      <3> TAKE o \in Frame
      <3>1. RowOf(o) \in 0 .. 7
        BY <1>1, CellPlace
      <3>2. QED
        BY <3>1
    <2>2. QED
      BY <1>1, <2>1 DEF Picture
  <1>4. /\ d.palette_data = [c \in Cell |-> 0] /\ d.letter_data = [c \in Cell |-> 0]
        /\ d.font_data = [g \in Glyph |-> [r \in 0 .. 7 |-> Petscii[g][8 - r]]]
        /\ d.pixels = [i \in Frame |-> d.font_data[0][(i \div Width) % 8]]
        /\ d.quads = [c \in Cell |-> <<0, 0>>]
        /\ d = [palette_data |-> d.palette_data, letter_data |-> d.letter_data,
                font_data |-> d.font_data, pixels |-> d.pixels, quads |-> d.quads]
    BY DEF NewDisplay, Frame
  <1> HIDE DEF d
  <1>5. d.font_data \in Font
    <2>1. \A r \in 0 .. 7 : 8 - r \in 1 .. 8
      OBVIOUS
    <2>2. \A g \in Glyph : [r \in 0 .. 7 |-> Petscii[g][8 - r]] \in [0 .. 7 -> Int]
      BY <1>1, <2>1
    <2>3. QED
      BY <1>4, <2>2, Zenon DEF Font
  <1>6. d.pixels \in [Frame -> Int]
    <2>1. \A i \in Frame : (i \div Width) % 8 \in 0 .. 7
      BY ScreenPlace
    <2>2. QED
      BY <1>1, <1>4, <1>5, <2>1 DEF Font
  <1>7. d \in Crt
    <2>1. /\ d.palette_data \in [Cell -> Int] /\ d.letter_data \in [Cell -> Glyph]
          /\ d.quads \in [Cell -> Int \X Int]
      BY <1>1, <1>4
    <2>2. QED
      BY <1>4, <1>5, <1>6, <2>1, Zenon DEF Crt
  <1>8. ASSUME NEW o \in Frame PROVE d.pixels[cpu_to_screen(o)] = p[o]
    <2>1. /\ cpu_to_screen(o) \in Frame /\ RowOf(o) \in 0 .. 7
          /\ (cpu_to_screen(o) \div Width) % 8 = 7 - RowOf(o)
      BY <1>1, CellPlace, ScreenPlace
    <2>2. d.pixels[cpu_to_screen(o)] = d.font_data[0][7 - RowOf(o)]
      BY <1>4, <2>1
    <2>3. 7 - RowOf(o) \in 0 .. 7 /\ 8 - (7 - RowOf(o)) = RowOf(o) + 1
      BY <2>1
    <2>4. d.font_data[0][7 - RowOf(o)] = Petscii[0][8 - (7 - RowOf(o))]
      BY <1>1, <1>4, <2>3
    <2>5. QED
      BY <2>2, <2>3, <2>4
  <1>9. \A k \in Glyph, r \in 0 .. 7 : d.font_data[k][r] = Petscii[k][8 - r]
    BY <1>4
  <1>10. ASSUME NEW c \in Cell
         PROVE  d.quads[c] = <<d.palette_data[c] % 16, (d.palette_data[c] \div 16) % 16>>
    <2>1. d.quads[c] = <<0, 0>> /\ d.palette_data[c] = 0
      BY <1>4
    <2>2. 0 % 16 = 0 /\ (0 \div 16) % 16 = 0
      OBVIOUS
    <2>3. QED
      BY <2>1, <2>2
  <1>11. QED
    BY <1>2, <1>3, <1>7, <1>8, <1>9, <1>10 DEF Shows, d

-----------------------------------------------------------------------------
(* Display: the write of one byte.                                         *)

LEMMA Bounds ==
    /\ letter_start < letter_end /\ letter_end < font_end /\ font_end < frame_buffer_end
    /\ letter_start \in Nat /\ letter_end \in Nat /\ font_end \in Nat /\ frame_buffer_end \in Nat
    /\ font_start = letter_end /\ frame_buffer_start = font_end
  BY Registers, DisplaySizes

LEMMA PaletteForm ==
    ASSUME NEW d, NEW a \in Nat, NEW v, a < letter_start
    PROVE  write_byte(d, a, v) = IF v = d.palette_data[a] THEN d
                                 ELSE redraw_colours([d EXCEPT !.palette_data[a] = v], a)
  BY Zenon DEF write_byte

LEMMA LetterForm ==
    ASSUME NEW d, NEW a \in Nat, NEW v, a >= letter_start, a < letter_end
    PROVE  write_byte(d, a, v) = redraw([d EXCEPT !.letter_data[a - letter_start] = v], a - letter_start)
  <1>1. ~(a < letter_start)
    BY Bounds
  <1>2. QED
    BY <1>1, Zenon DEF write_byte

LEMMA FontForm ==
    ASSUME NEW d, NEW a \in Nat, NEW v, a >= font_start, a < font_end
    PROVE  write_byte(d, a, v) =
               IF (a - font_start) \div 8 >= NumGlyphs \div 2
               THEN [d EXCEPT !.font_data[(a - font_start) \div 8][7 - ((a - font_start) % 8)] = v]
               ELSE d
  <1>1. ~(a < letter_start) /\ ~(a < letter_end)
    BY Bounds
  <1>2. QED
    BY <1>1, Zenon DEF write_byte

LEMMA FrameForm ==
    ASSUME NEW d, NEW a \in Nat, NEW v, InFrame(a)
    PROVE  write_byte(d, a, v) = [d EXCEPT !.pixels[cpu_to_screen(a - frame_buffer_start)] = v]
  <1>1. ~(a < letter_start) /\ ~(a < letter_end) /\ ~(a < font_end) /\ a < frame_buffer_end
    BY Bounds DEF InFrame
  <1>2. QED
    BY <1>1, Zenon DEF write_byte

LEMMA BehindForm ==
    ASSUME NEW d, NEW a \in Nat, NEW v, a >= frame_buffer_end
    PROVE  write_byte(d, a, v) = d
  <1>1. ~(a < letter_start) /\ ~(a < letter_end) /\ ~(a < font_end) /\ ~(a < frame_buffer_end)
    BY Bounds
  <1>2. QED
    BY <1>1, Zenon DEF write_byte

\* The displays that the writes make.
LEMMA CrtForms ==
    ASSUME NEW d \in Crt
    PROVE  /\ \A f \in [Cell -> Int] : LET n == [d EXCEPT !.palette_data = f]
                IN  /\ n \in Crt /\ n.palette_data = f /\ n.letter_data = d.letter_data
                    /\ n.font_data = d.font_data /\ n.pixels = d.pixels /\ n.quads = d.quads
           /\ \A f \in [Cell -> Glyph] : LET n == [d EXCEPT !.letter_data = f]
                IN  /\ n \in Crt /\ n.palette_data = d.palette_data /\ n.letter_data = f
                    /\ n.font_data = d.font_data /\ n.pixels = d.pixels /\ n.quads = d.quads
           /\ \A f \in Font : LET n == [d EXCEPT !.font_data = f]
                IN  /\ n \in Crt /\ n.palette_data = d.palette_data /\ n.letter_data = d.letter_data
                    /\ n.font_data = f /\ n.pixels = d.pixels /\ n.quads = d.quads
           /\ \A f \in [Frame -> Int] : LET n == [d EXCEPT !.pixels = f]
                IN  /\ n \in Crt /\ n.palette_data = d.palette_data /\ n.letter_data = d.letter_data
                    /\ n.font_data = d.font_data /\ n.pixels = f /\ n.quads = d.quads
           /\ \A f \in [Cell -> Int \X Int] : LET n == [d EXCEPT !.quads = f]
                IN  /\ n \in Crt /\ n.palette_data = d.palette_data /\ n.letter_data = d.letter_data
                    /\ n.font_data = d.font_data /\ n.pixels = d.pixels /\ n.quads = f
           /\ d.palette_data \in [Cell -> Int] /\ d.letter_data \in [Cell -> Glyph]
           /\ d.font_data \in Font /\ d.pixels \in [Frame -> Int] /\ d.quads \in [Cell -> Int \X Int]
  BY Zenon DEF Crt

\* What the write of v at a changes and what it leaves alone.
Written(d, n, a, v) ==
    /\ \A c \in Cell : n.palette_data[c] = IF c = a THEN v ELSE d.palette_data[c]
    /\ \A c \in Cell : n.letter_data[c] = IF letter_start + c = a THEN v ELSE d.letter_data[c]
    /\ \A k \in Glyph, r \in 0 .. 7 :
          n.font_data[k][r] = IF font_start + k * 8 + (7 - r) = a /\ k >= NumGlyphs \div 2 THEN v
                              ELSE d.font_data[k][r]
    /\ \A o \in Frame :
          n.pixels[cpu_to_screen(o)] = IF frame_buffer_start + o = a THEN v
                                       ELSE IF letter_start + CellOf(o) = a
                                       THEN d.font_data[v][7 - RowOf(o)]
                                       ELSE d.pixels[cpu_to_screen(o)]
    /\ \A c \in Cell :
          n.quads[c] = IF c = a /\ v # d.palette_data[c] THEN <<v % 16, (v \div 16) % 16>>
                       ELSE d.quads[c]

LEMMA Places ==
    /\ \A c \in Cell : c \in Nat /\ c < letter_start /\ letter_start + c < letter_end
    /\ \A k \in Glyph, r \in 0 .. 7 :
          font_start + k * 8 + (7 - r) >= font_start /\ font_start + k * 8 + (7 - r) < font_end
    /\ \A o \in Frame :
          /\ letter_start + CellOf(o) >= letter_start /\ letter_start + CellOf(o) < letter_end
          /\ frame_buffer_start + o >= frame_buffer_start /\ frame_buffer_start + o < frame_buffer_end
          /\ CellOf(o) \in Cell /\ RowOf(o) \in 0 .. 7 /\ cpu_to_screen(o) \in Frame
    /\ letter_start < letter_end /\ letter_end < font_end /\ font_end < frame_buffer_end
    /\ letter_start \in Nat /\ letter_end \in Nat /\ font_end \in Nat /\ frame_buffer_end \in Nat
    /\ font_start = letter_end /\ frame_buffer_start = font_end
  <1>1. /\ letter_start < letter_end /\ letter_end < font_end /\ font_end < frame_buffer_end
        /\ letter_start \in Nat /\ letter_end \in Nat /\ font_end \in Nat /\ frame_buffer_end \in Nat
        /\ font_start = letter_end /\ frame_buffer_start = font_end
    BY Registers, DisplaySizes
  <1>2. \A c \in Cell : c \in Nat /\ c < letter_start /\ letter_start + c < letter_end
    BY Registers
  <1>3. ASSUME NEW k \in Glyph, NEW r \in 0 .. 7
        PROVE  font_start + k * 8 + (7 - r) >= font_start /\ font_start + k * 8 + (7 - r) < font_end
    BY Registers, DisplaySizes DEF Glyph
  <1>4. ASSUME NEW o \in Frame
        PROVE  /\ letter_start + CellOf(o) >= letter_start /\ letter_start + CellOf(o) < letter_end
               /\ frame_buffer_start + o >= frame_buffer_start /\ frame_buffer_start + o < frame_buffer_end
               /\ CellOf(o) \in Cell /\ RowOf(o) \in 0 .. 7 /\ cpu_to_screen(o) \in Frame
    <2>1. 0 \in Cell
      BY Registers
    <2>2. CellOf(o) \in Cell /\ RowOf(o) \in 0 .. 7 /\ cpu_to_screen(o) \in Frame
      BY <2>1, CellPlace, ScreenPlace
    <2>3. frame_buffer_start + o >= frame_buffer_start /\ frame_buffer_start + o < frame_buffer_end
      BY Registers, DisplaySizes DEF Frame
    <2>4. QED
      BY <1>1, <1>2, <2>2, <2>3
  <1>5. QED
    BY <1>1, <1>2, <1>3, <1>4

LEMMA WritePalette ==
    ASSUME NEW d \in Crt, NEW a \in Nat, NEW v \in Glyph, a < letter_start
    PROVE  write_byte(d, a, v) \in Crt /\ Written(d, write_byte(d, a, v), a, v)
  <1>1. a \in Cell /\ v \in Int
    BY Registers DEF Glyph
  <1>2. /\ \A c \in Cell : letter_start + c # a
        /\ \A k \in Glyph, r \in 0 .. 7 : font_start + k * 8 + (7 - r) # a
        /\ \A o \in Frame : frame_buffer_start + o # a /\ letter_start + CellOf(o) # a
    BY Places
  <1>3. CASE v = d.palette_data[a]
    BY <1>1, <1>2, <1>3, PaletteForm DEF Written
  <1>4. CASE v # d.palette_data[a]
    <2> DEFINE m == [d EXCEPT !.palette_data[a] = v]
               n == redraw_colours(m, a)
    <2>1. write_byte(d, a, v) = n
      <3>1. write_byte(d, a, v) = IF v = d.palette_data[a] THEN d
                                  ELSE redraw_colours([d EXCEPT !.palette_data[a] = v], a)
        BY PaletteForm, Zenon
      <3>2. QED
        BY <1>4, <3>1, Zenon
    <2>2. PICK f \in [Cell -> Int] : f = [d.palette_data EXCEPT ![a] = v]
      BY <1>1, CrtForms
    <2>3. /\ m \in Crt /\ m.palette_data = f /\ m.letter_data = d.letter_data
          /\ m.font_data = d.font_data /\ m.pixels = d.pixels /\ m.quads = d.quads
      BY <2>2, CrtForms
    <2> HIDE DEF m
    <2>4. f[a] = v /\ v % 16 \in Int /\ (v \div 16) % 16 \in Int
      BY <1>1, <2>2, CrtForms
    <2>5. PICK h \in [Cell -> Int \X Int] : h = [m.quads EXCEPT ![a] = <<v % 16, (v \div 16) % 16>>]
      BY <1>1, <2>3, <2>4, CrtForms
    <2>6. n = [m EXCEPT !.quads = h]
      BY <2>3, <2>4, <2>5 DEF redraw_colours
    <2>7. /\ n \in Crt /\ n.palette_data = f /\ n.letter_data = d.letter_data
          /\ n.font_data = d.font_data /\ n.pixels = d.pixels /\ n.quads = h
      BY <2>3, <2>6, CrtForms
    <2> HIDE DEF n
    <2>8. \A c \in Cell : f[c] = IF c = a THEN v ELSE d.palette_data[c]
      BY <1>1, <2>2, CrtForms
    <2>9. \A c \in Cell : h[c] = IF c = a THEN <<v % 16, (v \div 16) % 16>> ELSE d.quads[c]
      BY <1>1, <2>3, <2>5, CrtForms
    <2>10. QED
      BY <1>2, <1>4, <2>1, <2>7, <2>8, <2>9 DEF Written
  <1>5. QED
    BY <1>3, <1>4

LEMMA WriteLetter ==
    ASSUME NEW d \in Crt, NEW a \in Nat, NEW v \in Glyph, a >= letter_start, a < letter_end
    PROVE  write_byte(d, a, v) \in Crt /\ Written(d, write_byte(d, a, v), a, v)
  <1> DEFINE pos == a - letter_start
             m == [d EXCEPT !.letter_data[pos] = v]
             n == redraw(m, pos)
             column == {((Height - 1 - pos \div Width) * 8 + r) * Width + (pos % Width) : r \in 0 .. 7}
  <1>1. pos \in Cell /\ write_byte(d, a, v) = n
    <2>1. pos \in Cell
      BY Registers
    <2>2. QED
      <3>1. write_byte(d, a, v) = redraw([d EXCEPT !.letter_data[a - letter_start] = v], a - letter_start)
        BY LetterForm, Zenon
      <3>2. QED
        BY <2>1, <3>1, Zenon
  <1>2. /\ \A c \in Cell : c # a
        /\ \A k \in Glyph, r \in 0 .. 7 : font_start + k * 8 + (7 - r) # a
        /\ \A o \in Frame : frame_buffer_start + o # a
    BY Places
  <1>3. /\ \A c \in Cell : letter_start + c = a <=> c = pos
        /\ \A o \in Frame : letter_start + CellOf(o) = a <=> CellOf(o) = pos
    BY Places
  <1> HIDE DEF pos, column
  <1>4. PICK f \in [Cell -> Glyph] : f = [d.letter_data EXCEPT ![pos] = v]
    BY <1>1, CrtForms
  <1>5. /\ m \in Crt /\ m.palette_data = d.palette_data /\ m.letter_data = f
        /\ m.font_data = d.font_data /\ m.pixels = d.pixels /\ m.quads = d.quads
    BY <1>4, CrtForms
  <1> HIDE DEF m
  <1>6. f[pos] = v
    BY <1>1, <1>4, CrtForms
  <1>7. \A i \in Frame : d.font_data[v][(i \div Width) % 8] \in Int
    <2> TAKE i \in Frame
    <2>1. (i \div Width) % 8 \in 0 .. 7
      BY ScreenPlace
    <2>2. QED
      BY <2>1, CrtForms DEF Font
  <1>8. PICK h \in [Frame -> Int] :
            h = [i \in Frame |-> IF i \in column THEN d.font_data[v][(i \div Width) % 8] ELSE d.pixels[i]]
    <2>1. \A i \in Frame : d.pixels[i] \in Int
      BY CrtForms
    <2>2. QED
      BY ONLY <1>7, <2>1
  <1>9. n = [m EXCEPT !.pixels = h]
    <2>1. DOMAIN m.pixels = Frame
      BY <1>5, CrtForms
    <2>2. n = [m EXCEPT !.pixels = [i \in DOMAIN m.pixels |->
                   IF i \in column THEN m.font_data[m.letter_data[pos]][(i \div Width) % 8] ELSE m.pixels[i]]]
      BY Zenon DEF redraw, column
    <2>3. QED
      BY <1>5, <1>6, <1>8, <2>1, <2>2
  <1>10. /\ n \in Crt /\ n.palette_data = d.palette_data /\ n.letter_data = f
         /\ n.font_data = d.font_data /\ n.pixels = h /\ n.quads = d.quads
    BY <1>5, <1>9, CrtForms
  <1> HIDE DEF n
  <1>11. \A c \in Cell : f[c] = IF c = pos THEN v ELSE d.letter_data[c]
    BY <1>1, <1>4, CrtForms
  <1>12. ASSUME NEW o \in Frame
         PROVE  h[cpu_to_screen(o)] = IF CellOf(o) = pos THEN d.font_data[v][7 - RowOf(o)]
                                      ELSE d.pixels[cpu_to_screen(o)]
    <2>1. /\ cpu_to_screen(o) \in column <=> CellOf(o) = pos
          /\ (cpu_to_screen(o) \div Width) % 8 = 7 - RowOf(o)
          /\ cpu_to_screen(o) \in Frame
      <3>1. column = {((Height - 1 - pos \div Width) * 8 + r) * Width + (pos % Width) : r \in 0 .. 7}
        BY DEF column
      <3>2. /\ cpu_to_screen(o) \in column <=> CellOf(o) = pos
            /\ (cpu_to_screen(o) \div Width) % 8 = 7 - RowOf(o)
        BY <1>1, <3>1, CellPlace, Zenon
      <3>3. QED
        BY <3>2, Places
    <2>2. QED
      BY <1>8, <2>1
  <1>13. QED
    BY <1>1, <1>2, <1>3, <1>10, <1>11, <1>12 DEF Written

LEMMA WriteFont ==
    ASSUME NEW d \in Crt, NEW a \in Nat, NEW v \in Glyph, a >= font_start, a < font_end
    PROVE  write_byte(d, a, v) \in Crt /\ Written(d, write_byte(d, a, v), a, v)
  <1>1. PICK pos \in Nat : pos = a - font_start
    BY Places
  <1>2. PICK g \in Glyph, s \in 0 .. 7 : g = pos \div 8 /\ s = 7 - (pos % 8) /\ pos = 8 * g + (7 - s)
    <2>1. pos \div 8 \in Nat /\ pos % 8 \in 0 .. 7 /\ pos = 8 * (pos \div 8) + (pos % 8)
      OBVIOUS
    <2>2. pos < NumGlyphs * 8
      BY <1>1, Registers, DisplaySizes
    <2>3. pos \div 8 < NumGlyphs
      BY <2>1, <2>2, DisplaySizes
    <2>4. 7 - (pos % 8) \in 0 .. 7 /\ pos % 8 = 7 - (7 - (pos % 8))
      BY <2>1
    <2>5. QED
      BY <2>1, <2>3, <2>4, DisplaySizes DEF Glyph
  <1>3. /\ \A c \in Cell : c # a /\ letter_start + c # a
        /\ \A o \in Frame : frame_buffer_start + o # a /\ letter_start + CellOf(o) # a
    BY Places
  <1>4. ASSUME NEW k \in Glyph, NEW r \in 0 .. 7
        PROVE  font_start + k * 8 + (7 - r) = a <=> k = g /\ r = s
    <2>1. font_start \in Nat /\ k \in Nat /\ g \in Nat /\ a = font_start + 8 * g + (7 - s)
      BY <1>1, <1>2, Registers, DisplaySizes DEF Glyph
    <2>2. QED
      BY <2>1
  <1>5. v \in Int
    BY DEF Glyph
  <1>6. CASE ~(g >= NumGlyphs \div 2)
    <2>1. write_byte(d, a, v) = d
      BY <1>1, <1>2, <1>6, FontForm
    <2>2. QED
      BY <1>3, <1>4, <1>6, <2>1 DEF Written
  <1>7. CASE g >= NumGlyphs \div 2
    <2> DEFINE n == [d EXCEPT !.font_data[g][s] = v]
    <2>1. write_byte(d, a, v) = n
      <3>1. g = (a - font_start) \div 8 /\ s = 7 - ((a - font_start) % 8)
        BY <1>1, <1>2
      <3>2. write_byte(d, a, v)
            = [d EXCEPT !.font_data[(a - font_start) \div 8][7 - ((a - font_start) % 8)] = v]
        <4>1. (a - font_start) \div 8 >= NumGlyphs \div 2
          BY <1>7, <3>1, Zenon
        <4>2. write_byte(d, a, v) =
                  IF (a - font_start) \div 8 >= NumGlyphs \div 2
                  THEN [d EXCEPT !.font_data[(a - font_start) \div 8][7 - ((a - font_start) % 8)] = v]
                  ELSE d
          BY FontForm, Zenon
        <4>3. QED
          BY <4>1, <4>2, Zenon
      <3>3. QED
        BY <3>1, <3>2, Zenon
    <2>2. PICK f \in Font : f = [d.font_data EXCEPT ![g][s] = v]
      <3>1. d.font_data[g] \in [0 .. 7 -> Int]
        BY CrtForms DEF Font
      <3>2. [d.font_data[g] EXCEPT ![s] = v] \in [0 .. 7 -> Int]
        BY ONLY <1>5, <3>1, s \in 0 .. 7
      <3>3. d.font_data \in [Glyph -> [0 .. 7 -> Int]]
        BY CrtForms DEF Font
      <3>4. [d.font_data EXCEPT ![g][s] = v] \in [Glyph -> [0 .. 7 -> Int]]
        BY ONLY <3>2, <3>3, g \in Glyph, Zenon
      <3>5. QED
        BY <3>4 DEF Font
    <2>3. /\ n \in Crt /\ n.palette_data = d.palette_data /\ n.letter_data = d.letter_data
          /\ n.font_data = f /\ n.pixels = d.pixels /\ n.quads = d.quads
      BY <2>2, CrtForms
    <2> HIDE DEF n
    <2>4. \A k \in Glyph, r \in 0 .. 7 : f[k][r] = IF k = g /\ r = s THEN v ELSE d.font_data[k][r]
      BY <2>2, CrtForms DEF Font
    <2>5. QED
      BY <1>3, <1>4, <1>7, <2>1, <2>3, <2>4 DEF Written
  <1>8. QED
    BY <1>6, <1>7

LEMMA WriteFrame ==
    ASSUME NEW d \in Crt, NEW a \in Nat, NEW v \in Glyph, InFrame(a)
    PROVE  write_byte(d, a, v) \in Crt /\ Written(d, write_byte(d, a, v), a, v)
  <1>1. PICK u \in Frame : u = a - frame_buffer_start
    BY Registers, DisplaySizes DEF Frame, InFrame
  <1>2. /\ \A c \in Cell : c # a /\ letter_start + c # a
        /\ \A k \in Glyph, r \in 0 .. 7 : font_start + k * 8 + (7 - r) # a
        /\ \A o \in Frame : letter_start + CellOf(o) # a
    BY Places DEF InFrame
  <1>3. \A o \in Frame : frame_buffer_start + o = a <=> o = u
    BY <1>1, Registers, DisplaySizes DEF Frame
  <1> DEFINE n == [d EXCEPT !.pixels[cpu_to_screen(u)] = v]
  <1>4. write_byte(d, a, v) = n
    <2>1. write_byte(d, a, v) = [d EXCEPT !.pixels[cpu_to_screen(a - frame_buffer_start)] = v]
      BY FrameForm, Zenon
    <2>2. QED
      BY <1>1, <2>1, Zenon
  <1>5. PICK f \in [Frame -> Int] : f = [d.pixels EXCEPT ![cpu_to_screen(u)] = v]
    <2>1. v \in Int
      BY DEF Glyph
    <2>2. cpu_to_screen(u) \in Frame /\ d.pixels \in [Frame -> Int]
      BY Places, CrtForms
    <2>3. QED
      BY ONLY <2>1, <2>2
  <1>6. /\ n \in Crt /\ n.palette_data = d.palette_data /\ n.letter_data = d.letter_data
        /\ n.font_data = d.font_data /\ n.pixels = f /\ n.quads = d.quads
    BY <1>5, CrtForms
  <1> HIDE DEF n
  <1>7. \A o \in Frame : f[cpu_to_screen(o)] = IF o = u THEN v ELSE d.pixels[cpu_to_screen(o)]
    BY <1>5, CrtForms, Places, ScreenPlaces
  <1>8. QED
    BY <1>2, <1>3, <1>4, <1>6, <1>7 DEF Written

LEMMA WriteOne ==
    ASSUME NEW d \in Crt, NEW a \in Nat, NEW v \in Glyph
    PROVE  write_byte(d, a, v) \in Crt /\ Written(d, write_byte(d, a, v), a, v)
  <1>1. CASE a >= frame_buffer_end
    <2>1. write_byte(d, a, v) = d
      BY <1>1, BehindForm
    <2>2. /\ \A c \in Cell : c # a /\ letter_start + c # a
          /\ \A k \in Glyph, r \in 0 .. 7 : font_start + k * 8 + (7 - r) # a
          /\ \A o \in Frame : frame_buffer_start + o # a /\ letter_start + CellOf(o) # a
      BY <1>1, Places
    <2>3. QED
      BY <2>1, <2>2 DEF Written
  <1>2. QED
    BY <1>1, WritePalette, WriteLetter, WriteFont, WriteFrame, Places DEF InFrame

-----------------------------------------------------------------------------
(* Display: a byte is shown and read back.                                 *)

LEMMA PictureForms ==
    ASSUME NEW p \in Picture, NEW g \in Glyphs, NEW a \in Nat, NEW v \in Glyph
    PROVE  BytePicture(p, g, a, v) \in Picture /\ ByteGlyphs(g, a, v) \in Glyphs
  <1>1. v \in Int
    BY DEF Glyph
  <1>2. \A k \in Glyph, r \in 1 .. 8 : g[k][r] \in Int
    BY DEF Glyphs
  <1>3. \A o \in Frame : p[o] \in Int
    BY DEF Picture
  <1>4. \A o \in Frame : RowOf(o) + 1 \in 1 .. 8
    <2> TAKE o \in Frame
    <2>1. RowOf(o) \in 0 .. 7
      BY Places
    <2>2. QED
      BY <2>1
  <1>5. BytePicture(p, g, a, v) \in Picture
    BY <1>1, <1>2, <1>3, <1>4 DEF BytePicture, Picture
  <1>6. ByteGlyphs(g, a, v) \in Glyphs
    <2> DEFINE row(k) == [r \in 1 .. 8 |->
                  IF font_start + k * 8 + r - 1 = a /\ k >= NumGlyphs \div 2 THEN v ELSE g[k][r]]
    <2>1. \A k \in Glyph : row(k) \in [1 .. 8 -> Int]
      BY <1>1, <1>2
    <2>2. ByteGlyphs(g, a, v) = [k \in Glyph |-> row(k)]
      BY DEF ByteGlyphs
    <2> HIDE DEF row
    <2>3. QED
      BY <2>1, <2>2 DEF Glyphs
  <1>7. QED
    BY <1>5, <1>6

LEMMA ByteShows ==
    ASSUME NEW d \in Crt, NEW p \in Picture, NEW g \in Glyphs, Shows(d, p, g),
           NEW a \in Nat, NEW v \in Glyph
    PROVE  Shows(write_byte(d, a, v), BytePicture(p, g, a, v), ByteGlyphs(g, a, v))
  <1>1. PICK n : n = write_byte(d, a, v) /\ n \in Crt /\ Written(d, n, a, v)
    BY WriteOne
  <1>2. PICK q : q = BytePicture(p, g, a, v)
    OBVIOUS
  <1>3. PICK h : h = ByteGlyphs(g, a, v)
    OBVIOUS
  <1>4. ASSUME NEW o \in Frame PROVE n.pixels[cpu_to_screen(o)] = q[o]
    <2>1. q[o] = IF frame_buffer_start + o = a THEN v
                 ELSE IF letter_start + CellOf(o) = a THEN g[v][RowOf(o) + 1] ELSE p[o]
      BY <1>2 DEF BytePicture
    <2>2. RowOf(o) \in 0 .. 7 /\ 7 - RowOf(o) \in 0 .. 7 /\ 8 - (7 - RowOf(o)) = RowOf(o) + 1
      <3>1. RowOf(o) \in 0 .. 7
        BY Places
      <3>2. QED
        BY <3>1
    <2>3. d.font_data[v][7 - RowOf(o)] = g[v][8 - (7 - RowOf(o))]
      BY <2>2 DEF Shows
    <2>4. d.pixels[cpu_to_screen(o)] = p[o]
      BY DEF Shows
    <2>5. n.pixels[cpu_to_screen(o)] = IF frame_buffer_start + o = a THEN v
                                       ELSE IF letter_start + CellOf(o) = a
                                       THEN d.font_data[v][7 - RowOf(o)]
                                       ELSE d.pixels[cpu_to_screen(o)]
      BY <1>1 DEF Written
    <2>6. QED
      BY <2>1, <2>2, <2>3, <2>4, <2>5
  <1>5. ASSUME NEW k \in Glyph, NEW r \in 0 .. 7 PROVE n.font_data[k][r] = h[k][8 - r]
    <2>1. 8 - r \in 1 .. 8 /\ (font_start + k * 8 + (8 - r) - 1 = a <=> font_start + k * 8 + (7 - r) = a)
      BY Bounds, DisplaySizes DEF Glyph
    <2>2. h[k][8 - r] = IF font_start + k * 8 + (8 - r) - 1 = a /\ k >= NumGlyphs \div 2 THEN v
                        ELSE g[k][8 - r]
      BY <1>3, <2>1 DEF ByteGlyphs
    <2>3. d.font_data[k][r] = g[k][8 - r]
      BY DEF Shows
    <2>4. n.font_data[k][r] = IF font_start + k * 8 + (7 - r) = a /\ k >= NumGlyphs \div 2 THEN v
                              ELSE d.font_data[k][r]
      BY <1>1 DEF Written
    <2>5. QED
      BY <2>1, <2>2, <2>3, <2>4
  <1>6. ASSUME NEW c \in Cell
        PROVE  n.quads[c] = <<n.palette_data[c] % 16, (n.palette_data[c] \div 16) % 16>>
    <2>1. d.quads[c] = <<d.palette_data[c] % 16, (d.palette_data[c] \div 16) % 16>>
      BY DEF Shows
    <2>2. /\ n.palette_data[c] = IF c = a THEN v ELSE d.palette_data[c]
          /\ n.quads[c] = IF c = a /\ v # d.palette_data[c] THEN <<v % 16, (v \div 16) % 16>>
                          ELSE d.quads[c]
      BY <1>1 DEF Written
    <2>3. QED
      BY <2>1, <2>2
  <1>7. Shows(n, q, h)
    BY <1>4, <1>5, <1>6 DEF Shows
  <1>8. QED
    BY <1>1, <1>2, <1>3, <1>7

\* The registers that read as they were written: all but the font.
Kept(b) == b < letter_end \/ InFrame(b)

\* A byte reads back, and only the write of a letter changes another, in the
\* frame buffer.
LEMMA ByteReads ==
    ASSUME NEW d \in Crt, NEW a \in Nat, NEW v \in Glyph, NEW b \in Nat, Kept(b),
           ~(InFrame(b) /\ a >= letter_start /\ a < letter_end)
    PROVE  read_byte(write_byte(d, a, v), b) = IF b = a THEN v ELSE read_byte(d, b)
  <1>1. PICK n : n = write_byte(d, a, v) /\ n \in Crt /\ Written(d, n, a, v)
    BY WriteOne
  <1>2. CASE b < letter_start
    <2>1. b \in Cell
      BY <1>2, Registers
    <2>2. n.palette_data[b] = IF b = a THEN v ELSE d.palette_data[b]
      BY <1>1, <2>1 DEF Written
    <2>3. read_byte(n, b) = n.palette_data[b] /\ read_byte(d, b) = d.palette_data[b]
      BY <1>2, ReadForms
    <2>4. QED
      BY <1>1, <2>2, <2>3
  <1>3. CASE b >= letter_start /\ b < letter_end
    <2>1. PICK c \in Cell : c = b - letter_start /\ letter_start + c = b
      BY <1>3, Registers
    <2>2. n.letter_data[c] = IF b = a THEN v ELSE d.letter_data[c]
      BY <1>1, <2>1 DEF Written
    <2>3. read_byte(n, b) = n.letter_data[c] /\ read_byte(d, b) = d.letter_data[c]
      BY <1>3, <2>1, ReadForms
    <2>4. QED
      BY <1>1, <2>2, <2>3
  <1>4. CASE InFrame(b)
    <2>1. PICK o \in Frame : o = b - frame_buffer_start /\ frame_buffer_start + o = b
      BY <1>4, Registers, DisplaySizes DEF InFrame, Frame
    <2>2. letter_start + CellOf(o) # a
      BY <1>4, Places
    <2>3. n.pixels[cpu_to_screen(o)] = IF b = a THEN v ELSE d.pixels[cpu_to_screen(o)]
      BY <1>1, <2>1, <2>2 DEF Written
    <2>4. read_byte(n, b) = n.pixels[cpu_to_screen(o)] /\ read_byte(d, b) = d.pixels[cpu_to_screen(o)]
      BY <1>4, <2>1, ReadForms
    <2>5. QED
      BY <1>1, <2>3, <2>4
  <1>5. QED
    BY <1>2, <1>3, <1>4, Bounds DEF Kept

\* The four bytes of an aligned word of the frame buffer are four bytes of the
\* screen, in order.
LEMMA ScreenWord ==
    ASSUME NEW a \in Nat, a % 4 = 0, InFrame(a)
    PROVE  LET k == cpu_to_screen(a - frame_buffer_start) \div 4
           IN  /\ k \in Nat
               /\ \A i \in 1 .. 4 :
                     /\ InFrame(a + i - 1) /\ a + i - 1 - frame_buffer_start \in Frame
                     /\ cpu_to_screen(a + i - 1 - frame_buffer_start) = 4 * k + i - 1
  <1>1. PICK w \in Nat : w = Width /\ w >= 1 /\ w % 4 = 0
    BY DisplaySizes
  <1>2. PICK size \in Nat : size = Width * Height * 8 /\ size % 4 = 0
    BY DisplaySizes
  <1>3. PICK o \in Nat : o = a - frame_buffer_start /\ o % 4 = 0 /\ o + 3 < size
    <2>1. PICK f \in Nat : f = frame_buffer_start /\ f % 4 = 0 /\ frame_buffer_end = f + size
      BY <1>2, Registers
    <2>2. a >= f /\ a < f + size /\ a % 4 = 0
      BY <2>1 DEF InFrame
    <2>3. (a - f) % 4 = 0 /\ a - f \in Nat /\ a - f < size
      BY <2>1, <2>2
    <2>4. a - f + 3 < size
      BY <1>2, <2>3
    <2>5. QED
      BY <2>1, <2>3, <2>4
  <1>4. \A i \in 1 .. 4 : o + i - 1 \in Frame /\ a + i - 1 - frame_buffer_start = o + i - 1
                          /\ InFrame(a + i - 1)
    <2>1. PICK f \in Nat : f = frame_buffer_start /\ frame_buffer_end = f + size /\ a = f + o
      <3>1. frame_buffer_start \in Nat /\ frame_buffer_end = frame_buffer_start + Width * Height * 8
        BY Registers
      <3>2. QED
        BY ONLY <1>2, <1>3, <3>1, a \in Nat
    <2> TAKE i \in 1 .. 4
    <2>2. /\ o + i - 1 \in 0 .. size - 1 /\ a + i - 1 - f = o + i - 1
          /\ a + i - 1 >= f /\ a + i - 1 < f + size
      BY ONLY <1>3, <2>1, i \in 1 .. 4, size \in Nat, f \in Nat, o \in Nat
    <2>3. QED
      BY <1>2, <2>1, <2>2 DEF Frame, InFrame
  <1>5. o \in Frame
    BY <1>2, <1>3 DEF Frame
  <1>6. PICK q \in Nat, r \in 0 .. w - 1 :
            q = o \div w /\ r = o % w /\ o = w * q + r /\ q <= 8 * Height - 1
    BY <1>1, <1>5, ScreenPlace
  <1>7. PICK w4 \in Nat : w = 4 * w4
    <2>1. w = 4 * (w \div 4) + 0 /\ w \div 4 \in Nat
      BY <1>1
    <2>2. QED
      BY <2>1
  <1>8. r % 4 = 0 /\ r + 3 < w
    <2>1. w * q = 4 * (w4 * q) /\ w4 * q \in Nat
      BY <1>7
    <2>2. r % 4 = 0
      BY <1>3, <1>6, <2>1
    <2>3. QED
      BY <1>1, <1>6, <2>2
  <1>9. \A i \in 1 .. 4 : (o + i - 1) \div w = q /\ (o + i - 1) % w = r + i - 1
    <2> TAKE i \in 1 .. 4
    <2>1. r + i - 1 \in 0 .. w - 1 /\ o + i - 1 \in Nat
      BY <1>1, <1>6, <1>8
    <2>2. o + i - 1 = w * q + (r + i - 1)
      <3>1. w * q \in Nat
        BY <1>1
      <3>2. QED
        BY <1>6, <3>1
    <2>3. QED
      BY <1>1, <2>1, <2>2, Divided
  <1>10. PICK y \in Nat : y = 8 * Height - 1 - q
    BY <1>6, DisplaySizes
  <1>11. \A i \in 1 .. 4 : cpu_to_screen(o + i - 1) = w * y + r + i - 1
    <2> TAKE i \in 1 .. 4
    <2>1. cpu_to_screen(o + i - 1) = w * y + (r + i - 1)
      BY <1>1, <1>4, <1>9, <1>10, ScreenPlace
    <2>2. w * y \in Nat
      BY <1>1
    <2>3. QED
      BY <1>6, <2>1, <2>2
  <1>12. PICK k \in Nat : w * y + r = 4 * k
    <2>1. r = 4 * (r \div 4) /\ r \div 4 \in Nat
      BY <1>6, <1>8
    <2>2. w * y = 4 * (w4 * y) /\ w4 * y \in Nat
      BY <1>7
    <2>3. w * y + r = 4 * (w4 * y + (r \div 4)) /\ w4 * y + (r \div 4) \in Nat
      BY <2>1, <2>2
    <2>4. QED
      BY <2>3
  <1>13. \A i \in 1 .. 4 : cpu_to_screen(o + i - 1) = 4 * k + i - 1
    BY <1>11, <1>12
  <1>14. cpu_to_screen(o) \div 4 = k
    <2>1. cpu_to_screen(o) = 4 * k
      <3>1. o + 1 - 1 = o /\ 1 \in 1 .. 4 /\ 4 * k + 1 - 1 = 4 * k
        BY <1>3
      <3>2. QED
        BY <1>13, <3>1
    <2>2. QED
      BY <2>1
  <1>15. QED
    BY <1>3, <1>4, <1>13, <1>14

\* A byte reads the same within its aligned word.
LEMMA WordReads ==
    ASSUME NEW d \in Crt, NEW b \in Nat, Kept(b)
    PROVE  read_word(d, b - (b % 4))[(b % 4) + 1] = read_byte(d, b)
  <1>1. PICK a \in Nat, i \in 1 .. 4 : a = b - (b % 4) /\ i = (b % 4) + 1 /\ a % 4 = 0 /\ a + i - 1 = b
    <2>1. b % 4 \in 0 .. 3 /\ b - (b % 4) \in Nat /\ (b - (b % 4)) % 4 = 0
      OBVIOUS
    <2>2. QED
      BY <2>1
  <1>2. CASE InFrame(a)
    <2>0. PICK k \in Nat : k = cpu_to_screen(a - frame_buffer_start) \div 4
      BY <1>1, <1>2, ScreenWord, Zenon
    <2>1. /\ InFrame(b) /\ cpu_to_screen(b - frame_buffer_start) = 4 * k + i - 1
      <3>1. InFrame(a + i - 1) /\ cpu_to_screen(a + i - 1 - frame_buffer_start) = 4 * k + i - 1
        BY <1>1, <1>2, <2>0, ScreenWord, Zenon
      <3>2. a + i - 1 = b
        BY <1>1
      <3>3. frame_buffer_start \in Nat
        BY Registers
      <3>4. QED
        BY <3>1, <3>2, <3>3
    <2>2. read_word(d, a) = [j \in 1 .. 4 |-> d.pixels[4 * k + j - 1]]
      BY <1>1, <1>2, <2>0, Zenon DEF read_word
    <2>3. read_word(d, a)[i] = d.pixels[4 * k + i - 1]
      BY <2>2
    <2>4. read_byte(d, b) = d.pixels[cpu_to_screen(b - frame_buffer_start)]
      BY <2>1, ReadForms
    <2>5. QED
      BY <1>1, <2>1, <2>3, <2>4
  <1>3. CASE ~InFrame(a)
    <2>1. read_word(d, a) = [j \in 1 .. 4 |-> read_byte(d, a + j - 1)]
      BY <1>3, Zenon DEF read_word
    <2>2. QED
      BY <1>1, <2>1
  <1>4. QED
    BY <1>2, <1>3

-----------------------------------------------------------------------------
(* Display: the write of a word.                                           *)

LEMMA JustWritten ==
    ASSUME NEW d \in Crt, NEW b \in Nat, NEW v \in Glyph, Kept(b)
    PROVE  read_byte(write_byte(d, b, v), b) = v
  <1>1. ~(InFrame(b) /\ b >= letter_start /\ b < letter_end)
    BY Bounds DEF InFrame
  <1>2. QED
    BY <1>1, ByteReads

\* A write behind a byte leaves it as it reads.
LEMMA WrittenBehind ==
    ASSUME NEW d \in Crt, NEW b \in Nat, NEW c \in Nat, b < c, NEW v \in Glyph, Kept(b)
    PROVE  read_byte(write_byte(d, c, v), b) = read_byte(d, b)
  <1>1. ~(InFrame(b) /\ c >= letter_start /\ c < letter_end) /\ b # c
    BY Bounds DEF InFrame
  <1>2. QED
    BY <1>1, ByteReads

\* Four bytes one after the other.
FourGlyphs(g, a, v) ==
    ByteGlyphs(ByteGlyphs(ByteGlyphs(ByteGlyphs(g, a, v[1]), a + 1, v[2]), a + 2, v[3]), a + 3, v[4])

FourPicture(p, g, a, v) ==
    LET g1 == ByteGlyphs(g, a, v[1])
        g2 == ByteGlyphs(g1, a + 1, v[2])
        g3 == ByteGlyphs(g2, a + 2, v[3])
        p1 == BytePicture(p, g, a, v[1])
        p2 == BytePicture(p1, g1, a + 1, v[2])
        p3 == BytePicture(p2, g2, a + 2, v[3])
    IN  BytePicture(p3, g3, a + 3, v[4])

\* The font that a letter is drawn from is the font as it was, since no letter
\* lies behind the font.
LEMMA FourBytes ==
    ASSUME NEW p \in Picture, NEW g \in Glyphs, NEW a \in Nat, NEW v \in [1 .. 4 -> Glyph],
           NEW g4, g4 = FourGlyphs(g, a, v), NEW p4, p4 = FourPicture(p, g, a, v)
    PROVE  /\ \A k \in Glyph, r \in 1 .. 8 :
                 LET x == font_start + k * 8 + r - 1
                 IN  g4[k][r] = IF x \in a .. a + 3 /\ k >= NumGlyphs \div 2 THEN v[x - a + 1]
                                ELSE g[k][r]
           /\ \A o \in Frame :
                 LET f == frame_buffer_start + o
                     l == letter_start + CellOf(o)
                 IN  p4[o] = IF f \in a .. a + 3 THEN v[f - a + 1]
                             ELSE IF l \in a .. a + 3 THEN g[v[l - a + 1]][RowOf(o) + 1]
                             ELSE p[o]
  <1>0. PICK g1, g2, g3, p1, p2, p3 :
            /\ g1 = ByteGlyphs(g, a, v[1]) /\ g2 = ByteGlyphs(g1, a + 1, v[2])
            /\ g3 = ByteGlyphs(g2, a + 2, v[3]) /\ g4 = ByteGlyphs(g3, a + 3, v[4])
            /\ p1 = BytePicture(p, g, a, v[1]) /\ p2 = BytePicture(p1, g1, a + 1, v[2])
            /\ p3 = BytePicture(p2, g2, a + 2, v[3]) /\ p4 = BytePicture(p3, g3, a + 3, v[4])
    BY Zenon DEF FourGlyphs, FourPicture
  <1>1. ASSUME NEW k \in Glyph, NEW r \in 1 .. 8, NEW x \in Nat, x = font_start + k * 8 + r - 1
        PROVE  /\ g1[k][r] = IF x = a /\ k >= NumGlyphs \div 2 THEN v[1] ELSE g[k][r]
               /\ g2[k][r] = IF x = a + 1 /\ k >= NumGlyphs \div 2 THEN v[2] ELSE g1[k][r]
               /\ g3[k][r] = IF x = a + 2 /\ k >= NumGlyphs \div 2 THEN v[3] ELSE g2[k][r]
               /\ g4[k][r] = IF x = a + 3 /\ k >= NumGlyphs \div 2 THEN v[4] ELSE g3[k][r]
    <2>1. /\ g1 = ByteGlyphs(g, a, v[1]) /\ g2 = ByteGlyphs(g1, a + 1, v[2])
          /\ g3 = ByteGlyphs(g2, a + 2, v[3]) /\ g4 = ByteGlyphs(g3, a + 3, v[4])
      BY <1>0
    <2>2. QED
      BY ONLY <1>1, <2>1, k \in Glyph, r \in 1 .. 8 DEF ByteGlyphs
  <1>2. ASSUME NEW k \in Glyph, NEW r \in 1 .. 8, NEW x \in Nat, x = font_start + k * 8 + r - 1
        PROVE  g4[k][r] = IF x \in a .. a + 3 /\ k >= NumGlyphs \div 2 THEN v[x - a + 1] ELSE g[k][r]
    <2>1. CASE x \in a .. a + 3
      <3>1. \/ x = a /\ x - a + 1 = 1
            \/ x = a + 1 /\ x - a + 1 = 2
            \/ x = a + 2 /\ x - a + 1 = 3
            \/ x = a + 3 /\ x - a + 1 = 4
        BY <2>1
      <3>2. a # a + 1 /\ a # a + 2 /\ a # a + 3 /\ a + 1 # a + 2 /\ a + 1 # a + 3 /\ a + 2 # a + 3
        OBVIOUS
      <3>3. QED
        BY <1>1, <1>2, <2>1, <3>1, <3>2
    <2>2. CASE x \notin a .. a + 3
      <3>1. x # a /\ x # a + 1 /\ x # a + 2 /\ x # a + 3
        BY <2>2
      <3>2. QED
        BY <1>1, <1>2, <2>2, <3>1
    <2>3. QED
      BY <2>1, <2>2
  <1>3. \A k \in Glyph, r \in 1 .. 8 : font_start + k * 8 + r - 1 \in Nat /\ font_start + k * 8 + r - 1 >= letter_end
    BY Registers, DisplaySizes DEF Glyph
  <1>4. /\ a + 1 <= letter_end => \A k \in Glyph, r \in 1 .. 8 : g1[k][r] = g[k][r]
        /\ a + 2 <= letter_end => \A k \in Glyph, r \in 1 .. 8 : g2[k][r] = g[k][r]
        /\ a + 3 <= letter_end => \A k \in Glyph, r \in 1 .. 8 : g3[k][r] = g[k][r]
    <2> SUFFICES ASSUME NEW k \in Glyph, NEW r \in 1 .. 8
                 PROVE  /\ a + 1 <= letter_end => g1[k][r] = g[k][r]
                        /\ a + 2 <= letter_end => g2[k][r] = g[k][r]
                        /\ a + 3 <= letter_end => g3[k][r] = g[k][r]
      OBVIOUS
    <2>1. PICK x \in Nat : x = font_start + k * 8 + r - 1 /\ x >= letter_end
      BY <1>3
    <2>2. letter_end \in Nat
      BY Bounds
    <2>3. QED
      BY <1>1, <2>1, <2>2
  <1>5. ASSUME NEW o \in Frame, NEW f \in Nat, f = frame_buffer_start + o,
               NEW l \in Nat, l = letter_start + CellOf(o)
        PROVE  p4[o] = IF f \in a .. a + 3 THEN v[f - a + 1]
                       ELSE IF l \in a .. a + 3 THEN g[v[l - a + 1]][RowOf(o) + 1]
                       ELSE p[o]
    <2>1. PICK row \in 1 .. 8 : row = RowOf(o) + 1
      <3>1. RowOf(o) \in 0 .. 7
        BY Places
      <3>2. QED
        BY <3>1
    <2>2. /\ p1[o] = IF f = a THEN v[1] ELSE IF l = a THEN g[v[1]][row] ELSE p[o]
          /\ p2[o] = IF f = a + 1 THEN v[2] ELSE IF l = a + 1 THEN g1[v[2]][row] ELSE p1[o]
          /\ p3[o] = IF f = a + 2 THEN v[3] ELSE IF l = a + 2 THEN g2[v[3]][row] ELSE p2[o]
          /\ p4[o] = IF f = a + 3 THEN v[4] ELSE IF l = a + 3 THEN g3[v[4]][row] ELSE p3[o]
      BY <1>0, <1>5, <2>1 DEF BytePicture
    <2>3. l < letter_end /\ f >= letter_end + 8 /\ letter_end \in Nat
      <3>1. l < letter_end /\ letter_end \in Nat
        BY <1>5, Places
      <3>2. o \in Nat /\ frame_buffer_start \in Nat /\ frame_buffer_start >= letter_end + 8
        BY Registers, ScreenPlace
      <3>3. QED
        BY ONLY <1>5, <3>1, <3>2
    <2>4. /\ l = a + 1 => g1[v[2]][row] = g[v[2]][row]
          /\ l = a + 2 => g2[v[3]][row] = g[v[3]][row]
          /\ l = a + 3 => g3[v[4]][row] = g[v[4]][row]
      <3>1. v[2] \in Glyph /\ v[3] \in Glyph /\ v[4] \in Glyph
        OBVIOUS
      <3>2. /\ l = a + 1 => a + 1 <= letter_end
            /\ l = a + 2 => a + 2 <= letter_end
            /\ l = a + 3 => a + 3 <= letter_end
        BY <2>3
      <3>3. QED
        BY <1>4, <3>1, <3>2
    <2>5. CASE f \in a .. a + 3
      <3>1. \/ f = a /\ f - a + 1 = 1
            \/ f = a + 1 /\ f - a + 1 = 2
            \/ f = a + 2 /\ f - a + 1 = 3
            \/ f = a + 3 /\ f - a + 1 = 4
        BY <2>5
      <3>2. l # a /\ l # a + 1 /\ l # a + 2 /\ l # a + 3
        BY <2>3, <2>5
      <3>3. QED
        BY <2>2, <2>5, <3>1, <3>2
    <2>6. CASE f \notin a .. a + 3 /\ l \in a .. a + 3
      <3>1. \/ l = a /\ l - a + 1 = 1
            \/ l = a + 1 /\ l - a + 1 = 2
            \/ l = a + 2 /\ l - a + 1 = 3
            \/ l = a + 3 /\ l - a + 1 = 4
        BY <2>6
      <3>2. f # a /\ f # a + 1 /\ f # a + 2 /\ f # a + 3
        BY <2>6
      <3>3. QED
        BY <2>1, <2>2, <2>4, <2>6, <3>1, <3>2
    <2>7. CASE f \notin a .. a + 3 /\ l \notin a .. a + 3
      <3>1. f # a /\ f # a + 1 /\ f # a + 2 /\ f # a + 3 /\ l # a /\ l # a + 1 /\ l # a + 2 /\ l # a + 3
        BY <2>7
      <3>2. QED
        BY <2>2, <2>7, <3>1
    <2>8. QED
      BY <2>5, <2>6, <2>7
  <1>6. \A o \in Frame : frame_buffer_start + o \in Nat /\ letter_start + CellOf(o) \in Nat
    BY Places, Bounds DEF Frame
  <1>7. QED
    BY <1>2, <1>3, <1>5, <1>6

\* What the guest thinks of after a write, byte by byte.
LEMMA RecordedByte ==
    ASSUME NEW a \in Nat, NEW v \in Glyph, picture \in Picture, Recorded(a, <<v>>)
    PROVE  /\ glyphs' = ByteGlyphs(glyphs, a, v) /\ picture' = BytePicture(picture, glyphs, a, v)
           /\ last' = [addr |-> a, bytes |-> <<v>>]
  <1> DEFINE at == [b \in a .. a + Len(<<v>>) - 1 |-> <<v>>[b - a + 1]]
  <1>1. DOMAIN at = {a} /\ at[a] = v
    <2>1. Len(<<v>>) = 1 /\ a + 1 - 1 = a /\ a - a + 1 = 1 /\ <<v>>[1] = v
      OBVIOUS
    <2>2. a .. a = {a}
      OBVIOUS
    <2>3. a .. a + Len(<<v>>) - 1 = {a}
      BY <2>1, <2>2
    <2>4. at = [b \in {a} |-> <<v>>[b - a + 1]]
      BY <2>3, Zenon
    <2>5. QED
      BY <2>1, <2>4
  <1>2. ~(Len(<<v>>) = 4 /\ a = letter_end)
    OBVIOUS
  <1>3. glyphs' = [g \in Glyph |-> [r \in 1 .. 8 |->
                      IF font_start + g * 8 + r - 1 \in DOMAIN at /\ g >= NumGlyphs \div 2
                         /\ ~(Len(<<v>>) = 4 /\ a = letter_end)
                      THEN at[font_start + g * 8 + r - 1] ELSE glyphs[g][r]]]
    BY Zenon DEF Recorded
  <1>4. picture' = [o \in DOMAIN picture |->
                      IF frame_buffer_start + o \in DOMAIN at THEN at[frame_buffer_start + o]
                      ELSE IF letter_start + CellOf(o) \in DOMAIN at
                      THEN glyphs[at[letter_start + CellOf(o)]][RowOf(o) + 1]
                      ELSE picture[o]]
    BY Zenon DEF Recorded
  <1>5. last' = [addr |-> a, bytes |-> <<v>>]
    BY Zenon DEF Recorded
  <1>6. DOMAIN picture = Frame
    BY DEF Picture
  <1> HIDE DEF at
  <1>7. glyphs' = ByteGlyphs(glyphs, a, v)
    BY <1>1, <1>2, <1>3 DEF ByteGlyphs
  <1>8. picture' = BytePicture(picture, glyphs, a, v)
    BY <1>1, <1>4, <1>6 DEF BytePicture
  <1>9. QED
    BY <1>5, <1>7, <1>8

LEMMA RecordedWord ==
    ASSUME NEW a \in Nat, NEW v \in [1 .. 4 -> Glyph], picture \in Picture, Recorded(a, v)
    PROVE  /\ glyphs' = [k \in Glyph |-> [r \in 1 .. 8 |-> glyphs'[k][r]]]
           /\ \A k \in Glyph, r \in 1 .. 8 :
                 LET x == font_start + k * 8 + r - 1
                 IN  glyphs'[k][r] = IF x \in a .. a + 3 /\ k >= NumGlyphs \div 2 /\ a # letter_end
                                     THEN v[x - a + 1] ELSE glyphs[k][r]
           /\ picture' = [o \in Frame |-> picture'[o]]
           /\ \A o \in Frame :
                 LET f == frame_buffer_start + o
                     l == letter_start + CellOf(o)
                 IN  picture'[o] = IF f \in a .. a + 3 THEN v[f - a + 1]
                                   ELSE IF l \in a .. a + 3 THEN glyphs[v[l - a + 1]][RowOf(o) + 1]
                                   ELSE picture[o]
           /\ last' = [addr |-> a, bytes |-> v]
  <1> DEFINE at == [b \in a .. a + Len(v) - 1 |-> v[b - a + 1]]
  <1>1. Len(v) = 4
    <2>1. v \in Seq(Glyph) /\ DOMAIN v = 1 .. 4
      BY SeqDef
    <2>2. QED
      BY <2>1, LenProperties
  <1>2. DOMAIN at = a .. a + 3 /\ \A b \in a .. a + 3 : at[b] = v[b - a + 1]
    <2>1. a .. a + Len(v) - 1 = a .. a + 3
      BY <1>1
    <2>2. at = [b \in a .. a + 3 |-> v[b - a + 1]]
      BY <2>1, Zenon
    <2>3. QED
      BY <2>2, Zenon
  <1>3. glyphs' = [g \in Glyph |-> [r \in 1 .. 8 |->
                      IF font_start + g * 8 + r - 1 \in DOMAIN at /\ g >= NumGlyphs \div 2
                         /\ ~(Len(v) = 4 /\ a = letter_end)
                      THEN at[font_start + g * 8 + r - 1] ELSE glyphs[g][r]]]
    BY Zenon DEF Recorded
  <1>4. picture' = [o \in DOMAIN picture |->
                      IF frame_buffer_start + o \in DOMAIN at THEN at[frame_buffer_start + o]
                      ELSE IF letter_start + CellOf(o) \in DOMAIN at
                      THEN glyphs[at[letter_start + CellOf(o)]][RowOf(o) + 1]
                      ELSE picture[o]]
    BY Zenon DEF Recorded
  <1>5. last' = [addr |-> a, bytes |-> v]
    BY Zenon DEF Recorded
  <1>6. DOMAIN picture = Frame
    BY DEF Picture
  <1> HIDE DEF at
  <1>7. ~(Len(v) = 4 /\ a = letter_end) <=> a # letter_end
    BY <1>1
  <1>8. glyphs' = [k \in Glyph |-> [r \in 1 .. 8 |-> glyphs'[k][r]]]
    <2> DEFINE row(g) == [r \in 1 .. 8 |->
                      IF font_start + g * 8 + r - 1 \in DOMAIN at /\ g >= NumGlyphs \div 2
                         /\ ~(Len(v) = 4 /\ a = letter_end)
                      THEN at[font_start + g * 8 + r - 1] ELSE glyphs[g][r]]
    <2>1. \A g \in Glyph : row(g) = [r \in 1 .. 8 |-> row(g)[r]]
      OBVIOUS
    <2>2. glyphs' = [g \in Glyph |-> row(g)]
      BY ONLY <1>3, Zenon
    <2> HIDE DEF row
    <2>3. QED
      BY <2>1, <2>2
  <1>9. ASSUME NEW k \in Glyph, NEW r \in 1 .. 8, NEW x, x = font_start + k * 8 + r - 1
        PROVE  glyphs'[k][r] = IF x \in a .. a + 3 /\ k >= NumGlyphs \div 2 /\ a # letter_end
                               THEN v[x - a + 1] ELSE glyphs[k][r]
    <2>1. glyphs'[k][r] = IF x \in DOMAIN at /\ k >= NumGlyphs \div 2
                             /\ ~(Len(v) = 4 /\ a = letter_end)
                          THEN at[x] ELSE glyphs[k][r]
      BY ONLY <1>3, <1>9
    <2>2. QED
      BY ONLY <1>2, <1>7, <2>1
  <1>10. picture' = [o \in Frame |-> picture'[o]]
    BY ONLY <1>4, <1>6
  <1>11. ASSUME NEW o \in Frame, NEW f, f = frame_buffer_start + o, NEW l, l = letter_start + CellOf(o)
         PROVE  picture'[o] = IF f \in a .. a + 3 THEN v[f - a + 1]
                              ELSE IF l \in a .. a + 3 THEN glyphs[v[l - a + 1]][RowOf(o) + 1]
                              ELSE picture[o]
    <2>1. picture'[o] = IF f \in DOMAIN at THEN at[f]
                        ELSE IF l \in DOMAIN at THEN glyphs[at[l]][RowOf(o) + 1]
                        ELSE picture[o]
      BY ONLY <1>4, <1>6, <1>11
    <2>2. QED
      BY ONLY <1>2, <2>1
  <1>12. QED
    BY <1>5, <1>8, <1>9, <1>10, <1>11

\* The bytes of an aligned word of the frame buffer, and no others, are those
\* of the word of the screen.
LEMMA WordPlace ==
    ASSUME NEW a \in Nat, a % 4 = 0, InFrame(a), NEW k \in Nat,
           k = cpu_to_screen(a - frame_buffer_start) \div 4,
           NEW o \in Frame, NEW f \in Nat, f = frame_buffer_start + o
    PROVE  /\ cpu_to_screen(o) \div 4 = k <=> f \in a .. a + 3
           /\ f \in a .. a + 3 => (cpu_to_screen(o) % 4) + 1 = f - a + 1
  <1>1. \A i \in 1 .. 4 : /\ a + i - 1 - frame_buffer_start \in Frame
                          /\ cpu_to_screen(a + i - 1 - frame_buffer_start) = 4 * k + i - 1
    BY ScreenWord, Zenon
  <1>2. PICK s \in Nat : s = frame_buffer_start
    BY Registers
  <1>3. o \in Nat /\ cpu_to_screen(o) \in Nat
    BY ScreenPlace, DisplaySizes DEF Frame
  <1>4. ASSUME f \in a .. a + 3
        PROVE  cpu_to_screen(o) \div 4 = k /\ (cpu_to_screen(o) % 4) + 1 = f - a + 1
    <2>1. PICK i \in 1 .. 4 : i = f - a + 1
      BY <1>4
    <2>2. a + i - 1 - s = o
      BY <1>2, <1>3, <2>1
    <2>3. cpu_to_screen(o) = 4 * k + i - 1
      BY <1>1, <1>2, <2>2
    <2>4. (4 * k + i - 1) \div 4 = k /\ (4 * k + i - 1) % 4 = i - 1
      OBVIOUS
    <2>5. QED
      BY <2>1, <2>3, <2>4
  <1>5. ASSUME cpu_to_screen(o) \div 4 = k PROVE f \in a .. a + 3
    <2>1. PICK c \in Nat : c = cpu_to_screen(o)
      BY <1>3
    <2>2. PICK i \in 1 .. 4 : c = 4 * k + i - 1
      <3>1. c = 4 * k + ((c % 4) + 1) - 1 /\ (c % 4) + 1 \in 1 .. 4
        BY <1>5, <2>1
      <3>2. QED
        BY <3>1
    <2>3. a + i - 1 - s = o
      BY <1>1, <1>2, <2>1, <2>2, ScreenPlaces
    <2>4. QED
      BY <1>2, <1>3, <2>3
  <1>6. QED
    BY <1>4, <1>5

\* Four bytes at once.
WholeWord(d, k, v) ==
    [d EXCEPT !.pixels = [j \in DOMAIN @ |-> IF j \div 4 = k THEN v[(j % 4) + 1] ELSE @[j]]]

\* The display n is d with four bytes of its pixels replaced.
HasWord(n, d, k, v) ==
    /\ n \in Crt /\ n.palette_data = d.palette_data /\ n.letter_data = d.letter_data
    /\ n.font_data = d.font_data /\ n.quads = d.quads
    /\ \A j \in Frame : n.pixels[j] = IF j \div 4 = k THEN v[(j % 4) + 1] ELSE d.pixels[j]

LEMMA WholeWordForms ==
    ASSUME NEW d \in Crt, NEW k \in Nat, NEW v \in [1 .. 4 -> Glyph],
           NEW n, n = WholeWord(d, k, v)
    PROVE  HasWord(n, d, k, v)
  <1> DEFINE f == [j \in DOMAIN d.pixels |-> IF j \div 4 = k THEN v[(j % 4) + 1] ELSE d.pixels[j]]
  <1>1. WholeWord(d, k, v) = [d EXCEPT !.pixels = f]
    BY Zenon DEF WholeWord
  <1>2. d.pixels \in [Frame -> Int] /\ DOMAIN d.pixels = Frame
    BY CrtForms, Zenon
  <1>3. f \in [Frame -> Int]
    <2>1. \A j \in Frame : (j % 4) + 1 \in 1 .. 4
      <3> TAKE j \in Frame
      <3>1. j \in Nat
        BY ScreenPlace
      <3>2. QED
        BY <3>1
    <2>2. \A i \in 1 .. 4 : v[i] \in Int
      BY DEF Glyph
    <2>3. QED
      BY <1>2, <2>1, <2>2
  <1>4. \A j \in Frame : f[j] = IF j \div 4 = k THEN v[(j % 4) + 1] ELSE d.pixels[j]
    BY <1>2
  <1>5. PICK h \in [Frame -> Int] : h = f
    BY <1>3
  <1> HIDE DEF f
  <1>6. n = [d EXCEPT !.pixels = h]
    BY <1>1, <1>5, Zenon
  <1>7. /\ n \in Crt /\ n.palette_data = d.palette_data /\ n.letter_data = d.letter_data
        /\ n.font_data = d.font_data /\ n.quads = d.quads /\ n.pixels = h
    BY <1>6, CrtForms
  <1>8. QED
    BY <1>4, <1>5, <1>6, <1>7, Zenon DEF HasWord

LEMMA StepByte ==
    ASSUME DisplayInv, NEW a \in Nat, NEW v \in Glyph, write_byte_callback(a, v)
    PROVE  DisplayInv'
  <1>1. /\ display' = write_byte(display, a, v)
        /\ glyphs' = ByteGlyphs(glyphs, a, v) /\ picture' = BytePicture(picture, glyphs, a, v)
        /\ last' = [addr |-> a, bytes |-> <<v>>]
    BY RecordedByte DEF write_byte_callback, DisplayInv
  <1>2. /\ display \in Crt /\ picture \in Picture /\ glyphs \in Glyphs
        /\ Shows(display, picture, glyphs)
    BY DEF DisplayInv
  <1>3. display' \in Crt
    BY <1>1, <1>2, WriteOne
  <1>4. picture' \in Picture /\ glyphs' \in Glyphs
    BY <1>1, <1>2, PictureForms
  <1>5. Shows(display', picture', glyphs')
    BY <1>1, <1>2, ByteShows
  <1>6. ASSUME Kept(a) PROVE read_byte(display', a) = v /\ read_word(display', a - (a % 4))[(a % 4) + 1] = v
    BY <1>1, <1>2, <1>3, <1>6, JustWritten, WordReads
  <1>7. ReadsBack'
    <2> SUFFICES ASSUME NEW i \in 1 .. Len(last'.bytes),
                        NEW b, b = last'.addr + i - 1, b < letter_end \/ InFrame(b)
                 PROVE  /\ read_byte(display', b) = last'.bytes[i]
                        /\ read_word(display', b - (b % 4))[(b % 4) + 1] = last'.bytes[i]
      BY DEF ReadsBack
    <2>1. last'.bytes = <<v>> /\ last'.addr = a
      BY <1>1
    <2>2. i = 1 /\ b = a /\ last'.bytes[i] = v
      BY <2>1
    <2>3. QED
      BY <1>6, <2>2 DEF Kept
  <1>8. QED
    BY <1>3, <1>4, <1>5, <1>7 DEF DisplayInv, Shows

\* What is left of a word's bytes, once they are written, is read back.
LEMMA WordReadBack ==
    ASSUME display' \in Crt, NEW a \in Nat, NEW v \in [1 .. 4 -> Glyph],
           last' = [addr |-> a, bytes |-> v],
           \A i \in 1 .. 4 : Kept(a + i - 1) => read_byte(display', a + i - 1) = v[i]
    PROVE  ReadsBack'
  <1> SUFFICES ASSUME NEW i \in 1 .. Len(last'.bytes),
                      NEW b, b = last'.addr + i - 1, b < letter_end \/ InFrame(b)
               PROVE  /\ read_byte(display', b) = last'.bytes[i]
                      /\ read_word(display', b - (b % 4))[(b % 4) + 1] = last'.bytes[i]
    BY DEF ReadsBack
  <1>1. last'.bytes = v /\ last'.addr = a /\ Len(v) = 4
    OBVIOUS
  <1>2. i \in 1 .. 4 /\ b = a + i - 1 /\ b \in Nat
    <2>1. i \in 1 .. 4 /\ b = a + i - 1
      BY <1>1, Zenon
    <2>2. QED
      BY ONLY <2>1, a \in Nat
  <1>3. read_byte(display', b) = v[i]
    BY <1>2 DEF Kept
  <1>4. read_word(display', b - (b % 4))[(b % 4) + 1] = read_byte(display', b)
    BY <1>2, WordReads DEF Kept
  <1>5. QED
    BY <1>1, <1>3, <1>4

LEMMA StepSeed ==
    ASSUME DisplayInv, NEW a \in Nat, a = letter_end, NEW v \in [1 .. 4 -> Glyph],
           write_callback(a, v)
    PROVE  DisplayInv'
  <1>1. display' = display
    BY Zenon DEF write_callback, write_word
  <1>2. display \in Crt /\ picture \in Picture /\ glyphs \in Glyphs /\ Shows(display, picture, glyphs)
    BY DEF DisplayInv
  <1>3. Recorded(a, v)
    BY Zenon DEF write_callback
  <1>4. glyphs' = glyphs
    <2>1. \A k \in Glyph, r \in 1 .. 8 : glyphs'[k][r] = glyphs[k][r]
      BY <1>2, <1>3, RecordedWord
    <2>2. glyphs' = [k \in Glyph |-> [r \in 1 .. 8 |-> glyphs'[k][r]]]
      BY <1>2, <1>3, RecordedWord
    <2>3. glyphs = [k \in Glyph |-> [r \in 1 .. 8 |-> glyphs[k][r]]]
      BY <1>2 DEF Glyphs
    <2>4. QED
      BY ONLY <2>1, <2>2, <2>3
  <1>5. picture' = picture
    <2>1. ASSUME NEW o \in Frame PROVE picture'[o] = picture[o]
      <3>1. /\ frame_buffer_start + o \notin a .. a + 3
            /\ letter_start + CellOf(o) \notin a .. a + 3
        <4>1. letter_start + CellOf(o) < letter_end /\ letter_start + CellOf(o) \in Nat
          BY Places
        <4>2. o \in Nat /\ frame_buffer_start \in Nat /\ frame_buffer_start >= letter_end + 8
          BY Registers, ScreenPlace
        <4>3. QED
          BY <4>1, <4>2
      <3>2. QED
        BY <1>2, <1>3, <3>1, RecordedWord
    <2>2. picture' = [o \in Frame |-> picture'[o]]
      BY <1>2, <1>3, RecordedWord
    <2>3. picture = [o \in Frame |-> picture[o]]
      BY <1>2 DEF Picture
    <2>4. QED
      BY ONLY <2>1, <2>2, <2>3
  <1>6. last' = [addr |-> a, bytes |-> v]
    BY <1>2, <1>3, RecordedWord
  <1>7. \A i \in 1 .. 4 : ~Kept(a + i - 1)
    BY Registers DEF Kept, InFrame
  <1>8. ReadsBack'
    BY <1>1, <1>2, <1>6, <1>7, WordReadBack
  <1>9. QED
    BY <1>1, <1>2, <1>4, <1>5, <1>8 DEF DisplayInv, Shows

LEMMA StepWholeWord ==
    ASSUME DisplayInv, NEW a \in Nat, a # letter_end, a % 4 = 0, InFrame(a),
           NEW v \in [1 .. 4 -> Glyph], write_callback(a, v)
    PROVE  DisplayInv'
  <1>1. PICK k \in Nat : k = cpu_to_screen(a - frame_buffer_start) \div 4
    BY ScreenWord, Zenon
  <1>2. PICK n : n = display' /\ n = WholeWord(display, k, v)
    BY <1>1, Zenon DEF write_callback, write_word, WholeWord
  <1>3. display \in Crt /\ picture \in Picture /\ glyphs \in Glyphs /\ Shows(display, picture, glyphs)
    BY DEF DisplayInv
  <1>4. /\ n \in Crt /\ n.palette_data = display.palette_data
        /\ n.letter_data = display.letter_data
        /\ n.font_data = display.font_data /\ n.quads = display.quads
        /\ \A j \in Frame :
              n.pixels[j] = IF j \div 4 = k THEN v[(j % 4) + 1] ELSE display.pixels[j]
    <2>1. HasWord(n, display, k, v)
      BY <1>2, <1>3, WholeWordForms, Zenon
    <2>2. QED
      BY <2>1, Zenon DEF HasWord
  <1>5. Recorded(a, v)
    BY Zenon DEF write_callback
  <1>6. a >= frame_buffer_start /\ frame_buffer_start \in Nat /\ frame_buffer_start = font_end
    BY Registers DEF InFrame
  <1>7. glyphs' = glyphs
    <2>1. ASSUME NEW g \in Glyph, NEW r \in 1 .. 8 PROVE glyphs'[g][r] = glyphs[g][r]
      <3>1. PICK x \in Nat : x = font_start + g * 8 + r - 1 /\ x < font_end
        BY Registers, DisplaySizes DEF Glyph
      <3>2. x \notin a .. a + 3
        BY <1>6, <3>1
      <3>3. QED
        BY <1>3, <1>5, <3>1, <3>2, RecordedWord
    <2>2. glyphs' = [g \in Glyph |-> [r \in 1 .. 8 |-> glyphs'[g][r]]]
      BY <1>3, <1>5, RecordedWord
    <2>3. glyphs = [g \in Glyph |-> [r \in 1 .. 8 |-> glyphs[g][r]]]
      BY <1>3 DEF Glyphs
    <2>4. QED
      BY ONLY <2>1, <2>2, <2>3
  <1>8. ASSUME NEW o \in Frame
        PROVE  n.pixels[cpu_to_screen(o)] = picture'[o] /\ picture'[o] \in Int
    <2>1. PICK f \in Nat : f = frame_buffer_start + o
      <3>1. o \in Nat
        BY ScreenPlace
      <3>2. QED
        BY <1>6, <3>1
    <2>2. PICK l \in Nat : l = letter_start + CellOf(o) /\ l \notin a .. a + 3
      <3>1. letter_start + CellOf(o) \in Nat /\ letter_start + CellOf(o) < letter_end /\ letter_end < font_end
        BY Places
      <3>2. QED
        BY <1>6, <3>1, Bounds
    <2>3. picture'[o] = IF f \in a .. a + 3 THEN v[f - a + 1] ELSE picture[o]
      BY <1>3, <1>5, <2>1, <2>2, RecordedWord
    <2>4. /\ cpu_to_screen(o) \div 4 = k <=> f \in a .. a + 3
          /\ f \in a .. a + 3 => (cpu_to_screen(o) % 4) + 1 = f - a + 1
      BY <1>1, <2>1, WordPlace
    <2>5. n.pixels[cpu_to_screen(o)] = IF cpu_to_screen(o) \div 4 = k
                                       THEN v[(cpu_to_screen(o) % 4) + 1]
                                       ELSE display.pixels[cpu_to_screen(o)]
      BY <1>4, Places
    <2>6. display.pixels[cpu_to_screen(o)] = picture[o] /\ picture[o] \in Int
      BY <1>3 DEF Shows, Picture
    <2>7. f \in a .. a + 3 => v[f - a + 1] \in Int
      <3>1. f \in a .. a + 3 => f - a + 1 \in 1 .. 4
        OBVIOUS
      <3>2. QED
        BY <3>1 DEF Glyph
    <2>8. QED
      BY <2>3, <2>4, <2>5, <2>6, <2>7
  <1>9. picture' \in Picture
    <2>1. picture' = [o \in Frame |-> picture'[o]]
      BY <1>3, <1>5, RecordedWord
    <2>2. QED
      BY <1>8, <2>1 DEF Picture
  <1>10. Shows(n, picture', glyphs')
    BY <1>3, <1>4, <1>7, <1>8 DEF Shows
  <1>11. ASSUME NEW i \in 1 .. 4 PROVE read_byte(n, a + i - 1) = v[i]
    <2>1. /\ InFrame(a + i - 1) /\ a + i - 1 - frame_buffer_start \in Frame
          /\ cpu_to_screen(a + i - 1 - frame_buffer_start) = 4 * k + i - 1
      BY <1>1, ScreenWord, Zenon
    <2>2. 4 * k + i - 1 \in Frame /\ (4 * k + i - 1) \div 4 = k /\ ((4 * k + i - 1) % 4) + 1 = i
      <3>1. (4 * k + i - 1) \div 4 = k /\ ((4 * k + i - 1) % 4) + 1 = i
        OBVIOUS
      <3>2. QED
        BY <2>1, <3>1, Places
    <2>3. read_byte(n, a + i - 1) = n.pixels[4 * k + i - 1]
      <3>1. PICK b \in Nat : b = a + i - 1
        OBVIOUS
      <3>2. InFrame(b) /\ cpu_to_screen(b - frame_buffer_start) = 4 * k + i - 1
        <4>1. InFrame(b)
          BY <2>1, <3>1
        <4>2. b - frame_buffer_start = a + i - 1 - frame_buffer_start
          BY <1>6, <3>1
        <4>3. QED
          BY <2>1, <4>1, <4>2
      <3>3. read_byte(n, b) = n.pixels[cpu_to_screen(b - frame_buffer_start)]
        BY <3>2, ReadForms
      <3>4. read_byte(n, b) = n.pixels[4 * k + i - 1]
        BY ONLY <3>2, <3>3
      <3>5. QED
        BY ONLY <3>1, <3>4
    <2>4. QED
      BY <1>4, <2>2, <2>3
  <1>12. last' = [addr |-> a, bytes |-> v]
    BY <1>3, <1>5, RecordedWord
  <1>13. ReadsBack'
    BY <1>2, <1>4, <1>11, <1>12, WordReadBack
  <1>14. QED
    BY <1>2, <1>3, <1>4, <1>7, <1>9, <1>10, <1>13 DEF DisplayInv, Shows

LEMMA StepFourBytes ==
    ASSUME DisplayInv, NEW a \in Nat, a # letter_end, ~(a % 4 = 0 /\ InFrame(a)),
           NEW v \in [1 .. 4 -> Glyph], write_callback(a, v)
    PROVE  DisplayInv'
  <1>0. display \in Crt /\ picture \in Picture /\ glyphs \in Glyphs /\ Shows(display, picture, glyphs)
    BY DEF DisplayInv
  <1>1. Recorded(a, v)
    BY Zenon DEF write_callback
  <1>2. v[1] \in Glyph /\ v[2] \in Glyph /\ v[3] \in Glyph /\ v[4] \in Glyph
    OBVIOUS
  <1>3. PICK d1, p1, g1 :
            /\ d1 = write_byte(display, a, v[1])
            /\ p1 = BytePicture(picture, glyphs, a, v[1]) /\ g1 = ByteGlyphs(glyphs, a, v[1])
    OBVIOUS
  <1>4. d1 \in Crt /\ p1 \in Picture /\ g1 \in Glyphs /\ Shows(d1, p1, g1)
    BY <1>0, <1>2, <1>3, WriteOne, PictureForms, ByteShows
  <1>5. PICK d2, p2, g2 :
            /\ d2 = write_byte(d1, a + 1, v[2])
            /\ p2 = BytePicture(p1, g1, a + 1, v[2]) /\ g2 = ByteGlyphs(g1, a + 1, v[2])
    OBVIOUS
  <1>6. a + 1 \in Nat /\ a + 2 \in Nat /\ a + 3 \in Nat
    OBVIOUS
  <1>7. d2 \in Crt /\ p2 \in Picture /\ g2 \in Glyphs /\ Shows(d2, p2, g2)
    BY <1>2, <1>4, <1>5, <1>6, WriteOne, PictureForms, ByteShows
  <1>8. PICK d3, p3, g3 :
            /\ d3 = write_byte(d2, a + 2, v[3])
            /\ p3 = BytePicture(p2, g2, a + 2, v[3]) /\ g3 = ByteGlyphs(g2, a + 2, v[3])
    OBVIOUS
  <1>9. d3 \in Crt /\ p3 \in Picture /\ g3 \in Glyphs /\ Shows(d3, p3, g3)
    BY <1>2, <1>6, <1>7, <1>8, WriteOne, PictureForms, ByteShows
  <1>10. PICK d4, p4, g4 :
            /\ d4 = write_byte(d3, a + 3, v[4])
            /\ p4 = BytePicture(p3, g3, a + 3, v[4]) /\ g4 = ByteGlyphs(g3, a + 3, v[4])
    OBVIOUS
  <1>11. d4 \in Crt /\ p4 \in Picture /\ g4 \in Glyphs /\ Shows(d4, p4, g4)
    BY <1>2, <1>6, <1>9, <1>10, WriteOne, PictureForms, ByteShows
  <1>12. display' = d4
    BY <1>3, <1>5, <1>8, <1>10, Zenon DEF write_callback, write_word
  <1>13. /\ \A k \in Glyph, r \in 1 .. 8 :
               LET x == font_start + k * 8 + r - 1
               IN  g4[k][r] = IF x \in a .. a + 3 /\ k >= NumGlyphs \div 2 THEN v[x - a + 1]
                              ELSE glyphs[k][r]
         /\ \A o \in Frame :
               LET f == frame_buffer_start + o
                   l == letter_start + CellOf(o)
               IN  p4[o] = IF f \in a .. a + 3 THEN v[f - a + 1]
                           ELSE IF l \in a .. a + 3 THEN glyphs[v[l - a + 1]][RowOf(o) + 1]
                           ELSE picture[o]
    <2>1. PICK p \in Picture, g \in Glyphs : p = picture /\ g = glyphs
      BY <1>0
    <2>2. g4 = FourGlyphs(g, a, v) /\ p4 = FourPicture(p, g, a, v)
      BY <1>3, <1>5, <1>8, <1>10, <2>1, Zenon DEF FourGlyphs, FourPicture
    <2>3. /\ \A k \in Glyph, r \in 1 .. 8 :
               LET x == font_start + k * 8 + r - 1
               IN  g4[k][r] = IF x \in a .. a + 3 /\ k >= NumGlyphs \div 2 THEN v[x - a + 1]
                              ELSE g[k][r]
          /\ \A o \in Frame :
               LET f == frame_buffer_start + o
                   l == letter_start + CellOf(o)
               IN  p4[o] = IF f \in a .. a + 3 THEN v[f - a + 1]
                           ELSE IF l \in a .. a + 3 THEN g[v[l - a + 1]][RowOf(o) + 1]
                           ELSE p[o]
      BY ONLY <2>2, FourBytes, a \in Nat, v \in [1 .. 4 -> Glyph], p \in Picture, g \in Glyphs
    <2>4. QED
      BY <2>1, <2>3, Zenon
  <1>14. glyphs' = g4
    <2>1. \A k \in Glyph, r \in 1 .. 8 : glyphs'[k][r] = g4[k][r]
      <3> TAKE k \in Glyph, r \in 1 .. 8
      <3>1. PICK x : x = font_start + k * 8 + r - 1
        OBVIOUS
      <3>2. g4[k][r] = IF x \in a .. a + 3 /\ k >= NumGlyphs \div 2 THEN v[x - a + 1] ELSE glyphs[k][r]
        BY <1>13, <3>1, Zenon
      <3>3. glyphs'[k][r] = IF x \in a .. a + 3 /\ k >= NumGlyphs \div 2 /\ a # letter_end
                            THEN v[x - a + 1] ELSE glyphs[k][r]
        BY <1>0, <1>1, <3>1, RecordedWord
      <3>4. QED
        BY ONLY <3>2, <3>3, a # letter_end
    <2>2. glyphs' = [k \in Glyph |-> [r \in 1 .. 8 |-> glyphs'[k][r]]]
      BY <1>0, <1>1, RecordedWord
    <2>3. g4 = [k \in Glyph |-> [r \in 1 .. 8 |-> g4[k][r]]]
      BY <1>11 DEF Glyphs
    <2>4. QED
      BY ONLY <2>1, <2>2, <2>3
  <1>15. picture' = p4
    <2>1. \A o \in Frame : picture'[o] = p4[o]
      <3> TAKE o \in Frame
      <3>1. PICK f, l : f = frame_buffer_start + o /\ l = letter_start + CellOf(o)
        OBVIOUS
      <3>2. p4[o] = IF f \in a .. a + 3 THEN v[f - a + 1]
                    ELSE IF l \in a .. a + 3 THEN glyphs[v[l - a + 1]][RowOf(o) + 1]
                    ELSE picture[o]
        BY <1>13, <3>1, Zenon
      <3>3. picture'[o] = IF f \in a .. a + 3 THEN v[f - a + 1]
                          ELSE IF l \in a .. a + 3 THEN glyphs[v[l - a + 1]][RowOf(o) + 1]
                          ELSE picture[o]
        BY <1>0, <1>1, <3>1, RecordedWord
      <3>4. QED
        BY ONLY <3>2, <3>3
    <2>2. picture' = [o \in Frame |-> picture'[o]]
      BY <1>0, <1>1, RecordedWord
    <2>3. p4 = [o \in Frame |-> p4[o]]
      BY <1>11 DEF Picture
    <2>4. QED
      BY ONLY <2>1, <2>2, <2>3
  <1>16. ASSUME NEW b \in Nat, Kept(b)
         PROVE  /\ b = a => read_byte(d4, b) = v[1]
                /\ b = a + 1 => read_byte(d4, b) = v[2]
                /\ b = a + 2 => read_byte(d4, b) = v[3]
                /\ b = a + 3 => read_byte(d4, b) = v[4]
    <2>1. b = a => read_byte(d1, b) = v[1]
      BY <1>0, <1>2, <1>3, <1>16, JustWritten
    <2>2. /\ b < a + 1 => read_byte(d2, b) = read_byte(d1, b)
          /\ b = a + 1 => read_byte(d2, b) = v[2]
      BY <1>2, <1>4, <1>5, <1>6, <1>16, JustWritten, WrittenBehind
    <2>3. /\ b < a + 2 => read_byte(d3, b) = read_byte(d2, b)
          /\ b = a + 2 => read_byte(d3, b) = v[3]
      BY <1>2, <1>6, <1>7, <1>8, <1>16, JustWritten, WrittenBehind
    <2>4. /\ b < a + 3 => read_byte(d4, b) = read_byte(d3, b)
          /\ b = a + 3 => read_byte(d4, b) = v[4]
      BY <1>2, <1>6, <1>9, <1>10, <1>16, JustWritten, WrittenBehind
    <2>5. QED
      BY <2>1, <2>2, <2>3, <2>4
  <1>17. ASSUME NEW i \in 1 .. 4, Kept(a + i - 1) PROVE read_byte(d4, a + i - 1) = v[i]
    <2>1. PICK b \in Nat : b = a + i - 1
      OBVIOUS
    <2>2. \/ b = a /\ i = 1
          \/ b = a + 1 /\ i = 2
          \/ b = a + 2 /\ i = 3
          \/ b = a + 3 /\ i = 4
      BY <2>1
    <2>3. Kept(b)
      BY <1>17, <2>1
    <2>4. read_byte(d4, b) = v[i]
      BY <1>16, <2>2, <2>3
    <2>5. QED
      BY ONLY <2>1, <2>4
  <1>18. last' = [addr |-> a, bytes |-> v]
    BY <1>0, <1>1, RecordedWord
  <1>19. ReadsBack'
    BY <1>11, <1>12, <1>17, <1>18, WordReadBack
  <1>20. QED
    BY <1>11, <1>12, <1>14, <1>15, <1>19 DEF DisplayInv, Shows

LEMMA DisplayInvNext ==
    ASSUME DisplayInv, DisplayNext
    PROVE  DisplayInv'
  <1>1. Byte \subseteq Glyph /\ Word \subseteq [1 .. 4 -> Glyph]
    BY DisplayAssumption DEF Glyph
  <1>2. PICK a \in 0 .. frame_buffer_end - 1 :
            \/ \E v \in Byte : write_byte_callback(a, v)
            \/ \E v \in Word : write_callback(a, v)
    BY Zenon DEF DisplayNext
  <1>3. a \in Nat
    BY Bounds
  <1>4. CASE \E v \in Byte : write_byte_callback(a, v)
    BY <1>1, <1>3, <1>4, StepByte
  <1>5. CASE \E v \in Word : write_callback(a, v)
    <2>1. PICK v \in [1 .. 4 -> Glyph] : write_callback(a, v)
      BY <1>1, <1>5, Zenon
    <2>2. QED
      BY <1>3, <2>1, StepSeed, StepWholeWord, StepFourBytes
  <1>6. QED
    BY <1>2, <1>4, <1>5

LEMMA DisplayInvInit == DisplayInit => DisplayInv
  <1> SUFFICES ASSUME DisplayInit PROVE DisplayInv
    OBVIOUS
  <1>1. /\ display = NewDisplay /\ last = [addr |-> 0, bytes |-> <<>>]
        /\ picture = [o \in Frame |-> Petscii[0][RowOf(o) + 1]] /\ glyphs = Petscii
    BY DEF DisplayInit, Frame
  <1>2. PICK p : p = [o \in Frame |-> Petscii[0][RowOf(o) + 1]]
    OBVIOUS
  <1>3. NewDisplay \in Crt /\ p \in Picture /\ Petscii \in Glyphs /\ Shows(NewDisplay, p, Petscii)
    BY <1>2, NewDisplayShows
  <1>4. ReadsBack
    <2>1. 1 .. Len(last.bytes) = {}
      BY <1>1
    <2>2. QED
      BY <2>1 DEF ReadsBack
  <1>5. QED
    BY <1>1, <1>2, <1>3, <1>4, Zenon DEF DisplayInv

LEMMA StepDisplayReset ==
    ASSUME DisplayReset
    PROVE  DisplayInv'
  <1>1. /\ display' = NewDisplay /\ last' = [addr |-> 0, bytes |-> <<>>]
        /\ picture' = [o \in Frame |-> Petscii[0][RowOf(o) + 1]] /\ glyphs' = Petscii
    BY DEF DisplayReset, Frame
  <1>2. PICK p : p = [o \in Frame |-> Petscii[0][RowOf(o) + 1]]
    OBVIOUS
  <1>3. NewDisplay \in Crt /\ p \in Picture /\ Petscii \in Glyphs /\ Shows(NewDisplay, p, Petscii)
    BY <1>2, NewDisplayShows
  <1>4. ReadsBack'
    <2>1. 1 .. Len(last'.bytes) = {}
      BY <1>1
    <2>2. QED
      BY <2>1 DEF ReadsBack
  <1>5. QED
    BY <1>1, <1>2, <1>3, <1>4, Zenon DEF DisplayInv, Shows

LEMMA DisplayStutter ==
    ASSUME DisplayInv, UNCHANGED displayVars
    PROVE  DisplayInv'
  BY DEF displayVars, DisplayInv, Shows, ReadsBack

-----------------------------------------------------------------------------
(* The tape: words, tables and padding.                                    *)

\* A word of four bytes, and what it is read as.
IsWord(w) == w \in Seq(Nat) /\ Len(w) = 4

\* Numbers are written as words.
LEMMA BigEndianWord ==
    ASSUME NEW n \in Nat
    PROVE  IsWord(BigEndian(n)) /\ IsWord(LittleEndian(n))
  <1>1. /\ n \div 16777216 \in Nat /\ (n \div 65536) % 256 \in Nat
        /\ (n \div 256) % 256 \in Nat /\ n % 256 \in Nat
    BY SMT
  <1>2. \A a, b, c, d \in Nat : IsWord(<<a, b, c, d>>) /\ IsWord(Reverse(<<a, b, c, d>>))
    <2>1. SUFFICES ASSUME NEW a \in Nat, NEW b \in Nat, NEW c \in Nat, NEW d \in Nat
                   PROVE  IsWord(<<a, b, c, d>>) /\ IsWord(Reverse(<<a, b, c, d>>))
      OBVIOUS
    <2>2. <<a, b, c, d>> \in Seq(Nat) /\ Len(<<a, b, c, d>>) = 4
      OBVIOUS
    <2>3. Reverse(<<a, b, c, d>>) \in Seq(Nat) /\ Len(Reverse(<<a, b, c, d>>)) = 4
      BY <2>2 DEF Reverse
    <2>4. QED
      BY <2>2, <2>3 DEF IsWord
  <1>3. QED
    BY <1>1, <1>2, SMT DEF BigEndian, LittleEndian

\* A number as its higher bytes and its lowest, and a quotient by two steps.
LEMMA LowestByte ==
    ASSUME NEW n \in Nat
    PROVE  n \div 256 \in Nat /\ n % 256 \in 0 .. 255 /\ n = (n \div 256) * 256 + (n % 256)
  BY SMT

\* An address comes back from its four bytes, and leaves room for a flag.
LEMMA BigEndianReads ==
    ASSUME NEW n \in Nat, n < MaxAddress
    PROVE  /\ Number(BigEndian(n)) = n
           /\ BigEndian(n)[1] \in 0 .. 127
  <1> DEFINE q == n \div 256
             d == n % 256
             r == q \div 256
             c == q % 256
             a == r \div 256
             b == r % 256
  <1>1. q \in Nat /\ d \in 0 .. 255 /\ n = q * 256 + d
    BY LowestByte
  <1>2. r \in Nat /\ c \in 0 .. 255 /\ q = r * 256 + c
    BY <1>1, LowestByte
  <1>3. a \in Nat /\ b \in 0 .. 255 /\ r = a * 256 + b
    BY <1>2, LowestByte
  <1>4. n \div 65536 = r
    BY <1>1, SMT
  <1>5. n \div 16777216 = a
    BY <1>1, SMT
  <1>6. BigEndian(n) = <<a, b, c, d>>
    BY <1>4, <1>5, SMT DEF BigEndian
  <1> HIDE DEF q, d, r, c, a, b
  <1>7. n = ((a * 256 + b) * 256 + c) * 256 + d
    BY <1>1, <1>2, <1>3, SMT
  <1>8. Number(<<a, b, c, d>>) = ((a * 256 + b) * 256 + c) * 256 + d
    BY SMT DEF Number
  <1>9. a <= 127
    BY <1>1, <1>2, <1>3, <1>7, SMT DEF MaxAddress
  <1>10. QED
    BY <1>3, <1>6, <1>7, <1>8, <1>9

\* What is read from four numbers is a number.
LEMMA NumberOfWord ==
    ASSUME NEW w, \A i \in 1 .. 4 : w[i] \in Nat
    PROVE  Number(w) \in Nat
  <1>1. w[1] \in Nat /\ w[2] \in Nat /\ w[3] \in Nat /\ w[4] \in Nat
    OBVIOUS
  <1>2. QED
    BY <1>1 DEF Number

\* pad() adds to the end, and as much to all data of a length.
LEMMA Padded ==
    ASSUME NEW data \in Seq(Nat)
    PROVE  /\ pad(data, 4) \in Seq(Nat)
           /\ Len(pad(data, 4)) >= Len(data)
           /\ \A i \in 1 .. Len(data) : pad(data, 4)[i] = data[i]
           /\ \A other \in Seq(Nat) : Len(other) = Len(data) => Len(pad(other, 4)) = Len(pad(data, 4))
  <1> DEFINE n == (4 - (Len(data) % 4)) % 4
  <1>1. n \in Nat
    OBVIOUS
  <1> HIDE DEF n
  <1>2. Zeros(n) \in Seq(Nat) /\ Len(Zeros(n)) = n
    BY <1>1 DEF Zeros
  <1>3. pad(data, 4) = data \o Zeros(n)
    BY DEF pad, n
  <1>4. ASSUME NEW other \in Seq(Nat), Len(other) = Len(data)
        PROVE  Len(pad(other, 4)) = Len(data) + n
    <2>1. pad(other, 4) = other \o Zeros(n)
      BY <1>4 DEF pad, n
    <2>2. QED
      BY <1>2, <1>4, <2>1, ConcatProperties
  <1>5. /\ data \o Zeros(n) \in Seq(Nat) /\ Len(data \o Zeros(n)) = Len(data) + n
        /\ \A i \in 1 .. Len(data) : (data \o Zeros(n))[i] = data[i]
    <2>1. Len(data) \in Nat /\ \A i \in 1 .. Len(data) : i \in 1 .. Len(data) + n /\ i <= Len(data)
      BY <1>1
    <2>2. QED
      BY <1>2, <2>1, ConcatProperties
  <1>6. Len(data) + n >= Len(data)
    BY <1>1
  <1>7. pad(data, 4) \in Seq(Nat) /\ Len(pad(data, 4)) = Len(data) + n
    BY <1>3, <1>5, Zenon
  <1>8. \A i \in 1 .. Len(data) : pad(data, 4)[i] = data[i]
    BY <1>3, <1>5, Zenon
  <1>9. \A other \in Seq(Nat) : Len(other) = Len(data) => Len(pad(other, 4)) = Len(pad(data, 4))
    BY <1>4, <1>7, Zenon
  <1>10. QED
    BY <1>6, <1>7, <1>8, <1>9

\* A dictionary gives a name one of the values that it has in the table.
LEMMA LookupGives ==
    ASSUME NEW T, NEW table \in Seq(T), NEW name, Defines(table, name)
    PROVE  \E i \in DOMAIN table : table[i][2] = name /\ Lookup(table, name) = table[i][1]
  <1> DEFINE s == {i \in DOMAIN table : table[i][2] = name}
             IsLast(i) == table[i][2] = name /\ \A j \in i + 1 .. Len(table) : table[j][2] # name
  <1>1. DOMAIN table = 1 .. Len(table) /\ Len(table) \in Nat
    OBVIOUS
  <1>2. s \in SUBSET (1 .. Len(table)) /\ s # {}
    BY <1>1 DEF Defines
  <1>3. PICK x \in s : \A y \in s : x >= y
    <2> HIDE DEF s
    <2> QED BY <1>1, <1>2, LastIndex
  <1>4. x \in DOMAIN table /\ IsLast(x)
    <2>1. ASSUME NEW j \in x + 1 .. Len(table) PROVE table[j][2] # name
      <3>1. j \in DOMAIN table /\ ~(x >= j)
        BY <1>1, <1>3
      <3>2. QED
        BY <1>3, <3>1
    <2>2. QED
      BY <1>3, <2>1
  <1>5. Lookup(table, name) = table[CHOOSE i \in DOMAIN table : IsLast(i)][1]
    BY Zenon DEF Lookup
  <1>6. (CHOOSE i \in DOMAIN table : IsLast(i)) \in DOMAIN table /\ IsLast(CHOOSE i \in DOMAIN table : IsLast(i))
    BY <1>4, Zenon
  <1>7. QED
    BY <1>5, <1>6

\* The tables' type.
LEMMA TableEntry ==
    ASSUME NEW table \in Table, NEW i \in DOMAIN table
    PROVE  table[i] \in Nat \X Seq(0 .. 255) /\ table[i][1] \in Nat /\ table[i][2] \in Seq(0 .. 255)
  <1>1. table \in Seq(Nat \X Seq(0 .. 255))
    BY DEF Table, Bytes
  <1>2. table[i] \in Nat \X Seq(0 .. 255)
    BY <1>1
  <1>3. QED
    BY <1>2

\* What a dictionary gives is a number.
LEMMA LookupType ==
    ASSUME NEW table \in Table, NEW name, Defines(table, name)
    PROVE  Lookup(table, name) \in Nat
  <1>1. table \in Seq(Nat \X Bytes)
    BY DEF Table
  <1>2. PICK i \in DOMAIN table : Lookup(table, name) = table[i][1]
    BY <1>1, LookupGives
  <1>3. QED
    BY <1>2, TableEntry

\* Data of a length.
Sized(n) == {d \in Seq(Nat) : Len(d) = n}

\* Bytes are numbers.
LEMMA BytesAreNumbers ==
    ASSUME NEW data \in Bytes
    PROVE  data \in Sized(Len(data)) /\ Len(data) \in Nat
  <1>1. data \in Seq(0 .. 255) /\ Seq(0 .. 255) \subseteq Seq(Nat)
    <2>1. 0 .. 255 \subseteq Nat
      OBVIOUS
    <2>2. QED
      BY <2>1, SeqMonotonic DEF Bytes
  <1>2. QED
    BY <1>1 DEF Sized

\* A word of the data is a number.
LEMMA WordAtType ==
    ASSUME NEW n \in Nat, NEW data \in Sized(n), NEW offset \in Nat, offset + 4 <= n
    PROVE  WordAt(data, offset) \in Nat
  <1> DEFINE s == SubSeq(data, offset + 1, offset + 4)
             w == Reverse(s)
  <1>1. data \in Seq(Nat) /\ Len(data) = n
    BY DEF Sized
  <1>2. s \in Seq(Nat) /\ Len(s) = 4
    <2>1. \A i \in offset + 1 .. offset + 4 : data[i] \in Nat
      BY <1>1
    <2>2. QED
      BY <2>1, SubSeqProperties
  <1> HIDE DEF s
  <1>3. \A i \in 1 .. 4 : w[i] \in Nat
    <2>1. w = [i \in 1 .. 4 |-> s[(4 - i) + 1]]
      BY <1>2, Zenon DEF Reverse
    <2>2. \A i \in 1 .. 4 : (4 - i) + 1 \in 1 .. 4
      OBVIOUS
    <2>3. \A i \in 1 .. 4 : s[i] \in Nat
      <3>1. \A q \in Seq(Nat) : \A i \in 1 .. Len(q) : q[i] \in Nat
        BY ElementOfSeq
      <3>2. QED
        BY <1>2, <3>1, Zenon
    <2> HIDE DEF w
    <2>4. QED
      BY <2>1, <2>2, <2>3
  <1> HIDE DEF w
  <1>4. Number(w) \in Nat
    BY <1>3, NumberOfWord
  <1>5. QED
    BY <1>4 DEF WordAt, w, s

\* Setting a word leaves the length as it is.
LEMMA SetWordType ==
    ASSUME NEW n \in Nat, NEW data \in Sized(n), NEW offset \in Nat, offset + 4 <= n, NEW value \in Nat
    PROVE  SetWord(data, offset, value) \in Sized(n)
  <1> DEFINE s == SubSeq(data, 1, offset)
             w == LittleEndian(value)
             t == SubSeq(data, offset + 5, Len(data))
  <1>1. data \in Seq(Nat) /\ Len(data) = n
    BY DEF Sized
  <1>2. s \in Seq(Nat) /\ Len(s) = offset
    <2>1. \A i \in 1 .. offset : data[i] \in Nat
      BY <1>1
    <2>2. QED
      BY <2>1, SubSeqProperties
  <1>3. t \in Seq(Nat) /\ Len(t) = n - (offset + 4)
    <2>1. \A i \in offset + 5 .. Len(data) : data[i] \in Nat
      BY <1>1
    <2>2. QED
      BY <1>1, <2>1, SubSeqProperties
  <1>4. w \in Seq(Nat) /\ Len(w) = 4
    BY BigEndianWord DEF IsWord
  <1>5. SetWord(data, offset, value) = s \o w \o t
    BY Zenon DEF SetWord
  <1> HIDE DEF s, w, t
  <1>6. s \o w \in Seq(Nat) /\ Len(s \o w) = Len(s) + Len(w)
    BY <1>2, <1>4, Zenon, ConcatProperties
  <1>7. s \o w \o t \in Seq(Nat) /\ Len(s \o w \o t) = Len(s \o w) + Len(t)
    BY <1>3, <1>6, Zenon, ConcatProperties
  <1>8. Len(s \o w \o t) = n
    BY <1>2, <1>3, <1>4, <1>6, <1>7
  <1>9. QED
    BY <1>5, <1>7, <1>8 DEF Sized

\* What the relocations of a program go through.
Linking(n) == [data : Sized(n), raises : BOOLEAN]

\* One of them leaves the length as it is.
LEMMA RelocationType ==
    ASSUME NEW p, IsProgram(p), NEW r \in Linking(Len(p.data)), NEW i \in DOMAIN p.rels
    PROVE  process_relocation(r, p.rels[i], p.table) \in Linking(Len(p.data))
  <1> DEFINE n == Len(p.data)
             rel == p.rels[i]
             name == p.table[rel.sym][2]
             value == p.table[rel.sym][1]
             Plain == IF value # 0 THEN value ELSE Lookup(OsSymbols, name)
             Jump == IF Defines(OsSymbols, name) THEN Lookup(OsSymbols, name) ELSE Lookup(p.table, name)
             Set(v) == [r EXCEPT !.data = SetWord(@, rel.offset, v)]
  <1>1. p.data \in Seq(0 .. 255) /\ p.table \in Table /\ OsSymbols \in Table
    BY TapeLoaderAssumption DEF IsProgram, Bytes
  <1>2. n \in Nat
    BY <1>1
  <1>3. rel.type \in {"ABS32", "JUMP_SLOT"} /\ rel.offset \in Nat /\ rel.sym \in DOMAIN p.table
        /\ rel.offset + 4 <= n
    <2>1. /\ p.rels \in Seq([type : {"ABS32", "JUMP_SLOT"}, offset : Nat, sym : DOMAIN p.table])
          /\ p.rels[i].offset + 4 <= Len(p.data)
      BY DEF IsProgram
    <2>2. rel \in [type : {"ABS32", "JUMP_SLOT"}, offset : Nat, sym : DOMAIN p.table]
      <3>1. \A R : p.rels \in Seq(R) => p.rels[i] \in R
        OBVIOUS
      <3>2. QED
        BY <2>1, <3>1, Zenon
    <2>3. QED
      BY <2>1, <2>2
  <1>4. value \in Nat /\ Defines(p.table, name)
    BY <1>1, <1>3, TableEntry DEF Defines
  <1> HIDE DEF n
  <1>5. r.data \in Sized(n) /\ r \in Linking(n)
    BY DEF Linking, n
  <1>6. ASSUME NEW v \in Nat PROVE Set(v) \in Linking(n)
    <2>1. SetWord(r.data, rel.offset, v) \in Sized(n)
      BY <1>2, <1>3, <1>5, <1>6, SetWordType
    <2>2. QED
      BY <1>5, <2>1 DEF Linking
  <1>7. [r EXCEPT !.raises = TRUE] \in Linking(n)
    BY <1>5 DEF Linking
  <1>8. Jump \in Nat
    BY <1>1, <1>4, LookupType
  <1>9. WordAt(r.data, rel.offset) \in Nat
    BY <1>2, <1>3, <1>5, WordAtType
  <1>10. value # 0 \/ Defines(OsSymbols, name) => WordAt(r.data, rel.offset) + Plain \in Nat
    <2>1. value # 0 \/ Defines(OsSymbols, name) => Plain \in Nat
      BY <1>1, <1>4, LookupType
    <2> HIDE DEF Plain
    <2>2. QED
      BY <1>9, <2>1
  <1>11. process_relocation(r, rel, p.table) =
           IF rel.type = "ABS32"
           THEN IF value = 0 /\ ~Defines(OsSymbols, name) THEN [r EXCEPT !.raises = TRUE]
                ELSE [r EXCEPT !.data = SetWord(@, rel.offset, WordAt(@, rel.offset) + Plain)]
           ELSE IF Jump = 0 THEN [r EXCEPT !.raises = TRUE]
           ELSE Set(Jump)
    BY Zenon DEF process_relocation
  <1>12. [r EXCEPT !.data = SetWord(@, rel.offset, WordAt(@, rel.offset) + Plain)]
           = Set(WordAt(r.data, rel.offset) + Plain)
    BY <1>5 DEF Linking
  <1> HIDE DEF Set, Plain, Jump, name, value, rel
  <1>13. process_relocation(r, rel, p.table) \in Linking(n)
    BY <1>6, <1>7, <1>8, <1>10, <1>11, <1>12
  <1>14. QED
    BY <1>13 DEF n, rel

-----------------------------------------------------------------------------
(* The tape: linking, and the symbols.                                     *)

\* All relocations of a program.
Relocated(p) ==
    FoldLeft(LAMBDA r, rel : process_relocation(r, rel, p.table), [data |-> p.data, raises |-> FALSE], p.rels)

\* They are done one after the other.
RelocationSteps(A, p) == [q \in A \X (1 .. Len(p.rels)) |-> process_relocation(q[1], p.rels[q[2]], p.table)]

\* They leave the length as it is.
LEMMA RelocatedType ==
    ASSUME NEW p, IsProgram(p)
    PROVE  Relocated(p) \in Linking(Len(p.data))
  <1> DEFINE rels == p.rels
             n == Len(rels)
             A == Linking(Len(p.data))
             start == [data |-> p.data, raises |-> FALSE]
             op(a, k) == process_relocation(a, rels[k], p.table)
             Run(iter) == [t \in SUBSET (1 .. n) |-> IF t = {} THEN start
                                                    ELSE op(iter[t \ {Max(t)}], Max(t))]
             it == CHOOSE iter : iter = Run(iter)
             step == RelocationSteps(A, p)
  <1>1. DOMAIN rels = 1 .. n /\ n \in Nat
    <2>1. \A R : p.rels \in Seq(R) => DOMAIN p.rels = 1 .. Len(p.rels) /\ Len(p.rels) \in Nat
      OBVIOUS
    <2>2. QED
      BY <2>1, Zenon DEF IsProgram
  <1>2. Relocated(p) = it[1 .. n]
    BY <1>1, Zenon DEF Relocated, FoldLeft, MapThenFoldSet
  <1>3. \A a \in A, k \in 1 .. n : step[<<a, k>>] = op(a, k) /\ op(a, k) \in A
    <2>1. \A a \in A, k \in 1 .. n : step[<<a, k>>] = op(a, k)
      BY DEF RelocationSteps
    <2>2. \A a \in A, k \in 1 .. n : op(a, k) \in A
      BY <1>1, RelocationType
    <2>3. QED
      BY <2>1, <2>2
  <1>4. step \in [A \X (1 .. n) -> A]
    <2>1. step = [q \in A \X (1 .. n) |-> op(q[1], q[2])]
      BY DEF RelocationSteps
    <2> HIDE DEF op, step, A, n
    <2>2. \A q \in A \X (1 .. n) : op(q[1], q[2]) \in A
      BY <1>3
    <2>3. QED
      BY <2>1, <2>2
  <1>5. start \in A
    <2>1. p.data \in Sized(Len(p.data))
      BY BytesAreNumbers DEF IsProgram
    <2>2. QED
      BY <2>1 DEF Linking
  <1> HIDE DEF n, op, step, start, A
  <1>6. \E g : g = Run(g)
    <2>1. PICK g : Folding(g, A, start, n, step)
      <3> HIDE DEF Run
      <3> QED BY <1>1, <1>4, <1>5, FoldExists
    <2>2. ASSUME NEW t \in SUBSET (1 .. n), t # {}
          PROVE  g[t \ {Max(t)}] \in A /\ Max(t) \in 1 .. n
      BY <2>1, <2>2, <1>1, MaxInSet DEF Folding
    <2>3. g = Run(g)
      BY <2>1, <2>2, <1>3 DEF Folding
    <2>4. QED
      BY <2>3
  <1>7. it = Run(it)
    BY <1>6
  <1> HIDE DEF it
  <1>8. FoldsTo(it, A, start, n, step)
    <2>1. it[{}] = start
      BY <1>7
    <2>2. ASSUME NEW t \in SUBSET (1 .. n), t # {}, it[t \ {Max(t)}] \in A
          PROVE  it[t] = step[<<it[t \ {Max(t)}], Max(t)>>]
      BY <1>1, <1>3, <1>7, <2>2, MaxInSet
    <2>3. QED
      BY <2>1, <2>2 DEF FoldsTo
  <1> HIDE DEF Run
  <1>9. PICK f : Stepping(f, A, start, n, step, it[1 .. n])
    BY <1>1, <1>4, <1>5, <1>8, FoldSteps
  <1>10. it[1 .. n] \in A
    BY <1>1, <1>9 DEF Stepping
  <1>11. QED
    BY <1>2, <1>10 DEF A

\* What is linked has the length of the program, and its main.
LEMMA PreLinkType ==
    ASSUME NEW p, IsProgram(p)
    PROVE  /\ pre_link(p).data \in Sized(Len(p.data))
           /\ ~pre_link(p).raises => Defines(p.table, Main)
  <1>1. pre_link(p) = [Relocated(p) EXCEPT !.raises = @ \/ ~Defines(p.table, Main)]
    BY Zenon DEF pre_link, Relocated
  <1>2. Relocated(p) \in Linking(Len(p.data))
    BY RelocatedType
  <1>3. QED
    BY <1>1, <1>2 DEF Linking

\* Instructions are replaced one by one.
LEMMA NoBxLrType ==
    ASSUME NEW n \in Nat, NEW data \in Sized(n)
    PROVE  NoBxLr(data) \in Sized(n)
  <1> DEFINE Around(i) == {j \in 1 .. i : i < j + 4 /\ j + 3 <= Len(data) /\ SubSeq(data, j, j + 3) = BX_LR}
             byte(i) == IF Around(i) = {} THEN data[i] ELSE MOV_PC_LR[i + 1 - CHOOSE j \in Around(i) : TRUE]
  <1>1. data \in Seq(Nat) /\ Len(data) = n /\ DOMAIN data = 1 .. n
    BY DEF Sized
  <1>2. NoBxLr(data) = [i \in 1 .. n |-> byte(i)]
    BY <1>1, Zenon DEF NoBxLr
  <1>3. \A i \in 1 .. 4 : MOV_PC_LR[i] \in Nat
    BY DEF MOV_PC_LR
  <1>4. ASSUME NEW i \in 1 .. n PROVE byte(i) \in Nat
    <2>1. CASE Around(i) = {}
      BY <1>1, <2>1
    <2>2. CASE Around(i) # {}
      <3>1. PICK j : j = CHOOSE k \in Around(i) : TRUE
        OBVIOUS
      <3>2. j \in Around(i)
        <4> HIDE DEF Around
        <4> QED BY <2>2, <3>1
      <3>3. j \in 1 .. i /\ i < j + 4
        BY <3>2
      <3>4. i + 1 - j \in 1 .. 4
        BY <3>3
      <3>5. byte(i) = MOV_PC_LR[i + 1 - j]
        BY <2>2, <3>1, Zenon
      <3>6. QED
        BY <1>3, <3>4, <3>5
    <2>3. QED
      BY <2>1, <2>2
  <1> HIDE DEF byte
  <1>5. QED
    BY <1>2, <1>4 DEF Sized

\* A symbol: its value and its name.
Symbol == Nat \X Bytes

\* The symbols worth keeping are some of the table's.
LEMMA GetSymbolsType ==
    ASSUME NEW table \in Table
    PROVE  get_symbols(table) \in Seq(Symbol)
  <1> DEFINE Worth(s) == s[1] # 0 /\ s[2] # <<>> /\ s[2][1] # Dollar
             parts == [i \in DOMAIN table |-> IF Worth(table[i]) THEN <<table[i]>> ELSE <<>>]
  <1>1. table \in Seq(Symbol) /\ DOMAIN table = 1 .. Len(table) /\ Len(table) \in Nat
    BY DEF Table, Symbol
  <1>2. ASSUME NEW i \in DOMAIN table PROVE parts[i] \in Seq(Symbol)
    <2>1. table[i] \in Symbol
      BY <1>1
    <2>2. <<table[i]>> \in Seq(Symbol) /\ <<>> \in Seq(Symbol)
      BY <2>1
    <2>3. QED
      BY <2>2
  <1>3. get_symbols(table) = FlattenSeq(parts)
    BY Zenon DEF get_symbols
  <1>4. parts = [i \in 1 .. Len(table) |-> parts[i]]
    BY <1>1
  <1> HIDE DEF parts
  <1>5. parts \in Seq(Seq(Symbol))
    BY <1>1, <1>2, <1>4
  <1>6. QED
    BY <1>3, <1>5, FlattenType

\* One more is put among those that are sorted.
LEMMA InsertType ==
    ASSUME NEW sorted \in Seq(Symbol), NEW s \in Symbol
    PROVE  Insert(sorted, s) \in Seq(Symbol)
  <1> DEFINE lower == {i \in DOMAIN sorted : sorted[i][1] <= s[1]}
             n == Cardinality(lower)
             L == Len(sorted)
  <1>1. DOMAIN sorted = 1 .. L /\ L \in Nat
    OBVIOUS
  <1>2. n \in 0 .. L
    <2>1. IsFiniteSet(1 .. L) /\ Cardinality(1 .. L) = L
      BY <1>1, FS_Interval
    <2>2. lower \in SUBSET (1 .. L)
      BY <1>1
    <2> HIDE DEF lower, L
    <2>3. IsFiniteSet(lower) /\ Cardinality(lower) <= Cardinality(1 .. L)
      BY <2>1, <2>2, FS_Subset
    <2>4. Cardinality(lower) \in Nat
      BY <2>3, FS_CardinalityType
    <2>5. QED
      BY <1>1, <2>1, <2>3, <2>4
  <1>3. Insert(sorted, s) = SubSeq(sorted, 1, (1 + n) - 1) \o <<s>> \o SubSeq(sorted, 1 + n, L)
    BY Zenon DEF Insert, InsertAt
  <1> HIDE DEF n
  <1>4. SubSeq(sorted, 1, (1 + n) - 1) \in Seq(Symbol)
    <2>1. \A i \in 1 .. (1 + n) - 1 : sorted[i] \in Symbol
      BY <1>1, <1>2
    <2>2. (1 + n) - 1 \in Int /\ 1 \in Int
      BY <1>2
    <2>3. QED
      BY <2>1, <2>2, SubSeqProperties
  <1>5. SubSeq(sorted, 1 + n, L) \in Seq(Symbol)
    <2>1. \A i \in 1 + n .. L : sorted[i] \in Symbol
      BY <1>1, <1>2
    <2>2. 1 + n \in Int /\ L \in Int
      BY <1>1, <1>2
    <2>3. QED
      BY <2>1, <2>2, SubSeqProperties
  <1>6. <<s>> \in Seq(Symbol)
    OBVIOUS
  <1> DEFINE a == SubSeq(sorted, 1, (1 + n) - 1)
             b == SubSeq(sorted, 1 + n, L)
             c == <<s>>
  <1>7. a \in Seq(Symbol) /\ b \in Seq(Symbol) /\ c \in Seq(Symbol) /\ Insert(sorted, s) = a \o c \o b
    BY <1>3, <1>4, <1>5, <1>6
  <1> HIDE DEF a, b, c
  <1>8. a \o c \in Seq(Symbol)
    BY <1>7, ConcatProperties
  <1>9. QED
    BY <1>7, <1>8, ConcatProperties

\* The steps of the sorting.
InsertSteps(A, s) == [p \in A \X (1 .. Len(s)) |-> Insert(p[1], s[p[2]])]

\* Sorting puts them in one by one.
LEMMA SortedType ==
    ASSUME NEW table \in Table
    PROVE  sorted_symbols(table) \in Seq(Symbol)
  <1> DEFINE s == get_symbols(table)
             n == Len(s)
             A == Seq(Symbol)
             start == <<>>
             op(a, k) == Insert(a, s[k])
             Run(iter) == [t \in SUBSET (1 .. n) |-> IF t = {} THEN start
                                                    ELSE op(iter[t \ {Max(t)}], Max(t))]
             it == CHOOSE iter : iter = Run(iter)
             step == InsertSteps(A, s)
  <1>1. s \in Seq(Symbol) /\ DOMAIN s = 1 .. n /\ n \in Nat
    <2>1. s \in Seq(Symbol)
      BY GetSymbolsType
    <2> HIDE DEF s
    <2>2. QED
      BY <2>1
  <1>2. sorted_symbols(table) = it[1 .. n]
    BY <1>1, Zenon DEF sorted_symbols, FoldLeft, MapThenFoldSet
  <1> HIDE DEF s
  <1>3. \A a \in A, k \in 1 .. n : step[<<a, k>>] = op(a, k) /\ op(a, k) \in A
    <2>1. \A a \in A, k \in 1 .. n : step[<<a, k>>] = op(a, k)
      BY DEF InsertSteps
    <2>2. \A k \in 1 .. n : s[k] \in Symbol
      BY <1>1
    <2>3. \A a \in A, k \in 1 .. n : op(a, k) \in A
      BY <2>2, InsertType
    <2>4. QED
      BY <2>1, <2>3
  <1>4. step \in [A \X (1 .. n) -> A]
    <2>1. step = [q \in A \X (1 .. n) |-> op(q[1], q[2])]
      BY DEF InsertSteps
    <2> HIDE DEF op, step, A, n
    <2>2. \A q \in A \X (1 .. n) : op(q[1], q[2]) \in A
      BY <1>3
    <2>3. QED
      BY <2>1, <2>2
  <1>5. start \in A
    OBVIOUS
  <1> HIDE DEF n, op, step, start, A
  <1>6. \E g : g = Run(g)
    <2>1. PICK g : Folding(g, A, start, n, step)
      <3> HIDE DEF Run
      <3> QED BY <1>1, <1>4, <1>5, FoldExists
    <2>2. ASSUME NEW t \in SUBSET (1 .. n), t # {}
          PROVE  g[t \ {Max(t)}] \in A /\ Max(t) \in 1 .. n
      BY <2>1, <2>2, <1>1, MaxInSet DEF Folding
    <2>3. g = Run(g)
      BY <2>1, <2>2, <1>3 DEF Folding
    <2>4. QED
      BY <2>3
  <1>7. it = Run(it)
    BY <1>6
  <1> HIDE DEF it
  <1>8. FoldsTo(it, A, start, n, step)
    <2>1. it[{}] = start
      BY <1>7
    <2>2. ASSUME NEW t \in SUBSET (1 .. n), t # {}, it[t \ {Max(t)}] \in A
          PROVE  it[t] = step[<<it[t \ {Max(t)}], Max(t)>>]
      BY <1>1, <1>3, <1>7, <2>2, MaxInSet
    <2>3. QED
      BY <2>1, <2>2 DEF FoldsTo
  <1> HIDE DEF Run
  <1>9. PICK f : Stepping(f, A, start, n, step, it[1 .. n])
    BY <1>1, <1>4, <1>5, <1>8, FoldSteps
  <1>10. it[1 .. n] \in A
    BY <1>1, <1>9 DEF Stepping
  <1>11. QED
    BY <1>2, <1>10 DEF A

\* What is written of the symbols are numbers.
LEMMA SymbolsType ==
    ASSUME NEW table \in Table
    PROVE  Symbols(table) \in Seq(Nat)
  <1> DEFINE OfSymbol(s) == BigEndian(s[1]) \o s[2] \o <<0>>
             sorted == sorted_symbols(table)
             parts == [i \in DOMAIN sorted |-> OfSymbol(sorted[i])]
  <1>1. sorted \in Seq(Symbol)
    BY SortedType
  <1>2. Symbols(table) = FlattenSeq(parts)
    BY Zenon DEF Symbols
  <1> HIDE DEF sorted
  <1>3. DOMAIN sorted = 1 .. Len(sorted) /\ Len(sorted) \in Nat
    BY <1>1
  <1>4. ASSUME NEW s \in Symbol PROVE OfSymbol(s) \in Seq(Nat)
    <2>1. s[1] \in Nat /\ s[2] \in Bytes
      BY DEF Symbol
    <2>2. BigEndian(s[1]) \in Seq(Nat) /\ s[2] \in Seq(Nat) /\ <<0>> \in Seq(Nat)
      BY <2>1, BigEndianWord, BytesAreNumbers DEF IsWord, Sized
    <2> DEFINE a == BigEndian(s[1])
               b == s[2]
               c == <<0>>
    <2>3. a \in Seq(Nat) /\ b \in Seq(Nat) /\ c \in Seq(Nat)
      BY <2>2
    <2> HIDE DEF a, b, c
    <2>4. a \o b \in Seq(Nat)
      BY <2>3, ConcatProperties
    <2>5. a \o b \o c \in Seq(Nat)
      BY <2>3, <2>4, ConcatProperties
    <2>6. QED
      BY <2>5 DEF a, b, c
  <1> HIDE DEF OfSymbol
  <1>5. parts \in Seq(Seq(Nat))
    <2>1. \A i \in 1 .. Len(sorted) : OfSymbol(sorted[i]) \in Seq(Nat)
      BY <1>1, <1>3, <1>4
    <2>2. parts = [i \in 1 .. Len(sorted) |-> OfSymbol(sorted[i])]
      BY <1>3
    <2> HIDE DEF parts
    <2>3. QED
      BY <1>3, <2>1, <2>2
  <1> HIDE DEF parts
  <1>6. QED
    BY <1>2, <1>5, FlattenType

-----------------------------------------------------------------------------
(* The tape: a program's block.                                            *)

\* The length of a section with its flag.
LengthWord(data, flag) == [BigEndian(Len(data)) EXCEPT ![1] = @ + flag]

\* A word of which the first byte is changed.
LEMMA FirstByteSet ==
    ASSUME NEW w, IsWord(w), NEW x \in Nat
    PROVE  /\ IsWord([w EXCEPT ![1] = x])
           /\ [w EXCEPT ![1] = x][1] = x
           /\ \A i \in 2 .. 4 : [w EXCEPT ![1] = x][i] = w[i]
  <1> DEFINE v == [w EXCEPT ![1] = x]
  <1>1. w \in Seq(Nat) /\ Len(w) = 4 /\ 1 \in 1 .. Len(w)
    BY DEF IsWord
  <1>2. v \in Seq(Nat) /\ Len(v) = Len(w) /\ \A j \in 1 .. Len(w) : v[j] = IF j = 1 THEN x ELSE w[j]
    BY <1>1, ExceptSeq
  <1>3. 1 \in 1 .. Len(w) /\ \A i \in 2 .. 4 : i \in 1 .. Len(w) /\ i # 1
    BY <1>1
  <1> HIDE DEF v
  <1>4. v[1] = x
    BY <1>2, <1>3, Zenon
  <1>5. \A i \in 2 .. 4 : v[i] = w[i]
    BY <1>2, <1>3, Zenon
  <1>6. IsWord(v)
    BY <1>1, <1>2 DEF IsWord
  <1>7. QED
    BY <1>4, <1>5, <1>6 DEF v

\* The bytes of a word are numbers, and all that Number() looks at.
LEMMA NumberSame ==
    ASSUME NEW v, NEW w, \A i \in 1 .. 4 : v[i] = w[i]
    PROVE  Number(v) = Number(w)
  <1>1. v[1] = w[1] /\ v[2] = w[2] /\ v[3] = w[3] /\ v[4] = w[4]
    OBVIOUS
  <1>2. QED
    BY <1>1 DEF Number

\* The length of a section comes back from its word, and so does its flag.
LEMMA LengthWordReads ==
    ASSUME NEW data \in Seq(Nat), Len(data) < MaxAddress, NEW flag \in {0, 128}
    PROVE  /\ IsWord(LengthWord(data, flag))
           /\ Unflagged(LengthWord(data, flag)) = Len(data)
           /\ LengthWord(data, flag)[1] >= 128 <=> flag = 128
  <1> DEFINE n == Len(data)
             w == BigEndian(n)
             x == w[1] + flag
             v == LengthWord(data, flag)
             y == v[1] % 128
             u == [v EXCEPT ![1] = y]
  <1>1. n \in Nat
    OBVIOUS
  <1>2. IsWord(w) /\ Number(w) = n /\ w[1] \in 0 .. 127
    BY <1>1, BigEndianWord, BigEndianReads
  <1>3. v = [w EXCEPT ![1] = x]
    BY Zenon DEF LengthWord
  <1>4. Unflagged(v) = Number(u)
    BY Zenon DEF Unflagged
  <1> HIDE DEF w, n, v
  <1>5. x \in Nat /\ x % 128 = w[1] /\ (x >= 128 <=> flag = 128)
    <2>1. \A a \in 0 .. 127, f \in {0, 128} :
             a + f \in Nat /\ (a + f) % 128 = a /\ (a + f >= 128 <=> f = 128)
      OBVIOUS
    <2>2. PICK a \in 0 .. 127, f \in {0, 128} : a = w[1] /\ f = flag
      BY <1>2
    <2>3. a + f \in Nat /\ (a + f) % 128 = a /\ (a + f >= 128 <=> f = 128)
      BY <2>1
    <2>4. x = a + f
      BY <2>2
    <2> HIDE DEF x
    <2>5. QED
      BY <2>2, <2>3, <2>4, Zenon
  <1> HIDE DEF x
  <1>6. IsWord(v) /\ v[1] = x /\ \A i \in 2 .. 4 : v[i] = w[i]
    <2>1. IsWord(w) /\ x \in Nat
      BY <1>2, <1>5
    <2>2. /\ IsWord([w EXCEPT ![1] = x]) /\ [w EXCEPT ![1] = x][1] = x
          /\ \A i \in 2 .. 4 : [w EXCEPT ![1] = x][i] = w[i]
      BY <2>1, FirstByteSet
    <2>3. QED
      BY <1>3, <2>2, Zenon
  <1>7. y = w[1] /\ y \in Nat
    BY <1>2, <1>5, <1>6
  <1> HIDE DEF y
  <1>8. u[1] = w[1] /\ \A i \in 2 .. 4 : u[i] = v[i]
    <2>1. IsWord(v) /\ y \in Nat
      BY <1>6, <1>7
    <2>2. /\ IsWord([v EXCEPT ![1] = y]) /\ [v EXCEPT ![1] = y][1] = y
          /\ \A i \in 2 .. 4 : [v EXCEPT ![1] = y][i] = v[i]
      BY <2>1, FirstByteSet
    <2>3. QED
      BY <1>7, <2>2, Zenon
  <1>9. Number(u) = Number(w)
    <2> HIDE DEF u
    <2>1. \A i \in 1 .. 4 : u[i] = w[i]
      BY <1>6, <1>8
    <2>2. QED
      BY <2>1, NumberSame
  <1>10. QED
    BY <1>2, <1>4, <1>5, <1>6, <1>9 DEF v, n

\* The length with its flag is a word.
LEMMA LengthWordType ==
    ASSUME NEW data \in Seq(Nat), NEW flag \in {0, 128}
    PROVE  IsWord(LengthWord(data, flag))
  <1> DEFINE w == BigEndian(Len(data))
             x == w[1] + flag
  <1>1. IsWord(w)
    <2>1. Len(data) \in Nat
      OBVIOUS
    <2>2. QED
      BY <2>1, BigEndianWord
  <1>2. LengthWord(data, flag) = [w EXCEPT ![1] = x]
    BY Zenon DEF LengthWord
  <1> HIDE DEF w
  <1>3. x \in Nat
    <2>1. w \in Seq(Nat) /\ 1 \in 1 .. Len(w)
      BY <1>1 DEF IsWord
    <2>2. w[1] \in Nat
      BY <2>1, ElementOfSeq
    <2>3. QED
      BY <2>2
  <1> HIDE DEF x
  <1>4. IsWord([w EXCEPT ![1] = x])
    BY <1>1, <1>3, FirstByteSet
  <1>5. QED
    BY <1>2, <1>4

\* The sections of a block, and what of its header and data is where.
LEMMA FormatParts ==
    ASSUME NEW data \in Seq(Nat), NEW symbols \in Seq(Nat), NEW header \in Seq(Nat), NEW final \in BOOLEAN,
           NEW flag \in {0, 128}, flag = IF final /\ header # <<>> THEN 128 ELSE 0,
           NEW block, block = to_synapse_format(data, symbols, header, final)
    PROVE  /\ block \in Seq(Nat)
           /\ PartAt(block, 0, header)
           /\ PartAt(block, Len(header), LengthWord(pad(data, 4), flag))
           /\ PartAt(block, Len(header) + 4, pad(data, 4))
  <1> DEFINE d == pad(data, 4)
             w == LengthWord(d, flag)
             s == pad(symbols, 4)
             v == LengthWord(s, 0)
             h == header
             first == w \o d
             second == v \o s
  <1>1. d \in Seq(Nat) /\ s \in Seq(Nat)
    BY Padded
  <1>2. /\ first = Section(d, IF final /\ header # <<>> THEN 128 ELSE 0)
        /\ second = Section(s, 0)
    BY Zenon DEF Section, LengthWord
  <1>3. block = h \o first \o second
    BY <1>2, Zenon DEF to_synapse_format
  <1>4. w \in Seq(Nat) /\ Len(w) = 4 /\ v \in Seq(Nat)
    <2> HIDE DEF d, s
    <2>1. IsWord(w) /\ IsWord(v)
      BY <1>1, LengthWordType
    <2>2. QED
      BY <2>1 DEF IsWord
  <1>5. h \in Seq(Nat) /\ h = header
    OBVIOUS
  <1> HIDE DEF w, v, d, s, h
  <1>6. first \in Seq(Nat) /\ second \in Seq(Nat) /\ PartAt(first, 0, w) /\ PartAt(first, 4, d)
    <2>1. w \o d \in Seq(Nat) /\ v \o s \in Seq(Nat)
      BY <1>1, <1>4, ConcatProperties
    <2>2. PartAt(w \o d, Len(w), d)
      BY <1>1, <1>4, PartBehind
    <2>3. PartAt(w, 0, w)
      BY <1>4, PartItself
    <2>4. PartAt(w \o d, 0, w)
      BY <1>1, <1>4, <2>3, PartBefore
    <2>5. QED
      BY <1>4, <2>1, <2>2, <2>4
  <1> HIDE DEF first, second
  <1>7. h \o first \in Seq(Nat) /\ h \o first \o second \in Seq(Nat)
    <2>1. h \o first \in Seq(Nat)
      BY <1>5, <1>6, ConcatProperties
    <2>2. QED
      BY <1>6, <2>1, ConcatProperties
  <1>8. Len(h) \in Nat /\ Len(h \o first) \in Nat
    BY <1>5, <1>7
  <1>9. PartAt(h \o first, Len(h), first)
    BY <1>5, <1>6, PartBehind
  <1>10. PartAt(h \o first, Len(h), w)
    <2>1. PartAt(h \o first, Len(h) + 0, w)
      <3>1. PICK t \in Seq(Nat), n \in Nat, m \in Nat : t = h \o first /\ n = Len(h) /\ m = 0
        <4>1. 0 \in Nat
          OBVIOUS
        <4>2. QED
          BY <1>7, <1>8, <4>1, Zenon
      <3>2. PartAt(t, n, first) /\ Len(t) \in Nat
        BY <1>8, <1>9, <3>1, Zenon
      <3>3. PartAt(first, m, w)
        BY <1>6, <3>1, Zenon
      <3>4. PartAt(t, n + m, w)
        BY <1>4, <1>6, <3>2, <3>3, PartWithin
      <3>5. QED
        BY <3>1, <3>4, Zenon
    <2>2. Len(h) + 0 = Len(h)
      BY <1>8
    <2>3. QED
      BY <2>1, <2>2
  <1>11. PartAt(h \o first, Len(h) + 4, d)
    <2>1. PICK m \in Nat : m = 4
      OBVIOUS
    <2>2. PartAt(first, m, d)
      BY <1>6, <2>1
    <2>3. PartAt(h \o first, Len(h) + m, d)
      BY <1>1, <1>6, <1>8, <1>9, <2>2, PartWithin
    <2>4. QED
      BY <2>1, <2>3
  <1>12. PartAt(h \o first, 0, h)
    <2>1. PartAt(h, 0, h)
      BY <1>5, PartItself
    <2>2. QED
      BY <1>5, <1>6, <2>1, PartBefore
  <1> DEFINE b == h \o first
  <1>13. b \in Seq(Nat) /\ PartAt(b, 0, h) /\ PartAt(b, Len(h), w) /\ PartAt(b, Len(h) + 4, d)
         /\ block = b \o second /\ b \o second \in Seq(Nat)
    BY <1>3, <1>7, <1>10, <1>11, <1>12
  <1> HIDE DEF b
  <1>14. 0 \in Nat /\ Len(h) + 4 \in Nat
    BY <1>8
  <1>15. PartAt(b \o second, 0, h) /\ PartAt(b \o second, Len(h), w) /\ PartAt(b \o second, Len(h) + 4, d)
    BY <1>1, <1>4, <1>5, <1>6, <1>8, <1>13, <1>14, PartBefore
  <1>16. QED
    BY <1>5, <1>13, <1>15, Zenon DEF w, d

\* A program's name on the tape.
LEMMA NamedType ==
    ASSUME NEW name \in Bytes
    PROVE  Named(name) \in Seq(Nat) /\ Len(Named(name)) = TAPE_NAME_LEN
  <1>1. TAPE_NAME_LEN \in Nat
    BY TapeLoaderAssumption
  <1>2. name \in Seq(0 .. 255)
    BY DEF Bytes
  <1> DEFINE byte(i) == IF i < TAPE_NAME_LEN /\ i <= Len(name) THEN name[i] ELSE 0
  <1>3. ASSUME NEW i \in 1 .. TAPE_NAME_LEN PROVE byte(i) \in Nat
    <2>1. CASE i < TAPE_NAME_LEN /\ i <= Len(name)
      <3>1. i \in 1 .. Len(name)
        BY <1>1, <1>2, <2>1
      <3>2. name[i] \in 0 .. 255
        BY <1>2, <3>1, ElementOfSeq
      <3>3. byte(i) = name[i]
        BY <2>1, Zenon
      <3> HIDE DEF byte
      <3>4. QED
        BY <3>2, <3>3
    <2>2. CASE ~(i < TAPE_NAME_LEN /\ i <= Len(name))
      BY <2>2
    <2>3. QED
      BY <2>1, <2>2
  <1>4. Named(name) = [i \in 1 .. TAPE_NAME_LEN |-> byte(i)]
    BY Zenon DEF Named
  <1> HIDE DEF byte
  <1>5. QED
    BY <1>1, <1>3, <1>4

\* What of a program goes into memory, and its header.
Image(p)  == pad(NoBxLr(pre_link(p).data), 4)
Entry(p)  == Lookup(p.table, Main)
Header(p) == BigEndian(Entry(p)) \o Named(p.name) \o BigEndian(p.addr)
Flag(final) == IF final THEN 128 ELSE 0

\* What goes onto the tape of a program that can be linked.
LEMMA ProgramType ==
    ASSUME NEW p, IsProgram(p), ~pre_link(p).raises
    PROVE  /\ Entry(p) \in Nat /\ Entry(p) < MaxAddress
           /\ p.addr \in TapeAddr .. SYMBOLS_ADDR /\ p.addr \in Nat /\ p.addr < MaxAddress
           /\ NoBxLr(pre_link(p).data) \in Sized(Len(p.data))
           /\ Image(p) \in Seq(Nat)
           /\ Len(NoBxLr(pre_link(p).data)) <= Len(Image(p))
           /\ \A i \in DOMAIN NoBxLr(pre_link(p).data) : Image(p)[i] = NoBxLr(pre_link(p).data)[i]
           /\ p.addr + Len(Image(p)) <= SYMBOLS_ADDR
           /\ Len(Image(p)) = Len(pad(p.data, 4))
  <1>1. /\ p.table \in Table /\ p.data \in Bytes
        /\ \A i \in DOMAIN p.table : p.table[i][2] = Main => p.table[i][1] < MaxAddress
        /\ p.addr \in TapeAddr .. SYMBOLS_ADDR /\ p.addr + Len(pad(p.data, 4)) <= SYMBOLS_ADDR
    BY DEF IsProgram
  <1>2. Entry(p) \in Nat /\ Entry(p) < MaxAddress
    <2>1. Defines(p.table, Main)
      BY PreLinkType
    <2>2. p.table \in Seq(Nat \X Bytes)
      BY <1>1 DEF Table
    <2>3. PICK i \in DOMAIN p.table : p.table[i][2] = Main /\ Lookup(p.table, Main) = p.table[i][1]
      BY <2>1, <2>2, LookupGives
    <2>4. p.table[i][1] \in Nat
      BY <1>1, TableEntry
    <2>5. QED
      BY <1>1, <2>3, <2>4 DEF Entry
  <1>3. p.addr \in Nat /\ p.addr < MaxAddress
    <2>1. MaxAddress \in Nat
      BY SMT DEF MaxAddress
    <2>2. TapeAddr \in Nat /\ SYMBOLS_ADDR \in TapeAddr .. MaxAddress - 1
      BY TapeLoaderAssumption
    <2>3. QED
      BY <1>1, <2>1, <2>2
  <1> DEFINE d == NoBxLr(pre_link(p).data)
  <1>4. d \in Sized(Len(p.data)) /\ Len(p.data) \in Nat /\ p.data \in Sized(Len(p.data))
    <2>1. Len(p.data) \in Nat /\ p.data \in Sized(Len(p.data))
      BY <1>1, BytesAreNumbers
    <2>2. QED
      BY <2>1, PreLinkType, NoBxLrType
  <1> HIDE DEF d
  <1>5. d \in Seq(Nat) /\ Len(d) = Len(p.data) /\ p.data \in Seq(Nat)
    BY <1>4 DEF Sized
  <1>6. /\ pad(d, 4) \in Seq(Nat) /\ Len(pad(d, 4)) >= Len(d)
        /\ \A i \in 1 .. Len(d) : pad(d, 4)[i] = d[i]
        /\ Len(pad(d, 4)) = Len(pad(p.data, 4))
    BY <1>5, Padded
  <1>7. Image(p) = pad(d, 4)
    BY Zenon DEF Image, d
  <1>8. DOMAIN d = 1 .. Len(d) /\ Len(d) \in Nat
    BY <1>5
  <1>9. p.addr + Len(Image(p)) <= SYMBOLS_ADDR /\ Len(d) <= Len(Image(p))
    BY <1>1, <1>6, <1>7, <1>8
  <1>10. \A i \in DOMAIN d : Image(p)[i] = d[i]
    BY <1>6, <1>7, <1>8
  <1>11. QED
    BY <1>1, <1>2, <1>3, <1>4, <1>6, <1>7, <1>9, <1>10 DEF d

\* The header of a program's block.
LEMMA HeaderParts ==
    ASSUME NEW p, IsProgram(p), ~pre_link(p).raises
    PROVE  /\ Header(p) \in Seq(Nat) /\ Len(Header(p)) = 8 + TAPE_NAME_LEN /\ Header(p) # <<>>
           /\ PartAt(Header(p), 0, BigEndian(Entry(p)))
           /\ PartAt(Header(p), 4, Named(p.name))
           /\ PartAt(Header(p), 4 + TAPE_NAME_LEN, BigEndian(p.addr))
  <1> DEFINE e == BigEndian(Entry(p))
             n == Named(p.name)
             a == BigEndian(p.addr)
  <1>1. e \in Seq(Nat) /\ Len(e) = 4 /\ a \in Seq(Nat) /\ Len(a) = 4
    BY ProgramType, BigEndianWord DEF IsWord
  <1>2. n \in Seq(Nat) /\ Len(n) = TAPE_NAME_LEN /\ TAPE_NAME_LEN \in Nat
    BY NamedType, TapeLoaderAssumption DEF IsProgram
  <1>3. Header(p) = e \o n \o a
    BY Zenon DEF Header
  <1> HIDE DEF e, n, a
  <1> DEFINE b == e \o n
  <1>4. b \in Seq(Nat) /\ Len(b) = Len(e) + Len(n) /\ PartAt(b, Len(e), n)
    BY <1>1, <1>2, ConcatProperties, PartBehind
  <1>5. PartAt(b, 0, e)
    <2>1. PartAt(e, 0, e) /\ 0 \in Nat
      BY <1>1, PartItself
    <2>2. QED
      BY <1>1, <1>2, <2>1, PartBefore
  <1> HIDE DEF b
  <1>6. b \o a \in Seq(Nat) /\ Len(b \o a) = Len(b) + Len(a) /\ PartAt(b \o a, Len(b), a)
    BY <1>1, <1>4, ConcatProperties, PartBehind
  <1>7. PartAt(b \o a, 0, e)
    <2>1. 0 \in Nat
      OBVIOUS
    <2>2. QED
      BY <1>1, <1>4, <1>5, <2>1, PartBefore
  <1>8. PartAt(b \o a, Len(e), n)
    <2>1. Len(e) \in Nat
      BY <1>1
    <2>2. QED
      BY <1>1, <1>2, <1>4, <2>1, PartBefore
  <1>9. Header(p) = b \o a
    BY <1>3 DEF b
  <1>10. Len(b) = 4 + TAPE_NAME_LEN /\ Len(b \o a) = 8 + TAPE_NAME_LEN
    BY <1>1, <1>2, <1>4, <1>6
  <1>11. Header(p) # <<>>
    <2>1. Len(Header(p)) # 0 /\ Len(<<>>) = 0
      BY <1>2, <1>9, <1>10
    <2>2. QED
      BY <2>1
  <1>12. QED
    BY <1>1, <1>6, <1>7, <1>8, <1>9, <1>10, <1>11 DEF e, n, a

\* What is where in a program's block.
LEMMA ProgramParts ==
    ASSUME NEW p, IsProgram(p), ~pre_link(p).raises, NEW final \in BOOLEAN,
           NEW block, block = create_binary(p, final)
    PROVE  /\ block \in Seq(Nat)
           /\ PartAt(block, 0, BigEndian(Entry(p)))
           /\ PartAt(block, 4, Named(p.name))
           /\ PartAt(block, 4 + TAPE_NAME_LEN, BigEndian(p.addr))
           /\ PartAt(block, 8 + TAPE_NAME_LEN, LengthWord(Image(p), Flag(final)))
           /\ PartAt(block, 12 + TAPE_NAME_LEN, Image(p))
  <1> DEFINE h == Header(p)
             d == NoBxLr(pre_link(p).data)
             s == Symbols(p.table)
             N == TAPE_NAME_LEN
  <1>1. block = to_synapse_format(d, s, h, final)
    BY Zenon DEF create_binary, Header, Entry
  <1>2. d \in Seq(Nat) /\ pad(d, 4) = Image(p)
    BY ProgramType DEF Sized, Image
  <1>3. s \in Seq(Nat)
    BY SymbolsType DEF IsProgram
  <1>4. h \in Seq(Nat) /\ Len(h) = 8 + N /\ h # <<>>
        /\ PartAt(h, 0, BigEndian(Entry(p))) /\ PartAt(h, 4, Named(p.name)) /\ PartAt(h, 4 + N, BigEndian(p.addr))
    BY HeaderParts
  <1>5. Flag(final) \in {0, 128} /\ Flag(final) = IF final /\ h # <<>> THEN 128 ELSE 0
    BY <1>4 DEF Flag
  <1> HIDE DEF h, d, s
  <1>6. /\ block \in Seq(Nat) /\ PartAt(block, 0, h)
        /\ PartAt(block, Len(h), LengthWord(pad(d, 4), Flag(final)))
        /\ PartAt(block, Len(h) + 4, pad(d, 4))
    <2>1. PICK f \in {0, 128} : f = Flag(final)
      BY <1>5
    <2>2. f \in {0, 128} /\ f = IF final /\ h # <<>> THEN 128 ELSE 0
      BY <1>5, <2>1
    <2>3. d \in Seq(Nat) /\ s \in Seq(Nat) /\ h \in Seq(Nat) /\ final \in BOOLEAN
      BY <1>2, <1>3, <1>4
    <2>4. /\ block \in Seq(Nat) /\ PartAt(block, 0, h)
          /\ PartAt(block, Len(h), LengthWord(pad(d, 4), f))
          /\ PartAt(block, Len(h) + 4, pad(d, 4))
      BY <1>1, <2>2, <2>3, FormatParts, SMT
    <2>5. QED
      BY <2>1, <2>4
  <1>7. Len(block) \in Nat /\ N \in Nat
    BY <1>6, TapeLoaderAssumption
  <1>8. BigEndian(Entry(p)) \in Seq(Nat) /\ Named(p.name) \in Seq(Nat) /\ BigEndian(p.addr) \in Seq(Nat)
    BY ProgramType, BigEndianWord, NamedType DEF IsWord, IsProgram
  <1>9. \A n \in Nat, u \in Seq(Nat) : PartAt(h, n, u) => PartAt(block, n, u)
    <2>1. ASSUME NEW n \in Nat, NEW u \in Seq(Nat), PartAt(h, n, u) PROVE PartAt(block, n, u)
      <3>1. PICK z \in Nat : z = 0
        OBVIOUS
      <3>2. PartAt(block, z + n, u)
        BY <1>4, <1>6, <1>7, <2>1, <3>1, PartWithin
      <3>3. z + n = n
        BY <3>1
      <3>4. QED
        BY <3>2, <3>3
    <2>2. QED
      BY <2>1
  <1>10. 0 \in Nat /\ 4 \in Nat /\ 4 + N \in Nat /\ (8 + N) + 4 = 12 + N
    BY <1>7
  <1>11. PartAt(block, 0, BigEndian(Entry(p))) /\ PartAt(block, 4, Named(p.name))
         /\ PartAt(block, 4 + N, BigEndian(p.addr))
    BY <1>4, <1>8, <1>9, <1>10
  <1>12. PartAt(block, 8 + N, LengthWord(Image(p), Flag(final))) /\ PartAt(block, 12 + N, Image(p))
    BY <1>2, <1>4, <1>6, <1>10
  <1>13. QED
    BY <1>6, <1>11, <1>12

-----------------------------------------------------------------------------
(* The tape: its blocks, and that from_binary() finds them.                *)

\* A further data file on the tape.
LEMMA BinType ==
    ASSUME NEW data \in Bytes
    PROVE  to_synapse_format(data, <<>>, <<>>, FALSE) \in Seq(Nat)
  <1>1. data \in Seq(Nat) /\ <<>> \in Seq(Nat)
    BY BytesAreNumbers DEF Sized
  <1>2. PICK f \in {0, 128} : f = 0
    OBVIOUS
  <1>3. f \in {0, 128} /\ f = IF FALSE /\ <<>> # <<>> THEN 128 ELSE 0
    BY <1>2
  <1> DEFINE block == to_synapse_format(data, <<>>, <<>>, FALSE)
             none == FALSE
             nothing == <<>>
  <1>4. none \in BOOLEAN /\ nothing \in Seq(Nat) /\ block = to_synapse_format(data, nothing, nothing, none)
    BY <1>1
  <1>5. f = IF none /\ nothing # <<>> THEN 128 ELSE 0
    BY <1>2
  <1> HIDE DEF block, none, nothing
  <1>6. block \in Seq(Nat)
    BY <1>1, <1>3, <1>4, <1>5, FormatParts, SMT
  <1>7. QED
    BY <1>6 DEF block

\* The blocks of a tape, and the program in the k-th.
Blocks(n) == CreatedBlocks(Tape[n])

HasProgram(n, k) == k \in (1 .. Len(Tape[n].loader)) \cup {Len(Blocks(n))}

ProgramOf(n, k) == IF k <= Len(Tape[n].loader) THEN Tape[n].loader[k] ELSE Tape[n].program

\* What the assumption says of a tape.
LEMMA TapeType ==
    ASSUME NEW n \in Created
    PROVE  /\ Tape[n].loader \in Seq(Programs(Tape[n])) /\ Tape[n].bins \in Seq(Bytes)
           /\ \A p \in Programs(Tape[n]) : IsProgram(p) /\ ~pre_link(p).raises
           /\ Tape[n].program \in Programs(Tape[n])
           /\ \A block \in ToSet(Blocks(n)) : Len(block) < MaxAddress
  <1>1. n \in DOMAIN Tape /\ \A p \in Programs(Tape[n]) : ~pre_link(p).raises
    BY DEF Created
  <1>2. QED
    BY <1>1, TapeLoaderAssumption, Zenon DEF Programs, Blocks

\* The blocks of a tape: those with a program in them are what create_binary() made of it.
LEMMA BlocksAre ==
    ASSUME NEW n \in Created
    PROVE  /\ Blocks(n) \in Seq(Seq(Nat))
           /\ Len(Tape[n].loader) \in Nat
           /\ Len(Blocks(n)) \in Nat /\ Len(Tape[n].loader) < Len(Blocks(n))
           /\ \A k \in 1 .. Len(Blocks(n)) : Len(Blocks(n)[k]) < MaxAddress
           /\ \A k : HasProgram(n, k) =>
                 /\ k \in 1 .. Len(Blocks(n))
                 /\ Blocks(n)[k] = create_binary(ProgramOf(n, k), k = Len(Blocks(n)))
                 /\ IsProgram(ProgramOf(n, k)) /\ ~pre_link(ProgramOf(n, k)).raises
  <1> DEFINE l == Tape[n].loader
             b == Tape[n].bins
             P == Programs(Tape[n])
             main == Tape[n].program
             first == [i \in DOMAIN l |-> create_binary(l[i], FALSE)]
             second == [i \in DOMAIN b |-> to_synapse_format(b[i], <<>>, <<>>, FALSE)]
             third == <<create_binary(main, TRUE)>>
  <1>1. l \in Seq(P) /\ b \in Seq(Bytes) /\ main \in P
    BY TapeType
  <1>2. \A p \in P : IsProgram(p) /\ ~pre_link(p).raises
    BY TapeType
  <1>3. Blocks(n) = first \o second \o third
    BY Zenon DEF Blocks, CreatedBlocks
  <1> HIDE DEF P
  <1>4. \A p \in P, final \in BOOLEAN : create_binary(p, final) \in Seq(Nat)
    BY <1>2, ProgramParts, Zenon
  <1>5. Len(l) \in Nat /\ DOMAIN l = 1 .. Len(l) /\ (\A i \in 1 .. Len(l) : l[i] \in P)
    BY <1>1, ElementOfSeq
  <1>6. Len(b) \in Nat /\ DOMAIN b = 1 .. Len(b) /\ (\A i \in 1 .. Len(b) : b[i] \in Bytes)
    BY <1>1, ElementOfSeq
  <1> HIDE DEF l, b, main
  <1>7. /\ first \in Seq(Seq(Nat)) /\ Len(first) = Len(l)
        /\ \A i \in 1 .. Len(l) : first[i] = create_binary(l[i], FALSE)
    <2>1. \A i \in 1 .. Len(l) : create_binary(l[i], FALSE) \in Seq(Nat)
      BY <1>4, <1>5
    <2>2. first \in [1 .. Len(l) -> Seq(Nat)]
      BY <1>5, <2>1
    <2>3. \A i \in 1 .. Len(l) : first[i] = create_binary(l[i], FALSE)
      BY <1>5
    <2> HIDE DEF first
    <2>4. QED
      BY <1>5, <2>2, <2>3, SequenceIs
  <1>8. second \in Seq(Seq(Nat)) /\ Len(second) = Len(b)
    <2>1. \A i \in 1 .. Len(b) : to_synapse_format(b[i], <<>>, <<>>, FALSE) \in Seq(Nat)
      BY <1>6, BinType
    <2>2. second \in [1 .. Len(b) -> Seq(Nat)]
      BY <1>6, <2>1
    <2> HIDE DEF second
    <2>3. QED
      BY <1>6, <2>2, SequenceIs
  <1>9. third \in Seq(Seq(Nat)) /\ Len(third) = 1 /\ third[1] = create_binary(main, TRUE)
    <2>1. create_binary(main, TRUE) \in Seq(Nat)
      BY <1>1, <1>4
    <2>2. QED
      BY <2>1, SequenceOfOne
  <1> HIDE DEF first, second, third
  <1>10. PICK T : T = Seq(Nat)
    OBVIOUS
  <1> DEFINE u == first \o second
  <1>16. /\ u \in Seq(T) /\ Len(u) = Len(l) + Len(b)
         /\ \A i \in 1 .. Len(l) : u[i] = create_binary(l[i], FALSE)
    <2>1. first \in Seq(T) /\ second \in Seq(T) /\ Len(first) = Len(l) /\ Len(second) = Len(b)
      BY <1>7, <1>8, <1>10
    <2>2. u \in Seq(T) /\ Len(u) = Len(first) + Len(second) /\ \A i \in 1 .. Len(first) : u[i] = first[i]
      BY <2>1, BothParts
    <2> HIDE DEF u
    <2>3. QED
      BY <1>7, <2>1, <2>2
  <1>11. /\ Blocks(n) \in Seq(Seq(Nat)) /\ Len(Blocks(n)) = Len(l) + Len(b) + 1
         /\ \A i \in 1 .. Len(l) : Blocks(n)[i] = create_binary(l[i], FALSE)
         /\ Blocks(n)[Len(Blocks(n))] = create_binary(main, TRUE)
    <2>1. Blocks(n) = u \o third /\ third \in Seq(T)
      BY <1>3, <1>9, <1>10
    <2> HIDE DEF u
    <2> DEFINE all == u \o third
    <2>2. /\ all \in Seq(T) /\ Len(all) = Len(u) + Len(third)
          /\ \A i \in 1 .. Len(u) : all[i] = u[i]
          /\ \A i \in 1 .. Len(third) : all[Len(u) + i] = third[i]
      <3>1. u \in Seq(T) /\ third \in Seq(T)
        BY <1>16, <2>1
      <3>2. all \in Seq(T) /\ Len(all) = Len(u) + Len(third)
        BY <3>1, BothParts
      <3>3. \A i \in 1 .. Len(u) : all[i] = u[i]
        BY <3>1, BothParts
      <3>4. \A i \in 1 .. Len(third) : all[Len(u) + i] = third[i]
        BY <3>1, BothParts
      <3>5. QED
        BY <3>2, <3>3, <3>4
    <2> HIDE DEF all
    <2>3. 1 \in 1 .. Len(third)
      BY <1>9
    <2>4. all[Len(u) + 1] = third[1]
      BY <2>2, <2>3, Zenon
    <2>5. \A i \in 1 .. Len(l) : i \in 1 .. Len(u)
      BY <1>5, <1>6, <1>16
    <2>6. Len(all) = Len(l) + Len(b) + 1 /\ Len(all) = Len(u) + 1
      BY <1>9, <1>16, <2>2
    <2>7. \A i \in 1 .. Len(l) : all[i] = create_binary(l[i], FALSE)
      BY <1>16, <2>2, <2>5
    <2>8. all[Len(all)] = create_binary(main, TRUE)
      BY <1>9, <2>4, <2>6
    <2>9. Blocks(n) = all
      BY <2>1 DEF all
    <2>10. QED
      BY <1>10, <2>2, <2>6, <2>7, <2>8, <2>9, Zenon
  <1>12. Len(Blocks(n)) \in Nat /\ Len(l) < Len(Blocks(n))
    BY <1>5, <1>6, <1>11
  <1>13. \A k \in 1 .. Len(Blocks(n)) : Len(Blocks(n)[k]) < MaxAddress
    <2>1. \A block \in ToSet(Blocks(n)) : Len(block) < MaxAddress
      BY TapeType
    <2>2. \A k \in 1 .. Len(Blocks(n)) : Blocks(n)[k] \in ToSet(Blocks(n))
      <3>1. DOMAIN Blocks(n) = 1 .. Len(Blocks(n))
        BY <1>11
      <3>2. QED
        BY <3>1 DEF ToSet
    <2>3. QED
      BY <2>1, <2>2
  <1>14. ASSUME NEW k, HasProgram(n, k)
         PROVE  /\ k \in 1 .. Len(Blocks(n))
                /\ Blocks(n)[k] = create_binary(ProgramOf(n, k), k = Len(Blocks(n)))
                /\ ProgramOf(n, k) \in P
    <2>1. k \in 1 .. Len(l) \/ k = Len(Blocks(n))
      BY <1>14 DEF HasProgram, l
    <2>2. ProgramOf(n, k) = IF k <= Len(l) THEN l[k] ELSE main
      BY Zenon DEF ProgramOf, l, main
    <2>3. CASE k \in 1 .. Len(l)
      <3>1. k <= Len(l) /\ k # Len(Blocks(n)) /\ k \in 1 .. Len(Blocks(n))
        BY <1>12, <1>5, <2>3
      <3>2. ProgramOf(n, k) = l[k] /\ (k = Len(Blocks(n))) = FALSE
        BY <2>2, <3>1
      <3>3. Blocks(n)[k] = create_binary(l[k], FALSE)
        BY <1>11, <2>3
      <3>4. QED
        BY <1>5, <2>3, <3>1, <3>2, <3>3
    <2>4. CASE k = Len(Blocks(n))
      <3>1. ~(k <= Len(l)) /\ k \in 1 .. Len(Blocks(n))
        BY <1>12, <1>5, <2>4
      <3>2. ProgramOf(n, k) = main /\ (k = Len(Blocks(n))) = TRUE
        BY <2>2, <2>4, <3>1
      <3>3. QED
        BY <1>1, <1>11, <2>4, <3>1, <3>2 DEF main
    <2>5. QED
      BY <2>1, <2>3, <2>4
  <1>15. QED
    BY <1>2, <1>5, <1>11, <1>12, <1>13, <1>14 DEF l

\* The blocks as they are in a file, each behind its length.
Framed(b) == [i \in DOMAIN b |-> BigEndian(Len(b[i])) \o b[i]]

\* A file's blocks, none of which is longer than memory.
Cuttable(b) == b \in Seq(Seq(Nat)) /\ \A k \in 1 .. Len(b) : Len(b[k]) < MaxAddress

\* The blocks behind their lengths are sequences of numbers.
LEMMA FramedType ==
    ASSUME NEW b, Cuttable(b)
    PROVE  /\ Framed(b) \in Seq(Seq(Nat)) /\ Len(Framed(b)) = Len(b) /\ Len(b) \in Nat
           /\ \A k \in 1 .. Len(b) : /\ b[k] \in Seq(Nat)
                                     /\ Framed(b)[k] = BigEndian(Len(b[k])) \o b[k]
                                     /\ Len(Framed(b)[k]) = 4 + Len(b[k])
                                     /\ PartAt(Framed(b)[k], 0, BigEndian(Len(b[k])))
                                     /\ PartAt(Framed(b)[k], 4, b[k])
  <1>1. b \in Seq(Seq(Nat)) /\ Len(b) \in Nat /\ DOMAIN b = 1 .. Len(b)
    BY DEF Cuttable
  <1>2. ASSUME NEW k \in 1 .. Len(b)
        PROVE  /\ b[k] \in Seq(Nat)
               /\ BigEndian(Len(b[k])) \o b[k] \in Seq(Nat)
               /\ Len(BigEndian(Len(b[k])) \o b[k]) = 4 + Len(b[k])
               /\ PartAt(BigEndian(Len(b[k])) \o b[k], 0, BigEndian(Len(b[k])))
               /\ PartAt(BigEndian(Len(b[k])) \o b[k], 4, b[k])
    <2> DEFINE x == b[k]
               w == BigEndian(Len(x))
    <2>1. x \in Seq(Nat)
      BY <1>1, ElementOfSeq
    <2> HIDE DEF x
    <2>2. Len(x) \in Nat
      BY <2>1
    <2>3. w \in Seq(Nat) /\ Len(w) = 4
      BY <2>2, BigEndianWord DEF IsWord
    <2> HIDE DEF w
    <2>4. w \o x \in Seq(Nat) /\ Len(w \o x) = 4 + Len(x)
      <3>1. w \o x \in Seq(Nat) /\ Len(w \o x) = Len(w) + Len(x)
        BY <2>1, <2>3, BothParts
      <3>2. QED
        BY <2>3, <3>1
    <2>5. PartAt(w \o x, 4, x)
      BY <2>1, <2>3, PartBehind
    <2>6. PartAt(w, 0, w) /\ 0 \in Nat
      BY <2>3, PartItself
    <2>7. PartAt(w \o x, 0, w)
      BY <2>1, <2>3, <2>6, PartBefore
    <2>8. QED
      BY <2>1, <2>4, <2>5, <2>7 DEF w, x
  <1> DEFINE fr == [i \in 1 .. Len(b) |-> BigEndian(Len(b[i])) \o b[i]]
  <1>3. Framed(b) = fr
    BY <1>1 DEF Framed
  <1>4. \A k \in 1 .. Len(b) : fr[k] = BigEndian(Len(b[k])) \o b[k]
    OBVIOUS
  <1>5. fr \in [1 .. Len(b) -> Seq(Nat)]
    BY <1>2
  <1> HIDE DEF fr
  <1>6. fr \in Seq(Seq(Nat)) /\ Len(fr) = Len(b)
    BY <1>1, <1>5
  <1>7. QED
    BY <1>1, <1>2, <1>3, <1>4, <1>6

\* Where the k-th block and its length are in the file.
LEMMA FramedAt ==
    ASSUME NEW b, Cuttable(b), NEW k \in 1 .. Len(b), NEW P, P = Len(Flat(Framed(b), k - 1)),
           NEW file, file = FlattenSeq(Framed(b))
    PROVE  /\ file \in Seq(Nat)
           /\ P \in Nat
           /\ Len(Flat(Framed(b), k)) = P + 4 + Len(b[k])
           /\ Len(b[k]) \in Nat
           /\ P + 4 + Len(b[k]) <= Len(file)
           /\ Number(SubSeq(file, P + 1, P + 4)) = Len(b[k])
           /\ SubSeq(file, P + 5, P + 4 + Len(b[k])) = b[k]
  <1> DEFINE f == Framed(b)
             x == b[k]
             w == BigEndian(Len(x))
  <1>1. f \in Seq(Seq(Nat)) /\ Len(f) = Len(b) /\ x \in Seq(Nat) /\ Len(f[k]) = 4 + Len(x)
        /\ PartAt(f[k], 0, w) /\ PartAt(f[k], 4, x)
    BY FramedType
  <1> HIDE DEF f
  <1>2. /\ P \in Nat
        /\ Len(Flat(f, k)) = P + Len(f[k])
        /\ P + Len(f[k]) <= Len(file)
        /\ \A i \in 1 .. Len(f[k]) : file[P + i] = f[k][i]
    <2>1. P = Len(Flat(f, k - 1)) /\ k \in 1 .. Len(f) /\ file = FlattenSeq(f)
      BY <1>1 DEF f
    <2>2. P \in Nat /\ Len(Flat(f, k)) = P + Len(f[k])
      BY <1>1, <2>1, FlatAt
    <2>3. PartAt(file, P, f[k])
      BY <1>1, <2>1, FlatAt
    <2>4. QED
      BY <2>2, <2>3 DEF PartAt
  <1>3. file \in Seq(Nat)
    BY <1>1, FlattenType DEF f
  <1>4. Len(x) \in Nat /\ Len(file) \in Nat /\ Len(x) < MaxAddress
    BY <1>1, <1>3 DEF Cuttable
  <1> HIDE DEF x
  <1>5. w \in Seq(Nat) /\ Len(w) = 4 /\ Number(w) = Len(x)
    BY <1>4, BigEndianWord, BigEndianReads DEF IsWord
  <1>6. \A i \in 1 .. 4 : file[P + i] = w[i]
    <2>1. \A i \in 1 .. Len(w) : f[k][0 + i] = w[i]
      BY <1>1 DEF PartAt
    <2> HIDE DEF w
    <2>2. \A i \in 1 .. 4 : i \in 1 .. Len(w) /\ 0 + i = i /\ i \in 1 .. Len(f[k])
      BY <1>1, <1>4, <1>5
    <2>3. SUFFICES ASSUME NEW i \in 1 .. 4 PROVE file[P + i] = w[i]
      OBVIOUS
    <2>4. file[P + i] = f[k][i]
      BY <1>2, <2>2
    <2>5. f[k][i] = w[i]
      BY <2>1, <2>2
    <2>6. QED
      BY <2>4, <2>5
  <1>7. \A i \in 1 .. Len(x) : file[P + 4 + i] = x[i]
    <2>1. \A i \in 1 .. Len(x) : f[k][4 + i] = x[i] /\ 4 + i \in 1 .. Len(f[k])
      BY <1>1, <1>4 DEF PartAt
    <2>2. \A i \in 1 .. Len(x) : P + (4 + i) = P + 4 + i
      BY <1>2
    <2>3. QED
      BY <1>2, <2>1, <2>2
  <1>8. \A i \in 1 .. Len(file) : file[i] \in Nat
    BY <1>3, ElementOfSeq
  <1>9. Number(SubSeq(file, P + 1, P + 4)) = Len(x)
    <2> DEFINE v == SubSeq(file, P + 1, P + 4)
    <2>1. \A i \in P + 1 .. P + 4 : file[i] \in Nat
      BY <1>1, <1>2, <1>4, <1>8
    <2>2. P + 1 \in Int /\ P + 4 \in Int /\ (P + 4) - (P + 1) + 1 = 4
      BY <1>2
    <2>3. \A i \in 1 .. 4 : v[i] = file[(P + 1) + i - 1]
      BY <2>1, <2>2, SubSeqProperties
    <2>4. \A i \in 1 .. 4 : (P + 1) + i - 1 = P + i
      BY <1>2
    <2> HIDE DEF v
    <2>5. \A i \in 1 .. 4 : v[i] = w[i]
      BY <1>6, <2>3, <2>4
    <2> HIDE DEF w
    <2>6. Number(v) = Number(w)
      BY <2>5, NumberSame
    <2>7. QED
      BY <1>5, <2>6 DEF v
  <1>10. SubSeq(file, P + 5, P + 4 + Len(x)) = x
    <2> DEFINE m == P + 5
               n == P + 4 + Len(x)
               v == SubSeq(file, m, n)
    <2>1. \A i \in m .. n : file[i] \in Nat
      BY <1>1, <1>2, <1>4, <1>8
    <2>2. m \in Int /\ n \in Int /\ n - m + 1 = Len(x) /\ (m <= n <=> Len(x) > 0)
      BY <1>2, <1>4
    <2>4. \A i \in 1 .. Len(x) : m + i - 1 = P + 4 + i
      BY <1>2, <1>4
    <2> HIDE DEF m, n
    <2>3. /\ v \in Seq(Nat) /\ Len(v) = IF m <= n THEN n - m + 1 ELSE 0
          /\ \A i \in 1 .. n - m + 1 : v[i] = file[m + i - 1]
      BY <2>1, <2>2, SubSeqProperties
    <2> HIDE DEF v
    <2>5. Len(v) = Len(x)
      BY <1>4, <2>2, <2>3
    <2>6. \A i \in 1 .. Len(x) : v[i] = x[i]
      BY <1>7, <2>2, <2>3, <2>4
    <2>7. v = x
      BY <1>1, <2>3, <2>5, <2>6, SeqEqual DEF x
    <2>8. QED
      BY <2>7 DEF v, m, n
  <1>11. Len(Flat(f, k)) = P + 4 + Len(x) /\ P + 4 + Len(x) <= Len(file)
    <2>1. P + (4 + Len(x)) = P + 4 + Len(x)
      BY <1>2, <1>4
    <2>2. QED
      BY <1>1, <1>2, <2>1
  <1>12. QED
    BY <1>2, <1>3, <1>4, <1>9, <1>10, <1>11, Zenon DEF f, x

\* The size that from_binary() reads at pos, and what it cuts from there.
CutSize(file, pos) == Number(SubSeq(file, pos + 1, pos + 4))
CutRun(file, f) ==
    [pos \in Nat |->
        IF Len(file) - pos < 4 THEN <<>>
        ELSE <<SubSeq(file, pos + 5, pos + 4 + CutSize(file, pos))>> \o f[pos + 4 + CutSize(file, pos)]]
Cutting(file) == CHOOSE f : f = CutRun(file, f)

\* from_binary() by these names.
LEMMA CutIs == ASSUME NEW file PROVE from_binary(file) = Cutting(file)[0]
  BY Zenon DEF from_binary, Cutting, CutRun, CutSize

\* What can be cut from a file.
Cuts(file) == {SubSeq(file, r[1], r[2]) : r \in Int \X Int}

\* Each part of the file is one of them.
LEMMA IsCut ==
    ASSUME NEW file, NEW m \in Int, NEW n \in Int
    PROVE  SubSeq(file, m, n) \in Cuts(file)
  <1> DEFINE r == <<m, n>>
  <1>1. r \in Int \X Int /\ r[1] = m /\ r[2] = n
    OBVIOUS
  <1> HIDE DEF r
  <1>2. QED
    BY <1>1 DEF Cuts

\* Its recursion ends.
LEMMA CutExists ==
    ASSUME NEW file \in Seq(Nat)
    PROVE  \E f : f = CutRun(file, f)
  <1> DEFINE A == Seq(Cuts(file))
             L == Len(file)
             size(pos) == CutSize(file, pos)
             stops == [pos \in Nat |-> Len(file) - pos < 4]
             leaf == [pos \in Nat |-> <<>>]
             op == [q \in Nat \X A |-> IF stops[q[1]] THEN <<>>
                                      ELSE <<SubSeq(file, q[1] + 5, q[1] + 4 + size(q[1]))>> \o q[2]]
             next == [pos \in Nat |-> IF stops[pos] THEN 0 ELSE pos + 4 + size(pos)]
  <1>1. L \in Nat
    OBVIOUS
  <1>2. ASSUME NEW pos \in Nat, ~stops[pos] PROVE size(pos) \in Nat /\ pos < L
    <2>1. pos + 4 <= Len(file)
      <3>1. stops[pos] = (Len(file) - pos < 4)
        BY Zenon
      <3> HIDE DEF stops
      <3>2. ~(Len(file) - pos < 4)
        BY <1>2, <3>1
      <3>3. QED
        BY <1>1, <3>2
    <2>2. \A i \in pos + 1 .. pos + 4 : file[i] \in Nat
      <3>1. \A i \in pos + 1 .. pos + 4 : i \in 1 .. Len(file)
        BY <1>1, <2>1
      <3>2. QED
        BY <3>1, ElementOfSeq
    <2> DEFINE v == SubSeq(file, pos + 1, pos + 4)
    <2>3. pos + 1 \in Int /\ pos + 4 \in Int /\ (pos + 4) - (pos + 1) + 1 = 4 /\ pos + 1 <= pos + 4
      OBVIOUS
    <2>4. v \in Seq(Nat) /\ Len(v) = 4
      BY <2>2, <2>3, SubSeqProperties
    <2> HIDE DEF v
    <2>5. \A i \in 1 .. 4 : v[i] \in Nat
      BY <2>4, ElementOfSeq
    <2>6. Number(v) \in Nat
      BY <2>5, NumberOfWord
    <2>7. QED
      BY <1>1, <2>1, <2>6 DEF v, CutSize
  <1>3. <<>> \in A
    BY EmptySeq
  <1>4. leaf \in [Nat -> A]
    BY <1>3
  <1>5. next \in [Nat -> Nat] /\ \A pos \in Nat : stops[pos] \/ (pos < L /\ next[pos] > pos)
    <2>1. \A pos \in Nat : next[pos] = IF stops[pos] THEN 0 ELSE pos + 4 + size(pos)
      OBVIOUS
    <2>2. next = [pos \in Nat |-> next[pos]]
      OBVIOUS
    <2> HIDE DEF next, stops, size, L
    <2>3. \A pos \in Nat : next[pos] \in Nat
      BY <1>2, <2>1
    <2>4. ASSUME NEW pos \in Nat, ~stops[pos] PROVE pos < L /\ next[pos] > pos
      BY <1>2, <2>1, <2>4
    <2>5. QED
      BY <2>2, <2>3, <2>4
  <1>6. ASSUME NEW q \in Nat \X A, ~stops[q[1]]
        PROVE  <<SubSeq(file, q[1] + 5, q[1] + 4 + size(q[1]))>> \o q[2] \in A
    <2> DEFINE from == q[1] + 5
               to == q[1] + 4 + size(q[1])
               x == SubSeq(file, from, to)
    <2>1. q[1] \in Nat /\ q[2] \in Seq(Cuts(file))
      OBVIOUS
    <2>2. size(q[1]) \in Nat
      BY <1>2, <1>6, <2>1
    <2> HIDE DEF size
    <2>3. from \in Int /\ to \in Int
      BY <2>1, <2>2
    <2> HIDE DEF from, to
    <2>4. x \in Cuts(file)
      BY <2>3, IsCut
    <2> HIDE DEF x
    <2>5. <<x>> \in Seq(Cuts(file))
      BY <2>4, SequenceOfOne
    <2>6. <<x>> \o q[2] \in Seq(Cuts(file))
      BY <2>1, <2>5, BothParts
    <2>7. QED
      BY <2>6, Zenon DEF x, from, to
  <1>7. op \in [Nat \X A -> A]
    <2> HIDE DEF A, stops, size
    <2> QED BY <1>3, <1>6
  <1> HIDE DEF leaf, next, op, A, stops
  <1>8. PICK f : Ascends(f, A, stops, leaf, op, next)
    <2> HIDE DEF L
    <2> QED BY <1>1, <1>4, <1>5, <1>7, AscentExists
  <1>9. ASSUME NEW pos \in Nat PROVE f[pos] = CutRun(file, f)[pos]
    <2>1. f[pos] = IF stops[pos] THEN leaf[pos] ELSE op[<<pos, f[next[pos]]>>]
      BY <1>8 DEF Ascends
    <2>2. CutRun(file, f)[pos] =
             IF Len(file) - pos < 4 THEN <<>>
             ELSE <<SubSeq(file, pos + 5, pos + 4 + size(pos))>> \o f[pos + 4 + size(pos)]
      BY Zenon DEF CutRun
    <2>3. stops[pos] = (Len(file) - pos < 4) /\ leaf[pos] = <<>>
      BY DEF stops, leaf
    <2>4. CASE stops[pos]
      BY <2>1, <2>2, <2>3, <2>4
    <2>5. CASE ~stops[pos]
      <3>1. next[pos] = pos + 4 + size(pos) /\ next[pos] \in Nat
        <4>1. next[pos] = pos + 4 + size(pos)
          BY <2>5 DEF next
        <4>2. QED
          BY <1>5, <4>1
      <3>2. <<pos, f[next[pos]]>> \in Nat \X A
        BY <1>8, <3>1 DEF Ascends
      <3> DEFINE q == <<pos, f[next[pos]]>>
      <3>3. q[1] = pos /\ q[2] = f[next[pos]] /\ q \in Nat \X A
        BY <3>2
      <3> HIDE DEF q
      <3>4. op[q] = <<SubSeq(file, q[1] + 5, q[1] + 4 + size(q[1]))>> \o q[2]
        BY <2>5, <3>3 DEF op
      <3>5. f[pos] = op[q]
        BY <2>1, <2>5 DEF q
      <3> HIDE DEF size
      <3>6. f[pos] = <<SubSeq(file, pos + 5, pos + 4 + size(pos))>> \o f[pos + 4 + size(pos)]
        BY <3>1, <3>3, <3>4, <3>5, Zenon
      <3>7. QED
        BY <2>2, <2>3, <2>5, <3>6
    <2>6. QED
      BY <2>4, <2>5
  <1>10. f = CutRun(file, f)
    <2>1. DOMAIN f = Nat /\ f = [pos \in Nat |-> f[pos]]
      BY <1>8 DEF Ascends
    <2>2. CutRun(file, f) = [pos \in Nat |-> CutRun(file, f)[pos]]
      BY DEF CutRun
    <2>3. QED
      BY <1>9, <2>1, <2>2
  <1>11. QED
    BY <1>10

\* The k-th block is cut where it is.
LEMMA CutsBlock ==
    ASSUME NEW b, Cuttable(b), NEW k \in 1 .. Len(b), NEW f,
           NEW file, file = FlattenSeq(Framed(b)), f = CutRun(file, f),
           NEW P, P = Len(Flat(Framed(b), k - 1)), NEW Q, Q = Len(Flat(Framed(b), k))
    PROVE  f[P] = <<b[k]>> \o f[Q]
  <1>1. /\ file \in Seq(Nat) /\ P \in Nat /\ Q = P + 4 + Len(b[k]) /\ Len(b[k]) \in Nat
        /\ P + 4 + Len(b[k]) <= Len(file)
        /\ CutSize(file, P) = Len(b[k])
        /\ SubSeq(file, P + 5, P + 4 + Len(b[k])) = b[k]
    BY FramedAt DEF CutSize
  <1>2. f[P] = IF Len(file) - P < 4 THEN <<>>
               ELSE <<SubSeq(file, P + 5, P + 4 + CutSize(file, P))>> \o f[P + 4 + CutSize(file, P)]
    <2>1. CutRun(file, f)[P] =
             IF Len(file) - P < 4 THEN <<>>
             ELSE <<SubSeq(file, P + 5, P + 4 + CutSize(file, P))>> \o f[P + 4 + CutSize(file, P)]
      BY <1>1, Zenon DEF CutRun
    <2>2. QED
      BY <2>1
  <1>3. ~(Len(file) - P < 4)
    <2>1. Len(file) \in Nat
      BY <1>1
    <2>2. \A L \in Nat, p \in Nat, x \in Nat : p + 4 + x <= L => ~(L - p < 4)
      OBVIOUS
    <2>3. QED
      BY <1>1, <2>1, <2>2
  <1>4. QED
    BY <1>1, <1>2, <1>3, Zenon

\* from_binary() undoes to_binary_format().
LEMMA RoundTrip ==
    ASSUME NEW b, Cuttable(b)
    PROVE  from_binary(to_binary_format(b)) = b
  <1> DEFINE file == FlattenSeq(Framed(b))
             f == Cutting(file)
             N == Len(b)
             pos(k) == Len(Flat(Framed(b), k))
             S == {j \in Nat : j <= N => f[pos(N - j)] = SubSeq(b, N - j + 1, N)}
  <1>1. to_binary_format(b) = file
    BY Zenon DEF to_binary_format, Framed
  <1>2. /\ Framed(b) \in Seq(Seq(Nat)) /\ Len(Framed(b)) = N /\ N \in Nat /\ b \in Seq(Seq(Nat))
        /\ file \in Seq(Nat)
    BY FramedType, FlattenType DEF Cuttable
  <1>3. f = CutRun(file, f)
    <2>1. \E g : g = CutRun(file, g)
      BY <1>2, CutExists
    <2>2. QED
      BY <2>1, Zenon DEF Cutting
  <1>4. pos(0) = 0 /\ pos(N) = Len(file) /\ Len(file) \in Nat
    <2>1. Flat(Framed(b), 0) = <<>> /\ FlattenSeq(Framed(b)) = Flat(Framed(b), Len(Framed(b)))
      BY <1>2, FlatSteps
    <2>2. Len(<<>>) = 0 /\ Len(file) \in Nat
      BY <1>2
    <2>3. QED
      BY <1>2, <2>1, <2>2
  <1>5. 0 \in S
    <2>1. CutRun(file, f)[pos(N)] = <<>>
      <3>1. Len(file) - pos(N) < 4 /\ pos(N) \in Nat
        BY <1>4
      <3> HIDE DEF pos, file, f
      <3>2. QED
        BY <3>1 DEF CutRun
    <2>2. SubSeq(b, N + 1, N) = <<>>
      <3>1. N + 1 \in Int /\ N \in Int /\ N < N + 1
        BY <1>2
      <3>2. QED
        BY <3>1, SubSeqEmpty
    <2>3. N - 0 = N
      BY <1>2
    <2> HIDE DEF f, pos, N, file
    <2>4. f[pos(N - 0)] = SubSeq(b, N - 0 + 1, N)
      BY <1>3, <2>1, <2>2, <2>3
    <2>5. QED
      BY <2>4
  <1>6. ASSUME NEW j \in Nat, j \in S PROVE j + 1 \in S
    <2>1. SUFFICES ASSUME j + 1 <= N PROVE f[pos(N - (j + 1))] = SubSeq(b, N - (j + 1) + 1, N)
      OBVIOUS
    <2> DEFINE k == N - j
    <2>2. k \in 1 .. N /\ N - (j + 1) = k - 1 /\ (k - 1) + 1 = k /\ N - j + 1 = k + 1 /\ j <= N
      BY <1>2, <2>1
    <2>3. f[pos(k)] = SubSeq(b, k + 1, N)
      <3> HIDE DEF f, pos, N
      <3> QED BY <1>6, <2>2
    <2>4. f[pos(k - 1)] = <<b[k]>> \o f[pos(k)]
      <3>1. k \in 1 .. Len(b) /\ file = FlattenSeq(Framed(b))
        BY <2>2
      <3> HIDE DEF f, file, k
      <3>2. PICK P : P = Len(Flat(Framed(b), k - 1))
        OBVIOUS
      <3>3. PICK Q : Q = Len(Flat(Framed(b), k))
        OBVIOUS
      <3>4. f[P] = <<b[k]>> \o f[Q]
        BY <1>3, <3>1, <3>2, <3>3, CutsBlock, SMT
      <3>5. QED
        BY <3>2, <3>3, <3>4
    <2>5. SubSeq(b, k, N) = <<b[k]>> \o SubSeq(b, k + 1, N)
      <3>1. k \in 1 .. Len(b) /\ N \in k .. Len(b)
        BY <1>2, <2>2
      <3> HIDE DEF k, N
      <3>2. QED
        BY <1>2, <3>1, SubSeqRecursiveFirst
    <2> HIDE DEF f, k, pos, N
    <2>6. QED
      BY <2>2, <2>3, <2>4, <2>5
  <1>7. \A j \in Nat : j \in S
    <2> HIDE DEF S
    <2> QED BY <1>5, <1>6, SetInduction
  <1>8. f[0] = b
    <2>1. SubSeq(b, 1, N) = b
      BY <1>2, SubSeqFull
    <2>2. N <= N /\ N - N = 0 /\ N - N + 1 = 1 /\ N \in Nat
      BY <1>2
    <2> HIDE DEF f, N, pos
    <2>3. f[pos(N - N)] = SubSeq(b, N - N + 1, N)
      BY <1>7, <2>2
    <2>4. QED
      BY <1>4, <2>1, <2>2, <2>3
  <1>9. QED
    BY <1>1, <1>8, CutIs, Zenon

\* What the drive delivers is what create.py wrote.
LEMMA StreamIs ==
    ASSUME NEW n \in Created
    PROVE  /\ data_blocks[n] = Blocks(n)
           /\ Stream[n] = FlattenSeq(Blocks(n))
           /\ Stream[n] \in Seq(Nat)
           /\ \A k : BlockStart(n, k) = Len(Flat(Blocks(n), k - 1))
  <1>1. Cuttable(Blocks(n)) /\ Blocks(n) \in Seq(Seq(Nat))
    BY BlocksAre DEF Cuttable
  <1>2. data_blocks[n] = Blocks(n)
    <2>1. data_blocks[n] = from_binary(to_binary_format(Blocks(n)))
      BY Zenon DEF data_blocks, Blocks
    <2>2. QED
      BY <1>1, <2>1, RoundTrip
  <1>3. Stream[n] = FlattenSeq(Blocks(n))
    <2>1. Stream[n] = FlattenSeq(data_blocks[n])
      BY Zenon DEF Stream
    <2>2. QED
      BY <1>2, <2>1
  <1>4. Stream[n] \in Seq(Nat)
    BY <1>1, <1>3, FlattenType
  <1>5. \A k : BlockStart(n, k) = Len(Flat(Blocks(n), k - 1))
    BY <1>2 DEF BlockStart, Flat
  <1>6. QED
    BY <1>2, <1>3, <1>4, <1>5

\* What is where on a tape, from the start of a program's block on.
StreamHas(n, k) ==
    LET p == ProgramOf(n, k)
        s == BlockStart(n, k)
    IN  /\ PartAt(Stream[n], s, BigEndian(Entry(p)))
        /\ PartAt(Stream[n], s + 4, Named(p.name))
        /\ PartAt(Stream[n], s + 4 + TAPE_NAME_LEN, BigEndian(p.addr))
        /\ PartAt(Stream[n], s + 8 + TAPE_NAME_LEN, LengthWord(Image(p), Flag(k = Len(Blocks(n)))))
        /\ PartAt(Stream[n], s + 12 + TAPE_NAME_LEN, Image(p))

\* It is all there.
LEMMA StreamParts ==
    ASSUME NEW n \in Created, NEW k, HasProgram(n, k)
    PROVE  BlockStart(n, k) \in Nat /\ StreamHas(n, k)
  <1> DEFINE p == ProgramOf(n, k)
             s == BlockStart(n, k)
             block == Blocks(n)[k]
             final == k = Len(Blocks(n))
             N == TAPE_NAME_LEN
             all == Stream[n]
  <1>1. /\ k \in 1 .. Len(Blocks(n)) /\ block = create_binary(p, final)
        /\ IsProgram(p) /\ ~pre_link(p).raises /\ Blocks(n) \in Seq(Seq(Nat))
    BY BlocksAre
  <1>2. N \in Nat /\ final \in BOOLEAN
    BY TapeLoaderAssumption
  <1> HIDE DEF p, final
  <1>3. /\ block \in Seq(Nat)
        /\ PartAt(block, 0, BigEndian(Entry(p)))
        /\ PartAt(block, 4, Named(p.name))
        /\ PartAt(block, 4 + N, BigEndian(p.addr))
        /\ PartAt(block, 8 + N, LengthWord(Image(p), Flag(final)))
        /\ PartAt(block, 12 + N, Image(p))
    BY <1>1, <1>2, ProgramParts
  <1>4. s \in Nat /\ PartAt(all, s, block) /\ Len(all) \in Nat
    <2>1. all = FlattenSeq(Blocks(n)) /\ all \in Seq(Nat) /\ s = Len(Flat(Blocks(n), k - 1))
      BY StreamIs
    <2> HIDE DEF s
    <2>2. s \in Nat /\ PartAt(FlattenSeq(Blocks(n)), s, block)
      BY <1>1, <2>1, FlatAt
    <2>3. QED
      BY <2>1, <2>2
  <1>5. /\ BigEndian(Entry(p)) \in Seq(Nat) /\ Named(p.name) \in Seq(Nat) /\ BigEndian(p.addr) \in Seq(Nat)
        /\ Image(p) \in Seq(Nat) /\ LengthWord(Image(p), Flag(final)) \in Seq(Nat)
    <2>1. Entry(p) \in Nat /\ p.addr \in Nat /\ Image(p) \in Seq(Nat)
      BY <1>1, ProgramType
    <2>2. BigEndian(Entry(p)) \in Seq(Nat) /\ BigEndian(p.addr) \in Seq(Nat)
      BY <2>1, BigEndianWord DEF IsWord
    <2>3. Named(p.name) \in Seq(Nat)
      BY <1>1, NamedType DEF IsProgram
    <2>4. Flag(final) \in {0, 128}
      BY DEF Flag
    <2>5. LengthWord(Image(p), Flag(final)) \in Seq(Nat)
      BY <2>1, <2>4, LengthWordType DEF IsWord
    <2>6. QED
      BY <2>1, <2>2, <2>3, <2>5
  <1> HIDE DEF all, s, block
  <1>6. ASSUME NEW u \in Seq(Nat), NEW m \in Nat, PartAt(block, m, u) PROVE PartAt(all, s + m, u)
    BY <1>3, <1>4, <1>6, PartWithin
  <1>7. s + 0 = s /\ s + (4 + N) = s + 4 + N /\ s + (8 + N) = s + 8 + N /\ s + (12 + N) = s + 12 + N
        /\ 0 \in Nat /\ 4 \in Nat /\ 4 + N \in Nat /\ 8 + N \in Nat /\ 12 + N \in Nat
    BY <1>2, <1>4
  <1>8. PartAt(all, s, BigEndian(Entry(p))) /\ PartAt(all, s + 4, Named(p.name))
    BY <1>3, <1>5, <1>6, <1>7
  <1>9. PartAt(all, s + 4 + N, BigEndian(p.addr))
    BY <1>3, <1>5, <1>6, <1>7
  <1>10. PartAt(all, s + 8 + N, LengthWord(Image(p), Flag(final)))
    BY <1>3, <1>5, <1>6, <1>7
  <1>11. PartAt(all, s + 12 + N, Image(p))
    BY <1>3, <1>5, <1>6, <1>7
  <1>12. QED
    BY <1>4, <1>8, <1>9, <1>10, <1>11, Zenon DEF StreamHas, all, s, p, final

-----------------------------------------------------------------------------
(* The tape: the place for the symbols.                                    *)

\* The guest's memory.
MemoryType(m) == m \in [TapeAddr .. MemoryEnd -> Nat]

\* A name ends where the memory that is modelled does, at the latest.
LEMMA NameEnds ==
    ASSUME NEW m, MemoryType(m), NEW a \in Nat, a > 0
    PROVE  NameEnd(m, a) \in Nat /\ NameEnd(m, a) >= a
  <1> DEFINE Z == {e \in Nat : e >= a /\ At(m, e) = 0}
             top == a + MemoryEnd
  <1>1. MemoryEnd \in Nat
    <2>1. {TapeAddr, MAX_SYMBOLS_SIZE} \subseteq Nat /\ SYMBOLS_ADDR \in TapeAddr .. MaxAddress - 1
          /\ MemoryEnd \in SYMBOLS_ADDR + MAX_SYMBOLS_SIZE .. MaxAddress
      BY TapeLoaderAssumption
    <2>2. QED
      BY <2>1
  <1>2. At(m, top) = 0
    <2>1. top \notin DOMAIN m
      BY <1>1 DEF MemoryType
    <2>2. QED
      BY <2>1 DEF At
  <1>3. top \in Z /\ Z \in SUBSET Nat
    BY <1>1, <1>2
  <1>4. PICK e \in Z : \A y \in Z : e <= y
    BY <1>3, LeastNumber
  <1>5. e \in a .. top /\ At(m, e) = 0
    BY <1>1, <1>3, <1>4
  <1>6. \A i \in a .. e - 1 : At(m, i) # 0
    <2>1. SUFFICES ASSUME NEW i \in a .. e - 1, At(m, i) = 0 PROVE FALSE
      OBVIOUS
    <2>2. i \in Z /\ ~(e <= i)
      BY <1>5, <2>1
    <2>3. QED
      BY <1>4, <2>2
  <1>7. NameEnd(m, a) \in a .. top
    BY <1>5, <1>6 DEF NameEnd
  <1>8. QED
    BY <1>1, <1>7

\* The recursion of symbol_entry_pos().
Behind(m, a) == IF NameEnd(m, a) < symbols_end THEN NameEnd(m, a) + 1 ELSE symbols_end + 1
Stops(m, x, a) == a >= symbols_end \/ Value(m, a) = 0 \/ Value(m, a) >= x
EntryRun(m, x, f) == [a \in Nat |-> IF Stops(m, x, a) THEN a ELSE f[Behind(m, a + 4)]]
EntryWalk(m, x) == CHOOSE f : f = EntryRun(m, x, f)

\* symbol_entry_pos() by these names.
LEMMA EntryIs == ASSUME NEW m, NEW x PROVE symbol_entry_pos(m, x) = EntryWalk(m, x)[SYMBOLS_ADDR]
  BY Zenon DEF symbol_entry_pos, EntryWalk, EntryRun, Stops, Behind

\* The symbols lie above the programs, in memory.
LEMMA SymbolsArea ==
    /\ symbols_end \in Nat /\ SYMBOLS_ADDR \in Nat /\ TapeAddr \in Nat /\ TapeAddr <= SYMBOLS_ADDR
    /\ MemoryEnd \in Nat /\ SYMBOLS_ADDR <= MemoryEnd /\ symbols_end <= MemoryEnd
  <1>1. {TapeAddr, MAX_SYMBOLS_SIZE} \subseteq Nat /\ SYMBOLS_ADDR \in TapeAddr .. MaxAddress - 1
        /\ MemoryEnd \in SYMBOLS_ADDR + MAX_SYMBOLS_SIZE .. MaxAddress
    BY TapeLoaderAssumption
  <1>2. QED
    BY <1>1 DEF symbols_end

\* It goes up.
LEMMA BehindIsAbove ==
    ASSUME NEW m, MemoryType(m), NEW x, NEW a \in Nat, ~Stops(m, x, a)
    PROVE  a < symbols_end /\ Behind(m, a + 4) \in Nat /\ Behind(m, a + 4) > a
  <1>1. a < symbols_end /\ symbols_end \in Nat
    <2>1. symbols_end \in Nat /\ ~(a >= symbols_end)
      BY SymbolsArea DEF Stops
    <2> HIDE DEF symbols_end
    <2>2. QED
      BY <2>1
  <1>2. NameEnd(m, a + 4) \in Nat /\ NameEnd(m, a + 4) >= a + 4
    <2>1. a + 4 \in Nat /\ a + 4 > 0
      OBVIOUS
    <2>2. QED
      BY <2>1, NameEnds
  <1>3. QED
    BY <1>1, <1>2 DEF Behind

\* Symbols go into their area, or behind it.
LEMMA EntryAbove ==
    ASSUME NEW m, MemoryType(m), NEW x
    PROVE  symbol_entry_pos(m, x) \in Nat /\ symbol_entry_pos(m, x) >= SYMBOLS_ADDR
  <1> DEFINE stops == [a \in Nat |-> Stops(m, x, a)]
             leaf == [a \in Nat |-> a]
             op == [q \in Nat \X Nat |-> q[2]]
             next == [a \in Nat |-> IF Stops(m, x, a) THEN 0 ELSE Behind(m, a + 4)]
             L == symbols_end
             f == EntryWalk(m, x)
             P == {a \in Nat : f[a] \in Nat /\ f[a] >= a}
  <1>1. L \in Nat /\ SYMBOLS_ADDR \in Nat
    BY SymbolsArea
  <1>2. \E g : g = EntryRun(m, x, g)
    <2>1. leaf \in [Nat -> Nat] /\ op \in [Nat \X Nat -> Nat]
      OBVIOUS
    <2>2. next \in [Nat -> Nat] /\ \A a \in Nat : stops[a] \/ (a < L /\ next[a] > a)
      <3> HIDE DEF L
      <3>1. \A a \in Nat : next[a] \in Nat
        BY BehindIsAbove
      <3>2. ASSUME NEW a \in Nat, ~stops[a] PROVE a < L /\ next[a] > a
        <4>1. ~Stops(m, x, a)
          BY <3>2
        <4>2. next[a] = Behind(m, a + 4)
          BY <4>1
        <4> HIDE DEF next
        <4>3. QED
          BY <4>1, <4>2, BehindIsAbove DEF L
      <3>3. QED
        BY <3>1, <3>2
    <2> HIDE DEF leaf, op, next, stops, L
    <2>3. PICK g : Ascends(g, Nat, stops, leaf, op, next)
      BY <1>1, <2>1, <2>2, AscentExists
    <2>4. g \in [Nat -> Nat] /\ \A a \in Nat : g[a] = IF stops[a] THEN leaf[a] ELSE op[<<a, g[next[a]]>>]
      BY <2>3 DEF Ascends
    <2>5. ASSUME NEW a \in Nat PROVE g[a] = IF Stops(m, x, a) THEN a ELSE g[Behind(m, a + 4)]
      <3>1. stops[a] = Stops(m, x, a) /\ leaf[a] = a
        BY DEF stops, leaf
      <3>2. CASE Stops(m, x, a)
        BY <2>4, <3>1, <3>2
      <3>3. CASE ~Stops(m, x, a)
        <4>1. next[a] = Behind(m, a + 4) /\ next[a] \in Nat
          BY <3>3, <2>2 DEF next
        <4>2. <<a, g[next[a]]>> \in Nat \X Nat
          BY <2>4, <4>1
        <4>3. op[<<a, g[next[a]]>>] = g[next[a]]
          BY <4>2 DEF op
        <4>4. g[a] = op[<<a, g[next[a]]>>]
          BY <2>4, <3>1, <3>3
        <4>5. QED
          BY <3>3, <4>1, <4>3, <4>4
      <3>4. QED
        BY <3>2, <3>3
    <2>6. g = EntryRun(m, x, g)
      BY <2>4, <2>5 DEF EntryRun
    <2>7. QED
      BY <2>6
  <1>3. f = EntryRun(m, x, f)
    BY <1>2, Zenon DEF EntryWalk
  <1> HIDE DEF f
  <1>4. \A a \in Nat : f[a] = IF Stops(m, x, a) THEN a ELSE f[Behind(m, a + 4)]
    <2>1. \A a \in Nat : EntryRun(m, x, f)[a] = IF Stops(m, x, a) THEN a ELSE f[Behind(m, a + 4)]
      BY Zenon DEF EntryRun
    <2>2. QED
      BY <1>3, <2>1
  <1>5. ASSUME NEW a \in Nat, \A q \in Nat : a < L /\ q > a => q \in P PROVE a \in P
    <2>1. CASE Stops(m, x, a)
      <3>1. f[a] = a
        BY <1>4, <2>1
      <3>2. QED
        BY <3>1
    <2>2. CASE ~Stops(m, x, a)
      <3> DEFINE b == Behind(m, a + 4)
      <3>1. a < L /\ b \in Nat /\ b > a /\ f[a] = f[b]
        BY <1>4, <2>2, BehindIsAbove
      <3> HIDE DEF b
      <3>2. b \in P
        BY <1>5, <3>1
      <3>3. QED
        BY <3>1, <3>2
    <2>3. QED
      BY <2>1, <2>2
  <1>6. SYMBOLS_ADDR \in P
    <2> HIDE DEF P, L
    <2> QED BY <1>1, <1>5, DownInduction
  <1>7. QED
    BY <1>6, EntryIs DEF f

-----------------------------------------------------------------------------
(* The tape: the invariant of load_tape().                                 *)

LoaderRecord ==
    [at : Resting \cup Fields, buf : Seq(Nat), left : Int, entry : Nat, name : Seq(Nat),
     addr : Nat, written : Nat, to : Nat, final : BOOLEAN]

LoaderTypeOK ==
    /\ tape \in [of : Created \cup {0}, pos : Nat]
    /\ MemoryType(mem)
    /\ loader \in LoaderRecord
    /\ regions \in Seq(Nat \X Nat) /\ was.regions \in Seq(Nat \X Nat)
    /\ "regions" \in DOMAIN was

\* It is a created program that is loaded, from the tape in the drive.
ProgramIs ==
    /\ loader.at \in Fields \cup {"READY"} => was.of \in Created /\ HasProgram(was.of, was.block)
    /\ loader.at \in Fields => tape.of = was.of
    /\ loader.at = "READY" => tape.of \in Created

\* The bytes in buf are those in S from s on.
ReadAt(S, s, buf) == \A i \in 1 .. Len(buf) : buf[i] = S[s + i]

\* Of a field the bytes read are those on the tape, from its place in the block on.
Reading(field, start, size) ==
    loader.at = field =>
        /\ tape.pos = BlockStart(was.of, was.block) + start + Len(loader.buf)
        /\ Len(loader.buf) < size
        /\ ReadAt(Stream[was.of], BlockStart(was.of, was.block) + start, loader.buf)

ReadingHeader ==
    /\ Reading("entry", 0, 4)
    /\ Reading("name", 4, TAPE_NAME_LEN)
    /\ Reading("addr", 4 + TAPE_NAME_LEN, 4)
    /\ Reading("length", 8 + TAPE_NAME_LEN, 4)

\* What has been read is the program's.
HeaderIs ==
    loader.at \in Fields \cup {"READY"} =>
        /\ loader.at # "entry" => loader.entry = Entry(Program)
        /\ loader.at \notin {"entry", "name"} => loader.name = Named(Program.name)
        /\ loader.at \notin {"entry", "name", "addr"} => loader.addr = Program.addr
        /\ loader.at \notin {"entry", "name", "addr", "length"} =>
              loader.final = (was.block = Len(Blocks(was.of)))

\* The first n bytes of the program are in memory.
Holds(n) == \A i \in 1 .. n : mem[Program.addr + i - 1] = Image(Program)[i]

ReadingData ==
    loader.at = "data" =>
        /\ tape.pos = BlockStart(was.of, was.block) + 12 + TAPE_NAME_LEN + loader.written
        /\ loader.left > 0
        /\ loader.written + loader.left = Len(Image(Program))
        /\ Holds(loader.written)

\* The symbols go where they do no harm to it.
DataIs ==
    loader.at \in {"symbols_length", "symbols", "READY"} =>
        Holds(Len(Image(Program))) /\ loader.to >= SYMBOLS_ADDR

RegionsAre ==
    /\ loader.at \in {"entry", "name", "addr", "length", "data"} => regions = was.regions
    /\ loader.at \in {"symbols_length", "symbols", "READY"} =>
          regions = IF Len(was.regions) >= MAX_TAPE_REGIONS THEN was.regions
                    ELSE Append(was.regions, <<Program.addr, Program.addr + Len(Image(Program))>>)

LoaderInv ==
    /\ LoaderTypeOK /\ ProgramIs /\ ReadingHeader /\ HeaderIs
    /\ ReadingData /\ DataIs /\ RegionsAre

\* It is what the property asks.
LEMMA LoaderInvBuilt == LoaderInv => LoadedAsBuilt
  <1> SUFFICES ASSUME LoaderInv, loader.at = "READY", Fits
               PROVE LoadedAsBuilt
    BY DEF LoadedAsBuilt
  <1> DEFINE data == NoBxLr(pre_link(Program).data)
             p == Program
  <1>1. Program = ProgramOf(was.of, was.block)
    BY DEF Program, ProgramOf
  <1>2. was.of \in Created /\ HasProgram(was.of, was.block)
    BY DEF LoaderInv, ProgramIs
  <1>3. IsProgram(p) /\ ~pre_link(p).raises /\ Blocks(was.of) = data_blocks[was.of]
    BY <1>1, <1>2, BlocksAre, StreamIs
  <1>4. /\ data \in Sized(Len(p.data)) /\ Len(data) <= Len(Image(p)) /\ Image(p) \in Seq(Nat)
        /\ \A i \in DOMAIN data : Image(p)[i] = data[i]
    <2> HIDE DEF p
    <2> QED BY <1>3, ProgramType DEF p
  <1>5. loader.entry = Lookup(p.table, Main)
    BY DEF LoaderInv, HeaderIs, Entry
  <1>6. loader.name = Named(p.name)
    BY DEF LoaderInv, HeaderIs
  <1>7. loader.final = (was.block = Len(data_blocks[was.of]))
    BY <1>3 DEF LoaderInv, HeaderIs
  <1>8. \A i \in DOMAIN data : mem[p.addr + i - 1] = data[i]
    <2>1. \A i \in 1 .. Len(Image(p)) : mem[p.addr + i - 1] = Image(p)[i]
      BY DEF LoaderInv, DataIs, Holds
    <2>2. \A i \in DOMAIN data : i \in 1 .. Len(Image(p))
      <3> HIDE DEF data, p
      <3>1. Len(Image(p)) \in Nat /\ data \in Seq(Nat)
        BY <1>4 DEF Sized
      <3>2. DOMAIN data = 1 .. Len(data) /\ Len(data) \in Nat
        BY <3>1
      <3>3. QED
        BY <1>4, <3>1, <3>2
    <2>3. QED
      BY <1>4, <2>1, <2>2
  <1>9. Image(p) = pad(data, 4)
    BY Zenon DEF Image
  <1>10. /\ regions = IF Len(was.regions) >= MAX_TAPE_REGIONS THEN was.regions
                      ELSE Append(was.regions, <<p.addr, p.addr + Len(pad(data, 4))>>)
         /\ was.regions \in Seq(Nat \X Nat)
    BY <1>9 DEF LoaderInv, RegionsAre, LoaderTypeOK
  <1>11. p.addr \in Nat /\ Len(pad(data, 4)) \in Nat
    <2> HIDE DEF p, data
    <2> QED BY <1>3, <1>4, <1>9, ProgramType
  <1> HIDE DEF data, p
  <1> DEFINE region == <<p.addr, p.addr + Len(pad(data, 4))>>
  <1>12. region \in Nat \X Nat
    BY <1>11
  <1> HIDE DEF region
  <1>13. Len(was.regions) < MAX_TAPE_REGIONS => Last(regions) = region
    <2>1. SUFFICES ASSUME Len(was.regions) < MAX_TAPE_REGIONS PROVE Last(regions) = region
      OBVIOUS
    <2>2. MAX_TAPE_REGIONS \in Nat /\ Len(was.regions) \in Nat
      BY <1>10, TapeLoaderAssumption
    <2>3. regions = Append(was.regions, region)
      BY <1>10, <2>1, <2>2 DEF region
    <2>4. Len(regions) = Len(was.regions) + 1 /\ regions[Len(was.regions) + 1] = region
      BY <1>10, <1>12, <2>3
    <2>5. QED
      BY <2>4 DEF Last
  <1>14. IsPrefix(was.regions, regions)
    <2>1. CASE Len(was.regions) >= MAX_TAPE_REGIONS
      BY <1>10, <2>1 DEF IsPrefix
    <2>2. CASE ~(Len(was.regions) >= MAX_TAPE_REGIONS)
      BY <1>10, <1>12, <2>2 DEF IsPrefix, region
    <2>3. QED
      BY <2>1, <2>2
  <1>15. QED
    BY <1>5, <1>6, <1>7, <1>8, <1>13, <1>14 DEF LoadedAsBuilt, data, p, region

-----------------------------------------------------------------------------
(* The tape: the bytes of the header.                                      *)

\* b is buf with a byte more of u, which is in S from s on.
Extended(S, s, u, buf, pos, b) ==
    /\ S[pos + 1] \in Nat /\ S[pos + 1] = u[Len(buf) + 1]
    /\ b \in Seq(Nat) /\ Len(b) = Len(buf) + 1
    /\ ReadAt(S, s, b)
    /\ Len(b) = Len(u) => b = u

\* A byte more of a part.
LEMMA FieldByte ==
    ASSUME NEW S \in Seq(Nat), NEW s \in Nat, NEW u \in Seq(Nat), PartAt(S, s, u),
           NEW buf \in Seq(Nat), Len(buf) < Len(u), ReadAt(S, s, buf),
           NEW pos, pos = s + Len(buf), NEW b, b = Append(buf, S[pos + 1])
    PROVE  Extended(S, s, u, buf, pos, b)
  <1>1. Len(buf) \in Nat /\ Len(u) \in Nat /\ Len(S) \in Nat
    OBVIOUS
  <1>2. s + Len(u) <= Len(S) /\ \A i \in 1 .. Len(u) : S[s + i] = u[i]
    BY DEF PartAt
  <1>3. pos + 1 \in 1 .. Len(S) /\ pos + 1 = s + (Len(buf) + 1) /\ Len(buf) + 1 \in 1 .. Len(u)
    <2>1. PICK k \in Nat, m \in Nat, n \in Nat : k = Len(buf) /\ m = Len(u) /\ n = Len(S)
      BY <1>1, Zenon
    <2>2. k < m /\ s + m <= n /\ pos = s + k
      BY <1>2, <2>1, Zenon
    <2>3. pos + 1 \in 1 .. n /\ pos + 1 = s + (k + 1) /\ k + 1 \in 1 .. m
      BY <2>2
    <2>4. QED
      BY <2>1, <2>3, Zenon
  <1>4. S[pos + 1] \in Nat /\ S[pos + 1] = u[Len(buf) + 1]
    <2>1. S[pos + 1] \in Nat
      BY <1>3, ElementOfSeq
    <2>2. PICK i \in 1 .. Len(u) : i = Len(buf) + 1 /\ pos + 1 = s + i
      BY <1>3
    <2>3. QED
      BY <1>2, <2>1, <2>2
  <1>5. /\ b \in Seq(Nat) /\ Len(b) = Len(buf) + 1 /\ b[Len(buf) + 1] = S[pos + 1]
        /\ \A i \in 1 .. Len(buf) : b[i] = buf[i]
    <2>1. PICK x \in Nat : x = S[pos + 1]
      BY <1>4
    <2>2. b = Append(buf, x)
      BY <2>1
    <2>3. QED
      BY <2>1, <2>2, AppendProperties
  <1>6. ASSUME NEW i \in 1 .. Len(b) PROVE b[i] = S[s + i]
    <2>1. CASE i = Len(buf) + 1
      BY <1>3, <1>5, <2>1
    <2>2. CASE i # Len(buf) + 1
      <3>1. i \in 1 .. Len(buf)
        BY <1>1, <1>5, <2>2
      <3>2. QED
        BY <1>5, <3>1 DEF ReadAt
    <2>3. QED
      BY <2>1, <2>2
  <1>7. ASSUME Len(b) = Len(u) PROVE b = u
    <2>1. \A i \in 1 .. Len(b) : b[i] = u[i]
      BY <1>2, <1>6, <1>7
    <2>2. QED
      BY <1>5, <1>7, <2>1, SeqEqual
  <1>8. QED
    BY <1>4, <1>5, <1>6, <1>7 DEF ReadAt, Extended

\* The program that is loaded, and where it is on the tape.
LEMMA Here ==
    ASSUME LoaderInv, loader.at \in Fields \cup {"READY"},
           NEW p, p = Program, NEW s, s = BlockStart(was.of, was.block)
    PROVE  /\ was.of \in Created /\ HasProgram(was.of, was.block)
           /\ Stream[was.of] \in Seq(Nat) /\ s \in Nat
           /\ PartAt(Stream[was.of], s, BigEndian(Entry(p)))
           /\ PartAt(Stream[was.of], s + 4, Named(p.name))
           /\ PartAt(Stream[was.of], s + 4 + TAPE_NAME_LEN, BigEndian(p.addr))
           /\ PartAt(Stream[was.of], s + 8 + TAPE_NAME_LEN,
                     LengthWord(Image(p), Flag(was.block = Len(Blocks(was.of)))))
           /\ PartAt(Stream[was.of], s + 12 + TAPE_NAME_LEN, Image(p))
           /\ TAPE_NAME_LEN \in Nat /\ TAPE_NAME_LEN > 0
  <1>1. was.of \in Created /\ HasProgram(was.of, was.block)
    BY DEF LoaderInv, ProgramIs
  <1>2. p = ProgramOf(was.of, was.block)
    BY DEF Program, ProgramOf
  <1>3. s \in Nat /\ StreamHas(was.of, was.block)
    BY <1>1, StreamParts
  <1>4. Stream[was.of] \in Seq(Nat)
    BY <1>1, StreamIs
  <1>5. TAPE_NAME_LEN \in Nat /\ TAPE_NAME_LEN > 0
    BY TapeLoaderAssumption
  <1>6. QED
    BY <1>1, <1>2, <1>3, <1>4, <1>5, Zenon DEF StreamHas

\* What is known of it.
LEMMA HereProgram ==
    ASSUME LoaderInv, loader.at \in Fields \cup {"READY"}, NEW p, p = Program
    PROVE  /\ Entry(p) \in Nat /\ BigEndian(Entry(p)) \in Seq(Nat) /\ Len(BigEndian(Entry(p))) = 4
           /\ Number(BigEndian(Entry(p))) = Entry(p)
           /\ Named(p.name) \in Seq(Nat) /\ Len(Named(p.name)) = TAPE_NAME_LEN
           /\ p.addr \in Nat /\ BigEndian(p.addr) \in Seq(Nat) /\ Len(BigEndian(p.addr)) = 4
           /\ Number(BigEndian(p.addr)) = p.addr
           /\ Image(p) \in Seq(Nat) /\ Len(Image(p)) < MaxAddress
           /\ p.addr + Len(Image(p)) <= SYMBOLS_ADDR /\ TapeAddr <= p.addr
  <1>1. was.of \in Created /\ HasProgram(was.of, was.block) /\ p = ProgramOf(was.of, was.block)
    BY DEF LoaderInv, ProgramIs, Program, ProgramOf
  <1>2. IsProgram(p) /\ ~pre_link(p).raises
    BY <1>1, BlocksAre
  <1>3. /\ Entry(p) \in Nat /\ Entry(p) < MaxAddress /\ p.addr \in TapeAddr .. SYMBOLS_ADDR
        /\ p.addr \in Nat /\ p.addr < MaxAddress
        /\ Image(p) \in Seq(Nat) /\ p.addr + Len(Image(p)) <= SYMBOLS_ADDR
    BY <1>2, ProgramType
  <1>4. Named(p.name) \in Seq(Nat) /\ Len(Named(p.name)) = TAPE_NAME_LEN
    BY <1>2, NamedType DEF IsProgram
  <1>5. \A n \in Nat : BigEndian(n) \in Seq(Nat) /\ Len(BigEndian(n)) = 4
    BY BigEndianWord DEF IsWord
  <1>6. Number(BigEndian(Entry(p))) = Entry(p) /\ Number(BigEndian(p.addr)) = p.addr
    BY <1>3, BigEndianReads
  <1>7. Len(Image(p)) < MaxAddress /\ TapeAddr <= p.addr
    <2>1. SYMBOLS_ADDR \in TapeAddr .. MaxAddress - 1 /\ TapeAddr \in Nat
      BY TapeLoaderAssumption
    <2>2. MaxAddress \in Nat
      BY SMT DEF MaxAddress
    <2>3. Len(Image(p)) \in Nat
      BY <1>3
    <2>4. QED
      BY <1>3, <2>1, <2>2, <2>3
  <1>8. QED
    BY <1>3, <1>4, <1>5, <1>6, <1>7

\* A byte of a field of the header is read.
LEMMA HeaderByte ==
    ASSUME LoaderInv, NEW field \in Fields, Reads(field), NEW start \in Nat, NEW u \in Seq(Nat),
           NEW size, size = Len(u), Reading(field, start, size),
           NEW s \in Nat, s = BlockStart(was.of, was.block), PartAt(Stream[was.of], s + start, u)
    PROVE  /\ loader.at = field /\ tape.of = was.of
           /\ Buf \in Seq(Nat) /\ Len(Buf) \in Nat
           /\ tape'.of = tape.of /\ tape'.pos \in Nat /\ tape'.pos = s + start + Len(Buf)
           /\ ReadAt(Stream[was.of], s + start, Buf)
           /\ Short(size) => Len(Buf) < size
           /\ ~Short(size) => Buf = u
  <1>1. loader.at = field /\ tape' = [tape EXCEPT !.pos = @ + 1]
    BY DEF Reads
  <1>2. tape.of = was.of /\ was.of \in Created
    BY <1>1 DEF LoaderInv, ProgramIs
  <1>3. /\ tape.pos = s + start + Len(loader.buf) /\ Len(loader.buf) < size
        /\ ReadAt(Stream[was.of], s + start, loader.buf)
    BY <1>1 DEF Reading
  <1>4. /\ loader.buf \in Seq(Nat) /\ Len(loader.buf) \in Nat /\ size \in Nat
        /\ tape'.of = tape.of /\ tape'.pos = tape.pos + 1
    BY <1>1 DEF LoaderInv, LoaderTypeOK, LoaderRecord
  <1>5. Stream[was.of] \in Seq(Nat)
    BY <1>2, StreamIs
  <1> DEFINE S == Stream[was.of]
             at == s + start
             buf == loader.buf
             b == Buf
             pos == tape.pos
  <1>6. at \in Nat /\ pos = at + Len(buf) /\ b = Append(buf, S[pos + 1])
    BY <1>2, <1>3 DEF Buf, TapeByte
  <1>7. S \in Seq(Nat) /\ PartAt(S, at, u) /\ buf \in Seq(Nat) /\ Len(buf) < Len(u)
        /\ ReadAt(S, at, buf)
    BY <1>3, <1>4, <1>5
  <1> HIDE DEF S, at, buf, b, pos
  <1>8. /\ b \in Seq(Nat) /\ Len(b) = Len(buf) + 1
        /\ ReadAt(S, at, b)
        /\ Len(b) = Len(u) => b = u
    <2>1. Extended(S, at, u, buf, pos, b)
      BY <1>6, <1>7, FieldByte
    <2>2. QED
      BY <2>1 DEF Extended
  <1>9. tape'.pos \in Nat /\ tape'.pos = at + Len(b) /\ Len(b) \in Nat
    BY <1>4, <1>6, <1>7, <1>8 DEF pos
  <1>10. Short(size) <=> Len(b) < size
    BY <1>8 DEF Short, buf
  <1>11. ~Short(size) => b = u
    <2>1. Len(buf) \in Nat /\ size \in Nat /\ Len(buf) < size /\ size = Len(u) /\ Len(b) = Len(buf) + 1
      BY <1>4, <1>7, <1>8 DEF buf
    <2>2. QED
      BY <1>8, <1>10, <2>1
  <1>12. QED
    BY <1>1, <1>2, <1>4, <1>8, <1>9, <1>10, <1>11 DEF S, at, b

\* The fields of the header, where they are and how long.
FieldAt(field, start, size) ==
    \/ field = "entry" /\ start = 0 /\ size = 4
    \/ field = "name" /\ start = 4 /\ size = TAPE_NAME_LEN
    \/ field = "addr" /\ start = 4 + TAPE_NAME_LEN /\ size = 4
    \/ field = "length" /\ start = 8 + TAPE_NAME_LEN /\ size = 4

\* A byte of a field has been read.
ByteRead(field, start, size) ==
    /\ FieldAt(field, start, size)
    /\ loader.at = field /\ tape.of = was.of /\ tape' \in [of : Created \cup {0}, pos : Nat]
    /\ tape'.of = tape.of
    /\ Buf \in Seq(Nat) /\ Len(Buf) \in Nat
    /\ tape'.pos = BlockStart(was.of, was.block) + start + Len(Buf)
    /\ ReadAt(Stream[was.of], BlockStart(was.of, was.block) + start, Buf)
    /\ UNCHANGED was

\* What is there when it was the last.
FieldBytes(field, p, final) ==
    CASE field = "entry" -> BigEndian(Entry(p))
      [] field = "name" -> Named(p.name)
      [] field = "addr" -> BigEndian(p.addr)
      [] field = "length" -> LengthWord(Image(p), Flag(final))

\* A field of the header is on the tape where the loader is, and not yet read to its end.
LEMMA FieldParts ==
    ASSUME LoaderInv, NEW field, NEW start, NEW size, FieldAt(field, start, size), loader.at = field,
           NEW u, u = FieldBytes(field, Program, was.block = Len(Blocks(was.of))),
           NEW s, s = BlockStart(was.of, was.block)
    PROVE  /\ s \in Nat /\ start \in Nat /\ u \in Seq(Nat) /\ Len(u) = size
           /\ PartAt(Stream[was.of], s + start, u) /\ Reading(field, start, size)
  <1> DEFINE p == Program
             final == was.block = Len(Blocks(was.of))
             N == TAPE_NAME_LEN
  <1>1. loader.at \in Fields \cup {"READY"} /\ field \in {"entry", "name", "addr", "length"}
    BY DEF FieldAt, Fields
  <1>2. /\ s \in Nat /\ N \in Nat
        /\ PartAt(Stream[was.of], s, BigEndian(Entry(p)))
        /\ PartAt(Stream[was.of], s + 4, Named(p.name))
        /\ PartAt(Stream[was.of], s + 4 + N, BigEndian(p.addr))
        /\ PartAt(Stream[was.of], s + 8 + N, LengthWord(Image(p), Flag(final)))
    BY <1>1, Here
  <1>3. /\ BigEndian(Entry(p)) \in Seq(Nat) /\ Len(BigEndian(Entry(p))) = 4
        /\ Named(p.name) \in Seq(Nat) /\ Len(Named(p.name)) = N
        /\ BigEndian(p.addr) \in Seq(Nat) /\ Len(BigEndian(p.addr)) = 4
        /\ Image(p) \in Seq(Nat)
    BY <1>1, HereProgram
  <1> HIDE DEF p, N
  <1>4. LengthWord(Image(p), Flag(final)) \in Seq(Nat) /\ Len(LengthWord(Image(p), Flag(final))) = 4
    <2>1. Flag(final) \in {0, 128}
      BY DEF Flag
    <2>2. QED
      BY <1>3, <2>1, LengthWordType DEF IsWord
  <1> HIDE DEF final
  <1>5. ReadingHeader /\ u = FieldBytes(field, p, final)
    BY DEF LoaderInv, p, final
  <1>6. s + 0 = s /\ s + (4 + N) = s + 4 + N /\ s + (8 + N) = s + 8 + N /\ 4 + N \in Nat /\ 8 + N \in Nat
    BY <1>2
  <1>7. CASE field = "entry"
    <2>1. u = BigEndian(Entry(p)) /\ start = 0 /\ size = 4
      BY <1>5, <1>7 DEF FieldAt, FieldBytes
    <2>2. Reading("entry", 0, 4)
      BY <1>5 DEF ReadingHeader
    <2>3. QED
      BY <1>2, <1>3, <1>6, <1>7, <2>1, <2>2
  <1>8. CASE field = "name"
    <2>1. u = Named(p.name) /\ start = 4 /\ size = N
      BY <1>5, <1>8 DEF FieldAt, FieldBytes, N
    <2>2. Reading("name", 4, N)
      BY <1>5 DEF ReadingHeader, N
    <2>3. QED
      BY <1>2, <1>3, <1>8, <2>1, <2>2
  <1>9. CASE field = "addr"
    <2>1. u = BigEndian(p.addr) /\ start = 4 + N /\ size = 4
      BY <1>5, <1>9 DEF FieldAt, FieldBytes, N
    <2>2. Reading("addr", 4 + N, 4)
      BY <1>5 DEF ReadingHeader, N
    <2>3. QED
      BY <1>2, <1>3, <1>6, <1>9, <2>1, <2>2
  <1>10. CASE field = "length"
    <2>1. u = LengthWord(Image(p), Flag(final)) /\ start = 8 + N /\ size = 4
      BY <1>5, <1>10 DEF FieldAt, FieldBytes, N
    <2>2. Reading("length", 8 + N, 4)
      BY <1>5 DEF ReadingHeader, N
    <2>3. QED
      BY <1>2, <1>4, <1>6, <1>10, <2>1, <2>2
  <1>11. QED
    BY <1>1, <1>7, <1>8, <1>9, <1>10

\* A byte of it is read.
LEMMA FieldRead ==
    ASSUME LoaderInv, NEW field, NEW start, NEW size, FieldAt(field, start, size), Reads(field),
           NEW u, u = FieldBytes(field, Program, was.block = Len(Blocks(was.of)))
    PROVE  /\ ByteRead(field, start, size)
           /\ Short(size) => Len(Buf) < size
           /\ ~Short(size) => Buf = u
  <1>1. PICK s : s = BlockStart(was.of, was.block)
    OBVIOUS
  <1>2. loader.at = field /\ field \in Fields /\ UNCHANGED was /\ tape' = [tape EXCEPT !.pos = @ + 1]
    BY DEF Reads, FieldAt, Fields
  <1>3. /\ s \in Nat /\ start \in Nat /\ u \in Seq(Nat) /\ size = Len(u)
        /\ PartAt(Stream[was.of], s + start, u) /\ Reading(field, start, size)
    BY <1>1, <1>2, FieldParts
  <1>4. /\ loader.at = field /\ tape.of = was.of
        /\ Buf \in Seq(Nat) /\ Len(Buf) \in Nat
        /\ tape'.of = tape.of /\ tape'.pos \in Nat /\ tape'.pos = s + start + Len(Buf)
        /\ ReadAt(Stream[was.of], s + start, Buf)
        /\ Short(size) => Len(Buf) < size
        /\ ~Short(size) => Buf = u
    BY <1>1, <1>2, <1>3, HeaderByte
  <1>5. tape' \in [of : Created \cup {0}, pos : Nat]
    <2>1. PICK C : C = Created \cup {0}
      OBVIOUS
    <2>2. tape \in [of : C, pos : Nat]
      BY <2>1 DEF LoaderInv, LoaderTypeOK
    <2>3. tape' \in [of : C, pos : Nat]
      BY <1>2, <2>2
    <2>4. QED
      BY <2>1, <2>3
  <1>6. QED
    BY <1>1, <1>2, <1>4, <1>5 DEF ByteRead

\* A byte that is not the last of its field.
LEMMA StepKeep ==
    ASSUME LoaderInv, NEW field, NEW start, NEW size, ByteRead(field, start, size), Len(Buf) < size,
           Keep, UNCHANGED <<mem, regions>>
    PROVE  LoaderInv'
  <1>1. /\ field \in {"entry", "name", "addr", "length"} /\ loader.at = field
        /\ loader \in LoaderRecord /\ Buf \in Seq(Nat)
    BY DEF ByteRead, FieldAt, LoaderInv, LoaderTypeOK
  <1>2. /\ loader' \in LoaderRecord /\ loader'.at = loader.at /\ loader'.buf = Buf
        /\ loader'.entry = loader.entry /\ loader'.name = loader.name /\ loader'.addr = loader.addr
    BY <1>1 DEF Keep, LoaderRecord
  <1>3. was' = was /\ tape'.of = tape.of /\ mem' = mem /\ regions' = regions /\ Program' = Program
    BY DEF ByteRead, Program
  <1>4. LoaderTypeOK'
    BY <1>2, <1>3 DEF LoaderInv, LoaderTypeOK, ByteRead, MemoryType
  <1>5. ProgramIs'
    BY <1>2, <1>3 DEF LoaderInv, ProgramIs
  <1>6. ReadingHeader'
    <2>1. Reading(field, start, size)'
      BY <1>2, <1>3 DEF ByteRead, Reading
    <2>2. QED
      BY <1>1, <1>2, <2>1 DEF ReadingHeader, Reading, ByteRead, FieldAt
  <1>7. HeaderIs'
    BY <1>1, <1>2, <1>3 DEF LoaderInv, HeaderIs
  <1>8. ReadingData' /\ DataIs'
    BY <1>1, <1>2 DEF ReadingData, DataIs
  <1>9. RegionsAre'
    BY <1>1, <1>2, <1>3 DEF LoaderInv, RegionsAre
  <1>10. QED
    BY <1>4, <1>5, <1>6, <1>7, <1>8, <1>9 DEF LoaderInv

\* The last byte of a field of the header, of which the loader keeps what it says.
LEMMA StepField ==
    ASSUME LoaderInv, NEW field, NEW start, NEW size, ByteRead(field, start, size),
           NEW u, u = FieldBytes(field, Program, was.block = Len(Blocks(was.of))), Buf = u, Len(u) = size,
           \/ /\ field = "entry"
              /\ loader' = [loader EXCEPT !.at = "name", !.buf = <<>>, !.entry = Number(Buf)]
           \/ /\ field = "name"
              /\ loader' = [loader EXCEPT !.at = "addr", !.buf = <<>>, !.name = Buf]
           \/ /\ field = "addr"
              /\ loader' = [loader EXCEPT !.at = "length", !.buf = <<>>, !.addr = Number(Buf)],
           UNCHANGED <<mem, regions>>
    PROVE  LoaderInv'
  <1> DEFINE p == Program
             s == BlockStart(was.of, was.block)
  <1>1. /\ field \in {"entry", "name", "addr"} /\ loader.at = field /\ loader.at \in Fields \cup {"READY"}
        /\ loader \in LoaderRecord /\ Buf \in Seq(Nat) /\ HeaderIs
    BY DEF ByteRead, FieldAt, LoaderInv, LoaderTypeOK, Fields
  <1>2. s \in Nat /\ TAPE_NAME_LEN \in Nat /\ TAPE_NAME_LEN > 0
    BY <1>1, Here
  <1>3. /\ Entry(p) \in Nat /\ Number(BigEndian(Entry(p))) = Entry(p)
        /\ p.addr \in Nat /\ Number(BigEndian(p.addr)) = p.addr /\ Named(p.name) \in Seq(Nat)
    BY <1>1, HereProgram
  <1>4. was' = was /\ tape'.of = tape.of /\ mem' = mem /\ regions' = regions /\ Program' = Program
    BY DEF ByteRead, Program
  <1>5. tape'.pos = s + start + size
    BY DEF ByteRead
  <1> HIDE DEF p, s
  <1>6. <<>> \in Seq(Nat) /\ Len(<<>>) = 0 /\ \A S, a : ReadAt(S, a, <<>>)
    BY DEF ReadAt
  <1>7. CASE field = "entry"
    <2>1. Number(Buf) = Entry(p) /\ start = 0 /\ size = 4
      BY <1>3, <1>7 DEF FieldBytes, ByteRead, FieldAt, p
    <2>2. /\ loader' \in LoaderRecord /\ loader'.at = "name" /\ loader'.buf = <<>> /\ loader'.entry = Entry(p)
      <3>1. loader' = [loader EXCEPT !.at = "name", !.buf = <<>>, !.entry = Entry(p)]
        BY <1>7, <2>1
      <3>2. QED
        BY <1>1, <1>3, <1>6, <3>1 DEF LoaderRecord, Fields
    <2>3. Reading("name", 4, TAPE_NAME_LEN)'
      <3>1. tape'.pos = s + 4 + Len(<<>>) /\ Len(<<>>) < TAPE_NAME_LEN
        BY <1>2, <1>5, <1>6, <2>1
      <3>2. QED
        BY <1>4, <1>6, <2>2, <3>1 DEF Reading, s
    <2>4. ReadingHeader'
      BY <2>2, <2>3 DEF ReadingHeader, Reading
    <2>5. LoaderTypeOK'
      BY <1>4, <2>2 DEF LoaderInv, LoaderTypeOK, ByteRead, MemoryType
    <2>6. ProgramIs'
      BY <1>1, <1>4, <2>2 DEF LoaderInv, ProgramIs, ByteRead
    <2>7. HeaderIs'
      BY <1>1, <1>4, <1>7, <2>2 DEF HeaderIs, p
    <2>8. ReadingData' /\ DataIs'
      BY <2>2 DEF ReadingData, DataIs
    <2>9. RegionsAre'
      BY <1>1, <1>4, <1>7, <2>2 DEF LoaderInv, RegionsAre
    <2>10. QED
      BY <2>4, <2>5, <2>6, <2>7, <2>8, <2>9 DEF LoaderInv
  <1>8. CASE field = "name"
    <2>1. Buf = Named(p.name) /\ start = 4 /\ size = TAPE_NAME_LEN
      BY <1>3, <1>8 DEF FieldBytes, ByteRead, FieldAt, p
    <2>2. /\ loader' \in LoaderRecord /\ loader'.at = "addr" /\ loader'.buf = <<>>
          /\ loader'.entry = loader.entry /\ loader'.name = Named(p.name)
      BY <1>1, <1>3, <1>6, <1>8, <2>1 DEF LoaderRecord, Fields
    <2>3. Reading("addr", 4 + TAPE_NAME_LEN, 4)'
      <3>1. tape'.pos = s + (4 + TAPE_NAME_LEN) + Len(<<>>) /\ Len(<<>>) < 4
        BY <1>2, <1>5, <1>6, <2>1
      <3>2. QED
        BY <1>4, <1>6, <2>2, <3>1 DEF Reading, s
    <2>4. ReadingHeader'
      BY <2>2, <2>3 DEF ReadingHeader, Reading
    <2>5. LoaderTypeOK'
      BY <1>4, <2>2 DEF LoaderInv, LoaderTypeOK, ByteRead, MemoryType
    <2>6. ProgramIs'
      BY <1>1, <1>4, <2>2 DEF LoaderInv, ProgramIs, ByteRead
    <2>7. HeaderIs'
      BY <1>1, <1>4, <1>8, <2>2 DEF HeaderIs, p
    <2>8. ReadingData' /\ DataIs'
      BY <2>2 DEF ReadingData, DataIs
    <2>9. RegionsAre'
      BY <1>1, <1>4, <1>8, <2>2 DEF LoaderInv, RegionsAre
    <2>10. QED
      BY <2>4, <2>5, <2>6, <2>7, <2>8, <2>9 DEF LoaderInv
  <1>9. CASE field = "addr"
    <2>1. Number(Buf) = p.addr /\ start = 4 + TAPE_NAME_LEN /\ size = 4
      BY <1>3, <1>9 DEF FieldBytes, ByteRead, FieldAt, p
    <2>2. /\ loader' \in LoaderRecord /\ loader'.at = "length" /\ loader'.buf = <<>>
          /\ loader'.entry = loader.entry /\ loader'.name = loader.name /\ loader'.addr = p.addr
      BY <1>1, <1>3, <1>6, <1>9, <2>1 DEF LoaderRecord, Fields
    <2>3. Reading("length", 8 + TAPE_NAME_LEN, 4)'
      <3>1. tape'.pos = s + (8 + TAPE_NAME_LEN) + Len(<<>>) /\ Len(<<>>) < 4
        BY <1>2, <1>5, <1>6, <2>1
      <3>2. QED
        BY <1>4, <1>6, <2>2, <3>1 DEF Reading, s
    <2>4. ReadingHeader'
      BY <2>2, <2>3 DEF ReadingHeader, Reading
    <2>5. LoaderTypeOK'
      BY <1>4, <2>2 DEF LoaderInv, LoaderTypeOK, ByteRead, MemoryType
    <2>6. ProgramIs'
      BY <1>1, <1>4, <2>2 DEF LoaderInv, ProgramIs, ByteRead
    <2>7. HeaderIs'
      BY <1>1, <1>4, <1>9, <2>2 DEF HeaderIs, p
    <2>8. ReadingData' /\ DataIs'
      BY <2>2 DEF ReadingData, DataIs
    <2>9. RegionsAre'
      BY <1>1, <1>4, <1>9, <2>2 DEF LoaderInv, RegionsAre
    <2>10. QED
      BY <2>4, <2>5, <2>6, <2>7, <2>8, <2>9 DEF LoaderInv
  <1>10. QED
    BY <1>1, <1>7, <1>8, <1>9

-----------------------------------------------------------------------------
(* The tape: the steps.                                                    *)

\* A byte of the header is read.
LEMMA StepHeader == LoaderInv /\ ReadHeader => LoaderInv'
  <1> SUFFICES ASSUME LoaderInv, ReadHeader PROVE LoaderInv'
    OBVIOUS
  <1> DEFINE final == was.block = Len(Blocks(was.of))
  <1>1. PICK field, start, size :
           /\ FieldAt(field, start, size) /\ Reads(field)
           /\ \/ Short(size) /\ Keep
              \/ /\ ~Short(size)
                 /\ \/ /\ field = "entry"
                       /\ loader' = [loader EXCEPT !.at = "name", !.buf = <<>>, !.entry = Number(Buf)]
                    \/ /\ field = "name"
                       /\ loader' = [loader EXCEPT !.at = "addr", !.buf = <<>>, !.name = Buf]
                    \/ /\ field = "addr"
                       /\ loader' = [loader EXCEPT !.at = "length", !.buf = <<>>, !.addr = Number(Buf)]
    <2>1. FieldAt("entry", 0, 4) /\ FieldAt("name", 4, TAPE_NAME_LEN) /\ FieldAt("addr", 4 + TAPE_NAME_LEN, 4)
      BY DEF FieldAt
    <2>2. CASE /\ Reads("entry")
               /\ IF Short(4) THEN Keep
                  ELSE loader' = [loader EXCEPT !.at = "name", !.buf = <<>>, !.entry = Number(Buf)]
      BY <2>1, <2>2
    <2>3. CASE /\ Reads("name")
               /\ IF Short(TAPE_NAME_LEN) THEN Keep
                  ELSE loader' = [loader EXCEPT !.at = "addr", !.buf = <<>>, !.name = Buf]
      BY <2>1, <2>3
    <2>4. CASE /\ Reads("addr")
               /\ IF Short(4) THEN Keep
                  ELSE loader' = [loader EXCEPT !.at = "length", !.buf = <<>>, !.addr = Number(Buf)]
      BY <2>1, <2>4
    <2>5. QED
      BY <2>2, <2>3, <2>4 DEF ReadHeader
  <1>2. PICK u : u = FieldBytes(field, Program, final)
    OBVIOUS
  <1>3. ByteRead(field, start, size) /\ (Short(size) => Len(Buf) < size) /\ (~Short(size) => Buf = u)
    BY <1>1, <1>2, FieldRead
  <1>4. Len(u) = size
    <2>1. PICK s : s = BlockStart(was.of, was.block)
      OBVIOUS
    <2>2. loader.at = field
      BY <1>3 DEF ByteRead
    <2>3. QED
      BY <1>1, <1>2, <2>1, <2>2, FieldParts
  <1>5. UNCHANGED <<mem, regions>>
    BY DEF ReadHeader
  <1>6. CASE Short(size) /\ Keep
    BY <1>3, <1>5, <1>6, StepKeep
  <1>7. CASE ~Short(size)
    <2>1. Buf = u /\ ByteRead(field, start, size)
      BY <1>3, <1>7
    <2>2. \/ /\ field = "entry"
             /\ loader' = [loader EXCEPT !.at = "name", !.buf = <<>>, !.entry = Number(Buf)]
          \/ /\ field = "name"
             /\ loader' = [loader EXCEPT !.at = "addr", !.buf = <<>>, !.name = Buf]
          \/ /\ field = "addr"
             /\ loader' = [loader EXCEPT !.at = "length", !.buf = <<>>, !.addr = Number(Buf)]
      BY <1>1, <1>7
    <2>3. QED
      BY <1>2, <1>4, <1>5, <2>1, <2>2, StepField
  <1>8. QED
    BY <1>1, <1>6, <1>7

\* What the loader knows of a program when it reads its data.
KnowsHeader(l) ==
    /\ l \in LoaderRecord
    /\ l.entry = Entry(Program) /\ l.name = Named(Program.name) /\ l.addr = Program.addr
    /\ l.final = (was.block = Len(Blocks(was.of)))

\* The data have been read.
LEMMA StepDataLoaded ==
    ASSUME LoaderInv, loader.at \in {"length", "data"}, NEW l, KnowsHeader(l),
           l.written = Len(Image(Program)), DataLoaded(l, mem'), MemoryType(mem'),
           Holds(Len(Image(Program)))', UNCHANGED was,
           tape' \in [of : Created \cup {0}, pos : Nat], tape'.of = tape.of
    PROVE  LoaderInv'
  <1> DEFINE p == Program
             pos == symbol_entry_pos(mem', l.addr)
             region == <<l.addr, l.addr + l.written>>
  <1>1. loader.at \in Fields \cup {"READY"} /\ loader.at \in Fields
    BY DEF Fields
  <1>2. p.addr \in Nat /\ Image(p) \in Seq(Nat) /\ p = Program
    BY <1>1, HereProgram
  <1>3. pos \in Nat /\ pos >= SYMBOLS_ADDR
    BY EntryAbove
  <1>4. /\ l \in LoaderRecord
        /\ l.entry = Entry(p) /\ l.name = Named(p.name) /\ l.addr = p.addr
        /\ l.final = (was.block = Len(Blocks(was.of)))
        /\ was' = was /\ Program' = p
    BY DEF KnowsHeader, Program
  <1>5. /\ regions' = add_loaded_tape(l.addr, l.addr + l.written)
        /\ loader' = [l EXCEPT !.at = IF pos >= symbols_end THEN "failed" ELSE "symbols_length",
                               !.buf = <<>>, !.to = pos, !.written = 0]
    BY DEF DataLoaded
  <1> HIDE DEF pos
  <1>6. /\ loader' \in LoaderRecord /\ loader'.at \in {"failed", "symbols_length"}
        /\ loader'.to = pos /\ loader'.entry = l.entry /\ loader'.name = l.name
        /\ loader'.addr = l.addr /\ loader'.final = l.final
    <2>1. PICK next \in {"failed", "symbols_length"} :
             loader' = [l EXCEPT !.at = next, !.buf = <<>>, !.to = pos, !.written = 0]
      BY <1>5
    <2>2. next \in Resting \cup Fields /\ <<>> \in Seq(Nat)
      BY DEF Resting, Fields
    <2>3. QED
      BY <1>3, <1>4, <2>1, <2>2 DEF LoaderRecord
  <1>7. regions = was.regions /\ was.regions \in Seq(Nat \X Nat)
    BY DEF LoaderInv, RegionsAre, LoaderTypeOK
  <1>8. regions' = IF Len(was.regions) >= MAX_TAPE_REGIONS THEN was.regions ELSE Append(was.regions, region)
    BY <1>5, <1>7 DEF add_loaded_tape
  <1>9. region \in Nat \X Nat /\ region = <<p.addr, p.addr + Len(Image(p))>>
    <2>1. l.written \in Nat /\ l.addr \in Nat
      BY <1>2, <1>4
    <2>2. QED
      BY <1>4, <2>1
  <1> HIDE DEF p, region
  <1>10. regions' \in Seq(Nat \X Nat)
    BY <1>7, <1>8, <1>9
  <1>11. LoaderTypeOK'
    BY <1>4, <1>6, <1>10 DEF LoaderInv, LoaderTypeOK, MemoryType
  <1>12. ProgramIs'
    BY <1>1, <1>4 DEF LoaderInv, ProgramIs
  <1>13. ReadingHeader' /\ ReadingData'
    BY <1>6 DEF ReadingHeader, Reading, ReadingData
  <1>14. HeaderIs'
    BY <1>4, <1>6 DEF HeaderIs
  <1>15. DataIs'
    BY <1>3, <1>4, <1>6 DEF DataIs, p
  <1>16. RegionsAre'
    BY <1>4, <1>6, <1>8, <1>9 DEF RegionsAre
  <1>17. QED
    BY <1>11, <1>12, <1>13, <1>14, <1>15, <1>16 DEF LoaderInv

\* What is left of a length without its flag is a number.
LEMMA UnflaggedType ==
    ASSUME NEW w \in Seq(Nat), Len(w) >= 4
    PROVE  Unflagged(w) \in Nat
  <1> DEFINE x == w[1] % 128
             v == [w EXCEPT ![1] = x]
  <1>1. \A i \in 1 .. 4 : i \in 1 .. Len(w) /\ w[i] \in Nat
    <2>1. \A i \in 1 .. 4 : i \in 1 .. Len(w)
      OBVIOUS
    <2>2. QED
      BY <2>1, ElementOfSeq
  <1>2. x \in Nat
    BY <1>1
  <1>3. Unflagged(w) = Number(v)
    BY Zenon DEF Unflagged
  <1> HIDE DEF x
  <1>4. \A i \in 1 .. 4 : v[i] \in Nat
    BY <1>1, <1>2
  <1> HIDE DEF v
  <1>5. QED
    BY <1>3, <1>4, NumberOfWord

\* A byte of the length is read; after the last one come the data, if there are any.
LEMMA StepLength == LoaderInv /\ ReadLength => LoaderInv'
  <1> SUFFICES ASSUME LoaderInv, ReadLength PROVE LoaderInv'
    OBVIOUS
  <1> DEFINE final == was.block = Len(Blocks(was.of))
             start == 8 + TAPE_NAME_LEN
             l == [loader EXCEPT !.at = "data", !.buf = <<>>, !.left = Unflagged(Buf),
                                 !.final = Buf[1] >= 128, !.written = 0]
             n == Len(Image(Program))
             s == BlockStart(was.of, was.block)
  <1>1. /\ Reads("length")
        /\ IF Short(4) THEN Keep /\ UNCHANGED regions
           ELSE IF l.left = 0 THEN DataLoaded(l, mem) ELSE loader' = l /\ UNCHANGED regions
        /\ UNCHANGED <<mem, known>>
    BY Zenon DEF ReadLength
  <1>2. FieldAt("length", start, 4)
    BY DEF FieldAt
  <1>3. PICK u : u = FieldBytes("length", Program, final)
    OBVIOUS
  <1>4. ByteRead("length", start, 4) /\ (Short(4) => Len(Buf) < 4) /\ (~Short(4) => Buf = u)
    <2> HIDE DEF start
    <2> QED BY <1>1, <1>2, <1>3, FieldRead
  <1> HIDE DEF start
  <1>5. CASE Short(4)
    BY <1>1, <1>4, <1>5, StepKeep
  <1>6. CASE ~Short(4)
    <2>1. loader.at = "length" /\ loader.at \in Fields \cup {"READY"} /\ was' = was /\ tape.of = was.of
          /\ tape' \in [of : Created \cup {0}, pos : Nat] /\ tape'.of = tape.of
          /\ tape'.pos = s + start + Len(Buf)
      BY <1>4 DEF ByteRead, Fields
    <2>2. s \in Nat /\ TAPE_NAME_LEN \in Nat
      BY <2>1, Here
    <2>3. Image(Program) \in Seq(Nat) /\ n < MaxAddress /\ n \in Nat
      BY <2>1, HereProgram
    <2>4. Buf = LengthWord(Image(Program), Flag(final))
      BY <1>3, <1>4, <1>6 DEF FieldBytes
    <2>5. Flag(final) \in {0, 128} /\ (Flag(final) = 128 <=> final)
      BY DEF Flag
    <2>6. Unflagged(Buf) = n /\ ((Buf[1] >= 128) = final) /\ Len(Buf) = 4
      <3>1. /\ IsWord(LengthWord(Image(Program), Flag(final)))
            /\ Unflagged(LengthWord(Image(Program), Flag(final))) = n
            /\ LengthWord(Image(Program), Flag(final))[1] >= 128 <=> Flag(final) = 128
        <4> HIDE DEF final
        <4> QED BY <2>3, <2>5, LengthWordReads
      <3>2. Buf[1] >= 128 <=> final
        BY <2>4, <2>5, <3>1
      <3>3. (Buf[1] >= 128) \in BOOLEAN /\ final \in BOOLEAN
        OBVIOUS
      <3>4. Unflagged(Buf) = n /\ Len(Buf) = 4
        BY <2>4, <3>1, Zenon DEF IsWord
      <3> HIDE DEF final
      <3>5. QED
        BY <3>2, <3>3, <3>4, Zenon
    <2> HIDE DEF n, final, s
    <2>7. loader \in LoaderRecord /\ HeaderIs
      BY DEF LoaderInv, LoaderTypeOK
    <2>8. l = [loader EXCEPT !.at = "data", !.buf = <<>>, !.left = n, !.final = final, !.written = 0]
      BY <2>6, Zenon
    <2>9. /\ l \in LoaderRecord /\ l.at = "data" /\ l.left = n /\ l.written = 0 /\ l.buf = <<>>
          /\ l.final = final /\ l.entry = loader.entry /\ l.name = loader.name /\ l.addr = loader.addr
      <3>1. PICK to \in BOOLEAN, empty \in Seq(Nat), m \in Int :
               /\ to = final /\ empty = <<>> /\ m = n
               /\ l = [loader EXCEPT !.at = "data", !.buf = empty, !.left = m, !.final = to, !.written = 0]
        <4>1. final \in BOOLEAN /\ <<>> \in Seq(Nat) /\ n \in Int
          BY <2>3 DEF final
        <4> HIDE DEF l
        <4>2. QED
          BY <2>8, <4>1, Zenon
      <3> HIDE DEF l
      <3>2. 0 \in Nat
        OBVIOUS
      <3>3. l \in LoaderRecord
        BY <2>7, <3>1, <3>2 DEF LoaderRecord, Fields
      <3>4. /\ l.at = "data" /\ l.left = m /\ l.written = 0 /\ l.buf = empty
            /\ l.final = to /\ l.entry = loader.entry /\ l.name = loader.name /\ l.addr = loader.addr
        BY <2>7, <3>1 DEF LoaderRecord, Fields
      <3>5. QED
        BY <3>1, <3>3, <3>4
    <2> HIDE DEF l
    <2>10. KnowsHeader(l)
      BY <2>1, <2>7, <2>9 DEF HeaderIs, KnowsHeader, final
    <2>11. mem' = mem /\ MemoryType(mem') /\ Program' = Program
      BY <1>1, <2>1 DEF LoaderInv, LoaderTypeOK, Program
    <2>12. CASE l.left = 0
      <3>1. DataLoaded(l, mem') /\ l.written = n
        BY <1>1, <1>6, <2>9, <2>11, <2>12
      <3>2. n = 0 /\ n' = n
        BY <2>9, <2>11, <2>12 DEF n
      <3>3. Holds(Len(Image(Program)))'
        <4>1. Len(Image(Program')) = 0
          BY <3>2, Zenon DEF n
        <4>2. 1 .. Len(Image(Program')) = {}
          BY <4>1
        <4>3. QED
          BY <4>2 DEF Holds
      <3>4. QED
        BY <2>1, <2>10, <2>11, <3>1, <3>3, StepDataLoaded DEF n
    <2>13. CASE l.left # 0
      <3>1. loader' = l /\ regions' = regions
        BY <1>1, <1>6, <2>13
      <3>2. LoaderTypeOK'
        BY <2>1, <2>9, <2>11, <3>1 DEF LoaderInv, LoaderTypeOK
      <3>3. ProgramIs'
        BY <2>1, <2>9, <3>1 DEF LoaderInv, ProgramIs, Fields
      <3>4. ReadingHeader' /\ DataIs'
        BY <2>9, <3>1 DEF ReadingHeader, Reading, DataIs
      <3>5. HeaderIs'
        BY <2>1, <2>10, <2>11, <3>1 DEF KnowsHeader, HeaderIs
      <3>6. ReadingData'
        <4>1. tape'.pos = s + 12 + TAPE_NAME_LEN + 0
          BY <2>1, <2>2, <2>6 DEF start
        <4>2. Holds(0)'
          BY DEF Holds
        <4>3. n > 0 /\ 0 + n = n
          BY <2>3, <2>9, <2>13
        <4>4. Holds(loader.written)'
          BY <2>9, <3>1, <4>2
        <4>5. QED
          BY <2>1, <2>9, <2>11, <3>1, <4>1, <4>3, <4>4 DEF ReadingData, n, s
      <3>7. RegionsAre'
        BY <2>1, <2>9, <3>1 DEF LoaderInv, RegionsAre
      <3>8. QED
        BY <3>2, <3>3, <3>4, <3>5, <3>6, <3>7 DEF LoaderInv
    <2>14. QED
      BY <2>12, <2>13
  <1>7. QED
    BY <1>5, <1>6

\* A byte is read, of whichever field.
LEMMA AnyByte ==
    ASSUME LoaderInv, NEW field \in Fields, Reads(field)
    PROVE  /\ loader.at = field /\ loader.at \in Fields /\ loader.at \in Fields \cup {"READY"}
           /\ was.of \in Created /\ tape.of = was.of
           /\ tape' \in [of : Created \cup {0}, pos : Nat] /\ tape'.of = tape.of /\ tape'.pos = tape.pos + 1
           /\ was' = was /\ Program' = Program
           /\ TapeByte \in Nat /\ TapeByte = Stream[was.of][tape.pos + 1]
           /\ Buf \in Seq(Nat) /\ Len(Buf) = Len(loader.buf) + 1 /\ Len(Buf) \in Nat
  <1>1. loader.at = field /\ tape.pos < Len(Stream[tape.of]) /\ tape' = [tape EXCEPT !.pos = @ + 1] /\ was' = was
    BY DEF Reads
  <1>2. was.of \in Created /\ tape.of = was.of
    BY <1>1 DEF LoaderInv, ProgramIs
  <1>3. tape' \in [of : Created \cup {0}, pos : Nat] /\ tape'.of = tape.of /\ tape'.pos = tape.pos + 1
        /\ tape.pos \in Nat
    <2>1. PICK C : C = Created \cup {0}
      OBVIOUS
    <2>2. tape \in [of : C, pos : Nat]
      BY <2>1 DEF LoaderInv, LoaderTypeOK
    <2>3. tape' \in [of : C, pos : Nat] /\ tape'.of = tape.of /\ tape'.pos = tape.pos + 1
          /\ tape.pos \in Nat
      BY <1>1, <2>2
    <2>4. QED
      BY <2>1, <2>3
  <1>4. PICK S \in Seq(Nat) : S = Stream[was.of]
    BY <1>2, StreamIs
  <1>5. TapeByte = S[tape.pos + 1]
    BY <1>2, <1>4, Zenon DEF TapeByte
  <1>6. tape.pos + 1 \in 1 .. Len(S)
    BY <1>1, <1>2, <1>3, <1>4
  <1>7. TapeByte \in Nat
    BY <1>5, <1>6, ElementOfSeq
  <1>8. loader.buf \in Seq(Nat)
    BY DEF LoaderInv, LoaderTypeOK, LoaderRecord
  <1>9. Buf \in Seq(Nat) /\ Len(Buf) = Len(loader.buf) + 1 /\ Len(Buf) \in Nat
    BY <1>7, <1>8 DEF Buf
  <1>10. Program' = Program
    BY <1>1 DEF Program
  <1>11. QED
    BY <1>1, <1>2, <1>3, <1>4, <1>5, <1>7, <1>9, <1>10

\* A byte of the data.
LEMMA StepData == LoaderInv /\ ReadData => LoaderInv'
  <1> SUFFICES ASSUME LoaderInv, ReadData PROVE LoaderInv'
    OBVIOUS
  <1> DEFINE n == Len(Image(Program))
             s == BlockStart(was.of, was.block)
             done == loader.written
             l == [loader EXCEPT !.left = @ - 1, !.written = @ + 1]
             at == loader.addr + loader.written
  <1>1. /\ Reads("data") /\ mem' = [mem EXCEPT ![at] = TapeByte]
        /\ IF l.left = 0 THEN DataLoaded(l, mem') ELSE loader' = l /\ UNCHANGED regions
    BY Zenon DEF ReadData
  <1>2. "data" \in Fields
    BY DEF Fields
  <1>3. /\ loader.at = "data" /\ loader.at \in Fields /\ loader.at \in Fields \cup {"READY"}
        /\ tape' \in [of : Created \cup {0}, pos : Nat] /\ tape'.of = tape.of /\ tape'.pos = tape.pos + 1
        /\ was' = was /\ Program' = Program
        /\ TapeByte \in Nat /\ TapeByte = Stream[was.of][tape.pos + 1]
    BY <1>1, <1>2, AnyByte
  <1>4. s \in Nat /\ TAPE_NAME_LEN \in Nat /\ PartAt(Stream[was.of], s + 12 + TAPE_NAME_LEN, Image(Program))
    BY <1>3, Here
  <1>5. /\ Image(Program) \in Seq(Nat) /\ n \in Nat /\ Program.addr \in Nat
        /\ Program.addr + n <= SYMBOLS_ADDR /\ TapeAddr <= Program.addr
    BY <1>3, HereProgram
  <1>6. /\ tape.pos = s + 12 + TAPE_NAME_LEN + done /\ loader.left > 0
        /\ done + loader.left = n /\ Holds(done)
    BY <1>3 DEF LoaderInv, ReadingData
  <1>7. loader \in LoaderRecord /\ loader.addr = Program.addr /\ HeaderIs
    BY <1>3 DEF LoaderInv, LoaderTypeOK, HeaderIs
  <1>8. /\ l \in LoaderRecord /\ l.at = "data" /\ l.left = loader.left - 1 /\ l.written = done + 1
        /\ done \in Nat /\ loader.left \in Int
        /\ l.final = loader.final /\ l.entry = loader.entry /\ l.name = loader.name /\ l.addr = loader.addr
    <2>1. done \in Nat /\ loader.left \in Int
      BY <1>7 DEF LoaderRecord
    <2>2. PICK m \in Int, next \in Nat :
             /\ m = loader.left - 1 /\ next = done + 1
             /\ l = [loader EXCEPT !.left = m, !.written = next]
      <3>1. loader.left - 1 \in Int /\ done + 1 \in Nat
        BY <2>1
      <3>2. l = [loader EXCEPT !.left = loader.left - 1, !.written = done + 1]
        OBVIOUS
      <3> HIDE DEF l, done
      <3>3. QED
        BY <3>1, <3>2
    <2> HIDE DEF l
    <2>3. l \in LoaderRecord
      BY <1>7, <2>2 DEF LoaderRecord
    <2>4. /\ l.at = loader.at /\ l.left = m /\ l.written = next
          /\ l.final = loader.final /\ l.entry = loader.entry /\ l.name = loader.name /\ l.addr = loader.addr
      BY <1>7, <2>2 DEF LoaderRecord
    <2>5. QED
      BY <1>3, <2>1, <2>2, <2>3, <2>4
  <1> HIDE DEF n, s, done, l
  <1>9. TapeByte = Image(Program)[done + 1]
    <2>1. PICK P : P = Image(Program)
      OBVIOUS
    <2>2. PICK S : S = Stream[was.of]
      OBVIOUS
    <2>3. PICK k : k = done + 1
      OBVIOUS
    <2>4. k \in 1 .. Len(P)
      BY <1>5, <1>6, <1>8, <2>1, <2>3 DEF n
    <2>5. \A i \in 1 .. Len(P) : S[s + 12 + TAPE_NAME_LEN + i] = P[i]
      BY <1>4, <2>1, <2>2 DEF PartAt
    <2>6. tape.pos + 1 = s + 12 + TAPE_NAME_LEN + k
      BY <1>4, <1>6, <1>8, <2>3
    <2>7. S[s + 12 + TAPE_NAME_LEN + k] = P[k]
      BY <2>4, <2>5, Zenon
    <2>8. QED
      BY <1>3, <2>1, <2>2, <2>3, <2>6, <2>7, Zenon
  <1>10. at = Program.addr + done /\ at \in TapeAddr .. MemoryEnd
         /\ TapeAddr \in Nat /\ MemoryEnd \in Nat
    <2>1. SYMBOLS_ADDR \in Nat /\ MemoryEnd \in Nat /\ SYMBOLS_ADDR <= MemoryEnd /\ TapeAddr \in Nat
      BY SymbolsArea
    <2>2. at = Program.addr + done
      <3>1. loader.addr = Program.addr
        BY <1>7
      <3>2. QED
        BY <3>1, Zenon DEF done
    <2>3. done \in Nat /\ Program.addr \in Nat /\ TapeAddr <= Program.addr /\ done < n
      BY <1>5, <1>6, <1>8
    <2>4. Program.addr + n <= SYMBOLS_ADDR /\ n \in Nat
      BY <1>5
    <2> HIDE DEF at
    <2>5. QED
      BY <2>1, <2>2, <2>3, <2>4
  <1>11. MemoryType(mem) /\ MemoryType(mem')
    BY <1>1, <1>3 DEF LoaderInv, LoaderTypeOK, MemoryType
  <1> HIDE DEF at
  <1>12. ASSUME NEW i \in 1 .. done + 1 PROVE mem'[Program.addr + i - 1] = Image(Program)[i]
    <2>1. CASE i = done + 1
      <3>1. Program.addr + i - 1 = at
        BY <1>5, <1>8, <1>10, <2>1
      <3>2. mem'[at] = TapeByte
        BY <1>1, <1>10, <1>11 DEF MemoryType
      <3>3. QED
        BY <1>9, <2>1, <3>1, <3>2
    <2>2. CASE i # done + 1
      <3>1. i \in 1 .. done /\ Program.addr + i - 1 # at
        BY <1>5, <1>8, <1>10, <2>2
      <3>2. mem[Program.addr + i - 1] = Image(Program)[i]
        BY <1>6, <3>1 DEF Holds
      <3>3. mem'[Program.addr + i - 1] = mem[Program.addr + i - 1]
        <4>1. PICK a : a = Program.addr + i - 1
          OBVIOUS
        <4>2. a # at /\ a \in TapeAddr .. MemoryEnd
          <5>1. a # at
            BY <3>1, <4>1
          <5>2. Program.addr \in Nat /\ TapeAddr <= Program.addr /\ done \in Nat /\ i \in 1 .. done
            BY <1>5, <1>8, <3>1
          <5>3. at \in Int /\ at = Program.addr + done /\ at <= MemoryEnd /\ TapeAddr \in Nat /\ MemoryEnd \in Nat
            BY <1>10
          <5>4. QED
            BY <4>1, <5>1, <5>2, <5>3
        <4>3. QED
          BY <1>1, <1>11, <4>1, <4>2 DEF MemoryType
      <3>4. QED
        BY <3>2, <3>3
    <2>3. QED
      BY <2>1, <2>2
  <1>13. KnowsHeader(l)
    BY <1>3, <1>7, <1>8 DEF HeaderIs, KnowsHeader
  <1>14. CASE l.left = 0
    <2>1. done + 1 = n /\ l.written = n
      BY <1>5, <1>6, <1>8, <1>14
    <2>2. DataLoaded(l, mem')
      BY <1>1, <1>14
    <2>3. Holds(Len(Image(Program)))'
      <3>1. \A i \in 1 .. Len(Image(Program')) : mem'[Program'.addr + i - 1] = Image(Program')[i]
        BY <1>3, <1>12, <2>1 DEF n
      <3>2. QED
        BY <3>1 DEF Holds
    <2>4. QED
      BY <1>3, <1>11, <1>13, <2>1, <2>2, <2>3, StepDataLoaded DEF n
  <1>15. CASE l.left # 0
    <2>1. loader' = l /\ regions' = regions
      BY <1>1, <1>15
    <2>2. LoaderTypeOK'
      BY <1>3, <1>8, <1>11, <2>1 DEF LoaderInv, LoaderTypeOK
    <2>3. ProgramIs'
      BY <1>3, <1>8, <2>1 DEF LoaderInv, ProgramIs, Fields
    <2>4. ReadingHeader' /\ DataIs'
      BY <1>8, <2>1 DEF ReadingHeader, Reading, DataIs
    <2>5. HeaderIs'
      BY <1>3, <1>13, <2>1 DEF KnowsHeader, HeaderIs
    <2>6. ReadingData'
      <3>1. /\ tape'.pos = s + 12 + TAPE_NAME_LEN + l.written
            /\ l.left > 0 /\ l.written + l.left = n
        BY <1>3, <1>4, <1>5, <1>6, <1>8, <1>15
      <3>2. Holds(loader.written)'
        <4>1. \A i \in 1 .. l.written : mem'[Program'.addr + i - 1] = Image(Program')[i]
          BY <1>3, <1>8, <1>12
        <4>2. QED
          BY <2>1, <4>1 DEF Holds
      <3>3. QED
        BY <1>3, <2>1, <3>1, <3>2 DEF ReadingData, n, s
    <2>7. RegionsAre'
      BY <1>3, <1>8, <2>1 DEF LoaderInv, RegionsAre
    <2>8. QED
      BY <2>2, <2>3, <2>4, <2>5, <2>6, <2>7 DEF LoaderInv
  <1>16. QED
    BY <1>14, <1>15

\* What the loader keeps of a program when it is at its symbols.
Retains(l) ==
    /\ l \in LoaderRecord /\ l.at \in {"symbols_length", "symbols", "READY"}
    /\ l.entry = loader.entry /\ l.name = loader.name /\ l.addr = loader.addr
    /\ l.final = loader.final /\ l.to = loader.to

\* Behind the data nothing changes them.
LEMMA StepBehind ==
    ASSUME LoaderInv, loader.at \in {"symbols_length", "symbols"}, Retains(loader'),
           MemoryType(mem'), Holds(Len(Image(Program)))', UNCHANGED <<was, regions>>,
           tape' \in [of : Created \cup {0}, pos : Nat], tape'.of = tape.of
    PROVE  LoaderInv'
  <1>1. loader.at \in Fields /\ loader.at \in Fields \cup {"READY"}
    BY DEF Fields
  <1>2. was' = was /\ regions' = regions /\ Program' = Program
    BY DEF Program
  <1>3. LoaderTypeOK'
    BY <1>2 DEF LoaderInv, LoaderTypeOK, Retains
  <1>4. ProgramIs'
    BY <1>1, <1>2 DEF LoaderInv, ProgramIs
  <1>5. ReadingHeader' /\ ReadingData'
    BY DEF Retains, ReadingHeader, Reading, ReadingData
  <1>6. HeaderIs'
    BY <1>1, <1>2 DEF LoaderInv, HeaderIs, Retains
  <1>7. DataIs'
    BY DEF LoaderInv, DataIs, Retains
  <1>8. RegionsAre'
    <2>1. regions = IF Len(was.regions) >= MAX_TAPE_REGIONS THEN was.regions
                    ELSE Append(was.regions, <<Program.addr, Program.addr + Len(Image(Program))>>)
      BY DEF LoaderInv, RegionsAre
    <2>2. QED
      BY <1>2, <2>1 DEF RegionsAre, Retains
  <1>9. QED
    BY <1>3, <1>4, <1>5, <1>6, <1>7, <1>8 DEF LoaderInv

\* The data stay when memory does.
LEMMA HoldsStill ==
    ASSUME LoaderInv, loader.at \in {"symbols_length", "symbols"}, mem' = mem, Program' = Program
    PROVE  MemoryType(mem') /\ Holds(Len(Image(Program)))'
  <1>1. MemoryType(mem) /\ Holds(Len(Image(Program)))
    BY DEF LoaderInv, LoaderTypeOK, DataIs
  <1>2. QED
    BY <1>1 DEF Holds, MemoryType

\* A byte of the length of the symbols.
LEMMA StepSymbolsLength == LoaderInv /\ ReadSymbolsLength => LoaderInv'
  <1> SUFFICES ASSUME LoaderInv, ReadSymbolsLength PROVE LoaderInv'
    OBVIOUS
  <1> DEFINE l == [loader EXCEPT !.at = "symbols", !.buf = <<>>, !.left = Unflagged(Buf)]
  <1>1. /\ Reads("symbols_length")
        /\ IF Short(4) THEN Keep ELSE IF l.left = 0 THEN Loaded(l) ELSE loader' = l
        /\ mem' = mem /\ regions' = regions
    BY Zenon DEF ReadSymbolsLength
  <1>2. "symbols_length" \in Fields
    BY DEF Fields
  <1>3. /\ loader.at = "symbols_length"
        /\ tape' \in [of : Created \cup {0}, pos : Nat] /\ tape'.of = tape.of
        /\ was' = was /\ Program' = Program
        /\ Buf \in Seq(Nat) /\ Len(Buf) = Len(loader.buf) + 1 /\ Len(Buf) \in Nat
    BY <1>1, <1>2, AnyByte
  <1>4. loader \in LoaderRecord /\ MemoryType(mem') /\ Holds(Len(Image(Program)))'
    BY <1>1, <1>3, HoldsStill DEF LoaderInv, LoaderTypeOK
  <1>5. PICK b \in Seq(Nat), empty \in Seq(Nat) : b = Buf /\ empty = <<>>
    <2>1. <<>> \in Seq(Nat)
      OBVIOUS
    <2>2. QED
      BY <1>3, <2>1, Zenon
  <1>6. CASE Short(4)
    <2>1. loader' = [loader EXCEPT !.buf = b]
      BY <1>1, <1>5, <1>6 DEF Keep
    <2>2. loader' \in LoaderRecord
      BY <1>4, <2>1 DEF LoaderRecord
    <2>3. Retains(loader')
      BY <1>3, <1>4, <2>1, <2>2 DEF LoaderRecord, Retains
    <2>4. QED
      BY <1>1, <1>3, <1>4, <2>3, StepBehind
  <1>7. CASE ~Short(4)
    <2>1. Unflagged(Buf) \in Nat
      <3>1. Len(Buf) >= 4
        BY <1>3, <1>7 DEF Short
      <3>2. QED
        BY <1>3, <3>1, UnflaggedType
    <2>2. PICK m \in Int, next \in {"symbols", "READY"} :
             loader' = [loader EXCEPT !.at = next, !.buf = empty, !.left = m]
      <3>1. PICK m \in Int : m = Unflagged(Buf)
        BY <2>1
      <3>2. l = [loader EXCEPT !.at = "symbols", !.buf = empty, !.left = m]
        BY <1>5, <3>1, Zenon
      <3>3. loader' = l \/ loader' = [l EXCEPT !.at = "READY", !.buf = empty]
        BY <1>1, <1>5, <1>7 DEF Loaded
      <3> HIDE DEF l
      <3>4. [l EXCEPT !.at = "READY", !.buf = empty] = [loader EXCEPT !.at = "READY", !.buf = empty, !.left = m]
        BY <1>4, <3>2 DEF LoaderRecord
      <3>5. QED
        BY <3>2, <3>3, <3>4
    <2>3. next \in Resting \cup Fields
      BY DEF Resting, Fields
    <2>4. loader' \in LoaderRecord
      BY <1>4, <2>2, <2>3 DEF LoaderRecord
    <2>5. Retains(loader')
      BY <1>4, <2>2, <2>4 DEF LoaderRecord, Retains
    <2>6. QED
      BY <1>1, <1>3, <1>4, <2>5, StepBehind
  <1>8. QED
    BY <1>6, <1>7

\* A byte of the symbols: it goes behind the program.
LEMMA StepSymbols == LoaderInv /\ ReadSymbols => LoaderInv'
  <1> SUFFICES ASSUME LoaderInv, ReadSymbols PROVE LoaderInv'
    OBVIOUS
  <1> DEFINE n == Len(Image(Program))
             l == [loader EXCEPT !.left = @ - 1, !.written = @ + 1]
             at == loader.to + loader.written
  <1>1. /\ Reads("symbols") /\ mem' = [mem EXCEPT ![at] = TapeByte]
        /\ IF l.left = 0 THEN Loaded(l) ELSE loader' = l
        /\ regions' = regions
    BY Zenon DEF ReadSymbols
  <1>2. "symbols" \in Fields
    BY DEF Fields
  <1>3. /\ loader.at = "symbols" /\ loader.at \in Fields \cup {"READY"}
        /\ tape' \in [of : Created \cup {0}, pos : Nat] /\ tape'.of = tape.of
        /\ was' = was /\ Program' = Program /\ TapeByte \in Nat
    BY <1>1, <1>2, AnyByte
  <1>4. loader \in LoaderRecord /\ MemoryType(mem) /\ Holds(n) /\ loader.to >= SYMBOLS_ADDR
    BY <1>3 DEF LoaderInv, LoaderTypeOK, DataIs
  <1>5. n \in Nat /\ Program.addr \in Nat /\ Program.addr + n <= SYMBOLS_ADDR /\ Image(Program) \in Seq(Nat)
    BY <1>3, HereProgram
  <1>6. SYMBOLS_ADDR \in Nat
    BY SymbolsArea
  <1>7. loader.to \in Nat /\ loader.written \in Nat /\ loader.left \in Int
    BY <1>4 DEF LoaderRecord
  <1>8. at \in Nat /\ at >= SYMBOLS_ADDR
    BY <1>4, <1>6, <1>7
  <1>9. MemoryType(mem')
    BY <1>1, <1>3, <1>4 DEF MemoryType
  <1>10. \A i \in 1 .. n : mem'[Program.addr + i - 1] = Image(Program)[i]
    <2> HIDE DEF n, at
    <2>1. SUFFICES ASSUME NEW i \in 1 .. n PROVE mem'[Program.addr + i - 1] = Image(Program)[i]
      OBVIOUS
    <2>2. PICK a : a = Program.addr + i - 1
      OBVIOUS
    <2>3. a # at
      BY <1>5, <1>6, <1>8, <2>2
    <2>4. mem'[a] = mem[a]
      BY <1>1, <2>3
    <2>5. QED
      BY <1>4, <2>2, <2>4 DEF Holds
  <1>11. Holds(Len(Image(Program)))'
    BY <1>3, <1>10 DEF Holds
  <1>12. PICK m \in Int, k \in Nat, next \in {"symbols", "READY"}, b \in Seq(Nat) :
            loader' = [loader EXCEPT !.at = next, !.buf = b, !.left = m, !.written = k]
    <2>1. PICK m \in Int, k \in Nat, empty \in Seq(Nat) :
             m = loader.left - 1 /\ k = loader.written + 1 /\ empty = <<>>
      <3>1. loader.left - 1 \in Int /\ loader.written + 1 \in Nat /\ <<>> \in Seq(Nat)
        BY <1>7
      <3>2. QED
        BY <3>1, Zenon
    <2>2. l = [loader EXCEPT !.left = m, !.written = k]
      BY <2>1, Zenon
    <2>3. loader' = l \/ loader' = [l EXCEPT !.at = "READY", !.buf = empty]
      BY <1>1, <2>1 DEF Loaded
    <2> HIDE DEF l, n, at
    <2>4. loader.buf \in Seq(Nat)
      BY <1>4 DEF LoaderRecord
    <2>5. l = [loader EXCEPT !.at = "symbols", !.buf = loader.buf, !.left = m, !.written = k]
      BY <1>3, <1>4, <2>2 DEF LoaderRecord
    <2>6. [l EXCEPT !.at = "READY", !.buf = empty]
             = [loader EXCEPT !.at = "READY", !.buf = empty, !.left = m, !.written = k]
      BY <1>4, <2>2 DEF LoaderRecord
    <2>7. "symbols" \in {"symbols", "READY"} /\ "READY" \in {"symbols", "READY"}
      OBVIOUS
    <2>8. CASE loader' = l
      BY <2>4, <2>5, <2>7, <2>8, Zenon
    <2>9. CASE loader' = [l EXCEPT !.at = "READY", !.buf = empty]
      BY <2>6, <2>7, <2>9, Zenon
    <2>10. QED
      BY <2>3, <2>8, <2>9
  <1> HIDE DEF l, n, at
  <1>13. next \in Resting \cup Fields
    BY DEF Resting, Fields
  <1>14. loader' \in LoaderRecord
    BY <1>4, <1>12, <1>13 DEF LoaderRecord
  <1>15. Retains(loader')
    BY <1>4, <1>12, <1>14 DEF LoaderRecord, Retains
  <1>16. QED
    BY <1>1, <1>3, <1>9, <1>11, <1>15, StepBehind

\* Where a block starts is a position.
LEMMA BlockStartType ==
    ASSUME NEW n \in Created, NEW k \in Nat, 1 <= k, k <= Len(data_blocks[n]) + 1
    PROVE  BlockStart(n, k) \in Nat
  <1>1. PICK b \in Seq(Seq(Nat)) : b = Blocks(n)
    BY BlocksAre
  <1>2. BlockStart(n, k) = Len(Flat(b, k - 1)) /\ data_blocks[n] = b
    BY <1>1, StreamIs
  <1>3. k - 1 \in 0 .. Len(b)
    BY <1>1, <1>2
  <1>4. Flat(b, k - 1) \in Seq(Nat)
    BY <1>3, FlatSteps
  <1>5. QED
    BY <1>2, <1>4

\* What leaves the loader and memory alone.
LEMMA StepElsewhere ==
    ASSUME LoaderInv, UNCHANGED <<mem, loader, regions, was>>,
           \/ tape' = tape
           \/ loader.at \in Resting /\ tape' \in [of : Created \cup {0}, pos : Nat] /\ tape'.of \in Created
    PROVE  LoaderInv'
  <1>1. mem' = mem /\ loader' = loader /\ regions' = regions /\ was' = was /\ Program' = Program
    BY DEF Program
  <1>2. LoaderTypeOK'
    BY <1>1 DEF LoaderInv, LoaderTypeOK, MemoryType
  <1>3. ProgramIs'
    BY <1>1 DEF LoaderInv, ProgramIs, Resting, Fields
  <1>4. ReadingHeader' /\ ReadingData'
    BY <1>1 DEF LoaderInv, ReadingHeader, Reading, ReadingData, Holds, Resting
  <1>5. HeaderIs' /\ RegionsAre'
    BY <1>1 DEF LoaderInv, HeaderIs, RegionsAre
  <1>6. DataIs'
    BY <1>1 DEF LoaderInv, DataIs, Holds
  <1>7. QED
    BY <1>2, <1>3, <1>4, <1>5, <1>6 DEF LoaderInv

\* Of a loader that has failed or not begun nothing is asked.
LEMMA StepNoProgram ==
    ASSUME loader' \in LoaderRecord, loader'.at \in {"idle", "failed"}, MemoryType(mem'),
           tape' \in [of : Created \cup {0}, pos : Nat],
           regions' \in Seq(Nat \X Nat), was'.regions \in Seq(Nat \X Nat), "regions" \in DOMAIN was'
    PROVE  LoaderInv'
  <1>1. LoaderTypeOK'
    BY DEF LoaderTypeOK
  <1>2. ProgramIs' /\ HeaderIs'
    BY DEF ProgramIs, HeaderIs, Fields
  <1>3. ReadingHeader' /\ ReadingData'
    BY DEF ReadingHeader, Reading, ReadingData
  <1>4. DataIs' /\ RegionsAre'
    BY DEF DataIs, RegionsAre
  <1>5. QED
    BY <1>1, <1>2, <1>3, <1>4 DEF LoaderInv

\* The tape fails.
LEMMA StepTapeFails == LoaderInv /\ TapeFails => LoaderInv'
  <1> SUFFICES ASSUME LoaderInv, TapeFails PROVE LoaderInv'
    OBVIOUS
  <1>1. LoaderTypeOK
    BY DEF LoaderInv
  <1>2. PICK empty \in Seq(Nat), next \in Resting \cup Fields :
           next = "failed" /\ loader' = [loader EXCEPT !.at = next, !.buf = empty]
    <2>1. <<>> \in Seq(Nat)
      OBVIOUS
    <2>2. "failed" \in Resting \cup Fields
      BY DEF Resting
    <2>3. loader' = [loader EXCEPT !.at = "failed", !.buf = <<>>]
      BY Zenon DEF TapeFails
    <2>4. QED
      BY <2>1, <2>2, <2>3, Zenon
  <1>3. loader \in LoaderRecord
    BY <1>1 DEF LoaderTypeOK
  <1>4. loader' \in LoaderRecord /\ loader'.at = "failed"
    BY <1>2, <1>3 DEF LoaderRecord
  <1>5. tape' = tape /\ mem' = mem /\ regions' = regions /\ was' = was
    BY DEF TapeFails
  <1>6. QED
    BY <1>1, <1>4, <1>5, StepNoProgram DEF LoaderTypeOK, MemoryType

\* The type of a loader that has just been called.
LEMMA NewLoaderType ==
    /\ NewLoader \in LoaderRecord /\ NewLoader.at = "idle"
    /\ [NewLoader EXCEPT !.at = "entry"] \in LoaderRecord
    /\ [NewLoader EXCEPT !.at = "entry"].at = "entry" /\ [NewLoader EXCEPT !.at = "entry"].buf = <<>>
  <1>1. <<>> \in Seq(Nat) /\ 0 \in Nat /\ 0 \in Int /\ FALSE \in BOOLEAN
    OBVIOUS
  <1>2. "idle" \in Resting \cup Fields /\ "entry" \in Resting \cup Fields
    BY DEF Resting, Fields
  <1>3. NewLoader \in LoaderRecord /\ NewLoader.at = "idle" /\ NewLoader.buf = <<>>
    BY <1>1, <1>2, Zenon DEF NewLoader, LoaderRecord
  <1>4. QED
    BY <1>2, <1>3 DEF LoaderRecord

\* A load begins.
LEMMA StepLoadTape == LoaderInv /\ load_tape => LoaderInv'
  <1> SUFFICES ASSUME LoaderInv, load_tape PROVE LoaderInv'
    OBVIOUS
  <1>1. PICK k \in (1 .. Len(Tape[tape.of].loader)) \cup {Len(data_blocks[tape.of])} :
           /\ tape.pos = BlockStart(tape.of, k)
           /\ was' = [symbols |-> load_symbols(mem), end |-> SymbolsEnd(mem),
                      whole |-> was.whole /\ Clean, regions |-> regions, of |-> tape.of, block |-> k]
    BY Zenon DEF load_tape
  <1>2. was'.regions = regions /\ was'.of = tape.of /\ was'.block = k /\ "regions" \in DOMAIN was'
    BY <1>1
  <1>3. tape' = tape /\ mem' = mem /\ regions' = regions /\ loader' = [NewLoader EXCEPT !.at = "entry"]
        /\ tape.of # 0
    BY DEF load_tape
  <1>4. LoaderTypeOK
    BY DEF LoaderInv
  <1>5. tape.of \in Created /\ tape.pos \in Nat
    <2>1. PICK C : C = Created \cup {0}
      OBVIOUS
    <2>2. tape.of \in C /\ tape.pos \in Nat
      BY <1>4, <2>1 DEF LoaderTypeOK
    <2>3. QED
      BY <1>3, <2>1, <2>2
  <1>6. HasProgram(was'.of, was'.block)
    <2>1. data_blocks[tape.of] = Blocks(tape.of)
      BY <1>5, StreamIs
    <2>2. QED
      BY <1>1, <1>2, <2>1 DEF HasProgram
  <1>7. loader' \in LoaderRecord /\ loader'.at = "entry" /\ loader'.buf = <<>>
    BY <1>3, NewLoaderType
  <1>8. LoaderTypeOK'
    BY <1>2, <1>3, <1>4, <1>7 DEF LoaderTypeOK, MemoryType
  <1>9. ProgramIs'
    BY <1>2, <1>3, <1>5, <1>6, <1>7 DEF ProgramIs
  <1>10. ReadingHeader'
    <2>1. BlockStart(was'.of, was'.block) = tape'.pos
      BY <1>1, <1>2, <1>3
    <2>2. ReadAt(Stream[was'.of], BlockStart(was'.of, was'.block) + 0, <<>>)
      BY DEF ReadAt
    <2>3. Len(<<>>) = 0 /\ tape'.pos \in Nat
      BY <1>3, <1>5
    <2>4. Reading("entry", 0, 4)'
      <3>1. tape'.pos = BlockStart(was'.of, was'.block) + 0 + Len(<<>>) /\ Len(<<>>) < 4
        BY <2>1, <2>3
      <3>2. QED
        BY <1>7, <2>2, <3>1 DEF Reading
    <2>5. QED
      BY <1>7, <2>4 DEF ReadingHeader, Reading
  <1>11. HeaderIs' /\ ReadingData' /\ DataIs'
    BY <1>7 DEF HeaderIs, ReadingData, DataIs
  <1>12. RegionsAre'
    BY <1>2, <1>3, <1>7 DEF RegionsAre
  <1>13. QED
    BY <1>8, <1>9, <1>10, <1>11, <1>12 DEF LoaderInv

\* The data that no program is in are taken from the tape.
LEMMA StepReadBin == LoaderInv /\ ReadBin => LoaderInv'
  <1> SUFFICES ASSUME LoaderInv, ReadBin PROVE LoaderInv'
    OBVIOUS
  <1>1. PICK k \in 2 .. Len(data_blocks[tape.of]) - 1 : tape' = [tape EXCEPT !.pos = BlockStart(tape.of, k + 1)]
    BY DEF ReadBin
  <1>2. loader.at = "READY" /\ loader.at \in Resting /\ UNCHANGED <<mem, loader, regions, was>>
    BY DEF ReadBin, Resting
  <1>3. tape.of \in Created
    BY <1>2 DEF LoaderInv, ProgramIs
  <1>4. Len(data_blocks[tape.of]) \in Nat
    BY <1>3, StreamIs, BlocksAre
  <1>5. BlockStart(tape.of, k + 1) \in Nat
    <2>1. k + 1 \in Nat /\ 1 <= k + 1 /\ k + 1 <= Len(data_blocks[tape.of]) + 1
      BY <1>4
    <2>2. QED
      BY <1>3, <2>1, BlockStartType
  <1>6. tape' \in [of : Created \cup {0}, pos : Nat] /\ tape'.of \in Created
    <2>1. PICK C : C = Created \cup {0}
      OBVIOUS
    <2>2. tape \in [of : C, pos : Nat]
      BY <2>1 DEF LoaderInv, LoaderTypeOK
    <2>3. tape' \in [of : C, pos : Nat] /\ tape'.of = tape.of
      BY <1>1, <1>5, <2>2
    <2>4. QED
      BY <1>3, <2>1, <2>3
  <1>7. QED
    BY <1>2, <1>6, StepElsewhere

\* Another tape is put in.
LEMMA StepInsertTape == ASSUME NEW n \in Created PROVE LoaderInv /\ InsertTape(n) => LoaderInv'
  <1> SUFFICES ASSUME LoaderInv, InsertTape(n) PROVE LoaderInv'
    OBVIOUS
  <1>1. loader.at \in Resting /\ tape' = [of |-> n, pos |-> 0] /\ UNCHANGED <<mem, loader, regions, was>>
    BY DEF InsertTape
  <1>2. tape' \in [of : Created \cup {0}, pos : Nat] /\ tape'.of \in Created
    BY <1>1
  <1>3. QED
    BY <1>1, <1>2, StepElsewhere

\* The boot ROM's memory.
LEMMA RomMemoryType == MemoryType(RomMemory)
  <1> DEFINE s == pad(Symbols(OsSymbols), 4)
  <1>1. s \in Seq(Nat)
    BY TapeLoaderAssumption, SymbolsType, Padded
  <1> HIDE DEF s
  <1>2. Len(s) \in Nat /\ TapeAddr \in Nat /\ SYMBOLS_ADDR \in Nat
    BY <1>1, SymbolsArea
  <1>3. \A a \in SYMBOLS_ADDR .. SYMBOLS_ADDR + Len(s) - 1 : s[a + 1 - SYMBOLS_ADDR] \in Nat
    <2>1. SUFFICES ASSUME NEW a \in SYMBOLS_ADDR .. SYMBOLS_ADDR + Len(s) - 1
                   PROVE  s[a + 1 - SYMBOLS_ADDR] \in Nat
      OBVIOUS
    <2>2. PICK i : i = a + 1 - SYMBOLS_ADDR
      OBVIOUS
    <2>3. i \in 1 .. Len(s)
      BY <1>2, <2>2
    <2>4. QED
      BY <1>1, <2>2, <2>3, ElementOfSeq
  <1>4. RomMemory = [a \in TapeAddr .. MemoryEnd |->
            IF a \in SYMBOLS_ADDR .. SYMBOLS_ADDR + Len(s) - 1 THEN s[a + 1 - SYMBOLS_ADDR] ELSE 0]
    BY Zenon DEF RomMemory, s
  <1>5. QED
    BY <1>3, <1>4 DEF MemoryType

\* The machine is switched on.
LEMMA StepLoaderReset == LoaderInv /\ LoaderReset => LoaderInv'
  <1> SUFFICES ASSUME LoaderInv, LoaderReset PROVE LoaderInv'
    OBVIOUS
  <1>1. /\ tape' = tape /\ mem' = RomMemory /\ loader' = NewLoader /\ regions' = <<>>
        /\ was' = [was EXCEPT !.whole = TRUE, !.regions = <<>>]
    BY DEF LoaderReset
  <1>2. LoaderTypeOK
    BY DEF LoaderInv
  <1>3. <<>> \in Seq(Nat \X Nat)
    OBVIOUS
  <1>4. was'.regions = <<>> /\ "regions" \in DOMAIN was'
    BY <1>1, <1>2 DEF LoaderTypeOK
  <1>5. loader' \in LoaderRecord /\ loader'.at \in {"idle", "failed"}
    BY <1>1, NewLoaderType
  <1>6. MemoryType(mem')
    BY <1>1, RomMemoryType
  <1>7. tape' \in [of : Created \cup {0}, pos : Nat]
    BY <1>1, <1>2 DEF LoaderTypeOK
  <1>8. QED
    BY <1>1, <1>3, <1>4, <1>5, <1>6, <1>7, StepNoProgram

\* The machine is switched off.
LEMMA StepLoaderPowerOff == LoaderInv /\ LoaderPowerOff => LoaderInv'
  <1> SUFFICES ASSUME LoaderInv, LoaderPowerOff PROVE LoaderInv'
    OBVIOUS
  <1>1. UNCHANGED <<mem, loader, regions, was>> /\ tape' = tape
    BY DEF LoaderPowerOff
  <1>2. QED
    BY <1>1, StepElsewhere

\* Nothing of the loader changes.
LEMMA StepLoaderStays == LoaderInv /\ UNCHANGED loaderVars => LoaderInv'
  <1> SUFFICES ASSUME LoaderInv, UNCHANGED loaderVars PROVE LoaderInv'
    OBVIOUS
  <1>1. UNCHANGED <<mem, loader, regions, was>> /\ tape' = tape
    BY DEF loaderVars
  <1>2. QED
    BY <1>1, StepElsewhere

\* At the start.
LEMMA LoaderInvInit == LoaderInit => LoaderInv
  <1> SUFFICES ASSUME LoaderInit PROVE LoaderInv
    OBVIOUS
  <1>1. /\ tape = [of |-> 0, pos |-> 0] /\ mem = RomMemory /\ loader = NewLoader /\ regions = <<>>
        /\ was.regions = <<>> /\ "regions" \in DOMAIN was
    BY DEF LoaderInit
  <1>2. <<>> \in Seq(Nat \X Nat)
    OBVIOUS
  <1>3. loader \in LoaderRecord /\ loader.at = "idle"
    BY <1>1, NewLoaderType
  <1>4. LoaderTypeOK
    BY <1>1, <1>2, <1>3, RomMemoryType DEF LoaderTypeOK
  <1>5. ProgramIs /\ HeaderIs
    BY <1>3 DEF ProgramIs, HeaderIs, Fields
  <1>6. ReadingHeader /\ ReadingData
    BY <1>3 DEF ReadingHeader, Reading, ReadingData
  <1>7. DataIs /\ RegionsAre
    BY <1>3 DEF DataIs, RegionsAre
  <1>8. QED
    BY <1>4, <1>5, <1>6, <1>7 DEF LoaderInv

\* Every step of the loader keeps its invariant.
LEMMA LoaderInvNext == LoaderInv /\ LoaderNext => LoaderInv'
  <1> SUFFICES ASSUME LoaderInv, LoaderNext PROVE LoaderInv'
    OBVIOUS
  <1>1. CASE \E n \in Created : InsertTape(n)
    BY <1>1, StepInsertTape
  <1>2. CASE load_tape
    BY <1>2, StepLoadTape
  <1>3. CASE ReadHeader
    BY <1>3, StepHeader
  <1>4. CASE ReadLength
    BY <1>4, StepLength
  <1>5. CASE ReadData
    BY <1>5, StepData
  <1>6. CASE ReadSymbolsLength
    BY <1>6, StepSymbolsLength
  <1>7. CASE ReadSymbols
    BY <1>7, StepSymbols
  <1>8. CASE TapeFails
    BY <1>8, StepTapeFails
  <1>9. CASE ReadBin
    BY <1>9, StepReadBin
  <1>10. CASE ReloadSymbols
    BY <1>10, StepElsewhere DEF ReloadSymbols
  <1>11. QED
    BY <1>1, <1>2, <1>3, <1>4, <1>5, <1>6, <1>7, <1>8, <1>9, <1>10 DEF LoaderNext

-----------------------------------------------------------------------------
(* The devices and the power switch.                                       *)

\* Each device's state is consistent whatever was done with the others and
\* with the switch.
DevicesInv == KeyboardInv /\ DisplayInv /\ ShapesInv /\ ScreensInv /\ LoaderInv

LEMMA StepSwitch ==
    ASSUME DevicesInv, NEW e \in Emulator, Start(e) \/ PowerOff(e) \/ PowerOn(e) \/ Exit(e)
    PROVE  DevicesInv'
  <1> USE DEF DevicesInv
  <1>1. ASSUME UNCHANGED keyboardVars, UNCHANGED displayVars PROVE KeyboardInv' /\ DisplayInv'
    BY <1>1, KeyboardStutter, DisplayStutter
  <1>2. /\ UNCHANGED shapesVars => ShapesInv'
        /\ UNCHANGED loaderVars => LoaderInv'
    BY ShapesStutter, StepLoaderStays
  <1>3. CASE Start(e)
    BY <1>1, <1>2, <1>3, StepNewEmulator DEF Start, devices
  <1>4. CASE PowerOff(e)
    <2>1. LoaderInv'
      BY <1>2, <1>4, StepLoaderPowerOff DEF PowerOff
    <2>2. QED
      BY <1>1, <1>2, <1>4, <2>1, StepPowerOff DEF PowerOff, devices
  <1>5. CASE PowerOn(e)
    <2>1. ShapesInv' /\ ScreensInv'
      BY <1>2, <1>5, StepPowerOn DEF PowerOn
    <2>2. CASE e = Mine
      BY <1>5, <2>1, <2>2, StepReset, StepDisplayReset, StepLoaderReset DEF PowerOn
    <2>3. CASE e # Mine
      BY <1>1, <1>2, <1>5, <2>1, <2>3 DEF PowerOn, devices
    <2>4. QED
      BY <2>2, <2>3
  <1>6. CASE Exit(e)
    BY <1>1, <1>2, <1>6, StepExit DEF Exit, devices
  <1>7. QED
    BY <1>3, <1>4, <1>5, <1>6

LEMMA DevicesInvInductive ==
    /\ Init => DevicesInv
    /\ DevicesInv /\ [Next]_vars => DevicesInv'
  <1>1. Init => DevicesInv
    BY KeyboardInvInit, DisplayInvInit, ShapesInvInit, ScreensInvInit, LoaderInvInit
       DEF Init, DevicesInv
  <1>2. ASSUME DevicesInv, Next PROVE DevicesInv'
    <2>1. CASE \E e \in Emulator : Start(e) \/ PowerOff(e) \/ PowerOn(e) \/ Exit(e)
      BY <1>2, <2>1, StepSwitch
    <2>2. CASE UseKeyboard
      BY <1>2, <2>2, KeyboardInvNext, DisplayStutter, ShapesStutter, ScreensStutter, StepLoaderStays
         DEF UseKeyboard, DevicesInv
    <2>3. CASE UseDisplay
      BY <1>2, <2>3, KeyboardStutter, DisplayInvNext, ShapesStutter, ScreensStutter, StepLoaderStays
         DEF UseDisplay, DevicesInv
    <2>4. CASE UseShapes
      BY <1>2, <2>4, KeyboardStutter, DisplayStutter, ShapesInvNext, ScreensStutter, StepLoaderStays
         DEF UseShapes, DevicesInv, devices
    <2>5. CASE UseTape
      BY <1>2, <2>5, KeyboardStutter, DisplayStutter, ShapesStutter, ScreensStutter, LoaderInvNext
         DEF UseTape, DevicesInv, devices
    <2>6. QED
      BY <1>2, <2>1, <2>2, <2>3, <2>4, <2>5 DEF Next
  <1>3. ASSUME DevicesInv, UNCHANGED vars PROVE DevicesInv'
    BY <1>3, KeyboardStutter, DisplayStutter, ShapesStutter, ScreensStutter, StepLoaderStays
       DEF vars, DevicesInv
  <1>4. QED
    BY <1>1, <1>2, <1>3

LEMMA DevicesInvHolds == Spec => []DevicesInv
  BY DevicesInvInductive, PTL DEF Spec

\* The guest reads the keys in the order in which they were pressed, and loses
\* none, until the ring has gone round ahead of it.
THEOREM KeysReadInOrder == Spec => []KeysInOrder
  <1>1. DevicesInv => KeysInOrder
    BY KeyboardOrder DEF DevicesInv
  <1>2. QED
    BY <1>1, DevicesInvHolds, PTL

\* The keyboard's mask has the keys that are held, but for what the keyboard was
\* not told: keys that were let go while the machine was stopped (stuck) may be in
\* it, and keys pressed before this machine or while it was stopped (unseen) not.
THEOREM KeysComeUp == Spec => []KeysAsHeld
  <1>1. DevicesInv => KeysAsHeld
    BY DEF DevicesInv, KeyboardInv
  <1>2. QED
    BY <1>1, DevicesInvHolds, PTL

\* Bytes and words of the keyboard and the display agree.
THEOREM WordsAreTheirBytes == Spec => []WordsMatchBytes
  <1>1. DevicesInv => WordsMatchBytes
    BY KeyboardWords DEF DevicesInv, DisplayInv, WordsMatchBytes
  <1>2. QED
    BY <1>1, DevicesInvHolds, PTL

\* The screen shows what the guest put there, by bytes or by words.
THEOREM ScreenIsAsWritten == Spec => []ScreenShows
  <1>1. DevicesInv => ScreenShows
    BY DisplayInvShows DEF DevicesInv
  <1>2. QED
    BY <1>1, DevicesInvHolds, PTL

\* No two shapes that are not deleted have the same place in the buffer, unless
\* it was changed through a deleted shape that had it before.
THEOREM SlotsAreExclusive == Spec => []SlotsExclusive
  <1>1. DevicesInv => SlotsExclusive
    BY DEF DevicesInv, ShapesInv
  <1>2. QED
    BY <1>1, DevicesInvHolds, PTL

\* What is drawn of the shapes is what was asked for, and nothing is left of
\* the shapes that were deleted, in every place that was not changed through a
\* deleted shape.
THEOREM ShapesDrawnAsWanted == Spec => []DrawnAsWanted
  <1>1. DevicesInv => DrawnAsWanted
    BY ShapesInvDraws DEF DevicesInv
  <1>2. QED
    BY <1>1, DevicesInvHolds, PTL

\* Each screen is in one place, whatever the switches of the machines do.
THEOREM ScreensAreAccounted == Spec => []ScreensAccounted
  <1>1. DevicesInv => ScreensAccounted
    BY ScreensInvAccounts DEF DevicesInv
  <1>2. QED
    BY <1>1, DevicesInvHolds, PTL

\* What create.py makes of a program is what load_tape() puts into memory,
\* whatever tapes there are, and with the switch used at any time.
THEOREM ProgramsLoadAsBuilt == Spec => []LoadedAsBuilt
  <1>1. DevicesInv => LoadedAsBuilt
    BY LoaderInvBuilt DEF DevicesInv
  <1>2. QED
    BY <1>1, DevicesInvHolds, PTL
=============================================================================
