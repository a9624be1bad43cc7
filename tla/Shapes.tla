------------------------------- MODULE Shapes -------------------------------
(***************************************************************************)
(* The pool of shapes of drawing/quads.py: ShapeBuffer hands out slots of  *)
(* its arrays, and Shape remembers the slot it was given, also after the   *)
(* slot has gone to another shape.  A shape is meant not to be used again  *)
(* once it is deleted; delete() and translate() do not look.               *)
(*                                                                         *)
(* The num_points points of a slot are always set together and stand as    *)
(* one position; 0 is the corner, where a shape cannot be seen.            *)
(***************************************************************************)
EXTENDS Integers, Sequences

CONSTANTS
    BufferSize,    \* slots of the buffer
    Position,      \* where a shape can be put
    Colour,        \* colours but white, which is 0
    MaxShapes      \* bound: shapes ever made

ASSUME ShapesAssumption ==
    /\ BufferSize \in Nat \ {0}
    /\ Position \subseteq Nat \ {0}
    /\ 0 \notin Colour

VARIABLES
    buffer,        \* vertex, colour, current_size and vacant, and shown: the
                   \* slot's indices name its own vertices
    shapes,        \* the shapes made so far: slot, deleted, old_vertices
    wanted,        \* history: what the owner of each living shape asked for
    misused        \* history: slots that were changed through a deleted shape

shapesVars == <<buffer, shapes, wanted, misused>>

Slot    == 0 .. BufferSize - 1
Nothing == 0 - 1       \* old_vertices is None

-----------------------------------------------------------------------------
(* ShapeBuffer.                                                            *)

\* Mutant of Reuse: the colour of the last owner stays.
Reuse_KeepsColour(slot) == [buffer EXCEPT !.vacant = @ \ {slot}, !.shown[slot] = TRUE]

\* __next__() with a vacant slot: indices and colour are set, the background
\* colour is not.
Reuse(slot) ==
    [buffer EXCEPT !.vacant = @ \ {slot}, !.shown[slot] = TRUE, !.colour[slot] = 0]

remove_shape(slot) ==
    [buffer EXCEPT !.vacant = @ \cup {slot}, !.shown[slot] = FALSE, !.vertex[slot] = 0]

\* The wish of an owner who has not asked for anything.
Unasked == [at |-> 0, enabled |-> TRUE, colour |-> 0]

Made(slot) ==
    /\ shapes' = Append(shapes, [slot |-> slot, deleted |-> FALSE, old_vertices |-> Nothing])
    /\ wanted' = Append(wanted, Unasked)
    /\ UNCHANGED misused

\* Shape.__init__().  A hole is filled first, any of them.
NewShapeInHole ==
    /\ Len(shapes) < MaxShapes
    /\ \E slot \in buffer.vacant : buffer' = Reuse(slot) /\ Made(slot)

\* Mutant of NewShapeAtEnd: the place is not taken.
NewShapeAtEnd_NotCounted ==
    /\ Len(shapes) < MaxShapes
    /\ buffer.vacant = {}
    /\ buffer.current_size < BufferSize
    /\ UNCHANGED buffer
    /\ Made(buffer.current_size)

NewShapeAtEnd ==
    /\ Len(shapes) < MaxShapes
    /\ buffer.vacant = {}
    /\ buffer.current_size < BufferSize
    /\ buffer' = [buffer EXCEPT !.current_size = @ + 1]
    /\ Made(buffer.current_size)

\* A full buffer counts the shape before it raises.
NewShapeRaises ==
    /\ buffer.vacant = {}
    /\ buffer.current_size \in BufferSize .. MaxShapes
    /\ buffer' = [buffer EXCEPT !.current_size = @ + 1]
    /\ UNCHANGED <<shapes, wanted, misused>>

-----------------------------------------------------------------------------
(* Shape.  All but delete() and translate() do nothing to a deleted shape. *)

Alive(s) == ~shapes[s].deleted

\* What a deleted shape does to its slot is remembered.
Touched(s) ==
    misused' = IF Alive(s) \/ buffer' = buffer THEN misused ELSE misused \cup {shapes[s].slot}

delete(s) ==
    /\ buffer' = remove_shape(shapes[s].slot)
    /\ shapes' = [shapes EXCEPT ![s].deleted = TRUE]
    /\ wanted' = [wanted EXCEPT ![s] = Unasked]
    /\ Touched(s)

disable(s) ==
    /\ Alive(s)
    /\ wanted' = [wanted EXCEPT ![s].enabled = FALSE]
    /\ UNCHANGED misused
    /\ IF shapes[s].old_vertices = Nothing
       THEN /\ shapes' = [shapes EXCEPT ![s].old_vertices = buffer.vertex[shapes[s].slot]]
            /\ buffer' = [buffer EXCEPT !.vertex[shapes[s].slot] = 0]
       ELSE UNCHANGED <<buffer, shapes>>

enable(s) ==
    /\ Alive(s)
    /\ wanted' = [wanted EXCEPT ![s].enabled = TRUE]
    /\ UNCHANGED misused
    /\ IF shapes[s].old_vertices # Nothing
       THEN /\ shapes' = [shapes EXCEPT ![s].old_vertices = Nothing]
            /\ buffer' = [buffer EXCEPT !.vertex[shapes[s].slot] = shapes[s].old_vertices]
       ELSE UNCHANGED <<buffer, shapes>>

\* Where a shape is put: a disabled one stays in the corner.
Put(s, at) ==
    IF shapes[s].old_vertices # Nothing
    THEN /\ shapes' = [shapes EXCEPT ![s].old_vertices = at]
         /\ buffer' = [buffer EXCEPT !.vertex[shapes[s].slot] = 0]
    ELSE /\ buffer' = [buffer EXCEPT !.vertex[shapes[s].slot] = at]
         /\ UNCHANGED shapes

\* Also set_all_vertices().
set_vertices(s, at) ==
    IF Alive(s)
    THEN Put(s, at) /\ wanted' = [wanted EXCEPT ![s].at = at] /\ UNCHANGED misused
    ELSE UNCHANGED shapesVars

\* Moves a Quad, a disabled one too, from where it is and not from where its
\* owner last put it.  Bound: to a place in Position.
translate(s, amount) ==
    LET disabled == shapes[s].old_vertices # Nothing
        at == (IF disabled THEN shapes[s].old_vertices ELSE buffer.vertex[shapes[s].slot]) - amount
    IN  /\ at \in Position
        /\ IF disabled
           THEN /\ shapes' = [shapes EXCEPT ![s].old_vertices = at]
                /\ UNCHANGED buffer
           ELSE /\ buffer' = [buffer EXCEPT !.vertex[shapes[s].slot] = at]
                /\ UNCHANGED shapes
        /\ IF Alive(s)
           THEN /\ wanted[s].at - amount \in Position
                /\ wanted' = [wanted EXCEPT ![s].at = @ - amount]
           ELSE UNCHANGED wanted
        /\ Touched(s)

\* Also set_colours().
set_colour(s, colour) ==
    IF Alive(s)
    THEN /\ buffer' = [buffer EXCEPT !.colour[shapes[s].slot] = colour]
         /\ wanted' = [wanted EXCEPT ![s].colour = colour]
         /\ UNCHANGED <<shapes, misused>>
    ELSE UNCHANGED shapesVars

-----------------------------------------------------------------------------

\* ShapeBuffer.__init__().
ShapesInit ==
    /\ buffer = [vertex |-> [i \in Slot |-> 0], shown |-> [i \in Slot |-> TRUE],
                 colour |-> [i \in Slot |-> 0], current_size |-> 0, vacant |-> {}]
    /\ shapes = <<>>
    /\ wanted = <<>>
    /\ misused = {}

ShapesNext ==
    \/ NewShapeInHole \/ NewShapeAtEnd \/ NewShapeRaises
    \/ \E s \in DOMAIN shapes :
          \/ delete(s) \/ disable(s) \/ enable(s)
          \/ \E amount \in {-1, 1} : translate(s, amount)
          \/ \E at \in Position : set_vertices(s, at)
          \/ \E colour \in Colour : set_colour(s, colour)

-----------------------------------------------------------------------------
(* Properties.                                                             *)

\* What one slot shows is what the owner of shape s asked for: the shape at its
\* last position with its last colour, white if it never had one, and in the
\* corner while it is disabled.
ShownAsWanted(s) ==
    LET slot == shapes[s].slot
    IN  /\ buffer.vertex[slot] = IF wanted[s].enabled THEN wanted[s].at ELSE 0
        /\ buffer.shown[slot]
        /\ buffer.colour[slot] = wanted[s].colour

\* Shapes that are alive have slots of their own, which are neither vacant nor
\* outside the buffer.  delete() of a deleted shape can break this for the slot
\* that it had, and for no other.
SlotsExclusive ==
    \A s \in {t \in DOMAIN shapes : Alive(t) /\ shapes[t].slot \notin misused} :
        /\ shapes[s].slot \in Slot \ buffer.vacant
        /\ shapes[s].slot < buffer.current_size
        /\ \A t \in DOMAIN shapes : Alive(t) /\ shapes[t].slot = shapes[s].slot => s = t

\* What is drawn is what the owners of the shapes that are alive asked for, and
\* nothing else can be seen.  A slot that was changed through a deleted shape
\* is excepted; all others draw what they should, whatever was done through
\* deleted shapes elsewhere and through those that only look at their flag.
DrawnAsWanted ==
    \A i \in Slot \ misused :
        LET owners == {s \in DOMAIN shapes : Alive(s) /\ shapes[s].slot = i}
        IN  /\ owners = {} => buffer.vertex[i] = 0
            /\ \A s \in owners : ShownAsWanted(s)

\* A deleted shape is harmless, since it knows that it is deleted: every shape
\* that is alive is drawn as its owner asked for, whoever had its slot before.
\* This does not hold: delete() and translate() of a deleted shape break it
\* (DevicesShapes.cfg).
DeletedShapesInert ==
    \A s \in DOMAIN shapes : Alive(s) => ShownAsWanted(s)
=============================================================================
