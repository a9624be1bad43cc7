------------------------------ MODULE Gdb_proofs -----------------------------
(***************************************************************************)
(* Proofs about the gdb server of module Gdb, for any packets and binary   *)
(* data of any length, any file, any number of packets sent and any way of *)
(* cutting the stream.  The state says little, as every read starts anew;  *)
(* what counts is in the bytes under way, so the invariant is about them,  *)
(* and the lemmas are inductions over the loops that go through the bytes. *)
(***************************************************************************)
EXTENDS Gdb, Induction_proofs, FiniteSetTheorems

\* The folds of Gdb, from any state on.
Unescaping(start, s) == FoldLeft(LAMBDA state, i : UnescapeByte(s, state, i), start, [i \in 1 .. Len(s) |-> i])
Summing(start, s)    == FoldLeft(LAMBDA sum, byte : (sum + byte) % 256, start, s)
Scanning(start, s)   == FoldLeft(LAMBDA state, i : ScanByte(s, state, i), start, [i \in 1 .. Len(s) |-> i])
Handling(start, s)   == FoldLeft(HandleMessage, start, s)
Reading(start, s)    == FoldLeft(ReadByte, start, s)

\* checksum() byte by byte.
ChecksumSteps(A, s) == [p \in A \X (1 .. Len(s)) |-> (p[1] + s[p[2]]) % 256]

\* checksum() takes one step of ChecksumSteps for each byte.
LEMMA ChecksumFold ==
    ASSUME NEW A, NEW T, NEW s \in Seq(T), NEW start \in A, start = 0,
           ChecksumSteps(A, s) \in [A \X (1 .. Len(s)) -> A]
    PROVE  \E f : Stepping(f, A, start, Len(s), ChecksumSteps(A, s), checksum(s))
  <1> DEFINE n == Len(s)
             op(a, k) == (a + s[k]) % 256
             Sum(iter) == [t \in SUBSET (1 .. n) |-> IF t = {} THEN start
                                                    ELSE op(iter[t \ {Max(t)}], Max(t))]
             it == CHOOSE iter : iter = Sum(iter)
             step == ChecksumSteps(A, s)
  <1>1. DOMAIN s = 1 .. n /\ n \in Nat
    OBVIOUS
  <1>2. checksum(s) = it[1 .. n]
    <2>1. checksum(s) = Summing(start, s)
      BY Zenon DEF checksum, Summing
    <2>2. Summing(start, s) = it[1 .. n]
      BY <1>1, Zenon DEF Summing, FoldLeft, MapThenFoldSet
    <2>3. QED
      BY <2>1, <2>2, Zenon
  <1>3. \A a \in A, k \in 1 .. n : step[<<a, k>>] = op(a, k)
    BY DEF ChecksumSteps
  <1> HIDE DEF n, op, step
  <1>4. step \in [A \X (1 .. n) -> A]
    BY DEF step, n
  <1>5. \E g : g = Sum(g)
    <2>1. PICK g : Folding(g, A, start, n, step)
      <3> HIDE DEF Sum
      <3> QED BY <1>1, <1>4, FoldExists
    <2>2. ASSUME NEW t \in SUBSET (1 .. n), t # {}
          PROVE  g[t \ {Max(t)}] \in A /\ Max(t) \in 1 .. n
      BY <2>1, <2>2, <1>1, MaxInSet DEF Folding
    <2>3. g = Sum(g)
      BY <2>1, <2>2, <1>3 DEF Folding
    <2>4. QED
      BY <2>3
  <1>6. it = Sum(it)
    BY <1>5
  <1> HIDE DEF it
  <1>7. FoldsTo(it, A, start, n, step)
    <2>1. it[{}] = start
      BY <1>6
    <2>2. ASSUME NEW t \in SUBSET (1 .. n), t # {}, it[t \ {Max(t)}] \in A
          PROVE  it[t] = step[<<it[t \ {Max(t)}], Max(t)>>]
      BY <1>1, <1>3, <1>6, <2>2, MaxInSet
    <2>3. QED
      BY <2>1, <2>2 DEF FoldsTo
  <1> HIDE DEF Sum
  <1>8. \E f : Stepping(f, A, start, n, step, it[1 .. n])
    BY <1>1, <1>4, <1>7, FoldSteps
  <1>9. QED
    BY <1>2, <1>8 DEF n, step

\* escape() byte by byte.
EscapeSteps(A, s) ==
    [p \in A \X (1 .. Len(s)) |->
        p[1] \o (IF s[p[2]] \in {Hash, Dollar, Escape, Star} THEN <<Escape, Flip(s[p[2]])>> ELSE <<s[p[2]]>>)]

\* escape() takes one step of EscapeSteps for each byte.
LEMMA EscapeFold ==
    ASSUME NEW A, NEW T, NEW s \in Seq(T), NEW start \in A, start = <<>>,
           EscapeSteps(A, s) \in [A \X (1 .. Len(s)) -> A]
    PROVE  \E f : Stepping(f, A, start, Len(s), EscapeSteps(A, s), escape(s))
  <1> DEFINE n == Len(s)
             op(a, k) == a \o (IF s[k] \in {Hash, Dollar, Escape, Star} THEN <<Escape, Flip(s[k])>> ELSE <<s[k]>>)
             Sum(iter) == [t \in SUBSET (1 .. n) |-> IF t = {} THEN start
                                                    ELSE op(iter[t \ {Max(t)}], Max(t))]
             it == CHOOSE iter : iter = Sum(iter)
             step == EscapeSteps(A, s)
  <1>1. DOMAIN s = 1 .. n /\ n \in Nat
    OBVIOUS
  <1>2. escape(s) = it[1 .. n]
    BY <1>1, Zenon DEF escape, FoldLeft, MapThenFoldSet
  <1>3. \A a \in A, k \in 1 .. n : step[<<a, k>>] = op(a, k)
    BY DEF EscapeSteps
  <1> HIDE DEF n, op, step
  <1>4. step \in [A \X (1 .. n) -> A]
    BY DEF step, n
  <1>5. \E g : g = Sum(g)
    <2>1. PICK g : Folding(g, A, start, n, step)
      <3> HIDE DEF Sum
      <3> QED BY <1>1, <1>4, FoldExists
    <2>2. ASSUME NEW t \in SUBSET (1 .. n), t # {}
          PROVE  g[t \ {Max(t)}] \in A /\ Max(t) \in 1 .. n
      BY <2>1, <2>2, <1>1, MaxInSet DEF Folding
    <2>3. g = Sum(g)
      BY <2>1, <2>2, <1>3 DEF Folding
    <2>4. QED
      BY <2>3
  <1>6. it = Sum(it)
    BY <1>5
  <1> HIDE DEF it
  <1>7. FoldsTo(it, A, start, n, step)
    <2>1. it[{}] = start
      BY <1>6
    <2>2. ASSUME NEW t \in SUBSET (1 .. n), t # {}, it[t \ {Max(t)}] \in A
          PROVE  it[t] = step[<<it[t \ {Max(t)}], Max(t)>>]
      BY <1>1, <1>3, <1>6, <2>2, MaxInSet
    <2>3. QED
      BY <2>1, <2>2 DEF FoldsTo
  <1> HIDE DEF Sum
  <1>8. \E f : Stepping(f, A, start, n, step, it[1 .. n])
    BY <1>1, <1>4, <1>7, FoldSteps
  <1>9. QED
    BY <1>2, <1>8 DEF n, step

\* Starred() byte by byte.
StarredSteps(A, s) ==
    [p \in A \X (1 .. Len(s)) |->
        p[1] \o (IF s[p[2]] = Star THEN <<Escape, Flip(Star)>> ELSE <<s[p[2]]>>)]

\* Starred() takes one step of StarredSteps for each byte.
LEMMA StarredFold ==
    ASSUME NEW A, NEW T, NEW s \in Seq(T), NEW start \in A, start = <<>>,
           StarredSteps(A, s) \in [A \X (1 .. Len(s)) -> A]
    PROVE  \E f : Stepping(f, A, start, Len(s), StarredSteps(A, s), Starred(s))
  <1> DEFINE n == Len(s)
             op(a, k) == a \o (IF s[k] = Star THEN <<Escape, Flip(Star)>> ELSE <<s[k]>>)
             Sum(iter) == [t \in SUBSET (1 .. n) |-> IF t = {} THEN start
                                                    ELSE op(iter[t \ {Max(t)}], Max(t))]
             it == CHOOSE iter : iter = Sum(iter)
             step == StarredSteps(A, s)
  <1>1. DOMAIN s = 1 .. n /\ n \in Nat
    OBVIOUS
  <1>2. Starred(s) = it[1 .. n]
    BY <1>1, Zenon DEF Starred, FoldLeft, MapThenFoldSet
  <1>3. \A a \in A, k \in 1 .. n : step[<<a, k>>] = op(a, k)
    BY DEF StarredSteps
  <1> HIDE DEF n, op, step
  <1>4. step \in [A \X (1 .. n) -> A]
    BY DEF step, n
  <1>5. \E g : g = Sum(g)
    <2>1. PICK g : Folding(g, A, start, n, step)
      <3> HIDE DEF Sum
      <3> QED BY <1>1, <1>4, FoldExists
    <2>2. ASSUME NEW t \in SUBSET (1 .. n), t # {}
          PROVE  g[t \ {Max(t)}] \in A /\ Max(t) \in 1 .. n
      BY <2>1, <2>2, <1>1, MaxInSet DEF Folding
    <2>3. g = Sum(g)
      BY <2>1, <2>2, <1>3 DEF Folding
    <2>4. QED
      BY <2>3
  <1>6. it = Sum(it)
    BY <1>5
  <1> HIDE DEF it
  <1>7. FoldsTo(it, A, start, n, step)
    <2>1. it[{}] = start
      BY <1>6
    <2>2. ASSUME NEW t \in SUBSET (1 .. n), t # {}, it[t \ {Max(t)}] \in A
          PROVE  it[t] = step[<<it[t \ {Max(t)}], Max(t)>>]
      BY <1>1, <1>3, <1>6, <2>2, MaxInSet
    <2>3. QED
      BY <2>1, <2>2 DEF FoldsTo
  <1> HIDE DEF Sum
  <1>8. \E f : Stepping(f, A, start, n, step, it[1 .. n])
    BY <1>1, <1>4, <1>7, FoldSteps
  <1>9. QED
    BY <1>2, <1>8 DEF n, step

\* unescape()'s loop, byte by byte.
UnescapeSteps(A, s) == [p \in A \X (1 .. Len(s)) |-> UnescapeByte(s, p[1], p[2])]

\* unescape() takes one step of UnescapeSteps for each byte.
LEMMA UnescapeFold ==
    ASSUME NEW A, NEW T, NEW s \in Seq(T), NEW start \in A,
           UnescapeSteps(A, s) \in [A \X (1 .. Len(s)) -> A]
    PROVE  \E f : Stepping(f, A, start, Len(s), UnescapeSteps(A, s), Unescaping(start, s))
  <1> DEFINE n == Len(s)
             idx == [i \in 1 .. Len(s) |-> i]
             op(a, k) == UnescapeByte(s, a, idx[k])
             Sum(iter) == [t \in SUBSET (1 .. n) |-> IF t = {} THEN start
                                                    ELSE op(iter[t \ {Max(t)}], Max(t))]
             it == CHOOSE iter : iter = Sum(iter)
             step == UnescapeSteps(A, s)
  <1>1. DOMAIN s = 1 .. n /\ n \in Nat /\ DOMAIN idx = 1 .. n
    OBVIOUS
  <1>2. Unescaping(start, s) = it[1 .. n]
    BY <1>1, Zenon DEF Unescaping, FoldLeft, MapThenFoldSet
  <1>3. \A a \in A, k \in 1 .. n : step[<<a, k>>] = op(a, k)
    BY DEF UnescapeSteps
  <1> HIDE DEF n, op, step, idx
  <1>4. step \in [A \X (1 .. n) -> A]
    BY DEF step, n
  <1>5. \E g : g = Sum(g)
    <2>1. PICK g : Folding(g, A, start, n, step)
      <3> HIDE DEF Sum
      <3> QED BY <1>1, <1>4, FoldExists
    <2>2. ASSUME NEW t \in SUBSET (1 .. n), t # {}
          PROVE  g[t \ {Max(t)}] \in A /\ Max(t) \in 1 .. n
      BY <2>1, <2>2, <1>1, MaxInSet DEF Folding
    <2>3. g = Sum(g)
      BY <2>1, <2>2, <1>3 DEF Folding
    <2>4. QED
      BY <2>3
  <1>6. it = Sum(it)
    BY <1>5
  <1> HIDE DEF it
  <1>7. FoldsTo(it, A, start, n, step)
    <2>1. it[{}] = start
      BY <1>6
    <2>2. ASSUME NEW t \in SUBSET (1 .. n), t # {}, it[t \ {Max(t)}] \in A
          PROVE  it[t] = step[<<it[t \ {Max(t)}], Max(t)>>]
      BY <1>1, <1>3, <1>6, <2>2, MaxInSet
    <2>3. QED
      BY <2>1, <2>2 DEF FoldsTo
  <1> HIDE DEF Sum
  <1>8. \E f : Stepping(f, A, start, n, step, it[1 .. n])
    BY <1>1, <1>4, <1>7, FoldSteps
  <1>9. QED
    BY <1>2, <1>8 DEF n, step

\* The first loop of process_data(), byte by byte.
ScanSteps(A, s) == [p \in A \X (1 .. Len(s)) |-> ScanByte(s, p[1], p[2])]

\* The loop of process_data() takes one step of ScanSteps for each byte.
LEMMA ScanFold ==
    ASSUME NEW A, NEW T, NEW s \in Seq(T), NEW start \in A,
           ScanSteps(A, s) \in [A \X (1 .. Len(s)) -> A]
    PROVE  \E f : Stepping(f, A, start, Len(s), ScanSteps(A, s), Scanning(start, s))
  <1> DEFINE n == Len(s)
             idx == [i \in 1 .. Len(s) |-> i]
             op(a, k) == ScanByte(s, a, idx[k])
             Sum(iter) == [t \in SUBSET (1 .. n) |-> IF t = {} THEN start
                                                    ELSE op(iter[t \ {Max(t)}], Max(t))]
             it == CHOOSE iter : iter = Sum(iter)
             step == ScanSteps(A, s)
  <1>1. DOMAIN s = 1 .. n /\ n \in Nat /\ DOMAIN idx = 1 .. n
    OBVIOUS
  <1>2. Scanning(start, s) = it[1 .. n]
    BY <1>1, Zenon DEF Scanning, FoldLeft, MapThenFoldSet
  <1>3. \A a \in A, k \in 1 .. n : step[<<a, k>>] = op(a, k)
    BY DEF ScanSteps
  <1> HIDE DEF n, op, step, idx
  <1>4. step \in [A \X (1 .. n) -> A]
    BY DEF step, n
  <1>5. \E g : g = Sum(g)
    <2>1. PICK g : Folding(g, A, start, n, step)
      <3> HIDE DEF Sum
      <3> QED BY <1>1, <1>4, FoldExists
    <2>2. ASSUME NEW t \in SUBSET (1 .. n), t # {}
          PROVE  g[t \ {Max(t)}] \in A /\ Max(t) \in 1 .. n
      BY <2>1, <2>2, <1>1, MaxInSet DEF Folding
    <2>3. g = Sum(g)
      BY <2>1, <2>2, <1>3 DEF Folding
    <2>4. QED
      BY <2>3
  <1>6. it = Sum(it)
    BY <1>5
  <1> HIDE DEF it
  <1>7. FoldsTo(it, A, start, n, step)
    <2>1. it[{}] = start
      BY <1>6
    <2>2. ASSUME NEW t \in SUBSET (1 .. n), t # {}, it[t \ {Max(t)}] \in A
          PROVE  it[t] = step[<<it[t \ {Max(t)}], Max(t)>>]
      BY <1>1, <1>3, <1>6, <2>2, MaxInSet
    <2>3. QED
      BY <2>1, <2>2 DEF FoldsTo
  <1> HIDE DEF Sum
  <1>8. \E f : Stepping(f, A, start, n, step, it[1 .. n])
    BY <1>1, <1>4, <1>7, FoldSteps
  <1>9. QED
    BY <1>2, <1>8 DEF n, step

\* The second loop of process_data(), message by message.
HandleSteps(A, s) == [p \in A \X (1 .. Len(s)) |-> HandleMessage(p[1], s[p[2]])]

\* Its second loop takes one step of HandleSteps for each message.
LEMMA HandleFold ==
    ASSUME NEW A, NEW T, NEW s \in Seq(T), NEW start \in A,
           HandleSteps(A, s) \in [A \X (1 .. Len(s)) -> A]
    PROVE  \E f : Stepping(f, A, start, Len(s), HandleSteps(A, s), Handling(start, s))
  <1> DEFINE n == Len(s)
             op(a, k) == HandleMessage(a, s[k])
             Sum(iter) == [t \in SUBSET (1 .. n) |-> IF t = {} THEN start
                                                    ELSE op(iter[t \ {Max(t)}], Max(t))]
             it == CHOOSE iter : iter = Sum(iter)
             step == HandleSteps(A, s)
  <1>1. DOMAIN s = 1 .. n /\ n \in Nat
    OBVIOUS
  <1>2. Handling(start, s) = it[1 .. n]
    BY <1>1, Zenon DEF Handling, FoldLeft, MapThenFoldSet
  <1>3. \A a \in A, k \in 1 .. n : step[<<a, k>>] = op(a, k)
    BY DEF HandleSteps
  <1> HIDE DEF n, op, step
  <1>4. step \in [A \X (1 .. n) -> A]
    BY DEF step, n
  <1>5. \E g : g = Sum(g)
    <2>1. PICK g : Folding(g, A, start, n, step)
      <3> HIDE DEF Sum
      <3> QED BY <1>1, <1>4, FoldExists
    <2>2. ASSUME NEW t \in SUBSET (1 .. n), t # {}
          PROVE  g[t \ {Max(t)}] \in A /\ Max(t) \in 1 .. n
      BY <2>1, <2>2, <1>1, MaxInSet DEF Folding
    <2>3. g = Sum(g)
      BY <2>1, <2>2, <1>3 DEF Folding
    <2>4. QED
      BY <2>3
  <1>6. it = Sum(it)
    BY <1>5
  <1> HIDE DEF it
  <1>7. FoldsTo(it, A, start, n, step)
    <2>1. it[{}] = start
      BY <1>6
    <2>2. ASSUME NEW t \in SUBSET (1 .. n), t # {}, it[t \ {Max(t)}] \in A
          PROVE  it[t] = step[<<it[t \ {Max(t)}], Max(t)>>]
      BY <1>1, <1>3, <1>6, <2>2, MaxInSet
    <2>3. QED
      BY <2>1, <2>2 DEF FoldsTo
  <1> HIDE DEF Sum
  <1>8. \E f : Stepping(f, A, start, n, step, it[1 .. n])
    BY <1>1, <1>4, <1>7, FoldSteps
  <1>9. QED
    BY <1>2, <1>8 DEF n, step

\* The client's reading of a reply, byte by byte.
ReadSteps(A, s) == [p \in A \X (1 .. Len(s)) |-> ReadByte(p[1], s[p[2]])]

\* The client takes one step of ReadSteps for each byte of a reply.
LEMMA ReadFold ==
    ASSUME NEW A, NEW T, NEW s \in Seq(T), NEW start \in A,
           ReadSteps(A, s) \in [A \X (1 .. Len(s)) -> A]
    PROVE  \E f : Stepping(f, A, start, Len(s), ReadSteps(A, s), Reading(start, s))
  <1> DEFINE n == Len(s)
             op(a, k) == ReadByte(a, s[k])
             Sum(iter) == [t \in SUBSET (1 .. n) |-> IF t = {} THEN start
                                                    ELSE op(iter[t \ {Max(t)}], Max(t))]
             it == CHOOSE iter : iter = Sum(iter)
             step == ReadSteps(A, s)
  <1>1. DOMAIN s = 1 .. n /\ n \in Nat
    OBVIOUS
  <1>2. Reading(start, s) = it[1 .. n]
    BY <1>1, Zenon DEF Reading, FoldLeft, MapThenFoldSet
  <1>3. \A a \in A, k \in 1 .. n : step[<<a, k>>] = op(a, k)
    BY DEF ReadSteps
  <1> HIDE DEF n, op, step
  <1>4. step \in [A \X (1 .. n) -> A]
    BY DEF step, n
  <1>5. \E g : g = Sum(g)
    <2>1. PICK g : Folding(g, A, start, n, step)
      <3> HIDE DEF Sum
      <3> QED BY <1>1, <1>4, FoldExists
    <2>2. ASSUME NEW t \in SUBSET (1 .. n), t # {}
          PROVE  g[t \ {Max(t)}] \in A /\ Max(t) \in 1 .. n
      BY <2>1, <2>2, <1>1, MaxInSet DEF Folding
    <2>3. g = Sum(g)
      BY <2>1, <2>2, <1>3 DEF Folding
    <2>4. QED
      BY <2>3
  <1>6. it = Sum(it)
    BY <1>5
  <1> HIDE DEF it
  <1>7. FoldsTo(it, A, start, n, step)
    <2>1. it[{}] = start
      BY <1>6
    <2>2. ASSUME NEW t \in SUBSET (1 .. n), t # {}, it[t \ {Max(t)}] \in A
          PROVE  it[t] = step[<<it[t \ {Max(t)}], Max(t)>>]
      BY <1>1, <1>3, <1>6, <2>2, MaxInSet
    <2>3. QED
      BY <2>1, <2>2 DEF FoldsTo
  <1> HIDE DEF Sum
  <1>8. \E f : Stepping(f, A, start, n, step, it[1 .. n])
    BY <1>1, <1>4, <1>7, FoldSteps
  <1>9. QED
    BY <1>2, <1>8 DEF n, step

-----------------------------------------------------------------------------
(* Bytes, digits and escapes.                                              *)

Byte == 0 .. 255

\* A byte is flipped to a byte.
LEMMA FlipByte == ASSUME NEW c \in Byte PROVE Flip(c) \in Byte
  BY DEF Flip, Byte

\* The bytes that escape() escapes, and what becomes of them.
LEMMA FlipSpecial ==
    /\ Flip(Dollar) = 4 /\ Flip(Hash) = 3 /\ Flip(Escape) = 93 /\ Flip(Star) = 10
    /\ Flip(4) = Dollar /\ Flip(3) = Hash /\ Flip(93) = Escape /\ Flip(10) = Star
  BY DEF Flip, Dollar, Hash, Escape, Star

\* A sum of bytes is kept to a byte.
LEMMA SumByte == ASSUME NEW a \in Byte, NEW b \in Byte PROVE (a + b) % 256 \in Byte
  BY DEF Byte

\* A checksum is a byte, whatever it is of.
LEMMA ChecksumByte == ASSUME NEW s \in Seq(Byte) PROVE checksum(s) \in Byte
  <1>1. ASSUME NEW a \in Byte, NEW k \in 1 .. Len(s) PROVE (a + s[k]) % 256 \in Byte
    <2>1. s[k] \in Byte
      OBVIOUS
    <2>2. QED
      BY <2>1, SumByte
  <1>2. ChecksumSteps(Byte, s) \in [Byte \X (1 .. Len(s)) -> Byte]
    BY <1>1 DEF ChecksumSteps
  <1>3. 0 \in Byte
    BY DEF Byte
  <1>4. PICK f : Stepping(f, Byte, 0, Len(s), ChecksumSteps(Byte, s), checksum(s))
    BY <1>2, <1>3, ChecksumFold
  <1>5. QED
    BY <1>4 DEF Stepping

\* A digit has the value that it was made from.
LEMMA DigitValue == ASSUME NEW n \in 0 .. 15 PROVE Digit(n) \in Digits /\ Value(Digit(n)) = n
  <1>1. Digit(n) \in Digits
    BY DEF Digits
  <1>2. Value(Digit(n)) = n
    BY DEF Digit, Value
  <1>3. QED
    BY <1>1, <1>2

\* A digit is none of the bytes that mean something between packets or in one.
LEMMA DigitIsPlain ==
    ASSUME NEW d \in Digits
    PROVE  d \in Byte /\ d \notin {Dollar, Hash, Escape, Star, Interrupt} \cup Acks /\ Value(d) \in 0 .. 15
  BY DEF Digits, Digit, Value, Byte, Dollar, Hash, Escape, Star, Interrupt, Acks, Ack, BadAck

\* What a packet looks like.
LEMMA PacketShape ==
    ASSUME NEW body \in Seq(Byte)
    PROVE  LET m == format_gdb_message(body)
               n == Len(body)
           IN  /\ m \in Seq(Byte) /\ Len(m) = n + 4 /\ n \in Nat
               /\ m[1] = Dollar /\ m[n + 2] = Hash
               /\ \A i \in 1 .. n : m[i + 1] = body[i]
               /\ m[n + 3] \in Digits /\ m[n + 4] \in Digits
               /\ SumOf(m) = checksum(body)
               /\ Contents(m) = body
  <1> DEFINE n == Len(body)
             sum == checksum(body)
             hi == Digit(sum \div 16)
             lo == Digit(sum % 16)
             m == format_gdb_message(body)
  <1>1. sum \in 0 .. 255
    BY ChecksumByte DEF Byte
  <1>2. sum \div 16 \in 0 .. 15 /\ sum % 16 \in 0 .. 15 /\ 16 * (sum \div 16) + (sum % 16) = sum
    <2> HIDE DEF sum
    <2> QED BY <1>1
  <1>3. hi \in Digits /\ lo \in Digits /\ Value(hi) = sum \div 16 /\ Value(lo) = sum % 16
    BY <1>2, DigitValue
  <1>4. hi \in Byte /\ lo \in Byte /\ Dollar \in Byte /\ Hash \in Byte
    BY <1>3, DigitIsPlain DEF Byte, Dollar, Hash
  <1> HIDE DEF hi, lo, sum
  <1>5. m = <<Dollar>> \o body \o <<Hash, hi, lo>>
    BY DEF format_gdb_message, hi, lo, sum
  <1> HIDE DEF m
  <1>6. <<Dollar>> \in Seq(Byte) /\ <<Hash, hi, lo>> \in Seq(Byte)
    BY <1>4
  <1>7. /\ m \in Seq(Byte) /\ Len(m) = n + 4 /\ n \in Nat
        /\ m[1] = Dollar /\ m[n + 2] = Hash /\ m[n + 3] = hi /\ m[n + 4] = lo
        /\ \A i \in 1 .. n : m[i + 1] = body[i]
    BY <1>5, <1>6
  <1>8. SumOf(m) = sum
    <2>1. Len(m) \in Nat /\ Len(m) > 1 /\ m[Len(m)] = lo /\ m[Len(m) - 1] = hi
      BY <1>7
    <2>2. QED
      BY <1>2, <1>3, <2>1 DEF SumOf
  <1>9. Contents(m) = body
    <2>1. Contents(m) = SubSeq(m, 2, n + 1)
      BY <1>7 DEF Contents
    <2>2. SubSeq(m, 2, n + 1) \in Seq(Byte) /\ Len(SubSeq(m, 2, n + 1)) = n
          /\ \A i \in 1 .. n : SubSeq(m, 2, n + 1)[i] = m[i + 1]
      BY <1>7, SubSeqProperties
    <2>3. QED
      BY <1>7, <2>1, <2>2, SeqEqual
  <1>10. QED
    BY <1>3, <1>7, <1>8, <1>9 DEF sum, m

\* escape() leaves neither '$' nor '#', does not end in an escape, and makes no ':'.
EscapedSet(d) ==
    {e \in Seq(Byte) :
        /\ \A i \in DOMAIN e : e[i] \notin {Dollar, Hash}
        /\ e # <<>> => e[Len(e)] # Escape
        /\ (\E i \in DOMAIN e : e[i] = Colon) => \E j \in DOMAIN d : d[j] = Colon}

\* What escape() adds for a byte keeps the data clean.
LEMMA EscapeByte ==
    ASSUME NEW d \in Seq(Byte), NEW e \in EscapedSet(d), NEW k \in 1 .. Len(d)
    PROVE  e \o (IF d[k] \in {Hash, Dollar, Escape, Star} THEN <<Escape, Flip(d[k])>> ELSE <<d[k]>>)
               \in EscapedSet(d)
  <1>1. d[k] \in Byte /\ Flip(d[k]) \in Byte /\ Escape \in Byte /\ k \in DOMAIN d
    <2>1. Escape \in Byte
      BY DEF Byte, Escape
    <2>2. QED
      BY <2>1, FlipByte
  <1>2. e \in Seq(Byte)
    BY DEF EscapedSet
  <1>3. ASSUME NEW x \in Seq(Byte), x # <<>>, x[Len(x)] # Escape,
               \A i \in DOMAIN x : x[i] \notin {Dollar, Hash} /\ (x[i] = Colon => d[k] = Colon)
        PROVE  e \o x \in EscapedSet(d)
    <2> DEFINE y == e \o x
    <2>1. /\ y \in Seq(Byte) /\ Len(y) = Len(e) + Len(x) /\ DOMAIN y = 1 .. Len(e) + Len(x)
          /\ \A i \in 1 .. Len(e) : y[i] = e[i]
          /\ \A i \in Len(e) + 1 .. Len(e) + Len(x) : y[i] = x[i - Len(e)] /\ i - Len(e) \in DOMAIN x
          /\ DOMAIN e = 1 .. Len(e) /\ Len(e) \in Nat /\ Len(x) \in Nat \ {0}
      BY <1>2, <1>3
    <2> HIDE DEF y
    <2>2. ASSUME NEW i \in DOMAIN y PROVE y[i] \notin {Dollar, Hash}
      BY <1>3, <2>1 DEF EscapedSet
    <2>3. y[Len(y)] # Escape
      BY <1>3, <2>1
    <2>4. ASSUME NEW i \in DOMAIN y, y[i] = Colon PROVE \E j \in DOMAIN d : d[j] = Colon
      BY <1>1, <1>3, <2>1, <2>4 DEF EscapedSet
    <2>5. y \in EscapedSet(d)
      BY <2>1, <2>2, <2>3, <2>4 DEF EscapedSet
    <2>6. QED
      BY <2>5 DEF y
  <1>4. CASE d[k] \in {Hash, Dollar, Escape, Star}
    <2>1. Flip(d[k]) \notin {Dollar, Hash, Escape, Colon}
      BY <1>4, FlipSpecial DEF Dollar, Hash, Escape, Star, Colon
    <2>2. Escape \notin {Dollar, Hash, Colon}
      BY DEF Dollar, Hash, Escape, Colon
    <2> DEFINE x == <<Escape, Flip(d[k])>>
    <2>3. x \in Seq(Byte) /\ x # <<>> /\ DOMAIN x = 1 .. 2 /\ Len(x) = 2 /\ x[1] = Escape /\ x[2] = Flip(d[k])
      BY <1>1
    <2> HIDE DEF x
    <2>4. \A i \in DOMAIN x : x[i] \notin {Dollar, Hash} /\ (x[i] = Colon => d[k] = Colon)
      BY <2>1, <2>2, <2>3
    <2>5. e \o x \in EscapedSet(d)
      BY <1>3, <2>1, <2>3, <2>4
    <2>6. QED
      BY <1>4, <2>5 DEF x
  <1>5. CASE d[k] \notin {Hash, Dollar, Escape, Star}
    <2> DEFINE x == <<d[k]>>
    <2>1. x \in Seq(Byte) /\ x # <<>> /\ DOMAIN x = {1} /\ Len(x) = 1 /\ x[1] = d[k]
      BY <1>1
    <2> HIDE DEF x
    <2>2. e \o x \in EscapedSet(d)
      BY <1>3, <1>5, <2>1
    <2>3. QED
      BY <1>5, <2>2 DEF x
  <1>6. QED
    BY <1>4, <1>5

\* Every state of escape() is clean.
LEMMA EscapeRuns ==
    ASSUME NEW d \in Seq(Byte)
    PROVE  \E f : Stepping(f, EscapedSet(d), <<>>, Len(d), EscapeSteps(EscapedSet(d), d), escape(d))
  <1>1. <<>> \in EscapedSet(d)
    BY DEF EscapedSet
  <1>2. EscapeSteps(EscapedSet(d), d) \in [EscapedSet(d) \X (1 .. Len(d)) -> EscapedSet(d)]
    BY EscapeByte DEF EscapeSteps
  <1>3. QED
    BY <1>1, <1>2, EscapeFold

\* Escaped data are clean: no byte of theirs frames a packet, whatever the data.
LEMMA EscapeIsClean ==
    ASSUME NEW d \in Seq(Byte)
    PROVE  escape(d) \in EscapedSet(d)
  <1>1. PICK f : Stepping(f, EscapedSet(d), <<>>, Len(d), EscapeSteps(EscapedSet(d), d), escape(d))
    BY EscapeRuns
  <1>2. QED
    BY <1>1 DEF Stepping

-----------------------------------------------------------------------------
(* What is on the wire, cut anywhere.                                      *)

\* The contents of a packet that the client has sent, as they went over the wire.
SentBody(body, past) ==
    \/ body \in Payload /\ body \in ToSet(past)
    \/ \E d \in Data : body = <<88, Colon>> \o escape(d) /\ <<88, Colon>> \o d \in ToSet(past)

\* '$' and '#' take turns.
Alternate(b) ==
    \A i, j \in DOMAIN b :
        i < j /\ b[i] = b[j] /\ b[i] \in {Dollar, Hash}
            => \E l \in i + 1 .. j - 1 : b[l] \in {Dollar, Hash} \ {b[i]}

\* The two bytes behind a '#' are digits.
SumsFollow(b) == \A i, j \in DOMAIN b : b[i] = Hash /\ i < j /\ j <= i + 2 => b[j] \in Digits

\* Neither '$' nor '#' comes behind an escape.
Framed(b) == \A i \in DOMAIN b : i > 1 /\ b[i] \in {Dollar, Hash} => b[i - 1] # Escape

\* A packet from its '$' at i to its '#' at j.
PacketAt(b, i, j) ==
    /\ i < j /\ j + 2 <= Len(b) /\ b[i] = Dollar /\ b[j] = Hash
    /\ \A l \in i + 1 .. j - 1 : b[l] # Hash

\* It is not empty, and if its checksum is right then it was sent.
Genuine(b, i, j, past) ==
    /\ i + 1 < j
    /\ checksum(SubSeq(b, i + 1, j - 1)) = SumOf(SubSeq(b, i, j + 2)) => SentBody(SubSeq(b, i + 1, j - 1), past)

Packets(b, past) == \A i, j \in DOMAIN b : PacketAt(b, i, j) => Genuine(b, i, j, past)

\* A piece of what the client has sent.
Piece(b, past) == b \in Seq(Byte) /\ Alternate(b) /\ SumsFollow(b) /\ Framed(b) /\ Packets(b, past)

\* It ends behind a packet, and it does not start inside one.
Ended(b) ==
    /\ \A i \in DOMAIN b : b[i] = Hash => i + 2 <= Len(b)
    /\ \A i \in DOMAIN b : b[i] = Dollar => \E j \in DOMAIN b : i < j /\ b[j] = Hash
    /\ b # <<>> => b[Len(b)] # Escape
Started(b) == \A j \in DOMAIN b : b[j] = Hash => \E i \in 1 .. j - 1 : b[i] = Dollar

\* A part of a part.
LEMMA PartOfPart ==
    ASSUME NEW S, NEW s \in Seq(S), NEW m \in 1 .. Len(s) + 1, NEW n \in m - 1 .. Len(s),
           NEW i \in Int, NEW j \in Int, i >= 1, j <= n - m + 1
    PROVE  SubSeq(SubSeq(s, m, n), i, j) = SubSeq(s, m + i - 1, m + j - 1)
  <1> DEFINE c == SubSeq(s, m, n)
             x == SubSeq(c, i, j)
             y == SubSeq(s, m + i - 1, m + j - 1)
  <1>1. \A l \in 1 .. n - m + 1 : c[l] = s[m + l - 1] /\ m + l - 1 \in 1 .. Len(s)
    BY SubSeqProperties
  <1> HIDE DEF c
  <1>2. CASE i > j
    <2>1. x = <<>>
      BY <1>2, SubSeqEmpty
    <2>2. y = <<>>
      BY <1>2, SubSeqEmpty
    <2>3. QED
      BY <2>1, <2>2 DEF c
  <1>3. CASE i <= j
    <2>1. \A l \in i .. j : c[l] \in S
      BY <1>1, <1>3, ElementOfSeq
    <2>2. \A l \in m + i - 1 .. m + j - 1 : s[l] \in S
      BY ElementOfSeq
    <2>3. x \in Seq(S) /\ Len(x) = j - i + 1 /\ \A l \in 1 .. j - i + 1 : x[l] = c[i + l - 1]
      BY <1>3, <2>1, SubSeqProperties
    <2>4. y \in Seq(S) /\ Len(y) = j - i + 1 /\ \A l \in 1 .. j - i + 1 : y[l] = s[m + i - 1 + l - 1]
      BY <1>3, <2>2, SubSeqProperties
    <2>5. ASSUME NEW l \in 1 .. j - i + 1 PROVE x[l] = y[l]
      <3>1. i + l - 1 \in 1 .. n - m + 1 /\ m + (i + l - 1) - 1 = m + i - 1 + l - 1
        OBVIOUS
      <3> HIDE DEF x, y
      <3>2. QED
        BY <1>1, <2>3, <2>4, <3>1
    <2> HIDE DEF x, y
    <2>6. x = y
      BY <2>3, <2>4, <2>5, SeqEqual
    <2>7. QED
      BY <2>6 DEF c, x, y
  <1>4. QED
    BY <1>2, <1>3

\* A piece stays one however it is cut.
LEMMA PartOfPiece ==
    ASSUME NEW past, NEW b, Piece(b, past), NEW m \in 1 .. Len(b) + 1, NEW n \in m - 1 .. Len(b)
    PROVE  Piece(SubSeq(b, m, n), past)
  <1> DEFINE c == SubSeq(b, m, n)
             k == n - m + 1
  <1>1. b \in Seq(Byte) /\ Len(b) \in Nat /\ DOMAIN b = 1 .. Len(b)
    BY DEF Piece
  <1>2. c \in Seq(Byte) /\ Len(c) = k /\ DOMAIN c = 1 .. k /\ k \in Nat
        /\ \A i \in 1 .. k : c[i] = b[m + i - 1]
    <2>1. \A i \in m .. n : b[i] \in Byte
      BY <1>1, ElementOfSeq
    <2>2. c \in Seq(Byte) /\ Len(c) = k /\ \A i \in 1 .. k : c[i] = b[m + i - 1]
      BY <2>1, <1>1, SubSeqProperties
    <2>3. QED
      BY <2>2
  <1> HIDE DEF c
  <1>3. \A i \in 1 .. k : m + i - 1 \in DOMAIN b
    BY <1>1
  <1>4. Alternate(c)
    <2>1. SUFFICES ASSUME NEW i \in 1 .. k, NEW j \in 1 .. k, i < j, c[i] = c[j], c[i] \in {Dollar, Hash}
                   PROVE  \E l \in i + 1 .. j - 1 : c[l] \in {Dollar, Hash} \ {c[i]}
      BY <1>2 DEF Alternate
    <2>2. PICK l \in m + i .. m + j - 2 : b[l] \in {Dollar, Hash} \ {b[m + i - 1]}
      <3>1. b[m + i - 1] = b[m + j - 1] /\ b[m + i - 1] \in {Dollar, Hash} /\ m + i - 1 < m + j - 1
        BY <1>2, <2>1
      <3>2. PICK l \in (m + i - 1) + 1 .. (m + j - 1) - 1 : b[l] \in {Dollar, Hash} \ {b[m + i - 1]}
        BY <1>3, <3>1 DEF Piece, Alternate
      <3>3. QED
        BY <3>2
    <2>3. l - m + 1 \in i + 1 .. j - 1 /\ c[l - m + 1] = b[l] /\ c[i] = b[m + i - 1]
      <3>1. l - m + 1 \in 1 .. k /\ m + (l - m + 1) - 1 = l /\ l - m + 1 \in i + 1 .. j - 1
        OBVIOUS
      <3>2. c[l - m + 1] = b[m + (l - m + 1) - 1] /\ c[i] = b[m + i - 1]
        BY <1>2, <3>1
      <3>3. QED
        BY <3>1, <3>2
    <2>4. QED
      BY <2>2, <2>3
  <1>5. SumsFollow(c)
    <2>1. SUFFICES ASSUME NEW i \in 1 .. k, NEW j \in 1 .. k, i < j, j <= i + 2, c[i] = Hash
                   PROVE  c[j] \in Digits
      BY <1>2 DEF SumsFollow
    <2>2. m + i - 1 < m + j - 1 /\ m + j - 1 <= (m + i - 1) + 2 /\ b[m + i - 1] = Hash /\ c[j] = b[m + j - 1]
      BY <1>2, <2>1
    <2>3. QED
      BY <1>3, <2>2 DEF Piece, SumsFollow
  <1>6. Framed(c)
    <2>1. SUFFICES ASSUME NEW i \in 1 .. k, i > 1, c[i] \in {Dollar, Hash} PROVE c[i - 1] # Escape
      BY <1>2 DEF Framed
    <2>2. m + i - 1 > 1 /\ b[m + i - 1] \in {Dollar, Hash} /\ c[i - 1] = b[(m + i - 1) - 1]
      <3>1. i - 1 \in 1 .. k /\ m + (i - 1) - 1 = (m + i - 1) - 1
        BY <2>1
      <3>2. QED
        BY <1>2, <2>1, <3>1
    <2>3. QED
      BY <1>3, <2>2 DEF Piece, Framed
  <1>7. Packets(c, past)
    <2>1. SUFFICES ASSUME NEW i \in 1 .. k, NEW j \in 1 .. k, PacketAt(c, i, j)
                   PROVE  Genuine(c, i, j, past)
      BY <1>2 DEF Packets
    <2> DEFINE I == m + i - 1
               J == m + j - 1
    <2>2. i < j /\ j + 2 <= k /\ c[i] = Dollar /\ c[j] = Hash /\ \A l \in i + 1 .. j - 1 : c[l] # Hash
      BY <1>2, <2>1 DEF PacketAt
    <2>3. PacketAt(b, I, J)
      <3>1. I < J /\ J + 2 <= Len(b) /\ b[I] = Dollar /\ b[J] = Hash
        BY <1>1, <1>2, <2>2
      <3>2. ASSUME NEW l \in I + 1 .. J - 1 PROVE b[l] # Hash
        <4>1. l - m + 1 \in i + 1 .. j - 1 /\ l - m + 1 \in 1 .. k /\ m + (l - m + 1) - 1 = l
          OBVIOUS
        <4>2. QED
          BY <1>2, <2>2, <4>1
      <3>3. QED
        BY <3>1, <3>2 DEF PacketAt
    <2>4. Genuine(b, I, J, past)
      BY <1>3, <2>3 DEF Piece, Packets
    <2>5. SubSeq(c, i + 1, j - 1) = SubSeq(b, I + 1, J - 1)
      <3>1. SubSeq(c, i + 1, j - 1) = SubSeq(b, m + (i + 1) - 1, m + (j - 1) - 1)
        BY <1>1, PartOfPart DEF c
      <3>2. m + (i + 1) - 1 = I + 1 /\ m + (j - 1) - 1 = J - 1
        OBVIOUS
      <3>3. QED
        BY <3>1, <3>2
    <2>6. SubSeq(c, i, j + 2) = SubSeq(b, I, J + 2)
      <3>1. SubSeq(c, i, j + 2) = SubSeq(b, m + i - 1, m + (j + 2) - 1)
        BY <1>1, <2>2, PartOfPart DEF c
      <3>2. m + (j + 2) - 1 = J + 2
        OBVIOUS
      <3>3. QED
        BY <3>1, <3>2
    <2>7. i + 1 < j
      BY <2>4 DEF Genuine
    <2> HIDE DEF I, J
    <2>8. QED
      BY <2>4, <2>5, <2>6, <2>7 DEF Genuine
  <1>8. QED
    BY <1>2, <1>4, <1>5, <1>6, <1>7 DEF Piece, c

\* What is left when the start is cut off ends as it did.
LEMMA RestIsEnded ==
    ASSUME NEW b \in Seq(Byte), Ended(b), NEW m \in 1 .. Len(b) + 1
    PROVE  Ended(SubSeq(b, m, Len(b)))
  <1> DEFINE c == SubSeq(b, m, Len(b))
             k == Len(b) - m + 1
  <1>1. Len(b) \in Nat /\ DOMAIN b = 1 .. Len(b)
    OBVIOUS
  <1>2. c \in Seq(Byte) /\ Len(c) = k /\ DOMAIN c = 1 .. k /\ k \in Nat
        /\ \A i \in 1 .. k : c[i] = b[m + i - 1]
    <2>1. \A i \in m .. Len(b) : b[i] \in Byte
      BY <1>1, ElementOfSeq
    <2>2. c \in Seq(Byte) /\ Len(c) = k /\ \A i \in 1 .. k : c[i] = b[m + i - 1]
      BY <2>1, <1>1, SubSeqProperties
    <2>3. QED
      BY <2>2
  <1> HIDE DEF c
  <1>3. \A i \in 1 .. k : m + i - 1 \in DOMAIN b
    BY <1>1
  <1>4. ASSUME NEW i \in 1 .. k, c[i] = Hash PROVE i + 2 <= k
    <2>1. b[m + i - 1] = Hash /\ m + i - 1 \in DOMAIN b
      BY <1>2, <1>3, <1>4
    <2>2. (m + i - 1) + 2 <= Len(b)
      BY <2>1 DEF Ended
    <2>3. QED
      BY <1>1, <2>2
  <1>5. ASSUME NEW i \in 1 .. k, c[i] = Dollar PROVE \E j \in 1 .. k : i < j /\ c[j] = Hash
    <2>1. b[m + i - 1] = Dollar /\ m + i - 1 \in DOMAIN b
      BY <1>2, <1>3, <1>5
    <2>2. PICK j \in 1 .. Len(b) : m + i - 1 < j /\ b[j] = Hash
      BY <1>1, <2>1 DEF Ended
    <2>3. j - m + 1 \in 1 .. k /\ i < j - m + 1 /\ m + (j - m + 1) - 1 = j
      BY <1>1, <2>2
    <2>4. QED
      BY <1>2, <2>2, <2>3
  <1>6. ASSUME c # <<>> PROVE c[k] # Escape
    <2>1. k > 0 /\ b # <<>> /\ m + k - 1 = Len(b)
      BY <1>1, <1>2, <1>6
    <2>2. c[k] = b[Len(b)]
      BY <1>2, <2>1
    <2>3. QED
      BY <2>1, <2>2 DEF Ended
  <1>7. QED
    BY <1>2, <1>4, <1>5, <1>6 DEF Ended, c


\* What the client has sent so far and one more packet, acknowledgement or
\* interrupt.
LEMMA JoinedPieces ==
    ASSUME NEW past, NEW a, Piece(a, past), Ended(a), NEW u, Piece(u, past), Ended(u), Started(u)
    PROVE  Piece(a \o u, past) /\ Ended(a \o u)
  <1> DEFINE w == a \o u
             L == Len(a)
             M == Len(u)
  <1>1. /\ a \in Seq(Byte) /\ L \in Nat /\ DOMAIN a = 1 .. L
        /\ u \in Seq(Byte) /\ M \in Nat /\ DOMAIN u = 1 .. M
    BY DEF Piece
  <1>2. /\ w \in Seq(Byte) /\ Len(w) = L + M /\ DOMAIN w = 1 .. L + M
        /\ \A i \in 1 .. L : w[i] = a[i]
        /\ \A i \in L + 1 .. L + M : w[i] = u[i - L] /\ i - L \in 1 .. M
    BY <1>1
  <1> HIDE DEF w, L, M
  <1>3. ASSUME NEW i \in 1 .. L + M, i \notin 1 .. L PROVE i \in L + 1 .. L + M
    BY <1>1, <1>3
  <1>4. ASSUME NEW i \in 1 .. L, NEW j \in L + 1 .. L + M, w[i] = Dollar
        PROVE  \E l \in i + 1 .. j - 1 : w[l] = Hash /\ l \in 1 .. L
    <2>1. a[i] = Dollar
      BY <1>2, <1>4
    <2>2. PICK l \in 1 .. L : i < l /\ a[l] = Hash
      BY <1>1, <2>1 DEF Ended
    <2>3. l \in i + 1 .. j - 1 /\ w[l] = Hash
      BY <1>1, <1>2, <2>2
    <2>4. QED
      BY <2>3
  <1>5. ASSUME NEW i \in 1 .. L, NEW j \in L + 1 .. L + M, w[j] = Hash
        PROVE  \E l \in i + 1 .. j - 1 : w[l] = Dollar
    <2>1. u[j - L] = Hash /\ j - L \in 1 .. M
      BY <1>2, <1>5
    <2>2. PICK l \in 1 .. (j - L) - 1 : u[l] = Dollar
      BY <1>1, <2>1 DEF Started
    <2>3. L + l \in L + 1 .. L + M /\ (L + l) - L = l /\ L + l \in i + 1 .. j - 1
      BY <1>1, <2>1
    <2>4. QED
      BY <1>2, <2>2, <2>3
  <1>6. Dollar # Hash
    BY DEF Dollar, Hash
  <1>7. Alternate(w)
    <2>1. SUFFICES ASSUME NEW i \in 1 .. L + M, NEW j \in 1 .. L + M, i < j, w[i] = w[j],
                          w[i] \in {Dollar, Hash}
                   PROVE  \E l \in i + 1 .. j - 1 : w[l] \in {Dollar, Hash} \ {w[i]}
      BY <1>2 DEF Alternate
    <2>2. CASE j \in 1 .. L
      <3>1. i \in 1 .. L /\ a[i] = a[j] /\ a[i] \in {Dollar, Hash} /\ w[i] = a[i]
        BY <1>1, <1>2, <2>1, <2>2
      <3>2. PICK l \in i + 1 .. j - 1 : a[l] \in {Dollar, Hash} \ {a[i]}
        BY <1>1, <2>1, <2>2, <3>1 DEF Piece, Alternate
      <3>3. w[l] = a[l]
        BY <1>1, <1>2, <2>2
      <3>4. QED
        BY <3>1, <3>2, <3>3
    <2>3. CASE i \in 1 .. L /\ j \in L + 1 .. L + M
      <3>1. CASE w[i] = Dollar
        BY <1>4, <1>6, <2>3, <3>1
      <3>2. CASE w[i] = Hash
        BY <1>5, <1>6, <2>1, <2>3, <3>2
      <3>3. QED
        BY <2>1, <3>1, <3>2
    <2>4. CASE i \in L + 1 .. L + M /\ j \in L + 1 .. L + M
      <3>1. /\ i - L \in 1 .. M /\ j - L \in 1 .. M /\ i - L < j - L
            /\ u[i - L] = u[j - L] /\ u[i - L] \in {Dollar, Hash} /\ w[i] = u[i - L]
        BY <1>1, <1>2, <2>1, <2>4
      <3>2. PICK l \in (i - L) + 1 .. (j - L) - 1 : u[l] \in {Dollar, Hash} \ {u[i - L]}
        BY <1>1, <3>1 DEF Piece, Alternate
      <3>3. L + l \in L + 1 .. L + M /\ (L + l) - L = l /\ L + l \in i + 1 .. j - 1
        BY <1>1, <3>1
      <3>4. w[L + l] = u[l]
        BY <1>2, <3>3
      <3>5. QED
        BY <3>1, <3>2, <3>3, <3>4
    <2>5. QED
      BY <1>1, <1>3, <2>1, <2>2, <2>3, <2>4
  <1>8. SumsFollow(w)
    <2>1. SUFFICES ASSUME NEW i \in 1 .. L + M, NEW j \in 1 .. L + M, i < j, j <= i + 2, w[i] = Hash
                   PROVE  w[j] \in Digits
      BY <1>2 DEF SumsFollow
    <2>2. CASE i \in 1 .. L
      <3>1. a[i] = Hash
        BY <1>2, <2>1, <2>2
      <3>2. i + 2 <= L
        BY <1>1, <2>2, <3>1 DEF Ended, L
      <3>3. j \in 1 .. L /\ w[j] = a[j]
        BY <1>1, <1>2, <2>1, <3>2
      <3>4. QED
        BY <1>1, <2>1, <2>2, <3>1, <3>3 DEF Piece, SumsFollow
    <2>3. CASE i \in L + 1 .. L + M
      <3>1. /\ i - L \in 1 .. M /\ j - L \in 1 .. M /\ i - L < j - L /\ j - L <= (i - L) + 2
            /\ u[i - L] = Hash /\ w[j] = u[j - L]
        BY <1>1, <1>2, <2>1, <2>3
      <3>2. QED
        BY <1>1, <3>1 DEF Piece, SumsFollow
    <2>4. QED
      BY <1>3, <2>2, <2>3
  <1>9. Framed(w)
    <2>1. SUFFICES ASSUME NEW i \in 1 .. L + M, i > 1, w[i] \in {Dollar, Hash} PROVE w[i - 1] # Escape
      BY <1>2 DEF Framed
    <2>2. CASE i \in 1 .. L
      <3>1. a[i] \in {Dollar, Hash} /\ i - 1 \in 1 .. L /\ w[i - 1] = a[i - 1]
        BY <1>1, <1>2, <2>1, <2>2
      <3>2. QED
        BY <1>1, <2>1, <2>2, <3>1 DEF Piece, Framed
    <2>3. CASE i = L + 1
      <3>1. L \in 1 .. L /\ w[i - 1] = a[L] /\ a # <<>>
        BY <1>1, <1>2, <2>1, <2>3 DEF L
      <3>2. QED
        BY <3>1 DEF Ended, L
    <2>4. CASE i \in L + 2 .. L + M
      <3>1. /\ i - L \in 1 .. M /\ i - L > 1 /\ u[i - L] \in {Dollar, Hash}
            /\ w[i - 1] = u[(i - 1) - L] /\ (i - 1) - L = (i - L) - 1
        BY <1>1, <1>2, <2>1, <2>4
      <3>2. u[(i - L) - 1] # Escape
        BY <1>1, <3>1 DEF Piece, Framed
      <3>3. QED
        BY <3>1, <3>2
    <2>5. QED
      BY <1>1, <2>2, <2>3, <2>4
  <1>10. Packets(w, past)
    <2>1. SUFFICES ASSUME NEW i \in 1 .. L + M, NEW j \in 1 .. L + M, PacketAt(w, i, j)
                   PROVE  Genuine(w, i, j, past)
      BY <1>2 DEF Packets
    <2>2. i < j /\ j + 2 <= L + M /\ w[i] = Dollar /\ w[j] = Hash /\ \A l \in i + 1 .. j - 1 : w[l] # Hash
      BY <1>2, <2>1 DEF PacketAt
    <2>3. CASE j \in 1 .. L
      <3>1. i \in 1 .. L /\ a[i] = Dollar /\ a[j] = Hash
        BY <1>1, <1>2, <2>2, <2>3
      <3>2. j + 2 <= L
        BY <1>1, <2>3, <3>1 DEF Ended, L
      <3>3. \A l \in i + 1 .. j - 1 : a[l] # Hash
        BY <1>1, <1>2, <2>2, <2>3
      <3>4. Genuine(a, i, j, past)
        BY <1>1, <2>2, <2>3, <3>1, <3>2, <3>3 DEF Piece, Packets, PacketAt, L
      <3>5. SubSeq(w, i + 1, j - 1) = SubSeq(a, i + 1, j - 1)
        <4>1. i + 1 < j
          BY <3>4 DEF Genuine
        <4>2. i + 1 \in 1 .. Len(a) /\ j - 1 \in 1 .. Len(a)
          BY <1>1, <2>3, <3>1, <4>1 DEF L
        <4>3. QED
          BY <1>1, <4>2, SubSeqOfConcat1 DEF w
      <3>6. SubSeq(w, i, j + 2) = SubSeq(a, i, j + 2)
        <4>1. i \in 1 .. Len(a) /\ j + 2 \in 1 .. Len(a)
          BY <1>1, <2>3, <3>1, <3>2 DEF L
        <4>2. QED
          BY <1>1, <4>1, SubSeqOfConcat1 DEF w
      <3>7. QED
        BY <3>4, <3>5, <3>6 DEF Genuine
    <2>4. CASE i \in 1 .. L /\ j \in L + 1 .. L + M
      BY <1>4, <2>2, <2>4
    <2>5. CASE i \in L + 1 .. L + M /\ j \in L + 1 .. L + M
      <3> DEFINE I == i - L
                 J == j - L
      <3>1. I \in 1 .. M /\ J \in 1 .. M /\ I < J /\ J + 2 <= M /\ u[I] = Dollar /\ u[J] = Hash
        BY <1>1, <1>2, <2>2, <2>5
      <3>2. ASSUME NEW l \in I + 1 .. J - 1 PROVE u[l] # Hash
        <4>1. L + l \in i + 1 .. j - 1 /\ L + l \in L + 1 .. L + M /\ (L + l) - L = l
          BY <1>1, <3>1
        <4>2. QED
          BY <1>2, <2>2, <4>1
      <3>3. Genuine(u, I, J, past)
        <4>1. PacketAt(u, I, J)
          BY <3>1, <3>2 DEF PacketAt, M
        <4>2. QED
          BY <1>1, <3>1, <4>1 DEF Piece, Packets
      <3>4. I + 1 < J
        BY <3>3 DEF Genuine
      <3>5. SubSeq(w, i + 1, j - 1) = SubSeq(u, I + 1, J - 1)
        <4>1. i + 1 \in Len(a) + 1 .. Len(a) + Len(u) /\ j - 1 \in Len(a) + 1 .. Len(a) + Len(u)
          BY <1>1, <2>5, <3>4 DEF L, M
        <4>2. SubSeq(w, i + 1, j - 1) = SubSeq(u, (i + 1) - Len(a), (j - 1) - Len(a))
          BY <1>1, <4>1, SubSeqOfConcat2 DEF w
        <4>3. (i + 1) - Len(a) = I + 1 /\ (j - 1) - Len(a) = J - 1
          BY <1>1 DEF L
        <4>4. QED
          BY <4>2, <4>3
      <3>6. SubSeq(w, i, j + 2) = SubSeq(u, I, J + 2)
        <4>1. i \in Len(a) + 1 .. Len(a) + Len(u) /\ j + 2 \in Len(a) + 1 .. Len(a) + Len(u)
          BY <1>1, <2>2, <2>5 DEF L, M
        <4>2. SubSeq(w, i, j + 2) = SubSeq(u, i - Len(a), (j + 2) - Len(a))
          BY <1>1, <4>1, SubSeqOfConcat2 DEF w
        <4>3. i - Len(a) = I /\ (j + 2) - Len(a) = J + 2
          BY <1>1 DEF L
        <4>4. QED
          BY <4>2, <4>3
      <3>7. i + 1 < j
        BY <1>1, <3>4
      <3> HIDE DEF I, J
      <3>8. QED
        BY <3>3, <3>5, <3>6, <3>7 DEF Genuine
    <2>6. QED
      BY <1>1, <1>3, <2>2, <2>3, <2>4, <2>5
  <1>11. Ended(w)
    <2>1. ASSUME NEW i \in 1 .. L + M, w[i] = Hash PROVE i + 2 <= L + M
      <3>1. CASE i \in 1 .. L
        <4>1. i + 2 <= L
          BY <1>1, <1>2, <2>1, <3>1 DEF Ended, L
        <4>2. QED
          BY <1>1, <4>1
      <3>2. CASE i \in L + 1 .. L + M
        <4>1. u[i - L] = Hash /\ i - L \in 1 .. M
          BY <1>2, <2>1, <3>2
        <4>2. (i - L) + 2 <= M
          BY <1>1, <4>1 DEF Ended, M
        <4>3. QED
          BY <1>1, <4>2
      <3>3. QED
        BY <1>3, <3>1, <3>2
    <2>2. ASSUME NEW i \in 1 .. L + M, w[i] = Dollar PROVE \E j \in 1 .. L + M : i < j /\ w[j] = Hash
      <3>1. CASE i \in 1 .. L
        <4>1. PICK j \in 1 .. L : i < j /\ a[j] = Hash
          BY <1>1, <1>2, <2>2, <3>1 DEF Ended
        <4>2. QED
          BY <1>1, <1>2, <4>1
      <3>2. CASE i \in L + 1 .. L + M
        <4>1. u[i - L] = Dollar /\ i - L \in 1 .. M
          BY <1>2, <2>2, <3>2
        <4>2. PICK j \in 1 .. M : i - L < j /\ u[j] = Hash
          BY <1>1, <4>1 DEF Ended
        <4>3. L + j \in L + 1 .. L + M /\ (L + j) - L = j /\ i < L + j
          BY <1>1, <4>2
        <4>4. w[L + j] = u[j] /\ L + j \in 1 .. L + M
          BY <1>1, <1>2, <4>3
        <4>5. QED
          BY <4>2, <4>3, <4>4
      <3>3. QED
        BY <1>3, <3>1, <3>2
    <2>3. ASSUME w # <<>> PROVE w[L + M] # Escape
      <3>1. CASE u = <<>>
        <4>1. M = 0 /\ L \in 1 .. L /\ a # <<>>
          BY <1>1, <1>2, <2>3, <3>1 DEF L, M
        <4>2. w[L + M] = a[L]
          BY <1>1, <1>2, <4>1
        <4>3. QED
          BY <4>1, <4>2 DEF Ended, L
      <3>2. CASE u # <<>>
        <4>1. L + M \in L + 1 .. L + M /\ (L + M) - L = M
          BY <1>1, <3>2 DEF M
        <4>2. w[L + M] = u[M]
          BY <1>2, <4>1
        <4>3. QED
          BY <3>2, <4>2 DEF Ended, M
      <3>3. QED
        BY <3>1, <3>2
    <2>4. QED
      BY <1>2, <2>1, <2>2, <2>3 DEF Ended
  <1>12. QED
    BY <1>2, <1>7, <1>8, <1>9, <1>10, <1>11 DEF Piece, w


\* A packet, with its checksum right or spoilt.
LEMMA PacketIsPiece ==
    ASSUME NEW past, NEW body \in Seq(Byte), body # <<>>, body[Len(body)] # Escape,
           \A i \in DOMAIN body : body[i] \notin {Dollar, Hash},
           NEW u \in Seq(Byte), Len(u) = Len(body) + 4, u[1] = Dollar, u[Len(body) + 2] = Hash,
           u[Len(body) + 3] \in Digits, u[Len(body) + 4] \in Digits,
           \A i \in 1 .. Len(body) : u[i + 1] = body[i],
           checksum(body) = SumOf(u) => SentBody(body, past)
    PROVE  Piece(u, past) /\ Ended(u) /\ Started(u)
  <1> DEFINE n == Len(body)
  <1>1. n \in Nat \ {0} /\ DOMAIN body = 1 .. n /\ DOMAIN u = 1 .. n + 4 /\ Len(u) = n + 4
    OBVIOUS
  <1>2. u[n + 3] \notin {Dollar, Hash, Escape} /\ u[n + 4] \notin {Dollar, Hash, Escape}
    BY DigitIsPlain
  <1>3. Dollar # Hash /\ Dollar # Escape
    BY DEF Dollar, Hash, Escape
  <1> HIDE DEF n
  <1>4. ASSUME NEW i \in 2 .. n + 1 PROVE u[i] = body[i - 1] /\ i - 1 \in 1 .. n
    <2>1. i - 1 \in 1 .. n /\ (i - 1) + 1 = i
      BY <1>1
    <2>2. QED
      BY <2>1 DEF n
  <1>5. \A i \in 2 .. n + 1 : u[i] \notin {Dollar, Hash}
    BY <1>1, <1>4
  <1>6. ASSUME NEW i \in 1 .. n + 4
        PROVE  (u[i] = Dollar <=> i = 1) /\ (u[i] = Hash <=> i = n + 2)
    <2>1. i = 1 \/ i \in 2 .. n + 1 \/ i = n + 2 \/ i = n + 3 \/ i = n + 4
      BY <1>1
    <2>2. u[1] = Dollar /\ u[n + 2] = Hash
      BY DEF n
    <2>3. QED
      BY <1>1, <1>2, <1>3, <1>5, <2>1, <2>2
  <1>7. Alternate(u)
    BY <1>1, <1>6 DEF Alternate
  <1>8. SumsFollow(u)
    <2>1. SUFFICES ASSUME NEW i \in 1 .. n + 4, NEW j \in 1 .. n + 4, u[i] = Hash, i < j, j <= i + 2
                   PROVE  u[j] \in Digits
      BY <1>1 DEF SumsFollow
    <2>2. j = n + 3 \/ j = n + 4
      BY <1>1, <1>6, <2>1
    <2>3. QED
      BY <2>2 DEF n
  <1>9. Framed(u)
    <2>1. SUFFICES ASSUME NEW i \in 1 .. n + 4, i > 1, u[i] \in {Dollar, Hash} PROVE u[i - 1] # Escape
      BY <1>1 DEF Framed
    <2>2. i = n + 2 /\ i - 1 = n + 1 /\ n + 1 \in 2 .. n + 1 /\ (n + 1) - 1 = n
      BY <1>1, <1>6, <2>1
    <2>3. u[i - 1] = body[n]
      BY <1>4, <2>2
    <2>4. QED
      BY <2>3 DEF n
  <1>10. Packets(u, past)
    <2>1. SUFFICES ASSUME NEW i \in 1 .. n + 4, NEW j \in 1 .. n + 4, PacketAt(u, i, j)
                   PROVE  Genuine(u, i, j, past)
      BY <1>1 DEF Packets
    <2>2. i = 1 /\ j = n + 2 /\ i + 1 = 2 /\ j - 1 = n + 1 /\ j + 2 = n + 4
      BY <1>1, <1>6, <2>1 DEF PacketAt
    <2>3. SubSeq(u, 1, n + 4) = u
      BY <1>1, SubSeqFull
    <2>4. SubSeq(u, 2, n + 1) = body
      <3>1. \A l \in 2 .. n + 1 : u[l] \in Byte
        BY <1>1, ElementOfSeq
      <3>2. /\ SubSeq(u, 2, n + 1) \in Seq(Byte) /\ Len(SubSeq(u, 2, n + 1)) = n
            /\ \A l \in 1 .. (n + 1) - 2 + 1 : SubSeq(u, 2, n + 1)[l] = u[2 + l - 1]
        BY <1>1, <3>1, SubSeqProperties
      <3>3. ASSUME NEW l \in 1 .. n PROVE SubSeq(u, 2, n + 1)[l] = body[l]
        <4>1. l \in 1 .. (n + 1) - 2 + 1 /\ 2 + l - 1 = l + 1
          BY <1>1
        <4>2. SubSeq(u, 2, n + 1)[l] = u[l + 1]
          BY <3>2, <4>1
        <4>3. QED
          BY <4>2 DEF n
      <3>4. QED
        BY <3>2, <3>3, SeqEqual DEF n
    <2>5. SubSeq(u, i + 1, j - 1) = body /\ SubSeq(u, i, j + 2) = u /\ i + 1 < j
      BY <1>1, <2>2, <2>3, <2>4
    <2>6. QED
      BY <2>5 DEF Genuine
  <1>11. Piece(u, past)
    BY <1>7, <1>8, <1>9, <1>10 DEF Piece
  <1>12. Ended(u)
    <2>1. ASSUME NEW i \in 1 .. n + 4, u[i] = Hash PROVE i + 2 <= n + 4
      BY <1>1, <1>6, <2>1
    <2>2. ASSUME NEW i \in 1 .. n + 4, u[i] = Dollar PROVE \E j \in 1 .. n + 4 : i < j /\ u[j] = Hash
      <3>1. n + 2 \in 1 .. n + 4 /\ i < n + 2 /\ u[n + 2] = Hash
        BY <1>1, <1>6, <2>2
      <3>2. QED
        BY <3>1
    <2>3. u[n + 4] # Escape
      BY <1>2
    <2>4. QED
      BY <1>1, <2>1, <2>2, <2>3 DEF Ended
  <1>13. Started(u)
    <2>1. SUFFICES ASSUME NEW j \in 1 .. n + 4, u[j] = Hash PROVE \E i \in 1 .. j - 1 : u[i] = Dollar
      BY <1>1 DEF Started
    <2>2. 1 \in 1 .. j - 1 /\ u[1] = Dollar
      BY <1>1, <1>6, <2>1
    <2>3. QED
      BY <2>2
  <1>14. QED
    BY <1>11, <1>12, <1>13

\* An acknowledgement or an interrupt.
LEMMA ByteIsPiece ==
    ASSUME NEW past, NEW c \in Byte, c \notin {Dollar, Hash, Escape}
    PROVE  Piece(<<c>>, past) /\ Ended(<<c>>) /\ Started(<<c>>)
  <1> DEFINE u == <<c>>
  <1>1. u \in Seq(Byte) /\ DOMAIN u = {1} /\ Len(u) = 1 /\ u[1] = c /\ u # <<>>
    OBVIOUS
  <1> HIDE DEF u
  <1>2. Alternate(u) /\ SumsFollow(u) /\ Framed(u)
    BY <1>1 DEF Alternate, SumsFollow, Framed
  <1>3. Packets(u, past)
    BY <1>1 DEF Packets, PacketAt
  <1>4. Ended(u) /\ Started(u)
    BY <1>1 DEF Ended, Started
  <1>5. Piece(u, past)
    BY <1>1, <1>2, <1>3 DEF Piece
  <1>6. QED
    BY <1>4, <1>5 DEF u

\* More packets sent take nothing away from those sent before.
LEMMA SentBefore ==
    ASSUME NEW S, NEW past \in Seq(S), NEW what \in S
    PROVE  ToSet(Append(past, what)) = ToSet(past) \cup {what}
  <1> DEFINE s == Append(past, what)
  <1>1. /\ Len(past) \in Nat /\ DOMAIN past = 1 .. Len(past) /\ DOMAIN s = 1 .. Len(past) + 1
        /\ \A i \in 1 .. Len(past) : s[i] = past[i]
        /\ s[Len(past) + 1] = what
    OBVIOUS
  <1> HIDE DEF s
  <1>2. \A i \in 1 .. Len(past) + 1 : i \in 1 .. Len(past) \/ i = Len(past) + 1
    BY <1>1
  <1>3. ToSet(s) = ToSet(past) \cup {what}
    BY <1>1, <1>2 DEF ToSet
  <1>4. QED
    BY <1>3 DEF s

\* A piece of what was sent is one of what will have been sent.
LEMMA PieceOfMore ==
    ASSUME NEW S, NEW past \in Seq(S), NEW what \in S, NEW b, Piece(b, past)
    PROVE  Piece(b, Append(past, what))
  <1> DEFINE more == Append(past, what)
  <1>1. ToSet(past) \subseteq ToSet(more)
    BY SentBefore
  <1> HIDE DEF more
  <1>2. ASSUME NEW body, SentBody(body, past) PROVE SentBody(body, more)
    BY <1>1, <1>2 DEF SentBody
  <1>3. ASSUME NEW i, NEW j, Genuine(b, i, j, past) PROVE Genuine(b, i, j, more)
    BY <1>2, <1>3 DEF Genuine
  <1>4. Piece(b, more)
    BY <1>3 DEF Piece, Packets
  <1>5. QED
    BY <1>4 DEF more

-----------------------------------------------------------------------------
(* Cutting a read into messages.                                           *)

Messages   == [bytes : Seq(Byte), list : BOOLEAN]
ScanStates == [skip : 0 .. 3, raised : BOOLEAN, message : Seq(Byte), list : BOOLEAN, messages : Seq(Messages)]

\* The start of a packet comes behind something that is not an acknowledgement.
Jumbled(b) == \E i, j \in DOMAIN b : i < j /\ b[i] \notin Acks /\ b[j] = Dollar

\* A message that is acted on was sent, and one that raises comes from a jumble.
MessageOk(b, m, past) ==
    /\ Verdict(m) = "good" => SentBody(Contents(m.bytes), past)
    /\ Verdict(m) = "raise" => Jumbled(b)

\* What the loop has after i bytes: the message is the last bytes in a row, no
\* whole packet is among them, and behind a whole packet there was a '#'.
Scanned(b, s, i, past) ==
    LET n == Len(s.message)
    IN  /\ n <= i
        /\ s.message = SubSeq(b, i - n + 1, i)
        /\ s.message # <<>> => s.message[1] \notin Acks
        /\ s.skip > 0 => s.message = <<>>
        /\ s.list => \E j \in 1 .. i : b[j] = Hash
        /\ \A j \in i - n + 1 .. i : j > 1 /\ b[j] = Hash => j + 2 > Len(b)
        /\ \A m \in ToSet(s.messages) : MessageOk(b, m, past)
ScanInv(b, s, i, past) == IF s.raised THEN Jumbled(b) ELSE Scanned(b, s, i, past)

\* The branches of the loop: t follows s.
Skips(s, t) == s.skip > 0 /\ t = [s EXCEPT !.skip = @ - 1]
Ignores(b, s, i, t) == s.skip = 0 /\ (s.raised \/ (b[i] \in Acks /\ s.message = <<>>)) /\ t = s
Drops(b, s, i, t) ==
    /\ s.skip = 0 /\ ~s.raised /\ b[i] = Dollar /\ s.message # <<>>
    /\ t = [s EXCEPT !.messages = Append(@, [bytes |-> s.message, list |-> s.list]),
                     !.message = <<>>, !.list = FALSE]
Fails(b, s, i, t) ==
    /\ s.skip = 0 /\ ~s.raised /\ b[i] = Hash /\ s.list
    /\ t = [s EXCEPT !.raised = TRUE]
Takes(b, s, i, t) ==
    /\ s.skip = 0 /\ ~s.raised /\ b[i] = Hash /\ i + 2 <= Len(b)
    /\ t = [s EXCEPT !.messages = Append(@, [bytes |-> s.message \o SubSeq(b, i, i + 2), list |-> FALSE]),
                     !.message = <<>>, !.list = TRUE, !.skip = 3]
Gathers(b, s, i, t) ==
    /\ s.skip = 0 /\ ~s.raised
    /\ s.message = <<>> => b[i] \notin Acks
    /\ b[i] = Hash /\ i > 1 /\ b[i - 1] # Escape => i + 2 > Len(b)
    /\ t = [s EXCEPT !.message = Append(@, b[i])]
Branches(b, s, i, t) ==
    \/ Skips(s, t) \/ Ignores(b, s, i, t) \/ Drops(b, s, i, t)
    \/ Fails(b, s, i, t) \/ Takes(b, s, i, t) \/ Gathers(b, s, i, t)

\* Each byte takes one of the branches.
LEMMA ScanBranches ==
    ASSUME NEW b \in Seq(Byte), NEW s \in ScanStates, NEW i \in 1 .. Len(b)
    PROVE  Branches(b, s, i, ScanByte(b, s, i))
  <1> DEFINE t == ScanByte(b, s, i)
             unescaped == i > 1 /\ b[i - 1] # Escape
  <1>1. s.skip \in 0 .. 3 /\ Len(b) \in Nat
    BY DEF ScanStates
  <1>2. CASE s.skip > 0
    <2>1. t = [s EXCEPT !.skip = @ - 1]
      BY <1>2 DEF ScanByte
    <2>2. QED
      BY <1>2, <2>1 DEF Branches, Skips
  <1>3. CASE s.skip = 0 /\ (s.raised \/ (b[i] \in Acks /\ s.message = <<>>))
    <2>1. t = s
      BY <1>3 DEF ScanByte
    <2>2. QED
      BY <1>3, <2>1 DEF Branches, Ignores
  <1>4. CASE s.skip = 0 /\ ~(s.raised \/ (b[i] \in Acks /\ s.message = <<>>))
    <2>1. CASE b[i] = Dollar /\ s.message # <<>> /\ unescaped
      <3>1. t = [s EXCEPT !.messages = Append(@, [bytes |-> s.message, list |-> s.list]),
                          !.message = <<>>, !.list = FALSE]
        BY <1>4, <2>1 DEF ScanByte
      <3>2. QED
        BY <1>4, <2>1, <3>1, Zenon DEF Branches, Drops
    <2>2. CASE ~(b[i] = Dollar /\ s.message # <<>> /\ unescaped)
      <3>1. CASE b[i] = Hash /\ unescaped /\ i + 2 <= Len(b) /\ s.list
        <4>1. t = [s EXCEPT !.raised = TRUE]
          BY <1>4, <2>2, <3>1 DEF ScanByte
        <4>2. QED
          BY <1>4, <3>1, <4>1 DEF Branches, Fails
      <3>2. CASE b[i] = Hash /\ unescaped /\ i + 2 <= Len(b) /\ ~s.list
        <4>1. t = [s EXCEPT !.messages = Append(@, [bytes |-> s.message \o SubSeq(b, i, i + 2), list |-> FALSE]),
                            !.message = <<>>, !.list = TRUE, !.skip = 3]
          BY <1>4, <2>2, <3>2 DEF ScanByte
        <4>2. QED
          BY <1>4, <3>2, <4>1, Zenon DEF Branches, Takes
      <3>3. CASE ~(b[i] = Hash /\ unescaped /\ i + 2 <= Len(b))
        <4>1. t = [s EXCEPT !.message = Append(@, b[i])]
          BY <1>4, <2>2, <3>3 DEF ScanByte
        <4>2. Gathers(b, s, i, t)
          BY <1>1, <1>4, <3>3, <4>1 DEF Gathers
        <4>3. QED
          BY <4>2 DEF Branches
      <3>4. QED
        BY <3>1, <3>2, <3>3
    <2>3. QED
      BY <2>1, <2>2
  <1>5. QED
    BY <1>1, <1>2, <1>3, <1>4

\* The same types, over the bytes B.
MessagesOf(B)   == [bytes : Seq(B), list : BOOLEAN]
ScanStatesOf(B) ==
    [skip : 0 .. 3, raised : BOOLEAN, message : Seq(B), list : BOOLEAN, messages : Seq(MessagesOf(B))]

\* The loop makes messages out of no other bytes than those that it reads.
LEMMA ScanByteOf ==
    ASSUME NEW B \in SUBSET Byte, NEW b \in Seq(B), NEW s \in ScanStatesOf(B), NEW i \in 1 .. Len(b)
    PROVE  ScanByte(b, s, i) \in ScanStatesOf(B)
  <1> DEFINE t == ScanByte(b, s, i)
  <1>0. b \in Seq(Byte) /\ s \in ScanStates
    <2>1. MessagesOf(B) \subseteq Messages
      BY DEF MessagesOf, Messages
    <2>2. s.message \in Seq(Byte) /\ s.messages \in Seq(Messages)
      <3>1. s.message \in Seq(B) /\ s.messages \in Seq(MessagesOf(B))
        BY DEF ScanStatesOf
      <3>2. QED
        BY <2>1, <3>1
    <2>3. QED
      BY <2>2 DEF ScanStatesOf, ScanStates
  <1>1. Branches(b, s, i, t)
    BY <1>0, ScanBranches
  <1>s. SUFFICES t \in ScanStatesOf(B)
    OBVIOUS
  <1> HIDE DEF t
  <1>2. b[i] \in B /\ Append(s.message, b[i]) \in Seq(B)
    BY DEF ScanStatesOf
  <1>3. [bytes |-> s.message, list |-> s.list] \in MessagesOf(B) /\ <<>> \in Seq(B)
    BY DEF ScanStatesOf, MessagesOf
  <1>4. CASE Skips(s, t)
    BY <1>4 DEF Skips, ScanStatesOf
  <1>5. CASE Ignores(b, s, i, t)
    BY <1>5 DEF Ignores
  <1>6. CASE Drops(b, s, i, t)
    <2> DEFINE all == Append(s.messages, [bytes |-> s.message, list |-> s.list])
    <2>1. all \in Seq(MessagesOf(B))
      BY <1>3 DEF ScanStatesOf
    <2>2. t = [s EXCEPT !.messages = all, !.message = <<>>, !.list = FALSE]
      BY <1>6 DEF Drops
    <2> HIDE DEF all
    <2>3. QED
      BY <1>3, <2>1, <2>2 DEF ScanStatesOf
  <1>7. CASE Fails(b, s, i, t)
    BY <1>7 DEF Fails, ScanStatesOf
  <1>8. CASE Takes(b, s, i, t)
    <2>1. \A j \in i .. i + 2 : b[j] \in B
      BY <1>8, ElementOfSeq DEF Takes
    <2>2. SubSeq(b, i, i + 2) \in Seq(B)
      BY <2>1, SubSeqProperties
    <2>3. s.message \o SubSeq(b, i, i + 2) \in Seq(B)
      BY <2>2 DEF ScanStatesOf
    <2>4. [bytes |-> s.message \o SubSeq(b, i, i + 2), list |-> FALSE] \in MessagesOf(B)
      BY <2>3 DEF MessagesOf
    <2> DEFINE all == Append(s.messages, [bytes |-> s.message \o SubSeq(b, i, i + 2), list |-> FALSE])
    <2>5. all \in Seq(MessagesOf(B))
      BY <2>4 DEF ScanStatesOf
    <2>6. t = [s EXCEPT !.messages = all, !.message = <<>>, !.list = TRUE, !.skip = 3]
      BY <1>8 DEF Takes
    <2> HIDE DEF all
    <2>7. t = [skip |-> 3, raised |-> s.raised, message |-> <<>>, list |-> TRUE, messages |-> all]
      BY <2>6 DEF ScanStatesOf
    <2>8. s.raised \in BOOLEAN
      BY DEF ScanStatesOf
    <2>9. QED
      BY <1>3, <2>5, <2>7, <2>8 DEF ScanStatesOf
  <1>9. CASE Gathers(b, s, i, t)
    BY <1>2, <1>9 DEF Gathers, ScanStatesOf
  <1>10. QED
    BY <1>1, <1>4, <1>5, <1>6, <1>7, <1>8, <1>9 DEF Branches

\* The loop keeps the type of its state.
LEMMA ScanByteType ==
    ASSUME NEW b \in Seq(Byte), NEW s \in ScanStates, NEW i \in 1 .. Len(b)
    PROVE  ScanByte(b, s, i) \in ScanStates
  <1>1. ScanStates = ScanStatesOf(Byte)
    BY Zenon DEF ScanStates, ScanStatesOf, Messages, MessagesOf
  <1>2. Byte \in SUBSET Byte
    OBVIOUS
  <1>3. QED
    BY <1>1, <1>2, ScanByteOf

\* The sequence of an empty message, and of a message that grows by a byte.
LEMMA EmptyPart == ASSUME NEW b \in Seq(Byte), NEW i \in 0 .. Len(b) PROVE SubSeq(b, i + 1, i) = <<>>
  BY SubSeqEmpty

\* A message grows by the byte that the loop has come to.
LEMMA GrowingPart ==
    ASSUME NEW b \in Seq(Byte), NEW i \in 1 .. Len(b), NEW m \in 1 .. i
    PROVE  Append(SubSeq(b, m, i - 1), b[i]) = SubSeq(b, m, i)
  <1>1. i \in m .. Len(b) /\ m \in 1 .. Len(b)
    OBVIOUS
  <1>2. SubSeq(b, m, i) = SubSeq(b, m, i - 1) \o <<b[i]>>
    BY <1>1, SubSeqRecursiveSecond
  <1>3. \A j \in m .. i - 1 : b[j] \in Byte
    BY ElementOfSeq
  <1>4. SubSeq(b, m, i - 1) \in Seq(Byte) /\ b[i] \in Byte
    BY <1>3, SubSeqProperties, ElementOfSeq
  <1>5. QED
    BY <1>2, <1>4, AppendIsConcat

\* The bytes of a part.
LEMMA PartBytes ==
    ASSUME NEW b \in Seq(Byte), NEW m \in 1 .. Len(b) + 1, NEW n \in m - 1 .. Len(b)
    PROVE  /\ SubSeq(b, m, n) \in Seq(Byte) /\ Len(SubSeq(b, m, n)) = n - m + 1
           /\ DOMAIN SubSeq(b, m, n) = 1 .. n - m + 1
           /\ \A i \in 1 .. n - m + 1 : SubSeq(b, m, n)[i] = b[m + i - 1] /\ m + i - 1 \in DOMAIN b
  <1>1. \A i \in m .. n : b[i] \in Byte
    BY ElementOfSeq
  <1>2. /\ SubSeq(b, m, n) \in Seq(Byte) /\ Len(SubSeq(b, m, n)) = n - m + 1
        /\ \A i \in 1 .. n - m + 1 : SubSeq(b, m, n)[i] = b[m + i - 1]
    BY <1>1, SubSeqProperties
  <1>3. \A i \in 1 .. n - m + 1 : m + i - 1 \in DOMAIN b
    OBVIOUS
  <1>4. QED
    BY <1>2, <1>3

\* A message that a '#' completes.
LEMMA WholeMessage ==
    ASSUME NEW past, NEW b, Piece(b, past), NEW i \in 1 .. Len(b), NEW k \in 1 .. i, b[i] = Hash, i + 2 <= Len(b),
           \A j \in k .. i - 1 : j > 1 /\ b[j] = Hash => j + 2 > Len(b)
    PROVE  LET m == [bytes |-> SubSeq(b, k, i + 2), list |-> FALSE]
           IN  Verdict(m) # "raise" /\ (Verdict(m) = "good" => SentBody(Contents(m.bytes), past))
  <1> DEFINE x == SubSeq(b, k, i + 2)
             n == i - k + 3
             m == [bytes |-> x, list |-> FALSE]
  <1>1. b \in Seq(Byte) /\ Len(b) \in Nat /\ DOMAIN b = 1 .. Len(b)
    BY DEF Piece
  <1>2. x \in Seq(Byte) /\ Len(x) = n /\ n \in Nat /\ n > 2 /\ \A j \in 1 .. n : x[j] = b[k + j - 1]
    BY <1>1, PartBytes
  <1>3. x[1] = b[k] /\ x[n] = b[i + 2] /\ x[n - 1] = b[i + 1]
    <2>1. 1 \in 1 .. n /\ n \in 1 .. n /\ n - 1 \in 1 .. n
      BY <1>2
    <2>2. k + 1 - 1 = k /\ k + n - 1 = i + 2 /\ k + (n - 1) - 1 = i + 1
      OBVIOUS
    <2> HIDE DEF x, n
    <2>3. QED
      BY <1>2, <2>1, <2>2
  <1>4. b[i + 1] \in Digits /\ b[i + 2] \in Digits
    BY <1>1 DEF Piece, SumsFollow
  <1>5. x # <<Interrupt>>
    <2>1. Len(<<Interrupt>>) = 1
      OBVIOUS
    <2>2. Len(x) # 1
      BY <1>2
    <2> HIDE DEF x
    <2>3. QED
      BY <2>1, <2>2, Zenon
  <1> HIDE DEF x
  <1>6. Numeral(x)
    BY <1>2, <1>3, <1>4 DEF Numeral
  <1>a. m.bytes = x /\ m.list = FALSE
    OBVIOUS
  <1> HIDE DEF m
  <1>7. CASE b[k] # Dollar
    <2>1. Verdict(m) = "bad"
      BY <1>3, <1>5, <1>6, <1>7, <1>a DEF Verdict
    <2>2. QED
      BY <2>1 DEF m, x
  <1>8. CASE b[k] = Dollar
    <2>1. k < i
      BY <1>8 DEF Dollar, Hash
    <2>2. ASSUME NEW l \in k + 1 .. i - 1 PROVE b[l] # Hash
      BY <1>1, <2>1
    <2>3. PacketAt(b, k, i)
      BY <1>8, <2>1, <2>2 DEF PacketAt
    <2>4. Genuine(b, k, i, past)
      BY <1>1, <2>3 DEF Piece, Packets
    <2>5. Contents(x) = SubSeq(b, k + 1, i - 1)
      <3>1. Contents(x) = SubSeq(x, 2, n - 3)
        BY <1>2 DEF Contents
      <3>2. SubSeq(x, 2, n - 3) = SubSeq(b, k + 2 - 1, k + (n - 3) - 1)
        <4>1. i + 2 \in k - 1 .. Len(b) /\ k \in 1 .. Len(b) + 1 /\ n - 3 <= (i + 2) - k + 1 /\ n - 3 \in Int
          BY <1>1
        <4> HIDE DEF n
        <4>2. QED
          BY <1>1, <4>1, PartOfPart DEF x
      <3>3. k + 2 - 1 = k + 1 /\ k + (n - 3) - 1 = i - 1
        OBVIOUS
      <3> HIDE DEF n
      <3>4. QED
        BY <3>1, <3>2, <3>3
    <2>6. Contents(x) # <<>>
      <3>1. k + 1 <= i - 1
        BY <2>4 DEF Genuine
      <3>2. Len(SubSeq(b, k + 1, i - 1)) = (i - 1) - (k + 1) + 1
        BY <1>1, <3>1, PartBytes
      <3>3. QED
        BY <2>5, <3>1, <3>2
    <2>7. checksum(Contents(x)) = SumOf(x) => SentBody(Contents(x), past)
      BY <2>4, <2>5 DEF Genuine, x
    <2>8. Verdict(m) # "raise" /\ (Verdict(m) = "good" => SentBody(Contents(m.bytes), past))
      BY <1>5, <1>6, <1>a, <2>6, <2>7 DEF Verdict
    <2>9. QED
      BY <2>8 DEF m, x
  <1>9. QED
    BY <1>7, <1>8


\* The loop keeps what Scanned says.
LEMMA ScanStep ==
    ASSUME NEW past, NEW b, Piece(b, past), NEW s \in ScanStates, NEW i \in 1 .. Len(b),
           ScanInv(b, s, i - 1, past)
    PROVE  ScanInv(b, ScanByte(b, s, i), i, past)
  <1> DEFINE t == ScanByte(b, s, i)
             n == Len(s.message)
             k == i - n
  <1>1. b \in Seq(Byte) /\ Len(b) \in Nat /\ DOMAIN b = 1 .. Len(b)
    BY DEF Piece
  <1>2. Branches(b, s, i, t)
    BY <1>1, ScanBranches
  <1>3. SUFFICES ScanInv(b, t, i, past)
    OBVIOUS
  <1>4. n \in Nat /\ s.message \in Seq(Byte) /\ s.messages \in Seq(Messages) /\ (s.message = <<>> <=> n = 0)
    BY DEF ScanStates
  <1> HIDE DEF t
  <1>5. ASSUME s.raised PROVE ScanInv(b, t, i, past)
    <2>1. Jumbled(b) /\ (Skips(s, t) \/ t = s)
      BY <1>2, <1>5 DEF ScanInv, Branches, Ignores, Drops, Fails, Takes, Gathers
    <2>2. t.raised
      BY <1>5, <2>1 DEF Skips, ScanStates
    <2>3. QED
      BY <2>1, <2>2 DEF ScanInv
  <1>6. ASSUME ~s.raised
        PROVE  ScanInv(b, t, i, past)
    <2>1. Scanned(b, s, i - 1, past)
      BY <1>6 DEF ScanInv
    <2>2. /\ k \in 1 .. i /\ s.message = SubSeq(b, k, i - 1) /\ (i - 1) - n + 1 = k
          /\ \A j \in k .. i - 1 : j > 1 /\ b[j] = Hash => j + 2 > Len(b)
      <3>1. n <= i - 1 /\ (i - 1) - n + 1 = k
        BY <1>4, <2>1 DEF Scanned
      <3>2. s.message = SubSeq(b, (i - 1) - n + 1, i - 1)
            /\ \A j \in (i - 1) - n + 1 .. i - 1 : j > 1 /\ b[j] = Hash => j + 2 > Len(b)
        BY <2>1 DEF Scanned
      <3>3. QED
        BY <1>4, <3>1, <3>2
    <2>3. \A m \in ToSet(s.messages) : MessageOk(b, m, past)
      BY <2>1 DEF Scanned
    <2>4. (s.list => \E j \in 1 .. i - 1 : b[j] = Hash) /\ (s.message # <<>> => s.message[1] \notin Acks)
      BY <2>1 DEF Scanned
    <2>5. s.message # <<>> => s.message[1] = b[k] /\ k < i
      <3>1. k \in 1 .. Len(b) + 1 /\ i - 1 \in k - 1 .. Len(b)
        BY <1>1, <1>4, <2>2
      <3>2. \A j \in 1 .. (i - 1) - k + 1 : SubSeq(b, k, i - 1)[j] = b[k + j - 1]
        BY <1>1, <3>1, PartBytes
      <3>3. s.message # <<>> => 1 \in 1 .. (i - 1) - k + 1 /\ k + 1 - 1 = k /\ k < i
        BY <1>4, <2>2
      <3> HIDE DEF k, n
      <3>4. QED
        BY <2>2, <3>2, <3>3
    <2> HIDE DEF k, n
    \* A state with an empty message.
    <2>6. ASSUME ~t.raised, t.message = <<>>, t.list => \E j \in 1 .. i : b[j] = Hash,
                 \A m \in ToSet(t.messages) : MessageOk(b, m, past)
          PROVE  ScanInv(b, t, i, past)
      <3>1. Len(t.message) = 0 /\ i - 0 + 1 = i + 1
        BY <2>6
      <3>2. t.message = SubSeq(b, i - 0 + 1, i)
        BY <1>1, <2>6, <3>1, EmptyPart
      <3>3. \A j \in i - 0 + 1 .. i : j > 1 /\ b[j] = Hash => j + 2 > Len(b)
        BY <3>1
      <3>4. Scanned(b, t, i, past)
        BY <2>6, <3>1, <3>2, <3>3 DEF Scanned
      <3>5. QED
        BY <2>6, <3>4 DEF ScanInv
    <2>7. (\E j \in 1 .. i - 1 : b[j] = Hash) => \E j \in 1 .. i : b[j] = Hash
      OBVIOUS
    <2>8. CASE Skips(s, t)
      <3>1. /\ ~t.raised /\ t.message = s.message /\ t.list = s.list /\ t.messages = s.messages
        BY <1>6, <2>8 DEF Skips, ScanStates
      <3>2. s.message = <<>>
        BY <2>1, <2>8 DEF Skips, Scanned
      <3>3. QED
        BY <2>3, <2>4, <2>6, <2>7, <3>1, <3>2
    <2>9. CASE Ignores(b, s, i, t)
      <3>1. t = s /\ s.message = <<>>
        BY <1>6, <2>9 DEF Ignores
      <3>2. QED
        BY <1>6, <2>3, <2>4, <2>6, <2>7, <3>1
    <2>10. CASE Drops(b, s, i, t)
      <3> DEFINE m == [bytes |-> s.message, list |-> s.list]
      <3>1. /\ b[i] = Dollar /\ s.message # <<>> /\ ~t.raised /\ t.message = <<>> /\ t.list = FALSE
            /\ t.messages = Append(s.messages, m)
        BY <1>6, <2>10 DEF Drops, ScanStates
      <3>2. Jumbled(b)
        BY <1>1, <2>2, <2>4, <2>5, <3>1 DEF Jumbled
      <3>3. s.message[1] # Dollar
        <4>1. SUFFICES ASSUME b[k] = Dollar PROVE FALSE
          BY <2>5, <3>1
        <4>2. Dollar # Hash
          BY DEF Dollar, Hash
        <4>a. k \in DOMAIN b /\ i \in DOMAIN b /\ k < i /\ b[k] = b[i] /\ b[k] \in {Dollar, Hash}
          BY <1>1, <2>2, <2>5, <3>1, <4>1
        <4>b. \E l \in k + 1 .. i - 1 : b[l] \in {Dollar, Hash} \ {b[k]}
          BY <4>a DEF Piece, Alternate
        <4>3. PICK l \in k + 1 .. i - 1 : b[l] = Hash
          BY <4>1, <4>b
        <4>4. l + 2 > Len(b)
          BY <2>2, <4>3
        <4>5. i = l + 1
          BY <1>1, <2>2, <4>3, <4>4
        <4>6. b[i] \in Digits
          BY <1>1, <2>2, <4>3, <4>5 DEF Piece, SumsFollow
        <4>7. QED
          BY <3>1, <4>6, DigitIsPlain
      <3>4. Verdict(m) # "good"
        <4>1. m.bytes = s.message
          OBVIOUS
        <4> HIDE DEF m
        <4>2. QED
          BY <3>3, <4>1 DEF Verdict
      <3>5. MessageOk(b, m, past)
        BY <3>2, <3>4 DEF MessageOk
      <3>6. m \in Messages
        BY <1>4 DEF Messages, ScanStates
      <3>7. ToSet(t.messages) = ToSet(s.messages) \cup {m}
        BY <1>4, <3>1, <3>6, SentBefore
      <3>8. QED
        BY <2>3, <2>6, <3>1, <3>5, <3>7
    <2>11. CASE Fails(b, s, i, t)
      <3>1. PICK j \in 1 .. i - 1 : b[j] = Hash
        BY <2>4, <2>11 DEF Fails
      <3>2. b[i] = Hash /\ t.raised
        BY <2>11 DEF Fails, ScanStates
      <3>3. PICK l \in j + 1 .. i - 1 : b[l] = Dollar
        BY <1>1, <3>1, <3>2 DEF Piece, Alternate
      <3>4. Hash \notin Acks
        BY DEF Hash, Acks, Ack, BadAck
      <3>5. Jumbled(b)
        BY <1>1, <3>1, <3>3, <3>4 DEF Jumbled
      <3>6. QED
        BY <3>2, <3>5 DEF ScanInv
    <2>12. CASE Takes(b, s, i, t)
      <3> DEFINE m == [bytes |-> s.message \o SubSeq(b, i, i + 2), list |-> FALSE]
      <3>1. b[i] = Hash /\ i + 2 <= Len(b) /\ ~t.raised /\ t.message = <<>> /\ t.messages = Append(s.messages, m)
        BY <1>6, <2>12 DEF Takes, ScanStates
      <3>2. s.message \o SubSeq(b, i, i + 2) = SubSeq(b, k, i + 2)
        <4>1. k \in 1 .. Len(b) + 1 /\ i - 1 \in k - 1 .. Len(b) /\ i + 2 \in i - 1 .. Len(b) /\ (i - 1) + 1 = i
          BY <1>1, <2>2, <3>1
        <4>2. SubSeq(b, k, i - 1) \o SubSeq(b, (i - 1) + 1, i + 2) = SubSeq(b, k, i + 2)
          BY <1>1, <4>1, ConcatAdjacentSubSeq
        <4>3. QED
          BY <2>2, <4>1, <4>2
      <3>3. MessageOk(b, m, past)
        <4>1. Verdict(m) # "raise" /\ (Verdict(m) = "good" => SentBody(Contents(m.bytes), past))
          BY <2>2, <3>1, <3>2, WholeMessage
        <4>2. QED
          BY <4>1 DEF MessageOk
      <3>4. m \in Messages
        <4>1. k \in 1 .. Len(b) + 1 /\ i + 2 \in k - 1 .. Len(b)
          BY <1>1, <2>2, <3>1
        <4>2. SubSeq(b, k, i + 2) \in Seq(Byte)
          BY <1>1, <4>1, PartBytes
        <4>3. QED
          BY <3>2, <4>2 DEF Messages
      <3> HIDE DEF m
      <3>5. ToSet(t.messages) = ToSet(s.messages) \cup {m}
        BY <1>4, <3>1, <3>4, SentBefore
      <3>6. \E j \in 1 .. i : b[j] = Hash
        BY <3>1
      <3>7. QED
        BY <2>3, <2>6, <3>1, <3>3, <3>5, <3>6
    <2>13. CASE Gathers(b, s, i, t)
      <3>1. /\ ~t.raised /\ t.message = Append(s.message, b[i]) /\ t.list = s.list /\ t.messages = s.messages
            /\ t.skip = 0
        BY <1>6, <2>13 DEF Gathers, ScanStates
      <3>2. b[i] \in Byte
        BY <1>1, ElementOfSeq
      <3>3. Len(t.message) = n + 1 /\ i - (n + 1) + 1 = k /\ n + 1 <= i
        BY <1>4, <2>2, <3>1, <3>2 DEF n, k
      <3>4. t.message = SubSeq(b, k, i)
        BY <1>1, <2>2, <3>1, GrowingPart
      <3>5. t.message[1] \notin Acks
        <4>1. CASE s.message = <<>>
          BY <2>13, <3>1, <4>1 DEF Gathers
        <4>2. CASE s.message # <<>>
          <5>1. t.message[1] = s.message[1]
            BY <1>4, <3>1, <3>2, <4>2
          <5>2. QED
            BY <2>4, <4>2, <5>1
        <4>3. QED
          BY <4>1, <4>2
      <3>6. ASSUME NEW j \in k .. i, j > 1, b[j] = Hash PROVE j + 2 > Len(b)
        <4>1. CASE j \in k .. i - 1
          BY <2>2, <3>6, <4>1
        <4>2. CASE j = i
          <5>1. b[i - 1] # Escape
            BY <1>1, <3>6, <4>2 DEF Piece, Framed
          <5>2. QED
            BY <2>13, <3>6, <4>2, <5>1 DEF Gathers
        <4>3. QED
          BY <2>2, <4>1, <4>2
      <3>7. Scanned(b, t, i, past)
        <4>1. Len(t.message) <= i /\ i - Len(t.message) + 1 = k
          BY <3>3
        <4>2. t.message = SubSeq(b, i - Len(t.message) + 1, i)
          BY <3>4, <4>1
        <4>3. \A j \in i - Len(t.message) + 1 .. i : j > 1 /\ b[j] = Hash => j + 2 > Len(b)
          BY <3>6, <4>1
        <4>4. (t.list => \E j \in 1 .. i : b[j] = Hash) /\ ~(t.skip > 0)
          BY <2>4, <2>7, <3>1
        <4>5. \A m \in ToSet(t.messages) : MessageOk(b, m, past)
          BY <2>3, <3>1
        <4>6. QED
          BY <3>5, <4>1, <4>2, <4>3, <4>4, <4>5 DEF Scanned
      <3>8. QED
        BY <3>1, <3>7 DEF ScanInv
    <2>14. QED
      BY <1>2, <2>8, <2>9, <2>10, <2>11, <2>12, <2>13 DEF Branches
  <1>7. QED
    BY <1>5, <1>6


\* The loop from its start on, and what it leaves.
ScanStart == [skip |-> 0, raised |-> FALSE, message |-> <<>>, list |-> FALSE, messages |-> <<>>]
ScanSound(b, s, past) ==
    /\ s \in ScanStates
    /\ s.raised => Jumbled(b)
    /\ ~s.raised => \A m \in ToSet(s.messages) : MessageOk(b, m, past)

\* The states that the loop has, byte by byte.
LEMMA ScanRuns ==
    ASSUME NEW b \in Seq(Byte)
    PROVE  \E f : Stepping(f, ScanStates, ScanStart, Len(b), ScanSteps(ScanStates, b), Scanning(ScanStart, b))
  <1>1. ScanStart \in ScanStates
    <2>1. <<>> \in Seq(Byte) /\ <<>> \in Seq(Messages)
      OBVIOUS
    <2>2. QED
      BY <2>1 DEF ScanStart, ScanStates
  <1>2. ScanSteps(ScanStates, b) \in [ScanStates \X (1 .. Len(b)) -> ScanStates]
    BY ScanByteType DEF ScanSteps
  <1>3. QED
    BY <1>1, <1>2, ScanFold

\* Each step is one byte.
LEMMA ScanSteppedByte ==
    ASSUME NEW b \in Seq(Byte), NEW f,
           Stepping(f, ScanStates, ScanStart, Len(b), ScanSteps(ScanStates, b), Scanning(ScanStart, b))
    PROVE  /\ f[0] = ScanStart /\ f[Len(b)] = Scanning(ScanStart, b)
           /\ \A i \in 0 .. Len(b) : f[i] \in ScanStates
           /\ \A i \in 1 .. Len(b) : f[i] = ScanByte(b, f[i - 1], i)
  <1>1. f[0] = ScanStart /\ f[Len(b)] = Scanning(ScanStart, b) /\ \A i \in 0 .. Len(b) : f[i] \in ScanStates
    BY DEF Stepping
  <1>2. ASSUME NEW i \in 1 .. Len(b) PROVE f[i] = ScanByte(b, f[i - 1], i)
    <2>1. f[i] = ScanSteps(ScanStates, b)[<<f[i - 1], i>>]
      BY DEF Stepping
    <2>2. f[i - 1] \in ScanStates
      BY <1>1
    <2>3. QED
      BY <2>1, <2>2 DEF ScanSteps
  <1>3. QED
    BY <1>1, <1>2

\* What is cut out of a read.
LEMMA ScanResult ==
    ASSUME NEW past, NEW b, Piece(b, past)
    PROVE  ScanSound(b, Scan(b), past)
  <1> DEFINE end == Scanning(ScanStart, b)
             N == Len(b)
  <1>1. b \in Seq(Byte) /\ N \in Nat
    BY DEF Piece
  <1>2. PICK f : Stepping(f, ScanStates, ScanStart, N, ScanSteps(ScanStates, b), end)
    BY <1>1, ScanRuns
  <1>3. /\ f[0] = ScanStart /\ f[N] = end
        /\ \A i \in 0 .. N : f[i] \in ScanStates
        /\ \A i \in 1 .. N : f[i] = ScanByte(b, f[i - 1], i)
    BY <1>1, <1>2, ScanSteppedByte
  <1> HIDE DEF end
  <1> DEFINE S == {i \in Nat : ScanInv(b, f[i], i, past)}
  <1>4. 0 \in S
    <2>1. /\ ScanStart.message = <<>> /\ ScanStart.skip = 0 /\ ~ScanStart.raised /\ ~ScanStart.list
          /\ ScanStart.messages = <<>>
      BY DEF ScanStart
    <2>2. Len(ScanStart.message) = 0 /\ 0 - 0 + 1 = 1
      BY <2>1
    <2>3. ScanStart.message = SubSeq(b, 1, 0)
      <3>1. 0 + 1 = 1 /\ 0 \in 0 .. Len(b)
        BY <1>1
      <3>2. SubSeq(b, 0 + 1, 0) = <<>>
        BY <1>1, <3>1, EmptyPart
      <3>3. QED
        BY <2>1, <3>1, <3>2
    <2>4. ToSet(ScanStart.messages) = {}
      BY <2>1 DEF ToSet
    <2>5. Scanned(b, ScanStart, 0, past)
      BY <2>1, <2>2, <2>3, <2>4 DEF Scanned
    <2>6. ScanInv(b, f[0], 0, past)
      BY <1>3, <2>1, <2>5 DEF ScanInv
    <2>7. QED
      BY <2>6
  <1>5. ASSUME NEW i \in 0 .. N - 1, i \in S PROVE i + 1 \in S
    <2>1. i + 1 \in 1 .. N /\ i \in 0 .. N /\ (i + 1) - 1 = i /\ i + 1 \in Nat
      BY <1>1
    <2>2. ScanInv(b, f[i], (i + 1) - 1, past)
      BY <1>5, <2>1
    <2>3. f[i] \in ScanStates /\ f[i + 1] = ScanByte(b, f[i], i + 1)
      BY <1>3, <2>1
    <2>4. ScanInv(b, ScanByte(b, f[i], i + 1), i + 1, past)
      BY <2>1, <2>2, <2>3, ScanStep
    <2>5. QED
      BY <2>1, <2>3, <2>4
  <1>6. N \in S
    <2> HIDE DEF S, N
    <2>1. N \in Nat /\ 0 \in S /\ \A n \in 0 .. N - 1 : n \in S => n + 1 \in S
      BY <1>1, <1>4, <1>5
    <2>2. \A n \in 0 .. N : n \in S
      BY <2>1, IntervalInduction
    <2>3. QED
      BY <2>1, <2>2
  <1>7. end \in ScanStates /\ ScanInv(b, end, N, past)
    BY <1>1, <1>3, <1>6
  <1>8. ScanSound(b, end, past)
    BY <1>7 DEF ScanSound, ScanInv, Scanned
  <1> DEFINE last == [bytes |-> end.message, list |-> FALSE]
             all == Append(end.messages, last)
             more == [end EXCEPT !.messages = all]
  <1>9. Scan(b) = IF end.message = <<Interrupt>> /\ ~end.list THEN more ELSE end
    BY Zenon DEF Scan, Scanning, ScanStart, end
  <1>10. ASSUME end.message = <<Interrupt>> PROVE ScanSound(b, more, past)
    <2>1. last \in Messages /\ end.messages \in Seq(Messages)
      BY <1>7 DEF ScanStates, Messages
    <2>2. last.bytes = <<Interrupt>> /\ last.list = FALSE
      BY <1>10
    <2> HIDE DEF last
    <2>3. Verdict(last) = "stop"
      BY <2>2 DEF Verdict
    <2>4. MessageOk(b, last, past)
      BY <2>3 DEF MessageOk
    <2>5. all \in Seq(Messages) /\ ToSet(all) = ToSet(end.messages) \cup {last}
      BY <2>1, SentBefore
    <2> HIDE DEF all
    <2>6. more \in ScanStates /\ more.messages = all /\ more.raised = end.raised
      BY <1>7, <2>5 DEF ScanStates
    <2>7. QED
      BY <1>8, <2>4, <2>5, <2>6 DEF ScanSound
  <1>11. QED
    BY <1>8, <1>9, <1>10

\* No message is an interrupt if no byte is one.
LEMMA QuietScan ==
    ASSUME NEW b \in Seq(Byte), Interrupt \notin ToSet(b), NEW m \in ToSet(Scan(b).messages)
    PROVE  Verdict(m) # "stop"
  <1> DEFINE B == Byte \ {Interrupt}
             A == ScanStatesOf(B)
             end == Scanning(ScanStart, b)
  <1>1. B \in SUBSET Byte /\ b \in Seq(B) /\ Interrupt \notin B
    <2>1. \A i \in 1 .. Len(b) : b[i] \in B
      BY DEF ToSet
    <2>2. QED
      BY <2>1
  <1> HIDE DEF B
  <1>2. ScanStart \in A
    <2>1. <<>> \in Seq(B) /\ <<>> \in Seq(MessagesOf(B))
      OBVIOUS
    <2>2. QED
      BY <2>1 DEF ScanStart, ScanStatesOf
  <1>3. \A s \in A, i \in 1 .. Len(b) : ScanByte(b, s, i) \in A
    BY <1>1, ScanByteOf
  <1> HIDE DEF A
  <1>4. ScanSteps(A, b) \in [A \X (1 .. Len(b)) -> A]
    BY <1>3 DEF ScanSteps
  <1>5. PICK f : Stepping(f, A, ScanStart, Len(b), ScanSteps(A, b), end)
    BY <1>2, <1>4, ScanFold
  <1>6. end \in A
    BY <1>5 DEF Stepping
  <1>7. Scan(b) = IF end.message = <<Interrupt>> /\ ~end.list
                  THEN [end EXCEPT !.messages = Append(@, [bytes |-> end.message, list |-> FALSE])] ELSE end
    BY Zenon DEF Scan, Scanning, ScanStart
  <1> HIDE DEF end
  <1>8. end.message \in Seq(B) /\ end.messages \in Seq(MessagesOf(B))
    BY <1>6 DEF A, ScanStatesOf
  <1>9. ASSUME NEW x \in Seq(B) PROVE x # <<Interrupt>>
    <2>1. Len(<<Interrupt>>) = 1 /\ <<Interrupt>>[1] = Interrupt
      OBVIOUS
    <2>2. Len(x) = 1 => x[1] \in B
      OBVIOUS
    <2>3. QED
      BY <1>1, <2>1, <2>2
  <1>10. Scan(b).messages = end.messages
    BY <1>7, <1>8, <1>9
  <1>11. m \in MessagesOf(B)
    BY <1>8, <1>10 DEF ToSet
  <1>12. m.bytes # <<Interrupt>>
    BY <1>9, <1>11 DEF MessagesOf
  <1>13. QED
    BY <1>12 DEF Verdict

-----------------------------------------------------------------------------
(* A read that brings one whole packet.                                    *)

\* Acknowledgements up to i, and then the packet for body.
Arrives(b, i, body) ==
    /\ b \in Seq(Byte) /\ i \in 0 .. Len(b)
    /\ \A j \in 1 .. i : b[j] \in Acks
    /\ SubSeq(b, i + 1, Len(b)) = format_gdb_message(body)

\* Contents that a packet can have.
Clean(body) ==
    /\ body \in Seq(Byte) /\ body # <<>> /\ body[Len(body)] # Escape
    /\ \A j \in DOMAIN body : body[j] \notin {Dollar, Hash}

\* The loop while it gathers a message.
Gathering(message) == [ScanStart EXCEPT !.message = message]

\* Where the bytes of the packet are.
LEMMA ArrivesAt ==
    ASSUME NEW b, NEW i, NEW body, Clean(body), Arrives(b, i, body)
    PROVE  LET n == Len(body)
           IN  /\ n \in Nat /\ n >= 1 /\ i \in Nat /\ Len(b) = i + n + 4
               /\ b[i + 1] = Dollar /\ b[i + n + 2] = Hash /\ b[i + n + 1] # Escape
               /\ \A k \in i + 2 .. i + n + 1 : b[k] \notin {Dollar, Hash}
  <1> DEFINE n == Len(body)
             N == Len(b)
             m == format_gdb_message(body)
  <1>1. b \in Seq(Byte) /\ N \in Nat /\ i \in 0 .. N /\ body \in Seq(Byte) /\ DOMAIN body = 1 .. n
    BY DEF Arrives, Clean
  <1>2. n \in Nat /\ n >= 1
    BY <1>1 DEF Clean
  <1>3. Len(m) = n + 4 /\ m[1] = Dollar /\ m[n + 2] = Hash /\ \A j \in 1 .. n : m[j + 1] = body[j]
    BY <1>1, PacketShape
  <1> HIDE DEF m
  <1>4. Len(m) = N - (i + 1) + 1 /\ \A j \in 1 .. N - (i + 1) + 1 : m[j] = b[(i + 1) + j - 1]
    <2>1. i + 1 \in 1 .. N + 1 /\ N \in (i + 1) - 1 .. N
      BY <1>1
    <2>2. SubSeq(b, i + 1, N) = m
      BY DEF Arrives, m
    <2>3. Len(SubSeq(b, i + 1, N)) = N - (i + 1) + 1
          /\ \A j \in 1 .. N - (i + 1) + 1 : SubSeq(b, i + 1, N)[j] = b[(i + 1) + j - 1]
      BY <1>1, <2>1, PartBytes
    <2>4. QED
      BY <2>2, <2>3
  <1>5. N = i + n + 4
    <2>1. i \in Int /\ N \in Int /\ n \in Int
      BY <1>1, <1>2
    <2> HIDE DEF N, n
    <2>2. n + 4 = N - (i + 1) + 1
      BY <1>3, <1>4, Zenon
    <2>3. QED
      BY <2>1, <2>2
  <1>6. ASSUME NEW j \in 1 .. n + 4 PROVE m[j] = b[i + j]
    <2>1. j \in 1 .. N - (i + 1) + 1 /\ (i + 1) + j - 1 = i + j
      BY <1>1, <1>2, <1>5
    <2> HIDE DEF N, n
    <2>2. QED
      BY <1>4, <2>1
  <1>7. b[i + 1] = Dollar
    BY <1>2, <1>3, <1>6
  <1>8. b[i + n + 2] = Hash
    <2>1. n + 2 \in 1 .. n + 4 /\ i + (n + 2) = i + n + 2
      BY <1>1, <1>2
    <2> HIDE DEF n
    <2>2. QED
      BY <1>3, <1>6, <2>1
  <1>9. ASSUME NEW j \in 1 .. n PROVE b[i + j + 1] = body[j]
    <2>1. j + 1 \in 1 .. n + 4 /\ i + (j + 1) = i + j + 1
      BY <1>1, <1>2
    <2> HIDE DEF n
    <2>2. QED
      BY <1>3, <1>6, <2>1
  <1>10. b[i + n + 1] # Escape
    BY <1>2, <1>9 DEF Clean
  <1>11. ASSUME NEW k \in i + 2 .. i + n + 1 PROVE b[k] \notin {Dollar, Hash}
    <2>1. k - i - 1 \in 1 .. n /\ i + (k - i - 1) + 1 = k
      BY <1>1, <1>2
    <2>2. b[k] = body[k - i - 1]
      BY <1>9, <2>1
    <2>3. QED
      BY <1>1, <2>1, <2>2 DEF Clean
  <1>12. QED
    BY <1>1, <1>2, <1>5, <1>7, <1>8, <1>10, <1>11

\* A byte before the '#' is an acknowledgement or is gathered.
LEMMA GatherStep ==
    ASSUME NEW b, NEW i, NEW body, Clean(body), Arrives(b, i, body), NEW k \in 1 .. Len(b) - 3
    PROVE  ScanByte(b, Gathering(SubSeq(b, i + 1, k - 1)), k) = Gathering(SubSeq(b, i + 1, k))
  <1> DEFINE n == Len(body)
             s == Gathering(SubSeq(b, i + 1, k - 1))
  <1>1. /\ n \in Nat /\ n >= 1 /\ i \in Nat /\ Len(b) = i + n + 4
        /\ b[i + 1] = Dollar /\ \A j \in i + 2 .. i + n + 1 : b[j] \notin {Dollar, Hash}
    BY ArrivesAt
  <1>2. b \in Seq(Byte) /\ \A j \in 1 .. i : b[j] \in Acks
    BY DEF Arrives
  <1>3. s.skip = 0 /\ s.raised = FALSE /\ s.message = SubSeq(b, i + 1, k - 1)
    BY DEF Gathering, ScanStart
  <1>d. Dollar \notin Acks /\ Hash \notin Acks /\ Dollar # Hash
    BY DEF Dollar, Hash, Acks, Ack, BadAck
  <1>4. CASE k <= i
    <2>1. SubSeq(b, i + 1, k - 1) = <<>> /\ SubSeq(b, i + 1, k) = <<>>
      BY <1>1, <1>4, SubSeqEmpty
    <2>2. b[k] \in Acks
      BY <1>2, <1>4
    <2> HIDE DEF s
    <2>3. ScanByte(b, s, k) = s
      BY <1>3, <2>1, <2>2 DEF ScanByte
    <2>4. QED
      BY <2>1, <2>3 DEF s
  <1>5. CASE k > i
    <2>1. k \in 1 .. Len(b) /\ i + 1 \in 1 .. k
      BY <1>1, <1>5
    <2>2. Append(SubSeq(b, i + 1, k - 1), b[k]) = SubSeq(b, i + 1, k)
      BY <1>2, <2>1, GrowingPart
    <2>3. /\ b[k] # Hash
          /\ b[k] = Dollar \/ b[k] \in Acks => s.message = <<>> \/ b[k] # Dollar
          /\ s.message = <<>> => b[k] \notin Acks
      <3>1. CASE k = i + 1
        <4>1. SubSeq(b, i + 1, k - 1) = <<>>
          BY <1>1, <3>1, SubSeqEmpty
        <4>2. QED
          BY <1>1, <1>3, <1>d, <3>1, <4>1
      <3>2. CASE k > i + 1
        <4>1. k \in i + 2 .. i + n + 1
          BY <1>1, <3>2
        <4>2. b[k] \notin {Dollar, Hash}
          BY <1>1, <4>1
        <4>3. Len(SubSeq(b, i + 1, k - 1)) = (k - 1) - (i + 1) + 1
          <5>1. i + 1 \in 1 .. Len(b) + 1 /\ k - 1 \in (i + 1) - 1 .. Len(b)
            BY <1>1, <3>2
          <5>2. QED
            BY <1>2, <5>1, PartBytes
        <4>4. SubSeq(b, i + 1, k - 1) # <<>>
          BY <1>1, <3>2, <4>3
        <4>5. QED
          BY <1>3, <4>2, <4>4
      <3>3. QED
        BY <1>1, <1>5, <3>1, <3>2
    <2> HIDE DEF s
    <2>4. ScanByte(b, s, k) = [s EXCEPT !.message = Append(@, b[k])]
      BY <1>3, <2>3 DEF ScanByte
    <2>5. QED
      BY <1>3, <2>2, <2>4 DEF s, Gathering, ScanStart
  <1>6. QED
    BY <1>1, <1>4, <1>5

\* The loop behind a packet: three bytes are skipped, and "message" is a list.
Taken(whole, skip) ==
    [skip |-> skip, raised |-> FALSE, message |-> <<>>, list |-> TRUE, messages |-> <<whole>>]

\* The '#' of a packet makes it the read's one message.
LEMMA TakeByte ==
    ASSUME NEW s \in ScanStates, NEW whole \in Messages, s.raised = FALSE, s.messages = <<>>,
           NEW t, t = [s EXCEPT !.messages = Append(@, whole), !.message = <<>>, !.list = TRUE, !.skip = 3]
    PROVE  t = Taken(whole, 3)
  <1> DEFINE one == Append(s.messages, whole)
  <1>1. one = <<whole>> /\ one \in Seq(Messages)
    OBVIOUS
  <1>2. t = [s EXCEPT !.messages = one, !.message = <<>>, !.list = TRUE, !.skip = 3]
    OBVIOUS
  <1> HIDE DEF one
  <1>3. t = [skip |-> 3, raised |-> s.raised, message |-> <<>>, list |-> TRUE, messages |-> one]
    BY <1>1, <1>2 DEF ScanStates
  <1>4. QED
    BY <1>1, <1>3, Zenon DEF Taken

\* The three bytes behind it are skipped.
LEMMA SkipByte ==
    ASSUME NEW b, NEW i, NEW whole, NEW skip \in 1 .. 3
    PROVE  ScanByte(b, Taken(whole, skip), i) = Taken(whole, skip - 1)
  <1> DEFINE s == Taken(whole, skip)
  <1>1. s.skip = skip
    BY DEF Taken
  <1>2. ScanByte(b, s, i) = [s EXCEPT !.skip = @ - 1]
    <2> HIDE DEF s
    <2> QED BY <1>1 DEF ScanByte
  <1>3. QED
    BY <1>1, <1>2 DEF Taken

\* The read makes one message, which is the packet.
LEMMA ScanWhole ==
    ASSUME NEW b, NEW i, NEW body, Clean(body), Arrives(b, i, body)
    PROVE  Scan(b).raised = FALSE /\ Scan(b).messages = <<[bytes |-> format_gdb_message(body), list |-> FALSE]>>
  <1> DEFINE n == Len(body)
             N == Len(b)
             end == Scanning(ScanStart, b)
             whole == [bytes |-> SubSeq(b, i + 1, N), list |-> FALSE]
  <1>1. /\ n \in Nat /\ n >= 1 /\ i \in Nat /\ N = i + n + 4
        /\ b[i + n + 2] = Hash /\ b[i + n + 1] # Escape
    BY ArrivesAt
  <1>2. b \in Seq(Byte) /\ N \in Nat /\ SubSeq(b, i + 1, N) = format_gdb_message(body)
    BY DEF Arrives
  <1>3. PICK f : Stepping(f, ScanStates, ScanStart, N, ScanSteps(ScanStates, b), end)
    BY <1>2, ScanRuns
  <1>4. /\ f[0] = ScanStart /\ f[N] = end
        /\ \A k \in 0 .. N : f[k] \in ScanStates
        /\ \A k \in 1 .. N : f[k] = ScanByte(b, f[k - 1], k)
    BY <1>2, <1>3, ScanSteppedByte
  <1> HIDE DEF end
  <1> DEFINE S == {k \in Nat : f[k] = Gathering(SubSeq(b, i + 1, k))}
  <1>5. N - 3 \in S
    <2>1. 0 \in S
      <3>1. SubSeq(b, i + 1, 0) = <<>>
        BY <1>1, SubSeqEmpty
      <3>2. Gathering(<<>>) = ScanStart
        BY DEF Gathering, ScanStart
      <3>3. QED
        BY <1>4, <3>1, <3>2
    <2>2. ASSUME NEW k \in 0 .. (N - 3) - 1, k \in S PROVE k + 1 \in S
      <3>1. k + 1 \in 1 .. N /\ k + 1 \in 1 .. N - 3 /\ (k + 1) - 1 = k
        BY <1>1
      <3>2. f[k + 1] = ScanByte(b, f[k], k + 1)
        BY <1>4, <3>1
      <3>3. ScanByte(b, Gathering(SubSeq(b, i + 1, (k + 1) - 1)), k + 1) = Gathering(SubSeq(b, i + 1, k + 1))
        BY <3>1, GatherStep
      <3>4. QED
        BY <2>2, <3>1, <3>2, <3>3
    <2> HIDE DEF S
    <2>3. N - 3 \in Nat /\ \A k \in 0 .. (N - 3) - 1 : k \in S => k + 1 \in S
      BY <1>1, <2>2
    <2>4. \A k \in 0 .. N - 3 : k \in S
      BY <2>1, <2>3, IntervalInduction
    <2>5. QED
      BY <2>3, <2>4
  <1>6. f[N - 3] = Gathering(SubSeq(b, i + 1, N - 3))
    BY <1>5
  <1>7. f[N - 2] = Taken(whole, 3)
    <2> DEFINE s == f[N - 3]
    <2>1. N - 2 \in 1 .. N /\ (N - 2) - 1 = N - 3 /\ N - 2 = i + n + 2 /\ N - 3 = i + n + 1 /\ (N - 2) + 2 = N
          /\ N - 2 > 1
      BY <1>1
    <2>2. f[N - 2] = ScanByte(b, s, N - 2)
      BY <1>4, <2>1
    <2>3. /\ s.skip = 0 /\ s.raised = FALSE /\ s.list = FALSE /\ s.messages = <<>>
          /\ s.message = SubSeq(b, i + 1, N - 3)
          /\ s = [skip |-> 0, raised |-> FALSE, message |-> s.message, list |-> FALSE, messages |-> <<>>]
      BY <1>6 DEF Gathering, ScanStart
    <2>4. s.message \o SubSeq(b, N - 2, N) = SubSeq(b, i + 1, N)
      <3>1. i + 1 \in 1 .. N + 1 /\ N - 3 \in (i + 1) - 1 .. N /\ N \in N - 3 .. N /\ (N - 3) + 1 = N - 2
        BY <1>1
      <3>2. SubSeq(b, i + 1, N - 3) \o SubSeq(b, (N - 3) + 1, N) = SubSeq(b, i + 1, N)
        BY <1>2, <3>1, ConcatAdjacentSubSeq
      <3>3. QED
        BY <2>3, <3>1, <3>2
    <2>5. b[N - 2] = Hash /\ b[(N - 2) - 1] # Escape
      BY <1>1, <2>1
    <2>6. Hash # Dollar /\ Hash \notin Acks
      BY DEF Dollar, Hash, Acks, Ack, BadAck
    <2> HIDE DEF s, N, n
    <2>7. ScanByte(b, s, N - 2) =
             [s EXCEPT !.messages = Append(@, [bytes |-> s.message \o SubSeq(b, N - 2, (N - 2) + 2), list |-> FALSE]),
                       !.message = <<>>, !.list = TRUE, !.skip = 3]
      <3>1. N - 2 + 2 <= Len(b)
        BY <2>1 DEF N
      <3>2. QED
        BY <2>1, <2>3, <2>5, <2>6, <3>1 DEF ScanByte
    <2>8. [bytes |-> s.message \o SubSeq(b, N - 2, (N - 2) + 2), list |-> FALSE] = whole
      BY <2>1, <2>4
    <2> HIDE DEF whole
    <2>9. f[N - 2] =
             [s EXCEPT !.messages = Append(@, whole), !.message = <<>>, !.list = TRUE, !.skip = 3]
      BY <2>2, <2>7, <2>8, Zenon
    <2>10. s \in ScanStates
      BY <1>4, <2>1 DEF s
    <2>a. whole \in Messages
      <3>1. format_gdb_message(body) \in Seq(Byte)
        BY PacketShape DEF Clean
      <3>2. QED
        BY <1>2, <3>1 DEF whole, N, Messages
    <2>11. QED
      BY <2>3, <2>9, <2>10, <2>a, TakeByte
  <1>8. f[N - 1] = Taken(whole, 2)
    <2>1. N - 1 \in 1 .. N /\ (N - 1) - 1 = N - 2
      BY <1>1
    <2>2. f[N - 1] = ScanByte(b, Taken(whole, 3), N - 1)
      BY <1>4, <1>7, <2>1
    <2> HIDE DEF whole
    <2>3. QED
      BY <2>2, SkipByte
  <1>9. f[N] = Taken(whole, 1)
    <2>1. N \in 1 .. N
      BY <1>1
    <2>2. f[N] = ScanByte(b, Taken(whole, 2), N)
      BY <1>4, <1>8, <2>1
    <2> HIDE DEF whole
    <2>3. QED
      BY <2>2, SkipByte
  <1>10. end.raised = FALSE /\ end.list = TRUE /\ end.messages = <<whole>>
    <2> HIDE DEF whole
    <2>1. end = Taken(whole, 1)
      BY <1>4, <1>9
    <2>2. QED
      BY <2>1 DEF Taken
  <1>11. Scan(b) = IF end.message = <<Interrupt>> /\ ~end.list
                   THEN [end EXCEPT !.messages = Append(@, [bytes |-> end.message, list |-> FALSE])] ELSE end
    BY Zenon DEF Scan, Scanning, ScanStart, end
  <1>12. whole = [bytes |-> format_gdb_message(body), list |-> FALSE]
    BY <1>2
  <1> HIDE DEF whole
  <1>13. QED
    BY <1>10, <1>11, <1>12

-----------------------------------------------------------------------------
(* Escaped data, and what becomes of them.                                 *)

Special == {Hash, Dollar, Escape, Star}

\* The escaped data e of d: at tells how many bytes of e stand for so many of d.
Escaping(d, e, at) ==
    /\ at \in [0 .. Len(d) -> 0 .. Len(e)] /\ at[0] = 0 /\ at[Len(d)] = Len(e)
    /\ \A k \in 1 .. Len(d) :
          /\ d[k] \in Special
                => at[k] = at[k - 1] + 2 /\ e[at[k - 1] + 1] = Escape /\ e[at[k - 1] + 2] = Flip(d[k])
          /\ d[k] \notin Special
                => at[k] = at[k - 1] + 1 /\ e[at[k - 1] + 1] = d[k]

\* x is how y starts.
Starts(x, y) == Len(x) <= Len(y) /\ \A l \in 1 .. Len(x) : y[l] = x[l]

\* A start of a start is a start.
LEMMA StartsThen ==
    ASSUME NEW T, NEW x \in Seq(T), NEW y \in Seq(T), NEW z \in Seq(T), Starts(x, y), Starts(y, z)
    PROVE  Starts(x, z)
  <1>1. Len(x) \in Nat /\ Len(y) \in Nat /\ Len(z) \in Nat /\ Len(x) <= Len(y) /\ Len(y) <= Len(z)
    BY DEF Starts
  <1>2. ASSUME NEW l \in 1 .. Len(x) PROVE z[l] = x[l]
    <2>1. l \in 1 .. Len(y)
      BY <1>1
    <2>2. QED
      BY <2>1 DEF Starts
  <1>3. QED
    BY <1>1, <1>2 DEF Starts

\* What only grows starts with what it was.
LEMMA GrowingStarts ==
    ASSUME NEW T, NEW N \in Nat, NEW f \in [0 .. N -> Seq(T)],
           \A k \in 1 .. N : \E x \in Seq(T) : f[k] = f[k - 1] \o x
    PROVE  \A j \in 0 .. N, k \in 0 .. N : k <= j => Starts(f[k], f[j])
  <1> DEFINE S == {j \in Nat : \A k \in 0 .. j : Starts(f[k], f[j])}
  <1>1. 0 \in S
    <2>1. Starts(f[0], f[0])
      BY DEF Starts
    <2>2. \A k \in 0 .. 0 : k = 0
      OBVIOUS
    <2>3. QED
      BY <2>1, <2>2
  <1>2. ASSUME NEW j \in 0 .. N - 1, j \in S PROVE j + 1 \in S
    <2>1. j + 1 \in 1 .. N /\ (j + 1) - 1 = j /\ j \in 0 .. N /\ j + 1 \in 0 .. N /\ j + 1 \in Nat
      OBVIOUS
    <2>2. PICK x \in Seq(T) : f[j + 1] = f[j] \o x
      BY <2>1
    <2>3. f[j] \in Seq(T) /\ f[j + 1] \in Seq(T)
      BY <2>1
    <2>4. Len(f[j]) <= Len(f[j + 1]) /\ \A l \in 1 .. Len(f[j]) : f[j + 1][l] = f[j][l]
      BY <2>2, <2>3
    <2>5. ASSUME NEW k \in 0 .. j + 1 PROVE Starts(f[k], f[j + 1])
      <3>1. CASE k = j + 1
        BY <3>1 DEF Starts
      <3>2. CASE k # j + 1
        <4>1. k \in 0 .. j /\ k \in 0 .. N
          BY <3>2
        <4>2. Starts(f[k], f[j]) /\ f[k] \in Seq(T)
          BY <1>2, <4>1
        <4>3. Starts(f[j], f[j + 1])
          BY <2>4 DEF Starts
        <4>4. QED
          BY <2>3, <4>2, <4>3, StartsThen
      <3>3. QED
        BY <3>1, <3>2
    <2>6. QED
      BY <2>1, <2>5
  <1> HIDE DEF S
  <1>3. \A j \in 0 .. N : j \in S
    BY <1>1, <1>2, IntervalInduction
  <1>4. QED
    BY <1>3 DEF S

\* Every byte of the data has its place in the escaped data.
LEMMA EscapePlaces ==
    ASSUME NEW d \in Seq(Byte)
    PROVE  \E at : Escaping(d, escape(d), at)
  <1> DEFINE N == Len(d)
             e == escape(d)
             A == EscapedSet(d)
  <1>1. PICK f : Stepping(f, A, <<>>, N, EscapeSteps(A, d), e)
    BY EscapeRuns
  <1>2. N \in Nat /\ f \in [0 .. N -> A] /\ f[0] = <<>> /\ f[N] = e
    BY <1>1 DEF Stepping
  <1>3. A \subseteq Seq(Byte)
    BY DEF EscapedSet
  <1>4. f \in [0 .. N -> Seq(Byte)] /\ e \in Seq(Byte)
    BY <1>2, <1>3
  <1> DEFINE Part(k) == IF d[k] \in {Hash, Dollar, Escape, Star} THEN <<Escape, Flip(d[k])>> ELSE <<d[k]>>
  <1>5. ASSUME NEW k \in 1 .. N PROVE f[k] = f[k - 1] \o Part(k) /\ Part(k) \in Seq(Byte)
    <2>1. f[k - 1] \in A
      BY <1>2
    <2>2. f[k] = EscapeSteps(A, d)[<<f[k - 1], k>>]
      BY <1>1 DEF Stepping
    <2>3. f[k] = f[k - 1] \o Part(k)
      BY <2>1, <2>2, Zenon DEF EscapeSteps
    <2>4. d[k] \in Byte /\ Flip(d[k]) \in Byte /\ Escape \in Byte
      <3>1. Escape \in Byte
        BY DEF Byte, Escape
      <3>2. QED
        BY <3>1, FlipByte
    <2>5. QED
      BY <2>3, <2>4
  <1>6. \A j \in 0 .. N, k \in 0 .. N : k <= j => Starts(f[k], f[j])
    <2> HIDE DEF e, N, A, Part
    <2>1. QED
      BY <1>2, <1>4, <1>5, GrowingStarts
  <1> DEFINE at == [k \in 0 .. N |-> Len(f[k])]
  <1>7. at \in [0 .. N -> 0 .. Len(e)] /\ at[0] = 0 /\ at[N] = Len(e)
    <2>1. ASSUME NEW k \in 0 .. N PROVE Len(f[k]) \in 0 .. Len(e)
      <3>1. Starts(f[k], f[N])
        BY <1>2, <1>6
      <3>2. f[k] \in Seq(Byte)
        BY <1>4
      <3>3. QED
        BY <1>2, <1>4, <3>1, <3>2 DEF Starts
    <2>2. QED
      BY <1>2, <2>1
  <1>8. ASSUME NEW k \in 1 .. N
        PROVE  /\ d[k] \in Special
                    => at[k] = at[k - 1] + 2 /\ e[at[k - 1] + 1] = Escape /\ e[at[k - 1] + 2] = Flip(d[k])
               /\ d[k] \notin Special
                    => at[k] = at[k - 1] + 1 /\ e[at[k - 1] + 1] = d[k]
    <2>1. k \in 0 .. N /\ k - 1 \in 0 .. N /\ N \in 0 .. N /\ k <= N
      BY <1>2
    <2>2. f[k - 1] \in Seq(Byte) /\ f[k] = f[k - 1] \o Part(k) /\ Part(k) \in Seq(Byte) /\ f[k] \in Seq(Byte)
      BY <1>4, <1>5, <2>1
    <2>3. Starts(f[k], e)
      BY <1>2, <1>6, <2>1
    <2>4. at[k] = Len(f[k]) /\ at[k - 1] = Len(f[k - 1])
      BY <2>1
    <2> DEFINE l == Len(f[k - 1])
    <2>5. l \in Nat
      BY <2>2
    <2> HIDE DEF at, e
    <2>6. CASE d[k] \in Special
      <3>1. Part(k) = <<Escape, Flip(d[k])>>
        BY <2>6 DEF Special
      <3> HIDE DEF Part
      <3>2. Len(f[k]) = l + 2 /\ f[k][l + 1] = Escape /\ f[k][l + 2] = Flip(d[k])
        BY <2>2, <3>1
      <3>3. e[l + 1] = Escape /\ e[l + 2] = Flip(d[k])
        <4>1. l + 1 \in 1 .. Len(f[k]) /\ l + 2 \in 1 .. Len(f[k])
          BY <2>5, <3>2
        <4> HIDE DEF l
        <4>2. QED
          BY <2>3, <3>2, <4>1 DEF Starts
      <3>4. QED
        BY <2>4, <2>6, <3>2, <3>3
    <2>7. CASE d[k] \notin Special
      <3>1. Part(k) = <<d[k]>>
        BY <2>7 DEF Special
      <3> HIDE DEF Part
      <3>2. Len(f[k]) = l + 1 /\ f[k][l + 1] = d[k]
        BY <2>2, <3>1
      <3>3. e[l + 1] = d[k]
        <4>1. l + 1 \in 1 .. Len(f[k])
          BY <2>5, <3>2
        <4> HIDE DEF l
        <4>2. QED
          BY <2>3, <3>2, <4>1 DEF Starts
      <3>4. QED
        BY <2>4, <2>7, <3>2, <3>3
    <2>8. QED
      BY <2>6, <2>7
  <1> HIDE DEF at, e
  <1>9. Escaping(d, e, at)
    BY <1>7, <1>8 DEF Escaping
  <1>10. QED
    BY <1>9 DEF e

UnescapeStates == [out : Seq(Byte), skip : BOOLEAN]
UnescapeStart  == [out |-> <<>>, skip |-> FALSE]

\* The states that unescape() has, byte by byte.
LEMMA UnescapeRuns ==
    ASSUME NEW b \in Seq(Byte)
    PROVE  \E f : Stepping(f, UnescapeStates, UnescapeStart, Len(b), UnescapeSteps(UnescapeStates, b),
                           Unescaping(UnescapeStart, b))
  <1>1. UnescapeStart \in UnescapeStates
    BY DEF UnescapeStart, UnescapeStates
  <1>2. ASSUME NEW s \in UnescapeStates, NEW i \in 1 .. Len(b) PROVE UnescapeByte(b, s, i) \in UnescapeStates
    <2>1. s.out \in Seq(Byte) /\ b[i] \in Byte
      BY DEF UnescapeStates
    <2>2. Append(s.out, b[i]) \in Seq(Byte)
      BY <2>1
    <2>3. i < Len(b) => Append(s.out, Flip(b[i + 1])) \in Seq(Byte)
      <3>1. i < Len(b) => b[i + 1] \in Byte
        BY ElementOfSeq
      <3>2. QED
        BY <2>1, <3>1, FlipByte
    <2>4. CASE s.skip
      <3>1. UnescapeByte(b, s, i) = [s EXCEPT !.skip = FALSE]
        BY <2>4 DEF UnescapeByte
      <3>2. QED
        BY <3>1 DEF UnescapeStates
    <2>5. CASE ~s.skip
      <3>1. \/ UnescapeByte(b, s, i) = [out |-> Append(s.out, b[i]), skip |-> FALSE]
            \/ i < Len(b) /\ UnescapeByte(b, s, i) = [out |-> Append(s.out, Flip(b[i + 1])), skip |-> TRUE]
        BY <2>5 DEF UnescapeByte
      <3>2. CASE UnescapeByte(b, s, i) = [out |-> Append(s.out, b[i]), skip |-> FALSE]
        BY <2>2, <3>2 DEF UnescapeStates
      <3>3. CASE i < Len(b) /\ UnescapeByte(b, s, i) = [out |-> Append(s.out, Flip(b[i + 1])), skip |-> TRUE]
        BY <2>3, <3>3 DEF UnescapeStates
      <3>4. QED
        BY <3>1, <3>2, <3>3
    <2>6. QED
      BY <2>4, <2>5
  <1>3. UnescapeSteps(UnescapeStates, b) \in [UnescapeStates \X (1 .. Len(b)) -> UnescapeStates]
    BY <1>2 DEF UnescapeSteps
  <1>4. QED
    BY <1>1, <1>3, UnescapeFold

\* The values that Starred() has, byte by byte.
LEMMA StarredRuns ==
    ASSUME NEW d \in Seq(Byte)
    PROVE  \E g : Stepping(g, Seq(Byte), <<>>, Len(d), StarredSteps(Seq(Byte), d), Starred(d))
  <1>1. <<>> \in Seq(Byte)
    OBVIOUS
  <1>2. ASSUME NEW s \in Seq(Byte), NEW k \in 1 .. Len(d)
        PROVE  s \o (IF d[k] = Star THEN <<Escape, Flip(Star)>> ELSE <<d[k]>>) \in Seq(Byte)
    <2>1. d[k] \in Byte /\ Escape \in Byte /\ Flip(Star) \in Byte
      <3>1. Escape \in Byte /\ Star \in Byte
        BY DEF Byte, Escape, Star
      <3>2. QED
        BY <3>1, FlipByte
    <2>2. QED
      BY <2>1
  <1>3. StarredSteps(Seq(Byte), d) \in [Seq(Byte) \X (1 .. Len(d)) -> Seq(Byte)]
    BY <1>2 DEF StarredSteps
  <1>4. QED
    BY <1>1, <1>3, StarredFold


\* The state of unescape() between two escapes, and behind the first byte of one.
Whole(done)  == [out |-> done, skip |-> FALSE]
Within(done) == [out |-> done, skip |-> TRUE]

\* The fields of such a state.
LEMMA WholeFields == ASSUME NEW done PROVE Whole(done).out = done /\ Whole(done).skip = FALSE
  BY DEF Whole

\* The second byte of an escape is skipped.
LEMMA UnescapeSkips ==
    ASSUME NEW e, NEW i, NEW done PROVE UnescapeByte(e, Within(done), i) = Whole(done)
  <1> DEFINE s == Within(done)
  <1>1. s.skip = TRUE /\ s.out = done
    BY DEF Within
  <1>2. UnescapeByte(e, s, i) = [s EXCEPT !.skip = FALSE]
    <2> HIDE DEF s
    <2> QED BY <1>1 DEF UnescapeByte
  <1>3. QED
    BY <1>2 DEF Within, Whole

\* A byte that starts no escape is taken as it is.
LEMMA UnescapePlain ==
    ASSUME NEW e, NEW i, NEW done,
           ~(e[i] = Escape /\ i < Len(e) /\ Flip(e[i + 1]) \in {Hash, Dollar, Escape})
    PROVE  UnescapeByte(e, Whole(done), i) = Whole(Append(done, e[i]))
  <1> DEFINE s == Whole(done)
  <1>1. s.skip = FALSE /\ s.out = done
    BY WholeFields
  <1>2. UnescapeByte(e, s, i) = [out |-> Append(s.out, e[i]), skip |-> FALSE]
    <2> HIDE DEF s
    <2> QED BY <1>1, Zenon DEF UnescapeByte
  <1>3. QED
    BY <1>1, <1>2, Zenon DEF Whole

\* A byte that starts one is taken together with the next.
LEMMA UnescapeEscape ==
    ASSUME NEW e, NEW i, NEW done, NEW c,
           e[i] = Escape /\ i < Len(e) /\ Flip(e[i + 1]) = c /\ c \in {Hash, Dollar, Escape}
    PROVE  UnescapeByte(e, Whole(done), i) = Within(Append(done, c))
  <1> DEFINE s == Whole(done)
  <1>1. s.skip = FALSE /\ s.out = done
    BY WholeFields
  <1>2. UnescapeByte(e, s, i) = [out |-> Append(s.out, c), skip |-> TRUE]
    <2> HIDE DEF s
    <2> QED BY <1>1, Zenon DEF UnescapeByte
  <1>3. QED
    BY <1>1, <1>2, Zenon DEF Within

\* Data that were escaped come out of unescape() as they were, but for a '*',
\* whose escape stays.
LEMMA UnescapeUndoes ==
    ASSUME NEW d \in Seq(Byte)
    PROVE  unescape(escape(d)) = Starred(d) /\ Starred(d) \in Seq(Byte)
  <1> DEFINE N == Len(d)
             e == escape(d)
             end == Unescaping(UnescapeStart, e)
  <1>1. e \in Seq(Byte)
    BY EscapeIsClean DEF EscapedSet
  <1>2. PICK at : Escaping(d, e, at)
    BY EscapePlaces
  <1>3. PICK u : Stepping(u, UnescapeStates, UnescapeStart, Len(e), UnescapeSteps(UnescapeStates, e), end)
    BY <1>1, UnescapeRuns
  <1>4. PICK g : Stepping(g, Seq(Byte), <<>>, N, StarredSteps(Seq(Byte), d), Starred(d))
    BY StarredRuns
  <1>5. N \in Nat /\ Len(e) \in Nat
    BY <1>1
  <1>6. unescape(e) = end.out
    BY Zenon DEF unescape, Unescaping, UnescapeStart
  <1> HIDE DEF e, end, N
  <1>7. at \in [0 .. N -> 0 .. Len(e)] /\ at[0] = 0 /\ at[N] = Len(e)
    BY <1>2 DEF Escaping, N
  <1>8. /\ u[0] = UnescapeStart /\ u[Len(e)] = end
        /\ \A i \in 1 .. Len(e) : u[i] = UnescapeByte(e, u[i - 1], i)
    <2>1. u[0] = UnescapeStart /\ u[Len(e)] = end
      BY <1>3 DEF Stepping
    <2>2. ASSUME NEW i \in 1 .. Len(e) PROVE u[i] = UnescapeByte(e, u[i - 1], i)
      <3>1. u[i] = UnescapeSteps(UnescapeStates, e)[<<u[i - 1], i>>] /\ u[i - 1] \in UnescapeStates
        BY <1>3, <1>5 DEF Stepping
      <3>2. QED
        BY <3>1 DEF UnescapeSteps
    <2>3. QED
      BY <2>1, <2>2
  <1>9. /\ g[0] = <<>> /\ g[N] = Starred(d)
        /\ \A k \in 0 .. N : g[k] \in Seq(Byte)
        /\ \A k \in 1 .. N : g[k] = g[k - 1] \o (IF d[k] = Star THEN <<Escape, Flip(Star)>> ELSE <<d[k]>>)
    <2>1. g[0] = <<>> /\ g[N] = Starred(d) /\ \A k \in 0 .. N : g[k] \in Seq(Byte)
      BY <1>4 DEF Stepping
    <2>2. ASSUME NEW k \in 1 .. N
          PROVE  g[k] = g[k - 1] \o (IF d[k] = Star THEN <<Escape, Flip(Star)>> ELSE <<d[k]>>)
      <3>1. g[k] = StarredSteps(Seq(Byte), d)[<<g[k - 1], k>>] /\ g[k - 1] \in Seq(Byte)
        BY <1>4, <1>5 DEF Stepping
      <3>2. <<g[k - 1], k>> \in Seq(Byte) \X (1 .. Len(d))
        BY <3>1 DEF N
      <3>3. QED
        BY <3>1, <3>2, Zenon DEF StarredSteps
    <2>3. QED
      BY <2>1, <2>2
  <1> DEFINE S == {k \in Nat : u[at[k]] = Whole(g[k])}
  <1>10. 0 \in S
    BY <1>7, <1>8, <1>9 DEF UnescapeStart, Whole
  <1>11. ASSUME NEW j \in 0 .. N - 1, j \in S PROVE j + 1 \in S
    <2> DEFINE k == j + 1
               l == at[j]
    <2>1. k \in 1 .. N /\ k - 1 = j /\ j \in 0 .. N /\ k \in 0 .. N /\ k \in Nat
      BY <1>5
    <2>2. l \in Nat /\ at[k] \in 0 .. Len(e) /\ g[j] \in Seq(Byte) /\ u[l] = Whole(g[j])
      BY <1>5, <1>7, <1>9, <1>11, <2>1
    <2>3. d[k] \in Byte
      BY <2>1, ElementOfSeq DEF N
    <2>4. /\ d[k] \in Special => at[k] = l + 2 /\ e[l + 1] = Escape /\ e[l + 2] = Flip(d[k])
          /\ d[k] \notin Special => at[k] = l + 1 /\ e[l + 1] = d[k]
      BY <1>2, <2>1 DEF Escaping, N
    <2> HIDE DEF k, l
    <2>5. CASE d[k] \notin Special
      <3>1. at[k] = l + 1 /\ e[l + 1] = d[k] /\ d[k] # Escape /\ d[k] # Star
        BY <2>4, <2>5 DEF Special
      <3>2. l + 1 \in 1 .. Len(e) /\ (l + 1) - 1 = l
        BY <1>5, <2>2, <3>1
      <3>3. u[l + 1] = UnescapeByte(e, Whole(g[j]), l + 1)
        BY <1>8, <2>2, <3>2
      <3>4. u[l + 1] = Whole(Append(g[j], d[k]))
        BY <3>1, <3>3, UnescapePlain
      <3>5. g[k] = g[j] \o <<d[k]>>
        BY <1>9, <2>1, <3>1
      <3>6. Append(g[j], d[k]) = g[j] \o <<d[k]>>
        BY <2>2, <2>3
      <3>7. QED
        BY <2>1, <3>1, <3>4, <3>5, <3>6 DEF k
    <2>6. CASE d[k] \in Special
      <3>1. at[k] = l + 2 /\ e[l + 1] = Escape /\ e[l + 2] = Flip(d[k])
        BY <2>4, <2>6
      <3>2. l + 1 \in 1 .. Len(e) /\ (l + 1) - 1 = l /\ l + 2 \in 1 .. Len(e) /\ (l + 2) - 1 = l + 1
            /\ l + 1 < Len(e) /\ (l + 1) + 1 = l + 2
        BY <1>5, <2>2, <3>1
      <3>3. u[l + 1] = UnescapeByte(e, Whole(g[j]), l + 1) /\ u[l + 2] = UnescapeByte(e, u[l + 1], l + 2)
        BY <1>8, <2>2, <3>2
      <3>4. CASE d[k] = Star
        <4>1. Flip(Star) # Escape /\ Flip(Flip(Star)) \notin {Hash, Dollar, Escape}
          BY FlipSpecial DEF Hash, Dollar, Escape, Star
        <4>2. u[l + 1] = Whole(Append(g[j], Escape))
          BY <3>1, <3>2, <3>3, <3>4, <4>1, UnescapePlain
        <4>3. u[l + 2] = Whole(Append(Append(g[j], Escape), Flip(Star)))
          BY <3>1, <3>3, <3>4, <4>1, <4>2, UnescapePlain
        <4>4. g[k] = g[j] \o <<Escape, Flip(Star)>>
          BY <1>9, <2>1, <3>4
        <4>5. Append(Append(g[j], Escape), Flip(Star)) = g[j] \o <<Escape, Flip(Star)>>
          <5>1. Escape \in Byte /\ Flip(Star) \in Byte
            <6>1. Escape \in Byte /\ Star \in Byte
              BY DEF Byte, Escape, Star
            <6>2. QED
              BY <6>1, FlipByte
          <5>2. QED
            BY <2>2, <5>1
        <4>6. QED
          BY <2>1, <3>1, <4>3, <4>4, <4>5 DEF k
      <3>5. CASE d[k] # Star
        <4>1. d[k] \in {Hash, Dollar, Escape} /\ Flip(Flip(d[k])) = d[k]
          <5>1. d[k] \in {Hash, Dollar, Escape}
            BY <2>6, <3>5 DEF Special
          <5>2. QED
            BY <5>1, FlipSpecial
        <4>2. u[l + 1] = Within(Append(g[j], d[k]))
          <5>1. e[l + 1] = Escape /\ l + 1 < Len(e) /\ Flip(e[(l + 1) + 1]) = d[k] /\ d[k] \in {Hash, Dollar, Escape}
            BY <3>1, <3>2, <4>1
          <5>2. UnescapeByte(e, Whole(g[j]), l + 1) = Within(Append(g[j], d[k]))
            BY <5>1, UnescapeEscape
          <5>3. QED
            BY <3>3, <5>2
        <4>3. u[l + 2] = Whole(Append(g[j], d[k]))
          BY <3>3, <4>2, UnescapeSkips
        <4>4. g[k] = g[j] \o <<d[k]>>
          BY <1>9, <2>1, <3>5
        <4>5. Append(g[j], d[k]) = g[j] \o <<d[k]>>
          BY <2>2, <2>3
        <4>6. QED
          BY <2>1, <3>1, <4>3, <4>4, <4>5 DEF k
      <3>6. QED
        BY <3>4, <3>5
    <2>7. QED
      BY <2>5, <2>6
  <1>12. N \in S
    <2> HIDE DEF S
    <2>1. N \in Nat /\ 0 \in S /\ \A n \in 0 .. N - 1 : n \in S => n + 1 \in S
      BY <1>5, <1>10, <1>11
    <2>2. \A n \in 0 .. N : n \in S
      BY <2>1, IntervalInduction
    <2>3. QED
      BY <2>1, <2>2
  <1>13. end = Whole(Starred(d)) /\ Starred(d) \in Seq(Byte)
    BY <1>5, <1>7, <1>8, <1>9, <1>12
  <1>14. QED
    BY <1>6, <1>13, WholeFields DEF e

-----------------------------------------------------------------------------
(* What the client makes of a reply.                                       *)

ReadStates == [out : Seq(Byte), escaped : BOOLEAN]
Read(done) == [out |-> done, escaped |-> FALSE]
Half(done) == [out |-> done, escaped |-> TRUE]

\* The client takes a plain byte as it is.
LEMMA ReadPlain ==
    ASSUME NEW done, NEW byte, byte # Escape PROVE ReadByte(Read(done), byte) = Read(Append(done, byte))
  <1> DEFINE s == Read(done)
  <1>1. s.escaped = FALSE /\ s.out = done
    BY DEF Read
  <1>2. ReadByte(s, byte) = [s EXCEPT !.out = Append(@, byte)]
    <2> HIDE DEF s
    <2> QED BY <1>1 DEF ReadByte
  <1>3. QED
    BY <1>2 DEF Read

\* It waits for the second byte of an escape.
LEMMA ReadEscape == ASSUME NEW done PROVE ReadByte(Read(done), Escape) = Half(done)
  <1> DEFINE s == Read(done)
  <1>1. s.escaped = FALSE
    BY DEF Read
  <1>2. ReadByte(s, Escape) = [s EXCEPT !.escaped = TRUE]
    <2> HIDE DEF s
    <2> QED BY <1>1 DEF ReadByte
  <1>3. QED
    BY <1>2 DEF Read, Half

\* It takes the byte that the escape stands for.
LEMMA ReadFlipped == ASSUME NEW done, NEW byte PROVE ReadByte(Half(done), byte) = Read(Append(done, Flip(byte)))
  <1> DEFINE s == Half(done)
  <1>1. s.escaped = TRUE /\ s.out = done
    BY DEF Half
  <1>2. ReadByte(s, byte) = [out |-> Append(s.out, Flip(byte)), escaped |-> FALSE]
    <2> HIDE DEF s
    <2> QED BY <1>1, Zenon DEF ReadByte
  <1>3. QED
    BY <1>1, <1>2, Zenon DEF Read

\* The states that the client has, byte by byte.
LEMMA ReadRuns ==
    ASSUME NEW b \in Seq(Byte)
    PROVE  \E f : Stepping(f, ReadStates, Read(<<>>), Len(b), ReadSteps(ReadStates, b), Reading(Read(<<>>), b))
  <1>1. Read(<<>>) \in ReadStates
    BY DEF Read, ReadStates
  <1>2. ASSUME NEW s \in ReadStates, NEW i \in 1 .. Len(b) PROVE ReadByte(s, b[i]) \in ReadStates
    <2>1. s.out \in Seq(Byte) /\ b[i] \in Byte /\ Flip(b[i]) \in Byte
      BY FlipByte DEF ReadStates
    <2>2. Append(s.out, b[i]) \in Seq(Byte) /\ Append(s.out, Flip(b[i])) \in Seq(Byte)
      BY <2>1
    <2>3. CASE s.escaped
      <3>1. ReadByte(s, b[i]) = [out |-> Append(s.out, Flip(b[i])), escaped |-> FALSE]
        BY <2>3 DEF ReadByte
      <3>2. QED
        BY <2>2, <3>1 DEF ReadStates
    <2>4. CASE ~s.escaped /\ b[i] = Escape
      <3>1. ReadByte(s, b[i]) = [s EXCEPT !.escaped = TRUE]
        BY <2>4 DEF ReadByte
      <3>2. QED
        BY <3>1 DEF ReadStates
    <2>5. CASE ~s.escaped /\ b[i] # Escape
      <3>1. ReadByte(s, b[i]) = [s EXCEPT !.out = Append(@, b[i])]
        BY <2>5 DEF ReadByte
      <3>2. QED
        BY <2>2, <3>1 DEF ReadStates
    <2>6. QED
      BY <2>3, <2>4, <2>5
  <1>3. ReadSteps(ReadStates, b) \in [ReadStates \X (1 .. Len(b)) -> ReadStates]
    BY <1>2 DEF ReadSteps
  <1>4. QED
    BY <1>1, <1>3, ReadFold

\* A byte more at the end of what follows x.
Follows(x, y, v) == Append(x \o y, v) = x \o Append(y, v)

\* It does not matter for which part a byte is appended.
LEMMA AppendBehind ==
    ASSUME NEW T, NEW x \in Seq(T), NEW y \in Seq(T), NEW v \in T
    PROVE  Follows(x, y, v)
  BY DEF Follows

\* Where a plain byte is in a reply that starts with X bytes of text.
LEMMA PlainPlaces ==
    ASSUME NEW X \in Nat, NEW E \in Nat, NEW p \in 0 .. E, NEW q \in 0 .. E, q = p + 1
    PROVE  p + 1 \in 1 .. E /\ (X + p) + 1 = X + (p + 1) /\ (X + p) + 1 \in 1 .. X + E
           /\ ((X + p) + 1) - 1 = X + p /\ X + q = (X + p) + 1
  OBVIOUS

\* Where an escape is in such a reply.
LEMMA EscapePlacesBehind ==
    ASSUME NEW X \in Nat, NEW E \in Nat, NEW p \in 0 .. E, NEW q \in 0 .. E, q = p + 2
    PROVE  /\ p + 1 \in 1 .. E /\ (X + p) + 1 = X + (p + 1) /\ (X + p) + 1 \in 1 .. X + E
           /\ ((X + p) + 1) - 1 = X + p
           /\ p + 2 \in 1 .. E /\ (X + p) + 2 = X + (p + 2) /\ (X + p) + 2 \in 1 .. X + E
           /\ ((X + p) + 2) - 1 = (X + p) + 1 /\ X + q = (X + p) + 2
  OBVIOUS

\* Text without escapes, and escaped data behind it, come out as they went in.
LEMMA ReadsBack ==
    ASSUME NEW x \in Seq(Byte), NEW c \in Seq(Byte), \A j \in DOMAIN x : x[j] # Escape
    PROVE  Reading(Read(<<>>), x \o escape(c)) = Read(x \o c)
  <1> DEFINE N == Len(c)
             X == Len(x)
             e == escape(c)
             b == x \o e
             end == Reading(Read(<<>>), b)
  <1>1. e \in Seq(Byte)
    BY EscapeIsClean DEF EscapedSet
  <1>2. PICK at : Escaping(c, e, at)
    BY EscapePlaces
  <1> HIDE DEF e
  <1>3. /\ N \in Nat /\ X \in Nat /\ Len(e) \in Nat /\ b \in Seq(Byte) /\ Len(b) = X + Len(e)
        /\ \A j \in 1 .. X : b[j] = x[j] /\ x[j] # Escape
        /\ \A j \in 1 .. Len(e) : b[X + j] = e[j]
    BY <1>1
  <1>4. PICK r : Stepping(r, ReadStates, Read(<<>>), Len(b), ReadSteps(ReadStates, b), end)
    BY <1>3, ReadRuns
  <1> HIDE DEF b, end
  <1>5. /\ r[0] = Read(<<>>) /\ r[Len(b)] = end
        /\ \A i \in 1 .. Len(b) : r[i] = ReadByte(r[i - 1], b[i])
    <2>1. r[0] = Read(<<>>) /\ r[Len(b)] = end
      BY <1>4 DEF Stepping
    <2>2. ASSUME NEW i \in 1 .. Len(b) PROVE r[i] = ReadByte(r[i - 1], b[i])
      <3>1. i - 1 \in 0 .. Len(b)
        BY <1>3
      <3>2. r[i] = ReadSteps(ReadStates, b)[<<r[i - 1], i>>] /\ r[i - 1] \in ReadStates
        BY <1>4, <3>1 DEF Stepping
      <3>3. QED
        BY <3>2 DEF ReadSteps
    <2>3. QED
      BY <2>1, <2>2
  <1>6. r[X] = Read(x)
    <2> DEFINE S == {j \in Nat : r[j] = Read(SubSeq(x, 1, j))}
    <2>1. 0 \in S
      <3>1. SubSeq(x, 1, 0) = <<>>
        BY SubSeqEmpty
      <3>2. QED
        BY <1>5, <3>1
    <2>2. ASSUME NEW j \in 0 .. X - 1, j \in S PROVE j + 1 \in S
      <3> DEFINE k == j + 1
      <3>1. k \in 1 .. X /\ k \in 1 .. Len(b) /\ k - 1 = j /\ k \in Nat /\ 1 \in 1 .. k
        BY <1>3
      <3> HIDE DEF k
      <3>2. r[k] = ReadByte(Read(SubSeq(x, 1, k - 1)), x[k])
        BY <1>3, <1>5, <2>2, <3>1
      <3>3. r[k] = Read(Append(SubSeq(x, 1, k - 1), x[k]))
        BY <1>3, <3>1, <3>2, ReadPlain
      <3>4. Append(SubSeq(x, 1, k - 1), x[k]) = SubSeq(x, 1, k)
        BY <3>1, GrowingPart
      <3>5. QED
        BY <3>1, <3>3, <3>4 DEF k
    <2> HIDE DEF S, X
    <2>3. X \in Nat /\ 0 \in S /\ \A n \in 0 .. X - 1 : n \in S => n + 1 \in S
      BY <1>3, <2>1, <2>2
    <2>4. \A n \in 0 .. X : n \in S
      BY <2>3, IntervalInduction
    <2>5. r[X] = Read(SubSeq(x, 1, X))
      BY <2>3, <2>4 DEF S
    <2>6. SubSeq(x, 1, X) = x
      BY SubSeqFull DEF X
    <2>7. QED
      BY <2>5, <2>6
  <1> HIDE DEF N, X
  <1>7. at \in [0 .. N -> 0 .. Len(e)] /\ at[0] = 0 /\ at[N] = Len(e)
    BY <1>2 DEF Escaping, N
  <1> DEFINE S == {k \in Nat : r[X + at[k]] = Read(x \o SubSeq(c, 1, k))}
  <1>8. 0 \in S
    <2>1. SubSeq(c, 1, 0) = <<>>
      BY SubSeqEmpty
    <2>2. x \o <<>> = x /\ X + 0 = X
      BY <1>3
    <2>3. QED
      BY <1>6, <1>7, <2>1, <2>2
  <1>9. ASSUME NEW j \in 0 .. N - 1, j \in S PROVE j + 1 \in S
    <2> DEFINE k == j + 1
               l == X + at[j]
               y == x \o SubSeq(c, 1, j)
    <2>1. k \in 1 .. N /\ k - 1 = j /\ j \in 0 .. N /\ k \in 0 .. N /\ k \in Nat /\ 1 \in 1 .. k
      BY <1>3
    <2>2. at[j] \in 0 .. Len(e) /\ at[k] \in 0 .. Len(e) /\ l \in Nat /\ r[l] = Read(y)
      BY <1>3, <1>7, <1>9, <2>1
    <2>3. c[k] \in Byte
      BY <2>1, ElementOfSeq DEF N
    <2>4. SubSeq(c, 1, j) \in Seq(Byte) /\ SubSeq(c, 1, k) = Append(SubSeq(c, 1, j), c[k])
      <3>1. Append(SubSeq(c, 1, k - 1), c[k]) = SubSeq(c, 1, k)
        <4> HIDE DEF k
        <4> QED BY <2>1, GrowingPart DEF N
      <3>2. 1 \in 1 .. Len(c) + 1 /\ j \in 1 - 1 .. Len(c)
        BY <1>3, <2>1 DEF N
      <3>3. SubSeq(c, 1, j) \in Seq(Byte)
        BY <3>2, PartBytes
      <3>4. QED
        BY <2>1, <3>1, <3>3
    <2>5. Append(y, c[k]) = x \o SubSeq(c, 1, k)
      <3> DEFINE z == SubSeq(c, 1, j)
                 v == c[k]
      <3>1. z \in Seq(Byte) /\ v \in Byte /\ SubSeq(c, 1, k) = Append(z, v)
        BY <2>3, <2>4
      <3> HIDE DEF z, v, k
      <3>2. Append(x \o z, v) = x \o Append(z, v)
        <4>1. Follows(x, z, v)
          BY <3>1, AppendBehind
        <4>2. QED
          BY <4>1, Zenon DEF Follows
      <3>3. QED
        BY <3>1, <3>2 DEF z, v
    <2>6. /\ c[k] \in Special => at[k] = at[j] + 2 /\ e[at[j] + 1] = Escape /\ e[at[j] + 2] = Flip(c[k])
          /\ c[k] \notin Special => at[k] = at[j] + 1 /\ e[at[j] + 1] = c[k]
      BY <1>2, <2>1 DEF Escaping, N
    <2> HIDE DEF y
    <2>7. CASE c[k] \notin Special
      <3>1. at[k] = at[j] + 1 /\ e[at[j] + 1] = c[k] /\ c[k] # Escape
        BY <2>6, <2>7 DEF Special
      <3>2. at[j] + 1 \in 1 .. Len(e) /\ l + 1 = X + (at[j] + 1) /\ l + 1 \in 1 .. Len(b) /\ (l + 1) - 1 = l
            /\ X + at[k] = l + 1
        BY <1>3, <2>2, <3>1, PlainPlaces
      <3> HIDE DEF k, l
      <3>3. b[l + 1] = c[k]
        BY <1>3, <3>1, <3>2
      <3>4. r[l + 1] = ReadByte(Read(y), c[k])
        BY <1>5, <2>2, <3>2, <3>3
      <3>5. r[l + 1] = Read(Append(y, c[k]))
        BY <3>1, <3>4, ReadPlain
      <3>6. QED
        BY <2>1, <2>5, <3>2, <3>5 DEF k
    <2>8. CASE c[k] \in Special
      <3>1. at[k] = at[j] + 2 /\ e[at[j] + 1] = Escape /\ e[at[j] + 2] = Flip(c[k]) /\ Flip(Flip(c[k])) = c[k]
        BY <2>6, <2>8, FlipSpecial DEF Special
      <3>2. /\ at[j] + 1 \in 1 .. Len(e) /\ l + 1 = X + (at[j] + 1) /\ l + 1 \in 1 .. Len(b) /\ (l + 1) - 1 = l
            /\ at[j] + 2 \in 1 .. Len(e) /\ l + 2 = X + (at[j] + 2) /\ l + 2 \in 1 .. Len(b) /\ (l + 2) - 1 = l + 1
            /\ X + at[k] = l + 2
        <4> DEFINE p == at[j]
                   q == at[k]
        <4>1. p \in 0 .. Len(e) /\ q \in 0 .. Len(e) /\ q = p + 2
          BY <2>2, <3>1
        <4> HIDE DEF p, q
        <4>2. /\ p + 1 \in 1 .. Len(e) /\ (X + p) + 1 = X + (p + 1) /\ (X + p) + 1 \in 1 .. X + Len(e)
              /\ ((X + p) + 1) - 1 = X + p
              /\ p + 2 \in 1 .. Len(e) /\ (X + p) + 2 = X + (p + 2) /\ (X + p) + 2 \in 1 .. X + Len(e)
              /\ ((X + p) + 2) - 1 = (X + p) + 1 /\ X + q = (X + p) + 2
          BY <1>3, <4>1, EscapePlacesBehind
        <4>3. QED
          BY <1>3, <4>2 DEF p, q
      <3> HIDE DEF k, l
      <3>3. b[l + 1] = Escape /\ b[l + 2] = Flip(c[k])
        BY <1>3, <3>1, <3>2
      <3>4. r[l + 1] = ReadByte(Read(y), Escape) /\ r[l + 2] = ReadByte(r[l + 1], Flip(c[k]))
        BY <1>5, <2>2, <3>2, <3>3
      <3>5. r[l + 2] = Read(Append(y, c[k]))
        BY <3>1, <3>4, ReadEscape, ReadFlipped
      <3>6. QED
        BY <2>1, <2>5, <3>2, <3>5 DEF k
    <2>9. QED
      BY <2>7, <2>8
  <1>10. N \in S
    <2> HIDE DEF S
    <2>1. N \in Nat /\ 0 \in S /\ \A n \in 0 .. N - 1 : n \in S => n + 1 \in S
      BY <1>3, <1>8, <1>9
    <2>2. \A n \in 0 .. N : n \in S
      BY <2>1, IntervalInduction
    <2>3. QED
      BY <2>1, <2>2
  <1>11. SubSeq(c, 1, N) = c
    BY SubSeqFull DEF N
  <1>12. end = Read(x \o c)
    BY <1>3, <1>5, <1>7, <1>10, <1>11
  <1>13. QED
    BY <1>12 DEF end, b, e


\* The constants hold bytes.
LEMMA ConstantBytes ==
    /\ Payload \subseteq Seq(Byte) /\ Data \subseteq Seq(Byte) /\ File \in Seq(Byte)
    /\ Len(File) \in Nat /\ MaxFd \in 0 .. 10
  <1>1. Byte = 0 .. 255
    BY DEF Byte
  <1>2. Payload \cup Data \cup {File} \subseteq Seq(Byte)
    BY <1>1, GdbAssumption, Zenon
  <1>3. MaxFd \in 0 .. 10
    BY GdbAssumption
  <1>4. File \in Seq(Byte)
    BY <1>2
  <1>5. Len(File) \in Nat
    BY <1>4
  <1>6. QED
    BY <1>2, <1>3, <1>4, <1>5, Zenon

\* What the server can answer, and what it can send.
Replies ==
    {EmptyMessage, OK, StopReply, Hex} \cup {FileResponse(result) : result \in -1 .. 9}
        \cup {PreadResponse(File), FstatResponse(Len(File))}
Sendable == {<<Ack>>, <<BadAck>>} \cup {format_gdb_message(reply) : reply \in Replies}

\* A reply is text x with escaped data c behind it.
Readable(reply, x, c) ==
    /\ x \in Seq(Byte) /\ c \in Seq(Byte) /\ reply = x \o escape(c) /\ Len(x) + Len(c) # 1
    /\ \A j \in DOMAIN x : x[j] \notin {Dollar, Hash, Escape}

\* No data are escaped to none.
LEMMA EmptyEscape == escape(<<>>) = <<>>
  <1>1. <<>> \in Seq(Byte) /\ Len(<<>>) = 0
    OBVIOUS
  <1>2. PICK f : Stepping(f, EscapedSet(<<>>), <<>>, Len(<<>>), EscapeSteps(EscapedSet(<<>>), <<>>), escape(<<>>))
    BY <1>1, EscapeRuns
  <1>3. f[0] = <<>> /\ f[Len(<<>>)] = escape(<<>>)
    BY <1>2 DEF Stepping
  <1>4. QED
    BY <1>1, <1>3

\* Text that is sent as it is.
Text(x) == x \in Seq(Byte) /\ Len(x) # 1 /\ \A j \in DOMAIN x : x[j] \notin {Dollar, Hash, Escape}

\* Text is readable, with no data behind it.
LEMMA PlainText == ASSUME NEW x, Text(x) PROVE Readable(x, x, <<>>)
  <1>1. x \in Seq(Byte) /\ Len(x) # 1
    BY DEF Text
  <1>2. x \o <<>> = x /\ <<>> \in Seq(Byte) /\ Len(x) + Len(<<>>) # 1
    BY <1>1
  <1>3. x \o escape(<<>>) = x
    BY <1>2, EmptyEscape
  <1>4. QED
    BY <1>2, <1>3 DEF Readable, Text

\* Text of two or three bytes.
LEMMA TwoBytes ==
    ASSUME NEW a \in Byte \ {Dollar, Hash, Escape}, NEW b \in Byte \ {Dollar, Hash, Escape}
    PROVE  Text(<<a, b>>) /\ <<a>> \o <<b>> = <<a, b>>
  <1> DEFINE x == <<a, b>>
  <1>1. x \in Seq(Byte) /\ Len(x) = 2 /\ DOMAIN x = 1 .. 2 /\ x[1] = a /\ x[2] = b
    OBVIOUS
  <1>2. <<a>> \o <<b>> = x
    <2> DEFINE y == <<a>> \o <<b>>
    <2>1. y \in Seq(Byte) /\ Len(y) = 2 /\ y[1] = a /\ y[2] = b
      OBVIOUS
    <2> HIDE DEF y
    <2>2. y = x
      BY <2>1
    <2>3. QED
      BY <2>2 DEF y
  <1> HIDE DEF x
  <1>3. Text(x)
    BY <1>1 DEF Text
  <1>4. QED
    BY <1>2, <1>3 DEF x

\* Three plain bytes are text.
LEMMA ThreeBytes ==
    ASSUME NEW a \in Byte \ {Dollar, Hash, Escape}, NEW b \in Byte \ {Dollar, Hash, Escape},
           NEW c \in Byte \ {Dollar, Hash, Escape}
    PROVE  Text(<<a, b, c>>) /\ <<a>> \o <<b, c>> = <<a, b, c>> /\ Len(<<a, b, c>>) = 3
  <1> DEFINE x == <<a, b, c>>
  <1>1. x \in Seq(Byte) /\ Len(x) = 3 /\ DOMAIN x = 1 .. 3 /\ x[1] = a /\ x[2] = b /\ x[3] = c
    OBVIOUS
  <1>2. <<a>> \o <<b, c>> = x
    <2> DEFINE y == <<a>> \o <<b, c>>
    <2>1. y \in Seq(Byte) /\ Len(y) = 3 /\ y[1] = a /\ y[2] = b /\ y[3] = c
      OBVIOUS
    <2> HIDE DEF y
    <2>2. y = x
      BY <2>1
    <2>3. QED
      BY <2>2 DEF y
  <1> HIDE DEF x
  <1>3. Text(x)
    BY <1>1 DEF Text
  <1>4. QED
    BY <1>1, <1>2, <1>3 DEF x

\* The letters of the replies are plain.
LEMMA LettersArePlain ==
    {48, 53, 59, 70, 75, 79, 83, BadAck} \subseteq Byte \ {Dollar, Hash, Escape}
  BY DEF Byte, Dollar, Hash, Escape, BadAck

\* A digit is plain.
LEMMA DigitPlain == ASSUME NEW n \in 0 .. 15 PROVE Digit(n) \in Byte \ {Dollar, Hash, Escape}
  BY DigitValue, DigitIsPlain

\* A result of a file operation is text.
LEMMA FileResponseReadable ==
    ASSUME NEW result \in -1 .. 9
    PROVE  Readable(FileResponse(result), FileResponse(result), <<>>)
  <1>2. CASE result < 0
    <2>1. -result \in 0 .. 15
      BY <1>2
    <2> DEFINE d == Digit(-result)
    <2>2. d \in Byte \ {Dollar, Hash, Escape}
      BY <2>1, DigitPlain
    <2>3. FileResponse(result) = <<70>> \o <<BadAck, d>>
      BY <1>2 DEF FileResponse
    <2> HIDE DEF d
    <2>4. Text(<<70, BadAck, d>>) /\ <<70>> \o <<BadAck, d>> = <<70, BadAck, d>>
      BY <2>2, LettersArePlain, ThreeBytes
    <2>5. QED
      BY <2>3, <2>4, PlainText
  <1>3. CASE ~(result < 0)
    <2>1. result \in 0 .. 15
      BY <1>3
    <2> DEFINE d == Digit(result)
    <2>2. d \in Byte \ {Dollar, Hash, Escape}
      BY <2>1, DigitPlain
    <2>3. FileResponse(result) = <<70>> \o <<d>>
      BY <1>3 DEF FileResponse
    <2> HIDE DEF d
    <2>4. Text(<<70, d>>) /\ <<70>> \o <<d>> = <<70, d>>
      BY <2>2, LettersArePlain, TwoBytes
    <2>5. QED
      BY <2>3, <2>4, PlainText
  <1>4. QED
    BY <1>2, <1>3

\* Plain bytes.
Plain == {x \in Seq(Byte) : \A j \in DOMAIN x : x[j] \notin {Dollar, Hash, Escape}}

\* Plain bytes behind plain bytes are plain.
LEMMA PlainJoin ==
    ASSUME NEW x \in Plain, NEW y \in Plain
    PROVE  x \o y \in Plain /\ Len(x \o y) = Len(x) + Len(y)
  <1> DEFINE z == x \o y
  <1>1. /\ x \in Seq(Byte) /\ \A j \in DOMAIN x : x[j] \notin {Dollar, Hash, Escape}
        /\ y \in Seq(Byte) /\ \A j \in DOMAIN y : y[j] \notin {Dollar, Hash, Escape}
    BY DEF Plain
  <1>2. /\ z \in Seq(Byte) /\ Len(z) = Len(x) + Len(y)
        /\ \A j \in 1 .. Len(x) + Len(y) : z[j] = IF j <= Len(x) THEN x[j] ELSE y[j - Len(x)]
    <2>1. x \in Seq(Byte) /\ y \in Seq(Byte)
      BY <1>1
    <2>2. QED
      BY <2>1, ConcatProperties
  <1> HIDE DEF z
  <1>3. ASSUME NEW j \in DOMAIN z PROVE z[j] \notin {Dollar, Hash, Escape}
    <2>1. j \in 1 .. Len(x) + Len(y) /\ Len(x) \in Nat /\ Len(y) \in Nat
      BY <1>1, <1>2
    <2>2. CASE j <= Len(x)
      <3>1. j \in DOMAIN x /\ z[j] = x[j]
        BY <1>1, <1>2, <2>1, <2>2
      <3>2. QED
        BY <1>1, <3>1
    <2>3. CASE j > Len(x)
      <3>1. j - Len(x) \in DOMAIN y /\ z[j] = y[j - Len(x)]
        BY <1>1, <1>2, <2>1, <2>3
      <3>2. QED
        BY <1>1, <3>1
    <2>4. QED
      BY <2>1, <2>2, <2>3
  <1>4. z \in Plain
    BY <1>2, <1>3 DEF Plain
  <1>5. QED
    BY <1>2, <1>4 DEF z

\* One plain byte.
LEMMA PlainByte ==
    ASSUME NEW c \in Byte \ {Dollar, Hash, Escape}
    PROVE  <<c>> \in Plain /\ Len(<<c>>) = 1
  BY DEF Plain

\* A digit more behind plain bytes.
LEMMA PlainDigit ==
    ASSUME NEW d \in 0 .. 15, NEW x \in Plain
    PROVE  Append(x, Digit(d)) \in Plain
  <1> DEFINE c == Digit(d)
  <1>1. c \in Byte \ {Dollar, Hash, Escape}
    BY DigitPlain
  <1> HIDE DEF c
  <1>2. x \o <<c>> \in Plain
    BY <1>1, PlainByte, PlainJoin
  <1>3. x \in Seq(Byte)
    BY DEF Plain
  <1>4. Append(x, c) = x \o <<c>>
    BY <1>1, <1>3, AppendIsConcat
  <1>5. QED
    BY <1>2, <1>4 DEF c

\* The digits of k, from those of smaller numbers, and those of all numbers up
\* to n.
NextDigits(g, k) == IF k < 16 THEN <<Digit(k)>> ELSE Append(g[k \div 16], Digit(k % 16))
Digitised(g, n)  == g = [k \in 0 .. n |-> NextDigits(g, k)]

\* A sixteenth of a number is less than it.
LEMMA Sixteenth ==
    ASSUME NEW k \in Nat
    PROVE  k % 16 \in 0 .. 15 /\ (k >= 16 => k \div 16 \in 0 .. k - 1)
  OBVIOUS

\* Digitised() has a solution for every n ...
LEMMA DigitsExist == \A n \in Nat : \E g : Digitised(g, n)
  <1> DEFINE S == {n \in Nat : \E g : Digitised(g, n)}
  <1>1. 0 \in S
    <2> DEFINE g == [k \in 0 .. 0 |-> <<Digit(k)>>]
    <2>1. \A k \in 0 .. 0 : NextDigits(g, k) = <<Digit(k)>>
      BY DEF NextDigits
    <2>2. g = [k \in 0 .. 0 |-> NextDigits(g, k)]
      BY <2>1
    <2> HIDE DEF g
    <2>3. Digitised(g, 0)
      BY <2>2 DEF Digitised
    <2>4. QED
      BY <2>3
  <1>2. ASSUME NEW n \in Nat, n \in S PROVE n + 1 \in S
    <2>1. PICK g : Digitised(g, n)
      BY <1>2
    <2> DEFINE f == [k \in 0 .. n + 1 |-> NextDigits(g, k)]
    <2>2. \A k \in 0 .. n : g[k] = NextDigits(g, k)
      BY <2>1 DEF Digitised
    <2>3. \A k \in 0 .. n : f[k] = g[k]
      BY <2>2
    <2>4. ASSUME NEW k \in 0 .. n + 1 PROVE NextDigits(f, k) = NextDigits(g, k)
      <3> HIDE DEF f
      <3>1. CASE k < 16
        BY <3>1 DEF NextDigits
      <3>2. CASE k >= 16
        <4>1. k \div 16 \in 0 .. n
          BY <3>2, Sixteenth
        <4>2. f[k \div 16] = g[k \div 16]
          BY <2>3, <4>1
        <4>3. QED
          BY <4>2 DEF NextDigits
      <3>3. QED
        BY <3>1, <3>2
    <2>5. f = [k \in 0 .. n + 1 |-> NextDigits(f, k)]
      BY <2>4
    <2> HIDE DEF f
    <2>6. Digitised(f, n + 1)
      BY <2>5 DEF Digitised
    <2>7. QED
      BY <2>6
  <1> HIDE DEF S
  <1>3. \A n \in Nat : n \in S
    BY <1>1, <1>2, SetInduction
  <1>4. QED
    BY <1>3 DEF S

\* ... and each of its values is plain.
LEMMA HexadecimalPlain == ASSUME NEW n \in Nat PROVE Hexadecimal(n) \in Plain
  <1> DEFINE of == CHOOSE g : Digitised(g, n)
             S == {m \in Nat : m <= n => \A j \in 0 .. m : of[j] \in Plain}
  <1>1. Hexadecimal(n) = of[n]
    BY Zenon DEF Hexadecimal, Digitised, NextDigits
  <1>2. Digitised(of, n)
    BY DigitsExist
  <1> HIDE DEF of
  <1>3. \A k \in 0 .. n : of[k] = NextDigits(of, k)
    BY <1>2 DEF Digitised
  <1>4. ASSUME NEW k \in 0 .. n, \A j \in 0 .. k - 1 : of[j] \in Plain PROVE of[k] \in Plain
    <2>1. of[k] = NextDigits(of, k)
      BY <1>3
    <2>2. CASE k < 16
      <3>1. k \in 0 .. 15 /\ NextDigits(of, k) = <<Digit(k)>>
        BY <2>2 DEF NextDigits
      <3>2. QED
        BY <2>1, <3>1, DigitPlain, PlainByte
    <2>3. CASE k >= 16
      <3>1. k \div 16 \in 0 .. k - 1 /\ k % 16 \in 0 .. 15
        BY <2>3, Sixteenth
      <3>2. NextDigits(of, k) = Append(of[k \div 16], Digit(k % 16))
        BY <2>3 DEF NextDigits
      <3>3. of[k \div 16] \in Plain
        BY <1>4, <3>1
      <3>4. QED
        BY <2>1, <3>1, <3>2, <3>3, PlainDigit
    <2>4. QED
      BY <2>2, <2>3
  <1>5. 0 \in S
    <2>1. of[0] \in Plain
      BY <1>4
    <2>2. QED
      BY <2>1
  <1>6. ASSUME NEW m \in Nat, m \in S PROVE m + 1 \in S
    <2>1. ASSUME m + 1 <= n, NEW j \in 0 .. m + 1 PROVE of[j] \in Plain
      <3>1. \A i \in 0 .. m : of[i] \in Plain
        BY <1>6, <2>1
      <3>2. CASE j <= m
        BY <3>1, <3>2
      <3>3. CASE j = m + 1
        BY <1>4, <2>1, <3>1, <3>3
      <3>4. QED
        BY <3>2, <3>3
    <2>2. QED
      BY <2>1
  <1> HIDE DEF S
  <1>7. \A m \in Nat : m \in S
    BY <1>5, <1>6, SetInduction
  <1>8. of[n] \in Plain
    BY <1>7 DEF S
  <1>9. QED
    BY <1>1, <1>8

\* The start of a reply with a chunk.
Heading(chunk) == <<70>> \o Hexadecimal(Len(chunk)) \o <<59>>

\* A chunk of a file is text and escaped data, however long it is.
LEMMA PreadResponseReadable ==
    ASSUME NEW chunk \in Seq(Byte)
    PROVE  Readable(PreadResponse(chunk), Heading(chunk), chunk)
  <1> DEFINE h == Hexadecimal(Len(chunk))
             f == <<70>>
             e == <<59>>
             x == f \o h \o e
  <1>1. Len(chunk) \in Nat
    OBVIOUS
  <1>2. h \in Plain
    BY <1>1, HexadecimalPlain
  <1>3. f \in Plain /\ Len(f) = 1 /\ e \in Plain /\ Len(e) = 1
    BY LettersArePlain, PlainByte
  <1>4. x = Heading(chunk)
    BY Zenon DEF Heading
  <1>5. PreadResponse(chunk) = x \o escape(chunk)
    BY Zenon DEF PreadResponse
  <1> HIDE DEF f, e, h
  <1>6. f \o h \in Plain /\ Len(f \o h) = 1 + Len(h)
    BY <1>2, <1>3, PlainJoin
  <1>7. x \in Plain /\ Len(x) = Len(f \o h) + 1
    BY <1>3, <1>6, PlainJoin
  <1> HIDE DEF x
  <1>8. Len(h) \in Nat
    BY <1>2 DEF Plain
  <1>9. Len(x) + Len(chunk) # 1
    BY <1>1, <1>6, <1>7, <1>8
  <1>10. x \in Seq(Byte) /\ \A j \in DOMAIN x : x[j] \notin {Dollar, Hash, Escape}
    BY <1>7 DEF Plain
  <1>11. Readable(PreadResponse(chunk), x, chunk)
    BY <1>5, <1>9, <1>10 DEF Readable
  <1>12. QED
    BY <1>4, <1>11

\* Every reply is text and escaped data.
LEMMA ReplyReadable ==
    ASSUME NEW reply \in Replies
    PROVE  \E x, c : Readable(reply, x, c)
  <1>1. Readable(EmptyMessage, EmptyMessage, <<>>)
    <2>1. Text(<<>>)
      BY DEF Text
    <2>2. QED
      BY <2>1, PlainText DEF EmptyMessage
  <1>2. Readable(OK, OK, <<>>)
    <2>1. Text(<<79, 75>>)
      BY LettersArePlain, TwoBytes
    <2>2. QED
      BY <2>1, PlainText DEF OK
  <1>3. Readable(StopReply, StopReply, <<>>)
    <2>1. Text(<<83, 48, 53>>)
      BY LettersArePlain, ThreeBytes
    <2>2. QED
      BY <2>1, PlainText DEF StopReply
  <1>4. Readable(Hex, Hex, <<>>)
    <2>1. Text(<<48, 48>>)
      BY LettersArePlain, TwoBytes
    <2>2. QED
      BY <2>1, PlainText DEF Hex
  <1>5. Readable(PreadResponse(File), Heading(File), File)
    BY ConstantBytes, PreadResponseReadable
  <1>6. \E x, c : Readable(FstatResponse(Len(File)), x, c)
    <2> DEFINE size == [i \in 1 .. 4 |-> (Len(File) \div <<16777216, 65536, 256, 1>>[i]) % 256]
               chunk == <<224>> \o size
    <2>1. ASSUME NEW i \in 1 .. 4 PROVE (Len(File) \div <<16777216, 65536, 256, 1>>[i]) % 256 \in Byte
      <3>1. PICK k \in {1, 256, 65536, 16777216} : <<16777216, 65536, 256, 1>>[i] = k
        OBVIOUS
      <3>2. Len(File) \div k \in Nat
        BY ConstantBytes
      <3>3. \A n \in Nat : n % 256 \in Byte
        BY DEF Byte
      <3>4. QED
        BY <3>1, <3>2, <3>3
    <2>2. chunk \in Seq(Byte)
      <3>1. size \in Seq(Byte)
        BY <2>1
      <3> HIDE DEF size
      <3>2. 224 \in Byte
        BY DEF Byte
      <3>3. QED
        BY <3>1, <3>2
    <2>3. FstatResponse(Len(File)) = PreadResponse(chunk)
      BY DEF FstatResponse
    <2> HIDE DEF chunk
    <2>4. QED
      BY <2>2, <2>3, PreadResponseReadable
  <1>7. QED
    BY <1>1, <1>2, <1>3, <1>4, <1>5, <1>6, FileResponseReadable DEF Replies

\* The client reads such a reply to its end.
LEMMA ClientReadsIt ==
    ASSUME NEW reply, NEW x, NEW c, Readable(reply, x, c)
    PROVE  ClientReads(format_gdb_message(reply)) = x \o c
  <1> DEFINE m == format_gdb_message(reply)
             n == Len(reply)
             sum == checksum(reply)
             hi == Digit(sum \div 16)
             lo == Digit(sum % 16)
  <1>1. x \in Seq(Byte) /\ c \in Seq(Byte) /\ reply = x \o escape(c)
    BY DEF Readable
  <1>2. escape(c) \in Seq(Byte) /\ \A i \in DOMAIN escape(c) : escape(c)[i] \notin {Dollar, Hash}
    BY <1>1, EscapeIsClean DEF EscapedSet
  <1>3. reply \in Seq(Byte) /\ \A i \in DOMAIN reply : reply[i] \notin {Dollar, Hash}
    <2> DEFINE e == escape(c)
    <2> HIDE DEF e
    <2>1. e \in Seq(Byte) /\ (\A i \in DOMAIN e : e[i] \notin {Dollar, Hash}) /\ reply = x \o e
          /\ \A i \in DOMAIN x : x[i] \notin {Dollar, Hash}
      BY <1>1, <1>2 DEF e, Readable
    <2>2. reply \in Seq(Byte) /\ DOMAIN reply = 1 .. Len(x) + Len(e)
          /\ (\A i \in 1 .. Len(x) : reply[i] = x[i])
          /\ \A i \in Len(x) + 1 .. Len(x) + Len(e) : reply[i] = e[i - Len(x)] /\ i - Len(x) \in DOMAIN e
      BY <1>1, <2>1
    <2>3. QED
      BY <1>1, <2>1, <2>2
  <1>4. m \in Seq(Byte) /\ Len(m) = n + 4 /\ n \in Nat /\ Contents(m) = reply
    BY <1>3, PacketShape
  <1>5. SubSeq(m, Len(m) - 1, Len(m)) = <<hi, lo>>
    <2>1. sum \in Byte
      BY <1>3, ChecksumByte
    <2>2. hi \in Byte /\ lo \in Byte
      <3>1. sum \div 16 \in 0 .. 15 /\ sum % 16 \in 0 .. 15
        <4> HIDE DEF sum
        <4>1. QED
          BY <2>1 DEF Byte
      <3>2. QED
        BY <3>1, DigitPlain
    <2>3. m = <<Dollar>> \o reply \o <<Hash, hi, lo>>
      BY DEF format_gdb_message
    <2>4. Dollar \in Byte /\ Hash \in Byte
      BY DEF Dollar, Hash, Byte
    <2> HIDE DEF hi, lo, m, n
    <2>5. m[n + 3] = hi /\ m[n + 4] = lo
      BY <1>3, <2>2, <2>3, <2>4 DEF n
    <2>6. Len(m) - 1 \in 1 .. Len(m) + 1 /\ Len(m) \in (Len(m) - 1) - 1 .. Len(m)
          /\ Len(m) - (Len(m) - 1) + 1 = 2 /\ (Len(m) - 1) + 1 - 1 = n + 3 /\ (Len(m) - 1) + 2 - 1 = n + 4
      BY <1>4
    <2> DEFINE t == SubSeq(m, Len(m) - 1, Len(m))
    <2>7. t \in Seq(Byte) /\ Len(t) = 2 /\ \A i \in 1 .. 2 : t[i] = m[(Len(m) - 1) + i - 1]
      BY <1>4, <2>6, PartBytes
    <2>8. t[1] = hi /\ t[2] = lo
      BY <2>5, <2>6, <2>7
    <2> HIDE DEF t
    <2>9. t = <<hi, lo>>
      BY <2>7, <2>8
    <2>10. QED
      BY <2>9 DEF t
  <1>6. Hash \notin ToSet(reply) /\ Dollar \notin ToSet(reply)
    BY <1>3 DEF ToSet
  <1>7. ClientReads(m) = Reading(Read(<<>>), reply).out
    <2>1. SubSeq(m, 2, Len(m) - 3) = reply
      BY <1>4 DEF Contents
    <2> HIDE DEF m
    <2>2. QED
      BY <1>5, <1>6, <2>1, Zenon DEF ClientReads, Reading, Read
  <1>8. Reading(Read(<<>>), reply) = Read(x \o c)
    BY <1>1, ReadsBack DEF Readable
  <1>9. QED
    BY <1>7, <1>8 DEF Read

\* What the client reads is not taken for a reply that it cannot read.
LEMMA NotOneByte == ASSUME NEW x \in Seq(Byte), NEW c \in Seq(Byte), Len(x) + Len(c) # 1 PROVE x \o c # <<Hash>>
  <1> DEFINE y == x \o c
  <1>1. Len(y) # 1 /\ Len(<<Hash>>) = 1
    OBVIOUS
  <1> HIDE DEF y
  <1>2. y # <<Hash>>
    BY <1>1, Zenon
  <1>3. QED
    BY <1>2 DEF y

\* Whatever is sent and is not an acknowledgement, the client reads.
LEMMA SendableReads ==
    ASSUME NEW m \in Sendable, Len(m) > 1
    PROVE  ClientReads(m) # <<Hash>>
  <1>1. Len(<<Ack>>) = 1 /\ Len(<<BadAck>>) = 1
    OBVIOUS
  <1>2. m # <<Ack>> /\ m # <<BadAck>>
    <2>1. ~(1 > 1)
      OBVIOUS
    <2>2. QED
      BY <1>1, <2>1, Zenon
  <1>3. PICK reply \in Replies : m = format_gdb_message(reply)
    BY <1>2 DEF Sendable
  <1>4. PICK x, c : Readable(reply, x, c)
    BY ReplyReadable
  <1>5. ClientReads(m) = x \o c
    BY <1>3, <1>4, ClientReadsIt
  <1>6. x \o c # <<Hash>>
    BY <1>4, NotOneByte DEF Readable
  <1>7. QED
    BY <1>5, <1>6

-----------------------------------------------------------------------------
(* Acting on messages.                                                     *)

\* The server while it acts on the messages of a read; H are commands.
ServerStates(H) ==
    [alive : {"open", "detached", "raised"}, handled : Seq(H), stops : Nat, out : Seq(Sendable),
     open_fds : SUBSET (0 .. MaxFd - 1)]

\* From s to t there is at most an answer: the commands and interrupts are the
\* same, and nothing was raised.
Answers(H, s, t) ==
    /\ t \in ServerStates(H)
    /\ t.alive = s.alive \/ t.alive = "detached"
    /\ t.handled = s.handled /\ t.stops = s.stops

\* Sending keeps the type of the state, and nothing else changes.
LEMMA SendType ==
    ASSUME NEW H, NEW s \in ServerStates(H), NEW bytes \in Sendable
    PROVE  LET t == [s EXCEPT !.out = Append(@, bytes)]
           IN  Answers(H, s, t) /\ t.alive = s.alive
  <1> DEFINE all == Append(s.out, bytes)
             t == [s EXCEPT !.out = all]
  <1>1. all \in Seq(Sendable)
    BY DEF ServerStates
  <1> HIDE DEF all
  <1>2. t \in ServerStates(H) /\ t.alive = s.alive /\ t.handled = s.handled /\ t.stops = s.stops
    BY <1>1 DEF ServerStates
  <1>3. QED
    BY <1>2 DEF Answers, all

\* So does a reply.
LEMMA ReplyType ==
    ASSUME NEW H, NEW s \in ServerStates(H), NEW reply \in Replies
    PROVE  Answers(H, s, Reply(s, reply)) /\ Reply(s, reply).alive = s.alive
  <1>1. format_gdb_message(reply) \in Sendable
    BY DEF Sendable
  <1>2. QED
    BY <1>1, SendType, Zenon DEF Reply

\* A state with an answer more, after a change that adds no command.
LEMMA ReplyAfter ==
    ASSUME NEW H, NEW s, NEW t, Answers(H, s, t), NEW reply \in Replies
    PROVE  Answers(H, s, Reply(t, reply))
  <1>1. t \in ServerStates(H)
    BY DEF Answers
  <1>2. Answers(H, t, Reply(t, reply))
    BY <1>1, ReplyType
  <1>3. QED
    BY <1>2 DEF Answers

\* So does a change of the descriptors.
LEMMA FdsType ==
    ASSUME NEW H, NEW s \in ServerStates(H), NEW fds \in SUBSET (0 .. MaxFd - 1)
    PROVE  Answers(H, s, [s EXCEPT !.open_fds = fds])
  BY DEF Answers, ServerStates

\* The lowest free descriptor.
LEMMA LowestFree ==
    ASSUME NEW free \in SUBSET (0 .. MaxFd - 1), free # {}
    PROVE  (CHOOSE f \in free : \A g \in free : f <= g) \in free
  <1>1. free \subseteq Nat
    BY ConstantBytes
  <1>2. PICK f \in free : \A g \in free : <<g, f>> \notin OpToRel(<, Nat)
    BY <1>1, NatLessThanWellFounded, WFMin
  <1>3. \A g \in free : f <= g
    <2>1. ASSUME NEW g \in free PROVE f <= g
      <3>1. f \in Nat /\ g \in Nat
        BY <1>1
      <3>2. <<g, f>> \notin OpToRel(<, Nat)
        BY <1>2
      <3>3. ~(g < f)
        BY <3>1, <3>2 DEF OpToRel
      <3>4. QED
        BY <3>1, <3>3
    <2>2. QED
      BY <2>1
  <1>4. QED
    BY <1>3

\* vFile:open does no more than answer.
LEMMA OpenAnswers ==
    ASSUME NEW H, NEW s \in ServerStates(H)
    PROVE  Answers(H, s, handle_file_open(s))
  <1> DEFINE free == (0 .. MaxFd - 1) \ s.open_fds
             fd == CHOOSE f \in free : \A g \in free : f <= g
             t == [s EXCEPT !.open_fds = s.open_fds \cup {fd}]
  <1>1. handle_file_open(s) = IF free = {} THEN Reply(s, EmptyMessage) ELSE Reply(t, FileResponse(fd))
    BY Zenon DEF handle_file_open
  <1>2. EmptyMessage \in Replies
    BY DEF Replies
  <1>3. CASE free = {}
    BY <1>1, <1>2, <1>3, ReplyType
  <1>4. CASE free # {}
    <2>1. fd \in free
      BY <1>4, LowestFree
    <2> HIDE DEF fd
    <2>2. fd \in 0 .. MaxFd - 1 /\ s.open_fds \cup {fd} \in SUBSET (0 .. MaxFd - 1)
      BY <2>1 DEF ServerStates
    <2>3. fd \in -1 .. 9
      BY <2>2, ConstantBytes
    <2>4. FileResponse(fd) \in Replies
      BY <2>3 DEF Replies
    <2>5. Answers(H, s, t)
      BY <2>2, FdsType
    <2> HIDE DEF t, free
    <2>6. QED
      BY <1>1, <1>4, <2>4, <2>5, ReplyAfter
  <1>5. QED
    BY <1>3, <1>4

\* vFile:close does no more than answer.
LEMMA CloseAnswers ==
    ASSUME NEW H, NEW s \in ServerStates(H), NEW fd
    PROVE  Answers(H, s, handle_file_close(s, fd))
  <1> DEFINE t == [s EXCEPT !.open_fds = s.open_fds \ {fd}]
             result == IF fd \in s.open_fds THEN 0 ELSE -1
  <1>1. handle_file_close(s, fd) = Reply(t, FileResponse(result))
    BY Zenon DEF handle_file_close
  <1>2. s.open_fds \ {fd} \in SUBSET (0 .. MaxFd - 1)
    BY DEF ServerStates
  <1>3. result \in -1 .. 9
    OBVIOUS
  <1>4. FileResponse(result) \in Replies
    BY <1>3 DEF Replies
  <1>5. Answers(H, s, t)
    BY <1>2, FdsType
  <1> HIDE DEF t, result
  <1>6. QED
    BY <1>1, <1>4, <1>5, ReplyAfter

\* No 'v' packet does more than be answered.
LEMMA ExtendedAnswers ==
    ASSUME NEW H, NEW s \in ServerStates(H), NEW p
    PROVE  Answers(H, s, handle_extended(s, p))
  <1>1. /\ EmptyMessage \in Replies /\ FileResponse(-1) \in Replies /\ FileResponse(0) \in Replies
        /\ FstatResponse(Len(File)) \in Replies /\ PreadResponse(File) \in Replies
    <2>1. -1 \in -1 .. 9 /\ 0 \in -1 .. 9
      OBVIOUS
    <2>2. QED
      BY <2>1, Zenon DEF Replies
  <1>2. Answers(H, s, handle_file_fstat(s, p[3] - 48))
    BY <1>1, ReplyType DEF handle_file_fstat
  <1>3. Answers(H, s, handle_file_pread(s, p[3] - 48))
    BY <1>1, ReplyType DEF handle_file_pread
  <1>4. Answers(H, s, handle_file_open(s)) /\ Answers(H, s, handle_file_close(s, p[3] - 48))
    BY OpenAnswers, CloseAnswers
  <1>5. Answers(H, s, Reply(s, EmptyMessage)) /\ Answers(H, s, Reply(s, FileResponse(0)))
    BY <1>1, ReplyType
  <1>6. QED
    BY <1>2, <1>3, <1>4, <1>5 DEF handle_extended, Fd


\* No handler does more than answer, or detach.
LEMMA ActAnswers ==
    ASSUME NEW H, NEW s \in ServerStates(H), NEW p
    PROVE  Answers(H, s, Act(s, p))
  <1>1. EmptyMessage \in Replies /\ OK \in Replies /\ StopReply \in Replies /\ Hex \in Replies
    BY Zenon DEF Replies
  <1>2. /\ Answers(H, s, Reply(s, EmptyMessage)) /\ Answers(H, s, Reply(s, OK))
        /\ Answers(H, s, Reply(s, StopReply)) /\ Answers(H, s, Reply(s, Hex))
    BY <1>1, ReplyType
  <1>3. Answers(H, s, handle_query(s, p))
    BY <1>2 DEF handle_query
  <1>4. Answers(H, s, handle_breakpoints(s, p))
    BY <1>2 DEF handle_breakpoints
  <1>5. Answers(H, s, handle_extended(s, p))
    BY ExtendedAnswers
  <1>6. Answers(H, s, s)
    BY DEF Answers
  <1>7. Answers(H, s, Reply([s EXCEPT !.alive = "detached"], OK))
    <2> DEFINE t == [s EXCEPT !.alive = "detached"]
    <2>1. Answers(H, s, t)
      BY DEF Answers, ServerStates
    <2> HIDE DEF t
    <2>2. Answers(H, s, Reply(t, OK))
      BY <1>1, <2>1, ReplyAfter
    <2>3. QED
      BY <2>2 DEF t
  <1>8. QED
    BY <1>2, <1>3, <1>4, <1>5, <1>6, <1>7 DEF Act

\* A packet's contents end the session: an exception in its constructor or in
\* the Debugger's handler.
Culprit(p) == p[1] \in handlers /\ (Unparsed(p) \/ Unhandled(p))
Raiser(m)  == Verdict(m) = "raise" \/ (Verdict(m) = "good" /\ Culprit(Contents(m.bytes)))

\* A command that the Debugger is given is added to those before.
LEMMA TakenType ==
    ASSUME NEW H, NEW s \in ServerStates(H), NEW command \in H
    PROVE  LET t == [s EXCEPT !.handled = Append(@, command)]
           IN  /\ t \in ServerStates(H) /\ t.alive = s.alive /\ t.handled = Append(s.handled, command)
               /\ t.stops = s.stops
  <1> DEFINE all == Append(s.handled, command)
             t == [s EXCEPT !.handled = all]
  <1>1. all \in Seq(H)
    BY DEF ServerStates
  <1> HIDE DEF all
  <1>2. t \in ServerStates(H) /\ t.alive = s.alive /\ t.handled = all /\ t.stops = s.stops
    BY <1>1 DEF ServerStates
  <1>3. QED
    BY <1>2 DEF all

\* An exception keeps the type of the state.
LEMMA RaisedType ==
    ASSUME NEW H, NEW s \in ServerStates(H)
    PROVE  LET t == [s EXCEPT !.alive = "raised"]
           IN  t \in ServerStates(H) /\ t.alive = "raised" /\ t.stops = s.stops
  BY DEF ServerStates

\* An interrupt that is acted on keeps it as well.
LEMMA StopsType ==
    ASSUME NEW H, NEW s \in ServerStates(H)
    PROVE  LET t == [s EXCEPT !.stops = @ + 1]
           IN  t \in ServerStates(H) /\ t.alive = s.alive
  <1> DEFINE n == s.stops + 1
  <1>1. n \in Nat
    BY DEF ServerStates
  <1> HIDE DEF n
  <1>2. [s EXCEPT !.stops = n] \in ServerStates(H) /\ [s EXCEPT !.stops = n].alive = s.alive
    BY <1>1 DEF ServerStates
  <1>3. QED
    BY <1>2 DEF n

\* Acting on a packet raises only if its contents do.
LEMMA DispatchType ==
    ASSUME NEW H, NEW s \in ServerStates(H), NEW p, Received(p) \in H, s.alive # "raised"
    PROVE  /\ Dispatch(s, p) \in ServerStates(H) /\ (Dispatch(s, p).alive = "raised" => Culprit(p))
           /\ Dispatch(s, p).stops = s.stops
  <1> DEFINE taken == [s EXCEPT !.handled = Append(@, Received(p))]
  <1>1. taken \in ServerStates(H) /\ taken.alive = s.alive /\ taken.stops = s.stops
    BY TakenType
  <1>2. Dispatch(s, p) = IF p[1] \notin handlers THEN s
                         ELSE IF Unparsed(p) THEN [s EXCEPT !.alive = "raised"]
                         ELSE IF Unhandled(p) THEN [taken EXCEPT !.alive = "raised"] ELSE Act(taken, p)
    BY Zenon DEF Dispatch
  <1> HIDE DEF taken
  <1>3. CASE p[1] \notin handlers
    BY <1>2, <1>3
  <1>4. CASE p[1] \in handlers /\ (Unparsed(p) \/ Unhandled(p))
    BY <1>1, <1>2, <1>4, RaisedType DEF Culprit
  <1>5. CASE p[1] \in handlers /\ ~Unparsed(p) /\ ~Unhandled(p)
    <2>1. Dispatch(s, p) = Act(taken, p)
      BY <1>2, <1>5
    <2>2. Answers(H, taken, Act(taken, p))
      BY <1>1, ActAnswers
    <2>3. QED
      BY <1>1, <2>1, <2>2 DEF Answers
  <1>6. QED
    BY <1>3, <1>4, <1>5

\* One round of the second loop.
LEMMA HandleType ==
    ASSUME NEW H, NEW s \in ServerStates(H), NEW m, Verdict(m) = "good" => Received(Contents(m.bytes)) \in H
    PROVE  /\ HandleMessage(s, m) \in ServerStates(H)
           /\ HandleMessage(s, m).alive = "raised" => s.alive = "raised" \/ Raiser(m)
           /\ Verdict(m) # "stop" => HandleMessage(s, m).stops = s.stops
  <1> DEFINE acked == [s EXCEPT !.out = Append(@, <<Ack>>)]
  <1>1. <<Ack>> \in Sendable /\ <<BadAck>> \in Sendable /\ StopReply \in Replies
    BY Zenon DEF Sendable, Replies
  <1>2. acked \in ServerStates(H) /\ acked.alive = s.alive /\ acked.stops = s.stops
    BY <1>1, SendType DEF Answers
  <1>3. HandleMessage(s, m) =
            IF s.alive = "raised" THEN s
            ELSE CASE Verdict(m) = "stop"  -> Reply([acked EXCEPT !.stops = @ + 1], StopReply)
                   [] Verdict(m) = "raise" -> [acked EXCEPT !.alive = "raised"]
                   [] Verdict(m) = "bad"   -> [acked EXCEPT !.out = Append(@, <<BadAck>>)]
                   [] Verdict(m) = "good"  -> Dispatch(acked, Contents(m.bytes))
    BY Zenon DEF HandleMessage
  <1>4. Verdict(m) \in {"stop", "raise", "bad", "good"}
    BY DEF Verdict
  <1> HIDE DEF acked
  <1>5. CASE s.alive = "raised"
    BY <1>3, <1>5
  <1>6. CASE s.alive # "raised" /\ Verdict(m) = "stop"
    <2> DEFINE t == [acked EXCEPT !.stops = @ + 1]
    <2>1. t \in ServerStates(H) /\ t.alive = acked.alive
      BY <1>2, StopsType
    <2>2. HandleMessage(s, m) = Reply(t, StopReply)
      BY <1>3, <1>6
    <2> HIDE DEF t
    <2>3. Answers(H, t, Reply(t, StopReply)) /\ Reply(t, StopReply).alive = t.alive
      BY <1>1, <2>1, ReplyType
    <2>4. QED
      BY <1>2, <1>6, <2>1, <2>2, <2>3 DEF Answers
  <1>7. CASE s.alive # "raised" /\ Verdict(m) = "raise"
    <2>1. HandleMessage(s, m) = [acked EXCEPT !.alive = "raised"]
      BY <1>3, <1>7
    <2>2. QED
      BY <1>2, <1>7, <2>1, RaisedType DEF Raiser
  <1>8. CASE s.alive # "raised" /\ Verdict(m) = "bad"
    <2>1. HandleMessage(s, m) = [acked EXCEPT !.out = Append(@, <<BadAck>>)]
      BY <1>3, <1>8
    <2>2. Answers(H, acked, HandleMessage(s, m)) /\ HandleMessage(s, m).alive = acked.alive
      <3> DEFINE t == [acked EXCEPT !.out = Append(@, <<BadAck>>)]
      <3>1. Answers(H, acked, t) /\ t.alive = acked.alive
        BY <1>1, <1>2, SendType
      <3> HIDE DEF t
      <3>2. QED
        BY <2>1, <3>1 DEF t
    <2>3. QED
      BY <1>2, <1>8, <2>2 DEF Answers
  <1>9. CASE s.alive # "raised" /\ Verdict(m) = "good"
    <2> DEFINE p == Contents(m.bytes)
    <2>1. HandleMessage(s, m) = Dispatch(acked, p)
      BY <1>3, <1>9
    <2>2. Received(p) \in H
      BY <1>9
    <2>3. acked.alive # "raised"
      BY <1>2, <1>9
    <2> HIDE DEF p
    <2>4. /\ Dispatch(acked, p) \in ServerStates(H) /\ (Dispatch(acked, p).alive = "raised" => Culprit(p))
          /\ Dispatch(acked, p).stops = acked.stops
      BY <1>2, <2>2, <2>3, DispatchType
    <2>5. QED
      BY <1>2, <1>9, <2>1, <2>4 DEF Raiser, p
  <1>10. QED
    BY <1>4, <1>5, <1>6, <1>7, <1>8, <1>9

\* What the second loop can come to.
Commands(H, messages) == \A m \in ToSet(messages) : Verdict(m) = "good" => Received(Contents(m.bytes)) \in H
Outcome(H, start, messages, end) ==
    /\ end \in ServerStates(H)
    /\ end.alive = "raised" => start.alive = "raised" \/ \E m \in ToSet(messages) : Raiser(m)
    /\ end.stops = start.stops \/ \E m \in ToSet(messages) : Verdict(m) = "stop"

\* The second loop raises only if it began so or a message does, and acts on an
\* interrupt only if a message is one.
LEMMA HandleRuns ==
    ASSUME NEW H, NEW messages \in Seq(Messages), NEW start \in ServerStates(H), Commands(H, messages)
    PROVE  Outcome(H, start, messages, Handling(start, messages))
  <1> DEFINE A == {s \in ServerStates(H) : Outcome(H, start, messages, s)}
  <1>1. start \in A
    BY DEF Outcome
  <1>2. ASSUME NEW s \in A, NEW k \in 1 .. Len(messages) PROVE HandleMessage(s, messages[k]) \in A
    <2> DEFINE m == messages[k]
    <2>1. m \in ToSet(messages)
      BY DEF ToSet
    <2> HIDE DEF m
    <2>2. /\ HandleMessage(s, m) \in ServerStates(H)
          /\ HandleMessage(s, m).alive = "raised" => s.alive = "raised" \/ Raiser(m)
          /\ Verdict(m) # "stop" => HandleMessage(s, m).stops = s.stops
      BY <2>1, HandleType DEF Commands
    <2>3. Outcome(H, start, messages, HandleMessage(s, m))
      BY <2>1, <2>2 DEF Outcome
    <2>4. QED
      BY <2>2, <2>3 DEF m
  <1> HIDE DEF A
  <1>3. HandleSteps(A, messages) \in [A \X (1 .. Len(messages)) -> A]
    BY <1>2 DEF HandleSteps
  <1>4. PICK f : Stepping(f, A, start, Len(messages), HandleSteps(A, messages), Handling(start, messages))
    BY <1>1, <1>3, HandleFold
  <1>5. Handling(start, messages) \in A
    BY <1>4 DEF Stepping
  <1>6. QED
    BY <1>5 DEF A

\* After an exception nothing is done.
LEMMA HandleRaised ==
    ASSUME NEW messages \in Seq(Messages), NEW start, start.alive = "raised"
    PROVE  Handling(start, messages) = start
  <1> DEFINE A == {start}
  <1>1. ASSUME NEW s \in A, NEW k \in 1 .. Len(messages) PROVE HandleMessage(s, messages[k]) \in A
    BY Zenon DEF HandleMessage
  <1>2. start \in A
    OBVIOUS
  <1>3. HandleSteps(A, messages) \in [A \X (1 .. Len(messages)) -> A]
    <2> HIDE DEF A
    <2> QED BY <1>1 DEF HandleSteps
  <1> HIDE DEF A
  <1>4. PICK f : Stepping(f, A, start, Len(messages), HandleSteps(A, messages), Handling(start, messages))
    BY <1>2, <1>3, HandleFold
  <1>5. Handling(start, messages) \in A
    BY <1>4 DEF Stepping
  <1>6. QED
    BY <1>5 DEF A

\* One message is one round.
LEMMA HandleOne ==
    ASSUME NEW H, NEW start \in ServerStates(H), NEW m \in Messages,
           Verdict(m) = "good" => Received(Contents(m.bytes)) \in H
    PROVE  Handling(start, <<m>>) = HandleMessage(start, m)
  <1> DEFINE A == ServerStates(H)
             one == <<m>>
  <1>1. one \in Seq(Messages) /\ Len(one) = 1 /\ one[1] = m
    OBVIOUS
  <1> HIDE DEF A, one
  <1>2. ASSUME NEW s \in A, NEW k \in 1 .. Len(one) PROVE HandleMessage(s, one[k]) \in A
    <2>1. one[k] = m
      BY <1>1
    <2>2. HandleMessage(s, m) \in A
      BY HandleType DEF A
    <2>3. QED
      BY <2>1, <2>2
  <1>3. HandleSteps(A, one) \in [A \X (1 .. Len(one)) -> A]
    BY <1>2 DEF HandleSteps
  <1>4. start \in A
    BY DEF A
  <1>5. PICK f : Stepping(f, A, start, Len(one), HandleSteps(A, one), Handling(start, one))
    BY <1>1, <1>3, <1>4, HandleFold
  <1>6. f[0] = start /\ f[1] = Handling(start, one) /\ f[1] = HandleSteps(A, one)[<<f[1 - 1], 1>>]
    BY <1>1, <1>5 DEF Stepping
  <1>7. HandleSteps(A, one)[<<start, 1>>] = HandleMessage(start, one[1])
    BY <1>1, <1>4 DEF HandleSteps
  <1>8. 1 - 1 = 0
    OBVIOUS
  <1>9. Handling(start, one) = HandleMessage(start, m)
    BY <1>1, <1>6, <1>7, <1>8
  <1>10. QED
    BY <1>9 DEF one

-----------------------------------------------------------------------------
(* The packets of the client.                                              *)

\* A text packet can be sent as it is, and is not an 'X' packet.
LEMMA PayloadClean == ASSUME NEW p \in Payload PROVE Clean(p) /\ p[1] # 88 /\ Interrupt \notin ToSet(p)
  <1>1. p # <<>> /\ p[1] # 88 /\ ToSet(p) \cap {Dollar, Hash, Escape, Interrupt} = {}
    BY GdbAssumption
  <1>2. p \in Seq(Byte)
    BY ConstantBytes
  <1>3. ASSUME NEW j \in DOMAIN p PROVE p[j] \notin {Dollar, Hash, Escape}
    <2>1. p[j] \in ToSet(p)
      BY DEF ToSet
    <2>2. QED
      BY <1>1, <2>1
  <1>4. Len(p) \in DOMAIN p
    BY <1>1, <1>2
  <1>5. QED
    BY <1>1, <1>2, <1>3, <1>4 DEF Clean

\* An 'X' packet with x behind its ':'.
Behind(x) == <<88, Colon>> \o x

\* The bytes of an 'X' packet.
LEMMA BehindBytes ==
    ASSUME NEW x \in Seq(Byte)
    PROVE  LET b == Behind(x)
           IN  /\ b \in Seq(Byte) /\ Len(b) = Len(x) + 2 /\ b[1] = 88 /\ b[2] = Colon /\ b # <<>>
               /\ \A j \in 1 .. Len(x) : b[j + 2] = x[j]
               /\ SubSeq(b, 3, Len(b)) = x
  <1> DEFINE b == Behind(x)
  <1>1. 88 \in Byte /\ Colon \in Byte
    BY DEF Byte, Colon
  <1>2. /\ b \in Seq(Byte) /\ Len(b) = Len(x) + 2 /\ b[1] = 88 /\ b[2] = Colon /\ Len(x) \in Nat
        /\ \A j \in 1 .. Len(x) : b[j + 2] = x[j]
    BY <1>1 DEF Behind
  <1> HIDE DEF b
  <1>3. SubSeq(b, 3, Len(b)) = x
    <2> DEFINE t == SubSeq(b, 3, Len(b))
    <2>1. 3 \in 1 .. Len(b) + 1 /\ Len(b) \in 3 - 1 .. Len(b)
      BY <1>2
    <2>2. t \in Seq(Byte) /\ Len(t) = Len(b) - 3 + 1 /\ \A j \in 1 .. Len(b) - 3 + 1 : t[j] = b[3 + j - 1]
      BY <1>2, <2>1, PartBytes
    <2> HIDE DEF t
    <2>3. ASSUME NEW j \in 1 .. Len(x) PROVE t[j] = x[j]
      <3>1. j \in 1 .. Len(b) - 3 + 1 /\ 3 + j - 1 = j + 2
        BY <1>2
      <3>2. QED
        BY <1>2, <2>2, <3>1
    <2>4. t = x
      BY <1>2, <2>2, <2>3, SeqEqual
    <2>5. QED
      BY <2>4 DEF t
  <1>4. b # <<>>
    BY <1>2
  <1>5. QED
    BY <1>2, <1>3, <1>4 DEF b

\* An 'X' packet with escaped data can be sent.
LEMMA BinaryClean ==
    ASSUME NEW d \in Data
    PROVE  Clean(Behind(escape(d))) /\ d \in Seq(Byte) /\ escape(d) \in Seq(Byte)
  <1> DEFINE e == escape(d)
             b == Behind(e)
  <1>1. d \in Seq(Byte)
    BY ConstantBytes
  <1>2. e \in Seq(Byte) /\ (\A i \in DOMAIN e : e[i] \notin {Dollar, Hash}) /\ (e # <<>> => e[Len(e)] # Escape)
    BY <1>1, EscapeIsClean DEF EscapedSet
  <1> HIDE DEF e
  <1>3. /\ b \in Seq(Byte) /\ Len(b) = Len(e) + 2 /\ b[1] = 88 /\ b[2] = Colon /\ b # <<>>
        /\ \A j \in 1 .. Len(e) : b[j + 2] = e[j]
    BY <1>2, BehindBytes
  <1> HIDE DEF b
  <1>4. 88 \notin {Dollar, Hash, Escape} /\ Colon \notin {Dollar, Hash, Escape}
    BY DEF Dollar, Hash, Escape, Colon
  <1>5. ASSUME NEW j \in DOMAIN b PROVE b[j] \notin {Dollar, Hash}
    <2>1. CASE j \in 1 .. 2
      BY <1>3, <1>4, <2>1
    <2>2. CASE j \notin 1 .. 2
      <3>1. j - 2 \in 1 .. Len(e) /\ (j - 2) + 2 = j
        BY <1>2, <1>3, <2>2
      <3>2. QED
        BY <1>2, <1>3, <3>1
    <2>3. QED
      BY <2>1, <2>2
  <1>6. b[Len(b)] # Escape
    <2>1. CASE e = <<>>
      BY <1>3, <1>4, <2>1
    <2>2. CASE e # <<>>
      BY <1>2, <1>3, <2>2
    <2>3. QED
      BY <2>1, <2>2
  <1>7. Clean(b)
    BY <1>3, <1>5, <1>6 DEF Clean
  <1>8. QED
    BY <1>1, <1>2, <1>7 DEF b, e

\* A packet as it is sent.
LEMMA CleanIsPiece ==
    ASSUME NEW past, NEW body, Clean(body), SentBody(body, past)
    PROVE  LET u == format_gdb_message(body)
           IN  Piece(u, past) /\ Ended(u) /\ Started(u)
  <1> DEFINE u == format_gdb_message(body)
             n == Len(body)
  <1>1. /\ body \in Seq(Byte) /\ body # <<>> /\ body[Len(body)] # Escape
        /\ \A j \in DOMAIN body : body[j] \notin {Dollar, Hash}
    BY DEF Clean
  <1>2. /\ u \in Seq(Byte) /\ Len(u) = n + 4 /\ u[1] = Dollar /\ u[n + 2] = Hash
        /\ u[n + 3] \in Digits /\ u[n + 4] \in Digits /\ \A i \in 1 .. n : u[i + 1] = body[i]
    BY <1>1, PacketShape
  <1> HIDE DEF u
  <1>3. Piece(u, past) /\ Ended(u) /\ Started(u)
    BY <1>1, <1>2, PacketIsPiece
  <1>4. QED
    BY <1>3 DEF u

\* Its checksum is not that of a spoilt one.
Spoilt(m) == [m EXCEPT ![Len(m)] = IF @ = 48 THEN 49 ELSE 48]

\* The digit that takes the place of another has another value.
LEMMA SpoiltDigit ==
    ASSUME NEW c \in Digits
    PROVE  LET d == IF c = 48 THEN 49 ELSE 48
           IN  d \in Digits /\ d \in Byte /\ Value(d) # Value(c) /\ Value(d) \in 0 .. 15
  <1>1. 48 = Digit(0) /\ 49 = Digit(1)
    BY DEF Digit
  <1>2. 48 \in Digits /\ 49 \in Digits /\ Value(48) = 0 /\ Value(49) = 1
    BY <1>1, DigitValue
  <1>3. c # 48 => Value(c) # 0
    BY DEF Digits, Digit, Value
  <1>4. QED
    BY <1>2, <1>3, DigitIsPlain

\* A spoilt packet is a piece: its checksum is wrong, so nobody need have sent it.
LEMMA SpoiltIsPiece ==
    ASSUME NEW past, NEW body, Clean(body)
    PROVE  LET u == Spoilt(format_gdb_message(body))
           IN  Piece(u, past) /\ Ended(u) /\ Started(u)
  <1> DEFINE m == format_gdb_message(body)
             n == Len(body)
             d == IF m[n + 4] = 48 THEN 49 ELSE 48
             u == Spoilt(m)
  <1>1. /\ body \in Seq(Byte) /\ body # <<>> /\ body[Len(body)] # Escape
        /\ \A j \in DOMAIN body : body[j] \notin {Dollar, Hash}
    BY DEF Clean
  <1>2. /\ m \in Seq(Byte) /\ Len(m) = n + 4 /\ n \in Nat /\ m[1] = Dollar /\ m[n + 2] = Hash
        /\ m[n + 3] \in Digits /\ m[n + 4] \in Digits /\ \A i \in 1 .. n : m[i + 1] = body[i]
        /\ SumOf(m) = checksum(body)
    BY <1>1, PacketShape
  <1>3. d \in Digits /\ d \in Byte /\ Value(d) # Value(m[n + 4]) /\ Value(d) \in 0 .. 15
    BY <1>2, SpoiltDigit
  <1>4. u = [m EXCEPT ![n + 4] = d]
    BY <1>2 DEF Spoilt
  <1> HIDE DEF d, m, u
  <1>5. /\ u \in Seq(Byte) /\ Len(u) = n + 4 /\ u[n + 4] = d
        /\ \A i \in 1 .. n + 3 : u[i] = m[i]
    BY <1>2, <1>3, <1>4
  <1>6. u[1] = Dollar /\ u[n + 2] = Hash /\ u[n + 3] = m[n + 3] /\ \A i \in 1 .. n : u[i + 1] = body[i]
    <2>1. 1 \in 1 .. n + 3 /\ n + 2 \in 1 .. n + 3 /\ n + 3 \in 1 .. n + 3 /\ \A i \in 1 .. n : i + 1 \in 1 .. n + 3
      BY <1>2
    <2> HIDE DEF n
    <2>2. QED
      BY <1>2, <1>5, <2>1
  <1>7. SumOf(u) # SumOf(m)
    <2>1. Value(m[n + 3]) \in 0 .. 15 /\ Value(m[n + 4]) \in 0 .. 15
      BY <1>2, DigitIsPlain
    <2>2. SumOf(m) = 16 * Value(m[n + 3]) + Value(m[n + 4])
      <3>1. Len(m) # 1 /\ Len(m) - 1 = n + 3
        BY <1>2
      <3>2. QED
        BY <1>2, <3>1 DEF SumOf
    <2>3. SumOf(u) = 16 * Value(m[n + 3]) + Value(d)
      <3>1. Len(u) # 1 /\ Len(u) - 1 = n + 3
        BY <1>2, <1>5
      <3>2. QED
        BY <1>2, <1>5, <1>6, <3>1 DEF SumOf
    <2>4. \A h, v, w \in 0 .. 15 : v # w => 16 * h + v # 16 * h + w
      OBVIOUS
    <2>5. QED
      BY <1>3, <2>1, <2>2, <2>3, <2>4
  <1>8. checksum(body) = SumOf(u) => SentBody(body, past)
    BY <1>2, <1>7
  <1>9. u[n + 3] \in Digits /\ u[n + 4] \in Digits
    BY <1>2, <1>3, <1>5, <1>6
  <1>10. Piece(u, past) /\ Ended(u) /\ Started(u)
    BY <1>1, <1>5, <1>6, <1>8, <1>9, PacketIsPiece
  <1>11. QED
    BY <1>10 DEF u, m

\* What the client can have sent.
Sendings == {<<>>, <<Interrupt>>} \cup Payload \cup {Behind(d) : d \in Data}

-----------------------------------------------------------------------------
(* The inductive invariant: what is on the wire, and what was last read, is a *)
(* piece of what was sent, and the server's state is what its two loops make  *)
(* of that read.                                                              *)

Now == [alive |-> alive, handled |-> handled, stops |-> stops, out |-> out, open_fds |-> open_fds]
Begin(b, fds) ==
    [alive |-> IF Scan(b).raised THEN "raised" ELSE "open", handled |-> <<>>, stops |-> 0,
     out |-> <<>>, open_fds |-> fds]
Processed ==
    \E fds \in SUBSET (0 .. MaxFd - 1) : Now = Handling(Begin(data, fds), Scan(data).messages)

WireInv ==
    /\ sent \in Seq(Sendings)
    /\ Piece(wire, sent) /\ Ended(wire)
    /\ Piece(data, sent)
    /\ Processed

\* Nothing is a piece.
LEMMA EmptyPiece == ASSUME NEW past PROVE Piece(<<>>, past) /\ Ended(<<>>)
  <1> DEFINE b == <<>>
  <1>1. b \in Seq(Byte) /\ DOMAIN b = {} /\ Len(b) = 0
    OBVIOUS
  <1>2. <<>> = b
    OBVIOUS
  <1> HIDE DEF b
  <1>3. Alternate(b) /\ SumsFollow(b) /\ Framed(b) /\ Packets(b, past)
    BY <1>1 DEF Alternate, SumsFollow, Framed, Packets
  <1>4. Ended(b)
    BY <1>1, <1>2 DEF Ended
  <1>5. QED
    BY <1>1, <1>2, <1>3, <1>4 DEF Piece

\* The state that the second loop begins with.
LEMMA BeginType ==
    ASSUME NEW H, NEW b, NEW fds \in SUBSET (0 .. MaxFd - 1)
    PROVE  /\ Begin(b, fds) \in ServerStates(H)
           /\ Begin(b, fds).alive = "raised" <=> Scan(b).raised
           /\ Begin(b, fds).alive \in {"open", "raised"} /\ Begin(b, fds).handled = <<>>
           /\ Begin(b, fds).open_fds = fds /\ Begin(b, fds).stops = 0
  <1>1. <<>> \in Seq(H) /\ <<>> \in Seq(Sendable)
    OBVIOUS
  <1>2. QED
    BY <1>1 DEF Begin, ServerStates

\* Nothing comes of an empty read.
LEMMA EmptyRead ==
    /\ ~Scan(<<>>).raised /\ Scan(<<>>).messages = <<>>
    /\ \A fds \in SUBSET (0 .. MaxFd - 1) : Handling(Begin(<<>>, fds), <<>>) = Begin(<<>>, fds)
  <1> DEFINE end == Scanning(ScanStart, <<>>)
  <1>1. <<>> \in Seq(Byte) /\ Len(<<>>) = 0 /\ <<>> \in Seq(Messages)
    OBVIOUS
  <1>2. end = ScanStart
    <2>1. PICK f : Stepping(f, ScanStates, ScanStart, Len(<<>>), ScanSteps(ScanStates, <<>>), end)
      BY <1>1, ScanRuns
    <2>2. f[0] = ScanStart /\ f[Len(<<>>)] = end
      BY <2>1 DEF Stepping
    <2>3. QED
      BY <1>1, <2>2
  <1>3. Scan(<<>>) = IF end.message = <<Interrupt>> /\ ~end.list
                     THEN [end EXCEPT !.messages = Append(@, [bytes |-> end.message, list |-> FALSE])] ELSE end
    BY Zenon DEF Scan, Scanning, ScanStart
  <1> HIDE DEF end
  <1>4. end.message = <<>> /\ end.raised = FALSE /\ end.messages = <<>>
    BY <1>2 DEF ScanStart
  <1>5. end.message # <<Interrupt>>
    BY <1>4
  <1>6. ~Scan(<<>>).raised /\ Scan(<<>>).messages = <<>>
    BY <1>3, <1>4, <1>5
  <1>7. ASSUME NEW fds \in SUBSET (0 .. MaxFd - 1) PROVE Handling(Begin(<<>>, fds), <<>>) = Begin(<<>>, fds)
    <2> DEFINE start == Begin(<<>>, fds)
               A == {start}
               none == <<>>
    <2>1. start \in A /\ none \in Seq(Messages) /\ Len(none) = 0
      OBVIOUS
    <2> HIDE DEF start, A, none
    <2>2. HandleSteps(A, none) \in [A \X (1 .. Len(none)) -> A]
      <3>1. \A p : p \notin A \X (1 .. Len(none))
        BY <2>1
      <3>2. QED
        BY <3>1 DEF HandleSteps
    <2>3. PICK f : Stepping(f, A, start, Len(none), HandleSteps(A, none), Handling(start, none))
      BY <2>1, <2>2, HandleFold
    <2>4. f[0] = start /\ f[Len(none)] = Handling(start, none)
      BY <2>3 DEF Stepping
    <2>5. Handling(start, none) = start
      BY <2>1, <2>4
    <2>6. QED
      BY <2>5 DEF start, none
  <1>8. QED
    BY <1>6, <1>7

\* The invariant holds to begin with.
LEMMA InitInv == Init => WireInv
  <1>1. SUFFICES ASSUME Init PROVE WireInv
    OBVIOUS
  <1>2. wire = <<>> /\ sent = <<>> /\ data = <<>>
    BY <1>1 DEF Init
  <1>3. sent \in Seq(Sendings)
    BY <1>2
  <1>4. Piece(wire, sent) /\ Ended(wire) /\ Piece(data, sent)
    BY <1>2, EmptyPiece
  <1>5. Processed
    <2>1. {} \in SUBSET (0 .. MaxFd - 1)
      OBVIOUS
    <2>2. Handling(Begin(<<>>, {}), Scan(<<>>).messages) = Begin(<<>>, {})
      BY <2>1, EmptyRead
    <2>3. Now = Begin(<<>>, {})
      BY <1>1, EmptyRead DEF Init, Now, Begin
    <2>4. QED
      BY <1>2, <2>1, <2>2, <2>3 DEF Processed
  <1>6. QED
    BY <1>3, <1>4, <1>5 DEF WireInv

\* What a read has made, whichever of the server's commands H holds.
LEMMA WhatWasRead ==
    ASSUME WireInv
    PROVE  /\ ScanSound(data, Scan(data), sent)
           /\ Scan(data).messages \in Seq(Messages)
           /\ \E fds \in SUBSET (0 .. MaxFd - 1) : Now = Handling(Begin(data, fds), Scan(data).messages)
  <1>1. ScanSound(data, Scan(data), sent)
    BY ScanResult DEF WireInv
  <1>2. QED
    BY <1>1 DEF WireInv, Processed, ScanSound, ScanStates

\* The commands that the messages of a read can bring.
Brought(messages) == {Received(Contents(m.bytes)) : m \in {n \in ToSet(messages) : Verdict(n) = "good"}}

\* The state is of its type, with commands of the read, and raised for a reason.
LEMMA NowType ==
    ASSUME WireInv
    PROVE  /\ Now \in ServerStates(Brought(Scan(data).messages))
           /\ Now.alive = "raised" => Scan(data).raised \/ \E m \in ToSet(Scan(data).messages) : Raiser(m)
           /\ Now.stops = 0 \/ \E m \in ToSet(Scan(data).messages) : Verdict(m) = "stop"
  <1> DEFINE all == Scan(data).messages
             H == Brought(all)
  <1>1. PICK fds \in SUBSET (0 .. MaxFd - 1) : Now = Handling(Begin(data, fds), all)
    BY WhatWasRead
  <1>2. all \in Seq(Messages)
    BY WhatWasRead
  <1>3. Commands(H, all)
    <2> HIDE DEF all
    <2>1. QED
      BY DEF Commands, Brought
  <1>4. /\ Begin(data, fds) \in ServerStates(H) /\ (Begin(data, fds).alive = "raised" <=> Scan(data).raised)
        /\ Begin(data, fds).stops = 0
    BY BeginType
  <1> HIDE DEF all, H
  <1>5. Outcome(H, Begin(data, fds), all, Handling(Begin(data, fds), all))
    BY <1>2, <1>3, <1>4, HandleRuns
  <1>6. QED
    BY <1>1, <1>4, <1>5 DEF Outcome, all, H

\* What the client sends is a piece, whole.
LEMMA SendKeeps ==
    ASSUME WireInv, NEW bytes, NEW what \in Sendings, Send(bytes, what),
           Piece(bytes, Append(sent, what)), Ended(bytes), Started(bytes)
    PROVE  WireInv'
  <1>1. /\ wire' = wire \o bytes /\ sent' = Append(sent, what) /\ data' = data /\ alive' = alive
        /\ handled' = handled /\ stops' = stops /\ out' = out /\ open_fds' = open_fds
    BY DEF Send
  <1>2. sent \in Seq(Sendings) /\ Piece(wire, sent) /\ Ended(wire) /\ Piece(data, sent) /\ Processed
    BY DEF WireInv
  <1>3. sent' \in Seq(Sendings)
    BY <1>1, <1>2
  <1>4. Piece(wire, sent') /\ Piece(data, sent')
    BY <1>1, <1>2, PieceOfMore
  <1>5. Piece(wire \o bytes, sent') /\ Ended(wire \o bytes)
    BY <1>1, <1>2, <1>4, JoinedPieces
  <1>6. Processed'
    BY <1>1, <1>2 DEF Processed, Now
  <1>7. QED
    BY <1>1, <1>3, <1>4, <1>5, <1>6 DEF WireInv

\* A read leaves pieces behind, and its loops make the state.
LEMMA ReadKeeps ==
    ASSUME WireInv, NEW n \in 1 .. Len(wire), read_message(n)
    PROVE  WireInv'
  <1>1. /\ data' = SubSeq(wire, 1, n) /\ wire' = SubSeq(wire, n + 1, Len(wire)) /\ sent' = sent /\ alive = "open"
    BY DEF read_message
  <1>2. wire \in Seq(Byte) /\ Len(wire) \in Nat /\ sent \in Seq(Sendings) /\ Piece(wire, sent) /\ Ended(wire)
    BY DEF WireInv, Piece
  <1>3. Piece(data', sent') /\ Piece(wire', sent')
    <2>1. 1 \in 1 .. Len(wire) + 1 /\ n \in 1 - 1 .. Len(wire) /\ n + 1 \in 1 .. Len(wire) + 1
          /\ Len(wire) \in (n + 1) - 1 .. Len(wire)
      BY <1>2
    <2>2. QED
      BY <1>1, <1>2, <2>1, PartOfPiece
  <1>4. Ended(wire')
    <2>1. n + 1 \in 1 .. Len(wire) + 1
      BY <1>2
    <2>2. QED
      BY <1>1, <1>2, <2>1, RestIsEnded
  <1>5. Processed'
    <2> DEFINE b == data'
               scan == Scan(b)
               start == [alive |-> IF scan.raised THEN "raised" ELSE alive, handled |-> <<>>, stops |-> 0,
                         out |-> <<>>, open_fds |-> open_fds]
               end == Handling(start, scan.messages)
               H == Brought(scan.messages)
    <2>1. /\ alive' = end.alive /\ handled' = end.handled /\ stops' = end.stops /\ out' = end.out
          /\ open_fds' = end.open_fds
      BY Zenon DEF read_message, Handling
    <2>2. start = Begin(b, open_fds)
      BY <1>1 DEF Begin
    <2>3. open_fds \in SUBSET (0 .. MaxFd - 1)
      BY NowType DEF Now, ServerStates
    <2>4. scan.messages \in Seq(Messages)
      <3>1. ScanSound(b, Scan(b), sent')
        BY <1>3, ScanResult
      <3>2. QED
        BY <3>1 DEF ScanSound, ScanStates
    <2>5. Commands(H, scan.messages)
      BY DEF Commands, Brought
    <2>6. Begin(b, open_fds) \in ServerStates(H)
      BY <2>3, BeginType
    <2> HIDE DEF start, scan, H, b
    <2>7. end \in ServerStates(H)
      <3>1. Outcome(H, start, scan.messages, end)
        BY <2>2, <2>4, <2>5, <2>6, HandleRuns
      <3>2. QED
        BY <3>1 DEF Outcome
    <2> HIDE DEF end
    <2>8. end = [alive |-> end.alive, handled |-> end.handled, stops |-> end.stops, out |-> end.out,
                 open_fds |-> end.open_fds]
      BY <2>7 DEF ServerStates
    <2>9. Now' = end
      BY <2>1, <2>8 DEF Now
    <2>10. Now' = Handling(Begin(data', open_fds), Scan(data').messages)
      BY <2>2, <2>9, Zenon DEF end, scan, b
    <2>11. QED
      BY <2>3, <2>10, Zenon DEF Processed
  <1>6. QED
    BY <1>1, <1>2, <1>3, <1>4, <1>5 DEF WireInv


\* The client's packets, as they go over the wire.
LEMMA SendPacketKeeps ==
    ASSUME WireInv, NEW p \in Payload, SendPacket(p)
    PROVE  WireInv'
  <1> DEFINE bytes == format_gdb_message(p)
             past == Append(sent, p)
  <1>1. p \in Sendings /\ Clean(p) /\ sent \in Seq(Sendings)
    BY PayloadClean DEF Sendings, WireInv
  <1>2. SentBody(p, past)
    BY <1>1, SentBefore DEF SentBody
  <1>3. Send(bytes, p)
    BY DEF SendPacket
  <1>4. Piece(bytes, past) /\ Ended(bytes) /\ Started(bytes)
    BY <1>1, <1>2, CleanIsPiece
  <1> HIDE DEF bytes
  <1>5. QED
    BY <1>1, <1>3, <1>4, SendKeeps

\* The same of a packet that is spoilt on the way ...
LEMMA SendSpoiltKeeps ==
    ASSUME WireInv, NEW p \in Payload, SendSpoilt(p)
    PROVE  WireInv'
  <1> DEFINE bytes == Spoilt(format_gdb_message(p))
             none == <<>>
             past == Append(sent, none)
  <1>1. none \in Sendings /\ Clean(p)
    BY PayloadClean DEF Sendings
  <1>2. Send(bytes, none)
    BY DEF SendSpoilt, Spoilt
  <1>3. Piece(bytes, past) /\ Ended(bytes) /\ Started(bytes)
    BY <1>1, SpoiltIsPiece
  <1> HIDE DEF bytes, none
  <1>4. QED
    BY <1>1, <1>2, <1>3, SendKeeps

\* ... of binary data ...
LEMMA SendBinaryKeeps ==
    ASSUME WireInv, NEW d \in Data, SendBinary(d)
    PROVE  WireInv'
  <1> DEFINE body == Behind(escape(d))
             bytes == format_gdb_message(body)
             what == Behind(d)
             past == Append(sent, what)
  <1>1. what \in Sendings /\ Clean(body) /\ sent \in Seq(Sendings)
    BY BinaryClean DEF Sendings, WireInv
  <1>2. SentBody(body, past)
    <2>1. what \in ToSet(past)
      BY <1>1, SentBefore
    <2>2. QED
      BY <2>1 DEF SentBody, Behind
  <1>3. Send(bytes, what)
    BY DEF SendBinary, Behind
  <1>4. Piece(bytes, past) /\ Ended(bytes) /\ Started(bytes)
    BY <1>1, <1>2, CleanIsPiece
  <1> HIDE DEF bytes, what
  <1>5. QED
    BY <1>1, <1>3, <1>4, SendKeeps

\* ... and of an acknowledgement or an interrupt.
LEMMA SendByteKeeps ==
    ASSUME WireInv, NEW c \in {Ack, BadAck, Interrupt}, NEW what \in {<<>>, <<Interrupt>>}, Send(<<c>>, what)
    PROVE  WireInv'
  <1> DEFINE bytes == <<c>>
             past == Append(sent, what)
  <1>1. what \in Sendings
    BY DEF Sendings
  <1>2. c \in Byte /\ c \notin {Dollar, Hash, Escape}
    BY DEF Byte, Dollar, Hash, Escape, Ack, BadAck, Interrupt
  <1>3. Piece(bytes, past) /\ Ended(bytes) /\ Started(bytes)
    BY <1>2, ByteIsPiece
  <1>4. Send(bytes, what)
    OBVIOUS
  <1> HIDE DEF bytes
  <1>5. QED
    BY <1>1, <1>3, <1>4, SendKeeps

\* Every step keeps the invariant.
LEMMA NextInv == WireInv /\ [Next]_vars => WireInv'
  <1>1. SUFFICES ASSUME WireInv, [Next]_vars PROVE WireInv'
    OBVIOUS
  <1>2. CASE \E p \in Payload : SendPacket(p)
    BY <1>1, <1>2, SendPacketKeeps
  <1>3. CASE \E p \in Payload : SendSpoilt(p)
    BY <1>1, <1>3, SendSpoiltKeeps
  <1>4. CASE \E d \in Data : SendBinary(d)
    BY <1>1, <1>4, SendBinaryKeeps
  <1>5. CASE \E ack \in Acks : SendAck(ack)
    <2>1. PICK ack \in Acks : Send(<<ack>>, <<>>)
      BY <1>5 DEF SendAck
    <2>2. ack \in {Ack, BadAck, Interrupt}
      BY DEF Acks
    <2>3. <<>> \in {<<>>, <<Interrupt>>}
      OBVIOUS
    <2>4. QED
      BY <1>1, <2>1, <2>2, <2>3, SendByteKeeps
  <1>6. CASE SendInterrupt
    <2>1. Send(<<Interrupt>>, <<Interrupt>>)
      BY <1>6 DEF SendInterrupt
    <2>2. Interrupt \in {Ack, BadAck, Interrupt} /\ <<Interrupt>> \in {<<>>, <<Interrupt>>}
      OBVIOUS
    <2>3. QED
      BY <1>1, <2>1, <2>2, SendByteKeeps
  <1>7. CASE \E n \in 1 .. Len(wire) : read_message(n)
    BY <1>1, <1>7, ReadKeeps
  <1>8. CASE UNCHANGED vars
    BY <1>1, <1>8 DEF vars, WireInv, Processed, Now
  <1>9. QED
    BY <1>1, <1>2, <1>3, <1>4, <1>5, <1>6, <1>7, <1>8 DEF Next

\* However the client's packets are cut and joined, what is under way is a piece
\* of what was sent, and the server's state is what its loops make of a piece.
THEOREM WireIsPieces == Spec => []WireInv
  <1>1. Init => WireInv
    BY InitInv
  <1>2. WireInv /\ [Next]_vars => WireInv'
    BY NextInv
  <1>3. QED
    BY <1>1, <1>2, PTL DEF Spec

-----------------------------------------------------------------------------
(* What the bytes that look like an interrupt come from.                   *)

Signalled(past) == \E q \in ToSet(past) \ {<<>>} : HoldsInterrupt(q)
SignalInv       == Interrupt \in ToSet(wire) \cup ToSet(data) => Signalled(sent)

\* Neither the frame of a packet nor its checksum has such a byte ...
LEMMA PacketSignals ==
    ASSUME NEW body \in Seq(Byte), Interrupt \in ToSet(format_gdb_message(body))
    PROVE  Interrupt \in ToSet(body)
  <1> DEFINE m == format_gdb_message(body)
             n == Len(body)
  <1>1. /\ m \in Seq(Byte) /\ Len(m) = n + 4 /\ n \in Nat /\ m[1] = Dollar /\ m[n + 2] = Hash
        /\ m[n + 3] \in Digits /\ m[n + 4] \in Digits /\ \A i \in 1 .. n : m[i + 1] = body[i]
    BY PacketShape
  <1> HIDE DEF m
  <1>2. PICK i \in 1 .. n + 4 : m[i] = Interrupt
    BY <1>1 DEF ToSet, m
  <1>3. Interrupt \notin Digits /\ Interrupt # Dollar /\ Interrupt # Hash
    BY DEF Interrupt, Digits, Digit, Dollar, Hash
  <1>4. i - 1 \in 1 .. n /\ (i - 1) + 1 = i
    BY <1>1, <1>2, <1>3
  <1>5. body[i - 1] = Interrupt /\ i - 1 \in DOMAIN body
    BY <1>1, <1>2, <1>4
  <1>6. QED
    BY <1>5 DEF ToSet

\* ... nor does spoiling a packet make one.
LEMMA SpoiltSignals ==
    ASSUME NEW body \in Seq(Byte), Interrupt \in ToSet(Spoilt(format_gdb_message(body)))
    PROVE  Interrupt \in ToSet(body)
  <1> DEFINE m == format_gdb_message(body)
             d == IF m[Len(m)] = 48 THEN 49 ELSE 48
  <1>1. m \in Seq(Byte) /\ Len(m) \in Nat \ {0} /\ d \in Byte /\ d # Interrupt
    BY PacketShape DEF Byte, Interrupt
  <1>2. Spoilt(m) = [m EXCEPT ![Len(m)] = d]
    BY DEF Spoilt
  <1> HIDE DEF m, d
  <1>3. DOMAIN [m EXCEPT ![Len(m)] = d] = 1 .. Len(m)
    BY <1>1
  <1>4. PICK i \in 1 .. Len(m) : [m EXCEPT ![Len(m)] = d][i] = Interrupt
    BY <1>2, <1>3 DEF ToSet, m
  <1>5. m[i] = Interrupt
    BY <1>1, <1>4
  <1>6. Interrupt \in ToSet(format_gdb_message(body))
    BY <1>1, <1>5 DEF ToSet, m
  <1>7. QED
    BY <1>6, PacketSignals

\* Sending keeps the invariant if what is sent accounts for its bytes.
LEMMA SendSignals ==
    ASSUME WireInv, SignalInv, NEW bytes \in Seq(Byte), NEW what \in Sendings, Send(bytes, what),
           Interrupt \in ToSet(bytes) => what # <<>> /\ HoldsInterrupt(what)
    PROVE  SignalInv'
  <1>1. wire' = wire \o bytes /\ sent' = Append(sent, what) /\ data' = data
    BY DEF Send
  <1>2. sent \in Seq(Sendings) /\ wire \in Seq(Byte)
    BY DEF WireInv, Piece
  <1>3. ToSet(sent') = ToSet(sent) \cup {what}
    BY <1>1, <1>2, SentBefore
  <1>4. ToSet(wire') \subseteq ToSet(wire) \cup ToSet(bytes)
    <2>1. ASSUME NEW i \in DOMAIN (wire \o bytes)
          PROVE  (wire \o bytes)[i] \in ToSet(wire) \cup ToSet(bytes)
      <3>1. CASE i \in 1 .. Len(wire)
        BY <1>2, <3>1 DEF ToSet
      <3>2. CASE i \notin 1 .. Len(wire)
        <4>1. i - Len(wire) \in DOMAIN bytes /\ (wire \o bytes)[i] = bytes[i - Len(wire)]
          BY <1>2, <3>2
        <4>2. QED
          BY <4>1 DEF ToSet
      <3>3. QED
        BY <3>1, <3>2
    <2>2. QED
      BY <1>1, <2>1 DEF ToSet
  <1>5. QED
    BY <1>1, <1>3, <1>4 DEF SignalInv, Signalled

\* A read moves bytes, or drops them.
LEMMA ReadSignals ==
    ASSUME WireInv, SignalInv, NEW n \in 1 .. Len(wire), read_message(n)
    PROVE  SignalInv'
  <1>1. data' = SubSeq(wire, 1, n) /\ wire' = SubSeq(wire, n + 1, Len(wire)) /\ sent' = sent
    BY DEF read_message
  <1>2. wire \in Seq(Byte) /\ Len(wire) \in Nat
    BY DEF WireInv, Piece
  <1>3. ASSUME NEW a \in 1 .. Len(wire) + 1, NEW z \in a - 1 .. Len(wire)
        PROVE  ToSet(SubSeq(wire, a, z)) \subseteq ToSet(wire)
    <2>1. /\ DOMAIN SubSeq(wire, a, z) = 1 .. z - a + 1
          /\ \A i \in 1 .. z - a + 1 : SubSeq(wire, a, z)[i] = wire[a + i - 1] /\ a + i - 1 \in DOMAIN wire
      BY <1>2, PartBytes
    <2>2. QED
      BY <2>1 DEF ToSet
  <1>4. ToSet(data') \subseteq ToSet(wire) /\ ToSet(wire') \subseteq ToSet(wire)
    <2>1. 1 \in 1 .. Len(wire) + 1 /\ n \in 1 - 1 .. Len(wire) /\ n + 1 \in 1 .. Len(wire) + 1
          /\ Len(wire) \in (n + 1) - 1 .. Len(wire)
      BY <1>2
    <2>2. QED
      BY <1>1, <1>3, <2>1
  <1>5. QED
    BY <1>1, <1>4 DEF SignalInv

\* Every step keeps the invariant.
LEMMA NextSignals == WireInv /\ SignalInv /\ [Next]_vars => SignalInv'
  <1>1. SUFFICES ASSUME WireInv, SignalInv, [Next]_vars PROVE SignalInv'
    OBVIOUS
  <1>2. CASE \E p \in Payload : SendPacket(p)
    <2>1. PICK p \in Payload : Send(format_gdb_message(p), p)
      BY <1>2 DEF SendPacket
    <2>2. p \in Sendings /\ p \in Seq(Byte) /\ Interrupt \notin ToSet(p)
      BY PayloadClean DEF Sendings, Clean
    <2> DEFINE bytes == format_gdb_message(p)
    <2>3. bytes \in Seq(Byte) /\ Interrupt \notin ToSet(bytes)
      BY <2>2, PacketShape, PacketSignals
    <2>4. Send(bytes, p)
      BY <2>1
    <2> HIDE DEF bytes
    <2>5. QED
      BY <1>1, <2>2, <2>3, <2>4, SendSignals
  <1>3. CASE \E p \in Payload : SendSpoilt(p)
    <2>1. PICK p \in Payload : Send(Spoilt(format_gdb_message(p)), <<>>)
      BY <1>3 DEF SendSpoilt, Spoilt
    <2>2. p \in Seq(Byte) /\ Interrupt \notin ToSet(p)
      BY PayloadClean DEF Clean
    <2> DEFINE bytes == Spoilt(format_gdb_message(p))
               none == <<>>
    <2>3. bytes \in Seq(Byte) /\ Interrupt \notin ToSet(bytes)
      <3>1. Interrupt \notin ToSet(bytes)
        BY <2>2, SpoiltSignals
      <3>2. Piece(bytes, sent)
        BY PayloadClean, SpoiltIsPiece
      <3>3. QED
        BY <3>1, <3>2 DEF Piece
    <2>4. Send(bytes, none) /\ none \in Sendings
      BY <2>1 DEF Sendings
    <2> HIDE DEF bytes, none
    <2>5. QED
      BY <1>1, <2>3, <2>4, SendSignals
  <1>4. CASE \E d \in Data : SendBinary(d)
    <2>1. PICK d \in Data : Send(format_gdb_message(Behind(escape(d))), Behind(d))
      BY <1>4 DEF SendBinary, Behind
    <2> DEFINE e == escape(d)
               body == Behind(e)
               bytes == format_gdb_message(body)
               what == Behind(d)
    <2>2. d \in Seq(Byte) /\ e \in Seq(Byte) /\ body \in Seq(Byte) /\ what \in Sendings
      BY BinaryClean DEF Clean, Sendings
    <2>3. bytes \in Seq(Byte)
      BY <2>2, PacketShape
    <2>4. what # <<>> /\ what[1] = 88 /\ SubSeq(what, 3, Len(what)) = d
      BY <2>2, BehindBytes
    <2>5. ASSUME Interrupt \in ToSet(bytes) PROVE HoldsInterrupt(what)
      <3>1. Interrupt \in ToSet(body)
        BY <2>2, <2>5, PacketSignals
      <3>2. Interrupt \in ToSet(e)
        <4> HIDE DEF e
        <4>0. e \in Seq(Byte) /\ body = Behind(e)
          BY <2>2
        <4>1. /\ Len(body) = Len(e) + 2 /\ Len(e) \in Nat /\ body[1] = 88 /\ body[2] = Colon /\ body \in Seq(Byte)
              /\ \A j \in 1 .. Len(e) : body[j + 2] = e[j]
          BY <4>0, BehindBytes
        <4> HIDE DEF body
        <4>2. PICK i \in 1 .. Len(e) + 2 : body[i] = Interrupt
          BY <3>1, <4>1 DEF ToSet
        <4>3. i - 2 \in 1 .. Len(e) /\ (i - 2) + 2 = i
          BY <4>1, <4>2 DEF Interrupt, Colon
        <4>4. e[i - 2] = Interrupt /\ i - 2 \in DOMAIN e
          BY <2>2, <4>1, <4>2, <4>3
        <4>5. QED
          BY <4>4 DEF ToSet
      <3> HIDE DEF what
      <3>3. QED
        BY <2>4, <3>2 DEF HoldsInterrupt
    <2>6. Send(bytes, what)
      BY <2>1
    <2> HIDE DEF bytes, what
    <2>7. QED
      BY <1>1, <2>2, <2>3, <2>4, <2>5, <2>6, SendSignals
  <1>5. CASE \E ack \in Acks : SendAck(ack)
    <2>1. PICK ack \in Acks : Send(<<ack>>, <<>>)
      BY <1>5 DEF SendAck
    <2> DEFINE bytes == <<ack>>
               none == <<>>
    <2>2. ack \in Byte /\ ack # Interrupt
      BY DEF Acks, Ack, BadAck, Byte, Interrupt
    <2>3. bytes \in Seq(Byte) /\ Interrupt \notin ToSet(bytes)
      BY <2>2 DEF ToSet
    <2>4. Send(bytes, none) /\ none \in Sendings
      BY <2>1 DEF Sendings
    <2> HIDE DEF bytes, none
    <2>5. QED
      BY <1>1, <2>3, <2>4, SendSignals
  <1>6. CASE SendInterrupt
    <2> DEFINE bytes == <<Interrupt>>
    <2>1. Send(bytes, bytes)
      BY <1>6 DEF SendInterrupt
    <2>2. bytes \in Seq(Byte) /\ bytes \in Sendings /\ bytes # <<>>
      BY DEF Byte, Interrupt, Sendings
    <2>3. HoldsInterrupt(bytes)
      BY DEF HoldsInterrupt
    <2> HIDE DEF bytes
    <2>4. QED
      BY <1>1, <2>1, <2>2, <2>3, SendSignals
  <1>7. CASE \E n \in 1 .. Len(wire) : read_message(n)
    BY <1>1, <1>7, ReadSignals
  <1>8. CASE UNCHANGED vars
    BY <1>1, <1>8 DEF vars, SignalInv
  <1>9. QED
    BY <1>1, <1>2, <1>3, <1>4, <1>5, <1>6, <1>7, <1>8 DEF Next

\* A byte that looks like an interrupt, under way or in the last read, was sent by
\* the client: as an interrupt, or in binary data.
LEMMA SignalsWereSent == Spec => []SignalInv
  <1>1. Init => SignalInv
    BY DEF Init, SignalInv, ToSet
  <1>2. WireInv /\ SignalInv /\ [Next]_vars => SignalInv'
    BY NextSignals
  <1>3. QED
    BY <1>1, <1>2, WireIsPieces, PTL DEF Spec

\* So was an interrupt that the server acts on.
LEMMA StopsSignalled == WireInv /\ SignalInv => (stops > 0 => Signalled(sent))
  <1>1. SUFFICES ASSUME WireInv, SignalInv, stops > 0 PROVE Signalled(sent)
    OBVIOUS
  <1>2. Now.stops = stops /\ stops # 0
    BY <1>1 DEF Now
  <1>3. PICK m \in ToSet(Scan(data).messages) : Verdict(m) = "stop"
    BY <1>1, <1>2, NowType
  <1>4. data \in Seq(Byte)
    BY <1>1 DEF WireInv, Piece
  <1>5. Interrupt \in ToSet(data)
    BY <1>3, <1>4, QuietScan
  <1>6. QED
    BY <1>1, <1>5 DEF SignalInv

-----------------------------------------------------------------------------
(* What the commands of a read come from.                                  *)

\* A command the Debugger is given for contents that were sent.
Sent(p, past) ==
    \E q \in ToSet(past) \ {<<>>} :
        p = IF q[1] = 88 THEN <<88, Colon>> \o Starred(SubSeq(q, 3, Len(q))) ELSE q

\* The Debugger is given a text packet as it is.
LEMMA ReceivedPayload == ASSUME NEW p \in Payload PROVE Received(p) = p
  BY PayloadClean DEF Received, Types

\* It is given an 'X' packet's data unescaped, but for a '*'.
LEMMA ReceivedBinary ==
    ASSUME NEW d \in Data
    PROVE  Received(Behind(escape(d))) = <<88, Colon>> \o Starred(d)
  <1> DEFINE e == escape(d)
             b == Behind(e)
  <1>1. d \in Seq(Byte) /\ e \in Seq(Byte)
    BY BinaryClean
  <1>2. unescape(e) = Starred(d)
    BY <1>1, UnescapeUndoes
  <1> HIDE DEF e
  <1>3. b[1] = 88 /\ SubSeq(b, 3, Len(b)) = e
    BY <1>1, BehindBytes
  <1> HIDE DEF b
  <1>4. Received(b) = <<88, Colon>> \o unescape(SubSeq(b, 3, Len(b)))
    BY <1>3 DEF Received, Types
  <1>5. QED
    BY <1>2, <1>3, <1>4 DEF b, e

\* What it is given for contents that were sent, was sent.
LEMMA ReceivedSent ==
    ASSUME NEW body, NEW past, SentBody(body, past)
    PROVE  Sent(Received(body), past)
  <1>1. CASE body \in Payload /\ body \in ToSet(past)
    <2>1. body # <<>> /\ body[1] # 88
      BY <1>1, PayloadClean DEF Clean
    <2>2. Received(body) = body
      BY <1>1, ReceivedPayload
    <2>3. body \in ToSet(past) \ {<<>>}
      BY <1>1, <2>1
    <2>4. QED
      BY <2>1, <2>2, <2>3 DEF Sent
  <1>2. CASE \E d \in Data : body = <<88, Colon>> \o escape(d) /\ <<88, Colon>> \o d \in ToSet(past)
    <2>1. PICK d \in Data : body = Behind(escape(d)) /\ Behind(d) \in ToSet(past)
      BY <1>2 DEF Behind
    <2> DEFINE q == Behind(d)
    <2>2. d \in Seq(Byte)
      BY BinaryClean
    <2>3. q[1] = 88 /\ q # <<>> /\ SubSeq(q, 3, Len(q)) = d
      BY <2>2, BehindBytes
    <2>4. Received(body) = <<88, Colon>> \o Starred(d)
      BY <2>1, ReceivedBinary
    <2>5. q \in ToSet(past) \ {<<>>}
      BY <2>1, <2>3
    <2> HIDE DEF q
    <2>6. QED
      BY <2>3, <2>4, <2>5 DEF Sent
  <1>3. QED
    BY <1>1, <1>2 DEF SentBody

\* An exception while the read is cut leaves the Debugger without a command.
LEMMA RaisedHandlesNothing ==
    ASSUME WireInv, Scan(data).raised
    PROVE  handled = <<>>
  <1> DEFINE all == Scan(data).messages
  <1>1. PICK fds \in SUBSET (0 .. MaxFd - 1) : Now = Handling(Begin(data, fds), all)
    BY WhatWasRead
  <1>2. all \in Seq(Messages)
    BY WhatWasRead
  <1> DEFINE start == Begin(data, fds)
  <1>3. start.alive = "raised" /\ start.handled = <<>>
    BY DEF Begin
  <1> HIDE DEF start, all
  <1>4. Handling(start, all) = start
    BY <1>2, <1>3, HandleRaised
  <1>5. Now.handled = <<>>
    BY <1>1, <1>3, <1>4 DEF start
  <1>6. QED
    BY <1>5 DEF Now

\* The messages of a read that was cut without an exception.
LEMMA MessagesOk ==
    ASSUME WireInv, ~Scan(data).raised, NEW m \in ToSet(Scan(data).messages)
    PROVE  MessageOk(data, m, sent)
  BY WhatWasRead DEF ScanSound

\* The commands of a read are commands that were sent, and a Stop is made of a
\* byte that was.
LEMMA OnlySentHolds == WireInv /\ SignalInv => OnlyWhatWasSent
  <1>1. SUFFICES ASSUME WireInv, NEW p \in ToSet(handled) PROVE Sent(p, sent)
    BY StopsSignalled, Zenon DEF OnlyWhatWasSent, Sent, Signalled
  <1>2. CASE Scan(data).raised
    <2>1. handled = <<>>
      BY <1>1, <1>2, RaisedHandlesNothing
    <2>2. ToSet(handled) = {}
      BY <2>1 DEF ToSet
    <2>3. QED
      BY <2>2
  <1>3. CASE ~Scan(data).raised
    <2> DEFINE H == Brought(Scan(data).messages)
    <2>1. Now \in ServerStates(H)
      BY <1>1, NowType
    <2>2. handled \in Seq(H)
      BY <2>1 DEF ServerStates, Now
    <2>3. p \in H
      <3> HIDE DEF H
      <3>1. QED
        BY <2>2 DEF ToSet
    <2>4. PICK m \in ToSet(Scan(data).messages) : Verdict(m) = "good" /\ p = Received(Contents(m.bytes))
      BY <2>3 DEF Brought
    <2>5. SentBody(Contents(m.bytes), sent)
      BY <1>1, <1>3, <2>4, MessagesOk DEF MessageOk
    <2>6. QED
      BY <2>4, <2>5, ReceivedSent
  <1>4. QED
    BY <1>2, <1>3

\* The Debugger is never given a command, or data, that the client has not sent:
\* for any packets, any binary data and any way of cutting the stream, no two
\* packets are joined and no part of one is taken for a whole.  It is stopped only
\* if the client has sent an interrupt, or binary data with such a byte on the wire.
THEOREM OnlySentIsHandled == Spec => []OnlyWhatWasSent
  BY WireIsPieces, SignalsWereSent, OnlySentHolds, PTL

-----------------------------------------------------------------------------
(* Packets whose contents cannot be parsed.                                *)

\* Only the bytes behind the first two of an 'X' packet count.
LEMMA SplitsOnce ==
    ASSUME NEW x \in Seq(Byte)
    PROVE  Splits(Behind(x), Colon) <=> \A j \in DOMAIN x : x[j] # Colon
  <1> DEFINE b == Behind(x)
             places == {i \in DOMAIN b : b[i] = Colon}
  <1>1. /\ b \in Seq(Byte) /\ Len(b) = Len(x) + 2 /\ b[1] = 88 /\ b[2] = Colon
        /\ \A j \in 1 .. Len(x) : b[j + 2] = x[j]
    BY BehindBytes
  <1>2. Splits(b, Colon) <=> Cardinality(places) = 1
    BY DEF Splits
  <1> HIDE DEF b
  <1>3. DOMAIN b = 1 .. Len(x) + 2 /\ DOMAIN x = 1 .. Len(x) /\ Len(x) \in Nat
    BY <1>1
  <1>4. 2 \in places
    BY <1>1, <1>3
  <1>5. Colon # 88
    BY DEF Colon
  <1>6. IsFiniteSet(places)
    <2>1. IsFiniteSet(1 .. Len(x) + 2)
      BY <1>3, FS_Interval
    <2>2. places \subseteq 1 .. Len(x) + 2
      BY <1>3
    <2> HIDE DEF places
    <2>3. QED
      BY <2>1, <2>2, FS_Subset
  <1>7. ASSUME \A j \in DOMAIN x : x[j] # Colon PROVE Cardinality(places) = 1
    <2>1. ASSUME NEW i \in places PROVE i = 2
      <3>1. i \in 1 .. Len(x) + 2 /\ b[i] = Colon
        BY <1>3
      <3>2. CASE i = 1
        BY <1>1, <1>5, <3>1, <3>2
      <3>3. CASE i > 2
        <4>1. i - 2 \in 1 .. Len(x) /\ (i - 2) + 2 = i
          BY <1>3, <3>1, <3>3
        <4>2. QED
          BY <1>1, <1>3, <1>7, <3>1, <4>1
      <3>4. QED
        BY <1>3, <3>1, <3>2, <3>3
    <2>2. places = {2}
      BY <1>4, <2>1
    <2>3. QED
      BY <2>2, FS_Singleton
  <1>8. ASSUME Cardinality(places) = 1 PROVE \A j \in DOMAIN x : x[j] # Colon
    <2>1. \E y : places = {y}
      <3> HIDE DEF places
      <3>1. QED
        BY <1>6, <1>8, FS_Singleton
    <2>2. places = {2}
      BY <1>4, <2>1
    <2>3. SUFFICES ASSUME NEW j \in DOMAIN x, x[j] = Colon PROVE FALSE
      OBVIOUS
    <2>4. j + 2 \in 1 .. Len(x) + 2 /\ b[j + 2] = Colon /\ j + 2 # 2
      BY <1>1, <1>3, <2>3
    <2>5. j + 2 \in places
      BY <1>3, <2>4
    <2>6. QED
      BY <2>2, <2>4, <2>5
  <1>9. QED
    BY <1>2, <1>7, <1>8 DEF b

\* An 'X' packet is not parsed if there is a ':' in its data.
LEMMA BinaryUnparsed ==
    ASSUME NEW x \in Seq(Byte)
    PROVE  /\ Unparsed(Behind(x)) <=> \E j \in DOMAIN x : x[j] = Colon
           /\ Behind(x)[1] \in handlers /\ ~Unhandled(Behind(x))
  <1> DEFINE b == Behind(x)
  <1>1. b[1] = 88
    BY BehindBytes
  <1>2. Splits(b, Colon) <=> \A j \in DOMAIN x : x[j] # Colon
    BY SplitsOnce
  <1> HIDE DEF b
  <1>3. Unparsed(b) <=> ~Splits(b, Colon)
    BY <1>1 DEF Unparsed, WriteMemoryBinary, Types
  <1>4. b[1] \in handlers /\ ~Unhandled(b)
    <2>1. 88 = Types["WRITE_MEM_BIN"] /\ "WRITE_MEM_BIN" \in DOMAIN Types
      BY DEF Types
    <2>2. 88 \in handlers
      BY <2>1 DEF handlers
    <2>3. QED
      BY <1>1, <2>2 DEF Unhandled, Types
  <1>5. QED
    BY <1>2, <1>3, <1>4 DEF b

\* Escaping the data makes no ':'.
LEMMA EscapedUnparsed ==
    ASSUME NEW d \in Data, Unparsed(Behind(escape(d)))
    PROVE  Unparsed(Behind(d))
  <1> DEFINE e == escape(d)
  <1>1. d \in Seq(Byte) /\ e \in Seq(Byte)
    BY BinaryClean
  <1>2. e \in EscapedSet(d)
    BY <1>1, EscapeIsClean
  <1>3. Unparsed(Behind(e))
    OBVIOUS
  <1> HIDE DEF e
  <1>4. \E j \in DOMAIN e : e[j] = Colon
    BY <1>1, <1>3, BinaryUnparsed
  <1>5. \E j \in DOMAIN d : d[j] = Colon
    BY <1>2, <1>4 DEF EscapedSet
  <1>6. QED
    BY <1>1, <1>5, BinaryUnparsed

-----------------------------------------------------------------------------
(* What ends a session.                                                    *)

\* The same, by numbers of bytes.
LEMMA JumbledRead ==
    ASSUME NEW b \in Seq(Byte), Jumbled(b)
    PROVE  \E i, j \in 1 .. Len(b) : i < j /\ b[i] \notin Acks /\ b[j] = Dollar
  BY DEF Jumbled

\* What raises by itself was sent.
LEMMA CulpritSent ==
    ASSUME NEW body, NEW past, SentBody(body, past), Culprit(body)
    PROVE  \E p \in ToSet(past) : p # <<>> /\ p[1] \in handlers /\ (Unparsed(p) \/ Unhandled(p))
  <1>1. CASE body \in Payload /\ body \in ToSet(past)
    <2>1. body # <<>>
      BY <1>1, PayloadClean DEF Clean
    <2>2. QED
      BY <1>1, <2>1 DEF Culprit
  <1>2. CASE \E d \in Data : body = <<88, Colon>> \o escape(d) /\ <<88, Colon>> \o d \in ToSet(past)
    <2>1. PICK d \in Data : body = Behind(escape(d)) /\ Behind(d) \in ToSet(past)
      BY <1>2 DEF Behind
    <2> DEFINE q == Behind(d)
    <2>2. d \in Seq(Byte) /\ escape(d) \in Seq(Byte)
      BY BinaryClean
    <2>3. Unparsed(body)
      BY <2>1, <2>2, BinaryUnparsed DEF Culprit
    <2>4. Unparsed(q)
      BY <2>1, <2>3, EscapedUnparsed
    <2>5. q # <<>> /\ q[1] \in handlers
      BY <2>2, BehindBytes, BinaryUnparsed
    <2> HIDE DEF q
    <2>6. QED
      BY <2>1, <2>4, <2>5 DEF q
  <1>3. QED
    BY <1>1, <1>2 DEF SentBody

\* A session that is over was ended by a jumbled read or by a command.
LEMMA SurvivesHolds == WireInv => SurvivesCutting
  <1>1. SUFFICES ASSUME WireInv, alive = "raised" PROVE SurvivesCutting
    BY DEF SurvivesCutting
  <1>2. data \in Seq(Byte)
    BY <1>1 DEF WireInv, Piece
  <1>3. Jumbled(data) => SurvivesCutting
    BY <1>2, JumbledRead DEF SurvivesCutting
  <1>4. CASE Scan(data).raised
    <2>1. Jumbled(data)
      BY <1>1, <1>4, WhatWasRead DEF ScanSound
    <2>2. QED
      BY <1>3, <2>1
  <1>5. CASE ~Scan(data).raised
    <2>1. Now.alive = "raised"
      BY <1>1 DEF Now
    <2>2. PICK m \in ToSet(Scan(data).messages) : Raiser(m)
      BY <1>1, <1>5, <2>1, NowType
    <2>3. MessageOk(data, m, sent)
      BY <1>1, <1>5, MessagesOk
    <2>4. CASE Verdict(m) = "raise"
      BY <1>3, <2>3, <2>4 DEF MessageOk
    <2>5. CASE Verdict(m) = "good" /\ Culprit(Contents(m.bytes))
      <3>1. SentBody(Contents(m.bytes), sent)
        BY <2>3, <2>5 DEF MessageOk
      <3>2. \E p \in ToSet(sent) : p # <<>> /\ p[1] \in handlers /\ (Unparsed(p) \/ Unhandled(p))
        BY <2>5, <3>1, CulpritSent
      <3>3. QED
        BY <3>2 DEF SurvivesCutting
    <2>6. QED
      BY <2>2, <2>4, <2>5 DEF Raiser
  <1>6. QED
    BY <1>4, <1>5

\* Only a read with the start of a packet behind something else, or a command that
\* raises by itself, ends a session.
THEOREM SessionSurvivesCutting == Spec => []SurvivesCutting
  BY WireIsPieces, SurvivesHolds, PTL

-----------------------------------------------------------------------------
(* A packet that arrives whole.                                            *)

\* A packet as it is sent passes its checksum.
LEMMA FormatGood ==
    ASSUME NEW body, Clean(body)
    PROVE  LET m == [bytes |-> format_gdb_message(body), list |-> FALSE]
           IN  m \in Messages /\ Verdict(m) = "good" /\ Contents(m.bytes) = body
  <1> DEFINE u == format_gdb_message(body)
             n == Len(body)
             m == [bytes |-> u, list |-> FALSE]
  <1>1. body \in Seq(Byte) /\ body # <<>>
    BY DEF Clean
  <1>2. /\ u \in Seq(Byte) /\ Len(u) = n + 4 /\ n \in Nat /\ u[1] = Dollar
        /\ u[n + 3] \in Digits /\ u[n + 4] \in Digits /\ SumOf(u) = checksum(body) /\ Contents(u) = body
    BY <1>1, PacketShape
  <1> HIDE DEF u
  <1>3. m \in Messages /\ m.bytes = u /\ m.list = FALSE
    BY <1>2 DEF Messages
  <1> HIDE DEF m
  <1>4. u # <<Interrupt>>
    <2>1. Len(u) # 1
      BY <1>2
    <2>2. Len(<<Interrupt>>) = 1
      OBVIOUS
    <2>3. QED
      BY <2>1, <2>2, Zenon
  <1>5. Numeral(u)
    <2>1. Len(u) - 1 = n + 3
      BY <1>2
    <2>2. QED
      BY <1>2, <2>1 DEF Numeral
  <1>6. Verdict(m) = "good"
    BY <1>1, <1>2, <1>3, <1>4, <1>5 DEF Verdict
  <1>7. QED
    BY <1>2, <1>3, <1>6 DEF m, u

\* The server when it comes to the contents of the first packet of a read.
Ready(s, body) == s \in ServerStates({Received(body)}) /\ s.alive = "open" /\ s.handled = <<>>

\* The packet is all that the read comes to.
LEMMA PacketDelivered ==
    ASSUME WireInv, NEW i, NEW body, Clean(body), Arrives(data, i, body)
    PROVE  \E s : Ready(s, body) /\ Now = Dispatch(s, body)
  <1> DEFINE m == [bytes |-> format_gdb_message(body), list |-> FALSE]
             H == {Received(body)}
  <1>1. m \in Messages /\ Verdict(m) = "good" /\ Contents(m.bytes) = body
    BY FormatGood
  <1>2. Scan(data).raised = FALSE /\ Scan(data).messages = <<m>>
    BY ScanWhole
  <1>3. PICK fds \in SUBSET (0 .. MaxFd - 1) : Now = Handling(Begin(data, fds), Scan(data).messages)
    BY WhatWasRead
  <1> HIDE DEF m
  <1> DEFINE start == Begin(data, fds)
             acked == [start EXCEPT !.out = Append(@, <<Ack>>)]
  <1>4. start \in ServerStates(H) /\ start.alive = "open" /\ start.handled = <<>>
    BY <1>2, BeginType
  <1>5. Received(body) \in H
    OBVIOUS
  <1> HIDE DEF H
  <1>6. <<Ack>> \in Sendable
    BY DEF Sendable
  <1>7. Now = Handling(start, <<m>>)
    BY <1>2, <1>3
  <1> HIDE DEF start
  <1>8. Now = HandleMessage(start, m)
    BY <1>1, <1>4, <1>5, <1>7, HandleOne
  <1>9. HandleMessage(start, m) = Dispatch(acked, body)
    BY <1>1, <1>4 DEF HandleMessage
  <1>10. acked \in ServerStates(H) /\ acked.alive = "open" /\ acked.handled = <<>>
    BY <1>4, <1>6, SendType DEF Answers
  <1> HIDE DEF acked
  <1>11. Ready(acked, body)
    BY <1>10 DEF Ready, H
  <1>12. QED
    BY <1>8, <1>9, <1>11

\* The state in which a handler is called.
LEMMA CommandTaken ==
    ASSUME NEW p, NEW s, Ready(s, p)
    PROVE  LET t == [s EXCEPT !.handled = Append(@, Received(p))]
           IN  /\ t \in ServerStates({Received(p)}) /\ t.alive = "open" /\ t.handled = <<Received(p)>>
               /\ t.open_fds = s.open_fds
  <1> DEFINE H == {Received(p)}
             t == [s EXCEPT !.handled = Append(@, Received(p))]
  <1>1. s \in ServerStates(H) /\ s.alive = "open" /\ s.handled = <<>> /\ Received(p) \in H
    BY DEF Ready
  <1> HIDE DEF H
  <1>2. t \in ServerStates(H) /\ t.alive = s.alive /\ t.handled = Append(s.handled, Received(p))
    BY <1>1, TakenType
  <1>3. Append(s.handled, Received(p)) = <<Received(p)>>
    BY <1>1
  <1>4. t.open_fds = s.open_fds
    BY <1>1 DEF ServerStates
  <1> HIDE DEF t
  <1>5. QED
    BY <1>1, <1>2, <1>3, <1>4 DEF t, H

\* A packet of a known kind that can be parsed is given to the Debugger, once, and
\* an 'X' packet does not end the session.
LEMMA DispatchTakes ==
    ASSUME NEW p, NEW s, Ready(s, p), p[1] \in handlers, ~Unparsed(p)
    PROVE  /\ Dispatch(s, p).handled = <<Received(p)>>
           /\ p[1] = 88 => Dispatch(s, p).alive = "open"
  <1> DEFINE H == {Received(p)}
             t == [s EXCEPT !.handled = Append(@, Received(p))]
  <1>1. t \in ServerStates(H) /\ t.alive = "open" /\ t.handled = <<Received(p)>>
    BY CommandTaken
  <1>2. Dispatch(s, p) = IF Unhandled(p) THEN [t EXCEPT !.alive = "raised"] ELSE Act(t, p)
    BY DEF Dispatch
  <1> HIDE DEF t, H
  <1>3. CASE Unhandled(p)
    <2>1. Dispatch(s, p).handled = t.handled
      BY <1>1, <1>2, <1>3 DEF ServerStates
    <2>2. p[1] # 88
      BY <1>3 DEF Unhandled, Types
    <2>3. QED
      BY <1>1, <2>1, <2>2
  <1>4. CASE ~Unhandled(p)
    <2>1. Dispatch(s, p) = Act(t, p)
      BY <1>2, <1>4
    <2>2. Answers(H, t, Act(t, p))
      BY <1>1, ActAnswers
    <2>3. Act(t, p).handled = <<Received(p)>>
      BY <1>1, <2>2 DEF Answers
    <2>4. ASSUME p[1] = 88 PROVE Act(t, p).alive = "open"
      <3>1. Act(t, p) = Reply(t, OK)
        BY <2>4 DEF Act, Types
      <3>2. OK \in Replies
        BY DEF Replies
      <3>3. QED
        BY <1>1, <3>1, <3>2, ReplyType
    <2>5. QED
      BY <2>1, <2>3, <2>4
  <1>5. QED
    BY <1>3, <1>4

\* The client's packets in its history.
LEMMA PacketSent ==
    ASSUME WireInv, NEW p \in ToSet(sent) \ {<<>>, <<Interrupt>>}
    PROVE  p \in Payload \/ \E d \in Data : p = Behind(d)
  <1>1. sent \in Seq(Sendings)
    BY DEF WireInv
  <1>2. p \in Sendings
    BY <1>1 DEF ToSet
  <1>3. QED
    BY <1>2 DEF Sendings

\* A read that brings a packet is one in which it arrives.
LEMMA BroughtPacket ==
    ASSUME WireInv, NEW body, Brings(body)
    PROVE  \E i : Arrives(data, i, body)
  BY DEF WireInv, Piece, Brings, Arrives

\* A read that brings one packet is acted on once.
LEMMA WholeHolds == WireInv => WholePacketsHandled
  <1>1. SUFFICES ASSUME WireInv, NEW p \in ToSet(sent) \ {<<>>, <<Interrupt>>}
                 PROVE  /\ p[1] # 88 /\ Brings(p) /\ p[1] \in handlers /\ ~Unparsed(p) => handled = <<p>>
                        /\ p[1] = 88 /\ Brings(<<88, Colon>> \o escape(SubSeq(p, 3, Len(p)))) /\ ~Unparsed(p)
                              => Len(handled) = 1 /\ alive = "open"
    BY DEF WholePacketsHandled
  <1>2. ASSUME p[1] # 88, Brings(p), p[1] \in handlers, ~Unparsed(p) PROVE handled = <<p>>
    <2>1. p \in Payload
      <3>1. \A d \in Data : Behind(d)[1] = 88
        BY BinaryClean, BehindBytes
      <3>2. QED
        BY <1>1, <1>2, <3>1, PacketSent
    <2>2. Clean(p) /\ Received(p) = p
      BY <2>1, PayloadClean, ReceivedPayload
    <2>3. PICK i : Arrives(data, i, p)
      BY <1>1, <1>2, BroughtPacket
    <2>4. PICK s : Ready(s, p) /\ Now = Dispatch(s, p)
      BY <1>1, <2>2, <2>3, PacketDelivered
    <2>5. Now.handled = <<p>>
      BY <1>2, <2>2, <2>4, DispatchTakes
    <2>6. QED
      BY <2>5 DEF Now
  <1>3. ASSUME p[1] = 88, Brings(<<88, Colon>> \o escape(SubSeq(p, 3, Len(p)))), ~Unparsed(p)
        PROVE  Len(handled) = 1 /\ alive = "open"
    <2>1. PICK d \in Data : p = Behind(d)
      BY <1>1, <1>3, PacketSent, PayloadClean
    <2> DEFINE e == escape(d)
               body == Behind(e)
    <2>2. d \in Seq(Byte) /\ e \in Seq(Byte) /\ Clean(body)
      BY BinaryClean
    <2>3. SubSeq(p, 3, Len(p)) = d
      BY <2>1, <2>2, BehindBytes
    <2>4. Brings(body)
      BY <1>3, <2>3 DEF Behind
    <2>5. ~Unparsed(body)
      BY <1>3, <2>1, EscapedUnparsed
    <2> HIDE DEF e
    <2>6. body[1] = 88 /\ body[1] \in handlers
      BY <2>2, BehindBytes, BinaryUnparsed
    <2> HIDE DEF body
    <2>7. PICK i : Arrives(data, i, body)
      BY <1>1, <2>4, BroughtPacket
    <2>8. PICK s : Ready(s, body) /\ Now = Dispatch(s, body)
      BY <1>1, <2>2, <2>7, PacketDelivered
    <2>9. Now.handled = <<Received(body)>> /\ Now.alive = "open"
      BY <2>5, <2>6, <2>8, DispatchTakes
    <2>10. handled = <<Received(body)>> /\ alive = "open"
      BY <2>9 DEF Now
    <2>11. QED
      BY <2>10
  <1>4. QED
    BY <1>2, <1>3

\* The server acts once on a packet that arrives whole, whatever acknowledgements
\* come before it, and an 'X' packet leaves the session open.
THEOREM WholePacketsAreHandled == Spec => []WholePacketsHandled
  BY WireIsPieces, WholeHolds, PTL

-----------------------------------------------------------------------------
(* What the client gets.                                                   *)

\* Every reply to a read can be read.
LEMMA OutReadable ==
    ASSUME WireInv, NEW i \in DOMAIN out, Len(out[i]) > 1
    PROVE  ClientReads(out[i]) # <<Hash>>
  <1> DEFINE H == Brought(Scan(data).messages)
  <1>1. Now \in ServerStates(H)
    BY NowType
  <1>2. out \in Seq(Sendable)
    BY <1>1 DEF ServerStates, Now
  <1>3. out[i] \in Sendable
    BY <1>2
  <1>4. QED
    BY <1>3, SendableReads

\* A read of the file.
LEMMA PreadDispatched ==
    ASSUME NEW fd \in Int, NEW p, p = <<118, 112, 48 + fd>>, NEW s, Ready(s, p), fd \in Dispatch(s, p).open_fds
    PROVE  LET t == Dispatch(s, p)
           IN  t.out \in Seq(Sendable) /\ t.out # <<>> /\ Last(t.out) = format_gdb_message(PreadResponse(File))
  <1> DEFINE H == {Received(p)}
             t == [s EXCEPT !.handled = Append(@, Received(p))]
             reply == IF fd \in t.open_fds THEN PreadResponse(File) ELSE FileResponse(-1)
  <1>1. t \in ServerStates(H)
    BY CommandTaken
  <1>2. p[1] = 118 /\ p[2] = 112 /\ Fd(p) = fd
    BY DEF Fd
  <1>3. p[1] \in handlers
    <2>1. 118 = Types["EXTENDED"] /\ "EXTENDED" \in DOMAIN Types
      BY DEF Types
    <2>2. QED
      BY <1>2, <2>1 DEF handlers
  <1>4. ~Unparsed(p) /\ ~Unhandled(p)
    BY <1>2 DEF Unparsed, Unhandled, Types
  <1>5. Dispatch(s, p) = Act(t, p)
    BY <1>3, <1>4 DEF Dispatch
  <1> HIDE DEF t
  <1>6. Act(t, p) = handle_extended(t, p)
    BY <1>2 DEF Act, Types
  <1>7. handle_extended(t, p) = handle_file_pread(t, fd)
    BY <1>2 DEF handle_extended
  <1>8. handle_file_pread(t, fd) = Reply(t, reply)
    BY DEF handle_file_pread
  <1> HIDE DEF reply, H
  <1>9. Reply(t, reply).open_fds = t.open_fds
    BY <1>1 DEF Reply, ServerStates
  <1>10. reply = PreadResponse(File)
    BY <1>5, <1>6, <1>7, <1>8, <1>9 DEF reply
  <1> DEFINE packet == format_gdb_message(reply)
             sending == Append(t.out, packet)
  <1>11. Reply(t, reply).out = sending
    BY <1>1 DEF Reply, ServerStates
  <1>12. t.out \in Seq(Sendable)
    BY <1>1 DEF ServerStates
  <1>13. packet \in Sendable
    BY <1>10 DEF Sendable, Replies
  <1> HIDE DEF packet
  <1>14. sending \in Seq(Sendable) /\ Len(sending) = Len(t.out) + 1 /\ sending[Len(sending)] = packet
    BY <1>12, <1>13
  <1>15. sending # <<>> /\ Last(sending) = packet
    BY <1>12, <1>14 DEF Last
  <1> HIDE DEF sending
  <1>16. QED
    BY <1>5, <1>6, <1>7, <1>8, <1>10, <1>11, <1>14, <1>15 DEF packet

\* The reply to a read of an open file is the file.
LEMMA FileReadable ==
    ASSUME WireInv, NEW fd \in open_fds, Brings(<<118, 112, 48 + fd>>)
    PROVE  ClientReads(Last(out)) = <<70>> \o Hexadecimal(Len(File)) \o <<59>> \o File
  <1> DEFINE c == 48 + fd
             p == <<118, 112, c>>
  <1>1. fd \in 0 .. MaxFd - 1
    BY NowType DEF Now, ServerStates
  <1>2. c \in Byte /\ c \notin {Dollar, Hash, Escape}
    BY <1>1, ConstantBytes DEF Byte, Dollar, Hash, Escape
  <1>3. 118 \in Byte /\ 112 \in Byte /\ 118 \notin {Dollar, Hash, Escape} /\ 112 \notin {Dollar, Hash, Escape}
    BY DEF Byte, Dollar, Hash, Escape
  <1>4. Clean(p)
    <2>1. p \in Seq(Byte) /\ Len(p) = 3 /\ p[1] = 118 /\ p[2] = 112 /\ p[3] = c
      BY <1>2, <1>3
    <2>2. p # <<>>
      OBVIOUS
    <2> HIDE DEF p
    <2>3. \A j \in DOMAIN p : p[j] \notin {Dollar, Hash, Escape}
      BY <1>2, <1>3, <2>1
    <2>4. QED
      BY <2>1, <2>2, <2>3 DEF Clean
  <1>5. PICK i : Arrives(data, i, p)
    BY BroughtPacket
  <1>6. PICK s : Ready(s, p) /\ Now = Dispatch(s, p)
    BY <1>4, <1>5, PacketDelivered
  <1>7. fd \in Dispatch(s, p).open_fds /\ fd \in Int
    BY <1>1, <1>6, ConstantBytes DEF Now
  <1>8. Last(Now.out) = format_gdb_message(PreadResponse(File))
    BY <1>6, <1>7, PreadDispatched
  <1>9. Last(out) = format_gdb_message(PreadResponse(File))
    BY <1>8 DEF Now
  <1> DEFINE reply == PreadResponse(File)
             text == Heading(File)
  <1>10. Readable(reply, text, File)
    BY ConstantBytes, PreadResponseReadable
  <1> HIDE DEF reply, text
  <1>11. ClientReads(format_gdb_message(reply)) = text \o File
    BY <1>10, ClientReadsIt
  <1>12. QED
    BY <1>9, <1>11, Zenon DEF reply, text, Heading

\* The replies to a read can be read.
LEMMA ReadableHolds == WireInv => RepliesReadable
  BY OutReadable, FileReadable DEF RepliesReadable

\* The client reads every reply to its end, and gets the file's bytes, whatever they
\* are, when it asks for them with an open descriptor.
THEOREM RepliesAreReadable == Spec => []RepliesReadable
  BY WireIsPieces, ReadableHolds, PTL
=============================================================================
