--------------------------- MODULE Induction_proofs --------------------------
(***************************************************************************)
(* Induction over sequences.  A property of the natural numbers is stated  *)
(* as the set of those that have it, so that the induction theorem has no  *)
(* operator as a parameter; and a fold is shown to be the last of the      *)
(* values that it takes on from left to right.                             *)
(***************************************************************************)
EXTENDS Integers, Sequences, SequencesExt, SequenceTheorems, WellFoundedInduction, TLAPS

\* Induction over the natural numbers, by the least one that is not in S.
LEMMA SetInduction ==
    ASSUME NEW S, 0 \in S, \A n \in Nat : n \in S => n + 1 \in S
    PROVE  \A n \in Nat : n \in S
  <1> DEFINE T == Nat \ S
  <1>1. SUFFICES ASSUME T # {} PROVE FALSE
    OBVIOUS
  <1>2. PICK x \in T : \A y \in T : <<y, x>> \notin OpToRel(<, Nat)
    BY <1>1, NatLessThanWellFounded, WFMin
  <1>3. x - 1 \in Nat /\ x - 1 \notin S
    OBVIOUS
  <1>4. <<x - 1, x>> \in OpToRel(<, Nat)
    BY <1>3 DEF OpToRel
  <1>5. QED
    BY <1>2, <1>3, <1>4

\* Induction up to a number.
LEMMA IntervalInduction ==
    ASSUME NEW N \in Nat, NEW S, 0 \in S, \A n \in 0 .. N - 1 : n \in S => n + 1 \in S
    PROVE  \A n \in 0 .. N : n \in S
  <1> DEFINE T == {n \in Nat : n <= N => n \in S}
  <1>1. 0 \in T
    OBVIOUS
  <1>2. \A n \in Nat : n \in T => n + 1 \in T
    OBVIOUS
  <1> HIDE DEF T
  <1>3. \A n \in Nat : n \in T
    BY <1>1, <1>2, SetInduction
  <1>4. QED
    BY <1>3 DEF T

\* The highest index up to k is k.
LEMMA MaxOfInterval ==
    ASSUME NEW k \in Nat, k >= 1
    PROVE  Max(1 .. k) = k /\ (1 .. k) \ {k} = 1 .. k - 1 /\ 1 .. k # {}
  <1>1. k \in 1 .. k /\ \A y \in 1 .. k : k >= y
    OBVIOUS
  <1>2. \A x \in 1 .. k : (\A y \in 1 .. k : x >= y) => x = k
    BY <1>1
  <1>3. Max(1 .. k) = k
    BY <1>1, <1>2 DEF Max
  <1>4. (1 .. k) \ {k} = 1 .. k - 1
    OBVIOUS
  <1>5. QED
    BY <1>1, <1>3, <1>4

\* The highest index of a set that has the last one.
LEMMA MaxOfSet ==
    ASSUME NEW n \in Nat, NEW s \in SUBSET (1 .. n + 1), n + 1 \in s
    PROVE  Max(s) = n + 1
  <1>1. \A y \in s : n + 1 >= y
    OBVIOUS
  <1>2. \A x \in s : (\A y \in s : x >= y) => x = n + 1
    BY <1>1
  <1>3. QED
    BY <1>1, <1>2 DEF Max

\* g gives every set of the first N indices the value that a fold with step
\* gives it, and f what the fold has reached after each index.
Folding(g, A, base, N, step) ==
    /\ g \in [SUBSET (1 .. N) -> A]
    /\ \A s \in SUBSET (1 .. N) : g[s] = IF s = {} THEN base ELSE step[<<g[s \ {Max(s)}], Max(s)>>]

Stepping(f, A, base, N, step, end) ==
    /\ f \in [0 .. N -> A]
    /\ f[0] = base
    /\ f[N] = end
    /\ \A k \in 1 .. N : f[k] = step[<<f[k - 1], k>>]

\* it gives a set what step makes of the set without its last index.
FoldsTo(it, A, base, N, step) ==
    /\ it[{}] = base
    /\ \A t \in SUBSET (1 .. N) :
          t # {} /\ it[t \ {Max(t)}] \in A => it[t] = step[<<it[t \ {Max(t)}], Max(t)>>]

\* Such a g exists, by induction over the number of indices.
LEMMA FoldExists ==
    ASSUME NEW A, NEW base \in A, NEW N \in Nat, NEW step \in [A \X (1 .. N) -> A]
    PROVE  \E g : Folding(g, A, base, N, step)
  <1> DEFINE Solves(g, n) ==
        /\ g \in [SUBSET (1 .. n) -> A]
        /\ \A s \in SUBSET (1 .. n) :
             g[s] = IF s = {} THEN base ELSE step[<<g[s \ {Max(s)}], Max(s)>>]
      S == {n \in Nat : \E g : Solves(g, n)}
  <1>1. 0 \in S
    <2>1. SUBSET (1 .. 0) = {{}}
      OBVIOUS
    <2>2. Solves([s \in SUBSET (1 .. 0) |-> base], 0)
      BY <2>1
    <2>3. QED
      BY <2>2
  <1>2. ASSUME NEW n \in 0 .. N - 1, n \in S PROVE n + 1 \in S
    <2>1. \E g : Solves(g, n + 1)
      <3>2. PICK g : Solves(g, n)
        BY <1>2
      <3> DEFINE h == [s \in SUBSET (1 .. n + 1) |->
                         IF n + 1 \in s THEN step[<<g[s \ {n + 1}], n + 1>>] ELSE g[s]]
      <3>3. ASSUME NEW s \in SUBSET (1 .. n + 1)
            PROVE  /\ s \ {n + 1} \in SUBSET (1 .. n)
                   /\ n + 1 \notin s => s \in SUBSET (1 .. n)
        OBVIOUS
      <3>4. ASSUME NEW s \in SUBSET (1 .. n + 1) PROVE h[s] \in A
        <4>1. CASE n + 1 \in s
          <5>1. g[s \ {n + 1}] \in A
            BY <3>2, <3>3
          <5>2. <<g[s \ {n + 1}], n + 1>> \in A \X (1 .. N)
            BY <5>1
          <5>3. QED
            BY <4>1, <5>2
        <4>2. CASE n + 1 \notin s
          BY <3>2, <3>3, <4>2
        <4>3. QED
          BY <4>1, <4>2
      <3>5. ASSUME NEW s \in SUBSET (1 .. n + 1)
            PROVE h[s] = IF s = {} THEN base ELSE step[<<h[s \ {Max(s)}], Max(s)>>]
        <4>1. CASE n + 1 \in s
          <5>1. Max(s) = n + 1
            BY <4>1, MaxOfSet
          <5>2. s \ {n + 1} \in SUBSET (1 .. n + 1) /\ n + 1 \notin s \ {n + 1}
            OBVIOUS
          <5>3. h[s \ {n + 1}] = g[s \ {n + 1}]
            BY <5>2
          <5>4. QED
            BY <4>1, <5>1, <5>3
        <4>2. CASE n + 1 \notin s
          <5>1. s \in SUBSET (1 .. n) /\ h[s] = g[s]
            BY <3>3, <4>2
          <5>2. s \ {Max(s)} \in SUBSET (1 .. n + 1) /\ n + 1 \notin s \ {Max(s)}
            BY <4>2
          <5>3. h[s \ {Max(s)}] = g[s \ {Max(s)}]
            BY <5>2
          <5>4. QED
            BY <3>2, <5>1, <5>3
        <4>3. QED
          BY <4>1, <4>2
      <3>6. h \in [SUBSET (1 .. n + 1) -> A]
        BY <3>4
      <3> HIDE DEF h
      <3>7. QED
        BY <3>5, <3>6
    <2>2. QED
      <3>1. n + 1 \in Nat
        OBVIOUS
      <3> HIDE DEF Solves
      <3>2. QED
        BY <2>1, <3>1, Zenon
  <1>3. N \in S
    <2> HIDE DEF S
    <2> QED BY <1>1, <1>2, IntervalInduction
  <1>4. QED
    BY <1>3 DEF Folding

\* A set of indices has a highest one ...
LEMMA LastIndex ==
    ASSUME NEW n \in Nat, NEW s \in SUBSET (1 .. n), s # {}
    PROVE  \E x \in s : \A y \in s : x >= y
  <1> DEFINE S == {k \in Nat : \A t \in SUBSET (1 .. k) : t # {} => \E x \in t : \A y \in t : x >= y}
  <1>1. 0 \in S
    <2>1. \A t \in SUBSET (1 .. 0) : t = {}
      OBVIOUS
    <2>2. QED
      BY <2>1
  <1>2. ASSUME NEW k \in Nat, k \in S PROVE k + 1 \in S
    <2>1. SUFFICES ASSUME NEW t \in SUBSET (1 .. k + 1), t # {}
                   PROVE  \E x \in t : \A y \in t : x >= y
      OBVIOUS
    <2>2. CASE k + 1 \in t
      BY <2>2
    <2>3. CASE k + 1 \notin t
      <3>1. t \in SUBSET (1 .. k)
        BY <2>3
      <3>2. QED
        BY <1>2, <2>1, <3>1
    <2>4. QED
      BY <2>2, <2>3
  <1> HIDE DEF S
  <1>3. n \in S
    BY <1>1, <1>2, SetInduction
  <1>4. QED
    BY <1>3 DEF S

\* ... which is one of them.
LEMMA MaxInSet ==
    ASSUME NEW n \in Nat, NEW s \in SUBSET (1 .. n), s # {}
    PROVE  Max(s) \in 1 .. n
  BY LastIndex DEF Max

\* What a fold goes through from left to right is of its type.
LEMMA StepsType ==
    ASSUME NEW A, NEW N \in Nat, NEW f, f = [k \in 0 .. N |-> f[k]], f[0] \in A,
           \A k \in 1 .. N : f[k - 1] \in A => f[k] \in A
    PROVE  f \in [0 .. N -> A]
  <1> DEFINE S == {k \in Nat : k <= N => f[k] \in A}
  <1>1. 0 \in S
    OBVIOUS
  <1>2. ASSUME NEW k \in Nat, k \in S PROVE k + 1 \in S
    <2>1. CASE k + 1 <= N
      <3>1. k + 1 \in 1 .. N /\ (k + 1) - 1 = k /\ f[k] \in A
        BY <1>2, <2>1
      <3>2. f[k + 1] \in A
        BY <3>1
      <3>3. QED
        BY <3>2
    <2>2. QED
      BY <2>1
  <1> HIDE DEF S
  <1>3. \A k \in Nat : k \in S
    BY <1>1, <1>2, SetInduction
  <1>4. \A k \in 0 .. N : f[k] \in A
    BY <1>3 DEF S
  <1>5. QED
    BY <1>4

\* A fold that takes its values from step, as a function of how far it got.
LEMMA FoldSteps ==
    ASSUME NEW A, NEW base \in A, NEW N \in Nat, NEW step \in [A \X (1 .. N) -> A], NEW it,
           FoldsTo(it, A, base, N, step)
    PROVE  \E f : Stepping(f, A, base, N, step, it[1 .. N])
  <1> DEFINE ff == [k \in 0 .. N |-> it[1 .. k]]
  <1>1. ff[0] = base
    <2>1. 1 .. 0 = {}
      OBVIOUS
    <2>2. QED
      BY <2>1 DEF FoldsTo
  <1>2. ASSUME NEW k \in 1 .. N, ff[k - 1] \in A PROVE ff[k] = step[<<ff[k - 1], k>>] /\ ff[k] \in A
    <2>1. k \in Nat /\ k >= 1
      OBVIOUS
    <2>2. Max(1 .. k) = k /\ (1 .. k) \ {k} = 1 .. k - 1 /\ 1 .. k # {}
      BY <2>1, MaxOfInterval
    <2>3. 1 .. k \in SUBSET (1 .. N) /\ k - 1 \in 0 .. N /\ k \in 0 .. N
      OBVIOUS
    <2>4. it[1 .. k - 1] \in A /\ ff[k] = it[1 .. k] /\ ff[k - 1] = it[1 .. k - 1]
      BY <1>2, <2>3
    <2>5. it[1 .. k] = step[<<it[1 .. k - 1], k>>]
      BY <2>2, <2>3, <2>4 DEF FoldsTo
    <2>6. <<it[1 .. k - 1], k>> \in A \X (1 .. N)
      BY <2>4
    <2> HIDE DEF ff
    <2>7. QED
      BY <2>4, <2>5, <2>6
  <1>3. ff = [k \in 0 .. N |-> ff[k]]
    OBVIOUS
  <1>4. ff[N] = it[1 .. N]
    OBVIOUS
  <1> HIDE DEF ff
  <1>5. ff \in [0 .. N -> A]
    BY <1>1, <1>2, <1>3, StepsType
  <1>6. \A k \in 1 .. N : ff[k] = step[<<ff[k - 1], k>>]
    BY <1>2, <1>5
  <1>7. QED
    BY <1>1, <1>4, <1>5, <1>6 DEF Stepping

-----------------------------------------------------------------------------
(* Sequences and their parts.                                              *)

\* A function over an interval is a sequence.
LEMMA SequenceIs ==
    ASSUME NEW T, NEW n \in Nat, NEW s \in [1 .. n -> T]
    PROVE  s \in Seq(T) /\ Len(s) = n /\ DOMAIN s = 1 .. n
  OBVIOUS

\* A sequence of one element.
LEMMA SequenceOfOne ==
    ASSUME NEW T, NEW x \in T
    PROVE  <<x>> \in Seq(T) /\ Len(<<x>>) = 1 /\ <<x>>[1] = x
  OBVIOUS

\* Both parts of a joined sequence.
LEMMA BothParts ==
    ASSUME NEW T, NEW s \in Seq(T), NEW t \in Seq(T)
    PROVE  /\ s \o t \in Seq(T) /\ Len(s \o t) = Len(s) + Len(t) /\ Len(s) \in Nat /\ Len(t) \in Nat
           /\ \A i \in 1 .. Len(s) : (s \o t)[i] = s[i]
           /\ \A i \in 1 .. Len(t) : (s \o t)[Len(s) + i] = t[i]
  <1>1. /\ s \o t \in Seq(T) /\ Len(s \o t) = Len(s) + Len(t) /\ Len(s) \in Nat /\ Len(t) \in Nat
        /\ \A i \in 1 .. Len(s) + Len(t) : (s \o t)[i] = IF i <= Len(s) THEN s[i] ELSE t[i - Len(s)]
    BY ConcatProperties
  <1>2. ASSUME NEW i \in 1 .. Len(s) PROVE (s \o t)[i] = s[i]
    <2>1. i \in 1 .. Len(s) + Len(t) /\ i <= Len(s)
      BY <1>1
    <2>2. QED
      BY <1>1, <2>1
  <1>3. ASSUME NEW i \in 1 .. Len(t) PROVE (s \o t)[Len(s) + i] = t[i]
    <2>1. Len(s) + i \in 1 .. Len(s) + Len(t) /\ ~(Len(s) + i <= Len(s)) /\ (Len(s) + i) - Len(s) = i
      BY <1>1
    <2>2. QED
      BY <1>1, <2>1
  <1>4. QED
    BY <1>1, <1>2, <1>3

-----------------------------------------------------------------------------
(* Sequences that are joined.                                              *)

\* The first i of the sequences in s joined, from the first i - 1, and those of
\* all numbers up to n.
NextJoin(g, s, i) == IF i = 1 THEN s[i] ELSE g[i - 1] \o s[i]
Joined(g, s, n)   == g = [i \in 1 .. n |-> NextJoin(g, s, i)]

\* Joined() has a solution for every n ...
LEMMA JoinsExist == ASSUME NEW s PROVE \A n \in Nat : \E g : Joined(g, s, n)
  <1> DEFINE S == {n \in Nat : \E g : Joined(g, s, n)}
  <1>1. 0 \in S
    <2> DEFINE g == [i \in 1 .. 0 |-> <<>>]
    <2>1. g = [i \in 1 .. 0 |-> NextJoin(g, s, i)]
      BY DEF NextJoin
    <2> HIDE DEF g
    <2>2. Joined(g, s, 0)
      BY <2>1 DEF Joined
    <2>3. QED
      BY <2>2
  <1>2. ASSUME NEW n \in Nat, n \in S PROVE n + 1 \in S
    <2>1. PICK g : Joined(g, s, n)
      BY <1>2
    <2> DEFINE f == [i \in 1 .. n + 1 |-> NextJoin(g, s, i)]
    <2>2. \A i \in 1 .. n : g[i] = NextJoin(g, s, i)
      BY <2>1 DEF Joined
    <2>3. \A i \in 1 .. n : f[i] = g[i]
      BY <2>2
    <2>4. ASSUME NEW i \in 1 .. n + 1 PROVE NextJoin(f, s, i) = NextJoin(g, s, i)
      <3> HIDE DEF f
      <3>1. CASE i = 1
        BY <3>1 DEF NextJoin
      <3>2. CASE i # 1
        <4>1. i - 1 \in 1 .. n
          BY <3>2
        <4>2. f[i - 1] = g[i - 1]
          BY <2>3, <4>1
        <4>3. QED
          BY <4>2 DEF NextJoin
      <3>3. QED
        BY <3>1, <3>2
    <2>5. f = [i \in 1 .. n + 1 |-> NextJoin(f, s, i)]
      BY <2>4
    <2> HIDE DEF f
    <2>6. Joined(f, s, n + 1)
      BY <2>5 DEF Joined
    <2>7. QED
      BY <2>6
  <1> HIDE DEF S
  <1>3. \A n \in Nat : n \in S
    BY <1>1, <1>2, SetInduction
  <1>4. QED
    BY <1>3 DEF S

\* What it says of each number.
LEMMA JoinedAt ==
    ASSUME NEW g, NEW s, NEW n, Joined(g, s, n)
    PROVE  \A i \in 1 .. n : g[i] = NextJoin(g, s, i)
  BY Zenon DEF Joined

\* ... and only one, which looks at no more than the first n sequences.
LEMMA JoinsAgree ==
    ASSUME NEW s, NEW t, NEW n \in Nat, NEW m \in Nat, n <= m, \A i \in 1 .. n : s[i] = t[i],
           NEW g, NEW h, Joined(g, s, n), Joined(h, t, m)
    PROVE  \A k \in 1 .. n : g[k] = h[k]
  <1> DEFINE S == {k \in Nat : k \in 1 .. n => g[k] = h[k]}
  <1>1. 0 \in S
    OBVIOUS
  <1>2. ASSUME NEW k \in Nat, k \in S PROVE k + 1 \in S
    <2>1. SUFFICES ASSUME k + 1 \in 1 .. n PROVE g[k + 1] = h[k + 1]
      OBVIOUS
    <2>2. g[k + 1] = NextJoin(g, s, k + 1) /\ h[k + 1] = NextJoin(h, t, k + 1)
      <3>1. k + 1 \in 1 .. m
        BY <2>1
      <3>2. QED
        BY <2>1, <3>1, JoinedAt
    <2>3. s[k + 1] = t[k + 1]
      BY <2>1
    <2>4. CASE k = 0
      BY <2>2, <2>3, <2>4 DEF NextJoin
    <2>5. CASE k # 0
      <3>1. g[k] = h[k] /\ (k + 1) - 1 = k /\ k + 1 # 1
        BY <1>2, <2>1, <2>5
      <3>2. QED
        BY <2>2, <2>3, <3>1 DEF NextJoin
    <2>6. QED
      BY <2>4, <2>5
  <1> HIDE DEF S
  <1>3. \A k \in Nat : k \in S
    BY <1>1, <1>2, SetInduction
  <1>4. QED
    BY <1>3 DEF S

\* The first k sequences of s, joined.
Flat(s, k) == FlattenSeq(SubSeq(s, 1, k))

\* FlattenSeq() is where Joined() ends.
LEMMA FlattenIsJoined ==
    ASSUME NEW s, NEW n \in Nat \ {0}, Len(s) = n
    PROVE  \E g : Joined(g, s, n) /\ FlattenSeq(s) = g[n]
  <1> DEFINE of == CHOOSE g : Joined(g, s, n)
  <1>1. FlattenSeq(s) = of[n]
    <2>1. Len(s) # 0
      OBVIOUS
    <2>2. FlattenSeq(s) = (CHOOSE g : Joined(g, s, Len(s)))[Len(s)]
      BY <2>1, Zenon DEF FlattenSeq, Joined, NextJoin
    <2>3. QED
      BY <2>2, Zenon
  <1>2. Joined(of, s, n)
    BY JoinsExist
  <1>3. QED
    BY <1>1, <1>2

\* A sequence more is joined behind the others.
LEMMA FlattenMore ==
    ASSUME NEW u, NEW t, NEW n \in Nat \ {0}, Len(u) = n, Len(t) = n + 1, \A i \in 1 .. n : u[i] = t[i]
    PROVE  FlattenSeq(t) = FlattenSeq(u) \o t[n + 1]
  <1>1. PICK h : Joined(h, u, n) /\ FlattenSeq(u) = h[n]
    BY FlattenIsJoined
  <1>2. \E g : Joined(g, t, n + 1) /\ FlattenSeq(t) = g[n + 1]
    <2>1. n + 1 \in Nat \ {0}
      OBVIOUS
    <2>2. QED
      BY <2>1, FlattenIsJoined
  <1>3. PICK g : Joined(g, t, n + 1) /\ FlattenSeq(t) = g[n + 1]
    BY <1>2
  <1>4. h[n] = g[n]
    <2>1. n + 1 \in Nat /\ n \in Nat /\ n <= n + 1 /\ n \in 1 .. n
      OBVIOUS
    <2>2. \A i \in 1 .. n : h[i] = g[i]
      BY <1>1, <1>3, <2>1, JoinsAgree
    <2>3. QED
      BY <2>1, <2>2
  <1>5. n + 1 \in 1 .. n + 1 /\ n + 1 # 1 /\ (n + 1) - 1 = n
    OBVIOUS
  <1>6. g[n + 1] = NextJoin(g, t, n + 1)
    BY <1>3, <1>5, JoinedAt
  <1>7. NextJoin(g, t, n + 1) = g[n] \o t[n + 1]
    BY <1>5 DEF NextJoin
  <1>8. QED
    BY <1>1, <1>3, <1>4, <1>6, <1>7

\* FlattenSeq() joins the sequences from left to right.
LEMMA FlatSteps ==
    ASSUME NEW T, NEW s \in Seq(Seq(T))
    PROVE  /\ Flat(s, 0) = <<>>
           /\ FlattenSeq(s) = Flat(s, Len(s))
           /\ \A k \in 1 .. Len(s) : Flat(s, k) = Flat(s, k - 1) \o s[k]
           /\ \A k \in 0 .. Len(s) : Flat(s, k) \in Seq(T)
  <1>1. Flat(s, 0) = <<>>
    <2>1. SubSeq(s, 1, 0) = <<>> /\ Len(<<>>) = 0
      BY SubSeqEmpty
    <2>2. QED
      BY <2>1, Zenon DEF Flat, FlattenSeq
  <1>2. FlattenSeq(s) = Flat(s, Len(s))
    <2>1. SubSeq(s, 1, Len(s)) = s
      BY SubSeqFull
    <2>2. QED
      BY <2>1 DEF Flat
  <1>4. ASSUME NEW k \in 1 .. Len(s) PROVE Flat(s, k) = Flat(s, k - 1) \o s[k]
    <2> DEFINE t == SubSeq(s, 1, k)
               u == SubSeq(s, 1, k - 1)
    <2>1. t \in Seq(Seq(T)) /\ Len(t) = k /\ t[k] = s[k] /\ s[k] \in Seq(T)
      OBVIOUS
    <2>2. CASE k = 1
      <3>1. Flat(s, k - 1) = <<>>
        BY <1>1, <2>2
      <3>2. Flat(s, k - 1) \o s[k] = s[k]
        BY <2>1, <3>1, ConcatEmptySeq
      <3>3. FlattenSeq(t) = t[k]
        <4>1. k \in Nat \ {0}
          OBVIOUS
        <4> HIDE DEF t
        <4>2. PICK g : Joined(g, t, k) /\ FlattenSeq(t) = g[k]
          BY <2>1, <4>1, FlattenIsJoined
        <4>3. g[k] = NextJoin(g, t, k)
          BY <4>2, JoinedAt
        <4>4. QED
          BY <2>2, <4>2, <4>3 DEF NextJoin
      <3>4. QED
        BY <2>1, <3>2, <3>3 DEF Flat
    <2>3. CASE k # 1
      <3> DEFINE n == k - 1
      <3>1. n \in Nat \ {0} /\ Len(u) = n /\ Len(t) = n + 1 /\ n + 1 = k
        BY <2>1, <2>3
      <3>2. \A i \in 1 .. n : u[i] = t[i]
        BY <3>1
      <3> HIDE DEF n, t, u
      <3>3. FlattenSeq(t) = FlattenSeq(u) \o t[n + 1]
        BY <3>1, <3>2, FlattenMore
      <3>4. QED
        BY <2>1, <3>1, <3>3 DEF Flat, t, u
    <2>4. QED
      BY <2>2, <2>3
  <1> DEFINE S == {k \in Nat : k <= Len(s) => Flat(s, k) \in Seq(T)}
  <1>5. 0 \in S
    <2>1. <<>> \in Seq(T)
      OBVIOUS
    <2>2. QED
      BY <1>1, <2>1
  <1>6. ASSUME NEW k \in Nat, k \in S PROVE k + 1 \in S
    <2>1. SUFFICES ASSUME k + 1 <= Len(s) PROVE Flat(s, k + 1) \in Seq(T)
      OBVIOUS
    <2>2. Flat(s, k) \in Seq(T) /\ k + 1 \in 1 .. Len(s) /\ (k + 1) - 1 = k /\ s[k + 1] \in Seq(T)
      BY <1>6, <2>1
    <2>3. Flat(s, k + 1) = Flat(s, k) \o s[k + 1]
      BY <1>4, <2>2
    <2>4. QED
      BY <2>2, <2>3, ConcatProperties
  <1> HIDE DEF S
  <1>7. \A k \in Nat : k \in S
    BY <1>5, <1>6, SetInduction
  <1>8. \A k \in 0 .. Len(s) : Flat(s, k) \in Seq(T)
    BY <1>7 DEF S
  <1>9. QED
    BY <1>1, <1>2, <1>4, <1>8

\* What is joined stays as it is when more is joined behind it.
LEMMA FlatPrefix ==
    ASSUME NEW T, NEW s \in Seq(Seq(T)), NEW k \in 0 .. Len(s)
    PROVE  /\ Flat(s, k) \in Seq(T)
           /\ Len(FlattenSeq(s)) >= Len(Flat(s, k))
           /\ \A i \in 1 .. Len(Flat(s, k)) : FlattenSeq(s)[i] = Flat(s, k)[i]
  <1> DEFINE L == Len(Flat(s, k))
             Longer(t) == t \in Seq(T) /\ Len(t) >= L /\ \A i \in 1 .. L : t[i] = Flat(s, k)[i]
             S == {m \in Nat : k + m <= Len(s) => Longer(Flat(s, k + m))}
  <1>1. \A j \in 0 .. Len(s) : Flat(s, j) \in Seq(T)
    BY FlatSteps
  <1>2. 0 \in S
    <2>1. Flat(s, k) \in Seq(T) /\ k + 0 = k
      BY <1>1
    <2>2. Longer(Flat(s, k))
      BY <2>1
    <2> HIDE DEF Longer
    <2>3. QED
      BY <2>1, <2>2
  <1>3. ASSUME NEW m \in Nat, m \in S PROVE m + 1 \in S
    <2>1. SUFFICES ASSUME k + m + 1 <= Len(s) PROVE Longer(Flat(s, k + m + 1))
      <3> HIDE DEF Longer
      <3>1. k + (m + 1) = k + m + 1
        OBVIOUS
      <3>2. QED
        BY <3>1
    <2> DEFINE t == Flat(s, k + m)
               x == s[k + m + 1]
    <2>2. Longer(t)
      BY <1>3, <2>1
    <2>3. x \in Seq(T) /\ k + m + 1 \in 1 .. Len(s) /\ (k + m + 1) - 1 = k + m
      BY <2>1
    <2>4. Flat(s, k + m + 1) = t \o x
      BY <2>3, FlatSteps
    <2> HIDE DEF t, x
    <2>5. Flat(s, k) \in Seq(T) /\ L \in Nat
      BY <1>1
    <2>6. Longer(t \o x)
      <3> HIDE DEF L
      <3>1. t \in Seq(T) /\ Len(t) >= L /\ \A i \in 1 .. L : t[i] = Flat(s, k)[i]
        BY <2>2
      <3>2. t \o x \in Seq(T) /\ Len(t \o x) = Len(t) + Len(x)
        BY <2>3, <3>1, ConcatProperties
      <3>3. ASSUME NEW i \in 1 .. L PROVE (t \o x)[i] = Flat(s, k)[i]
        <4>1. i \in 1 .. Len(t) /\ i \in 1 .. Len(t) + Len(x)
          BY <2>3, <2>5, <3>1
        <4>2. (t \o x)[i] = t[i]
          BY <2>3, <3>1, <4>1, ConcatProperties
        <4>3. QED
          BY <3>1, <4>2
      <3>4. QED
        BY <2>3, <2>5, <3>1, <3>2, <3>3
    <2> HIDE DEF Longer
    <2>7. QED
      BY <2>4, <2>6
  <1> HIDE DEF S
  <1>4. \A m \in Nat : m \in S
    BY <1>2, <1>3, SetInduction
  <1>5. Longer(Flat(s, Len(s)))
    <2>1. Len(s) - k \in Nat /\ k + (Len(s) - k) = Len(s)
      OBVIOUS
    <2>2. Len(s) - k \in S
      BY <1>4, <2>1
    <2> HIDE DEF Longer
    <2>3. QED
      BY <2>1, <2>2 DEF S
  <1>6. FlattenSeq(s) = Flat(s, Len(s))
    BY FlatSteps
  <1>7. QED
    BY <1>1, <1>5, <1>6

\* u is in s, n places from its start.
PartAt(s, n, u) == n + Len(u) <= Len(s) /\ \A i \in 1 .. Len(u) : s[n + i] = u[i]

\* Where each of the sequences is when they are joined.
LEMMA FlatAt ==
    ASSUME NEW T, NEW s \in Seq(Seq(T)), NEW k \in 1 .. Len(s), NEW P, P = Len(Flat(s, k - 1))
    PROVE  /\ P \in Nat
           /\ Len(Flat(s, k)) = P + Len(s[k])
           /\ PartAt(FlattenSeq(s), P, s[k])
  <1> DEFINE t == Flat(s, k - 1)
             x == s[k]
             all == FlattenSeq(s)
  <1>1. k - 1 \in 0 .. Len(s) /\ k \in 0 .. Len(s) /\ x \in Seq(T)
    OBVIOUS
  <1>2. t \in Seq(T) /\ Flat(s, k) = t \o x
    BY <1>1, FlatSteps
  <1>3. Len(all) >= Len(Flat(s, k)) /\ \A i \in 1 .. Len(Flat(s, k)) : all[i] = Flat(s, k)[i]
    BY <1>1, FlatPrefix
  <1>4. P = Len(t)
    OBVIOUS
  <1> HIDE DEF t, x, all
  <1>5. /\ Len(t \o x) = Len(t) + Len(x)
        /\ \A i \in 1 .. Len(t) + Len(x) : (t \o x)[i] = IF i <= Len(t) THEN t[i] ELSE x[i - Len(t)]
    BY <1>1, <1>2, ConcatProperties
  <1>6. Len(t) \in Nat /\ Len(x) \in Nat
    BY <1>1, <1>2
  <1>7. ASSUME NEW i \in 1 .. Len(x) PROVE all[P + i] = x[i]
    <2>1. P + i \in 1 .. Len(t) + Len(x) /\ ~(P + i <= Len(t)) /\ (P + i) - Len(t) = i
      <3>1. \A m, n \in Nat : \A j \in 1 .. n : m + j \in 1 .. m + n /\ ~(m + j <= m) /\ (m + j) - m = j
        OBVIOUS
      <3>2. QED
        BY <1>4, <1>6, <3>1
    <2>2. (t \o x)[P + i] = x[i]
      BY <1>5, <2>1
    <2>3. all[P + i] = Flat(s, k)[P + i]
      BY <1>2, <1>3, <1>5, <2>1
    <2>4. QED
      BY <1>2, <2>2, <2>3
  <1>8. P \in Nat /\ Len(Flat(s, k)) = P + Len(x) /\ P + Len(x) <= Len(all)
    BY <1>2, <1>3, <1>4, <1>5, <1>6
  <1>9. QED
    BY <1>7, <1>8 DEF x, all, PartAt

\* What is joined is of one type.
LEMMA FlattenType ==
    ASSUME NEW T, NEW s \in Seq(Seq(T))
    PROVE  FlattenSeq(s) \in Seq(T)
  <1>1. Len(s) \in 0 .. Len(s)
    OBVIOUS
  <1>2. QED
    BY <1>1, FlatSteps

\* A part is still there when more follows.
LEMMA PartBefore ==
    ASSUME NEW s \in Seq(Nat), NEW t \in Seq(Nat), NEW u \in Seq(Nat), NEW n \in Nat, PartAt(s, n, u)
    PROVE  PartAt(s \o t, n, u)
  <1>1. /\ Len(s) \in Nat /\ Len(t) \in Nat /\ Len(u) \in Nat /\ Len(s \o t) = Len(s) + Len(t)
        /\ \A i \in 1 .. Len(s) + Len(t) : (s \o t)[i] = IF i <= Len(s) THEN s[i] ELSE t[i - Len(s)]
    BY ConcatProperties
  <1>2. n + Len(u) <= Len(s) /\ \A i \in 1 .. Len(u) : s[n + i] = u[i]
    BY DEF PartAt
  <1>3. n + Len(u) <= Len(s \o t)
    BY <1>1, <1>2
  <1>4. ASSUME NEW i \in 1 .. Len(u) PROVE (s \o t)[n + i] = u[i]
    <2>1. n + i \in 1 .. Len(s) + Len(t) /\ n + i <= Len(s)
      BY <1>1, <1>2
    <2>2. QED
      BY <1>1, <1>2, <2>1
  <1>5. QED
    BY <1>3, <1>4 DEF PartAt

\* What is joined behind s is a part.
LEMMA PartBehind ==
    ASSUME NEW s \in Seq(Nat), NEW t \in Seq(Nat)
    PROVE  PartAt(s \o t, Len(s), t)
  <1>1. /\ Len(s) \in Nat /\ Len(t) \in Nat /\ Len(s \o t) = Len(s) + Len(t)
        /\ \A i \in 1 .. Len(s) + Len(t) : (s \o t)[i] = IF i <= Len(s) THEN s[i] ELSE t[i - Len(s)]
    BY ConcatProperties
  <1>2. ASSUME NEW i \in 1 .. Len(t) PROVE (s \o t)[Len(s) + i] = t[i]
    <2>1. Len(s) + i \in 1 .. Len(s) + Len(t) /\ ~(Len(s) + i <= Len(s)) /\ (Len(s) + i) - Len(s) = i
      BY <1>1
    <2>2. QED
      BY <1>1, <2>1
  <1>3. QED
    BY <1>1, <1>2 DEF PartAt

\* A sequence is a part of itself.
LEMMA PartItself ==
    ASSUME NEW s \in Seq(Nat)
    PROVE  PartAt(s, 0, s)
  BY DEF PartAt

\* A part of a part.
LEMMA PartWithin ==
    ASSUME NEW s, NEW t \in Seq(Nat), NEW u \in Seq(Nat), NEW n \in Nat, NEW m \in Nat, Len(s) \in Nat,
           PartAt(s, n, t), PartAt(t, m, u)
    PROVE  PartAt(s, n + m, u)
  <1>1. n + Len(t) <= Len(s) /\ \A i \in 1 .. Len(t) : s[n + i] = t[i]
    BY DEF PartAt
  <1>2. m + Len(u) <= Len(t) /\ \A i \in 1 .. Len(u) : t[m + i] = u[i]
    BY DEF PartAt
  <1>3. Len(t) \in Nat /\ Len(u) \in Nat
    OBVIOUS
  <1>4. (n + m) + Len(u) <= Len(s)
    BY <1>1, <1>2, <1>3
  <1>5. ASSUME NEW i \in 1 .. Len(u) PROVE s[(n + m) + i] = u[i]
    <2>1. m + i \in 1 .. Len(t) /\ n + (m + i) = (n + m) + i
      BY <1>2, <1>3
    <2>2. s[n + (m + i)] = t[m + i]
      BY <1>1, <2>1
    <2>3. QED
      BY <1>2, <2>1, <2>2
  <1>6. QED
    BY <1>4, <1>5 DEF PartAt

-----------------------------------------------------------------------------
(* Recursion that goes up.                                                 *)

\* A recursion over the natural numbers that goes up, from pos to next[pos], and
\* stops at L at the latest: f is its solution.
Ascends(f, A, stops, leaf, op, next) ==
    /\ f \in [Nat -> A]
    /\ \A pos \in Nat : f[pos] = IF stops[pos] THEN leaf[pos] ELSE op[<<pos, f[next[pos]]>>]

\* There is one, by induction over how far below L it is defined.
LEMMA AscentExists ==
    ASSUME NEW A, NEW L \in Nat, NEW stops, NEW leaf \in [Nat -> A], NEW op \in [Nat \X A -> A],
           NEW next \in [Nat -> Nat], \A pos \in Nat : stops[pos] \/ (pos < L /\ next[pos] > pos)
    PROVE  \E f : Ascends(f, A, stops, leaf, op, next)
  <1> DEFINE Dom(j) == {pos \in Nat : pos + j >= L}
             Value(f, pos) == IF stops[pos] THEN leaf[pos] ELSE op[<<pos, f[next[pos]]>>]
             Solves(f, j) == f \in [Dom(j) -> A] /\ \A pos \in Dom(j) : f[pos] = Value(f, pos)
             S == {j \in Nat : \E f : Solves(f, j)}
  <1>1. 0 \in S
    <2> DEFINE f == [pos \in Dom(0) |-> leaf[pos]]
    <2>1. \A pos \in Dom(0) : pos \in Nat /\ stops[pos]
      OBVIOUS
    <2>2. Solves(f, 0)
      BY <2>1
    <2> HIDE DEF f, Solves
    <2>3. QED
      BY <2>2
  <1>2. ASSUME NEW j \in Nat, j \in S PROVE j + 1 \in S
    <2>1. PICK f : Solves(f, j)
      BY <1>2
    <2> DEFINE h == [pos \in Dom(j + 1) |-> IF pos \in Dom(j) THEN f[pos] ELSE Value(f, pos)]
    <2>2. ASSUME NEW pos \in Dom(j + 1), ~stops[pos] PROVE next[pos] \in Dom(j)
      <3>1. pos \in Nat /\ pos + (j + 1) >= L /\ next[pos] \in Nat /\ next[pos] > pos
        BY <2>2
      <3>2. QED
        BY <3>1
    <2>3. \A pos \in Dom(j) : pos \in Dom(j + 1)
      OBVIOUS
    <2>4. \A pos \in Dom(j + 1) : pos \in Nat
      OBVIOUS
    <2> HIDE DEF Dom
    <2>5. f \in [Dom(j) -> A] /\ \A pos \in Dom(j) : f[pos] = Value(f, pos)
      BY <2>1
    <2>6. ASSUME NEW pos \in Dom(j + 1) PROVE Value(f, pos) \in A
      <3>1. CASE stops[pos]
        BY <2>4, <3>1
      <3>2. CASE ~stops[pos]
        <4>1. f[next[pos]] \in A
          BY <2>2, <2>5, <3>2
        <4>2. <<pos, f[next[pos]]>> \in Nat \X A
          BY <2>4, <4>1
        <4>3. QED
          BY <3>2, <4>2
      <3>3. QED
        BY <3>1, <3>2
    <2>7. \A pos \in Dom(j) : h[pos] = f[pos]
      BY <2>3
    <2>8. ASSUME NEW pos \in Dom(j + 1) PROVE Value(h, pos) = Value(f, pos)
      <3> HIDE DEF h
      <3>1. CASE stops[pos]
        BY <3>1
      <3>2. CASE ~stops[pos]
        <4>1. h[next[pos]] = f[next[pos]]
          BY <2>2, <2>7, <3>2
        <4>2. QED
          BY <3>2, <4>1
      <3>3. QED
        BY <3>1, <3>2
    <2>9. \A pos \in Dom(j + 1) : h[pos] = Value(f, pos)
      <3> HIDE DEF Value
      <3> QED BY <2>5
    <2>10. h \in [Dom(j + 1) -> A]
      <3> HIDE DEF Value
      <3>1. h = [pos \in Dom(j + 1) |-> h[pos]]
        OBVIOUS
      <3> HIDE DEF h
      <3>2. QED
        BY <2>6, <2>9, <3>1
    <2> HIDE DEF h, Value
    <2>11. Solves(h, j + 1)
      BY <2>8, <2>9, <2>10
    <2> HIDE DEF Solves
    <2>12. QED
      BY <2>11
  <1> HIDE DEF S
  <1>3. L \in S
    BY <1>1, <1>2, SetInduction
  <1>4. Dom(L) = Nat
    OBVIOUS
  <1>5. QED
    <2> HIDE DEF Dom
    <2> QED BY <1>3, <1>4 DEF S, Ascends

\* Induction downwards, from L on.
LEMMA DownInduction ==
    ASSUME NEW L \in Nat, NEW P,
           \A n \in Nat : (\A q \in Nat : n < L /\ q > n => q \in P) => n \in P
    PROVE  \A n \in Nat : n \in P
  <1> DEFINE S == {j \in Nat : \A n \in Nat : n + j >= L => n \in P}
  <1>1. 0 \in S
    <2>1. \A n \in Nat : n + 0 >= L => ~(n < L)
      OBVIOUS
    <2>2. QED
      BY <2>1
  <1>2. ASSUME NEW j \in Nat, j \in S PROVE j + 1 \in S
    <2>1. SUFFICES ASSUME NEW n \in Nat, n + (j + 1) >= L PROVE n \in P
      OBVIOUS
    <2>2. \A q \in Nat : q > n => q + j >= L
      BY <2>1
    <2>3. \A q \in Nat : q > n => q \in P
      BY <1>2, <2>2
    <2>4. QED
      BY <2>3
  <1> HIDE DEF S
  <1>3. L \in S
    BY <1>1, <1>2, SetInduction
  <1>4. QED
    BY <1>3 DEF S

\* The least of some numbers.
LEMMA LeastNumber ==
    ASSUME NEW S \in SUBSET Nat, S # {}
    PROVE  \E x \in S : \A y \in S : x <= y
  <1>1. PICK x \in S : \A y \in S : <<y, x>> \notin OpToRel(<, Nat)
    BY NatLessThanWellFounded, WFMin
  <1>2. ASSUME NEW y \in S PROVE x <= y
    <2>1. x \in Nat /\ y \in Nat
      OBVIOUS
    <2>2. ~(y < x)
      BY <1>1, <2>1 DEF OpToRel
    <2>3. \A i \in Nat, j \in Nat : ~(j < i) => i <= j
      OBVIOUS
    <2>4. QED
      BY <2>1, <2>2, <2>3
  <1>3. QED
    BY <1>2
=============================================================================
