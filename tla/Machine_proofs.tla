--------------------------- MODULE Machine_proofs ---------------------------
(***************************************************************************)
(* Proofs about the threads of a machine, for any number of callers and    *)
(* any requests.                                                           *)
(***************************************************************************)
EXTENDS Machine, SequenceTheorems, TLAPS

-----------------------------------------------------------------------------
(* Queues without repetition.                                              *)

LEMMA TailOfQueue ==
    ASSUME NEW S, NEW q \in Seq(S), q # <<>>, IsInjective(q)
    PROVE  /\ Head(q) \in S /\ Tail(q) \in Seq(S)
           /\ IsInjective(Tail(q))
           /\ Head(q) \in ToSet(q)
           /\ ToSet(Tail(q)) = ToSet(q) \ {Head(q)}
  <1>1. Len(q) \in Nat /\ Len(q) >= 1 /\ Head(q) = q[1] /\ DOMAIN q = 1 .. Len(q)
    OBVIOUS
  <1>2. /\ Tail(q) \in Seq(S) /\ DOMAIN Tail(q) = 1 .. Len(q) - 1
        /\ \A i \in 1 .. Len(q) - 1 : Tail(q)[i] = q[i + 1]
    BY <1>1
  <1>3. IsInjective(Tail(q))
    BY <1>1, <1>2 DEF IsInjective
  <1>4. ASSUME NEW x \in ToSet(q), x # Head(q) PROVE x \in ToSet(Tail(q))
    <2>1. PICK i \in 2 .. Len(q) : q[i] = x
      BY <1>1, <1>4 DEF ToSet
    <2>2. i - 1 \in 1 .. Len(q) - 1 /\ Tail(q)[i - 1] = x
      BY <1>1, <1>2, <2>1
    <2>3. QED
      BY <1>2, <2>2 DEF ToSet
  <1>5. ASSUME NEW x \in ToSet(Tail(q)) PROVE x \in ToSet(q) \ {Head(q)}
    <2>1. PICK i \in 1 .. Len(q) - 1 : Tail(q)[i] = x
      BY <1>2 DEF ToSet
    <2>2. i + 1 \in 1 .. Len(q) /\ q[i + 1] = x /\ i + 1 # 1
      BY <1>1, <1>2, <2>1
    <2>3. QED
      BY <1>1, <2>2 DEF ToSet, IsInjective
  <1>6. Head(q) \in S /\ Head(q) \in ToSet(q)
    BY <1>1 DEF ToSet
  <1>7. QED
    BY <1>2, <1>3, <1>4, <1>5, <1>6

LEMMA AppendToQueue ==
    ASSUME NEW S, NEW q \in Seq(S), IsInjective(q), NEW x \in S, x \notin ToSet(q)
    PROVE  /\ Append(q, x) \in Seq(S)
           /\ IsInjective(Append(q, x))
           /\ ToSet(Append(q, x)) = ToSet(q) \cup {x}
  <1> DEFINE a == Append(q, x)
  <1>1. /\ Len(q) \in Nat /\ DOMAIN q = 1 .. Len(q)
        /\ a \in Seq(S) /\ DOMAIN a = 1 .. Len(q) + 1
        /\ a[Len(q) + 1] = x /\ \A i \in 1 .. Len(q) : a[i] = q[i]
    OBVIOUS
  <1> HIDE DEF a
  <1>2. IsInjective(a)
    <2> SUFFICES ASSUME NEW i \in DOMAIN a, NEW j \in DOMAIN a, a[i] = a[j] PROVE i = j
      BY DEF IsInjective
    <2>1. CASE i \in 1 .. Len(q) /\ j \in 1 .. Len(q)
      BY <1>1, <2>1 DEF IsInjective
    <2>2. CASE i = Len(q) + 1 /\ j \in 1 .. Len(q)
      BY <1>1, <2>2 DEF ToSet
    <2>3. CASE j = Len(q) + 1 /\ i \in 1 .. Len(q)
      BY <1>1, <2>3 DEF ToSet
    <2>4. QED
      BY <1>1, <2>1, <2>2, <2>3
  <1>3. ToSet(a) = ToSet(q) \cup {x}
    <2>1. ASSUME NEW y \in ToSet(a) PROVE y \in ToSet(q) \cup {x}
      BY <1>1 DEF ToSet
    <2>2. ASSUME NEW y \in ToSet(q) PROVE y \in ToSet(a)
      BY <1>1 DEF ToSet
    <2>3. x \in ToSet(a)
      BY <1>1 DEF ToSet
    <2>4. QED
      BY <2>1, <2>2, <2>3
  <1>4. QED
    BY <1>1, <1>2, <1>3 DEF a

LEMMA RemoveFromQueue ==
    ASSUME NEW S, NEW q \in Seq(S), IsInjective(q), NEW k \in DOMAIN q
    PROVE  /\ RemoveAt(q, k) \in Seq(S)
           /\ IsInjective(RemoveAt(q, k))
           /\ ToSet(RemoveAt(q, k)) = ToSet(q) \ {q[k]}
  <1> DEFINE r == RemoveAt(q, k)
             n == Len(q)
  <1>1. n \in Nat /\ DOMAIN q = 1 .. n /\ k \in 1 .. n
    OBVIOUS
  <1>2. /\ r \in Seq(S) /\ DOMAIN r = 1 .. n - 1
        /\ \A i \in 1 .. n - 1 : r[i] = IF i < k THEN q[i] ELSE q[i + 1]
    <2> DEFINE a == SubSeq(q, 1, k - 1)
               b == SubSeq(q, k + 1, n)
    <2>1. /\ a \in Seq(S) /\ Len(a) = k - 1
          /\ \A i \in 1 .. k - 1 : a[i] = q[i]
      BY <1>1
    <2>2. /\ b \in Seq(S) /\ Len(b) = n - k
          /\ \A i \in 1 .. n - k : b[i] = q[k + i]
      BY <1>1
    <2>3. r = a \o b
      BY DEF RemoveAt
    <2> HIDE DEF a, b, r
    <2>4. /\ r \in Seq(S) /\ Len(r) = n - 1
          /\ \A i \in 1 .. n - 1 : r[i] = IF i <= k - 1 THEN a[i] ELSE b[i - (k - 1)]
      <3>1. /\ a \o b \in Seq(S) /\ Len(a \o b) = Len(a) + Len(b)
            /\ \A i \in 1 .. Len(a) + Len(b) :
                  (a \o b)[i] = IF i <= Len(a) THEN a[i] ELSE b[i - Len(a)]
        BY <2>1, <2>2, ConcatProperties
      <3>2. Len(a) + Len(b) = n - 1
        BY <1>1, <2>1, <2>2
      <3>3. QED
        BY <2>1, <2>3, <3>1, <3>2
    <2>5. ASSUME NEW i \in 1 .. n - 1 PROVE r[i] = IF i < k THEN q[i] ELSE q[i + 1]
      <3>1. CASE i < k
        BY <1>1, <2>1, <2>4, <3>1
      <3>2. CASE i >= k
        <4>1. i - (k - 1) \in 1 .. n - k /\ k + (i - (k - 1)) = i + 1
          BY <1>1, <3>2
        <4>2. r[i] = b[i - (k - 1)]
          BY <1>1, <2>4, <3>2
        <4>3. QED
          BY <1>1, <2>2, <3>2, <4>1, <4>2
      <3>3. QED
        BY <1>1, <3>1, <3>2
    <2>6. QED
      BY <1>1, <2>4, <2>5
  <1> HIDE DEF r
  <1>3. IsInjective(r)
    <2> SUFFICES ASSUME NEW i \in 1 .. n - 1, NEW j \in 1 .. n - 1, r[i] = r[j] PROVE i = j
      BY <1>2 DEF IsInjective
    <2>1. PICK x \in 1 .. n : r[i] = q[x] /\ x = IF i < k THEN i ELSE i + 1
      BY <1>1, <1>2
    <2>2. PICK y \in 1 .. n : r[j] = q[y] /\ y = IF j < k THEN j ELSE j + 1
      BY <1>1, <1>2
    <2>3. x = y
      BY <1>1, <2>1, <2>2 DEF IsInjective
    <2>4. QED
      BY <1>1, <2>1, <2>2, <2>3
  <1>4. ASSUME NEW x \in ToSet(r) PROVE x \in ToSet(q) \ {q[k]}
    <2>1. PICK i \in 1 .. n - 1 : r[i] = x
      BY <1>2 DEF ToSet
    <2>2. PICK j \in 1 .. n : j # k /\ q[j] = x
      BY <1>1, <1>2, <2>1
    <2>3. QED
      BY <1>1, <2>2 DEF ToSet, IsInjective
  <1>5. ASSUME NEW x \in ToSet(q), x # q[k] PROVE x \in ToSet(r)
    <2>1. PICK j \in 1 .. n : j # k /\ q[j] = x
      BY <1>1, <1>5 DEF ToSet
    <2>2. CASE j < k
      <3>1. j \in 1 .. n - 1 /\ r[j] = x
        BY <1>1, <1>2, <2>1, <2>2
      <3>2. QED
        BY <1>2, <3>1 DEF ToSet
    <2>3. CASE j > k
      <3>1. j - 1 \in 1 .. n - 1 /\ r[j - 1] = x
        BY <1>1, <1>2, <2>1, <2>3
      <3>2. QED
        BY <1>2, <3>1 DEF ToSet
    <2>4. QED
      BY <1>1, <2>1, <2>2, <2>3
  <1>6. QED
    BY <1>1, <1>2, <1>3, <1>4, <1>5 DEF r

-----------------------------------------------------------------------------
(* The invariant.                                                          *)

Place == CpuPlace \cup CallerPlace

\* "places" says where the threads are, and cv's queue fits it.
Fits(places, queue) ==
    /\ places \in [Thread -> Place]
    /\ places["cpu"] \in CpuPlace
    /\ queue \in Seq(Thread)
    /\ IsInjective(queue)
    /\ ToSet(queue) = {t \in Thread : places[t] = "wait"}

\* The machine's thread takes the lock first with nothing asked of the
\* processor yet, so that it only waits when no steps are wanted.
FreshStart == thread["cpu"] = "start" => status = "OK"

\* The thread that is alone finds the others out of the machine, and so
\* nobody but the machine's thread in cv's queue in front of it.
OthersIdle == \A t \in Caller : Alone(t) => \A u \in Caller \ {t} : thread[u] = "idle"

\* The inductive invariant.
MachineInv == MachineTypeOK /\ FreshStart /\ OthersIdle /\ NoLostWakeup

LEMMA CpuIsThread == "cpu" \in Thread /\ "cpu" \notin Caller /\ Caller \subseteq Thread
  BY MachineAssumption DEF Thread

LEMMA FitsType ==
    MachineTypeOK <=>
        /\ Fits(thread, waiters)
        /\ active \subseteq Caller \cup {"tape"}
        /\ running \in BOOLEAN /\ steps_to_run \in Nat /\ status \in Status
        /\ parked \in BOOLEAN /\ pin \in BOOLEAN
  BY DEF MachineTypeOK, Fits, Place

\* A thread that goes from one place to another without waiting at either.
LEMMA Moves ==
    ASSUME NEW places, NEW queue, Fits(places, queue), NEW t \in Thread, NEW p \in Place,
           t = "cpu" => p \in CpuPlace, places[t] # "wait", p # "wait"
    PROVE  Fits([places EXCEPT ![t] = p], queue)
  BY CpuIsThread DEF Fits

\* A thread begins to wait.
LEMMA Waits ==
    ASSUME NEW places, NEW queue, Fits(places, queue), NEW t \in Thread, places[t] # "wait"
    PROVE  Fits([places EXCEPT ![t] = "wait"], Append(queue, t))
  <1>1. t \notin ToSet(queue)
    BY DEF Fits
  <1>2. /\ Append(queue, t) \in Seq(Thread) /\ IsInjective(Append(queue, t))
        /\ ToSet(Append(queue, t)) = ToSet(queue) \cup {t}
    BY <1>1, AppendToQueue DEF Fits
  <1>3. "wait" \in CpuPlace /\ "wait" \in Place
    BY DEF CpuPlace, Place
  <1>4. [places EXCEPT ![t] = "wait"] \in [Thread -> Place]
    BY <1>3 DEF Fits
  <1>5. QED
    BY <1>2, <1>3, <1>4, CpuIsThread DEF Fits

\* The longest wait ends by a notify().
LEMMA Notified ==
    ASSUME NEW places, NEW queue, Fits(places, queue), queue # <<>>
    PROVE  /\ Head(queue) \in Thread /\ places[Head(queue)] = "wait"
           /\ Fits([places EXCEPT ![Head(queue)] = Woken(Head(queue))], Tail(queue))
  <1>1. /\ Head(queue) \in Thread /\ Tail(queue) \in Seq(Thread) /\ IsInjective(Tail(queue))
        /\ Head(queue) \in ToSet(queue) /\ ToSet(Tail(queue)) = ToSet(queue) \ {Head(queue)}
    BY TailOfQueue DEF Fits
  <1>2. places[Head(queue)] = "wait"
    BY <1>1 DEF Fits
  <1>3. Woken(Head(queue)) \in Place /\ Woken(Head(queue)) # "wait"
        /\ (Head(queue) = "cpu" => Woken(Head(queue)) \in CpuPlace)
    BY DEF Woken, Place, CpuPlace, CallerPlace
  <1>4. [places EXCEPT ![Head(queue)] = Woken(Head(queue))] \in [Thread -> Place]
    BY <1>1, <1>3 DEF Fits
  <1>5. QED
    BY <1>1, <1>2, <1>3, <1>4, CpuIsThread DEF Fits

\* A wait ends by its timeout.
LEMMA TimesOut ==
    ASSUME Fits(thread, waiters), NEW t \in Thread, thread[t] = "wait",
           NEW p \in Place, p # "wait", t = "cpu" => p \in CpuPlace
    PROVE  Fits([thread EXCEPT ![t] = p], Without(t))
  <1> DEFINE k == CHOOSE i \in DOMAIN waiters : waiters[i] = t
  <1>1. \E i \in DOMAIN waiters : waiters[i] = t
    BY DEF Fits, ToSet
  <1>2. k \in DOMAIN waiters /\ waiters[k] = t
    BY <1>1
  <1> HIDE DEF k
  <1>3. /\ RemoveAt(waiters, k) \in Seq(Thread) /\ IsInjective(RemoveAt(waiters, k))
        /\ ToSet(RemoveAt(waiters, k)) = ToSet(waiters) \ {t}
    BY <1>2, RemoveFromQueue DEF Fits
  <1>4. Without(t) = RemoveAt(waiters, k)
    BY DEF Without, k
  <1>5. [thread EXCEPT ![t] = p] \in [Thread -> Place]
    BY DEF Fits
  <1>6. QED
    BY <1>3, <1>4, <1>5, CpuIsThread DEF Fits

\* notify() with the threads at "places".
LEMMA Notifies ==
    ASSUME NEW places, Fits(places, waiters), notify(places)
    PROVE  /\ Fits(thread', waiters')
           /\ \A t \in Thread : \/ thread'[t] = places[t]
                                \/ places[t] = "wait" /\ thread'[t] = Woken(t)
           /\ places["cpu"] = "wait" /\ (\A t \in Caller : places[t] # "wait")
                 => thread'["cpu"] = "woken"
  <1>1. CASE waiters = <<>>
    <2>1. ToSet(waiters) = {}
      BY <1>1 DEF ToSet
    <2>2. QED
      BY <1>1, <2>1, CpuIsThread DEF notify, Fits
  <1>2. CASE waiters # <<>>
    <2> DEFINE h == Head(waiters)
    <2>1. h \in Thread /\ places[h] = "wait" /\ Fits(thread', waiters')
      BY <1>2, Notified DEF notify
    <2>2. thread' = [places EXCEPT ![h] = Woken(h)]
      BY <1>2 DEF notify
    <2> HIDE DEF h
    <2>3. places \in [Thread -> Place]
      BY DEF Fits
    <2>4. \A t \in Thread : \/ thread'[t] = places[t]
                            \/ places[t] = "wait" /\ thread'[t] = Woken(t)
      BY <2>1, <2>2, <2>3
    <2>5. ASSUME \A t \in Caller : places[t] # "wait" PROVE thread'["cpu"] = "woken"
      <3>1. h = "cpu"
        BY <2>1, <2>5 DEF Thread
      <3>2. QED
        BY <2>1, <2>2, <2>3, <3>1 DEF Woken
    <2>6. QED
      BY <2>1, <2>4, <2>5
  <1>3. QED
    BY <1>1, <1>2

-----------------------------------------------------------------------------
(* The steps.                                                              *)

LEMMA InvInit == Init => MachineInv
  <1> SUFFICES ASSUME Init PROVE MachineInv
    OBVIOUS
  <1>1. thread \in [Thread -> Place] /\ thread["cpu"] = "start"
    BY CpuIsThread DEF Init, Place, CpuPlace, CallerPlace
  <1>2. IsInjective(waiters) /\ ToSet(waiters) = {} /\ waiters \in Seq(Thread)
    BY DEF Init, IsInjective, ToSet
  <1>3. {t \in Thread : thread[t] = "wait"} = {}
    BY DEF Init
  <1>4. Fits(thread, waiters)
    BY <1>1, <1>2, <1>3 DEF Fits, CpuPlace
  <1>5. MachineTypeOK
    BY <1>4, FitsType DEF Init, Status
  <1>6. FreshStart /\ OthersIdle /\ NoLostWakeup
    BY CpuIsThread DEF Init, FreshStart, OthersIdle, NoLostWakeup, Thread
  <1>7. QED
    BY <1>5, <1>6 DEF MachineInv

\* The end of the loop's body.
LEMMA BodyEnds ==
    ASSUME MachineInv, thread["cpu"] \in {"woken", "step"}, EndBody
    PROVE  /\ Fits(thread', waiters')
           /\ steps_to_run' = 0
           /\ thread'["cpu"] # "start"
           /\ \A t \in Caller : thread'[t] = thread[t] \/ (thread[t] = "wait" /\ thread'[t] = "test")
  <1> DEFINE end  == IF running THEN "wait" ELSE "done"
             told == IF waiters = <<>> THEN thread ELSE [thread EXCEPT ![Head(waiters)] = "test"]
             rest == IF waiters = <<>> THEN <<>> ELSE Tail(waiters)
  <1>1. Fits(thread, waiters)
    BY FitsType DEF MachineInv
  <1>2. waiters # <<>> => /\ Head(waiters) \in Thread /\ thread[Head(waiters)] = "wait"
                          /\ Head(waiters) # "cpu"
                          /\ Fits([thread EXCEPT ![Head(waiters)] = "test"], Tail(waiters))
    BY <1>1, Notified DEF Woken
  <1>3. /\ Fits(told, rest) /\ told["cpu"] \in {"woken", "step"}
        /\ \A t \in Caller : told[t] = thread[t] \/ (thread[t] = "wait" /\ told[t] = "test")
    <2>1. CASE waiters = <<>>
      BY <1>1, <2>1
    <2>2. CASE waiters # <<>>
      <3>1. told = [thread EXCEPT ![Head(waiters)] = "test"] /\ rest = Tail(waiters)
        BY <2>2
      <3>2. /\ told["cpu"] = thread["cpu"]
            /\ \A t \in Caller : told[t] = IF t = Head(waiters) THEN "test" ELSE thread[t]
        BY <1>1, <1>2, <2>2, <3>1, CpuIsThread DEF Fits
      <3>3. QED
        BY <1>2, <2>2, <3>1, <3>2
    <2>3. QED
      BY <2>1, <2>2
  <1>4. /\ thread' = [told EXCEPT !["cpu"] = end]
        /\ waiters' = IF running THEN Append(rest, "cpu") ELSE rest
    <2>1. thread' = [t \in Thread |-> IF t = "cpu" THEN end
                                      ELSE IF waiters # <<>> /\ t = Head(waiters) THEN "test"
                                      ELSE thread[t]]
      BY DEF EndBody
    <2>2. told \in [Thread -> Place]
      BY <1>3 DEF Fits
    <2>3. \A t \in Thread : told[t] = IF waiters # <<>> /\ t = Head(waiters) THEN "test" ELSE thread[t]
      BY <1>1, <1>2 DEF Fits
    <2>4. thread' = [told EXCEPT !["cpu"] = end]
      BY <2>1, <2>2, <2>3, CpuIsThread
    <2>5. QED
      BY <2>4 DEF EndBody
  <1> HIDE DEF told, rest
  <1>5. CASE running
    <2>1. Fits([told EXCEPT !["cpu"] = "wait"], Append(rest, "cpu"))
      BY <1>3, Waits, CpuIsThread
    <2>2. told \in [Thread -> Place]
      BY <1>3 DEF Fits
    <2>3. thread'["cpu"] = "wait" /\ \A t \in Caller : thread'[t] = told[t]
      BY <1>4, <1>5, <2>2, CpuIsThread
    <2>4. QED
      BY <1>3, <1>4, <1>5, <2>1, <2>3 DEF EndBody
  <1>6. CASE ~running
    <2>1. Fits([told EXCEPT !["cpu"] = "done"], rest)
      BY <1>3, Moves, CpuIsThread DEF CpuPlace, Place
    <2>2. told \in [Thread -> Place]
      BY <1>3 DEF Fits
    <2>3. thread'["cpu"] = "done" /\ \A t \in Caller : thread'[t] = told[t]
      BY <1>4, <1>6, <2>2, CpuIsThread
    <2>4. QED
      BY <1>3, <1>4, <1>6, <2>1, <2>3 DEF EndBody
  <1>7. QED
    BY <1>5, <1>6

\* A caller that is ready does something to the machine and tells a thread.
LEMMA Calls ==
    ASSUME MachineInv, NEW t \in Caller, Ready(t), NEW p \in CallerPlace, p # "wait",
           notify([thread EXCEPT ![t] = p])
    PROVE  /\ Fits(thread', waiters')
           /\ thread["cpu"] # "start" => thread'["cpu"] # "start"
           /\ \A u \in Caller \ {t} : thread[u] = "idle" => thread'[u] = "idle"
           /\ Alone(t) => thread'["cpu"] # "wait"
           /\ \A u \in Caller \ {t} : ~Alone(u)
  <1> DEFINE places == [thread EXCEPT ![t] = p]
  <1>1. Fits(thread, waiters) /\ t \in Thread /\ t # "cpu" /\ p \in Place /\ thread[t] = "idle"
    BY FitsType, CpuIsThread DEF MachineInv, Ready, Place
  <1>2. Fits(places, waiters)
    BY <1>1, Moves
  <1>3. /\ places["cpu"] = thread["cpu"] /\ places[t] = p
        /\ \A u \in Caller \ {t} : places[u] = thread[u]
    BY <1>1, CpuIsThread DEF Fits
  <1> HIDE DEF places
  <1>4. /\ Fits(thread', waiters')
        /\ \A u \in Thread : \/ thread'[u] = places[u]
                             \/ places[u] = "wait" /\ thread'[u] = Woken(u)
        /\ places["cpu"] = "wait" /\ (\A u \in Caller : places[u] # "wait")
              => thread'["cpu"] = "woken"
    BY <1>2, Notifies DEF places
  <1>5. \A u \in Caller \ {t} : ~Alone(u)
    BY DEF Ready, Alone
  <1>6. ASSUME Alone(t) PROVE thread'["cpu"] # "wait"
    <2>1. \A u \in Caller : places[u] # "wait"
      BY <1>3, <1>6 DEF MachineInv, OthersIdle
    <2>2. QED
      BY <1>4, <2>1, CpuIsThread
  <1>7. QED
    BY <1>3, <1>4, <1>5, <1>6, CpuIsThread DEF Woken

\* What a step has to show for the invariant.
LEMMA Keeps ==
    ASSUME MachineInv, active' = active, Fits(thread', waiters'),
           running' \in BOOLEAN, steps_to_run' \in Nat, status' \in Status,
           parked' \in BOOLEAN, pin' \in BOOLEAN,
           thread'["cpu"] = "start" => thread["cpu"] = "start" /\ status' = status,
           \A t \in Caller : Alone(t) =>
               \A u \in Caller \ {t} : thread[u] = "idle" => thread'[u] = "idle",
           (\E t \in Caller : Alone(t)) /\ steps_to_run' # 0 => thread'["cpu"] # "wait"
    PROVE  MachineInv'
  <1>1. active' \subseteq Caller \cup {"tape"}
    BY DEF MachineInv, MachineTypeOK
  <1>2. MachineTypeOK'
    BY <1>1 DEF MachineTypeOK, Fits, Place
  <1>3. FreshStart'
    BY DEF MachineInv, FreshStart
  <1>4. \A t \in Caller : Alone(t)' <=> Alone(t)
    BY DEF Alone
  <1>5. OthersIdle'
    BY <1>4 DEF MachineInv, OthersIdle
  <1>6. NoLostWakeup'
    BY <1>4 DEF NoLostWakeup
  <1>7. QED
    BY <1>2, <1>3, <1>5, <1>6 DEF MachineInv

\* The types that a step does not touch, and where a thread is.
LEMMA Types ==
    ASSUME MachineInv
    PROVE  /\ Fits(thread, waiters) /\ thread \in [Thread -> Place]
           /\ running \in BOOLEAN /\ steps_to_run \in Nat /\ status \in Status
           /\ parked \in BOOLEAN /\ pin \in BOOLEAN
           /\ (\E t \in Caller : Alone(t)) /\ steps_to_run # 0 => thread["cpu"] # "wait"
           /\ \A t \in Caller : Alone(t) => \A u \in Caller \ {t} : thread[u] = "idle"
  BY FitsType DEF MachineInv, Fits, NoLostWakeup, OthersIdle

LEMMA StepThreadMain == MachineInv /\ thread_main => MachineInv'
  <1> SUFFICES ASSUME MachineInv, thread_main PROVE MachineInv'
    OBVIOUS
  <1>1. /\ thread["cpu"] = "start" /\ status = "OK"
        /\ UNCHANGED <<active, running, steps_to_run, status, parked, pin>>
    BY DEF thread_main, MachineInv, FreshStart
  <1>2. "spin" \in CpuPlace /\ "spin" \in Place /\ "done" \in CpuPlace /\ "done" \in Place
    BY DEF Place, CpuPlace
  <1>3. CASE running /\ Rests
    <2>1. thread' = [thread EXCEPT !["cpu"] = "wait"] /\ waiters' = Append(waiters, "cpu")
      BY <1>3 DEF thread_main
    <2>2. Fits(thread', waiters')
      BY <1>1, <2>1, Waits, Types, CpuIsThread
    <2>3. steps_to_run = 0
      BY <1>1, <1>3 DEF Rests
    <2>4. thread'["cpu"] = "wait" /\ \A u \in Caller : thread'[u] = thread[u]
      BY <2>1, Types, CpuIsThread
    <2>5. QED
      BY <1>1, <2>2, <2>3, <2>4, Types, Keeps
  <1>4. CASE ~(running /\ Rests)
    <2>1. PICK p \in {"spin", "done"} :
             thread' = [thread EXCEPT !["cpu"] = p] /\ waiters' = waiters
      BY <1>4 DEF thread_main
    <2>2. Fits(thread', waiters')
      BY <1>1, <1>2, <2>1, Moves, Types, CpuIsThread
    <2>3. thread'["cpu"] = p /\ \A u \in Caller : thread'[u] = thread[u]
      BY <2>1, Types, CpuIsThread
    <2>4. QED
      BY <1>1, <2>2, <2>3, Types, Keeps
  <1>5. QED
    BY <1>3, <1>4

LEMMA StepWakeIdle == MachineInv /\ WakeIdle => MachineInv'
  <1> SUFFICES ASSUME MachineInv, WakeIdle PROVE MachineInv'
    OBVIOUS
  <1>1. /\ thread["cpu"] = "woken" /\ EndBody
        /\ UNCHANGED <<active, running, status, parked, pin>>
    BY DEF WakeIdle
  <1>2. /\ Fits(thread', waiters') /\ steps_to_run' = 0 /\ thread'["cpu"] # "start"
        /\ \A t \in Caller : thread'[t] = thread[t] \/ (thread[t] = "wait" /\ thread'[t] = "test")
    BY <1>1, BodyEnds
  <1>3. QED
    BY <1>1, <1>2, Types, Keeps

LEMMA StepWakeStep == MachineInv /\ WakeStep => MachineInv'
  <1> SUFFICES ASSUME MachineInv, WakeStep PROVE MachineInv'
    OBVIOUS
  <1>1. /\ thread["cpu"] = "woken" /\ thread' = [thread EXCEPT !["cpu"] = "step"]
        /\ UNCHANGED <<active, waiters, running, steps_to_run, status, parked, pin>>
    BY DEF WakeStep
  <1>2. Fits(thread', waiters')
    BY <1>1, Moves, Types, CpuIsThread DEF Place, CpuPlace
  <1>3. thread'["cpu"] = "step" /\ \A u \in Caller : thread'[u] = thread[u]
    BY <1>1, Types, CpuIsThread
  <1>4. QED
    BY <1>1, <1>2, <1>3, Types, Keeps

LEMMA StepStepReturns == MachineInv /\ StepReturns => MachineInv'
  <1> SUFFICES ASSUME MachineInv, StepReturns PROVE MachineInv'
    OBVIOUS
  <1>1. thread["cpu"] = "step" /\ EndBody /\ UNCHANGED <<active, running>>
    BY DEF StepReturns
  <1>2. status' \in Status /\ parked' \in BOOLEAN /\ pin' \in BOOLEAN
    BY Types DEF StepReturns, Status
  <1>3. /\ Fits(thread', waiters') /\ steps_to_run' = 0 /\ thread'["cpu"] # "start"
        /\ \A t \in Caller : thread'[t] = thread[t] \/ (thread[t] = "wait" /\ thread'[t] = "test")
    BY <1>1, BodyEnds
  <1>4. QED
    BY <1>1, <1>2, <1>3, Types, Keeps

LEMMA StepCpuTimeout == MachineInv /\ CpuTimeout => MachineInv'
  <1> SUFFICES ASSUME MachineInv, CpuTimeout PROVE MachineInv'
    OBVIOUS
  <1>1. /\ thread["cpu"] = "wait" /\ thread' = [thread EXCEPT !["cpu"] = "woken"]
        /\ waiters' = Without("cpu")
        /\ UNCHANGED <<active, running, steps_to_run, status, parked, pin>>
    BY DEF CpuTimeout
  <1>2. Fits(thread', waiters')
    BY <1>1, TimesOut, Types, CpuIsThread DEF Place, CpuPlace
  <1>3. thread'["cpu"] = "woken" /\ \A u \in Caller : thread'[u] = thread[u]
    BY <1>1, Types, CpuIsThread
  <1>4. QED
    BY <1>1, <1>2, <1>3, Types, Keeps

\* Any of the calls that store something and tell a thread.
LEMMA StepCall ==
    ASSUME MachineInv, NEW t \in Caller, Ready(t), NEW p \in CallerPlace, p # "wait",
           notify([thread EXCEPT ![t] = p]),
           UNCHANGED <<active, status, parked>>,
           running' \in BOOLEAN, steps_to_run' \in Nat, pin' \in BOOLEAN
    PROVE  MachineInv'
  <1>1. /\ Fits(thread', waiters')
        /\ thread["cpu"] # "start" => thread'["cpu"] # "start"
        /\ \A u \in Caller \ {t} : thread[u] = "idle" => thread'[u] = "idle"
        /\ Alone(t) => thread'["cpu"] # "wait"
        /\ \A u \in Caller \ {t} : ~Alone(u)
    BY Calls
  <1>2. \A u \in Caller : Alone(u) =>
            \A w \in Caller \ {u} : thread[w] = "idle" => thread'[w] = "idle"
    BY <1>1
  <1>3. QED
    BY <1>1, <1>2, Types, Keeps

\* A call that stays where it is.
LEMMA StaysIdle ==
    ASSUME MachineInv, NEW t \in Caller, Ready(t)
    PROVE  thread = [thread EXCEPT ![t] = "idle"]
  BY Types, CpuIsThread DEF Ready

LEMMA StepStep ==
    ASSUME NEW t \in Caller, NEW num \in Steps, MachineInv, step(t, num)
    PROVE  MachineInv'
  <1>1. Ready(t) /\ notify([thread EXCEPT ![t] = "idle"])
    BY StaysIdle DEF step
  <1>2. num \in Nat
    BY MachineAssumption
  <1>3. QED
    BY <1>1, <1>2, StepCall, Types DEF step, CallerPlace

LEMMA StepStepAndWait ==
    ASSUME NEW t \in Caller, NEW num \in Steps, MachineInv, step_and_wait(t, num)
    PROVE  MachineInv'
  <1>1. num \in Nat
    BY MachineAssumption
  <1>2. QED
    BY <1>1, StepCall, Types DEF step_and_wait, CallerPlace

LEMMA StepInterrupt ==
    ASSUME NEW t \in Caller, MachineInv, interrupt(t)
    PROVE  MachineInv'
  <1>1. Ready(t) /\ notify([thread EXCEPT ![t] = "idle"])
    BY StaysIdle DEF interrupt
  <1>2. pin' \in BOOLEAN /\ steps_to_run' \in Nat
    BY Types DEF interrupt
  <1>3. QED
    BY <1>1, <1>2, StepCall, Types DEF interrupt, CallerPlace

LEMMA StepDelete ==
    ASSUME NEW t \in Caller, MachineInv, delete(t)
    PROVE  MachineInv'
  BY StepCall, Types DEF delete, CallerPlace

\* A caller inside the machine goes on by itself.
LEMMA StepGoesOn ==
    ASSUME MachineInv, NEW t \in Caller, thread[t] # "idle", Fits(thread', waiters'),
           \A u \in Thread \ {t} : thread'[u] = thread[u],
           UNCHANGED <<active, running, steps_to_run, status, parked, pin>>
    PROVE  MachineInv'
  <1>1. thread'["cpu"] = thread["cpu"]
    BY CpuIsThread
  <1>2. \A u \in Caller : Alone(u) =>
            \A w \in Caller \ {u} : thread[w] = "idle" => thread'[w] = "idle"
    BY Types, CpuIsThread
  <1>3. QED
    BY <1>1, <1>2, Types, Keeps

LEMMA StepWaitForSteps ==
    ASSUME NEW t \in Caller, MachineInv, WaitForSteps(t)
    PROVE  MachineInv'
  <1>1. /\ thread[t] = "test" /\ t \in Thread /\ t # "cpu"
        /\ UNCHANGED <<active, running, steps_to_run, status, parked, pin>>
    BY CpuIsThread DEF WaitForSteps
  <1>2. CASE thread' = [thread EXCEPT ![t] = "wait"] /\ waiters' = Append(waiters, t)
    <2>1. Fits(thread', waiters')
      BY <1>1, <1>2, Waits, Types
    <2>2. QED
      BY <1>1, <1>2, <2>1, StepGoesOn, Types
  <1>3. CASE thread' = [thread EXCEPT ![t] = "idle"] /\ waiters' = waiters
    <2>1. Fits(thread', waiters')
      BY <1>1, <1>3, Moves, Types DEF Place, CallerPlace
    <2>2. QED
      BY <1>1, <1>3, <2>1, StepGoesOn, Types
  <1>4. QED
    BY <1>2, <1>3 DEF WaitForSteps

LEMMA StepCallerTimeout ==
    ASSUME NEW t \in Caller, MachineInv, CallerTimeout(t)
    PROVE  MachineInv'
  <1>1. /\ thread[t] = "wait" /\ t \in Thread /\ t # "cpu"
        /\ thread' = [thread EXCEPT ![t] = "test"] /\ waiters' = Without(t)
        /\ UNCHANGED <<active, running, steps_to_run, status, parked, pin>>
    BY CpuIsThread DEF CallerTimeout
  <1>2. Fits(thread', waiters')
    BY <1>1, TimesOut, Types DEF Place, CallerPlace
  <1>3. QED
    BY <1>1, <1>2, StepGoesOn, Types

LEMMA StepJoin ==
    ASSUME NEW t \in Caller, MachineInv, Join(t)
    PROVE  MachineInv'
  <1>1. /\ thread[t] = "join" /\ t \in Thread /\ t # "cpu"
        /\ thread' = [thread EXCEPT ![t] = "gone"]
        /\ UNCHANGED <<active, waiters, running, steps_to_run, status, parked, pin>>
    BY CpuIsThread DEF Join
  <1>2. Fits(thread', waiters')
    BY <1>1, Moves, Types DEF Place, CallerPlace
  <1>3. QED
    BY <1>1, <1>2, StepGoesOn, Types

LEMMA StepTapeInterrupt == MachineInv /\ TapeInterrupt => MachineInv'
  BY Types, Keeps DEF TapeInterrupt

LEMMA Stutters == MachineInv /\ UNCHANGED vars => MachineInv'
  BY Types, Keeps DEF vars

LEMMA InvNext == MachineInv /\ [Next]_vars => MachineInv'
  <1> SUFFICES ASSUME MachineInv, [Next]_vars PROVE MachineInv'
    OBVIOUS
  <1>1. CASE CpuThread
    BY <1>1, StepThreadMain, StepWakeIdle, StepWakeStep, StepStepReturns DEF CpuThread
  <1>2. CASE CpuTimeout
    BY <1>2, StepCpuTimeout
  <1>3. ASSUME NEW t \in Caller,
               \/ \E num \in Steps : step(t, num) \/ step_and_wait(t, num)
               \/ WaitForSteps(t) \/ CallerTimeout(t)
               \/ interrupt(t)
               \/ delete(t) \/ Join(t)
        PROVE  MachineInv'
    BY <1>3, StepStep, StepStepAndWait, StepWaitForSteps, StepCallerTimeout,
       StepInterrupt, StepDelete, StepJoin
  <1>4. CASE TapeInterrupt
    BY <1>4, StepTapeInterrupt
  <1>5. CASE UNCHANGED vars
    BY <1>5, Stutters
  <1>6. QED
    BY <1>1, <1>2, <1>3, <1>4, <1>5 DEF Next

-----------------------------------------------------------------------------
(* The theorems.                                                           *)

\* Each field of the machine keeps its type, and cv's queue holds exactly the
\* threads in cv.wait(), each once, for any number of callers: notify() and
\* the timeouts of hardware.py:829 and 917 never lose a waiting thread or
\* wake one twice.
THEOREM MachineTypes == Spec => []MachineTypeOK
  <1>1. MachineInv => MachineTypeOK
    BY DEF MachineInv
  <1>2. QED
    BY <1>1, InvInit, InvNext, PTL DEF Spec

\* A thread that has the machine for itself never leaves its request to the
\* five seconds' timeout of the machine's thread: whoever stores steps_to_run
\* finds nobody else in front of that thread in cv's queue.
THEOREM NoWakeupLost == Spec => []NoLostWakeup
  <1>1. MachineInv => NoLostWakeup
    BY DEF MachineInv
  <1>2. QED
    BY <1>1, InvInit, InvNext, PTL DEF Spec

=============================================================================
