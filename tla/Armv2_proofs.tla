---------------------------- MODULE Armv2_proofs ----------------------------
(***************************************************************************)
(* Proofs about the page tables of module Memory, for every address space, *)
(* RAM size, ROM layout and set of devices, and with their lemmas about    *)
(* the processor of module Armv2, for every guest program, set of          *)
(* interrupt sources and use of the debugger.                              *)
(***************************************************************************)
EXTENDS Armv2, FiniteSetTheorems, TLAPS

-----------------------------------------------------------------------------
(* What the functions of the memory return.                                *)

LEMMA MemWith ==
    ASSUME NEW m \in Mem, NEW pt \in [Page -> Entry], NEW n \in Nat
    PROVE  /\ [m EXCEPT !.page_tables = pt, !.free_ram = n] \in Mem
           /\ [m EXCEPT !.page_tables = pt, !.free_ram = n].page_tables = pt
           /\ [m EXCEPT !.page_tables = pt, !.free_ram = n].free_ram = n
  BY DEF Mem

\* The memory with page p populated by fault().
Grown(m, p) ==
    [m EXCEPT !.page_tables = [m.page_tables EXCEPT ![p] = "ram"], !.free_ram = m.free_ram - 1]

\* fault() and touch() either leave the memory alone or populate one page that
\* was never touched, for which there was RAM.
LEMMA TouchCases ==
    ASSUME NEW m \in Mem, NEW p \in Page, NEW t \in touch(m, p)
    PROVE  /\ t.ok \in BOOLEAN
           /\ \/ t.mem = m
              \/ m.page_tables[p] = "null" /\ m.free_ram >= 1 /\ t.mem = Grown(m, p)
  <1>1. [m EXCEPT !.page_tables[p] = "ram", !.free_ram = @ - 1] = Grown(m, p)
    BY DEF Mem, Grown
  <1>2. m.free_ram \in Nat
    BY DEF Mem
  <1> HIDE DEF Mem, Grown
  <1>3. CASE m.page_tables[p] # "null"
    <2>1. t = [mem |-> m, ok |-> TRUE]
      BY <1>3 DEF touch
    <2>2. QED
      BY <2>1
  <1>4. CASE m.page_tables[p] = "null"
    <2>1. t \in fault(m, p)
      BY <1>4 DEF touch
    <2>2. \/ t = [mem |-> m, ok |-> FALSE]
          \/ m.free_ram >= 1 /\ t = [mem |-> Grown(m, p), ok |-> TRUE]
      <3>1. CASE m.free_ram < 1
        BY <1>4, <2>1, <3>1 DEF fault
      <3>2. CASE ~(m.free_ram < 1)
        <4>1. t = [mem |-> m, ok |-> FALSE] \/ t = [mem |-> Grown(m, p), ok |-> TRUE]
          BY <1>1, <1>4, <2>1, <3>2 DEF fault
        <4>2. QED
          BY <1>2, <3>2, <4>1
      <3>3. QED
        BY <3>1, <3>2
    <2>3. CASE t = [mem |-> m, ok |-> FALSE]
      BY <2>3
    <2>4. CASE m.free_ram >= 1 /\ t = [mem |-> Grown(m, p), ok |-> TRUE]
      BY <1>4, <2>4
    <2>5. QED
      BY <2>2, <2>3, <2>4
  <1>5. QED
    BY <1>3, <1>4

LEMMA GrownType ==
    ASSUME NEW m \in Mem, NEW p \in Page, m.free_ram >= 1
    PROVE  Grown(m, p) \in Mem
  <1>1. [m.page_tables EXCEPT ![p] = "ram"] \in [Page -> Entry]
    BY DEF Mem, Entry
  <1>2. m.free_ram - 1 \in Nat
    BY DEF Mem
  <1>3. QED
    BY <1>1, <1>2, MemWith DEF Grown

LEMMA TouchType ==
    ASSUME NEW m \in Mem, NEW p \in Page, NEW t \in touch(m, p)
    PROVE  t.mem \in Mem /\ t.ok \in BOOLEAN
  BY TouchCases, GrownType

LEMMA StoredType ==
    ASSUME NEW m \in Mem, NEW p \in Page
    PROVE  /\ stored(m, p) \in Mem
           /\ stored(m, p).page_tables = m.page_tables
           /\ stored(m, p).free_ram = m.free_ram
  BY DEF stored, Mem

-----------------------------------------------------------------------------
(* Every operation but the last only adds pages to the memory.             *)

\* The memory n comes from the memory m by populating pages with RAM, by
\* giving pages to devices and by stores: no page that exists is taken over,
\* and the pages of RAM are paid for.
Grows(m, n) ==
    /\ n \in Mem
    /\ \A p \in Page : m.page_tables[p] # "null" => n.page_tables[p] = m.page_tables[p]
    /\ n.free_ram + Cardinality(RamOf(n)) = m.free_ram + Cardinality(RamOf(m))

LEMMA PagesFinite ==
    /\ IsFiniteSet(Page)
    /\ \A S \in SUBSET Page : IsFiniteSet(S) /\ Cardinality(S) \in Nat
  <1>1. IsFiniteSet(Page)
    BY MemoryAssumption, FS_Interval DEF Page
  <1>2. QED
    BY <1>1, FS_Subset, FS_CardinalityType

LEMMA GrowsReflexive ==
    ASSUME NEW m \in Mem
    PROVE  Grows(m, m)
  BY DEF Grows

LEMMA GrowsTransitive ==
    ASSUME NEW k, NEW m, NEW n, Grows(k, m), Grows(m, n)
    PROVE  Grows(k, n)
  BY DEF Grows

\* The memory with the free pages S populated, which is what fault() and
\* load_section() produce.
LEMMA FillGrows ==
    ASSUME NEW m \in Mem, NEW n \in Mem, NEW S \in SUBSET Page,
           \A p \in S : m.page_tables[p] = "null",
           n.page_tables = [p \in Page |-> IF p \in S THEN "ram" ELSE m.page_tables[p]],
           n.free_ram = m.free_ram - Cardinality(S)
    PROVE  Grows(m, n)
  <1>1. RamOf(n) = RamOf(m) \cup S /\ RamOf(m) \cap S = {}
    BY DEF RamOf
  <1>2. /\ IsFiniteSet(RamOf(m)) /\ Cardinality(RamOf(m)) \in Nat
        /\ IsFiniteSet(S) /\ Cardinality(S) \in Nat
    BY PagesFinite DEF RamOf
  <1>3. Cardinality(RamOf(n)) = Cardinality(RamOf(m)) + Cardinality(S)
    <2>1. Cardinality(RamOf(m) \cup S)
              = Cardinality(RamOf(m)) + Cardinality(S) - Cardinality(RamOf(m) \cap S)
      BY <1>2, FS_Union
    <2>2. Cardinality(RamOf(m) \cap S) = 0
      BY <1>1, FS_EmptySet
    <2>3. QED
      BY <1>2, <1>1, <2>1, <2>2
  <1>4. n.free_ram + Cardinality(RamOf(n)) = m.free_ram + Cardinality(RamOf(m))
    <2>1. m.free_ram \in Nat
      BY DEF Mem
    <2>2. QED
      BY <1>2, <1>3, <2>1
  <1>5. \A p \in Page : m.page_tables[p] # "null" => n.page_tables[p] = m.page_tables[p]
    OBVIOUS
  <1>6. QED
    BY <1>4, <1>5 DEF Grows

LEMMA TouchGrows ==
    ASSUME NEW m \in Mem, NEW p \in Page, NEW t \in touch(m, p)
    PROVE  Grows(m, t.mem)
  <1>1. CASE t.mem = m
    BY <1>1, GrowsReflexive
  <1>2. CASE m.page_tables[p] = "null" /\ m.free_ram >= 1 /\ t.mem = Grown(m, p)
    <2> DEFINE n == Grown(m, p)
    <2>1. m.page_tables \in [Page -> Entry] /\ m.free_ram \in Nat
      BY DEF Mem
    <2>2. n \in Mem
      BY <1>2, GrownType
    <2>3. n.page_tables = [m.page_tables EXCEPT ![p] = "ram"] /\ n.free_ram = m.free_ram - 1
      BY DEF Grown, Mem
    <2>4. n.page_tables = [q \in Page |-> IF q \in {p} THEN "ram" ELSE m.page_tables[q]]
      BY <2>1, <2>3
    <2>5. n.free_ram = m.free_ram - Cardinality({p})
      BY <2>3, FS_Singleton
    <2> HIDE DEF n
    <2>6. Grows(m, n)
      BY <1>2, <2>2, <2>4, <2>5, FillGrows
    <2>7. QED
      BY <1>2, <2>6 DEF n
  <1>3. QED
    BY <1>1, <1>2, TouchCases

LEMMA StoredGrows ==
    ASSUME NEW m \in Mem, NEW p \in Page
    PROVE  Grows(m, stored(m, p))
  <1>1. RamOf(stored(m, p)) = RamOf(m)
    BY StoredType DEF RamOf
  <1>2. QED
    BY <1>1, StoredType DEF Grows

LEMMA PopulatedGrows ==
    ASSUME NEW m \in Mem, NEW start \in Nat, NEW k \in Nat, start + k <= NUM_PAGE_TABLES,
           Populated(m, start, k).free_ram >= 0
    PROVE  Grows(m, Populated(m, start, k))
  <1> DEFINE fresh == {p \in start .. start + k - 1 : m.page_tables[p] = "null"}
             pt    == [p \in Page |-> IF p \in fresh THEN "ram" ELSE m.page_tables[p]]
             n     == Populated(m, start, k)
  <1>1. fresh \in SUBSET Page
    BY MemoryAssumption DEF Page
  <1>2. pt \in [Page -> Entry]
    BY DEF Mem, Entry
  <1>3. Cardinality(fresh) \in Nat
    BY <1>1, PagesFinite
  <1>4. n = [m EXCEPT !.page_tables = pt, !.free_ram = m.free_ram - Cardinality(fresh)]
    BY DEF Populated, Mem
  <1>5. m.free_ram \in Nat
    BY DEF Mem
  <1> HIDE DEF fresh, pt
  <1>6. n.free_ram = m.free_ram - Cardinality(fresh)
    BY <1>4 DEF Mem
  <1>7. m.free_ram - Cardinality(fresh) \in Nat
    <2>1. n.free_ram >= 0
      OBVIOUS
    <2> HIDE DEF n
    <2>2. QED
      BY <1>3, <1>5, <1>6, <2>1
  <1>8. n \in Mem /\ n.page_tables = pt
    <2> DEFINE left == m.free_ram - Cardinality(fresh)
    <2>1. left \in Nat /\ n = [m EXCEPT !.page_tables = pt, !.free_ram = left]
      BY <1>4, <1>7
    <2> HIDE DEF left, n
    <2>2. /\ [m EXCEPT !.page_tables = pt, !.free_ram = left] \in Mem
          /\ [m EXCEPT !.page_tables = pt, !.free_ram = left].page_tables = pt
      BY <1>2, <2>1 DEF Mem
    <2>3. QED
      BY <2>1, <2>2, Zenon
  <1>9. \A p \in fresh : m.page_tables[p] = "null"
    BY DEF fresh
  <1> HIDE DEF n
  <1>10. Grows(m, n)
    BY <1>1, <1>6, <1>8, <1>9, FillGrows DEF pt
  <1>11. QED
    BY <1>10 DEF n

LEMMA LoadGrows ==
    ASSUME NEW m \in Mem, NEW start \in Nat, NEW limit \in 0 .. NUM_PAGE_TABLES,
           NEW len \in Nat, NEW t \in load_section(m, start, limit, len)
    PROVE  Grows(m, t.mem)
  <1>1. CASE t = [mem |-> m, ok |-> FALSE]
    BY <1>1, GrowsReflexive
  <1>2. ASSUME NEW k \in 0 .. len, len <= limit - start,
               Populated(m, start, k).free_ram >= 0, t.mem = Populated(m, start, k)
        PROVE  Grows(m, t.mem)
    <2>1. k \in Nat /\ start + k <= NUM_PAGE_TABLES
      BY <1>2, MemoryAssumption
    <2>2. QED
      BY <1>2, <2>1, PopulatedGrows
  <1>3. \/ t = [mem |-> m, ok |-> FALSE]
        \/ /\ len <= limit - start
           /\ \E k \in 0 .. len : /\ Populated(m, start, k).free_ram >= 0
                                  /\ t.mem = Populated(m, start, k)
    <2>1. CASE len > limit - start
      BY <2>1 DEF load_section
    <2>2. CASE ~(len > limit - start)
      <3>1. len <= limit - start
        BY <2>2, MemoryAssumption
      <3>2. \E k \in 0 .. len : /\ Populated(m, start, k).free_ram >= 0
                                /\ \/ t = [mem |-> Populated(m, start, k), ok |-> FALSE]
                                   \/ t = [mem |-> Populated(m, start, k), ok |-> TRUE]
        <4> DEFINE fits(k) == Populated(m, start, k).free_ram >= 0
        <4>1. \/ t \in {[mem |-> Populated(m, start, k), ok |-> FALSE] : k \in {j \in 0 .. len : fits(j)}}
              \/ t \in {[mem |-> Populated(m, start, k), ok |-> TRUE] : k \in {j \in {len} : fits(j)}}
          BY <2>2, Zenon DEF load_section
        <4>2. len \in 0 .. len
          OBVIOUS
        <4> HIDE DEF fits
        <4>3. \E k \in 0 .. len : /\ fits(k)
                                  /\ \/ t = [mem |-> Populated(m, start, k), ok |-> FALSE]
                                     \/ t = [mem |-> Populated(m, start, k), ok |-> TRUE]
          BY <4>1, <4>2, Zenon
        <4>4. QED
          BY <4>3, Zenon DEF fits
      <3>3. QED
        BY <3>1, <3>2
    <2>3. QED
      BY <2>1, <2>2
  <1>4. QED
    BY <1>1, <1>2, <1>3

-----------------------------------------------------------------------------
(* Devices.                                                                *)

\* Every page of a device's region calls that device and is not page 0.
Backed(m, regions) ==
    \A d \in Device : \A p \in regions[d].start .. regions[d].end - 1 :
        p # 0 /\ m.page_tables[p] = d

LEMMA RegionPages ==
    ASSUME NEW r \in Region, NEW p \in r.start .. r.end - 1
    PROVE  p \in Page
  BY MemoryAssumption DEF Region, Page

LEMMA GrowsBacked ==
    ASSUME NEW m, NEW n, NEW regions \in [Device -> Region], Grows(m, n), Backed(m, regions)
    PROVE  Backed(n, regions)
  <1> SUFFICES ASSUME NEW d \in Device, NEW p \in regions[d].start .. regions[d].end - 1
               PROVE  p # 0 /\ n.page_tables[p] = d
    BY DEF Backed
  <1>1. p # 0 /\ m.page_tables[p] = d
    BY DEF Backed
  <1>2. p \in Page
    BY RegionPages
  <1>3. d # "null"
    BY MemoryAssumption
  <1>4. QED
    BY <1>1, <1>2, <1>3 DEF Grows

LEMMA GiveToGrows ==
    ASSUME NEW m \in Mem, NEW d \in Device, NEW s, NEW k,
           \A p \in s .. k - 1 : m.page_tables[p] = "null"
    PROVE  Grows(m, GiveTo(m, d, s, k))
  <1> DEFINE n == GiveTo(m, d, s, k)
             pt == [p \in Page |-> IF p \in s .. k - 1 THEN d ELSE m.page_tables[p]]
  <1>1. pt \in [Page -> Entry] /\ m.free_ram \in Nat
    BY DEF Mem, Entry
  <1>2. n \in Mem /\ n.page_tables = pt /\ n.free_ram = m.free_ram
    <2> HIDE DEF pt
    <2>1. n = [m EXCEPT !.page_tables = pt]
      BY DEF GiveTo, pt
    <2>2. QED
      BY <1>1, <2>1 DEF Mem
  <1>3. d # "ram"
    BY MemoryAssumption
  <1> HIDE DEF n
  <1>4. RamOf(n) = RamOf(m)
    BY <1>2, <1>3 DEF RamOf
  <1>5. \A p \in Page : m.page_tables[p] # "null" => n.page_tables[p] = m.page_tables[p]
    BY <1>2
  <1>6. QED
    BY <1>2, <1>4, <1>5 DEF Grows, n

\* map_memory() takes over no page, and keeps every device's region backed
\* by pages of that device, also when it fails half way.
LEMMA MapMemory ==
    ASSUME hardware_devices \in Seq(Device),
           NEW m \in Mem, NEW regions \in [Device -> Region], NEW num,
           NEW s \in Page, NEW e \in Page, NEW o \in map_memory(m, regions, num, s, e)
    PROVE  /\ Grows(m, o.mem)
           /\ o.mapped \in [Device -> Region]
           /\ Backed(m, regions) => Backed(o.mem, o.mapped)
  <1>1. CASE ~Mappable(m, num, s, e)
    <2>1. o = [mem |-> m, mapped |-> regions]
      BY <1>1 DEF map_memory
    <2>2. QED
      BY <2>1, GrowsReflexive
  <1>2. CASE Mappable(m, num, s, e)
    <2> DEFINE d == hardware_devices[num]
               given == [regions EXCEPT ![d] = [start |-> s, end |-> e]]
    <2>1. d \in Device
      BY <1>2 DEF Mappable
    <2>2. s \in Int /\ e \in Int /\ s # 0 /\ \A p \in s .. e - 1 : m.page_tables[p] = "null"
      BY <1>2 DEF Mappable, Page
    <2>3. given \in [Device -> Region]
      BY <2>1, MemoryAssumption DEF Region, Page
    <2>4. \/ o = [mem |-> GiveTo(m, d, s, e), mapped |-> given]
          \/ \E k \in s .. e - 1 : o = [mem |-> GiveTo(m, d, s, k), mapped |-> regions]
      BY <1>2, Zenon DEF map_memory
    <2> HIDE DEF d
    <2>5. CASE o = [mem |-> GiveTo(m, d, s, e), mapped |-> given]
      <3>1. Grows(m, GiveTo(m, d, s, e))
        BY <2>1, <2>2, GiveToGrows
      <3>2. ASSUME Backed(m, regions), NEW c \in Device,
                   NEW p \in given[c].start .. given[c].end - 1
            PROVE  p # 0 /\ GiveTo(m, d, s, e).page_tables[p] = c
        <4>1. CASE c = d
          <5>1. given[c] = [start |-> s, end |-> e]
            BY <2>1, <4>1
          <5>2. p \in s .. e - 1 /\ p \in Page
            <6>1. given[c].start = s /\ given[c].end = e
              BY <5>1
            <6> HIDE DEF given
            <6>2. p \in s .. e - 1
              BY <6>1
            <6>3. QED
              BY <6>2, MemoryAssumption DEF Page
          <5>3. GiveTo(m, d, s, e).page_tables
                  = [q \in Page |-> IF q \in s .. e - 1 THEN d ELSE m.page_tables[q]]
            BY DEF GiveTo, Mem
          <5>4. QED
            BY <2>2, <4>1, <5>2, <5>3 DEF Page
        <4>2. CASE c # d
          <5>1. given[c] = regions[c]
            BY <4>2
          <5>2. Backed(GiveTo(m, d, s, e), regions)
            BY <3>1, <3>2, GrowsBacked
          <5>3. QED
            BY <5>1, <5>2 DEF Backed
        <4>3. QED
          BY <4>1, <4>2
      <3>3. o.mem = GiveTo(m, d, s, e) /\ o.mapped = given
        BY <2>5
      <3>4. Backed(m, regions) => Backed(o.mem, o.mapped)
        <4> HIDE DEF given
        <4>1. QED
          BY <3>2, <3>3 DEF Backed
      <3>5. QED
        BY <2>3, <3>1, <3>3, <3>4
    <2>6. ASSUME NEW k \in s .. e - 1, o = [mem |-> GiveTo(m, d, s, k), mapped |-> regions]
          PROVE  Grows(m, o.mem) /\ o.mapped = regions
      <3>1. k \in Int /\ k < e
        BY <2>2
      <3>2. \A p \in s .. k - 1 : m.page_tables[p] = "null"
        BY <2>2, <3>1
      <3>3. Grows(m, GiveTo(m, d, s, k))
        BY <2>1, <3>2, GiveToGrows
      <3>4. QED
        BY <2>6, <3>3
    <2>7. QED
      BY <2>4, <2>5, <2>6, GrowsBacked
  <1>3. QED
    BY <1>1, <1>2

-----------------------------------------------------------------------------
(* The memory's invariant and its theorems.                                *)

\* The conjunction is inductive.
MemInv == MemTypeOK /\ RamAccounted /\ MappingBacked

LEMMA MemInitInv == MemInit => MemInv
  <1> SUFFICES ASSUME MemInit PROVE MemInv
    OBVIOUS
  <1>1. MemTypeOK
    BY MemoryAssumption DEF MemInit, MemTypeOK, Mem, Entry, Region
  <1>2. RamAccounted
    <2>1. RamOf(mem) = {} /\ mem.free_ram = RamPages
      BY DEF MemInit, RamOf
    <2>2. QED
      BY <2>1, FS_EmptySet, MemoryAssumption DEF RamAccounted
  <1>3. MappingBacked
    <2>1. \A d \in Device : mapped[d].start .. mapped[d].end - 1 = {}
      BY DEF MemInit
    <2>2. QED
      BY <2>1 DEF MappingBacked
  <1>4. QED
    BY <1>1, <1>2, <1>3 DEF MemInv

\* What a step has to do to keep the invariant and the backing of the pages
\* when it does not tear the memory down.
LEMMA GrowthKeepsInv ==
    ASSUME MemInv, stage # "cleaned", Grows(mem, mem'),
           mapped' \in [Device -> Region],
           Backed(mem, mapped) => Backed(mem', mapped'),
           hardware_devices' \in Seq(Device),
           stage' \in {"init", "loaded", "failed"}
    PROVE  MemInv'
  <1>1. MemTypeOK'
    BY DEF MemTypeOK, Grows
  <1>2. RamAccounted'
    BY DEF MemInv, RamAccounted, Grows
  <1>3. MappingBacked'
    BY DEF MemInv, MappingBacked, Backed
  <1>4. QED
    BY <1>1, <1>2, <1>3 DEF MemInv

LEMMA load_romGrows ==
    ASSUME MemTypeOK, load_rom
    PROVE  Grows(mem, mem') /\ stage' \in {"loaded", "failed"}
  <1> DEFINE Ends(boot, sym) ==
          IF ~boot.ok
          THEN mem' = boot.mem /\ stage' = "failed"
          ELSE \E s \in load_section(boot.mem, SymbolsPage, SymbolsLimit, sym) :
                  /\ mem' = s.mem
                  /\ stage' = IF s.ok THEN "loaded" ELSE "failed"
  <1>0. PICK rom \in 0 .. RomLimit + 1, sym \in 0 .. SymbolsLimit - SymbolsPage + 1 :
          \E boot \in load_section(mem, 0, RomLimit, rom) : Ends(boot, sym)
    BY Zenon DEF load_rom
  <1>1. PICK boot \in load_section(mem, 0, RomLimit, rom) : Ends(boot, sym)
    BY <1>0
  <1>2. /\ rom \in Nat /\ sym \in Nat /\ SymbolsPage \in Nat
        /\ RomLimit \in 0 .. NUM_PAGE_TABLES /\ SymbolsLimit \in 0 .. NUM_PAGE_TABLES
    BY MemoryAssumption, RomLayoutAssumption
  <1>3. Grows(mem, boot.mem)
    BY <1>2, LoadGrows DEF MemTypeOK
  <1>4. boot.mem \in Mem
    BY <1>3 DEF Grows
  <1>5. CASE ~boot.ok
    BY <1>1, <1>3, <1>5
  <1>6. CASE boot.ok
    <2>1. PICK s \in load_section(boot.mem, SymbolsPage, SymbolsLimit, sym) :
                  /\ mem' = s.mem
                  /\ stage' = IF s.ok THEN "loaded" ELSE "failed"
      BY <1>1, <1>6
    <2>2. Grows(boot.mem, s.mem)
      BY <1>2, <1>4, LoadGrows
    <2>3. QED
      BY <1>3, <2>1, <2>2, GrowsTransitive
  <1>7. QED
    BY <1>5, <1>6

LEMMA AccessGrows ==
    ASSUME MemTypeOK, NEW p \in Page, NEW user, NEW store, Access(p, user, store)
    PROVE  Grows(mem, mem')
  <1>1. PICK t \in touch(mem, p) :
          mem' = IF t.ok /\ store /\ Permitted(p, user, store) THEN stored(t.mem, p) ELSE t.mem
    BY DEF Access
  <1>2. Grows(mem, t.mem)
    BY TouchGrows DEF MemTypeOK
  <1>3. t.mem \in Mem
    BY <1>2 DEF Grows
  <1>4. Grows(mem, stored(t.mem, p))
    BY <1>2, <1>3, StoredGrows, GrowsTransitive
  <1>5. QED
    BY <1>1, <1>2, <1>4

LEMMA cleanupInv ==
    ASSUME MemInv, cleanup_armv2
    PROVE  MemInv'
  <1> DEFINE used == {p \in Page : mem.page_tables[p] # "null"}
             none == [p \in Page |-> "null"]
  <1>1. Cardinality(used) \in Nat
    BY PagesFinite
  <1>2. mem \in Mem /\ mem.free_ram \in Nat
    BY DEF MemInv, MemTypeOK, Mem
  <1>3. none \in [Page -> Entry]
    BY DEF Entry
  <1>4. mem' = [mem EXCEPT !.page_tables = none, !.free_ram = mem.free_ram + Cardinality(used)]
    BY <1>2 DEF cleanup_armv2
  <1> HIDE DEF used, none
  <1>5. mem' \in Mem
    <2> DEFINE ram == mem.free_ram + Cardinality(used)
    <2>1. ram \in Nat
      BY <1>1, <1>2
    <2> HIDE DEF ram
    <2>2. mem' = [mem EXCEPT !.page_tables = none, !.free_ram = ram]
      BY <1>4 DEF ram
    <2>3. QED
      BY <1>2, <1>3, <2>1, <2>2 DEF Mem
  <1>6. QED
    BY <1>5 DEF cleanup_armv2, MemInv, MemTypeOK, RamAccounted, MappingBacked

\* Every step keeps the invariant, and every step but the last keeps the
\* backing of the pages that exist.
LEMMA MemStep ==
    ASSUME MemInv, MemNext
    PROVE  MemInv' /\ (stage' # "cleaned" => Grows(mem, mem'))
  <1> USE DEF MemInv
  <1>1. CASE load_rom
    <2>1. Grows(mem, mem') /\ stage' \in {"loaded", "failed"}
      BY <1>1, load_romGrows
    <2>2. UNCHANGED <<hardware_devices, mapped>> /\ stage # "cleaned"
      BY <1>1 DEF load_rom
    <2>3. QED
      BY <2>1, <2>2, GrowsBacked, GrowthKeepsInv DEF MemTypeOK
  <1>2. ASSUME NEW d \in Device, add_hardware(d)
        PROVE  MemInv' /\ Grows(mem, mem')
    <2>1. UNCHANGED <<mem, mapped, stage>> /\ stage = "loaded"
      BY <1>2 DEF add_hardware
    <2>2. hardware_devices' \in Seq(Device)
      BY <1>2 DEF add_hardware, MemTypeOK
    <2>3. Grows(mem, mem')
      BY <2>1, GrowsReflexive DEF MemTypeOK
    <2>4. QED
      BY <2>1, <2>2, <2>3, GrowthKeepsInv DEF MemTypeOK
  <1>3. ASSUME NEW n \in 1 .. HW_DEVICES_MAX, NEW s \in Page, NEW e \in Page, MapDevice(n, s, e)
        PROVE  MemInv' /\ Grows(mem, mem')
    <2>1. PICK o \in map_memory(mem, mapped, n, s, e) : mem' = o.mem /\ mapped' = o.mapped
      BY <1>3 DEF MapDevice
    <2>2. UNCHANGED <<hardware_devices, stage>> /\ stage = "loaded"
      BY <1>3 DEF MapDevice
    <2>3. /\ Grows(mem, mem')
          /\ mapped' \in [Device -> Region]
          /\ Backed(mem, mapped) => Backed(mem', mapped')
      BY <2>1, MapMemory DEF MemTypeOK
    <2>4. QED
      BY <2>2, <2>3, GrowthKeepsInv DEF MemTypeOK
  <1>4. ASSUME NEW p \in Page, NEW user \in BOOLEAN, NEW store \in BOOLEAN, Access(p, user, store)
        PROVE  MemInv' /\ Grows(mem, mem')
    <2>1. Grows(mem, mem')
      BY <1>4, AccessGrows
    <2>2. UNCHANGED <<hardware_devices, mapped, stage>> /\ stage = "loaded"
      BY <1>4 DEF Access
    <2>3. QED
      BY <2>1, <2>2, GrowsBacked, GrowthKeepsInv DEF MemTypeOK
  <1>5. CASE cleanup_armv2
    BY <1>5, cleanupInv DEF cleanup_armv2
  <1>6. QED
    BY <1>1, <1>2, <1>3, <1>4, <1>5 DEF MemNext

LEMMA MemStutter ==
    ASSUME MemInv, UNCHANGED memVars
    PROVE  MemInv'
  BY DEF MemInv, MemTypeOK, RamAccounted, MappingBacked, RamOf, memVars

\* The invariant holds in every reachable state of the memory (init.c, step.c).
THEOREM MemInvHolds == MemSpec => []MemInv
  <1>1. MemInv /\ [MemNext]_memVars => MemInv'
    BY MemStep, MemStutter
  <1>2. QED
    BY <1>1, MemInitInv, PTL DEF MemSpec

\* Every variable of the memory keeps its type, for every layout; above all
\* free_ram, an unsigned number in the code, never goes below zero.
THEOREM MemTypes == MemSpec => []MemTypeOK
  <1>1. MemInv => MemTypeOK
    BY DEF MemInv
  <1>2. QED
    BY <1>1, MemInvHolds, PTL

\* Every page of RAM is free or behind one populated page.
THEOREM RamIsAccounted == MemSpec => []RamAccounted
  <1>1. MemInv => RamAccounted
    BY DEF MemInv
  <1>2. QED
    BY <1>1, MemInvHolds, PTL

\* A device's region is made of pages that call that device.
THEOREM MappingIsBacked == MemSpec => []MappingBacked
  <1>1. MemInv => MappingBacked
    BY DEF MemInv
  <1>2. QED
    BY <1>1, MemInvHolds, PTL

\* A page that exists keeps its backing until cleanup_armv2.
THEOREM BackingNeverChanges == MemSpec => BackingIsStable
  <1> DEFINE Stable == stage' # "cleaned" =>
                 \A p \in Page : mem.page_tables[p] # "null" =>
                                    mem'.page_tables[p] = mem.page_tables[p]
  <1>1. MemInv /\ [MemNext]_memVars => [Stable]_memVars
    BY MemStep DEF Grows
  <1>2. QED
    BY <1>1, MemInvHolds, PTL DEF MemSpec, BackingIsStable

-----------------------------------------------------------------------------
(* Addresses.                                                              *)

LEMMA DivBound ==
    ASSUME NEW w \in Nat \ {0}, NEW n \in Nat, NEW a \in Nat, a < n * w
    PROVE  a \div w \in 0 .. n - 1
  <1> DEFINE q == a \div w
  <1>1. q \in Nat /\ w * q <= a
    OBVIOUS
  <1>2. ASSUME q >= n PROVE FALSE
    <2>1. PICK k \in Nat : q = n + k
      BY <1>1, <1>2
    <2>2. w * q = w * n + w * k
      BY <1>1, <2>1
    <2>3. w * k \in Nat /\ w * n = n * w
      OBVIOUS
    <2>4. QED
      BY <1>1, <2>2, <2>3
  <1>3. QED
    BY <1>1, <1>2

LEMMA PageOfType == \A a \in Addr : PageOf(a) \in Page
  <1> SUFFICES ASSUME NEW a \in Addr PROVE PageOf(a) \in Page
    OBVIOUS
  <1>1. NUM_PAGE_TABLES \in Nat /\ WordsPerPage \in Nat \ {0}
    BY MemoryAssumption, Armv2Assumption
  <1>2. a \in Nat /\ a < NUM_PAGE_TABLES * WordsPerPage
    BY <1>1 DEF Addr, NumAddr
  <1>3. QED
    BY <1>1, <1>2, DivBound DEF PageOf, Page

LEMMA NumAddrType == NumAddr \in Nat /\ NumAddr > 7
  BY MemoryAssumption, Armv2Assumption, VectorAssumption DEF NumAddr

\* The PC stays in the address space when it moves by a word.
LEMMA PcMoves == \A a \in Addr : Succ(a) \in Addr /\ Pred(a) \in Addr
  BY NumAddrType DEF Succ, Pred, Addr

LEMMA VectorsMapped == \A x \in DOMAIN Vector : Pred(Vector[x]) \in Addr
  BY NumAddrType DEF Vector, Pred, Addr

LEMMA ConstantTypes ==
    /\ DataAddr \subseteq Addr /\ PcValue \subseteq Addr /\ DebugPc \subseteq Addr
    /\ Breakable \subseteq Addr /\ Watchable \subseteq Addr
    /\ Budget \subseteq Nat \cup {-1}
    /\ MaxTransfer \in Nat
  BY Armv2Assumption

-----------------------------------------------------------------------------
(* What an instruction may do.                                             *)

Watching == \E k \in {"READ", "WRITE"} : watchpoints[k] # {}

\* The effect e comes from the effect b by the elementary updates of which
\* the handlers are made: it only adds pages, it raises WATCHPOINT only when
\* something is watched, and it starts neither a wait nor a stop.
Follows(b, e) ==
    /\ e \in Effect
    /\ Grows(b.mem, e.mem)
    /\ e.mapped = b.mapped
    /\ e.watch => b.watch \/ Watching
    /\ e.wait => b.wait
    /\ e.exception = "BREAKPOINT" => b.exception = "BREAKPOINT"

LEMMA FollowsSelf ==
    ASSUME NEW b \in Effect
    PROVE  Follows(b, b)
  <1>1. b.mem \in Mem
    BY DEF Effect
  <1>2. QED
    BY <1>1, GrowsReflexive DEF Follows

LEMMA FollowsTransitive ==
    ASSUME NEW b, NEW c, NEW e, Follows(b, c), Follows(c, e)
    PROVE  Follows(b, e)
  BY GrowsTransitive DEF Follows

LEMMA FollowsRaise ==
    ASSUME NEW b \in Effect, NEW ex \in Exception \ {"BREAKPOINT"}
    PROVE  Follows(b, Raise(b, ex))
  <1>1. Raise(b, ex) \in Effect
    BY DEF Raise, Effect
  <1>2. b.mem \in Mem
    BY DEF Effect
  <1>3. Grows(b.mem, Raise(b, ex).mem)
    BY <1>2, GrowsReflexive DEF Raise, Effect
  <1>4. QED
    BY <1>1, <1>3 DEF Follows, Raise, Effect

LEMMA FollowsMem ==
    ASSUME NEW b \in Effect, NEW m, Grows(b.mem, m)
    PROVE  Follows(b, [b EXCEPT !.mem = m])
  <1>1. m \in Mem
    BY DEF Grows
  <1>2. [b EXCEPT !.mem = m] \in Effect
    BY <1>1 DEF Effect
  <1>3. QED
    BY <1>2 DEF Follows, Effect

LEMMA FollowsMarks ==
    ASSUME NEW b \in Effect, NEW x \in BOOLEAN, NEW y \in BOOLEAN, x => Watching
    PROVE  Follows(b, [b EXCEPT !.watch = x, !.crash = y])
  <1>1. [b EXCEPT !.watch = x, !.crash = y] \in Effect
    BY DEF Effect
  <1>2. b.mem \in Mem
    BY DEF Effect
  <1>3. Grows(b.mem, [b EXCEPT !.watch = x, !.crash = y].mem)
    BY <1>2, GrowsReflexive DEF Effect
  <1>4. QED
    BY <1>1, <1>3 DEF Follows, Effect

LEMMA FollowsPc ==
    ASSUME NEW b \in Effect, NEW v \in Addr
    PROVE  Follows(b, [b EXCEPT !.pc = v])
  <1>1. [b EXCEPT !.pc = v] \in Effect
    BY DEF Effect
  <1>2. b.mem \in Mem
    BY DEF Effect
  <1>3. Grows(b.mem, [b EXCEPT !.pc = v].mem)
    BY <1>2, GrowsReflexive DEF Effect
  <1>4. QED
    BY <1>1, <1>3 DEF Follows, Effect

LEMMA FollowsPsr ==
    ASSUME NEW b \in Effect, NEW w \in Psr
    PROVE  Follows(b, [b EXCEPT !.r15 = w])
  <1>1. [b EXCEPT !.r15 = w] \in Effect
    BY DEF Effect
  <1>2. b.mem \in Mem
    BY DEF Effect
  <1>3. Grows(b.mem, [b EXCEPT !.r15 = w].mem)
    BY <1>2, GrowsReflexive DEF Effect
  <1>4. QED
    BY <1>1, <1>3 DEF Follows, Effect

LEMMA FollowsSetPc ==
    ASSUME NEW b \in Effect, NEW e \in SetPc(b)
    PROVE  Follows(b, e)
  <1>1. PICK v \in PcValue : e = [b EXCEPT !.pc = Pred(v)]
    BY DEF SetPc
  <1>2. Pred(v) \in Addr
    BY ConstantTypes, PcMoves
  <1>3. QED
    BY <1>1, <1>2, FollowsPc

LEMMA FollowsSetR15 ==
    ASSUME NEW b \in Effect, NEW e \in SetR15(b)
    PROVE  Follows(b, e)
  <1>1. PICK w \in IF User(b) THEN {b.r15} ELSE Psr : e \in SetPc([b EXCEPT !.r15 = w])
    BY DEF SetR15
  <1>2. b.r15 \in Psr
    BY DEF Effect
  <1>3. w \in Psr
    BY <1>2
  <1> DEFINE c == [b EXCEPT !.r15 = w]
  <1>4. Follows(b, c)
    BY <1>3, FollowsPsr
  <1> HIDE DEF c
  <1>5. c \in Effect
    BY <1>4 DEF Follows
  <1>6. e \in SetPc(c)
    BY <1>1 DEF c
  <1>7. QED
    BY <1>4, <1>5, <1>6, FollowsSetPc, FollowsTransitive

-----------------------------------------------------------------------------
(* Loads and stores.                                                       *)

LEMMA FollowsWatch ==
    ASSUME NEW b \in Effect, NEW type \in {"READ", "WRITE"}, NEW words
    PROVE  Follows(b, Watch(b, type, words))
  <1> DEFINE x == words \cap watchpoints[type] # {}
             y == words # {} /\ type \notin masks
  <1>1. x \in BOOLEAN /\ y \in BOOLEAN /\ (x => Watching)
    BY DEF Watching
  <1>2. Watch(b, type, words) = [b EXCEPT !.watch = x, !.crash = y]
    BY DEF Watch
  <1> HIDE DEF x, y
  <1>3. QED
    BY <1>1, <1>2, FollowsMarks

LEMMA FollowsLoad ==
    ASSUME NEW b \in Effect, NEW t, Grows(b.mem, t.mem), NEW words
    PROVE  Follows(b, perform_load(b, t, words))
  <1> DEFINE c == [b EXCEPT !.mem = t.mem]
  <1>1. Follows(b, c)
    BY FollowsMem
  <1> HIDE DEF c
  <1>2. c \in Effect
    BY <1>1 DEF Follows
  <1>3. Follows(c, Watch(c, "READ", words))
    BY <1>2, FollowsWatch
  <1>4. perform_load(b, t, words) = Watch(c, "READ", words)
    BY DEF perform_load, c
  <1>5. QED
    BY <1>1, <1>3, <1>4, FollowsTransitive

LEMMA FollowsStore ==
    ASSUME NEW b \in Effect, NEW t, Grows(b.mem, t.mem), NEW words
    PROVE  Follows(b, perform_store(b, t, words))
  <1> DEFINE m == IF \E a \in words : PageOf(a) = 0 THEN stored(t.mem, 0) ELSE t.mem
             c == [b EXCEPT !.mem = m]
  <1>1. t.mem \in Mem /\ 0 \in Page
    BY MemoryAssumption DEF Grows, Page
  <1>2. Grows(b.mem, m)
    BY <1>1, StoredGrows, GrowsTransitive
  <1> HIDE DEF m
  <1>3. Follows(b, c)
    BY <1>2, FollowsMem
  <1> HIDE DEF c
  <1>4. c \in Effect
    BY <1>3 DEF Follows
  <1>5. Follows(c, Watch(c, "WRITE", words))
    BY <1>4, FollowsWatch
  <1>6. perform_store(b, t, words) = Watch(c, "WRITE", words)
    BY DEF perform_store, c, m
  <1>7. QED
    BY <1>3, <1>5, <1>6, FollowsTransitive

\* An abort after the page was touched.
LEMMA FollowsAbort ==
    ASSUME NEW b \in Effect, NEW t, Grows(b.mem, t.mem)
    PROVE  Follows(b, Raise([b EXCEPT !.mem = t.mem], "DATA_ABORT"))
  <1> DEFINE c == [b EXCEPT !.mem = t.mem]
  <1>1. Follows(b, c)
    BY FollowsMem
  <1> HIDE DEF c
  <1>2. c \in Effect
    BY <1>1 DEF Follows
  <1>3. Follows(c, Raise(c, "DATA_ABORT"))
    BY <1>2, FollowsRaise DEF Exception
  <1>4. QED
    BY <1>1, <1>3, FollowsTransitive DEF c

\* A transfer may be followed by a write to the PC.
LEMMA FollowsThenPc ==
    ASSUME NEW b, NEW c, Follows(b, c), NEW e \in {c} \cup SetPc(c) \cup SetR15(c)
    PROVE  Follows(b, e)
  <1>1. c \in Effect
    BY DEF Follows
  <1>2. CASE e = c
    BY <1>2
  <1>3. CASE e \in SetPc(c)
    BY <1>1, <1>3, FollowsSetPc, FollowsTransitive
  <1>4. CASE e \in SetR15(c)
    BY <1>1, <1>4, FollowsSetR15, FollowsTransitive
  <1>5. QED
    BY <1>2, <1>3, <1>4

LEMMA FollowsSingle ==
    ASSUME NEW b \in Effect, NEW e \in single_data_transfer_instruction(b)
    PROVE  Follows(b, e)
  <1>1. CASE e = Raise(b, "ADDRESS")
    BY <1>1, FollowsRaise DEF Exception
  <1>2. ASSUME NEW d \in DataAddr, NEW t \in touch(b.mem, PageOf(d)), e \in SingleTransfer(b, d, t)
        PROVE  Follows(b, e)
    <2> DEFINE load  == perform_load(b, t, {d})
               store == perform_store(b, t, {d})
    <2>1. b.mem \in Mem /\ PageOf(d) \in Page
      BY ConstantTypes, PageOfType DEF Effect
    <2>2. Grows(b.mem, t.mem)
      BY <2>1, TouchGrows
    <2>3. Follows(b, load) /\ Follows(b, store)
      BY <2>2, FollowsLoad, FollowsStore
    <2>4. \/ e = Raise([b EXCEPT !.mem = t.mem], "DATA_ABORT")
          \/ e \in {load} \cup SetPc(load)
          \/ e \in {store} \cup SetPc(store)
      BY <1>2, Zenon DEF SingleTransfer
    <2> HIDE DEF load, store
    <2>5. QED
      BY <2>2, <2>3, <2>4, FollowsAbort, FollowsThenPc
  <1>3. \/ e = Raise(b, "ADDRESS")
        \/ \E d \in DataAddr : \E t \in touch(b.mem, PageOf(d)) : e \in SingleTransfer(b, d, t)
    BY DEF single_data_transfer_instruction
  <1>4. QED
    BY <1>1, <1>2, <1>3

LEMMA TouchRangeGrows ==
    ASSUME NEW m \in Mem, NEW d \in Addr, NEW n \in Nat \ {0}, d + n - 1 < NumAddr,
           NEW t \in touchRange(m, d, n)
    PROVE  Grows(m, t.mem)
  <1> DEFINE last == d + n - 1
             one(u) == IF ~u.ok THEN {[mem |-> u.mem, words |-> {}, ok |-> FALSE]}
                       ELSE IF PageOf(last) = PageOf(d)
                       THEN {[mem |-> u.mem, words |-> d .. last, ok |-> TRUE]}
                       ELSE {[mem |-> w.mem, ok |-> w.ok,
                              words |-> IF w.ok THEN d .. last
                                        ELSE {a \in d .. last : PageOf(a) = PageOf(d)}]
                             : w \in touch(u.mem, PageOf(last))}
  <1>1. last \in Addr
    BY NumAddrType DEF Addr
  <1>2. PageOf(d) \in Page /\ PageOf(last) \in Page
    BY <1>1, PageOfType
  <1>3. t \in UNION {one(u) : u \in touch(m, PageOf(d))}
    BY Zenon DEF touchRange
  <1> HIDE DEF one
  <1>4. PICK u \in touch(m, PageOf(d)) : t \in one(u)
    BY <1>3
  <1> HIDE DEF last
  <1>5. Grows(m, u.mem)
    BY <1>2, TouchGrows
  <1>6. u.mem \in Mem
    BY <1>5 DEF Grows
  <1>7. t.mem = u.mem \/ \E w \in touch(u.mem, PageOf(last)) : t.mem = w.mem
    <2>1. CASE ~u.ok
      BY <1>4, <2>1 DEF one
    <2>2. CASE u.ok /\ PageOf(last) = PageOf(d)
      BY <1>4, <2>2 DEF one
    <2>3. CASE u.ok /\ PageOf(last) # PageOf(d)
      BY <1>4, <2>3 DEF one
    <2>4. QED
      BY <2>1, <2>2, <2>3
  <1>8. ASSUME NEW w \in touch(u.mem, PageOf(last)), t.mem = w.mem
        PROVE  Grows(m, t.mem)
    BY <1>2, <1>5, <1>6, <1>8, TouchGrows, GrowsTransitive
  <1>9. QED
    BY <1>5, <1>7, <1>8

LEMMA FollowsMultiTransfer ==
    ASSUME NEW b \in Effect, NEW t, Grows(b.mem, t.mem), NEW e \in MultiTransfer(b, t)
    PROVE  Follows(b, e)
  <1> DEFINE load  == perform_load(b, t, t.words)
             store == perform_store(b, t, t.words)
  <1>1. Follows(b, load) /\ Follows(b, store)
    BY FollowsLoad, FollowsStore
  <1>2. \/ e = Raise([b EXCEPT !.mem = t.mem], "DATA_ABORT")
        \/ e \in {load} \cup SetPc(load) \cup SetR15(load)
        \/ e = Raise(load, "DATA_ABORT")
        \/ e = store
        \/ e = Raise(store, "DATA_ABORT")
    BY Zenon DEF MultiTransfer
  <1> HIDE DEF load, store
  <1>3. load \in Effect /\ store \in Effect
    BY <1>1 DEF Follows
  <1>4. Follows(b, Raise(load, "DATA_ABORT")) /\ Follows(b, Raise(store, "DATA_ABORT"))
    BY <1>1, <1>3, FollowsRaise, FollowsTransitive DEF Exception
  <1>5. QED
    BY <1>1, <1>2, <1>4, FollowsAbort, FollowsThenPc

LEMMA FollowsOverrun ==
    ASSUME NEW b \in Effect, NEW t, Grows(b.mem, t.mem), NEW e \in Overrun(b, t)
    PROVE  Follows(b, e)
  <1> DEFINE c == [b EXCEPT !.mem = t.mem]
  <1>1. e = Raise(c, "DATA_ABORT") \/ e = [b EXCEPT !.mem = t.mem, !.crash = TRUE]
    BY DEF Overrun
  <1>2. Follows(b, c)
    BY FollowsMem
  <1>3. CASE e = [b EXCEPT !.mem = t.mem, !.crash = TRUE]
    <2>1. t.mem \in Mem
      BY DEF Grows
    <2>2. e \in Effect
      BY <1>3, <2>1 DEF Effect
    <2>3. QED
      BY <1>3, <2>2 DEF Follows, Effect
  <1>4. QED
    BY <1>1, <1>3, FollowsAbort

LEMMA FollowsMulti ==
    ASSUME NEW b \in Effect, NEW e \in multi_data_transfer_instruction(b)
    PROVE  Follows(b, e)
  <1>1. b.mem \in Mem
    BY DEF Effect
  <1>2. ASSUME NEW d \in DataAddr, NEW n \in 1 .. MaxTransfer, e \in TransferFrom(b, d, n)
        PROVE  Follows(b, e)
    <2>1. d \in Addr /\ n \in Nat \ {0} /\ PageOf(d) \in Page
      BY ConstantTypes, PageOfType
    <2>2. CASE d + n - 1 < NumAddr
      <3>1. PICK t \in touchRange(b.mem, d, n) : e \in MultiTransfer(b, t)
        BY <1>2, <2>2 DEF TransferFrom
      <3>2. QED
        BY <1>1, <2>1, <2>2, <3>1, TouchRangeGrows, FollowsMultiTransfer
    <2>3. CASE ~(d + n - 1 < NumAddr)
      <3>1. PICK t \in touch(b.mem, PageOf(d)) : e \in Overrun(b, t)
        BY <1>2, <2>3 DEF TransferFrom
      <3>2. QED
        BY <1>1, <2>1, <3>1, TouchGrows, FollowsOverrun
    <2>4. QED
      BY <2>2, <2>3
  <1>3. \/ e = b \/ e = Raise(b, "ADDRESS")
        \/ \E d \in DataAddr, n \in 1 .. MaxTransfer : e \in TransferFrom(b, d, n)
    BY DEF multi_data_transfer_instruction
  <1>4. QED
    BY <1>2, <1>3, FollowsSelf, FollowsRaise DEF Exception

LEMMA FollowsSwap ==
    ASSUME NEW b \in Effect, NEW e \in swap_instruction(b)
    PROVE  Follows(b, e)
  <1>1. CASE e = Raise(b, "ADDRESS")
    BY <1>1, FollowsRaise DEF Exception
  <1>2. ASSUME NEW d \in DataAddr, NEW t \in touch(b.mem, PageOf(d)), e \in Swap(b, d, t)
        PROVE  Follows(b, e)
    <2> DEFINE m == IF PageOf(d) = 0 THEN stored(t.mem, 0) ELSE t.mem
               x == d \in watchpoints["READ"] \cup watchpoints["WRITE"]
               y == \/ "WRITE" \notin masks
                    \/ d \notin watchpoints["WRITE"] /\ "READ" \notin masks
               c == [b EXCEPT !.mem = m]
               swp == [b EXCEPT !.mem = m, !.watch = x, !.crash = y]
    <2>1. b.mem \in Mem /\ PageOf(d) \in Page
      BY ConstantTypes, PageOfType DEF Effect
    <2>2. Grows(b.mem, t.mem) /\ t.mem \in Mem
      BY <2>1, TouchGrows DEF Grows
    <2>3. Grows(b.mem, m)
      BY <2>1, <2>2, StoredGrows, GrowsTransitive
    <2>4. x \in BOOLEAN /\ y \in BOOLEAN /\ (x => Watching)
      BY DEF Watching
    <2>5. \/ e = Raise([b EXCEPT !.mem = t.mem], "DATA_ABORT")
          \/ e \in {swp} \cup SetPc(swp)
          \/ e = [swp EXCEPT !.crash = TRUE]
      BY <1>2, Zenon DEF Swap
    <2> HIDE DEF m, x, y
    <2>6. Follows(b, c)
      BY <2>3, FollowsMem
    <2>7. c \in Effect
      BY <2>6 DEF Follows
    <2>8. swp = [c EXCEPT !.watch = x, !.crash = y]
          /\ [swp EXCEPT !.crash = TRUE] = [c EXCEPT !.watch = x, !.crash = TRUE]
      BY DEF Effect
    <2> HIDE DEF c, swp
    <2>9. Follows(b, swp) /\ Follows(b, [swp EXCEPT !.crash = TRUE])
      BY <2>4, <2>6, <2>7, <2>8, FollowsMarks, FollowsTransitive
    <2>10. QED
      BY <2>2, <2>5, <2>9, FollowsAbort, FollowsThenPc
  <1>3. \/ e = Raise(b, "ADDRESS")
        \/ \E d \in DataAddr : \E t \in touch(b.mem, PageOf(d)) : e \in Swap(b, d, t)
    BY DEF swap_instruction
  <1>4. QED
    BY <1>1, <1>2, <1>3

LEMMA FollowsTransfer ==
    ASSUME NEW b \in Effect, NEW e \in hw_manager_register_transfer(b)
    PROVE  Follows(b, e)
  <1>1. CASE e = b
    BY <1>1, FollowsSelf
  <1>2. ASSUME NEW w \in Psr, e = [b EXCEPT !.r15 = [w EXCEPT !.mode = OrMode(b.r15.mode, w.mode)]]
        PROVE  Follows(b, e)
    <2> DEFINE v == [w EXCEPT !.mode = OrMode(b.r15.mode, w.mode)]
    <2>1. b.r15.mode \in Mode /\ w.mode \in Mode
      BY DEF Effect, Psr
    <2>2. OrMode(b.r15.mode, w.mode) \in Mode
      BY <2>1 DEF OrMode, Mode
    <2>3. v \in Psr
      BY <2>2 DEF Psr
    <2> HIDE DEF v
    <2>4. e = [b EXCEPT !.r15 = v]
      BY <1>2 DEF v
    <2>5. QED
      BY <2>3, <2>4, FollowsPsr
  <1>3. QED
    BY <1>1, <1>2 DEF hw_manager_register_transfer

-----------------------------------------------------------------------------
(* What every outcome of every instruction satisfies.                      *)

\* Only MAP_MEMORY changes a region, only WAIT_FOR_INTERRUPT starts a wait,
\* which it does with interrupts enabled and nothing else, and only SWI
\* returns a breakpoint, without a change of mode.
Sound(b, e) ==
    /\ e \in Effect
    /\ Grows(b.mem, e.mem)
    /\ Backed(b.mem, b.mapped) => Backed(e.mem, e.mapped)
    /\ e.watch => Watching
    /\ e.wait => /\ e.r15 = b.r15
                 /\ ~e.r15.I
                 /\ ~e.r15.F
                 /\ e.exception = "NONE"
                 /\ ~e.watch
    /\ e.exception = "BREAKPOINT" => e.r15 = b.r15 /\ e.pc = b.pc /\ ~e.watch

LEMMA FollowsSound ==
    ASSUME NEW b \in Effect, NEW e, Follows(b, e),
           ~b.watch, ~b.wait, b.exception # "BREAKPOINT"
    PROVE  Sound(b, e)
  <1>1. b.mapped \in [Device -> Region]
    BY DEF Effect
  <1>2. Backed(b.mem, b.mapped) => Backed(e.mem, e.mapped)
    BY <1>1, GrowsBacked DEF Follows
  <1>3. QED
    BY <1>2 DEF Follows, Sound

LEMMA MapOperationSound ==
    ASSUME hardware_devices \in Seq(Device),
           NEW b \in Effect, ~b.watch, ~b.wait, b.exception # "BREAKPOINT",
           NEW n, NEW s \in Page, NEW e \in Page, NEW c \in MapOperation(b, n, s, e)
    PROVE  Sound(b, c)
  <1>1. PICK o \in map_memory(b.mem, b.mapped, n, s, e) :
          c = [b EXCEPT !.mem = o.mem, !.mapped = o.mapped]
    BY DEF MapOperation
  <1>2. b.mem \in Mem /\ b.mapped \in [Device -> Region]
    BY DEF Effect
  <1>3. /\ Grows(b.mem, o.mem)
        /\ o.mapped \in [Device -> Region]
        /\ Backed(b.mem, b.mapped) => Backed(o.mem, o.mapped)
    BY <1>2, MapMemory
  <1>4. o.mem \in Mem
    BY <1>3 DEF Grows
  <1>5. c \in Effect
    BY <1>1, <1>3, <1>4 DEF Effect
  <1>6. /\ c.mem = o.mem /\ c.mapped = o.mapped /\ c.watch = b.watch /\ c.wait = b.wait
        /\ c.exception = b.exception
    BY <1>1 DEF Effect
  <1>7. QED
    BY <1>3, <1>5, <1>6 DEF Sound

LEMMA WaitSound ==
    ASSUME NEW b \in Effect, ~b.watch, ~b.wait, b.exception = "NONE",
           NEW e, e = [b EXCEPT !.wait = ~b.r15.I /\ ~b.r15.F]
    PROVE  Sound(b, e)
  <1> DEFINE x == ~b.r15.I /\ ~b.r15.F
  <1>1. x \in BOOLEAN /\ e = [b EXCEPT !.wait = x]
    OBVIOUS
  <1> HIDE DEF x
  <1>2. e \in Effect
    BY <1>1 DEF Effect
  <1>3. /\ e.mem = b.mem /\ e.mapped = b.mapped /\ e.r15 = b.r15 /\ e.watch = b.watch
        /\ e.exception = b.exception /\ e.wait = x
    BY <1>1 DEF Effect
  <1>4. b.mem \in Mem
    BY DEF Effect
  <1>5. Grows(b.mem, e.mem)
    BY <1>3, <1>4, GrowsReflexive
  <1>6. QED
    BY <1>2, <1>3, <1>5 DEF Sound, x

LEMMA StopSound ==
    ASSUME NEW b \in Effect, ~b.watch, ~b.wait
    PROVE  Sound(b, Raise(b, "BREAKPOINT"))
  <1> DEFINE e == Raise(b, "BREAKPOINT")
  <1>1. e \in Effect
    BY DEF Raise, Effect, Exception
  <1>2. /\ e.mem = b.mem /\ e.mapped = b.mapped /\ e.r15 = b.r15 /\ e.watch = b.watch
        /\ e.wait = b.wait /\ e.pc = b.pc
    BY DEF Raise, Effect
  <1>3. b.mem \in Mem
    BY DEF Effect
  <1> HIDE DEF e
  <1>4. Grows(b.mem, e.mem)
    BY <1>2, <1>3, GrowsReflexive
  <1>5. QED
    BY <1>1, <1>2, <1>4 DEF Sound, e

LEMMA OutcomesSound ==
    ASSUME hardware_devices \in Seq(Device),
           NEW b \in Effect, ~b.watch, ~b.wait, b.exception = "NONE",
           NEW e \in Outcomes(b)
    PROVE  Sound(b, e)
  <1>1. ASSUME Follows(b, e) PROVE Sound(b, e)
    BY <1>1, FollowsSound
  <1>2. CASE e \in alu_instruction(b)
    BY <1>1, <1>2, FollowsSelf, FollowsThenPc DEF alu_instruction
  <1>3. CASE e \in multiply_instruction(b) \cup coprocessor_data_transfer_instruction(b)
    BY <1>1, <1>3, FollowsSelf DEF multiply_instruction, coprocessor_data_transfer_instruction
  <1>4. CASE e \in branch_instruction(b)
    BY <1>1, <1>4, FollowsSetPc DEF branch_instruction
  <1>5. CASE e \in single_data_transfer_instruction(b)
    BY <1>1, <1>5, FollowsSingle
  <1>6. CASE e \in multi_data_transfer_instruction(b)
    BY <1>1, <1>6, FollowsMulti
  <1>7. CASE e \in swap_instruction(b)
    BY <1>1, <1>7, FollowsSwap
  <1>8. CASE e \in software_interrupt_instruction(b)
    <2>1. e = Raise(b, "SOFTWARE_INTERRUPT") \/ e = Raise(b, "BREAKPOINT")
      BY <1>8 DEF software_interrupt_instruction
    <2>2. QED
      BY <1>1, <2>1, FollowsRaise, StopSound DEF Exception
  <1>9. CASE e \in hw_manager_register_transfer(b)
    BY <1>1, <1>9, FollowsTransfer
  <1>10. CASE e \in hw_manager_data_operation(b)
    <2>1. \/ e = b
          \/ e = [b EXCEPT !.wait = ~b.r15.I /\ ~b.r15.F]
          \/ \E n \in 1 .. Len(hardware_devices), s, t \in Page : e \in MapOperation(b, n, s, t)
      BY <1>10 DEF hw_manager_data_operation
    <2>2. QED
      BY <1>1, <2>1, FollowsSelf, WaitSound, MapOperationSound
  <1>11. QED
    BY <1>2, <1>3, <1>4, <1>5, <1>6, <1>7, <1>8, <1>9, <1>10, Zenon DEF Outcomes

LEMMA BeforeSound ==
    ASSUME TypeOK, MemTypeOK, NEW m \in Mem
    PROVE  /\ Before(m) \in Effect
           /\ ~Before(m).watch /\ ~Before(m).wait
           /\ Before(m).exception = "NONE"
           /\ Before(m).r15 = r15 /\ Before(m).pc = Succ(pc)
           /\ Before(m).mem = m
           /\ Before(m).mapped = mapped
  <1>1. r15 \in Psr /\ Succ(pc) \in Addr /\ mapped \in [Device -> Region]
    BY PcMoves DEF TypeOK, MemTypeOK
  <1>2. QED
    BY <1>1 DEF Before, Effect, Exception

-----------------------------------------------------------------------------
(* Register banks.                                                         *)

LEMMA BankType == \A m \in Mode : Bank(m) \in [Reg -> Physical]
  BY DEF Bank, Reg, Physical, Mode, USR, FIQ, IRQ, SUP

LEMMA RebankType ==
    ASSUME NEW eff \in [Reg -> Physical], NEW old \in Mode, NEW new \in Mode
    PROVE  rebank(eff, old, new) \in [Reg -> Physical]
  <1>1. \A i \in Reg : Bank(new)[i] \in Physical /\ i \in Physical /\ eff[i] \in Physical
    BY BankType DEF Reg, Physical
  <1>2. QED
    BY <1>1 DEF rebank

-----------------------------------------------------------------------------
(* A turn of the loop that gets to handle_exception.                       *)

CpuInv == TypeOK /\ MemInv /\ stage # "cleaned"

\* What such a turn does: an exception ex, or none, after an effect e that
\* started from the memory m in which the instruction's page was touched.
Handled(m, ex, e) ==
    /\ m \in Mem
    /\ Grows(mem, m)
    /\ ex \in Exception
    /\ Sound(Before(m), e)
    /\ FetchTurn
    /\ handle_exception(ex, e)
    /\ ex = "BREAKPOINT" =>
          \/ e.r15 = r15 /\ e.pc = Succ(pc)
          \/ Watching
          \/ "WATCHPOINT" \in flags
    /\ UNCHANGED <<pins, dbgVars, intrVars, hardware_devices, stage>>
    /\ flags' \in SUBSET {"WAIT", "WATCHPOINT"}
    /\ "WATCHPOINT" \in flags' =>
          /\ Watching \/ "WATCHPOINT" \in flags
          /\ \/ "WATCHPOINT" \in flags /\ e.r15 = r15
             \/ ex \notin {"NONE", "BREAKPOINT"}
    /\ "WAIT" \in flags' =>
          \/ "WAIT" \in flags
          \/ /\ e.r15 = r15 /\ ~r15.I /\ ~r15.F
             /\ ex = "NONE" \/ "WATCHPOINT" \in flags

LEMMA FetchGrows ==
    ASSUME CpuInv, NEW t \in touch(mem, PageOf(Succ(pc)))
    PROVE  Grows(mem, t.mem) /\ t.mem \in Mem
  <1>1. mem \in Mem /\ PageOf(Succ(pc)) \in Page
    BY PageOfType, PcMoves DEF CpuInv, TypeOK, MemInv, MemTypeOK
  <1>2. QED
    BY <1>1, TouchGrows DEF Grows

LEMMA BeforeIsSound ==
    ASSUME CpuInv, NEW m \in Mem
    PROVE  Sound(Before(m), Before(m))
  <1>1. /\ Before(m) \in Effect /\ ~Before(m).watch /\ ~Before(m).wait
        /\ Before(m).exception = "NONE"
    BY BeforeSound DEF CpuInv, MemInv
  <1>2. QED
    BY <1>1, FollowsSelf, FollowsSound

LEMMA PrefetchAbortHandled ==
    ASSUME CpuInv, PrefetchAbort
    PROVE  \E m, ex, e : Handled(m, ex, e)
  <1>1. PICK t \in touch(mem, PageOf(Succ(pc))) : handle_exception("PREFETCH_ABORT", Before(t.mem))
    BY DEF PrefetchAbort
  <1>2. Grows(mem, t.mem) /\ t.mem \in Mem
    BY FetchGrows
  <1>3. /\ Sound(Before(t.mem), Before(t.mem))
        /\ Before(t.mem).r15 = r15 /\ Before(t.mem).pc = Succ(pc)
    BY <1>2, BeforeIsSound, BeforeSound DEF CpuInv, MemInv
  <1>4. FetchTurn /\ UNCHANGED <<pins, flags, dbgVars, intrVars, hardware_devices, stage>>
    BY DEF PrefetchAbort
  <1>5. flags \in SUBSET {"WAIT", "WATCHPOINT"}
    BY DEF CpuInv, TypeOK
  <1>6. Handled(t.mem, "PREFETCH_ABORT", Before(t.mem))
    BY <1>1, <1>2, <1>3, <1>4, <1>5 DEF Handled, Exception
  <1>7. QED
    BY <1>6

LEMMA HitBreakpointHandled ==
    ASSUME CpuInv, HitBreakpoint
    PROVE  \E m, ex, e : Handled(m, ex, e)
  <1>1. PICK t \in touch(mem, PageOf(Succ(pc))) : handle_exception("BREAKPOINT", Before(t.mem))
    BY DEF HitBreakpoint
  <1>2. Grows(mem, t.mem) /\ t.mem \in Mem
    BY FetchGrows
  <1>3. /\ Sound(Before(t.mem), Before(t.mem))
        /\ Before(t.mem).r15 = r15 /\ Before(t.mem).pc = Succ(pc)
    BY <1>2, BeforeIsSound, BeforeSound DEF CpuInv, MemInv
  <1>4. FetchTurn /\ UNCHANGED <<pins, flags, dbgVars, intrVars, hardware_devices, stage>>
    BY DEF HitBreakpoint
  <1>5. flags \in SUBSET {"WAIT", "WATCHPOINT"}
    BY DEF CpuInv, TypeOK
  <1>6. Handled(t.mem, "BREAKPOINT", Before(t.mem))
    BY <1>1, <1>2, <1>3, <1>4, <1>5 DEF Handled, Exception
  <1>7. QED
    BY <1>6

LEMMA ExecuteHandled ==
    ASSUME CpuInv, ExecuteInstruction
    PROVE  \E m, ex, e : Handled(m, ex, e)
  <1>1. PICK t \in touch(mem, PageOf(Succ(pc))) :
          \E e \in Outcomes(Before(t.mem)) : ~e.crash /\ AfterHandler(e)
    BY DEF ExecuteInstruction
  <1>2. PICK e \in Outcomes(Before(t.mem)) : AfterHandler(e)
    BY <1>1
  <1> DEFINE b == Before(t.mem)
             watching == "WATCHPOINT" \in flags \/ e.watch
             trapped  == watching /\ e.exception = "NONE"
             ex == IF trapped THEN "BREAKPOINT" ELSE e.exception
  <1>3. Grows(mem, t.mem) /\ t.mem \in Mem
    BY FetchGrows
  <1>4. /\ b \in Effect /\ ~b.watch /\ ~b.wait /\ b.exception = "NONE" /\ b.r15 = r15
        /\ b.pc = Succ(pc)
    BY <1>3, BeforeSound DEF CpuInv, MemInv
  <1>5. hardware_devices \in Seq(Device)
    BY DEF CpuInv, MemInv, MemTypeOK
  <1>6. e \in Outcomes(b)
    OBVIOUS
  <1> HIDE DEF b
  <1>7. Sound(b, e)
    BY <1>4, <1>5, <1>6, OutcomesSound
  <1>8. FetchTurn /\ UNCHANGED <<pins, dbgVars, intrVars, hardware_devices, stage>>
    BY DEF ExecuteInstruction
  <1>9. /\ handle_exception(ex, e)
        /\ flags' = (flags \ {"WATCHPOINT"})
                    \cup (IF watching /\ ~trapped THEN {"WATCHPOINT"} ELSE {})
                    \cup (IF e.wait THEN {"WAIT"} ELSE {})
    BY <1>2, Zenon DEF AfterHandler
  <1>10. e.exception \in Exception /\ ex \in Exception
    BY <1>7 DEF Sound, Effect, Exception
  <1>11. flags \in SUBSET {"WAIT", "WATCHPOINT"}
    BY DEF CpuInv, TypeOK
  <1>12. flags' \in SUBSET {"WAIT", "WATCHPOINT"}
    BY <1>9, <1>11
  <1>13. ex = "BREAKPOINT" =>
            \/ e.r15 = r15 /\ e.pc = Succ(pc)
            \/ Watching
            \/ "WATCHPOINT" \in flags
    BY <1>4, <1>7 DEF Sound
  <1>14. "WATCHPOINT" \in flags' => watching /\ ~trapped
    BY <1>9
  <1>15. "WAIT" \in flags' => "WAIT" \in flags \/ e.wait
    BY <1>9
  <1>16. watching /\ ~trapped =>
            /\ Watching \/ "WATCHPOINT" \in flags
            /\ \/ "WATCHPOINT" \in flags /\ e.r15 = r15
               \/ ex \notin {"NONE", "BREAKPOINT"}
    BY <1>4, <1>7 DEF Sound
  <1>17. e.wait => /\ e.r15 = r15 /\ ~r15.I /\ ~r15.F
                   /\ ex = "NONE" \/ "WATCHPOINT" \in flags
    BY <1>4, <1>7 DEF Sound
  <1> HIDE DEF ex, watching, trapped
  <1>18. Handled(t.mem, ex, e)
    BY <1>3, <1>7, <1>8, <1>9, <1>10, <1>12, <1>13, <1>14, <1>15, <1>16, <1>17 DEF Handled, b
  <1>19. QED
    BY <1>18

-----------------------------------------------------------------------------
(* Types and memory.                                                       *)

\* A step that leaves the memory alone keeps the memory's invariant.
LEMMA MemKept ==
    ASSUME MemInv, stage # "cleaned", UNCHANGED memVars
    PROVE  MemInv' /\ stage' # "cleaned"
  BY MemStutter DEF memVars

LEMMA TurnType ==
    ASSUME TypeOK, Turn
    PROVE  instructions' \in Nat \cup {-1} /\ status = "RUNNING"
  BY DEF TypeOK, Turn

\* A step in which the memory grows keeps the memory's invariant.
LEMMA GrowthKeepsMem ==
    ASSUME CpuInv, Grows(mem, mem'), mapped' \in [Device -> Region],
           Backed(mem, mapped) => Backed(mem', mapped'),
           UNCHANGED <<hardware_devices, stage>>
    PROVE  MemInv' /\ stage' # "cleaned"
  BY GrowthKeepsInv DEF CpuInv, MemInv, MemTypeOK

LEMMA HandledMem ==
    ASSUME CpuInv, NEW m, NEW ex, NEW e, Handled(m, ex, e)
    PROVE  MemInv' /\ stage' # "cleaned"
  <1>1. Sound(Before(m), e) /\ Before(m).mem = m /\ Before(m).mapped = mapped /\ Grows(mem, m)
    BY BeforeSound DEF Handled, CpuInv, MemInv
  <1>2. mem' = e.mem /\ mapped' = e.mapped
    BY DEF Handled, handle_exception
  <1>3. Grows(mem, mem')
    BY <1>1, <1>2, GrowsTransitive DEF Sound
  <1>4. mapped' \in [Device -> Region] /\ mapped \in [Device -> Region]
    BY <1>1, <1>2 DEF Sound, Effect, CpuInv, MemInv, MemTypeOK
  <1>5. Backed(mem, mapped) => Backed(m, mapped)
    BY <1>1, <1>4, GrowsBacked
  <1>6. Backed(mem, mapped) => Backed(mem', mapped')
    BY <1>1, <1>2, <1>5 DEF Sound
  <1>7. QED
    BY <1>3, <1>4, <1>6, GrowthKeepsMem DEF Handled

LEMMA HandledType ==
    ASSUME CpuInv, NEW m, NEW ex, NEW e, Handled(m, ex, e)
    PROVE  TypeOK'
  <1> DEFINE stop == ex = "BREAKPOINT" /\ instructions' # -1
             exc  == IF ex = "BREAKPOINT" THEN "SOFTWARE_INTERRUPT" ELSE ex
             w    == IF ex = "NONE" \/ stop THEN e.r15
                     ELSE [mode |-> SUP, I |-> TRUE, F |-> FALSE]
  <1>1. /\ r15' = w
        /\ pc' = IF ex = "NONE" THEN e.pc
                 ELSE IF stop THEN Pred(e.pc) ELSE Pred(Vector[exc])
        /\ status' = IF stop THEN "BREAKPOINT" ELSE status
        /\ effective' = IF stop \/ w.mode = r15.mode THEN effective
                        ELSE rebank(effective, r15.mode, w.mode)
        /\ service' = ServiceAfter(w)
    BY Zenon DEF Handled, handle_exception
  <1>2. e.r15 \in Psr /\ e.pc \in Addr /\ ex \in Exception
    BY DEF Handled, Sound, Effect
  <1>3. w \in Psr /\ w.mode \in Mode
    BY <1>2 DEF Psr, Mode
  <1>4. ex # "NONE" => exc \in DOMAIN Vector
    BY <1>2 DEF Exception, Vector
  <1> HIDE DEF stop, exc, w
  <1>5. pc' \in Addr
    BY <1>1, <1>2, <1>4, PcMoves, VectorsMapped
  <1>6. r15 \in Psr /\ r15.mode \in Mode /\ effective \in [Reg -> Physical]
    BY DEF CpuInv, TypeOK, Psr
  <1>7. effective' \in [Reg -> Physical]
    BY <1>1, <1>3, <1>6, RebankType
  <1>8. status' \in Status /\ service' \in Source \cup {"none"}
    BY <1>1 DEF CpuInv, TypeOK, Status, ServiceAfter
  <1>9. instructions' \in Nat \cup {-1}
    BY TurnType DEF Handled, FetchTurn, CpuInv
  <1>10. r15' \in Psr
    BY <1>1, <1>3
  <1>11. QED
    BY <1>5, <1>7, <1>8, <1>9, <1>10 DEF Handled, CpuInv, TypeOK, dbgVars, intrVars

LEMMA CpuStepInv ==
    ASSUME CpuInv, CpuStep
    PROVE  CpuInv'
  <1> USE DEF CpuInv
  <1>1. CASE ReturnOk
    BY <1>1, MemKept DEF ReturnOk, TypeOK, Status, dbgVars, intrVars
  <1>2. CASE ReturnWait
    BY <1>2, MemKept DEF ReturnWait, TypeOK, Status, dbgVars, intrVars
  <1>3. CASE TakeFiq
    <2>1. UNCHANGED memVars
      BY <1>3 DEF TakeFiq
    <2>2. r15' \in Psr /\ pc' \in Addr /\ instructions' \in Nat \cup {-1}
      BY <1>3, TurnType, VectorsMapped DEF TakeFiq, Psr, Mode, Vector
    <2>3. effective' \in [Reg -> Physical]
      <3>1. \A i \in 8 .. 14 : 20 + (i - 8) \in Physical
        BY DEF Physical
      <3>2. QED
        BY <1>3, <3>1 DEF TakeFiq, TypeOK
    <2>4. QED
      BY <1>3, <2>1, <2>2, <2>3, MemKept DEF TakeFiq, TypeOK, dbgVars, intrVars
  <1>4. CASE TakeIrq
    <2>1. UNCHANGED memVars
      BY <1>4 DEF TakeIrq
    <2>2. r15' \in Psr
      BY <1>4 DEF TakeIrq, TypeOK, Psr, Mode
    <2>3. instructions' \in Nat \cup {-1} /\ status' \in Status
      BY <1>4, TurnType DEF TakeIrq, Status
    <2>4. pins' \in SUBSET {"I", "F"} /\ service' \in Source \cup {"none"}
      BY <1>4 DEF TakeIrq, TypeOK
    <2>5. QED
      BY <1>4, <2>1, <2>2, <2>3, <2>4, MemKept DEF TakeIrq, TypeOK, dbgVars, intrVars
  <1>5. CASE MaskIrq
    <2>1. UNCHANGED memVars
      BY <1>5 DEF MaskIrq
    <2>2. r15' \in Psr
      BY <1>5 DEF MaskIrq, TypeOK, Psr
    <2>3. effective' \in [Reg -> Physical]
      <3>1. \A i \in 13 .. 14 : 18 + (i - 13) \in Physical
        BY DEF Physical
      <3>2. \A i \in 8 .. 12 : i \in Physical
        BY DEF Physical
      <3>3. QED
        BY <1>5, <3>1, <3>2 DEF MaskIrq, TypeOK
    <2>4. pc' \in Addr /\ status' \in Status /\ flags' \in SUBSET {"WAIT", "WATCHPOINT"}
      BY <1>5, VectorsMapped DEF MaskIrq, TypeOK, Vector, Status
    <2>5. QED
      BY <1>5, <2>1, <2>2, <2>3, <2>4, MemKept DEF MaskIrq, TypeOK, dbgVars, intrVars
  <1>6. CASE PrefetchAbort \/ HitBreakpoint \/ ExecuteInstruction
    BY <1>6, PrefetchAbortHandled, HitBreakpointHandled, ExecuteHandled, HandledType, HandledMem
  <1>7. CASE SkipInstruction
    <2>1. PICK t \in touch(mem, PageOf(Succ(pc))) : mem' = t.mem
      BY <1>7 DEF SkipInstruction
    <2>2. Grows(mem, mem')
      BY <2>1, FetchGrows
    <2>3. mapped \in [Device -> Region] /\ UNCHANGED <<mapped, hardware_devices, stage>>
      BY <1>7 DEF SkipInstruction, MemInv, MemTypeOK
    <2>4. MemInv' /\ stage' # "cleaned"
      BY <2>2, <2>3, GrowsBacked, GrowthKeepsMem
    <2>5. pc' \in Addr /\ instructions' \in Nat \cup {-1}
      BY <1>7, PcMoves, TurnType DEF SkipInstruction, FetchTurn, TypeOK
    <2>6. QED
      BY <1>7, <2>4, <2>5 DEF SkipInstruction, TypeOK, dbgVars, intrVars
  <1>8. CASE FetchCrash \/ ExecuteCrash
    <2>1. Crash /\ Turn
      BY <1>8 DEF FetchCrash, ExecuteCrash, FetchTurn
    <2>2. instructions' \in Nat \cup {-1}
      BY <2>1, TurnType
    <2>3. QED
      BY <2>1, <2>2, MemKept DEF Crash, TypeOK, Status, dbgVars, intrVars
  <1>9. QED
    BY <1>1, <1>2, <1>3, <1>4, <1>5, <1>6, <1>7, <1>8 DEF CpuStep

LEMMA HostStepInv ==
    ASSUME CpuInv,
           \/ \E n \in Budget : run_armv2(n)
           \/ \E s \in Source : InterruptCheck(s)
           \/ InterruptSet
           \/ AssertFiq
           \/ Debugger
    PROVE  CpuInv'
  <1> USE DEF CpuInv
  <1>1. ASSUME NEW n \in Budget, run_armv2(n) PROVE CpuInv'
    BY <1>1, MemKept, ConstantTypes DEF run_armv2, TypeOK, Status, dbgVars, intrVars
  <1>2. ASSUME NEW s \in Source, InterruptCheck(s) PROVE CpuInv'
    BY <1>2, MemKept DEF InterruptCheck, TypeOK, cpuVars, dbgVars
  <1>3. CASE InterruptSet
    BY <1>3, MemKept DEF InterruptSet, TypeOK, dbgVars
  <1>4. CASE AssertFiq
    BY <1>4, MemKept DEF AssertFiq, TypeOK, dbgVars, intrVars
  <1>5. ASSUME NEW a \in Breakable, set_breakpoint(a) \/ unset_breakpoint(a) PROVE CpuInv'
    BY <1>5, MemKept, ConstantTypes DEF set_breakpoint, unset_breakpoint, TypeOK, cpuVars, intrVars
  <1>6. ASSUME NEW types, NEW new \in [{"READ", "WRITE"} -> SUBSET Addr],
               ChangeWatchpoints(types, new)
        PROVE  CpuInv'
    <2>1. CASE types \subseteq masks
      <3>1. watchpoints' \in [{"READ", "WRITE"} -> SUBSET Addr]
        BY <1>6, <2>1 DEF ChangeWatchpoints, TypeOK
      <3>2. UNCHANGED <<cpuVars, breakpoints, masks, intrVars, memVars>>
        BY <1>6, <2>1 DEF ChangeWatchpoints
      <3>3. QED
        BY <3>1, <3>2, MemKept DEF TypeOK, cpuVars, intrVars
    <2>2. CASE ~(types \subseteq masks)
      BY <1>6, <2>2, MemKept DEF ChangeWatchpoints, Crash, TypeOK, Status, dbgVars, intrVars
    <2>3. QED
      BY <2>1, <2>2
  <1>7. ASSUME NEW a \in Watchable, NEW types \in WatchTypes,
               set_watchpoint(types, a) \/ unset_watchpoint(types, a)
        PROVE  CpuInv'
    <2>1. a \in Addr /\ watchpoints \in [{"READ", "WRITE"} -> SUBSET Addr]
      BY ConstantTypes DEF TypeOK
    <2>2. /\ [k \in {"READ", "WRITE"} |-> watchpoints[k] \cup {a}]
                \in [{"READ", "WRITE"} -> SUBSET Addr]
          /\ [k \in {"READ", "WRITE"} |-> watchpoints[k] \ {a}]
                \in [{"READ", "WRITE"} -> SUBSET Addr]
      BY <2>1
    <2>3. QED
      BY <1>6, <1>7, <2>2, Zenon DEF set_watchpoint, unset_watchpoint
  <1>8. CASE reset_breakpoints
    BY <1>8, MemKept DEF reset_breakpoints, TypeOK, AllMasks, cpuVars
  <1>9. CASE reset_watchpoints
    BY <1>9, MemKept DEF reset_watchpoints, TypeOK, AllMasks, cpuVars
  <1>10. CASE MapMask
    BY <1>10, MemKept DEF MapMask, TypeOK, AllMasks, cpuVars
  <1>11. CASE MapMaskFails
    BY <1>11, MemKept DEF MapMaskFails, TypeOK, AllMasks, cpuVars
  <1>12. ASSUME NEW v \in DebugPc, setregs(v) PROVE CpuInv'
    BY <1>12, MemKept, ConstantTypes, PcMoves DEF setregs, TypeOK, dbgVars, intrVars
  <1>13. CASE Debugger
    BY <1>5, <1>7, <1>8, <1>9, <1>10, <1>11, <1>12, <1>13 DEF Debugger
  <1>14. QED
    BY <1>1, <1>2, <1>3, <1>4, <1>13

LEMMA BuildInv ==
    ASSUME CpuInv, Build
    PROVE  CpuInv'
  <1>1. UNCHANGED <<cpuVars, dbgVars, intrVars>> /\ MemNext
    BY DEF Build, MemNext
  <1>2. MemInv'
    BY <1>1, MemStep DEF CpuInv
  <1>3. stage' # "cleaned"
    BY load_romGrows DEF Build, add_hardware, CpuInv, MemInv
  <1>4. QED
    BY <1>1, <1>2, <1>3 DEF CpuInv, TypeOK, cpuVars, dbgVars, intrVars

LEMMA InitInv == Init => CpuInv
  <1> SUFFICES ASSUME Init PROVE CpuInv
    OBVIOUS
  <1>1. MemInv /\ stage # "cleaned"
    BY MemInitInv DEF Init, MemInit
  <1>2. effective \in [Reg -> Physical]
    BY DEF Init, Reg, Physical
  <1>3. r15 \in Psr /\ pc \in Addr
    BY NumAddrType DEF Init, Psr, Mode, Addr
  <1>4. QED
    BY <1>1, <1>2, <1>3 DEF Init, CpuInv, TypeOK, AllMasks, Status

\* Types and the memory's invariant hold in every reachable state of the
\* processor, whatever the guest and the host's threads do.
THEOREM CpuInvHolds == Spec => []CpuInv
  <1>1. CpuInv /\ [Next]_vars => CpuInv'
    <2> SUFFICES ASSUME CpuInv, [Next]_vars PROVE CpuInv'
      OBVIOUS
    <2>1. CASE Next
      BY <2>1, BuildInv, CpuStepInv, HostStepInv DEF Next
    <2>2. CASE UNCHANGED vars
      BY <2>2, MemKept DEF CpuInv, TypeOK, vars, cpuVars, dbgVars, intrVars
    <2>3. QED
      BY <2>1, <2>2
  <1>2. QED
    BY <1>1, InitInv, PTL DEF Spec

\* Every variable of the processor keeps its type: above all the budget of a
\* run of run_armv2 never goes below zero and the PC stays within 26 bits.
THEOREM CpuTypes == Spec => []TypeOK
  <1>1. CpuInv => TypeOK
    BY DEF CpuInv
  <1>2. QED
    BY <1>1, CpuInvHolds, PTL

\* No instruction, load, store, fetch or MAP_MEMORY of any guest program
\* loses or invents a page of RAM.
THEOREM CpuRamAccounted == Spec => []RamAccounted
  <1>1. CpuInv => RamAccounted
    BY DEF CpuInv, MemInv
  <1>2. QED
    BY <1>1, CpuInvHolds, PTL

-----------------------------------------------------------------------------
(* Interrupts.                                                             *)

\* A request that passed the check of interrupt() under the lock finds the
\* processor outside run_armv2, with IRQs enabled and no interrupt in service,
\* until its data are set; one without the lock may find it anywhere.
DataInv ==
    /\ call \in Locked => ~Inside /\ ~r15.I /\ service = "none"
    /\ service # "none" => /\ r15.I \/ status \in {"IRQ_ENTRY", "CRASHED"}
                           /\ \/ last_interrupt = service
                              \/ last_interrupt \in Source \ Locked /\ "I" \in pins

LEMMA SourcesAreOther ==
    Locked \subseteq Source /\ \A s \in Source : s \notin {"none", "BREAK", "READ", "WRITE"}
  BY Armv2Assumption

LEMMA HandledData ==
    ASSUME CpuInv, DataInv, NEW m, NEW ex, NEW e, Handled(m, ex, e)
    PROVE  DataInv'
  <1>1. status = "RUNNING" /\ UNCHANGED <<pins, intrVars>>
    BY DEF Handled, FetchTurn, Turn
  <1>2. call \notin Locked
    BY <1>1 DEF DataInv, Inside
  <1>3. service' = IF r15'.I THEN service ELSE "none"
    BY Zenon DEF Handled, handle_exception, ServiceAfter
  <1>4. QED
    BY <1>1, <1>2, <1>3 DEF DataInv, intrVars

LEMMA CpuStepData ==
    ASSUME CpuInv, DataInv, CpuStep
    PROVE  DataInv'
  <1>1. CASE ReturnOk \/ ReturnWait
    BY <1>1 DEF ReturnOk, ReturnWait, DataInv, Inside, intrVars
  <1>2. CASE TakeFiq
    BY <1>2 DEF TakeFiq, Turn, DataInv, Inside, intrVars
  <1>3. CASE TakeIrq
    BY <1>3 DEF TakeIrq, Turn, DataInv, Inside, intrVars
  <1>4. CASE MaskIrq
    <2>1. r15'.I
      BY <1>4 DEF MaskIrq, CpuInv, TypeOK, Psr
    <2>2. QED
      BY <1>4, <2>1 DEF MaskIrq, DataInv, Inside, intrVars
  <1>5. CASE PrefetchAbort \/ HitBreakpoint \/ ExecuteInstruction
    BY <1>5, PrefetchAbortHandled, HitBreakpointHandled, ExecuteHandled, HandledData
  <1>6. CASE SkipInstruction
    BY <1>6 DEF SkipInstruction, DataInv, Inside, intrVars
  <1>7. CASE FetchCrash \/ ExecuteCrash
    BY <1>7 DEF FetchCrash, ExecuteCrash, Crash, FetchTurn, Turn, DataInv, Inside, intrVars
  <1>8. QED
    BY <1>1, <1>2, <1>3, <1>4, <1>5, <1>6, <1>7 DEF CpuStep

\* No other call of the host touches the interrupt's data.
LEMMA HostStepData ==
    ASSUME DataInv,
           \/ \E n \in Budget : run_armv2(n)
           \/ \E s \in Source : InterruptCheck(s)
           \/ InterruptSet
           \/ AssertFiq
           \/ Debugger
    PROVE  DataInv'
  <1> USE SourcesAreOther DEF DataInv, Inside
  <1>1. ASSUME NEW n \in Budget, run_armv2(n) PROVE DataInv'
    BY <1>1 DEF run_armv2, HostAlive, intrVars
  <1>2. ASSUME NEW s \in Source, InterruptCheck(s) PROVE DataInv'
    BY <1>2 DEF InterruptCheck, HostCall, HostAlive, cpuVars
  <1>3. CASE InterruptSet
    BY <1>3 DEF InterruptSet
  <1>4. CASE AssertFiq
    BY <1>4 DEF AssertFiq, intrVars
  <1>5. ASSUME NEW a \in Breakable, set_breakpoint(a) \/ unset_breakpoint(a) PROVE DataInv'
    BY <1>5 DEF set_breakpoint, unset_breakpoint, cpuVars, intrVars
  <1>6. ASSUME NEW types, NEW new, ChangeWatchpoints(types, new) PROVE DataInv'
    BY <1>6 DEF ChangeWatchpoints, HostCall, Crash, cpuVars, intrVars
  <1>7. ASSUME NEW types, NEW a, set_watchpoint(types, a) \/ unset_watchpoint(types, a)
        PROVE  DataInv'
    BY <1>6, <1>7 DEF set_watchpoint, unset_watchpoint
  <1>8. CASE reset_breakpoints \/ reset_watchpoints
    BY <1>8 DEF reset_breakpoints, reset_watchpoints, HostCall, cpuVars
  <1>9. CASE MapMask \/ MapMaskFails
    BY <1>9 DEF MapMask, MapMaskFails, AllMasks, cpuVars
  <1>10. ASSUME NEW v \in DebugPc, setregs(v) PROVE DataInv'
    BY <1>10 DEF setregs, intrVars
  <1>11. CASE Debugger
    BY <1>5, <1>7, <1>8, <1>9, <1>10, <1>11 DEF Debugger
  <1>12. QED
    BY <1>1, <1>2, <1>3, <1>4, <1>11

\* Whatever devices raise their interrupts under the machine's lock, as the
\* keyboard does, or without it, as the tape drive does: the data of an interrupt
\* survive until its handler enables interrupts again, unless a device without
\* the lock replaces them, whose interrupt is then pending.
THEOREM DataKept == Spec => []InterruptDataKept
  <1>1. Init => DataInv
    BY SourcesAreOther DEF Init, DataInv
  <1>2. CpuInv /\ DataInv /\ [Next]_vars => DataInv'
    <2> SUFFICES ASSUME CpuInv, DataInv, [Next]_vars PROVE DataInv'
      OBVIOUS
    <2>1. CASE Build
      BY <2>1 DEF Build, DataInv, Inside, cpuVars, intrVars
    <2>2. CASE UNCHANGED vars
      BY <2>2 DEF DataInv, Inside, vars, cpuVars, intrVars
    <2>3. QED
      BY <2>1, <2>2, CpuStepData, HostStepData DEF Next
  <1>3. DataInv => InterruptDataKept
    BY DEF DataInv, InterruptDataKept
  <1>4. QED
    BY <1>1, <1>2, <1>3, CpuInvHolds, PTL DEF Spec

-----------------------------------------------------------------------------
(* Waiting for an interrupt.                                               *)

\* A WATCHPOINT flag that outlives its instruction belongs to one that took
\* an exception, so IRQs are masked and the next instruction starts no wait.
WakeInv == WaitIsWakeable /\ ("WATCHPOINT" \in flags => r15.I)

\* An instruction is executed during a wait only when PIN_F is on but masked.
LEMMA WaitingTurn ==
    ASSUME CpuInv, WaitIsWakeable, FetchTurn, "WAIT" \in flags
    PROVE  "F" \in pins
  BY DEF CpuInv, TypeOK, WaitIsWakeable, FetchTurn, Turn, Parked, FiqPending, IrqPending

\* The processor after an exception has IRQs masked; otherwise r15 is what
\* the instruction made of it.
LEMMA HandledR15 ==
    ASSUME NEW m, NEW ex, NEW e, Handled(m, ex, e)
    PROVE  /\ ex = "NONE" => r15' = e.r15
           /\ ex \notin {"NONE", "BREAKPOINT"} => r15'.I
           /\ r15' = e.r15 \/ r15'.I
  BY DEF Handled, handle_exception

LEMMA HandledWake ==
    ASSUME CpuInv, WakeInv, NEW m, NEW ex, NEW e, Handled(m, ex, e)
    PROVE  WakeInv'
  <1>1. pins' = pins
    BY DEF Handled
  <1>2. ASSUME "WATCHPOINT" \in flags' PROVE r15'.I
    BY <1>2, HandledR15 DEF Handled, WakeInv
  <1>3. ASSUME "WAIT" \in flags', "WAIT" \in flags PROVE "F" \in pins'
    BY <1>1, <1>3, WaitingTurn DEF Handled, WakeInv
  <1>4. ASSUME "WAIT" \in flags', "WAIT" \notin flags PROVE ~r15'.I /\ ~r15'.F
    BY <1>4, HandledR15 DEF Handled, WakeInv
  <1>5. QED
    BY <1>2, <1>3, <1>4 DEF WakeInv, WaitIsWakeable

LEMMA StepWake ==
    ASSUME CpuInv, WakeInv, Next
    PROVE  WakeInv'
  <1> USE DEF WakeInv, WaitIsWakeable
  <1>1. CASE Build
    BY <1>1 DEF Build, cpuVars
  <1>2. ASSUME NEW n \in Budget, run_armv2(n) PROVE WakeInv'
    BY <1>2 DEF run_armv2
  <1>3. CASE ReturnOk \/ ReturnWait
    BY <1>3 DEF ReturnOk, ReturnWait
  <1>4. CASE TakeFiq
    BY <1>4 DEF TakeFiq, FiqPending
  <1>5. CASE TakeIrq
    <2>1. r15'.I = r15.I /\ r15'.F = r15.F
      BY <1>5 DEF TakeIrq, CpuInv, TypeOK, Psr
    <2>2. QED
      BY <1>5, <2>1 DEF TakeIrq
  <1>6. CASE MaskIrq
    BY <1>6 DEF MaskIrq, CpuInv, TypeOK, Psr
  <1>7. CASE PrefetchAbort \/ HitBreakpoint \/ ExecuteInstruction
    BY <1>7, PrefetchAbortHandled, HitBreakpointHandled, ExecuteHandled, HandledWake
  <1>8. CASE SkipInstruction \/ FetchCrash \/ ExecuteCrash
    BY <1>8 DEF SkipInstruction, FetchCrash, ExecuteCrash, Crash
  <1>9. CASE InterruptSet \/ AssertFiq \/ \E s \in Source : InterruptCheck(s)
    BY <1>9 DEF InterruptSet, AssertFiq, InterruptCheck, cpuVars
  <1>10. CASE Debugger
    <2>1. UNCHANGED <<r15, pins, flags>>
      BY <1>10 DEF Debugger, set_breakpoint, unset_breakpoint, set_watchpoint, unset_watchpoint,
                   ChangeWatchpoints, Crash, reset_breakpoints, reset_watchpoints, MapMask,
                   MapMaskFails, setregs, cpuVars
    <2>2. QED
      BY <2>1
  <1>11. QED
    BY <1>1, <1>2, <1>3, <1>4, <1>5, <1>6, <1>7, <1>8, <1>9, <1>10 DEF Next, CpuStep

\* A processor that waits for an interrupt is never deaf to all of them.
THEOREM WaitWakeable == Spec => []WaitIsWakeable
  <1>1. Init => WakeInv
    BY DEF Init, WakeInv, WaitIsWakeable
  <1>2. CpuInv /\ WakeInv /\ [Next]_vars => WakeInv'
    BY StepWake DEF WakeInv, WaitIsWakeable, vars, cpuVars
  <1>3. WakeInv => WaitIsWakeable
    BY DEF WakeInv
  <1>4. QED
    BY <1>1, <1>2, <1>3, CpuInvHolds, PTL DEF Spec

-----------------------------------------------------------------------------
(* Which storage a register number names.                                  *)

\* The physical registers that number i names in some mode.
Cells(i) == {i} \cup (IF i \in 13 .. 14 THEN {i + 3, i + 5} ELSE {})
                \cup (IF i \in 8 .. 14 THEN {i + 12} ELSE {})

OwnCells == effective \in [Reg -> Physical] /\ \A i \in Reg : effective[i] \in Cells(i)

LEMMA CellsDisjoint ==
    ASSUME NEW i \in Reg, NEW j \in Reg, i # j
    PROVE  Cells(i) \cap Cells(j) = {}
  BY DEF Cells, Reg

LEMMA BankCells == \A m \in Mode : \A i \in Reg : Bank(m)[i] \in Cells(i)
  BY DEF Bank, Cells, Reg, Mode, USR, FIQ, IRQ, SUP

LEMMA RebankCells ==
    ASSUME OwnCells, NEW old \in Mode, NEW new \in Mode
    PROVE  \A i \in Reg : rebank(effective, old, new)[i] \in Cells(i)
  <1>1. \A i \in Reg : Bank(new)[i] \in Cells(i) /\ i \in Cells(i) /\ effective[i] \in Cells(i)
    BY BankCells DEF OwnCells, Cells
  <1>2. QED
    BY <1>1 DEF rebank

LEMMA HandledEffective ==
    ASSUME CpuInv, NEW m, NEW ex, NEW e, Handled(m, ex, e)
    PROVE  /\ r15.mode \in Mode /\ r15'.mode \in Mode
           /\ \/ effective' = effective /\ (r15'.mode = r15.mode \/ (r15' = e.r15 /\ ex = "BREAKPOINT"))
              \/ effective' = rebank(effective, r15.mode, r15'.mode)
  <1>1. r15' \in Psr /\ r15 \in Psr
    BY HandledType DEF CpuInv, TypeOK
  <1>2. \/ effective' = effective /\ (r15'.mode = r15.mode \/ (r15' = e.r15 /\ ex = "BREAKPOINT"))
        \/ effective' = rebank(effective, r15.mode, r15'.mode)
    <2> DEFINE stop == ex = "BREAKPOINT" /\ instructions' # -1
               w    == IF ex = "NONE" \/ stop THEN e.r15
                       ELSE [mode |-> SUP, I |-> TRUE, F |-> FALSE]
    <2>1. /\ r15' = w
          /\ effective' = IF stop \/ w.mode = r15.mode THEN effective
                          ELSE rebank(effective, r15.mode, w.mode)
      BY Zenon DEF Handled, handle_exception
    <2>2. stop => w = e.r15 /\ ex = "BREAKPOINT"
      OBVIOUS
    <2> HIDE DEF stop, w
    <2>3. CASE stop
      BY <2>1, <2>2, <2>3
    <2>4. CASE ~stop /\ w.mode = r15.mode
      BY <2>1, <2>4
    <2>5. CASE ~stop /\ w.mode # r15.mode
      BY <2>1, <2>5
    <2>6. QED
      BY <2>3, <2>4, <2>5
  <1>3. QED
    BY <1>1, <1>2 DEF Psr

LEMMA StepCells ==
    ASSUME CpuInv, OwnCells, Next
    PROVE  OwnCells'
  <1>1. effective' \in [Reg -> Physical]
    BY BuildInv, CpuStepInv, HostStepInv DEF Next, CpuInv, TypeOK
  <1>2. CASE TakeFiq
    <2>1. \A i \in 8 .. 14 : 20 + (i - 8) \in Cells(i)
      BY DEF Cells
    <2>2. QED
      BY <1>1, <1>2, <2>1 DEF TakeFiq, OwnCells
  <1>3. CASE MaskIrq
    <2>1. /\ \A i \in 13 .. 14 : 18 + (i - 13) \in Cells(i)
          /\ \A i \in Reg : i \in Cells(i)
      BY DEF Cells
    <2>2. QED
      BY <1>1, <1>3, <2>1 DEF MaskIrq, OwnCells
  <1>4. CASE PrefetchAbort \/ HitBreakpoint \/ ExecuteInstruction
    <2>1. PICK m, ex, e : Handled(m, ex, e)
      BY <1>4, PrefetchAbortHandled, HitBreakpointHandled, ExecuteHandled
    <2>2. QED
      BY <1>1, <2>1, HandledEffective, RebankCells DEF OwnCells
  <1>5. CASE effective' = effective
    BY <1>5 DEF OwnCells
  <1>6. CASE Build \/ Debugger
    BY <1>5, <1>6 DEF Build, Debugger, set_breakpoint, unset_breakpoint, set_watchpoint,
                      unset_watchpoint, ChangeWatchpoints, Crash, reset_breakpoints,
                      reset_watchpoints, MapMask, MapMaskFails, setregs, cpuVars
  <1>7. CASE \/ ReturnOk \/ ReturnWait \/ TakeIrq \/ SkipInstruction \/ FetchCrash \/ ExecuteCrash
             \/ InterruptSet \/ AssertFiq
             \/ \E n \in Budget : run_armv2(n)
             \/ \E s \in Source : InterruptCheck(s)
    BY <1>5, <1>7 DEF ReturnOk, ReturnWait, TakeIrq, SkipInstruction, FetchCrash, ExecuteCrash,
                      Crash, InterruptSet, AssertFiq, run_armv2, InterruptCheck, cpuVars
  <1>8. QED
    BY <1>2, <1>3, <1>4, <1>6, <1>7 DEF Next, CpuStep

\* No two register numbers ever name the same storage, even in the states in
\* which the registers of a previous mode are still in place.
THEOREM RegistersDistinct == Spec => []NoAliasing
  <1>1. Init => OwnCells
    BY DEF Init, OwnCells, Cells, Reg, Physical
  <1>2. CpuInv /\ OwnCells /\ [Next]_vars => OwnCells'
    BY StepCells DEF OwnCells, vars, cpuVars
  <1>3. OwnCells => NoAliasing
    BY CellsDisjoint DEF OwnCells, NoAliasing
  <1>4. QED
    BY <1>1, <1>2, <1>3, CpuInvHolds, PTL DEF Spec

-----------------------------------------------------------------------------
(* Without watchpoints.                                                    *)

\* Nothing is watched, so no instruction is stopped after it has run.  While
\* an IRQ is being entered the mode is IRQ already, and only r8 to r14 are
\* still those of the mode before.
BankInv ==
    /\ ~Watching
    /\ "WATCHPOINT" \notin flags
    /\ BankMatchesMode
    /\ status = "IRQ_ENTRY" =>
          r15.mode = IRQ /\ \A i \in Reg : i \notin 8 .. 14 => effective[i] = i

LEMMA BankOutside ==
    ASSUME NEW m \in Mode, NEW i \in Reg, i \notin 8 .. 14
    PROVE  Bank(m)[i] = i
  BY DEF Bank, Reg

LEMMA RebankBank ==
    ASSUME NEW old \in Mode, NEW new \in Mode
    PROVE  rebank(Bank(old), old, new) = Bank(new)
  BY DEF rebank, Bank, Reg, Mode, USR, FIQ, IRQ, SUP

LEMMA HandledBank ==
    ASSUME CpuInv, BankInv, NEW m, NEW ex, NEW e, Handled(m, ex, e)
    PROVE  BankInv'
  <1>1. status = "RUNNING"
    BY DEF Handled, FetchTurn, Turn
  <1>2. effective = Bank(r15.mode)
    BY <1>1 DEF BankInv, BankMatchesMode
  <1>3. ex = "BREAKPOINT" => e.r15 = r15
    BY DEF Handled, BankInv
  <1>4. effective' = Bank(r15'.mode)
    BY <1>2, <1>3, HandledEffective, RebankBank
  <1>5. "WATCHPOINT" \notin flags' /\ ~Watching'
    BY DEF Handled, BankInv, Watching, dbgVars
  <1>6. status' # "IRQ_ENTRY"
    BY <1>1 DEF Handled, handle_exception
  <1>7. QED
    BY <1>4, <1>5, <1>6 DEF BankInv, BankMatchesMode

LEMMA CpuStepBank ==
    ASSUME CpuInv, BankInv, CpuStep
    PROVE  BankInv'
  <1>0. r15 \in Psr /\ r15.mode \in Mode
    BY DEF CpuInv, TypeOK, Psr
  <1>1. CASE ReturnOk \/ ReturnWait
    BY <1>1 DEF ReturnOk, ReturnWait, BankInv, BankMatchesMode, Watching, dbgVars
  <1>2. CASE TakeFiq
    <2>1. effective = Bank(r15.mode) /\ status' = status /\ status = "RUNNING"
      BY <1>2 DEF TakeFiq, Turn, BankInv, BankMatchesMode
    <2>2. \A i \in Reg : i \notin 8 .. 14 => effective[i] = i
      BY <1>0, <2>1, BankOutside
    <2>3. effective' = Bank(FIQ)
      BY <1>2, <2>2 DEF TakeFiq, Bank, Reg, FIQ, IRQ, SUP
    <2>4. QED
      BY <1>2, <2>1, <2>3 DEF TakeFiq, BankInv, BankMatchesMode, Watching, dbgVars
  <1>3. CASE TakeIrq
    <2>1. effective = Bank(r15.mode) /\ effective' = effective
      BY <1>3 DEF TakeIrq, Turn, BankInv, BankMatchesMode
    <2>2. \A i \in Reg : i \notin 8 .. 14 => effective'[i] = i
      BY <1>0, <2>1, BankOutside
    <2>3. r15'.mode = IRQ
      BY <1>0, <1>3 DEF TakeIrq, Psr
    <2>4. QED
      BY <1>3, <2>2, <2>3 DEF TakeIrq, BankInv, BankMatchesMode, Watching, dbgVars
  <1>4. CASE MaskIrq
    <2>1. r15.mode = IRQ /\ \A i \in Reg : i \notin 8 .. 14 => effective[i] = i
      BY <1>4 DEF MaskIrq, BankInv
    <2>2. r15'.mode = IRQ
      BY <1>0, <1>4, <2>1 DEF MaskIrq, Psr
    <2>3. effective' = Bank(IRQ)
      BY <1>4, <2>1 DEF MaskIrq, Bank, Reg, FIQ, IRQ, SUP
    <2>4. QED
      BY <1>4, <2>2, <2>3 DEF MaskIrq, BankInv, BankMatchesMode, Watching, dbgVars
  <1>5. CASE PrefetchAbort \/ HitBreakpoint \/ ExecuteInstruction
    BY <1>5, PrefetchAbortHandled, HitBreakpointHandled, ExecuteHandled, HandledBank
  <1>6. CASE SkipInstruction
    BY <1>6 DEF SkipInstruction, BankInv, BankMatchesMode, Watching, dbgVars
  <1>7. CASE FetchCrash \/ ExecuteCrash
    BY <1>7 DEF FetchCrash, ExecuteCrash, Crash, BankInv, BankMatchesMode, Watching, dbgVars
  <1>8. QED
    BY <1>1, <1>2, <1>3, <1>4, <1>5, <1>6, <1>7 DEF CpuStep

LEMMA HostStepBank ==
    ASSUME TypeOK, BankInv, Watchable = {},
           \/ Build
           \/ \E n \in Budget : run_armv2(n)
           \/ \E s \in Source : InterruptCheck(s)
           \/ InterruptSet
           \/ AssertFiq
           \/ Debugger
    PROVE  BankInv'
  <1> USE DEF BankInv, BankMatchesMode, Watching
  <1>1. ASSUME NEW n \in Budget, run_armv2(n) PROVE BankInv'
    BY <1>1 DEF run_armv2, HostAlive, Inside, dbgVars
  <1>2. CASE \/ Build \/ InterruptSet \/ AssertFiq \/ \E s \in Source : InterruptCheck(s)
    BY <1>2 DEF Build, InterruptSet, AssertFiq, InterruptCheck, cpuVars, dbgVars
  <1>3. ASSUME NEW a \in Breakable, set_breakpoint(a) \/ unset_breakpoint(a) PROVE BankInv'
    BY <1>3 DEF set_breakpoint, unset_breakpoint, cpuVars
  <1>4. CASE reset_breakpoints
    BY <1>4 DEF reset_breakpoints, cpuVars
  <1>5. CASE MapMask \/ MapMaskFails
    <2>1. /\ watchpoints["READ"] = {} /\ watchpoints["WRITE"] = {}
          /\ watchpoints \in [{"READ", "WRITE"} -> SUBSET Addr]
      BY DEF TypeOK
    <2>2. \/ watchpoints' = watchpoints
          \/ watchpoints' = [watchpoints EXCEPT !["READ"] = {}]
          \/ watchpoints' = [k \in {"READ", "WRITE"} |-> {}]
      BY <1>5 DEF MapMask, MapMaskFails
    <2>3. ~Watching'
      BY <2>1, <2>2
    <2>4. QED
      BY <1>5, <2>3 DEF MapMask, MapMaskFails, cpuVars
  <1>6. ASSUME NEW v \in DebugPc, setregs(v) PROVE BankInv'
    BY <1>6 DEF setregs, dbgVars
  <1>7. CASE Debugger
    BY <1>3, <1>4, <1>5, <1>6, <1>7 DEF Debugger
  <1>8. QED
    BY <1>1, <1>2, <1>7

LEMMA BankInvHolds ==
    ASSUME Watchable = {}
    PROVE  Spec => []BankInv
  <1>1. Init => BankInv
    <2> SUFFICES ASSUME Init PROVE BankInv
      OBVIOUS
    <2>1. effective = Bank(SUP) /\ r15.mode = SUP
      BY DEF Init, Bank, Reg, FIQ, IRQ, SUP
    <2>2. QED
      BY <2>1 DEF Init, BankInv, BankMatchesMode, Watching
  <1>2. CpuInv /\ BankInv /\ [Next]_vars => BankInv'
    <2> SUFFICES ASSUME CpuInv, BankInv, [Next]_vars PROVE BankInv'
      OBVIOUS
    <2>1. CASE UNCHANGED vars
      BY <2>1 DEF BankInv, BankMatchesMode, Watching, vars, cpuVars, dbgVars
    <2>2. QED
      BY <2>1, CpuStepBank, HostStepBank DEF Next, CpuInv
  <1>3. QED
    BY <1>1, <1>2, CpuInvHolds, PTL DEF Spec

\* As long as the debugger watches nothing, every instruction finds the
\* registers of its own mode, through every mixture of exceptions, interrupts,
\* breakpoints and writes to the mode bits.
THEOREM BankMatches ==
    ASSUME Watchable = {}
    PROVE  Spec => []BankMatchesMode
  <1>1. BankInv => BankMatchesMode
    BY DEF BankInv
  <1>2. QED
    BY <1>1, BankInvHolds, PTL

LEMMA PredSucc == \A a \in Addr : Pred(Succ(a)) = a
  BY NumAddrType DEF Pred, Succ, Addr

\* As long as the debugger watches nothing, a stop at a breakpoint or at a
\* SWI that asks for one resumes with the instruction it stopped at.
THEOREM StopsRefetch ==
    ASSUME Watchable = {}
    PROVE  Spec => StopRefetches
  <1> DEFINE Refetch == status = "RUNNING" /\ status' = "BREAKPOINT" => pc' = pc
  <1>1. ASSUME CpuInv, BankInv, NEW m, NEW ex, NEW e, Handled(m, ex, e)
        PROVE  Refetch
    <2>1. ex = "BREAKPOINT" => e.pc = Succ(pc)
      BY <1>1 DEF Handled, BankInv
    <2>2. status' = "BREAKPOINT" => ex = "BREAKPOINT" /\ pc' = Pred(e.pc)
      BY <1>1 DEF Handled, handle_exception, FetchTurn, Turn
    <2>3. QED
      BY <1>1, <2>1, <2>2, PredSucc DEF CpuInv, TypeOK
  <1>2. CpuInv /\ BankInv /\ [Next]_vars => [Refetch]_vars
    <2> SUFFICES ASSUME CpuInv, BankInv, Next PROVE Refetch
      OBVIOUS
    <2>1. CASE PrefetchAbort \/ HitBreakpoint \/ ExecuteInstruction
      BY <1>1, <2>1, PrefetchAbortHandled, HitBreakpointHandled, ExecuteHandled
    <2>2. CASE \/ ReturnOk \/ ReturnWait \/ TakeFiq \/ TakeIrq \/ MaskIrq \/ SkipInstruction
               \/ FetchCrash \/ ExecuteCrash
      BY <2>2 DEF ReturnOk, ReturnWait, TakeFiq, TakeIrq, MaskIrq, SkipInstruction, FetchCrash,
                  ExecuteCrash, Crash
    <2>3. CASE \/ Build \/ InterruptSet \/ AssertFiq
               \/ \E n \in Budget : run_armv2(n)
               \/ \E s \in Source : InterruptCheck(s)
      BY <2>3 DEF Build, InterruptSet, AssertFiq, run_armv2, InterruptCheck, cpuVars
    <2>4. CASE Debugger
      BY <2>4 DEF Debugger, set_breakpoint, unset_breakpoint, set_watchpoint, unset_watchpoint,
                  ChangeWatchpoints, Crash, reset_breakpoints, reset_watchpoints, MapMask,
                  MapMaskFails, setregs, cpuVars
    <2>5. QED
      BY <2>1, <2>2, <2>3, <2>4 DEF Next, CpuStep
  <1>3. QED
    BY <1>2, CpuInvHolds, BankInvHolds, PTL DEF Spec, StopRefetches

-----------------------------------------------------------------------------
(* The boot ROM's page.                                                    *)

\* What populates or maps pages stores nothing in them.
LEMMA TouchStores ==
    ASSUME NEW m \in Mem, NEW p \in Page, NEW t \in touch(m, p)
    PROVE  t.mem.rom_stored = m.rom_stored
  <1>1. Grown(m, p).rom_stored = m.rom_stored
    BY DEF Grown, Mem
  <1>2. t.mem = m \/ t.mem = Grown(m, p)
    BY TouchCases
  <1>3. QED
    BY <1>1, <1>2

LEMMA LoadStores ==
    ASSUME NEW m \in Mem, NEW start, NEW limit, NEW len, NEW t \in load_section(m, start, limit, len)
    PROVE  t.mem.rom_stored = m.rom_stored
  <1>1. \A k : Populated(m, start, k).rom_stored = m.rom_stored
    BY DEF Populated, Mem
  <1>2. t.mem = m \/ \E k : t.mem = Populated(m, start, k)
    BY DEF load_section
  <1>3. QED
    BY <1>1, <1>2

LEMMA MapStores ==
    ASSUME NEW m \in Mem, NEW regions, NEW n, NEW s, NEW e, NEW o \in map_memory(m, regions, n, s, e)
    PROVE  o.mem.rom_stored = m.rom_stored
  <1>1. \A d, k : GiveTo(m, d, s, k).rom_stored = m.rom_stored
    BY DEF GiveTo, Mem
  <1>2. o.mem = m \/ \E d, k : o.mem = GiveTo(m, d, s, k)
    BY DEF map_memory
  <1>3. QED
    BY <1>1, <1>2

\* Writing r15 leaves the memory alone.
LEMMA PcStores ==
    ASSUME NEW c \in Effect, NEW e \in {c} \cup SetPc(c) \cup SetR15(c)
    PROVE  e.mem = c.mem
  <1>1. ASSUME NEW b \in Effect, NEW f \in SetPc(b) PROVE f.mem = b.mem
    BY <1>1 DEF SetPc, Effect
  <1>2. CASE e \in SetR15(c)
    <2>1. PICK w \in IF User(c) THEN {c.r15} ELSE Psr : e \in SetPc([c EXCEPT !.r15 = w])
      BY <1>2 DEF SetR15
    <2>2. w \in Psr
      BY <2>1 DEF Effect
    <2>3. [c EXCEPT !.r15 = w] \in Effect /\ [c EXCEPT !.r15 = w].mem = c.mem
      BY <2>2 DEF Effect
    <2>4. QED
      BY <1>1, <2>1, <2>3
  <1>3. QED
    BY <1>1, <1>2

\* A permitted store of a user mode instruction is not to page 0.
LEMMA UserStores ==
    ASSUME NEW b \in Effect, User(b), NEW words, MayStore(b, words)
    PROVE  \A a \in words : PageOf(a) # 0
  BY DEF MayStore, Permitted, PermWrite

LEMMA LoadsAndStores ==
    ASSUME NEW b \in Effect, NEW t, t.mem \in Mem, t.mem.rom_stored = b.mem.rom_stored, NEW words
    PROVE  /\ perform_load(b, t, words) \in Effect
           /\ perform_load(b, t, words).mem = t.mem
           /\ User(b) /\ MayStore(b, words) =>
                 perform_store(b, t, words) \in Effect /\ perform_store(b, t, words).mem = t.mem
           /\ Raise([b EXCEPT !.mem = t.mem], "DATA_ABORT").mem = t.mem
  <1>1. ASSUME NEW type, NEW c \in Effect
        PROVE  Watch(c, type, words) \in Effect /\ Watch(c, type, words).mem = c.mem
    <2> DEFINE x == words \cap watchpoints[type] # {}
               y == words # {} /\ type \notin masks
    <2>1. x \in BOOLEAN /\ y \in BOOLEAN
      OBVIOUS
    <2>2. Watch(c, type, words) = [c EXCEPT !.watch = x, !.crash = y]
      BY Zenon DEF Watch
    <2> HIDE DEF x, y
    <2>3. QED
      BY <1>1, <2>1, <2>2 DEF Effect
  <1>2. [b EXCEPT !.mem = t.mem] \in Effect /\ [b EXCEPT !.mem = t.mem].mem = t.mem
    BY DEF Effect
  <1>3. perform_load(b, t, words) = Watch([b EXCEPT !.mem = t.mem], "READ", words)
    BY DEF perform_load
  <1>4. User(b) /\ MayStore(b, words) =>
            perform_store(b, t, words) = Watch([b EXCEPT !.mem = t.mem], "WRITE", words)
    <2> SUFFICES ASSUME User(b), MayStore(b, words)
                 PROVE  perform_store(b, t, words) = Watch([b EXCEPT !.mem = t.mem], "WRITE", words)
      OBVIOUS
    <2>1. ~ \E a \in words : PageOf(a) = 0
      BY UserStores
    <2>2. QED
      BY <2>1, Zenon DEF perform_store
  <1>5. Raise([b EXCEPT !.mem = t.mem], "DATA_ABORT").mem = t.mem
    BY <1>2 DEF Raise, Effect
  <1>6. QED
    BY <1>1, <1>2, <1>3, <1>4, <1>5

LEMMA RaiseStores ==
    ASSUME NEW c \in Effect, NEW ex
    PROVE  Raise(c, ex).mem = c.mem
  BY DEF Raise, Effect

LEMMA SingleStores ==
    ASSUME NEW b \in Effect, User(b), NEW e \in single_data_transfer_instruction(b)
    PROVE  e.mem.rom_stored = b.mem.rom_stored
  <1>1. b.mem \in Mem
    BY DEF Effect
  <1>2. ASSUME NEW d \in DataAddr, NEW t \in touch(b.mem, PageOf(d)), e \in SingleTransfer(b, d, t)
        PROVE  e.mem.rom_stored = b.mem.rom_stored
    <2> DEFINE load  == perform_load(b, t, {d})
               store == perform_store(b, t, {d})
    <2>1. t.mem \in Mem /\ t.mem.rom_stored = b.mem.rom_stored
      BY <1>1, ConstantTypes, PageOfType, TouchType, TouchStores
    <2>2. \/ e = Raise([b EXCEPT !.mem = t.mem], "DATA_ABORT")
          \/ e \in {load} \cup SetPc(load)
          \/ MayStore(b, {d}) /\ e \in {store} \cup SetPc(store)
      BY <1>2, Zenon DEF SingleTransfer
    <2> HIDE DEF load, store
    <2>3. /\ load \in Effect /\ load.mem = t.mem
          /\ MayStore(b, {d}) => store \in Effect /\ store.mem = t.mem
          /\ Raise([b EXCEPT !.mem = t.mem], "DATA_ABORT").mem = t.mem
      BY <2>1, LoadsAndStores DEF load, store
    <2>4. QED
      BY <2>1, <2>2, <2>3, PcStores
  <1>3. \/ e = Raise(b, "ADDRESS")
        \/ \E d \in DataAddr : \E t \in touch(b.mem, PageOf(d)) : e \in SingleTransfer(b, d, t)
    BY DEF single_data_transfer_instruction
  <1>4. QED
    BY <1>2, <1>3, RaiseStores

LEMMA TouchRangeStores ==
    ASSUME NEW m \in Mem, NEW d \in Addr, NEW n \in Nat \ {0}, d + n - 1 < NumAddr,
           NEW t \in touchRange(m, d, n)
    PROVE  t.mem \in Mem /\ t.mem.rom_stored = m.rom_stored
  <1> DEFINE last == d + n - 1
             one(u) == IF ~u.ok THEN {[mem |-> u.mem, words |-> {}, ok |-> FALSE]}
                       ELSE IF PageOf(last) = PageOf(d)
                       THEN {[mem |-> u.mem, words |-> d .. last, ok |-> TRUE]}
                       ELSE {[mem |-> w.mem, ok |-> w.ok,
                              words |-> IF w.ok THEN d .. last
                                        ELSE {a \in d .. last : PageOf(a) = PageOf(d)}]
                             : w \in touch(u.mem, PageOf(last))}
  <1>1. last \in Addr
    BY NumAddrType DEF Addr
  <1>2. PageOf(d) \in Page /\ PageOf(last) \in Page
    BY <1>1, PageOfType
  <1>3. t \in UNION {one(u) : u \in touch(m, PageOf(d))}
    BY Zenon DEF touchRange
  <1> HIDE DEF one
  <1>4. PICK u \in touch(m, PageOf(d)) : t \in one(u)
    BY <1>3
  <1> HIDE DEF last
  <1>5. u.mem \in Mem /\ u.mem.rom_stored = m.rom_stored
    BY <1>2, TouchType, TouchStores
  <1>6. t.mem = u.mem \/ \E w \in touch(u.mem, PageOf(last)) : t.mem = w.mem
    BY <1>4 DEF one
  <1>7. QED
    BY <1>2, <1>5, <1>6, TouchType, TouchStores

LEMMA MultiStores ==
    ASSUME NEW b \in Effect, User(b), NEW e \in multi_data_transfer_instruction(b)
    PROVE  e.mem.rom_stored = b.mem.rom_stored
  <1>1. b.mem \in Mem
    BY DEF Effect
  <1>2. ASSUME NEW t, t.mem \in Mem, t.mem.rom_stored = b.mem.rom_stored, e \in MultiTransfer(b, t)
        PROVE  e.mem.rom_stored = b.mem.rom_stored
    <2> DEFINE load  == perform_load(b, t, t.words)
               store == perform_store(b, t, t.words)
    <2>1. \/ e = Raise([b EXCEPT !.mem = t.mem], "DATA_ABORT")
          \/ e \in {load} \cup SetPc(load) \cup SetR15(load)
          \/ e = Raise(load, "DATA_ABORT")
          \/ MayStore(b, t.words) /\ (e = store \/ e = Raise(store, "DATA_ABORT"))
      BY <1>2, Zenon DEF MultiTransfer
    <2> HIDE DEF load, store
    <2>2. /\ load \in Effect /\ load.mem = t.mem
          /\ MayStore(b, t.words) => store \in Effect /\ store.mem = t.mem
          /\ Raise([b EXCEPT !.mem = t.mem], "DATA_ABORT").mem = t.mem
      BY <1>2, LoadsAndStores DEF load, store
    <2>3. QED
      BY <1>2, <2>1, <2>2, PcStores, RaiseStores
  <1>3. ASSUME NEW t, t.mem \in Mem, t.mem.rom_stored = b.mem.rom_stored, e \in Overrun(b, t)
        PROVE  e.mem.rom_stored = b.mem.rom_stored
    <2>1. e = Raise([b EXCEPT !.mem = t.mem], "DATA_ABORT") \/ e = [b EXCEPT !.mem = t.mem, !.crash = TRUE]
      BY <1>3 DEF Overrun
    <2>2. Raise([b EXCEPT !.mem = t.mem], "DATA_ABORT").mem = t.mem
      BY <1>3, LoadsAndStores
    <2>3. [b EXCEPT !.mem = t.mem, !.crash = TRUE].mem = t.mem
      BY DEF Effect
    <2>4. QED
      BY <1>3, <2>1, <2>2, <2>3
  <1>4. ASSUME NEW d \in DataAddr, NEW n \in 1 .. MaxTransfer, e \in TransferFrom(b, d, n)
        PROVE  e.mem.rom_stored = b.mem.rom_stored
    <2>1. d \in Addr /\ n \in Nat \ {0} /\ PageOf(d) \in Page
      BY ConstantTypes, PageOfType
    <2>2. CASE d + n - 1 < NumAddr
      <3>1. PICK t \in touchRange(b.mem, d, n) : e \in MultiTransfer(b, t)
        BY <1>4, <2>2 DEF TransferFrom
      <3>2. QED
        BY <1>1, <1>2, <2>1, <2>2, <3>1, TouchRangeStores
    <2>3. CASE ~(d + n - 1 < NumAddr)
      <3>1. PICK t \in touch(b.mem, PageOf(d)) : e \in Overrun(b, t)
        BY <1>4, <2>3 DEF TransferFrom
      <3>2. QED
        BY <1>1, <1>3, <2>1, <3>1, TouchType, TouchStores
    <2>4. QED
      BY <2>2, <2>3
  <1>5. \/ e = b \/ e = Raise(b, "ADDRESS")
        \/ \E d \in DataAddr, n \in 1 .. MaxTransfer : e \in TransferFrom(b, d, n)
    BY DEF multi_data_transfer_instruction
  <1>6. QED
    BY <1>4, <1>5, RaiseStores

LEMMA SwapStores ==
    ASSUME NEW b \in Effect, User(b), NEW e \in swap_instruction(b)
    PROVE  e.mem.rom_stored = b.mem.rom_stored
  <1>1. ASSUME NEW d \in DataAddr, NEW t \in touch(b.mem, PageOf(d)), e \in Swap(b, d, t)
        PROVE  e.mem.rom_stored = b.mem.rom_stored
    <2> DEFINE m == IF PageOf(d) = 0 THEN stored(t.mem, 0) ELSE t.mem
               x == d \in watchpoints["READ"] \cup watchpoints["WRITE"]
               y == \/ "WRITE" \notin masks
                    \/ d \notin watchpoints["WRITE"] /\ "READ" \notin masks
               swp == [b EXCEPT !.mem = m, !.watch = x, !.crash = y]
    <2>1. b.mem \in Mem /\ PageOf(d) \in Page
      BY ConstantTypes, PageOfType DEF Effect
    <2>2. t.mem \in Mem /\ t.mem.rom_stored = b.mem.rom_stored
      BY <2>1, TouchType, TouchStores
    <2>3. \/ e = Raise([b EXCEPT !.mem = t.mem], "DATA_ABORT")
          \/ MayStore(b, {d}) /\ (e \in {swp} \cup SetPc(swp) \/ e = [swp EXCEPT !.crash = TRUE])
      BY <1>1, Zenon DEF Swap
    <2>4. MayStore(b, {d}) => m = t.mem
      BY UserStores
    <2>5. x \in BOOLEAN /\ y \in BOOLEAN
      OBVIOUS
    <2> HIDE DEF m, x, y
    <2>6. MayStore(b, {d}) => /\ swp \in Effect /\ swp.mem = t.mem
                              /\ [swp EXCEPT !.crash = TRUE].mem = t.mem
      BY <2>2, <2>4, <2>5 DEF Effect
    <2>7. Raise([b EXCEPT !.mem = t.mem], "DATA_ABORT").mem = t.mem
      BY <2>2, LoadsAndStores
    <2> HIDE DEF swp
    <2>8. QED
      BY <2>2, <2>3, <2>6, <2>7, PcStores
  <1>2. \/ e = Raise(b, "ADDRESS")
        \/ \E d \in DataAddr : \E t \in touch(b.mem, PageOf(d)) : e \in Swap(b, d, t)
    BY DEF swap_instruction
  <1>3. QED
    BY <1>1, <1>2, RaiseStores

\* No outcome of a user mode instruction stores to page 0.
LEMMA OutcomesStore ==
    ASSUME NEW b \in Effect, User(b), NEW e \in Outcomes(b)
    PROVE  e.mem.rom_stored = b.mem.rom_stored
  <1>1. CASE \/ e \in alu_instruction(b) \/ e \in multiply_instruction(b) \/ e \in branch_instruction(b)
             \/ e \in coprocessor_data_transfer_instruction(b)
    BY <1>1, PcStores
       DEF alu_instruction, multiply_instruction, branch_instruction, coprocessor_data_transfer_instruction
  <1>2. CASE e \in software_interrupt_instruction(b)
    BY <1>2, RaiseStores DEF software_interrupt_instruction
  <1>3. CASE e \in hw_manager_register_transfer(b)
    BY <1>3 DEF hw_manager_register_transfer, Effect
  <1>4. CASE e \in hw_manager_data_operation(b)
    <2>1. \/ e = b
          \/ e = [b EXCEPT !.wait = ~b.r15.I /\ ~b.r15.F]
          \/ \E n \in 1 .. Len(hardware_devices), s, t \in Page : e \in MapOperation(b, n, s, t)
      BY <1>4 DEF hw_manager_data_operation
    <2>2. [b EXCEPT !.wait = ~b.r15.I /\ ~b.r15.F].mem = b.mem
      BY DEF Effect
    <2>3. ASSUME NEW n, NEW s, NEW t, e \in MapOperation(b, n, s, t)
          PROVE  e.mem.rom_stored = b.mem.rom_stored
      <3>1. PICK o \in map_memory(b.mem, b.mapped, n, s, t) : e = [b EXCEPT !.mem = o.mem, !.mapped = o.mapped]
        BY <2>3, Zenon DEF MapOperation
      <3>2. e.mem = o.mem /\ b.mem \in Mem
        BY <3>1 DEF Effect
      <3>3. QED
        BY <3>2, MapStores
    <2>4. QED
      BY <2>1, <2>2, <2>3
  <1>5. QED
    BY <1>1, <1>2, <1>3, <1>4, SingleStores, MultiStores, SwapStores, Zenon DEF Outcomes

\* User mode never stores to the boot ROM's page, by whichever instruction and
\* however the pages that it needs are populated on the way.
THEOREM RomIsClosedToUser == Spec => RomClosedToUser
  <1> DEFINE Closed == ~mem.rom_stored /\ mem'.rom_stored => r15.mode # USR
  <1>1. ASSUME CpuInv, r15.mode = USR, NEW t \in touch(mem, PageOf(Succ(pc)))
        PROVE  /\ t.mem \in Mem /\ t.mem.rom_stored = mem.rom_stored
               /\ Before(t.mem) \in Effect /\ User(Before(t.mem)) /\ Before(t.mem).mem = t.mem
    <2>1. mem \in Mem /\ PageOf(Succ(pc)) \in Page /\ TypeOK /\ MemTypeOK
      BY <1>1, PageOfType, PcMoves DEF CpuInv, TypeOK, MemInv, MemTypeOK
    <2>2. t.mem \in Mem /\ t.mem.rom_stored = mem.rom_stored
      BY <2>1, TouchType, TouchStores
    <2>3. QED
      BY <1>1, <2>1, <2>2, BeforeSound DEF User
  <1>2. CpuInv /\ [Next]_vars => [Closed]_vars
    <2> SUFFICES ASSUME CpuInv, Next, r15.mode = USR PROVE mem'.rom_stored = mem.rom_stored
      OBVIOUS
    <2>1. CASE PrefetchAbort
      <3>1. PICK t \in touch(mem, PageOf(Succ(pc))) : mem' = Before(t.mem).mem
        BY <2>1 DEF PrefetchAbort, handle_exception
      <3>2. QED
        BY <1>1, <3>1
    <2>2. CASE HitBreakpoint
      <3>1. PICK t \in touch(mem, PageOf(Succ(pc))) : mem' = Before(t.mem).mem
        BY <2>2 DEF HitBreakpoint, handle_exception
      <3>2. QED
        BY <1>1, <3>1
    <2>3. CASE SkipInstruction
      <3>1. PICK t \in touch(mem, PageOf(Succ(pc))) : mem' = t.mem
        BY <2>3 DEF SkipInstruction
      <3>2. QED
        BY <1>1, <3>1
    <2>4. CASE ExecuteInstruction
      <3>1. PICK t \in touch(mem, PageOf(Succ(pc))) :
                \E e \in Outcomes(Before(t.mem)) : ~e.crash /\ AfterHandler(e)
        BY <2>4 DEF ExecuteInstruction
      <3>2. PICK e \in Outcomes(Before(t.mem)) : AfterHandler(e)
        BY <3>1
      <3>3. mem' = e.mem
        BY <3>2, Zenon DEF AfterHandler, handle_exception
      <3>4. e.mem.rom_stored = Before(t.mem).mem.rom_stored
        BY <1>1, OutcomesStore
      <3>5. QED
        BY <1>1, <3>3, <3>4
    <2>5. CASE \/ ReturnOk \/ ReturnWait \/ TakeFiq \/ TakeIrq \/ MaskIrq \/ FetchCrash \/ ExecuteCrash
      BY <2>5 DEF ReturnOk, ReturnWait, TakeFiq, TakeIrq, MaskIrq, FetchCrash, ExecuteCrash, Crash, memVars
    <2>6. CASE \/ InterruptSet \/ AssertFiq
               \/ \E n \in Budget : run_armv2(n)
               \/ \E s \in Source : InterruptCheck(s)
      BY <2>6 DEF InterruptSet, AssertFiq, run_armv2, InterruptCheck, memVars
    <2>7. CASE Debugger
      BY <2>7 DEF Debugger, set_breakpoint, unset_breakpoint, set_watchpoint, unset_watchpoint,
                  ChangeWatchpoints, Crash, reset_breakpoints, reset_watchpoints, MapMask,
                  MapMaskFails, setregs, memVars
    <2>8. CASE load_rom
      <3>1. mem \in Mem
        BY DEF CpuInv, MemInv, MemTypeOK
      <3>2. PICK rom \in 0 .. RomLimit + 1, sym \in 0 .. SymbolsLimit - SymbolsPage + 1 :
                \E boot \in load_section(mem, 0, RomLimit, rom) :
                   IF ~boot.ok
                   THEN mem' = boot.mem
                   ELSE \E s \in load_section(boot.mem, SymbolsPage, SymbolsLimit, sym) : mem' = s.mem
        BY <2>8 DEF load_rom
      <3>3. PICK boot \in load_section(mem, 0, RomLimit, rom) :
                IF ~boot.ok
                THEN mem' = boot.mem
                ELSE \E s \in load_section(boot.mem, SymbolsPage, SymbolsLimit, sym) : mem' = s.mem
        BY <3>2
      <3>4. boot.mem \in Mem /\ boot.mem.rom_stored = mem.rom_stored
        <4>1. rom \in Nat /\ 0 \in Nat /\ RomLimit \in 0 .. NUM_PAGE_TABLES
          BY RomLayoutAssumption, MemoryAssumption
        <4>2. Grows(mem, boot.mem)
          BY <3>1, <4>1, LoadGrows
        <4>3. QED
          BY <3>1, <4>2, LoadStores DEF Grows
      <3>5. QED
        BY <3>3, <3>4, LoadStores
    <2>9. CASE \E d \in Device : add_hardware(d)
      BY <2>9 DEF add_hardware
    <2>10. QED
      BY <2>1, <2>2, <2>3, <2>4, <2>5, <2>6, <2>7, <2>8, <2>9 DEF Next, CpuStep, Build
  <1>3. QED
    BY <1>2, CpuInvHolds, PTL DEF Spec, RomClosedToUser
=============================================================================
