------------------------------- MODULE Memory -------------------------------
(***************************************************************************)
(* The guest's physical memory: the page tables, the RAM budget and the    *)
(* devices that are given address ranges.  Translated from init.c          *)
(* (init, load_section, load_rom, add_hardware, map_memory,                *)
(* cleanup_armv2) and from step.c (fault).                                 *)
(*                                                                         *)
(* A page is a page number; RAM is counted in pages; the words inside a    *)
(* page are data no property tells apart and are left out.  A page table   *)
(* entry is "null" (never touched), "ram" (page_info->memory is set) or    *)
(* the device whose callbacks the page calls (page_info->mapped_device).   *)
(***************************************************************************)
EXTENDS Integers, FiniteSets, Sequences

CONSTANTS
    NUM_PAGE_TABLES,  \* number of pages of the address space
    RamPages,         \* physical_ram_size, in pages
    Device,           \* the hardware_device structures the host can attach
    HW_DEVICES_MAX,   \* capacity of cpu->hardware_devices
    RomLimit,         \* PAGEOF(TAPE_ADDR): the boot section ends below it
    SymbolsPage,      \* PAGEOF(SYMBOLS_ADDR)
    SymbolsLimit,     \* PAGEOF(SYMBOLS_ADDR + MAX_SYMBOLS_SIZE)
    HostAllocMayFail  \* TRUE when calloc() and mmap() on the host may fail

ASSUME MemoryAssumption ==
    /\ NUM_PAGE_TABLES \in Nat \ {0}
    /\ RamPages \in 0 .. NUM_PAGE_TABLES
    /\ HW_DEVICES_MAX \in Nat
    /\ Device \cap {"null", "ram"} = {}
    /\ HostAllocMayFail \in BOOLEAN

ASSUME RomLayoutAssumption ==
    /\ RomLimit \in 1 .. NUM_PAGE_TABLES
    /\ SymbolsPage \in RomLimit .. NUM_PAGE_TABLES
    /\ SymbolsLimit \in SymbolsPage .. NUM_PAGE_TABLES

Page  == 0 .. NUM_PAGE_TABLES - 1
Entry == {"null", "ram"} \cup Device

VARIABLES
    mem,               \* page_tables, free_ram (in pages) and whether a store
                       \* of the guest has reached page 0 (rom_stored)
    hardware_devices,  \* the attached devices, in device_num order
    mapped,            \* device->mapped: the last region given to a device
    stage              \* "init", "loaded", "failed" or "cleaned"

memVars == <<mem, hardware_devices, mapped, stage>>

Mem    == [page_tables : [Page -> Entry], free_ram : Nat, rom_stored : BOOLEAN]
Region == [start : 0 .. NUM_PAGE_TABLES, end : 0 .. NUM_PAGE_TABLES]

RamOf(m) == {p \in Page : m.page_tables[p] = "ram"}

-----------------------------------------------------------------------------
(* Functions of the memory that the instructions and the loader call.      *)
(* Each yields the set of its possible outcomes.                           *)

\* Mutants of fault: the free RAM is not checked; the page is charged before
\* the host's allocation, and stays charged when that fails.
fault_Unchecked(m, p) ==
    {[mem |-> [m EXCEPT !.page_tables[p] = "ram", !.free_ram = @ - 1], ok |-> TRUE]}

fault_ChargedFirst(m, p) ==
    IF m.page_tables[p] # "null" \/ m.free_ram < 1
    THEN {[mem |-> m, ok |-> FALSE]}
    ELSE {[mem |-> [m EXCEPT !.page_tables[p] = "ram", !.free_ram = @ - 1], ok |-> TRUE],
          [mem |-> [m EXCEPT !.free_ram = @ - 1], ok |-> FALSE]}

\* fault() populates a page when there is RAM left for it.
fault(m, p) ==
    IF m.page_tables[p] # "null" \/ m.free_ram < 1
    THEN {[mem |-> m, ok |-> FALSE]}
    ELSE {[mem |-> [m EXCEPT !.page_tables[p] = "ram", !.free_ram = @ - 1],
           ok  |-> TRUE]}
         \cup (IF HostAllocMayFail THEN {[mem |-> m, ok |-> FALSE]} ELSE {})

\* What every fetch, load and store does before it uses a page.
touch(m, p) ==
    IF m.page_tables[p] = "null" THEN fault(m, p) ELSE {[mem |-> m, ok |-> TRUE]}

\* page_info->flags & PERM_WRITE: fault() clears it on page 0 only.
PermWrite(p) == p # 0

\* The store to page p of an instruction that passed its permission check.
stored(m, p) == [m EXCEPT !.rom_stored = @ \/ p = 0]

\* A load or a store of a populated page by an instruction in user mode or
\* in another mode: only user mode is held to the page's permissions.
Permitted(p, user, store) == ~(user /\ store /\ ~PermWrite(p))

\* The memory with the first k pages from "start" populated.
Populated(m, start, k) ==
    LET fresh == {p \in start .. start + k - 1 : m.page_tables[p] = "null"}
    IN  [m EXCEPT !.page_tables = [p \in Page |-> IF p \in fresh THEN "ram" ELSE @[p]],
                  !.free_ram    = @ - Cardinality(fresh)]

\* load_section() faults its pages in one by one and reads the file into
\* them; "len" is the section's length in pages.  It stops at a length that
\* does not fit, at a page it cannot fault in, or at a short read, which
\* leaves the pages before that populated.
load_section(m, start, limit, len) ==
    IF len > limit - start
    THEN {[mem |-> m, ok |-> FALSE]}
    ELSE LET fits(k) == Populated(m, start, k).free_ram >= 0
         IN  {[mem |-> Populated(m, start, k), ok |-> FALSE] : k \in {j \in 0 .. len : fits(j)}}
             \cup {[mem |-> Populated(m, start, k), ok |-> TRUE] : k \in {j \in {len} : fits(j)}}

-----------------------------------------------------------------------------
(* The operations.                                                         *)

\* init(): no page is populated, all of the RAM is free.
MemInit ==
    /\ mem = [page_tables |-> [p \in Page |-> "null"],
              free_ram    |-> RamPages,
              rom_stored  |-> FALSE]
    /\ hardware_devices = <<>>
    /\ mapped = [d \in Device |-> [start |-> 0, end |-> 0]]
    /\ stage = "init"

\* load_rom(): the boot section, then the symbols section.  A failure is
\* reported to Armv2.__init__, which raises, and the memory stays as it is
\* until the object is deallocated.
load_rom ==
    /\ stage = "init"
    /\ \E rom \in 0 .. RomLimit + 1, sym \in 0 .. SymbolsLimit - SymbolsPage + 1 :
       \E boot \in load_section(mem, 0, RomLimit, rom) :
          IF ~boot.ok
          THEN mem' = boot.mem /\ stage' = "failed"
          ELSE \E s \in load_section(boot.mem, SymbolsPage, SymbolsLimit, sym) :
                  /\ mem' = s.mem
                  /\ stage' = IF s.ok THEN "loaded" ELSE "failed"
    /\ UNCHANGED <<hardware_devices, mapped>>

\* add_hardware(): refused when the table is full.
add_hardware(d) ==
    /\ stage = "loaded"
    /\ \A n \in 1 .. Len(hardware_devices) : hardware_devices[n] # d
    /\ Len(hardware_devices) < HW_DEVICES_MAX
    /\ hardware_devices' = Append(hardware_devices, d)
    /\ UNCHANGED <<mem, mapped, stage>>

\* Mutant of Mappable: only the first page of the range is looked at.
Mappable_FirstPage(m, device_num, s, e) ==
    /\ s < e
    /\ device_num \in 1 .. Len(hardware_devices)
    /\ s # 0
    /\ e < NUM_PAGE_TABLES
    /\ m.page_tables[s] = "null"

\* The conditions under which map_memory() starts to fill in pages: the
\* arguments are valid and every page of the range is free.
Mappable(m, device_num, s, e) ==
    /\ s < e
    /\ device_num \in 1 .. Len(hardware_devices)
    /\ s # 0
    /\ e < NUM_PAGE_TABLES
    /\ \A p \in s .. e - 1 : m.page_tables[p] = "null"

\* The memory with the pages s .. e - 1 given to device d.
GiveTo(m, d, s, e) ==
    [m EXCEPT !.page_tables = [p \in Page |-> IF p \in s .. e - 1 THEN d
                                              ELSE m.page_tables[p]]]

\* Mutant of map_memory: the device learns its region before the pages are
\* filled in.
map_memory_RegionFirst(m, regions, device_num, s, e) ==
    IF ~Mappable(m, device_num, s, e) THEN {[mem |-> m, mapped |-> regions]}
    ELSE LET d == hardware_devices[device_num]
         IN  {[mem |-> GiveTo(m, d, s, k),
               mapped |-> [regions EXCEPT ![d] = [start |-> s, end |-> e]]] : k \in s .. e}

\* The outcomes of map_memory(): nothing when its checks refuse; else either
\* every page is filled in and the device learns its region, or calloc()
\* fails at some page and the call returns there.
map_memory(m, regions, device_num, s, e) ==
    IF ~Mappable(m, device_num, s, e) THEN {[mem |-> m, mapped |-> regions]}
    ELSE LET d == hardware_devices[device_num]
         IN  {[mem |-> GiveTo(m, d, s, e),
               mapped |-> [regions EXCEPT ![d] = [start |-> s, end |-> e]]]}
             \cup (IF HostAllocMayFail
                   THEN {[mem |-> GiveTo(m, d, s, k), mapped |-> regions] : k \in s .. e - 1}
                   ELSE {})

\* The guest's MAP_MEMORY, as far as the memory is concerned.
MapDevice(device_num, s, e) ==
    /\ stage = "loaded"
    /\ \E o \in map_memory(mem, mapped, device_num, s, e) : mem' = o.mem /\ mapped' = o.mapped
    /\ UNCHANGED <<hardware_devices, stage>>

\* A guest instruction that uses page p: it may populate the page, and a
\* store goes through when the page was there and the mode is permitted.
Access(p, user, store) ==
    /\ stage = "loaded"
    /\ \E t \in touch(mem, p) :
          mem' = IF t.ok /\ store /\ Permitted(p, user, store) THEN stored(t.mem, p) ELSE t.mem
    /\ UNCHANGED <<hardware_devices, mapped, stage>>

\* cleanup_armv2(), called when the object is deallocated: every page that
\* exists, device pages included, is freed and counted as free RAM.
cleanup_armv2 ==
    /\ stage # "cleaned"
    /\ mem' = [mem EXCEPT
                 !.page_tables = [p \in Page |-> "null"],
                 !.free_ram = @ + Cardinality({p \in Page : mem.page_tables[p] # "null"})]
    /\ stage' = "cleaned"
    /\ UNCHANGED <<hardware_devices, mapped>>

MemNext ==
    \/ load_rom
    \/ \E d \in Device : add_hardware(d)
    \/ \E n \in 1 .. HW_DEVICES_MAX, s, e \in Page : MapDevice(n, s, e)
    \/ \E p \in Page, user, store \in BOOLEAN : Access(p, user, store)
    \/ cleanup_armv2

MemSpec == MemInit /\ [][MemNext]_memVars

-----------------------------------------------------------------------------
(* Properties.                                                             *)

\* Every variable has its type.
MemTypeOK ==
    /\ mem \in Mem
    /\ hardware_devices \in Seq(Device)
    /\ mapped \in [Device -> Region]
    /\ stage \in {"init", "loaded", "failed", "cleaned"}

\* Until the memory is torn down every page of RAM is either free or behind
\* exactly one populated page, whatever mix of loading, faulting and device
\* mapping happened, including the calls that failed half way.
RamAccounted ==
    stage # "cleaned" => mem.free_ram + Cardinality(RamOf(mem)) = RamPages

\* The region a device was last told it has (device->mapped, from which the
\* callbacks' offsets are computed) consists of pages that call this device
\* and no other, and never includes the boot ROM's page.
MappingBacked ==
    stage # "cleaned" =>
        \A d \in Device : \A p \in mapped[d].start .. mapped[d].end - 1 :
            p # 0 /\ mem.page_tables[p] = d

\* A page, once populated with RAM or given to a device, keeps its backing
\* until cleanup_armv2: neither a fault nor a later map_memory takes it over.
BackingIsStable ==
    [][stage' # "cleaned" =>
          \A p \in Page : mem.page_tables[p] # "null" =>
                             mem'.page_tables[p] = mem.page_tables[p]]_memVars
=============================================================================
