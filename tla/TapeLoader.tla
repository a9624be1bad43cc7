----------------------------- MODULE TapeLoader -----------------------------
(***************************************************************************)
(* A program's way onto a tape and from there into the guest's memory:     *)
(* create.py links it and writes the file, ProgramTape of tapes.py cuts    *)
(* the file into blocks, load_tape() of src/os.c reads their bytes, any of *)
(* which may fail, and merges the program's symbols into those that are in *)
(* memory, and Debugger.load_symbols() reads them from there.              *)
(*                                                                         *)
(* Numbers in files are words of four bytes, highest first, and in the     *)
(* program's data lowest first.  A symbol is a pair of value and name, and *)
(* a name a sequence of bytes.  How a byte gets from the drive to the      *)
(* guest is in module TapeDrive.                                           *)
(***************************************************************************)
EXTENDS Integers, Sequences, FiniteSets, SequencesExt

CONSTANTS
    Tape,          \* a sequence of what tapes are made from: at most one
                   \* loader, further data (*.bin) and a program
    OsSymbols,     \* the symbol table of the boot ROM and the OS
    TapeAddr,      \* lowest address that programs are loaded to
    SYMBOLS_ADDR, MAX_SYMBOLS_SIZE,
    MemoryEnd,     \* bound: end of the memory that is modelled
    TAPE_NAME_LEN, \* 16
    MAX_TAPE_REGIONS,
    MaxLoads       \* bound: calls of load_tape()

VARIABLES
    tape,          \* the tape in the drive (0: none), and the bytes read
    mem,           \* the guest's memory
    loader,        \* load_tape(): where it is and what it has read
    regions,       \* tape_regions
    known,         \* the debugger: symbols and need_symbols
    was,           \* history: the symbols in memory when the load began, their
                   \* end, whether they were whole, the regions, and the tape
                   \* and block
    loads          \* count of loads

loaderVars == <<tape, mem, loader, regions, known, was, loads>>

-----------------------------------------------------------------------------
(* create.py.                                                              *)

Bytes == Seq(0 .. 255)
Table == Seq(Nat \X Bytes)

MaxAddress == 67108864

BigEndian(n)    == <<n \div 16777216, (n \div 65536) % 256, (n \div 256) % 256, n % 256>>
LittleEndian(n) == Reverse(BigEndian(n))
Number(w)       == ((w[1] * 256 + w[2]) * 256 + w[3]) * 256 + w[4]

Zeros(n) == [i \in 1 .. n |-> 0]

pad(data, alignment) == data \o Zeros((alignment - (Len(data) % alignment)) % alignment)

\* A dictionary made from a symbol table: the last one of a name counts.
Defines(table, name) == \E i \in DOMAIN table : table[i][2] = name
Lookup(table, name)  == table[CHOOSE i \in DOMAIN table : /\ table[i][2] = name
                                                          /\ \A j \in i + 1 .. Len(table) : table[j][2] # name][1]

WordAt(data, offset) == Number(Reverse(SubSeq(data, offset + 1, offset + 4)))
SetWord(data, offset, n) ==
    SubSeq(data, 1, offset) \o LittleEndian(n) \o SubSeq(data, offset + 5, Len(data))

\* Mutant of process_relocation: a name that is not defined is left alone.
process_relocation_LeftAlone(r, rel, table) ==
    LET name == table[rel.sym][2]
        value == table[rel.sym][1]
        plain == IF value # 0 THEN value ELSE Lookup(OsSymbols, name)
    IN  IF rel.type = "ABS32"
        THEN [r EXCEPT !.data = SetWord(@, rel.offset, WordAt(@, rel.offset) + plain)]
        ELSE IF Defines(OsSymbols, name)
        THEN [r EXCEPT !.data = SetWord(@, rel.offset, Lookup(OsSymbols, name))]
        ELSE [r EXCEPT !.data = SetWord(@, rel.offset, Lookup(table, name))]

\* One relocation: the address of a symbol is added to a word, the program's
\* own symbol before the OS's, or a slot of the jump table is set, the OS's
\* symbol before the program's own.  r.raises is an exception.
process_relocation(r, rel, table) ==
    LET name == table[rel.sym][2]
        value == table[rel.sym][1]
        Plain == IF value # 0 THEN value ELSE Lookup(OsSymbols, name)
        Slot == IF Defines(OsSymbols, name) THEN Lookup(OsSymbols, name) ELSE Lookup(table, name)
    IN  IF rel.type = "ABS32"
        THEN IF value = 0 /\ ~Defines(OsSymbols, name) THEN [r EXCEPT !.raises = TRUE]
             ELSE [r EXCEPT !.data = SetWord(@, rel.offset, WordAt(@, rel.offset) + Plain)]
        ELSE IF Slot = 0 THEN [r EXCEPT !.raises = TRUE]
        ELSE [r EXCEPT !.data = SetWord(@, rel.offset, Slot)]

Main == <<109>>    \* "main"

\* All relocations; the entry point is main.
pre_link(p) ==
    LET Relocate(r, rel) == process_relocation(r, rel, p.table)
        r == FoldLeft(Relocate, [data |-> p.data, raises |-> FALSE], p.rels)
    IN  [r EXCEPT !.raises = @ \/ ~Defines(p.table, Main)]

Dollar == 36

\* Symbols worth keeping.  What the second half of get_symbols() adds for the
\* procedure linkage table is taken for part of the table, which has no
\* absolute symbols.
get_symbols(table) ==
    LET Kept(s) == s[1] # 0 /\ s[2] # <<>> /\ s[2][1] # Dollar
    IN  FlattenSeq([i \in DOMAIN table |-> IF Kept(table[i]) THEN <<table[i]>> ELSE <<>>])

BX_LR     == <<30, 255, 47, 225>>
MOV_PC_LR == <<14, 240, 160, 225>>

\* data.replace(): wherever the four bytes are, on a word's boundary or not.
NoBxLr(data) ==
    LET Around(i) == {j \in 1 .. i : i < j + 4 /\ j + 3 <= Len(data) /\ SubSeq(data, j, j + 3) = BX_LR}
    IN  [i \in DOMAIN data |-> IF Around(i) = {} THEN data[i]
                               ELSE MOV_PC_LR[i + 1 - CHOOSE j \in Around(i) : TRUE]]

\* Those of one value stay in their order.
Insert(sorted, s) ==
    InsertAt(sorted, 1 + Cardinality({i \in DOMAIN sorted : sorted[i][1] <= s[1]}), s)

sorted_symbols(table) == FoldLeft(Insert, <<>>, get_symbols(table))

\* The symbols as they are written, in the order of their values.
Symbols(table) ==
    LET Written(s) == BigEndian(s[1]) \o s[2] \o <<0>>
        sorted == sorted_symbols(table)
    IN  FlattenSeq([i \in DOMAIN sorted |-> Written(sorted[i])])

Section(data, flag) == [BigEndian(Len(data)) EXCEPT ![1] = @ + flag] \o data

\* TAPE_FLAG_FINAL goes into the length of the data.
to_synapse_format(data, symbols, header, final) ==
    header \o Section(pad(data, 4), IF final /\ header # <<>> THEN 128 ELSE 0)
           \o Section(pad(symbols, 4), 0)

Named(name) ==
    [i \in 1 .. TAPE_NAME_LEN |-> IF i < TAPE_NAME_LEN /\ i <= Len(name) THEN name[i] ELSE 0]

create_binary(p, final) ==
    to_synapse_format(NoBxLr(pre_link(p).data), Symbols(p.table),
                      BigEndian(Lookup(p.table, Main)) \o Named(p.name) \o BigEndian(p.addr),
                      final)

\* The main program of create.py, up to the zip file around it.
CreatedBlocks(t) ==
    [i \in DOMAIN t.loader |-> create_binary(t.loader[i], FALSE)]
    \o [i \in DOMAIN t.bins |-> to_synapse_format(t.bins[i], <<>>, <<>>, FALSE)]
    \o <<create_binary(t.program, TRUE)>>

to_binary_format(blocks) ==
    FlattenSeq([i \in DOMAIN blocks |-> BigEndian(Len(blocks[i])) \o blocks[i]])

Programs(t) == ToSet(t.loader) \cup {t.program}

\* The tapes that create.py can write.
Created == {n \in DOMAIN Tape : \A p \in Programs(Tape[n]) : ~pre_link(p).raises}

-----------------------------------------------------------------------------
(* What there is to write.                                                 *)

\* A linked program: main and the data, padded, are at addresses, which have 26
\* bits, the data below the symbols; relocations are of words of the data.
IsProgram(p) ==
    /\ p.name \in Bytes /\ p.data \in Bytes /\ p.table \in Table
    /\ \A i \in DOMAIN p.table : p.table[i][2] = Main => p.table[i][1] < MaxAddress
    /\ p.addr \in TapeAddr .. SYMBOLS_ADDR /\ p.addr + Len(pad(p.data, 4)) <= SYMBOLS_ADDR
    /\ p.rels \in Seq([type : {"ABS32", "JUMP_SLOT"}, offset : Nat, sym : DOMAIN p.table])
    /\ \A i \in DOMAIN p.rels : p.rels[i].offset + 4 <= Len(p.data)

\* There is one loader at most, and no block is as long as the guest's memory.
ASSUME TapeLoaderAssumption ==
    /\ {TapeAddr, MAX_SYMBOLS_SIZE, MAX_TAPE_REGIONS, MaxLoads} \subseteq Nat
    /\ SYMBOLS_ADDR \in TapeAddr .. MaxAddress - 1
    /\ MemoryEnd \in SYMBOLS_ADDR + MAX_SYMBOLS_SIZE .. MaxAddress
    /\ TAPE_NAME_LEN \in Nat \ {0} /\ TAPE_NAME_LEN % 4 = 0
    /\ OsSymbols \in Table
    /\ \A n \in DOMAIN Tape :
          /\ Tape[n].loader \in Seq(Programs(Tape[n])) /\ Len(Tape[n].loader) <= 1
          /\ Tape[n].bins \in Seq(Bytes)
          /\ \A p \in Programs(Tape[n]) : IsProgram(p)
    /\ \A n \in Created : \A block \in ToSet(CreatedBlocks(Tape[n])) : Len(block) < MaxAddress

-----------------------------------------------------------------------------
(* ProgramTape.                                                            *)

\* from_binary() from position pos of the file on.
from_binary(data) ==
    LET Size(pos) == Number(SubSeq(data, pos + 1, pos + 4))
        Cut[pos \in Nat] ==
            IF Len(data) - pos < 4 THEN <<>>
            ELSE <<SubSeq(data, pos + 5, pos + 4 + Size(pos))>> \o Cut[pos + 4 + Size(pos)]
    IN  Cut[0]

data_blocks == [n \in Created |-> from_binary(to_binary_format(CreatedBlocks(Tape[n])))]

\* What get_byte() returns, one call after the other.
Stream == [n \in Created |-> FlattenSeq(data_blocks[n])]

BlockStart(n, k) == Len(FlattenSeq(SubSeq(data_blocks[n], 1, k - 1)))

-----------------------------------------------------------------------------
(* The table of symbols in memory.                                         *)

At(m, a)      == IF a \in DOMAIN m THEN m[a] ELSE 0
Value(m, a)   == Number([i \in 1 .. 4 |-> At(m, a + i - 1)])
NameEnd(m, a) == CHOOSE e \in a .. a + MemoryEnd : At(m, e) = 0 /\ \A i \in a .. e - 1 : At(m, i) # 0
Name(m, a)    == [i \in 1 .. NameEnd(m, a) - a |-> m[a + i - 1]]

\* Debugger.load_symbols().
load_symbols(m) ==
    LET From[a \in Nat] == IF Value(m, a) = 0 THEN <<>>
                           ELSE <<<<Value(m, a), Name(m, a + 4)>>>> \o From[NameEnd(m, a + 4) + 1]
    IN  From[SYMBOLS_ADDR]

\* Where its loop ends.
SymbolsEnd(m) ==
    LET From[a \in Nat] == IF Value(m, a) = 0 THEN a ELSE From[NameEnd(m, a + 4) + 1]
    IN  From[SYMBOLS_ADDR]

symbols_end == SYMBOLS_ADDR + MAX_SYMBOLS_SIZE

\* Mutant of symbol_entry_pos: the new symbols go to the end.
symbol_entry_pos_AtEnd(m, tape_area) == SymbolsEnd(m)

\* load_tape_symbols(): behind the symbols below the program.
symbol_entry_pos(m, tape_area) ==
    LET Behind(a) == IF NameEnd(m, a) < symbols_end THEN NameEnd(m, a) + 1 ELSE symbols_end + 1
        From[a \in Nat] ==
            IF a >= symbols_end \/ Value(m, a) = 0 \/ Value(m, a) >= tape_area THEN a
            ELSE From[Behind(a + 4)]
    IN  From[SYMBOLS_ADDR]

-----------------------------------------------------------------------------
(* load_tape().                                                            *)

Resting == {"idle", "READY", "failed"}
Fields  == {"entry", "name", "addr", "length", "data", "symbols_length", "symbols"}

NewLoader == [at |-> "idle", buf |-> <<>>, left |-> 0, entry |-> 0, name |-> <<>>,
              addr |-> 0, written |-> 0, to |-> 0, final |-> FALSE]

\* tape_next_byte() gets the next byte of the tape ...
Reads(field) ==
    /\ loader.at = field
    /\ tape.pos < Len(Stream[tape.of])
    /\ tape' = [tape EXCEPT !.pos = @ + 1]
    /\ UNCHANGED <<was, loads>>

TapeByte == Stream[tape.of][tape.pos + 1]
Buf   == Append(loader.buf, TapeByte)

\* ... and tape_next_word() has four of them when this is the last.
Short(size) == Len(loader.buf) + 1 < size

Keep == loader' = [loader EXCEPT !.buf = Buf]

ReadHeader ==
    /\ \/ /\ Reads("entry")
          /\ IF Short(4) THEN Keep
             ELSE loader' = [loader EXCEPT !.at = "name", !.buf = <<>>, !.entry = Number(Buf)]
       \/ /\ Reads("name")
          /\ IF Short(TAPE_NAME_LEN) THEN Keep
             ELSE loader' = [loader EXCEPT !.at = "addr", !.buf = <<>>, !.name = Buf]
       \/ /\ Reads("addr")
          /\ IF Short(4) THEN Keep
             ELSE loader' = [loader EXCEPT !.at = "length", !.buf = <<>>, !.addr = Number(Buf)]
    /\ UNCHANGED <<mem, regions, known>>

\* The flag is the highest bit of the length.
Unflagged(w) == Number([w EXCEPT ![1] = @ % 128])

\* add_loaded_tape() ignores everything after the maximum.
add_loaded_tape(start, end) ==
    IF Len(regions) >= MAX_TAPE_REGIONS THEN regions ELSE Append(regions, <<start, end>>)

\* The data are there: load_tape_symbols() looks for a place, in memory m.
DataLoaded(l, m) ==
    LET pos == symbol_entry_pos(m, l.addr)
    IN  /\ regions' = add_loaded_tape(l.addr, l.addr + l.written)
        /\ loader' = [l EXCEPT !.at = IF pos >= symbols_end THEN "failed" ELSE "symbols_length",
                               !.buf = <<>>, !.to = pos, !.written = 0]

\* Mutant of ReadLength: the flag is looked for after it was cleared.
ReadLength_ClearedFirst ==
    /\ Reads("length")
    /\ IF Short(4) THEN Keep /\ UNCHANGED regions
       ELSE LET l == [loader EXCEPT !.at = "data", !.buf = <<>>, !.left = Unflagged(Buf),
                                    !.final = FALSE, !.written = 0]
            IN  IF l.left = 0 THEN DataLoaded(l, mem) ELSE loader' = l /\ UNCHANGED regions
    /\ UNCHANGED <<mem, known>>

\* load_tape_data() for the data; it has no limit.
ReadLength ==
    /\ Reads("length")
    /\ IF Short(4) THEN Keep /\ UNCHANGED regions
       ELSE LET l == [loader EXCEPT !.at = "data", !.buf = <<>>, !.left = Unflagged(Buf),
                                    !.final = Buf[1] >= 128, !.written = 0]
            IN  IF l.left = 0 THEN DataLoaded(l, mem) ELSE loader' = l /\ UNCHANGED regions
    /\ UNCHANGED <<mem, known>>

ReadData ==
    /\ Reads("data")
    /\ mem' = [mem EXCEPT ![loader.addr + loader.written] = TapeByte]
    /\ LET l == [loader EXCEPT !.left = @ - 1, !.written = @ + 1]
       IN  IF l.left = 0 THEN DataLoaded(l, mem') ELSE loader' = l /\ UNCHANGED regions
    /\ UNCHANGED known

\* After the last block READY is written to the drive, whose power_down()
\* tells the debugger.
Loaded(l) ==
    /\ loader' = [l EXCEPT !.at = "READY", !.buf = <<>>]
    /\ known' = IF l.final THEN [known EXCEPT !.need_symbols = TRUE] ELSE known

\* load_tape_data() for the symbols, without a limit either.
ReadSymbolsLength ==
    /\ Reads("symbols_length")
    /\ IF Short(4) THEN Keep /\ UNCHANGED known
       ELSE LET l == [loader EXCEPT !.at = "symbols", !.buf = <<>>, !.left = Unflagged(Buf)]
            IN  IF l.left = 0 THEN Loaded(l) ELSE loader' = l /\ UNCHANGED known
    /\ UNCHANGED <<mem, regions>>

ReadSymbols ==
    /\ Reads("symbols")
    /\ mem' = [mem EXCEPT ![loader.to + loader.written] = TapeByte]
    /\ LET l == [loader EXCEPT !.left = @ - 1, !.written = @ + 1]
       IN  IF l.left = 0 THEN Loaded(l) ELSE loader' = l /\ UNCHANGED known
    /\ UNCHANGED regions

\* tape_next_byte() returns another status at any time: the end of the tape,
\* or what the user does to the drive.  load_tape() returns it.
TapeFails ==
    /\ loader.at \in Fields
    /\ loader' = [loader EXCEPT !.at = "failed", !.buf = <<>>]
    /\ UNCHANGED <<tape, mem, regions, known, was, loads>>

\* The load before has not left the remains of other symbols behind its own,
\* or half of its own.
Clean ==
    \/ loader.at = "idle"
    \/ loader.at = "READY" /\ loader.to + loader.written >= was.end
    \/ loader.at = "failed" /\ (loader.to = 0 \/ loader.written = 0)

\* The command load, or a call by a loader.  Bound: only from the start of a
\* program's block, as a load that failed before may have left the tape
\* anywhere.
load_tape ==
    /\ loader.at \in Resting
    /\ loads < MaxLoads
    /\ tape.of # 0
    /\ \E k \in (1 .. Len(Tape[tape.of].loader)) \cup {Len(data_blocks[tape.of])} :
          /\ tape.pos = BlockStart(tape.of, k)
          /\ was' = [symbols |-> load_symbols(mem), end |-> SymbolsEnd(mem),
                     whole |-> was.whole /\ Clean, regions |-> regions, of |-> tape.of, block |-> k]
    /\ loader' = [NewLoader EXCEPT !.at = "entry"]
    /\ loads' = loads + 1
    /\ UNCHANGED <<tape, mem, regions, known>>

\* A loader, which is not part of the repository, takes the other data.
ReadBin ==
    /\ loader.at = "READY"
    /\ \E k \in 2 .. Len(data_blocks[tape.of]) - 1 :
          /\ k > Len(Tape[tape.of].loader)
          /\ tape.pos = BlockStart(tape.of, k)
          /\ tape' = [tape EXCEPT !.pos = BlockStart(tape.of, k + 1)]
    /\ UNCHANGED <<mem, loader, regions, known, was, loads>>

\* The user puts in a tape, or winds it to its start.
InsertTape(n) ==
    /\ loader.at \in Resting
    /\ loads < MaxLoads
    /\ tape' = [of |-> n, pos |-> 0]
    /\ UNCHANGED <<mem, loader, regions, known, was, loads>>

\* The debugger reads the symbols again.
ReloadSymbols ==
    /\ known.need_symbols
    /\ known' = [symbols |-> load_symbols(mem), need_symbols |-> FALSE]
    /\ UNCHANGED <<tape, mem, loader, regions, was, loads>>

\* The boot ROM's symbols, as load_rom() puts them into memory.
RomMemory ==
    LET s == pad(Symbols(OsSymbols), 4)
    IN  [a \in TapeAddr .. MemoryEnd |->
            IF a \in SYMBOLS_ADDR .. SYMBOLS_ADDR + Len(s) - 1 THEN s[a + 1 - SYMBOLS_ADDR] ELSE 0]

LoaderInit ==
    /\ tape = [of |-> 0, pos |-> 0]
    /\ mem = RomMemory
    /\ loader = NewLoader
    /\ regions = <<>>
    /\ known = [symbols |-> load_symbols(RomMemory), need_symbols |-> FALSE]
    /\ was = [symbols |-> <<>>, end |-> SYMBOLS_ADDR, whole |-> TRUE, regions |-> <<>>, of |-> 0, block |-> 0]
    /\ loads = 0

\* Switching off calls the drive's power_down() ...
LoaderPowerOff ==
    /\ known' = [known EXCEPT !.need_symbols = TRUE]
    /\ UNCHANGED <<tape, mem, loader, regions, was, loads>>

\* ... and switching on makes a new memory, keeps the tape where it is, and
\* has the debugger read the symbols.
LoaderReset ==
    /\ mem' = RomMemory
    /\ loader' = NewLoader
    /\ regions' = <<>>
    /\ known' = [symbols |-> load_symbols(RomMemory), need_symbols |-> FALSE]
    /\ was' = [was EXCEPT !.whole = TRUE, !.regions = <<>>]
    /\ UNCHANGED <<tape, loads>>

LoaderNext ==
    \/ \E n \in Created : InsertTape(n)
    \/ load_tape
    \/ ReadHeader \/ ReadLength \/ ReadData \/ ReadSymbolsLength \/ ReadSymbols
    \/ TapeFails \/ ReadBin \/ ReloadSymbols

-----------------------------------------------------------------------------
(* Properties.                                                             *)

Program == LET t == Tape[was.of] IN IF was.block <= Len(t.loader) THEN t.loader[was.block] ELSE t.program

New      == sorted_symbols(Program.table)
Below(s) == s[1] < Program.addr

\* The symbols of the program end inside their area.
Fits == loader.to + loader.written <= symbols_end

\* What create.py makes of a program is what load_tape() puts into memory: its
\* data at its address, linked and without bx lr, its entry point, its name
\* and its region.
LoadedAsBuilt ==
    loader.at = "READY" /\ Fits =>
        LET data == NoBxLr(pre_link(Program).data)
        IN  /\ loader.entry = Lookup(Program.table, Main)
            /\ loader.name = Named(Program.name)
            /\ \A i \in DOMAIN data : mem[Program.addr + i - 1] = data[i]
            /\ loader.final = (was.block = Len(data_blocks[was.of]))
            /\ Len(was.regions) < MAX_TAPE_REGIONS =>
                   Last(regions) = <<Program.addr, Program.addr + Len(pad(data, 4))>>
            /\ IsPrefix(was.regions, regions)

\* After a load the table in memory has the symbols that were below the
\* program, and then the program's own; nothing else, unless the program's are
\* fewer than those they replace.  This is so as long as no load before has
\* failed half way through its symbols or left others behind.  And once a tape
\* is loaded to its end, the debugger has what is in memory, or will read it.
SymbolsMerged ==
    loader.at = "READY" =>
        LET merged == SelectSeq(was.symbols, Below) \o New
        IN  /\ was.whole =>
                  /\ IsPrefix(merged, load_symbols(mem))
                  /\ loader.to + loader.written >= was.end => load_symbols(mem) = merged
            /\ loader.final /\ ~known.need_symbols => known.symbols = load_symbols(mem)

\* In a program that is loaded every relocated word is the address of a symbol
\* of the right name, as the debugger knows it, and an addend.
ReferencesResolved ==
    loader.at = "READY" =>
        \A i \in DOMAIN Program.rels :
            LET rel == Program.rels[i]
                word == Number([j \in 1 .. 4 |-> mem[Program.addr + rel.offset + 4 - j]])
                addend == IF rel.type = "ABS32" THEN WordAt(Program.data, rel.offset) ELSE 0
            IN  <<word - addend, Program.table[rel.sym][2]>> \in ToSet(load_symbols(mem))
=============================================================================
