------------------------------- MODULE Display ------------------------------
(***************************************************************************)
(* The display (class Display of hardware.py): what the guest's reads and  *)
(* writes of its registers do to the colours, the letters, the font and    *)
(* the pixels, and what can be seen of it on the screen.                   *)
(*                                                                         *)
(* The guest sees the pixels from the top down, pixel_data has them from   *)
(* the bottom up, and so has font_data the rows of a glyph.  Pixels are    *)
(* bytes of eight; a word is a tuple of four bytes, lowest first, as on a  *)
(* little-endian host.                                                     *)
(***************************************************************************)
EXTENDS Integers, Sequences

CONSTANTS
    Width, Height, \* 40 and 30 cells
    NumGlyphs,     \* 256 glyphs, the upper half to be changed
    Petscii,       \* the font file: rows of each glyph, top row first
    Byte, Word,    \* values that the guest writes
    MaxWrites      \* bound: the guest's writes

ASSUME DisplayAssumption ==
    /\ Width \in Nat \ {0} /\ Height \in Nat \ {0} /\ NumGlyphs \in Nat \ {0}
    /\ Width % 4 = 0
    /\ Petscii \in [0 .. NumGlyphs - 1 -> Seq(0 .. 255)]
    /\ \A g \in 0 .. NumGlyphs - 1 : Len(Petscii[g]) = 8
    /\ Byte \subseteq 0 .. NumGlyphs - 1
    /\ Word \subseteq [1 .. 4 -> 0 .. NumGlyphs - 1]

VARIABLES
    display,       \* palette_data, letter_data, font_data, pixels, and quads:
                   \* the colours of the cells' quads
    last,          \* history: address and bytes of the last write
    writes,        \* count of writes
    picture,       \* history: the pixels from the top down, as the guest
                   \* drew them and as its letters and glyphs make them
    glyphs         \* history: the font, as the guest wrote it

displayVars == <<display, last, writes, picture, glyphs>>

Cell  == 0 .. Width * Height - 1
Glyph == 0 .. NumGlyphs - 1

letter_start       == Width * Height
letter_end         == 2 * Width * Height
font_start         == letter_end
font_end           == font_start + NumGlyphs * 8
frame_buffer_start == font_end
frame_buffer_end   == frame_buffer_start + Width * Height * 8

\* In pixels; cell_size is 8.
PixelWidth  == Width * 8
PixelHeight == Height * 8

cpu_to_screen(offset) ==
    LET x == (offset * 8) % PixelWidth
        y == PixelHeight - 1 - (offset * 8) \div PixelWidth
    IN  (y * PixelWidth + x) \div 8

-----------------------------------------------------------------------------
(* Drawing.                                                                *)

\* Foreground and background colour of a cell's quad.
redraw_colours(d, pos) ==
    [d EXCEPT !.quads[pos] = <<d.palette_data[pos] % 16, (d.palette_data[pos] \div 16) % 16>>]

\* The rows of the letter go into the cell's column of pixel_data.
redraw(d, pos) ==
    LET x == pos % Width
        y == Height - 1 - pos \div Width
        cell == {(y * 8 + r) * Width + x : r \in 0 .. 7}
    IN  [d EXCEPT !.pixels =
            [i \in DOMAIN @ |-> IF i \in cell THEN d.font_data[d.letter_data[pos]][(i \div Width) % 8] ELSE @[i]]]

-----------------------------------------------------------------------------
(* The guest's accesses.                                                   *)

\* Nothing is there behind the frame buffer.
read_byte(d, addr) ==
    IF addr < letter_start THEN d.palette_data[addr]
    ELSE IF addr < letter_end THEN d.letter_data[addr - letter_start]
    ELSE IF addr < font_end THEN d.font_data[(addr - font_start) \div 8][(addr - font_start) % 8]
    ELSE IF addr < frame_buffer_end THEN d.pixels[cpu_to_screen(addr - frame_buffer_start)]
    ELSE -1

InFrame(addr) == addr >= frame_buffer_start /\ addr < frame_buffer_end

\* Aligned words of the frame buffer are taken at once, the others byte by
\* byte.  The random numbers and the clock behind it are left out.
read_word(d, addr) ==
    IF addr % 4 = 0 /\ InFrame(addr)
    THEN LET word == cpu_to_screen(addr - frame_buffer_start) \div 4
         IN  [i \in 1 .. 4 |-> d.pixels[4 * word + i - 1]]
    ELSE [i \in 1 .. 4 |-> read_byte(d, addr + i - 1)]

\* Mutant of write_byte: the rows of the font are kept as they come.
write_byte_FontUpright(d, addr, value) ==
    IF addr < letter_start
    THEN IF value = d.palette_data[addr] THEN d
         ELSE redraw_colours([d EXCEPT !.palette_data[addr] = value], addr)
    ELSE IF addr < letter_end
    THEN redraw([d EXCEPT !.letter_data[addr - letter_start] = value], addr - letter_start)
    ELSE IF addr < font_end
    THEN LET pos == addr - font_start
         IN  IF pos \div 8 >= NumGlyphs \div 2
             THEN [d EXCEPT !.font_data[pos \div 8][pos % 8] = value] ELSE d
    ELSE IF addr < frame_buffer_end
    THEN [d EXCEPT !.pixels[cpu_to_screen(addr - frame_buffer_start)] = value]
    ELSE d

\* The lower half of the font is fixed; a write to the upper half changes no
\* letter that is already drawn.
write_byte(d, addr, value) ==
    IF addr < letter_start
    THEN IF value = d.palette_data[addr] THEN d
         ELSE redraw_colours([d EXCEPT !.palette_data[addr] = value], addr)
    ELSE IF addr < letter_end
    THEN redraw([d EXCEPT !.letter_data[addr - letter_start] = value], addr - letter_start)
    ELSE IF addr < font_end
    THEN LET pos == addr - font_start
         IN  IF pos \div 8 >= NumGlyphs \div 2
             THEN [d EXCEPT !.font_data[pos \div 8][7 - (pos % 8)] = value] ELSE d
    ELSE IF addr < frame_buffer_end
    THEN [d EXCEPT !.pixels[cpu_to_screen(addr - frame_buffer_start)] = value]
    ELSE d

\* Mutant of write_word: an aligned word of the frame buffer one word on.
write_word_NextWord(d, addr, value) ==
    IF addr = letter_end THEN d
    ELSE IF addr % 4 = 0 /\ InFrame(addr)
    THEN LET word == (cpu_to_screen(addr - frame_buffer_start) + 3) \div 4 + 1
         IN  [d EXCEPT !.pixels = [i \in DOMAIN @ |-> IF i \div 4 = word THEN value[(i % 4) + 1] ELSE @[i]]]
    ELSE write_byte(d, addr, value[1])

\* A word written to letter_end seeds the random numbers.
write_word(d, addr, value) ==
    IF addr = letter_end THEN d
    ELSE IF addr % 4 = 0 /\ InFrame(addr)
    THEN LET word == cpu_to_screen(addr - frame_buffer_start) \div 4
         IN  [d EXCEPT !.pixels = [i \in DOMAIN @ |-> IF i \div 4 = word THEN value[(i % 4) + 1] ELSE @[i]]]
    ELSE write_byte(write_byte(write_byte(write_byte(d, addr, value[1]), addr + 1, value[2]),
                               addr + 2, value[3]), addr + 3, value[4])

-----------------------------------------------------------------------------

\* Cell and row within the cell of a byte of the frame buffer.
CellOf(offset) == ((offset \div Width) \div 8) * Width + (offset % Width)
RowOf(offset)  == (offset \div Width) % 8

\* What a write of bytes at addr means to the guest.
Recorded(addr, bytes) ==
    LET at == [a \in addr .. addr + Len(bytes) - 1 |-> bytes[a - addr + 1]]
        seed == Len(bytes) = 4 /\ addr = letter_end
    IN  /\ glyphs' = [g \in Glyph |-> [r \in 1 .. 8 |->
                         LET a == font_start + g * 8 + r - 1
                         IN  IF a \in DOMAIN at /\ g >= NumGlyphs \div 2 /\ ~seed
                             THEN at[a] ELSE glyphs[g][r]]]
        /\ picture' = [o \in DOMAIN picture |->
                         LET letter == letter_start + CellOf(o)
                         IN  IF frame_buffer_start + o \in DOMAIN at THEN at[frame_buffer_start + o]
                             ELSE IF letter \in DOMAIN at THEN glyphs[at[letter]][RowOf(o) + 1]
                             ELSE picture[o]]
        /\ last' = [addr |-> addr, bytes |-> bytes]
        /\ writes' = writes + 1

write_byte_callback(addr, value) ==
    /\ writes < MaxWrites
    /\ display' = write_byte(display, addr, value)
    /\ Recorded(addr, <<value>>)

write_callback(addr, value) ==
    /\ writes < MaxWrites
    /\ display' = write_word(display, addr, value)
    /\ Recorded(addr, value)

\* Display.__init__(): everything is zero but the font, and drawn.
NewDisplay ==
    LET font == [g \in Glyph |-> [r \in 0 .. 7 |-> Petscii[g][8 - r]]]
    IN  [palette_data |-> [c \in Cell |-> 0], letter_data |-> [c \in Cell |-> 0], font_data |-> font,
         pixels |-> [i \in 0 .. Width * Height * 8 - 1 |-> font[0][(i \div Width) % 8]],
         quads |-> [c \in Cell |-> <<0, 0>>]]

DisplayInit ==
    /\ display = NewDisplay
    /\ last = [addr |-> 0, bytes |-> <<>>]
    /\ writes = 0
    /\ picture = [o \in 0 .. Width * Height * 8 - 1 |-> Petscii[0][RowOf(o) + 1]]
    /\ glyphs = Petscii

\* A new machine has a new display.
DisplayReset ==
    /\ display' = NewDisplay
    /\ last' = [addr |-> 0, bytes |-> <<>>]
    /\ writes' = 0
    /\ picture' = [o \in 0 .. Width * Height * 8 - 1 |-> Petscii[0][RowOf(o) + 1]]
    /\ glyphs' = Petscii

DisplayNext ==
    \E addr \in 0 .. frame_buffer_end - 1 :
        \/ \E value \in Byte : write_byte_callback(addr, value)
        \/ \E value \in Word : write_callback(addr, value)

-----------------------------------------------------------------------------
(* Properties.                                                             *)

\* Reading back: but for the font, whose rows read in reverse, each byte that
\* was written is there, read as a byte or within its aligned word.
ReadsBack ==
    \A i \in 1 .. Len(last.bytes) :
        LET addr == last.addr + i - 1
        IN  addr < letter_end \/ InFrame(addr) =>
                /\ read_byte(display, addr) = last.bytes[i]
                /\ read_word(display, addr - (addr % 4))[(addr % 4) + 1] = last.bytes[i]

\* The screen shows what the guest put there, and nothing else: a byte of the
\* frame buffer is what the guest drew there last or the row, counted as the
\* guest counts, of the glyph that the letter of its cell had when it was
\* written, whichever came last; and a cell's quad has its palette's colours.
\* Cells are counted as redraw() and the guest's terminal.c count them: from the
\* top of the screen down.  The docstring of Display has the arrays of letters and
\* colours start at the bottom left, of which this is the contrary.
ScreenShows ==
    /\ \A o \in DOMAIN picture : read_byte(display, frame_buffer_start + o) = picture[o]
    /\ \A c \in Cell :
          display.quads[c] = <<display.palette_data[c] % 16, (display.palette_data[c] \div 16) % 16>>
=============================================================================
