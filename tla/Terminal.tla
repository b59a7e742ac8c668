------------------------------ MODULE Terminal -------------------------------
(***************************************************************************)
(* The text terminal (src/kernel.c), kpanic, and the memory that strings   *)
(* are written from (src/common.c).                                        *)
(*                                                                         *)
(* terminal_buffer is the display's memory.  Scrolling moves it up in      *)
(* place, cell by cell and one cell more than a row has, so that it reads  *)
(* and clears the cell behind the display too.                             *)
(***************************************************************************)
EXTENDS Strings, Sequences

CONSTANTS
    VGA_WIDTH, VGA_HEIGHT,
    Size, Bytes,    \* the memory strings are in: its size, the bytes written to it
    Keys,           \* characters the keyboard handler puts
    Words,          \* numbers printed in hexadecimal
    Message         \* kpanic's message

Newline == 10
BackspaceKey == 8
Grey == 7           \* vga_entry_color(VGA_COLOR_LIGHT_GREY, VGA_COLOR_BLACK)
PanicColor == 20    \* vga_entry_color(4, 1)

ASSUME TerminalAssumption ==
    /\ VGA_WIDTH \in Nat \ {0} /\ VGA_HEIGHT \in Nat \ {0} /\ Size \in Nat
    /\ 0 \in Bytes /\ Bytes \cup Keys \subseteq 0..255 /\ Message \in Seq(0..255)
    /\ Words \subseteq Nat

VARIABLES
    term,           \* terminal_row, terminal_column, terminal_color, terminal_buffer
    mem,            \* the memory
    stopped,        \* kpanic's endless loop
    doc             \* history: the last VGA_HEIGHT lines written, the last one last

terminalVars == <<term, mem, stopped, doc>>

vga_entry(c, color) == <<c, color>>
Blank == vga_entry(32, Grey)
Cleared == vga_entry(0, 0)
Behind == VGA_WIDTH * VGA_HEIGHT      \* the cell behind the display
Cell(x, y) == y * VGA_WIDTH + x

terminal_initialize ==
    [row |-> 0, column |-> 0, color |-> Grey,
     buffer |-> [n \in 0..Behind |-> IF n < Behind THEN Blank ELSE Cleared]]

-----------------------------------------------------------------------------
Moves == (VGA_HEIGHT - 1) * (VGA_WIDTH + 1)

\* Defect: the cells are moved from the last one on.
MovedUpBackwards(b) ==
    LET moved[n \in 0..Moves] ==
          IF n = 0 THEN b
          ELSE LET to == Cell((Moves - n) % (VGA_WIDTH + 1), (Moves - n) \div (VGA_WIDTH + 1))
               IN  [moved[n - 1] EXCEPT ![to] = moved[n - 1][to + VGA_WIDTH]]
    IN  moved[Moves]

\* The two loops that move the rows up, x running to VGA_WIDTH inclusive.
MovedUp(b) ==
    LET moved[n \in 0..Moves] ==
          IF n = 0 THEN b
          ELSE LET to == Cell((n - 1) % (VGA_WIDTH + 1), (n - 1) \div (VGA_WIDTH + 1))
               IN  [moved[n - 1] EXCEPT ![to] = moved[n - 1][to + VGA_WIDTH]]
    IN  moved[Moves]

\* The end of terminal_putchar: a row below the last one scrolls.
Scrolled(t) ==
    IF t.row < VGA_HEIGHT THEN t
    ELSE [t EXCEPT !.row = t.row - 1, !.column = 0,
                   !.buffer = [n \in 0..Behind |-> IF n >= Cell(0, VGA_HEIGHT - 1) THEN Cleared
                                                 ELSE MovedUp(t.buffer)[n]]]

terminal_putentryat(t, c) ==
    [t EXCEPT !.buffer[Cell(t.column, t.row)] = vga_entry(c, t.color)]

terminal_putchar(t, c) ==
    Scrolled(
      CASE c = Newline -> [t EXCEPT !.row = @ + 1, !.column = 0]
        [] c = BackspaceKey /\ t.column > 0 ->
             [t EXCEPT !.column = @ - 1, !.buffer[Cell(t.column - 1, t.row)] = Cleared]
        [] c = BackspaceKey /\ t.column = 0 -> t
        [] OTHER ->
             IF t.column + 1 = VGA_WIDTH
             THEN [terminal_putentryat(t, c) EXCEPT !.column = 0, !.row = @ + 1]
             ELSE [terminal_putentryat(t, c) EXCEPT !.column = @ + 1])

terminal_write(t, chars) ==
    LET put[n \in 0..Len(chars)] ==
          IF n = 0 THEN t ELSE terminal_putchar(put[n - 1], chars[n])
    IN  put[Len(chars)]

\* The characters of the string at a.
StringAt(a) == [n \in 1..strlen(mem, a) |-> mem[a + n - 1]]

HexDigit(d) == IF d < 10 THEN 48 + d ELSE 55 + d
terminal_printhex(key) == <<HexDigit((key % 256) \div 16), HexDigit(key % 16)>>
terminal_printhex16(key) == terminal_printhex((key % 65536) \div 256) \o terminal_printhex(key % 256)
terminal_printhex32(key) == terminal_printhex16(key \div 65536) \o terminal_printhex16(key % 65536)

-----------------------------------------------------------------------------
(* What is to be seen: lines of entries, of which the last ones are kept.  *)

LastLines(d) == IF Len(d) > VGA_HEIGHT THEN Tail(d) ELSE d
Written(d, c, color) ==
    LET line == d[Len(d)]
        added == [d EXCEPT ![Len(d)] = Append(line, vga_entry(c, color))]
    IN  LastLines(CASE c = Newline -> Append(d, <<>>)
                    [] c = BackspaceKey -> [d EXCEPT ![Len(d)] = SubSeq(line, 1, Len(line) - 1)]
                    [] OTHER -> IF Len(line) + 1 = VGA_WIDTH THEN Append(added, <<>>) ELSE added)
WrittenAll(d, chars, color) ==
    LET w[n \in 0..Len(chars)] == IF n = 0 THEN d ELSE Written(w[n - 1], chars[n], color)
    IN  w[Len(chars)]

-----------------------------------------------------------------------------
TerminalInit ==
    /\ term = terminal_initialize
    /\ mem \in [0..(Size - 1) -> Bytes]
    /\ stopped = FALSE /\ doc = << <<>> >>

Show(chars) ==
    /\ ~stopped
    /\ term' = terminal_write(term, chars)
    /\ doc' = WrittenAll(doc, chars, term.color)
    /\ UNCHANGED <<mem, stopped>>

PutChar(c) == Show(<<c>>)
terminal_writestring(a) == IsString(mem, a) /\ Show(StringAt(a))
PrintHex(key) == Show(terminal_printhex32(key))

\* kpanic: the message in another color, and an endless loop.
kpanic ==
    /\ ~stopped /\ stopped' = TRUE
    /\ term' = terminal_write([term EXCEPT !.color = PanicColor], Message)
    /\ doc' = WrittenAll(doc, Message, PanicColor)
    /\ UNCHANGED mem

\* The copies that stay in the memory.
Copies == {c \in (0..(Size - 1)) \X (0..(Size - 1)) \X (0..Size) :
             c[1] + c[3] <= Size /\ c[2] + c[3] <= Size}

ChangeMemory ==
    /\ ~stopped
    /\ \/ \E c \in Copies : \/ mem' = memcpy(mem, c[1], c[2], c[3])
                            \/ mem' = memmove(mem, c[1], c[2], c[3])
                            \/ mem' = memset(mem, c[1], 0, c[3])
       \/ \E a \in 0..(Size - 1), v \in Bytes : mem' = [mem EXCEPT ![a] = v]
    /\ UNCHANGED <<term, stopped, doc>>

TerminalNext ==
    \/ \E c \in Keys : PutChar(c)
    \/ \E a \in 0..(Size - 1) : terminal_writestring(a)
    \/ \E key \in Words : PrintHex(key)
    \/ kpanic
    \/ ChangeMemory

TerminalSpec == TerminalInit /\ [][TerminalNext]_terminalVars

-----------------------------------------------------------------------------
(* Properties.                                                             *)

\* The display shows the last lines written, in their colors, and nothing else, and
\* the cursor stands behind the last character: whatever is scrolled in place, with
\* a cell too many in every row, wrapped and taken back.
ShowsLastLines ==
    /\ term.row = Len(doc) - 1 /\ term.column = Len(doc[Len(doc)])
    /\ \A y \in 0..(VGA_HEIGHT - 1), x \in 0..(VGA_WIDTH - 1) :
         IF y < Len(doc) /\ x < Len(doc[y + 1])
         THEN term.buffer[Cell(x, y)] = doc[y + 1][x + 1]
         ELSE term.buffer[Cell(x, y)] \in {Blank, Cleared}

\* The bytes that a copy should leave behind.
Moved(c) ==
    [b \in 0..(Size - 1) |-> IF b \in c[1]..(c[1] + c[3] - 1) THEN mem[b - c[1] + c[2]] ELSE mem[b]]

\* A copy leaves the bytes that were at its source, however the two overlap; for
\* memcpy unless the destination begins inside the source.  Then the two compare
\* equal, as they were.
CopiesRight ==
    \A c \in Copies :
        /\ memmove(mem, c[1], c[2], c[3]) = Moved(c)
        /\ c[1] \in (c[2] + 1)..(c[2] + c[3] - 1) \/ memcpy(mem, c[1], c[2], c[3]) = Moved(c)
        /\ c[1] + c[3] <= c[2] =>
             /\ memcmp(memcpy(mem, c[1], c[2], c[3]), c[1], c[2], c[3]) = 0
             /\ strncmp(memcpy(mem, c[1], c[2], c[3]), c[1], c[2], c[3]) = 0
=============================================================================
