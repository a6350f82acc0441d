------------------------------- MODULE Console -------------------------------
(***************************************************************************)
(* The kernel's output: kprintf (kprint.c), the text console it writes to  *)
(* (drivers/vga.c) and the report of a panic (util.c, panic.c, trace.asm). *)
(*                                                                         *)
(* The display is the page of memory the console is mapped to, of which    *)
(* the first VGA_WIDTH * VGA_HEIGHT cells are visible.  Beside it runs a   *)
(* terminal as its user imagines one: lines of at most VGA_WIDTH           *)
(* characters, the last VGA_HEIGHT of them visible.  A store behind the    *)
(* page or behind kprintf's buffer has effects outside of the console; the *)
(* model ends there.                                                       *)
(***************************************************************************)
EXTENDS Format, TLC

CONSTANTS
  VGA_WIDTH, VGA_HEIGHT,
  PageCells,                \* cells of the mapped page
  KPRINT_BUFF_LEN,
  MAX_STACK_TRACE_SIZE,
  Messages,                 \* what is printed: records [fmt, args]
  Traces                    \* call chains of a panic, innermost return address first

\* The page has room for one cell of a row below the screen, not for a cell
\* of the next row (2048 cells, of which 25 rows of 80 are visible).
ASSUME ConsoleAssumption ==
  /\ VGA_WIDTH > 1 /\ VGA_HEIGHT > 1
  /\ PageCells \in VGA_WIDTH * VGA_HEIGHT + 2 .. VGA_WIDTH * (VGA_HEIGHT + 1) + 1

VARIABLES
  display,                  \* term_buff, x and y, and whether a store left the page
  printed,                  \* the message last printed, and the buffer it was rendered in
  terminal,                 \* the imagined terminal
  panicked                  \* Running, or the call chain of the panic, the loop of
                            \* stack_trace and what it has printed

vars == <<display, printed, terminal, panicked>>

VGA_TOTAL == VGA_WIDTH * VGA_HEIGHT
Blank == " "
Running == [chain |-> <<>>, saved_eips |-> <<>>, i |-> -1, trace |-> <<>>]

-----------------------------------------------------------------------------
(* vga.c *)

console_scroll_KeepsLast(cells) ==
  [i \in 0 .. VGA_TOTAL - VGA_WIDTH - 1 |-> cells[i + VGA_WIDTH]] @@ cells

\* console_scroll: the rows move up, the last becomes blank.
console_scroll(cells) ==
  [i \in 0 .. VGA_TOTAL - VGA_WIDTH - 1 |-> cells[i + VGA_WIDTH]]
    @@ [j \in VGA_TOTAL - VGA_WIDTH .. VGA_TOTAL - 1 |-> Blank] @@ cells

ScrollAt_OneLate == VGA_HEIGHT + 1

\* The row at which the screen is full.
ScrollAt == VGA_HEIGHT

\* One turn of the loop of console_write_string; the column advances before
\* the character is stored.
PutChar(d, c) ==
  LET wrapped == IF d.x >= VGA_WIDTH THEN [d EXCEPT !.x = 0, !.y = @ + 1] ELSE d
      room == IF wrapped.y >= ScrollAt
              THEN [wrapped EXCEPT !.cells = console_scroll(@), !.y = @ - 1] ELSE wrapped
      cell == room.y * VGA_WIDTH + room.x + 1
  IN CASE d.stray -> d
       [] c = "\n" -> [d EXCEPT !.y = @ + 1, !.x = 0]
       [] c = "\r" -> [d EXCEPT !.x = 0]
       [] OTHER -> [room EXCEPT !.x = @ + 1, !.stray = cell >= PageCells,
                                !.cells = IF cell < PageCells THEN [@ EXCEPT ![cell] = c] ELSE @]

\* console_write_string, up to the terminator.
console_write_string(d, str) ==
  FoldLeft(PutChar, d, SubSeq(str, 1, CHOOSE n \in 0 .. Len(str) - 1 :
                                        str[n + 1] = NUL /\ \A i \in 1 .. n : str[i] # NUL))

-----------------------------------------------------------------------------
(* The imagined terminal: the visible lines, the column, the newlines that  *)
(* came after the last character, and how many empty lines there were (2    *)
(* stands for more).                                                        *)

Lower(m, n) == IF m < n THEN m ELSE n

\* It moves up one line with a character, not more.  Lines that are still
\* below the screen after that wait for the next ones; what is written to them
\* is lost.
TerminalChar(t, c) ==
  LET full == t.column = VGA_WIDTH
      down == t.newlines + (IF full THEN 1 ELSE 0)
      lines == t.lines \o [i \in 1 .. down |-> <<>>]
      moved == IF Len(lines) > VGA_HEIGHT THEN Tail(lines) ELSE lines
      column == IF full THEN 0 ELSE t.column
      last == moved[Len(moved)]
      shown == IF Len(moved) > VGA_HEIGHT THEN Blank ELSE c
  IN CASE c = "\n" -> [t EXCEPT !.newlines = @ + 1, !.column = 0]
       [] c = "\r" -> [t EXCEPT !.column = 0]
       [] OTHER -> [lines |-> [moved EXCEPT ![Len(moved)] =
                                 Take(last, column) \o <<shown>> \o SubSeq(last, column + 2, Len(last))],
                    newlines |-> 0, column |-> column + 1,
                    empty |-> Lower(2, t.empty + Max({0, t.newlines - 1}))]

-----------------------------------------------------------------------------
(* Printing *)

\* No store has gone astray so far.
Sound == ~ display.stray /\ Len(printed.buff) <= KPRINT_BUFF_LEN

Imagined(t, text) == FoldLeft(TerminalChar, t, text)

\* What one call of kprintf does to all but the panic's own variables.
kprintf(msg) ==
  LET buff == vsprintf_s(KPRINT_BUFF_LEN, msg.fmt, msg.args)
  IN /\ Sound
     /\ display' = console_write_string(display, buff)
     /\ printed' = [msg |-> msg, buff |-> buff]
     /\ terminal' = Imagined(terminal, Front(buff))

\* kprintf and log, from anywhere in the running kernel.
print(msg) ==
  /\ panicked = Running
  /\ kprintf(msg)
  /\ UNCHANGED panicked

arch_stack_walk_TooFew(chain, max) == Take(chain, max - 1)

\* arch_stack_walk: the return addresses up to the frame that ends the chain,
\* or as many as there is room for.
arch_stack_walk(chain, max) ==
  LET descent[n \in Nat] ==
        IF n = Len(chain) \/ n = max THEN <<>> ELSE <<chain[n + 1]>> \o descent[n + 1]
  IN descent[0]

\* The format of an address: 0x%08x and a newline.
AddressFmt == <<Lit("0"), Lit("x"), Dir("x", "0", 8), Lit("\n")>>

\* arch_panic_hook up to the loop of stack_trace.
arch_panic_hook(chain) ==
  LET saved_eips == arch_stack_walk(chain, MAX_STACK_TRACE_SIZE)
  IN [chain |-> chain, saved_eips |-> saved_eips, i |-> Len(saved_eips), trace |-> <<>>]

\* panic; `report' stands for its messages before the trace.
panic(report, chain) ==
  /\ panicked = Running
  /\ kprintf(report)
  /\ panicked' = arch_panic_hook(chain)

\* One turn of the loop of stack_trace; after the last the kernel halts.
stack_trace ==
  /\ panicked # Running /\ panicked.i > 0
  /\ kprintf([fmt |-> AddressFmt, args |-> <<panicked.saved_eips[panicked.i]>>])
  /\ panicked' = [panicked EXCEPT !.i = @ - 1, !.trace = Append(@, panicked.saved_eips[panicked.i])]

-----------------------------------------------------------------------------
\* console_init; what is behind the visible cells is unknown.
Init ==
  /\ display = [x |-> 0, y |-> 0, stray |-> FALSE,
                cells |-> [i \in 0 .. PageCells - 1 |-> IF i < VGA_TOTAL THEN Blank ELSE "?"]]
  /\ printed = [msg |-> [fmt |-> <<>>, args |-> <<>>], buff |-> <<NUL>>]
  /\ terminal = [lines |-> <<<<>>>>, column |-> 0, newlines |-> 0, empty |-> 0]
  /\ panicked = Running

Next ==
  \/ \E msg \in Messages : print(msg)
  \/ \E msg \in Messages, chain \in Traces : panic(msg, chain)
  \/ stack_trace

Spec == Init /\ [][Next]_vars

-----------------------------------------------------------------------------
(* Properties *)

\* Every variable has its type.  In particular a store of the console leaves
\* the page it is mapped to only after a second empty line: not because the
\* column is advanced first, which puts the last column of the last row behind
\* the visible cells, nor after one empty line at the bottom.
TypeOK ==
  /\ DOMAIN display.cells = 0 .. PageCells - 1
  /\ display.x \in 0 .. VGA_WIDTH /\ display.y \in Nat
  /\ display.stray => terminal.empty = 2
  /\ (terminal.empty = 0 /\ terminal.newlines < 2) => display.y <= VGA_HEIGHT

\* The one-pass vsprintf_s puts into the buffer the beginning of the text of
\* the message, directive by directive: all of it if there is room, and
\* otherwise at most the digits with their padding and a terminator too much.
\* The text differs from that of printf in three points: a bare %x is padded
\* like the last directive that gave a width, %% prints nothing, and an unknown
\* directive prints a percent sign.
FormatExact ==
  LET text == Message(printed.msg.fmt, printed.msg.args)
      excess == NumberChars(printed.msg.fmt, printed.msg.args) + 1
  IN /\ IsPrefix(Front(printed.buff), text) /\ Last(printed.buff) = NUL
     /\ Len(text) < KPRINT_BUFF_LEN => Front(printed.buff) = text
     /\ Len(printed.buff) <= KPRINT_BUFF_LEN + excess

\* Through wraps, delayed scrolling and carriage returns the screen shows the
\* last lines printed, each in its row, one column to the right.  The
\* character that fills a line has no column of its own and is not covered.
\* The scroll comes with a character and moves one line only: a line that
\* comes after an empty one at the bottom loses its first character, and no
\* other line does.
ScreenShowsText ==
  display.stray \/
    /\ \A r \in 1 .. VGA_HEIGHT, c \in 1 .. VGA_WIDTH - 1 :
         display.cells[(r - 1) * VGA_WIDTH + c] =
           IF r <= Len(terminal.lines) /\ c <= Len(terminal.lines[r])
           THEN terminal.lines[r][c] ELSE Blank
    /\ Len(terminal.lines) > VGA_HEIGHT => terminal.empty > 0

\* The trace of a panic lists the calls from the outermost down to the one
\* that panicked; of a deeper chain, the innermost MAX_STACK_TRACE_SIZE.
TraceInOrder ==
  panicked.i = 0 =>
    LET n == Len(panicked.chain)
        shown == IF n < MAX_STACK_TRACE_SIZE THEN n ELSE MAX_STACK_TRACE_SIZE
    IN panicked.trace = [k \in 1 .. shown |-> panicked.chain[shown - k + 1]]
=============================================================================
