------------------------------ MODULE VideoMem ------------------------------
(***************************************************************************)
(* The text screen of videomem.S, which is used before the kernel has its  *)
(* serial port: a ring of rows, in which a new line takes the place of the *)
(* oldest one.                                                             *)
(***************************************************************************)
EXTENDS Naturals, Sequences

CONSTANTS ROWS, COLS    \* 25, 80

ASSUME VideoConstants == ROWS \in Nat \ {0} /\ COLS \in Nat \ {0}

VARIABLES
  vga,      \* video memory, videomem_row and videomem_col
  printed   \* all characters printed so far

Blank     == " "
EmptyLine == [k \in 0..(COLS - 1) |-> Blank]
Cleared   == [r \in 0..(ROWS - 1) |-> EmptyLine]

videomem_putchar_at(s, ch, r, k) == [s EXCEPT !.cells[r][k] = ch]
videomem_empty_line(s, r)        == [s EXCEPT !.cells[r] = EmptyLine]

\* Mutant: the row that is left is cleared.
newlineClearsOld(s) ==
  [videomem_empty_line(s, s.row) EXCEPT !.row = (@ + 1) % ROWS, !.col = 0]

newline(s) ==
  LET r == (s.row + 1) % ROWS
  IN  [videomem_empty_line(s, r) EXCEPT !.row = r, !.col = 0]

videomem_putchar(s, ch) ==
  CASE ch = "\n" -> newline(s)
    [] ch = "\r" -> [s EXCEPT !.col = 0]
    [] OTHER     ->
         LET t == videomem_putchar_at(s, ch, s.row, s.col)
         IN  IF s.col + 1 = COLS THEN newline(t) ELSE [t EXCEPT !.col = @ + 1]

videomem_puts(text) ==
  /\ vga' = LET after[k \in 0..Len(text)] ==
                  IF k = 0 THEN vga
                  ELSE LET s == after[k - 1] IN videomem_putchar(s, text[k])
            IN  after[Len(text)]
  /\ printed' = printed \o text

videomem_clrscr == vga' = [vga EXCEPT !.cells = Cleared] /\ UNCHANGED printed

-----------------------------------------------------------------------------
(* Where an endless screen, on which nothing scrolls away, has its cursor  *)
(* after the first k characters.                                           *)
Cursor ==
  LET cursor[k \in 0..Len(printed)] ==
        IF k = 0 THEN [line |-> 0, col |-> 0]
        ELSE LET p == cursor[k - 1]
             IN  IF printed[k] = "\n" \/ p.col + 1 = COLS
                 THEN [line |-> p.line + 1, col |-> 0]
                 ELSE [line |-> p.line, col |-> p.col + 1]
  IN  cursor

(* The screen shows the last ROWS lines of what was printed, each in its   *)
(* place and nothing else: no line is cleared that is not the oldest, and  *)
(* no rest of an older line shows behind a shorter new one.                *)
Screen ==
  LET cursor == Cursor
      last   == cursor[Len(printed)].line
      shown  == {k \in 1..Len(printed) :
                   printed[k] # "\n" /\ cursor[k - 1].line + ROWS > last}
      there(r, c) == {k \in shown : cursor[k - 1].line % ROWS = r
                                    /\ cursor[k - 1].col = c}
  IN  \A r \in 0..(ROWS - 1), c \in 0..(COLS - 1) :
        vga.cells[r][c] = IF there(r, c) = {} THEN Blank
                          ELSE printed[CHOOSE k \in there(r, c) : TRUE]
=============================================================================
