------------------------------ MODULE Terminal ------------------------------
(***************************************************************************)
(* The display nanorl draws on: a VT100-style terminal behind the echo     *)
(* file.  It is external to the repository; only what render.c relies on   *)
(* is modelled: automatic right margin, scrolling, absolute cursor         *)
(* addressing and line feed.                                               *)
(*                                                                         *)
(* Cells are numbered from 0 on an endless tape, Cols to a row, and the    *)
(* screen is the window of Rows rows that starts at row "top".  A row that *)
(* scrolls off keeps its cells, so a cell has one number for ever.         *)
(***************************************************************************)
EXTENDS Integers, Sequences, SequencesExt

CONSTANTS
  Rows,       \* height of the screen
  Cols,       \* width of the screen
  Width,      \* columns taken by each glyph: 0 (combining), 1 or 2 (wide)
  Blank       \* the glyph of an empty cell

ASSUME TerminalAssumption ==
  /\ Rows \in Nat \ {0}
  /\ Cols \in Nat \ {0, 1}
  /\ \A g \in DOMAIN Width : Width[g] \in 0..2
  /\ Blank \in DOMAIN Width
  /\ Width[Blank] = 1

(* The terminal once a prompt was printed from the top left corner: the      *)
(* cursor stands on cell p, or, when the prompt ended in the last column     *)
(* (wrap), stays there until the next glyph.                                 *)
Prompted(p, wrap, glyph) ==
  [ tape |-> [q \in 0..(IF wrap THEN p ELSE p - 1) |-> glyph],
    at   |-> p,
    wrap |-> wrap,
    top  |-> 0 ]

Cell(t, p) == IF p \in DOMAIN t.tape THEN t.tape[p] ELSE Blank

(* The cursor is on the screen; a wrap is pending only in the last column. *)
IsTerminal(t) ==
  /\ DOMAIN t = {"tape", "at", "wrap", "top"}
  /\ t.at \in Nat /\ t.top \in Nat /\ t.wrap \in BOOLEAN
  /\ t.top * Cols <= t.at /\ t.at < (t.top + Rows) * Cols
  /\ t.wrap => (t.at + 1) % Cols = 0
  /\ DOMAIN t.tape \subseteq Nat

(* Where the next narrow glyph goes; this is what a user sees as the cursor. *)
Insertion(t) == IF t.wrap THEN t.at + 1 ELSE t.at

(* Put the cursor on cell p, scrolling when it lies below the screen. *)
Reach(t, p) ==
  LET row == p \div Cols
  IN  [t EXCEPT !.at = p,
                !.wrap = FALSE,
                !.top = IF row >= @ + Rows THEN row - Rows + 1 ELSE @]

Written(tape, cells, g) ==
  [q \in DOMAIN tape \cup cells |-> IF q \in cells THEN g ELSE tape[q]]

(* One glyph.  A wide glyph never straddles the margin: it wraps whole.      *)
(* Filling the last column leaves the cursor there with a pending wrap.      *)
(* A combining glyph joins the cell before it and moves nothing.             *)
Put(t, g) ==
  LET w     == Width[g]
      first == Insertion(t)
      p     == IF (first % Cols) + w > Cols THEN ((first \div Cols) + 1) * Cols ELSE first
      next  == p + w
      full  == (next % Cols) = 0
  IN  IF w = 0 THEN t
      ELSE [Reach(t, p) EXCEPT !.tape = Written(@, p..(next - 1), g),
                               !.at = IF full THEN next - 1 ELSE next,
                               !.wrap = full]

PutAll(t, glyphs) == FoldLeft(Put, t, glyphs)

(* "\n" with output post-processing left on: start of the next row. *)
LineFeed(t) == Reach(t, ((t.at \div Cols) + 1) * Cols)

(* cursor_address: screen coordinates from 0, clamped to the screen. *)
Address(t, pos) ==
  LET row == IF pos.row < Rows THEN pos.row ELSE Rows - 1
      col == IF pos.col < Cols THEN pos.col ELSE Cols - 1
  IN  [t EXCEPT !.at = (t.top + row) * Cols + col, !.wrap = FALSE]

(* The coordinates a cursor position report gives. *)
Report(t) == [row |-> (t.at \div Cols) - t.top, col |-> t.at % Cols]
=============================================================================
