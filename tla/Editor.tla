------------------------------- MODULE Editor -------------------------------
(***************************************************************************)
(* One line being edited: the main loop of nanorl() after the reader has   *)
(* decoded an input event, the line manipulations of manip.c and the       *)
(* renderer of render.c, down to the cells of the terminal.                *)
(*                                                                         *)
(* The reader is abstracted to its events: a text, a key, a custom key, or *)
(* the end of the line, each with the flag "more" that says whether input  *)
(* is still buffered.                                                      *)
(***************************************************************************)
EXTENDS Terminal

CONSTANTS
  Char,       \* characters that can be typed
  Texts,      \* for each setup, what one event may insert: a character, "^X" for a control
              \* code, or the printed form of a custom key that nobody handles
  Replies,    \* what a custom escape handler may return: a text, the number of characters
              \* before its cursor, and whether a UTF-8 cursor is inside of the next one
  Setups,     \* the echo mode a call may be given, and whether its terminal is smart
  Star,       \* the glyph that hides a character in obscured mode
  Starts,     \* the terminals a session may start on, prompt printed
  MaxLen      \* bound of the model on the length of the line

ASSUME LineAssumption ==
  /\ \A s \in Setups : Texts[s] \subseteq Seq(Char)
  /\ \A r \in Replies :
       /\ r.text \in Seq(Char) /\ r.point \in 0..Len(r.text)
       /\ r.inside => r.point < Len(r.text)
  /\ MaxLen \in Nat

(* A prompt leaves nothing behind its end. *)
ASSUME StartAssumption ==
  \A t \in Starts : IsTerminal(t) /\ DOMAIN t.tape \subseteq 0..(Insertion(t) - 1)

ASSUME DisplayAssumption ==
  /\ Setups \subseteq [echo_mode : {"off", "on", "obscured"}, smart : BOOLEAN]
  /\ Char \cup {Star} \subseteq DOMAIN Width
  /\ Width[Star] = 1

VARIABLES
  echo_mode, term_smart,                    \* statics of render.c, set by its init
  buffer, cursor, render_cursor, dirty,     \* line_data
  cursor_pos, last_rendered_width,          \* statics of render.c
  term,                                     \* the terminal behind echo_file
  start,                                    \* history: term when editing began
  pc                                        \* where the main loop is

Setup  == [echo_mode |-> echo_mode, smart |-> term_smart]
given  == <<echo_mode, term_smart, start>>
line   == <<buffer, cursor, render_cursor, dirty>>
screen == <<cursor_pos, last_rendered_width, term>>
vars   == <<line, screen, given, pc>>

-----------------------------------------------------------------------------
(* Measuring text. *)

(* The glyphs a text is drawn with. *)
Drawn(text) ==
  CASE echo_mode = "on"       -> text
    [] echo_mode = "obscured" -> [i \in 1..Len(text) |-> Star]
    [] echo_mode = "off"      -> <<>>

TextWidth(glyphs) == FoldLeft(LAMBDA sum, g : sum + Width[g], 0, glyphs)

Prefix(text, n) == SubSeq(text, 1, n)

(* Mutant of MoveWidth: hidden characters measured by their own width. *)
MoveWidthUnhidden(text, from, to) ==
  TextWidth(Prefix(text, to)) - TextWidth(Prefix(text, from))

(* Columns between two indices of the line: the loop of move_to_pos_normal,  *)
(* which steps over whole characters, or the plain difference of indices.    *)
MoveWidth(text, from, to) ==
  TextWidth(Drawn(Prefix(text, to))) - TextWidth(Drawn(Prefix(text, from)))

(* Mutant of Offset: rows counted by the screen's height. *)
OffsetByRows(origin, n) ==
  LET p == origin.row * Rows + origin.col + n
  IN  IF p < 0 THEN [row |-> 0, col |-> 0]
      ELSE [row |-> p \div Cols, col |-> p % Cols]

(* linear_offset_to_2d, with its fallback for what scrolled off the top. *)
Offset(origin, n) ==
  LET p == origin.row * Cols + origin.col + n
  IN  IF p < 0 THEN [row |-> 0, col |-> 0]
      ELSE [row |-> p \div Cols, col |-> p % Cols]

(* Mutant of RowsScrolled: the row below the screen does not count. *)
RowsScrolledLate(pos) == IF pos.row > Rows THEN pos.row - Rows + 1 ELSE 0

(* handle_scroll: rows the terminal scrolled, or must be made to scroll. *)
RowsScrolled(pos) == IF pos.row >= Rows THEN pos.row - Rows + 1 ELSE 0

(* Blanks printed over what the last redraw left behind the new text. *)
EraseCount(text) == last_rendered_width - Len(text)

Blanks(n) == [i \in 1..n |-> Blank]

-----------------------------------------------------------------------------
(* nrl_render_init, on a terminal whose prompt is already printed. *)
Init ==
  /\ \E s \in Setups : echo_mode = s.echo_mode /\ term_smart = s.smart
  /\ buffer = <<>> /\ cursor = 0 /\ render_cursor = 0 /\ dirty = FALSE
  /\ start \in Starts
  /\ term = start
  /\ cursor_pos = IF term_smart /\ echo_mode # "off" THEN Report(start)
                  ELSE [row |-> 0, col |-> 0]
  /\ last_rendered_width = 0
  /\ pc = "read"

(* The tail of the main loop: redraw once nothing more is buffered. *)
Continue(more) == pc' = IF ~more /\ dirty' THEN "redraw" ELSE "read"

(* nrl_render_sync_cursors, while the line still holds "text". *)
SyncCursors(text, to) ==
  IF echo_mode = "off"
  THEN UNCHANGED <<render_cursor, screen>>
  ELSE /\ render_cursor' = to
       /\ cursor_pos' = Offset(cursor_pos, MoveWidth(text, render_cursor, to))
       /\ term' = Address(term, cursor_pos')
       /\ UNCHANGED last_rendered_width

(* Mutant of MoveCursor: the terminal's cursor stays behind. *)
MoveCursorUnsynced(to) == cursor' = to /\ UNCHANGED <<render_cursor, screen>>

MoveCursor(to) == cursor' = to /\ SyncCursors(buffer, to)

(* Mutant of Erase: the character behind the one under the cursor goes. *)
EraseNext(text, i) == Prefix(text, i + 1) \o SubSeq(text, i + 3, Len(text))

Erase(text, i) == Prefix(text, i) \o SubSeq(text, i + 2, Len(text))

Splice(text, i, s) == Prefix(text, i) \o s \o SubSeq(text, i + 1, Len(text))

-----------------------------------------------------------------------------
(* INPUT_TEXT *)
InsertText(s, more) ==
  /\ pc = "read"
  /\ Len(buffer) + Len(s) <= MaxLen
  /\ buffer' = Splice(buffer, cursor, s)
  /\ cursor' = cursor + Len(s)
  /\ dirty' = TRUE
  /\ Continue(more)
  /\ UNCHANGED <<render_cursor, screen, given>>

(* INPUT_ESCAPE.  Every handler but escape_delete moves the terminal's       *)
(* cursor, and escape_left does so on the text before the deletion.          *)

(* The terminal can be told to, or nobody tells it to (with echo off, and    *)
(* then only in a build without asserts).                                    *)
Moving == term_smart \/ echo_mode = "off"

(* Mutant of EscapeLeft: no test for the start of the line. *)
EscapeLeftUnguarded(more) ==
  /\ pc = "read" /\ Moving
  /\ MoveCursor(cursor - 1)
  /\ UNCHANGED <<buffer, dirty, given>>
  /\ Continue(more)

EscapeLeft(more) ==
  /\ pc = "read" /\ Moving
  /\ cursor > 0
  /\ MoveCursor(cursor - 1)
  /\ UNCHANGED <<buffer, dirty, given>>
  /\ Continue(more)

EscapeRight(more) ==
  /\ pc = "read" /\ Moving
  /\ cursor < Len(buffer)
  /\ MoveCursor(cursor + 1)
  /\ UNCHANGED <<buffer, dirty, given>>
  /\ Continue(more)

EscapeHome(more) ==
  /\ pc = "read" /\ Moving
  /\ MoveCursor(0)
  /\ UNCHANGED <<buffer, dirty, given>>
  /\ Continue(more)

EscapeEnd(more) ==
  /\ pc = "read" /\ Moving
  /\ MoveCursor(Len(buffer))
  /\ UNCHANGED <<buffer, dirty, given>>
  /\ Continue(more)

EscapeDelete(more) ==
  /\ pc = "read"
  /\ cursor < Len(buffer)
  /\ buffer' = Erase(buffer, cursor)
  /\ dirty' = TRUE
  /\ UNCHANGED <<cursor, render_cursor, screen, given>>
  /\ Continue(more)

EscapeBackspace(more) ==
  /\ pc = "read" /\ Moving
  /\ cursor > 0
  /\ MoveCursor(cursor - 1)
  /\ buffer' = Erase(buffer, cursor - 1)
  /\ dirty' = TRUE
  /\ UNCHANGED given
  /\ Continue(more)

(* The cursor a handler returned.  Inside of a UTF-8 character it is moved   *)
(* back to where the text and the text cut there, an error character and a   *)
(* terminator at its end, agree, and one on: before the character, or, as    *)
(* the terminators agree when it is the last one, behind the line.           *)
Landing(r) == IF r.inside /\ Len(r.text) = r.point + 1 THEN r.point + 2 ELSE r.point

(* Inside of the first character of several nothing agrees. *)
Lost(r) == r.inside /\ r.point = 0 /\ Len(r.text) > 1

(* INPUT_CUSTOM_ESCAPE with a handler, which init installs only for          *)
(* NRL_ECHO_ON: the line is handed over whole and comes back whole.          *)
EvalCustom(reply, more) ==
  /\ pc = "read" /\ term_smart
  /\ echo_mode = "on"
  /\ ~Lost(reply)
  /\ SyncCursors(buffer, 0)
  /\ buffer' = reply.text
  /\ cursor' = Landing(reply)
  /\ dirty' = TRUE
  /\ UNCHANGED given
  /\ Continue(more)

(* The search goes on to index -1, as an unsigned one: 16 GiB past both texts *)
(* there is no memory.                                                        *)
HandlerFault(reply) ==
  /\ pc = "read" /\ term_smart
  /\ echo_mode = "on"
  /\ Lost(reply)
  /\ pc' = "aborted"
  /\ UNCHANGED <<line, screen, given>>

(* A key at the end it cannot pass, or a custom key that is ignored. *)
NoEffect(more) ==
  /\ pc = "read"
  /\ UNCHANGED <<line, screen, given>>
  /\ Continue(more)

(* assert(term_smart): the process ends at the first key that moves the      *)
(* cursor.  With asserts compiled out it ends, too, on a division by a zero  *)
(* width, unless the echo is off.                                            *)
Abort ==
  /\ pc = "read" /\ ~term_smart
  /\ pc' = "aborted"
  /\ UNCHANGED <<line, screen, given>>

-----------------------------------------------------------------------------
(* nrl_render_redraw *)

RedrawSmart ==
  LET home     == Offset(cursor_pos, MoveWidth(buffer, render_cursor, 0))
      printed  == PutAll(Address(term, home), Drawn(buffer))
      end      == Offset(home, TextWidth(Drawn(buffer)))
      gone     == RowsScrolled(end)
      scrolled == IF gone > 0 /\ end.col = 0 THEN LineFeed(printed) ELSE printed
      erased   == PutAll(scrolled, Blanks(EraseCount(buffer)))
  IN  /\ cursor_pos' = Offset([end EXCEPT !.row = @ - gone],
                              MoveWidth(buffer, Len(buffer), cursor))
      /\ term' = Address(erased, cursor_pos')
      /\ last_rendered_width' = TextWidth(Drawn(buffer))
      /\ render_cursor' = cursor

RedrawDumb ==
  /\ term' = PutAll(term, Drawn(SubSeq(buffer, render_cursor + 1, Len(buffer))))
  /\ UNCHANGED <<render_cursor, cursor_pos, last_rendered_width>>

Redraw ==
  /\ pc = "redraw"
  /\ IF echo_mode = "off" THEN UNCHANGED <<render_cursor, screen>>
     ELSE IF term_smart THEN RedrawSmart ELSE RedrawDumb
  /\ dirty' = FALSE
  /\ pc' = "read"
  /\ UNCHANGED <<buffer, cursor, given>>

(* INPUT_STOP: newline, end of file or an interrupted read. *)
ReadStop ==
  /\ pc = "read"
  /\ pc' = "done"
  /\ UNCHANGED <<line, screen, given>>

-----------------------------------------------------------------------------
Event(more) ==
  \/ \E s \in Texts[Setup] : InsertText(s, more)
  \/ EscapeLeft(more)
  \/ EscapeRight(more)
  \/ EscapeHome(more)
  \/ EscapeEnd(more)
  \/ EscapeDelete(more)
  \/ EscapeBackspace(more)
  \/ \E r \in Replies : EvalCustom(r, more)
  \/ NoEffect(more)

Next ==
  \/ \E more \in BOOLEAN : Event(more)
  \/ \E r \in Replies : HandlerFault(r)
  \/ Redraw
  \/ ReadStop
  \/ Abort

Spec == Init /\ [][Next]_vars

-----------------------------------------------------------------------------
(* The shape of line_data (both cursors are unsigned) and of the main loop. *)
TypeOK ==
  /\ echo_mode \in {"off", "on", "obscured"} /\ term_smart \in BOOLEAN
  /\ buffer \in Seq(Char)
  /\ cursor \in Nat
  /\ render_cursor \in Nat
  /\ dirty \in BOOLEAN
  /\ pc \in {"read", "redraw", "done", "aborted"}

(* move_to_pos_normal reads buffer[render_cursor - 1] and its neighbours     *)
(* without a check, and nrl_manip_insert_text inserts at the cursor: both    *)
(* indices stay inside the line, and what the terminal shows before its      *)
(* cursor is a prefix of the text before the logical cursor.                 *)
CursorsInBounds == render_cursor <= cursor /\ cursor <= Len(buffer)

OnScreen == Insertion(start) >= term.top * Cols

(* Whenever the line is clean and its first row has not scrolled away, a     *)
(* smart terminal shows what typing the text on the prompt would have shown, *)
(* no leftovers of longer texts, and its cursor stands at the logical one:   *)
(* redraw, scrolling, erasing and cursor motion of render.c together.        *)
LineShown ==
  (term_smart /\ pc \in {"read", "done"} /\ ~dirty /\ OnScreen) =>
    LET shown == PutAll(start, Drawn(buffer))
    IN  /\ \A p \in DOMAIN term.tape \cup DOMAIN shown.tape : Cell(term, p) = Cell(shown, p)
        /\ Insertion(term) = Insertion(PutAll(start, Drawn(Prefix(buffer, cursor))))

(* Where the renderer's arithmetic holds exactly.  The position report it    *)
(* begins with cannot tell a pending wrap, and linear_offset_to_2d does not  *)
(* know that a wide character never straddles the margin.                    *)
NoWrapPending == \A t \in Starts : ~t.wrap
Narrow == {c \in Char : Width[c] = 1}
VisibleNarrow ==
  /\ \A s \in Setups : s.smart /\ s.echo_mode = "on" => Texts[s] \subseteq Seq(Narrow)
  /\ \A r \in Replies : r.text \in Seq(Narrow)

(* No handler that returns puts its cursor inside of the last character, ... *)
LastWhole == \A r \in Replies : r.inside => r.point + 1 < Len(r.text)

(* ... or inside of any. *)
CursorsWhole == \A r \in Replies : r.inside => Lost(r)

(* Nothing printed before the line (the prompt, earlier output) is ever      *)
(* overwritten, not even by a line taller than the screen, for which         *)
(* linear_offset_to_2d falls back to the top left corner.                    *)
PromptPreserved ==
  \A p \in 0..(Insertion(start) - 1) : Cell(term, p) = Cell(start, p)

(* The text before and after the cursor goes through the operations of an    *)
(* ideal line editor, whatever the buffer, the renderer and "more" do.       *)
Ideal == INSTANCE LineEdit WITH
           Texts  <- UNION {Texts[s] : s \in Setups},
           before <- SubSeq(buffer, 1, cursor),
           after  <- SubSeq(buffer, cursor + 1, Len(buffer))
EditsLine == Ideal!Spec
=============================================================================
