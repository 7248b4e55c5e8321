---------------------------- MODULE EditorProofs ----------------------------
(***************************************************************************)
(* What holds of Editor for every alphabet, screen, echo mode and bound. *)
(***************************************************************************)
EXTENDS Editor, TextLemmas

(* The inductive invariant: line_data is well formed and the terminal's      *)
(* cursor is never past the logical one.  Every manipulation needs it to     *)
(* index the line, and every manipulation keeps it; with echo off nothing    *)
(* moves the terminal's cursor, so a move to the left cannot pass it only    *)
(* because it never left 0.                                                  *)
LineInv ==
  /\ buffer \in Seq(Char)
  /\ cursor \in 0..Len(buffer)
  /\ render_cursor \in 0..cursor
  /\ echo_mode = "off" => render_cursor = 0
  /\ dirty \in BOOLEAN
  /\ pc \in {"read", "redraw", "done", "aborted"}

-----------------------------------------------------------------------------
(* Inserting: the new text joins what is before the index. *)
LEMMA SpliceCut ==
  ASSUME NEW text \in Seq(Char), NEW i \in 0..Len(text), NEW s \in Seq(Char)
  PROVE  /\ Splice(text, i, s) \in Seq(Char)
         /\ i + Len(s) \in 0..Len(Splice(text, i, s))
         /\ Upto(Splice(text, i, s), i + Len(s)) = Upto(text, i) \o s
         /\ Beyond(Splice(text, i, s), i + Len(s)) = Beyond(text, i)
<1> DEFINE x == Upto(text, i) \o s
           y == Beyond(text, i)
<1>1. /\ Upto(text, i) \in Seq(Char) /\ Len(Upto(text, i)) = i
      /\ y \in Seq(Char) /\ Len(y) \in Nat /\ Len(s) \in Nat /\ Len(text) \in Nat
  BY CutType, LenProperties
<1>2. x \in Seq(Char) /\ Len(x) = i + Len(s)
  BY <1>1, ConcatProperties
<1>3. Splice(text, i, s) = x \o y
  BY DEF Splice, Prefix, Upto, Beyond
<1>4. x \o y \in Seq(Char) /\ Len(x \o y) = Len(x) + Len(y)
  BY <1>1, <1>2, ConcatProperties
<1>5. Upto(x \o y, Len(x)) = x /\ Beyond(x \o y, Len(x)) = y
  BY <1>1, <1>2, JoinCut
<1>6. i + Len(s) \in 0..Len(x \o y)
  BY <1>1, <1>2, <1>4
<1> QED BY <1>2, <1>3, <1>4, <1>5, <1>6

(* Erasing: only the first character after the index goes. *)
LEMMA EraseCut ==
  ASSUME NEW text \in Seq(Char), NEW i \in 0..(Len(text) - 1)
  PROVE  /\ Erase(text, i) \in Seq(Char)
         /\ i \in 0..Len(Erase(text, i))
         /\ Upto(Erase(text, i), i) = Upto(text, i)
         /\ Beyond(Erase(text, i), i) = Beyond(text, i + 1)
<1> DEFINE x == Upto(text, i)
           y == Beyond(text, i + 1)
<1>1. i \in 0..Len(text) /\ i + 1 \in 0..Len(text) /\ (i + 1) + 1 = i + 2
  BY LenProperties
<1>2. /\ x \in Seq(Char) /\ Len(x) = i
      /\ y \in Seq(Char) /\ Len(y) \in Nat
  BY <1>1, CutType, LenProperties
<1>3. Erase(text, i) = x \o y
  BY <1>1 DEF Erase, Prefix, Upto, Beyond
<1>4. x \o y \in Seq(Char) /\ Len(x \o y) = i + Len(y)
  BY <1>2, ConcatProperties
<1>5. Upto(x \o y, i) = x /\ Beyond(x \o y, i) = y
  BY <1>2, JoinCut
<1> QED BY <1>1, <1>2, <1>3, <1>4, <1>5

-----------------------------------------------------------------------------
(* What nrl_render_init was given stays as it is until the line is done. *)
SetupInv == Setup \in Setups

LEMMA EventSetup == ASSUME NEW more, Event(more) PROVE UNCHANGED given
BY DEF Event, InsertText, EscapeLeft, EscapeRight, EscapeHome, EscapeEnd,
       EscapeDelete, EscapeBackspace, EvalCustom, NoEffect

LEMMA NextSetup == [Next]_vars => UNCHANGED given
<1>1. (\E more \in BOOLEAN : Event(more)) => UNCHANGED given
  BY EventSetup
<1> QED BY <1>1 DEF Next, Redraw, ReadStop, Abort, HandlerFault, vars

LEMMA SetupInit == Init => SetupInv
<1> SUFFICES ASSUME Init PROVE SetupInv
  OBVIOUS
<1> PICK s \in Setups : echo_mode = s.echo_mode /\ term_smart = s.smart
  BY DEF Init
<1>1. s = [echo_mode |-> s.echo_mode, smart |-> s.smart]
  BY DisplayAssumption
<1> QED BY <1>1 DEF SetupInv, Setup

LEMMA SetupNext == SetupInv /\ [Next]_vars => SetupInv'
BY NextSetup, Zenon DEF SetupInv, Setup, given

LEMMA SetupKinds ==
  SetupInv => echo_mode \in {"off", "on", "obscured"} /\ term_smart \in BOOLEAN
<1> SUFFICES ASSUME SetupInv PROVE echo_mode \in {"off", "on", "obscured"} /\ term_smart \in BOOLEAN
  OBVIOUS
<1>1. Setup \in [echo_mode : {"off", "on", "obscured"}, smart : BOOLEAN]
  BY DisplayAssumption DEF SetupInv
<1>2. Setup.echo_mode = echo_mode /\ Setup.smart = term_smart
  BY DEF Setup
<1> QED BY <1>1, <1>2, Zenon

(* The texts an event inserts are those of its setup. *)
LEMMA TextsTyped ==
  ASSUME SetupInv, NEW s \in Texts[Setup]
  PROVE  s \in Seq(Char) /\ s \in UNION {Texts[t] : t \in Setups}
BY LineAssumption DEF SetupInv

(* A handler's cursor is put where its text is cut. *)
LEMMA LandingPoint == ASSUME LastWhole, NEW r \in Replies PROVE Landing(r) = r.point
BY LineAssumption, LenProperties DEF Landing, LastWhole

(* Where no cursor cuts a character that can be searched for, none cuts the  *)
(* last one.                                                                 *)
LEMMA WholeLast == ASSUME CursorsWhole PROVE LastWhole
<1> SUFFICES ASSUME NEW r \in Replies, r.inside PROVE r.point + 1 < Len(r.text)
  BY DEF LastWhole
<1>1. r.point = 0 /\ Len(r.text) > 1
  BY DEF CursorsWhole, Lost
<1>2. Len(r.text) \in Nat
  BY LineAssumption, LenProperties
<1> QED BY <1>1, <1>2

-----------------------------------------------------------------------------
(* nrl_render_sync_cursors leaves the terminal's cursor at the logical one,  *)
(* or, with echo off, at 0.                                                  *)
LEMMA SyncBounds ==
  ASSUME LineInv, NEW text, NEW to \in Nat, SyncCursors(text, to)
  PROVE  /\ render_cursor' \in 0..to
         /\ echo_mode = "off" => render_cursor' = 0
<1>1. CASE echo_mode = "off"
  BY <1>1 DEF SyncCursors, LineInv
<1>2. CASE echo_mode # "off"
  BY <1>2 DEF SyncCursors
<1> QED BY <1>1, <1>2

(* Where the main loop goes after an event. *)
LEMMA ContinuePc ==
  ASSUME NEW more, Continue(more)
  PROVE  pc' \in {"read", "redraw", "done", "aborted"}
BY DEF Continue

LEMMA InvInit == Init => LineInv
<1> SUFFICES ASSUME Init PROVE LineInv
  OBVIOUS
<1>1. <<>> \in Seq(Char) /\ Len(<<>>) = 0
  BY EmptySeq
<1>2. buffer \in Seq(Char) /\ cursor \in 0..Len(buffer) /\ render_cursor \in 0..cursor
  BY <1>1 DEF Init
<1>3. dirty \in BOOLEAN
  BY Zenon DEF Init
<1>4. pc = "read" /\ render_cursor = 0
  BY DEF Init
<1> QED BY <1>2, <1>3, <1>4 DEF LineInv

(* Moving the cursor within the line, whatever key does it. *)
LEMMA MoveInv ==
  ASSUME LineInv, NEW to \in 0..Len(buffer), NEW more,
         MoveCursor(to), Continue(more), UNCHANGED <<buffer, dirty, given>>
  PROVE  LineInv'
<1>1. to \in Nat /\ SyncCursors(buffer, to) /\ cursor' = to
  BY LenProperties DEF LineInv, MoveCursor
<1>2. render_cursor' \in 0..to /\ (echo_mode = "off" => render_cursor' = 0)
  BY <1>1, SyncBounds
<1>3. buffer' \in Seq(Char) /\ cursor' \in 0..Len(buffer')
  BY <1>1 DEF LineInv
<1>4. dirty' \in BOOLEAN
  BY Zenon DEF LineInv
<1>5. echo_mode' = echo_mode
  BY DEF given
<1> QED BY <1>1, <1>2, <1>3, <1>4, <1>5, ContinuePc DEF LineInv

(* Every event keeps the invariant. *)
LEMMA EventInv ==
  ASSUME LastWhole, LineInv, SetupInv, NEW more, Event(more)
  PROVE  LineInv'
<1>0. Len(buffer) \in Nat /\ cursor \in Nat
  BY LenProperties DEF LineInv
<1>s. echo_mode' = echo_mode /\ UNCHANGED given
  BY EventSetup DEF given
<1>1. CASE \E s \in Texts[Setup] : InsertText(s, more)
  <2> PICK s \in Texts[Setup] : InsertText(s, more)
    BY <1>1
  <2>1. s \in Seq(Char) /\ Len(s) \in Nat
    BY TextsTyped, LenProperties
  <2>2. /\ buffer' = Splice(buffer, cursor, s) /\ cursor' = cursor + Len(s)
        /\ render_cursor' = render_cursor
    BY DEF InsertText
  <2>3. buffer' \in Seq(Char) /\ cursor' \in 0..Len(buffer')
    BY <2>1, <2>2, SpliceCut DEF LineInv
  <2>4. render_cursor' \in 0..cursor' /\ (echo_mode = "off" => render_cursor' = 0)
    BY <1>0, <2>1, <2>2 DEF LineInv
  <2>5. dirty' \in BOOLEAN
    BY Zenon DEF InsertText
  <2>6. pc' \in {"read", "redraw", "done", "aborted"}
    BY ContinuePc DEF InsertText
  <2> QED BY <1>s, <2>3, <2>4, <2>5, <2>6 DEF LineInv
<1>2. CASE EscapeLeft(more)
  <2>1. cursor - 1 \in 0..Len(buffer)
    BY <1>0, <1>2 DEF EscapeLeft, LineInv
  <2> QED BY <1>2, <2>1, MoveInv, <1>s DEF EscapeLeft
<1>3. CASE EscapeRight(more)
  <2>1. cursor + 1 \in 0..Len(buffer)
    BY <1>0, <1>3 DEF EscapeRight, LineInv
  <2> QED BY <1>3, <2>1, MoveInv, <1>s DEF EscapeRight
<1>4. CASE EscapeHome(more)
  <2>1. 0 \in 0..Len(buffer)
    BY <1>0
  <2> QED BY <1>4, <2>1, MoveInv, <1>s DEF EscapeHome
<1>5. CASE EscapeEnd(more)
  <2>1. Len(buffer) \in 0..Len(buffer)
    BY <1>0
  <2> QED BY <1>5, <2>1, MoveInv, <1>s DEF EscapeEnd
<1>6. CASE EscapeDelete(more)
  <2>1. cursor \in 0..(Len(buffer) - 1)
    BY <1>0, <1>6 DEF EscapeDelete, LineInv
  <2>2. buffer' \in Seq(Char) /\ cursor' \in 0..Len(buffer')
    BY <1>6, <2>1, EraseCut DEF EscapeDelete, LineInv
  <2>3. render_cursor' \in 0..cursor' /\ (echo_mode = "off" => render_cursor' = 0)
    BY <1>6 DEF EscapeDelete, LineInv
  <2>4. dirty' \in BOOLEAN
    BY <1>6, Zenon DEF EscapeDelete
  <2>5. pc' \in {"read", "redraw", "done", "aborted"}
    BY <1>6, ContinuePc DEF EscapeDelete
  <2> QED BY <1>s, <2>2, <2>3, <2>4, <2>5 DEF LineInv
<1>7. CASE EscapeBackspace(more)
  <2>1. cursor - 1 \in 0..(Len(buffer) - 1) /\ cursor - 1 \in Nat
    BY <1>0, <1>7 DEF EscapeBackspace, LineInv
  <2>2. /\ buffer' = Erase(buffer, cursor - 1) /\ cursor' = cursor - 1
        /\ SyncCursors(buffer, cursor - 1)
    BY <1>7 DEF EscapeBackspace, MoveCursor
  <2>3. buffer' \in Seq(Char) /\ cursor' \in 0..Len(buffer')
    BY <2>1, <2>2, EraseCut DEF LineInv
  <2>4. render_cursor' \in 0..cursor' /\ (echo_mode = "off" => render_cursor' = 0)
    BY <2>1, <2>2, SyncBounds
  <2>5. dirty' \in BOOLEAN
    BY <1>7, Zenon DEF EscapeBackspace
  <2>6. pc' \in {"read", "redraw", "done", "aborted"}
    BY <1>7, ContinuePc DEF EscapeBackspace
  <2> QED BY <1>s, <2>3, <2>4, <2>5, <2>6 DEF LineInv
<1>8. CASE \E r \in Replies : EvalCustom(r, more)
  <2> PICK r \in Replies : EvalCustom(r, more)
    BY <1>8
  <2>1. r.text \in Seq(Char) /\ r.point \in 0..Len(r.text)
    BY LineAssumption
  <2>2. buffer' = r.text /\ cursor' = r.point /\ SyncCursors(buffer, 0)
    BY LandingPoint DEF EvalCustom
  <2>3. render_cursor' \in 0..0 /\ (echo_mode = "off" => render_cursor' = 0)
    BY <2>2, SyncBounds
  <2>4. render_cursor' \in 0..cursor'
    BY <2>1, <2>2, <2>3, LenProperties
  <2>5. dirty' \in BOOLEAN
    BY Zenon DEF EvalCustom
  <2>6. pc' \in {"read", "redraw", "done", "aborted"}
    BY ContinuePc DEF EvalCustom
  <2> QED BY <1>s, <2>1, <2>2, <2>3, <2>4, <2>5, <2>6 DEF LineInv
<1>9. CASE NoEffect(more)
  <2>1. pc' \in {"read", "redraw", "done", "aborted"} /\ UNCHANGED line
    BY <1>9, ContinuePc DEF NoEffect
  <2> QED BY <1>s, <2>1 DEF LineInv, line
<1> QED BY <1>1, <1>2, <1>3, <1>4, <1>5, <1>6, <1>7, <1>8, <1>9 DEF Event

(* The redraw ends with the terminal's cursor at the logical one. *)
LEMMA RedrawInv == LineInv /\ Redraw => LineInv'
<1> SUFFICES ASSUME LineInv, Redraw PROVE LineInv'
  OBVIOUS
<1>1. buffer' = buffer /\ cursor' = cursor /\ pc' = "read"
  BY DEF Redraw
<1>2. render_cursor' \in 0..cursor /\ (echo_mode = "off" => render_cursor' = 0)
  <2>1. CASE echo_mode = "off"
    BY <2>1 DEF Redraw, LineInv
  <2>2. CASE echo_mode # "off" /\ term_smart
    <3>1. render_cursor' = cursor
      BY <2>2 DEF Redraw, RedrawSmart
    <3> QED BY <2>2, <3>1 DEF LineInv
  <2>3. CASE echo_mode # "off" /\ ~term_smart
    BY <2>3 DEF Redraw, RedrawDumb, LineInv
  <2> QED BY <2>1, <2>2, <2>3
<1>3. dirty' \in BOOLEAN
  BY Zenon DEF Redraw
<1>4. echo_mode' = echo_mode
  BY DEF Redraw, given
<1> QED BY <1>1, <1>2, <1>3, <1>4 DEF LineInv

LEMMA InvNext == ASSUME LastWhole PROVE LineInv /\ SetupInv /\ [Next]_vars => LineInv'
<1> SUFFICES ASSUME LineInv, SetupInv, [Next]_vars PROVE LineInv'
  OBVIOUS
<1>1. CASE \E more \in BOOLEAN : Event(more)
  BY <1>1, EventInv
<1>2. CASE Redraw
  BY <1>2, RedrawInv
<1>3. CASE ReadStop
  BY <1>3 DEF ReadStop, LineInv, line, given
<1>4. CASE Abort \/ \E r \in Replies : HandlerFault(r)
  BY <1>4 DEF Abort, HandlerFault, LineInv, line, given
<1>5. CASE UNCHANGED vars
  BY <1>5 DEF vars, line, given, LineInv
<1> QED BY <1>1, <1>2, <1>3, <1>4, <1>5 DEF Next

(* The line invariant holds throughout a session. *)
THEOREM LineInvariant == ASSUME LastWhole PROVE Spec => []LineInv
BY InvInit, InvNext, SetupInit, SetupNext, PTL DEF Spec

(* The setup of a call is one it may be given. *)
THEOREM SetupInvariant == Spec => []SetupInv
BY SetupInit, SetupNext, PTL DEF Spec

(* The shape of line_data and of the main loop, for every instance. *)
THEOREM TypeCorrect == ASSUME LastWhole PROVE Spec => []TypeOK
<1>1. LineInv /\ SetupInv => TypeOK
  <2> SUFFICES ASSUME LineInv, SetupInv PROVE TypeOK
    OBVIOUS
  <2>1. buffer \in Seq(Char) /\ cursor \in Nat /\ render_cursor \in Nat
    BY LenProperties DEF LineInv
  <2>2. dirty \in BOOLEAN /\ pc \in {"read", "redraw", "done", "aborted"}
    BY Zenon DEF LineInv
  <2> QED BY <2>1, <2>2, SetupKinds, Zenon DEF TypeOK
<1> QED BY <1>1, LineInvariant, SetupInvariant, PTL

(* Every index into the line that manip.c and render.c use without a check   *)
(* is inside of it, for every text, reply and echo mode, as long as no       *)
(* handler puts its cursor inside of the last character of its text.         *)
THEOREM CursorsStayInBounds == ASSUME LastWhole PROVE Spec => []CursorsInBounds
<1>1. LineInv => CursorsInBounds
  BY LenProperties DEF LineInv, CursorsInBounds
<1> QED BY <1>1, LineInvariant, PTL

-----------------------------------------------------------------------------
(* Cutting the line at the cursor, as Ideal does. *)
LEMMA IdealHalves ==
  /\ SubSeq(buffer, 1, cursor) = Upto(buffer, cursor)
  /\ SubSeq(buffer, cursor + 1, Len(buffer)) = Beyond(buffer, cursor)
  /\ SubSeq(buffer', 1, cursor') = Upto(buffer', cursor')
  /\ SubSeq(buffer', cursor' + 1, Len(buffer')) = Beyond(buffer', cursor')
BY DEF Upto, Beyond

LEMMA IdealInit == Init => Ideal!Init
BY SubSeqEmpty, EmptySeq DEF Init, Ideal!Init

(* Every event is one operation of the ideal editor, or none. *)
LEMMA IdealEvent ==
  ASSUME CursorsWhole, LineInv, SetupInv, NEW more, Event(more)
  PROVE  [Ideal!Next]_(Ideal!vars)
<1> DEFINE before == Upto(buffer, cursor)
           after  == Beyond(buffer, cursor)
<1>0. /\ Len(buffer) \in Nat /\ cursor \in Nat /\ cursor \in 0..Len(buffer)
      /\ buffer \in Seq(Char)
  BY LenProperties DEF LineInv
<1>a. before \o after = buffer
  BY <1>0, CutJoin
<1>1. CASE \E s \in Texts[Setup] : InsertText(s, more)
  <2> PICK s \in Texts[Setup] : InsertText(s, more)
    BY <1>1
  <2>1. s \in Seq(Char) /\ s \in UNION {Texts[t] : t \in Setups}
    BY TextsTyped
  <2>2. buffer' = Splice(buffer, cursor, s) /\ cursor' = cursor + Len(s)
    BY DEF InsertText
  <2>3. Upto(buffer', cursor') = before \o s /\ Beyond(buffer', cursor') = after
    BY <1>0, <2>1, <2>2, SpliceCut
  <2> QED BY <2>1, <2>3, IdealHalves DEF Ideal!Next, Ideal!Type
<1>2. CASE EscapeLeft(more)
  <2>1. buffer' = buffer /\ cursor' = cursor - 1 /\ cursor - 1 \in 0..(Len(buffer) - 1)
    BY <1>0, <1>2 DEF EscapeLeft, MoveCursor
  <2>2. (cursor - 1) + 1 = cursor
    BY <1>0
  <2>3. /\ before # <<>>
        /\ Front(before) = Upto(buffer, cursor - 1)
        /\ <<Last(before)>> \o after = Beyond(buffer, cursor - 1)
    BY <1>0, <2>1, <2>2, CutNext
  <2>4. Ideal!Front(before) = Front(before) /\ Ideal!Last(before) = Last(before)
    BY DEF Front, Last, Ideal!Front, Ideal!Last
  <2> HIDE DEF before, after
  <2>5. /\ Upto(buffer', cursor') = Front(before)
        /\ Beyond(buffer', cursor') = <<Last(before)>> \o after
    BY <2>1, <2>3
  <2> QED BY <2>3, <2>4, <2>5, IdealHalves DEF Ideal!Next, Ideal!Left, before, after
<1>3. CASE EscapeRight(more)
  <2>1. buffer' = buffer /\ cursor' = cursor + 1 /\ cursor \in 0..(Len(buffer) - 1)
    BY <1>0, <1>3 DEF EscapeRight, MoveCursor
  <2>2. /\ after # <<>>
        /\ Upto(buffer, cursor + 1) = Append(before, Head(after))
        /\ Beyond(buffer, cursor + 1) = Tail(after)
    BY <1>0, <2>1, CutNext
  <2> QED BY <2>1, <2>2, IdealHalves DEF Ideal!Next, Ideal!Right
<1>4. CASE EscapeHome(more)
  <2>1. buffer' = buffer /\ cursor' = 0
    BY <1>4 DEF EscapeHome, MoveCursor
  <2>2. Upto(buffer, 0) = <<>>
    BY SubSeqEmpty DEF Upto
  <2>3. Beyond(buffer, 0) = buffer
    BY <1>0, SubSeqFull DEF Beyond
  <2> QED BY <1>a, <2>1, <2>2, <2>3, IdealHalves DEF Ideal!Next, Ideal!Home
<1>5. CASE EscapeEnd(more)
  <2>1. buffer' = buffer /\ cursor' = Len(buffer)
    BY <1>5 DEF EscapeEnd, MoveCursor
  <2>2. Upto(buffer, Len(buffer)) = buffer
    BY <1>0, SubSeqFull DEF Upto
  <2>3. Beyond(buffer, Len(buffer)) = <<>>
    BY <1>0, SubSeqEmpty DEF Beyond
  <2> QED BY <1>a, <2>1, <2>2, <2>3, IdealHalves DEF Ideal!Next, Ideal!End
<1>6. CASE EscapeDelete(more)
  <2>1. /\ buffer' = Erase(buffer, cursor) /\ cursor' = cursor
        /\ cursor \in 0..(Len(buffer) - 1)
    BY <1>0, <1>6 DEF EscapeDelete
  <2>2. Upto(buffer', cursor') = before /\ Beyond(buffer', cursor') = Beyond(buffer, cursor + 1)
    BY <1>0, <2>1, EraseCut
  <2>3. after # <<>> /\ Beyond(buffer, cursor + 1) = Tail(after)
    BY <1>0, <2>1, CutNext
  <2> QED BY <2>2, <2>3, IdealHalves DEF Ideal!Next, Ideal!Delete
<1>7. CASE EscapeBackspace(more)
  <2>1. /\ buffer' = Erase(buffer, cursor - 1) /\ cursor' = cursor - 1
        /\ cursor - 1 \in 0..(Len(buffer) - 1) /\ (cursor - 1) + 1 = cursor
    BY <1>0, <1>7 DEF EscapeBackspace, MoveCursor
  <2>2. Upto(buffer', cursor') = Upto(buffer, cursor - 1) /\ Beyond(buffer', cursor') = after
    BY <1>0, <2>1, EraseCut
  <2>3. before # <<>> /\ Front(before) = Upto(buffer, cursor - 1)
    BY <1>0, <2>1, CutNext
  <2>4. Ideal!Front(before) = Front(before)
    BY DEF Front, Ideal!Front
  <2> QED BY <2>2, <2>3, <2>4, IdealHalves DEF Ideal!Next, Ideal!Backspace
<1>8. CASE \E r \in Replies : EvalCustom(r, more)
  <2> PICK r \in Replies : EvalCustom(r, more)
    BY <1>8
  <2>1. buffer' = r.text /\ cursor' = r.point
    BY LandingPoint, WholeLast DEF EvalCustom
  <2>2. Ideal!Cut(r) = r.point
    BY DEF EvalCustom, CursorsWhole, Ideal!Cut
  <2> QED BY <2>1, <2>2 DEF Ideal!Next, Ideal!Replace
<1>9. CASE NoEffect(more)
  BY <1>9 DEF NoEffect, line, Ideal!vars
<1> QED BY <1>1, <1>2, <1>3, <1>4, <1>5, <1>6, <1>7, <1>8, <1>9 DEF Event

LEMMA IdealNext ==
  ASSUME CursorsWhole
  PROVE  LineInv /\ SetupInv /\ [Next]_vars => [Ideal!Next]_(Ideal!vars)
<1> SUFFICES ASSUME LineInv, SetupInv, [Next]_vars PROVE [Ideal!Next]_(Ideal!vars)
  OBVIOUS
<1>1. CASE \E more \in BOOLEAN : Event(more)
  BY <1>1, IdealEvent
<1>2. CASE Redraw
  BY <1>2 DEF Redraw, Ideal!vars
<1>3. CASE ReadStop
  BY <1>3 DEF ReadStop, line, Ideal!vars
<1>4. CASE Abort \/ \E r \in Replies : HandlerFault(r)
  BY <1>4 DEF Abort, HandlerFault, line, Ideal!vars
<1>5. CASE UNCHANGED vars
  BY <1>5 DEF vars, line, Ideal!vars
<1> QED BY <1>1, <1>2, <1>3, <1>4, <1>5 DEF Next

(* The text around the cursor behaves as the ideal editor's two halves: no   *)
(* handler loses, duplicates or reorders a character, and no redraw changes  *)
(* the text, for every alphabet, echo mode, screen and bound.  Handlers put  *)
(* their cursors between characters: one inside of a character jumps to its  *)
(* end in the ideal editor, as escape.h promises, and not in the code.       *)
THEOREM EditorRefinesLineEdit == ASSUME CursorsWhole PROVE Spec => EditsLine
<1>1. Ideal!Init /\ [][Ideal!Next]_(Ideal!vars) => EditsLine
  BY DEF EditsLine, Ideal!Spec
<1> QED BY <1>1, WholeLast, IdealInit, IdealNext, LineInvariant, SetupInvariant, PTL DEF Spec

-----------------------------------------------------------------------------
(* Rows and columns *)

Row(p) == p \div Cols
Col(p) == p % Cols

LEMMA Grid == Cols \in Nat /\ Cols >= 2 /\ Rows \in Nat /\ Rows >= 1
BY TerminalAssumption

(* A row further down begins a whole row later. *)
LEMMA Below ==
  ASSUME NEW i \in Int, NEW j \in Int, i < j
  PROVE  i * Cols + Cols <= j * Cols
<1>1. Cols \in Nat /\ Cols >= 2
  BY Grid
<1> DEFINE d == j - i
<1>2. d \in Nat /\ d >= 1 /\ j = i + d
  OBVIOUS
<1>3. j * Cols = i * Cols + d * Cols
  BY <1>1, <1>2
<1>4. d * Cols >= Cols
  BY <1>1, <1>2
<1> QED BY <1>1, <1>3, <1>4

LEMMA DivMod ==
  ASSUME NEW p \in Int
  PROVE  /\ Row(p) \in Int /\ Col(p) \in 0..(Cols - 1) /\ p = Row(p) * Cols + Col(p)
         /\ Row(p) * Cols <= p /\ p < Row(p) * Cols + Cols
BY Grid DEF Row, Col

(* A cell has one row and one column. *)
LEMMA RowUnique ==
  ASSUME NEW i \in Int, NEW c \in 0..(Cols - 1)
  PROVE  Row(i * Cols + c) = i /\ Col(i * Cols + c) = c
<1> DEFINE p == i * Cols + c
           k == Row(p)
           r == Col(p)
<1>1. Cols \in Nat /\ Cols >= 2 /\ p \in Int
  BY Grid
<1>2. k \in Int /\ r \in 0..(Cols - 1) /\ p = k * Cols + r
  BY <1>1, DivMod
<1>3. i < k => i * Cols + Cols <= k * Cols
  BY <1>2, Below
<1>4. k < i => k * Cols + Cols <= i * Cols
  BY <1>2, Below
<1> HIDE DEF k, r
<1>5. k = i
  BY <1>1, <1>2, <1>3, <1>4
<1>6. r = c
  BY <1>1, <1>2, <1>5
<1> QED BY <1>5, <1>6 DEF k, r

LEMMA RowMonotone ==
  ASSUME NEW p \in Int, NEW q \in Int, p <= q
  PROVE  Row(p) <= Row(q)
<1>1. /\ Row(p) \in Int /\ Row(p) * Cols <= p
      /\ Row(q) \in Int /\ q < Row(q) * Cols + Cols
  BY DivMod
<1>2. Row(q) < Row(p) => Row(q) * Cols + Cols <= Row(p) * Cols
  BY <1>1, Below
<1>3. Row(p) * Cols \in Int /\ Row(q) * Cols \in Int /\ Cols \in Int
  BY <1>1, Grid
<1> QED BY <1>1, <1>2, <1>3

LEMMA RowOf ==
  ASSUME NEW k \in Int
  PROVE  Row(k * Cols) = k /\ Col(k * Cols) = 0
<1>1. 0 \in 0..(Cols - 1) /\ k * Cols + 0 = k * Cols
  BY Grid
<1> QED BY <1>1, RowUnique

(* Whether a cell lies above a row. *)
LEMMA RowLess ==
  ASSUME NEW p \in Int, NEW k \in Int
  PROVE  p < k * Cols <=> Row(p) < k
<1>1. Row(p) \in Int /\ Row(p) * Cols <= p /\ p < Row(p) * Cols + Cols
  BY DivMod
<1>2. Row(p) < k => Row(p) * Cols + Cols <= k * Cols
  BY <1>1, Below
<1>3. k < Row(p) => k * Cols + Cols <= Row(p) * Cols
  BY <1>1, Below
<1>4. Row(p) * Cols \in Int /\ k * Cols \in Int /\ Cols \in Nat
  BY <1>1, Grid
<1>5. k = Row(p) => k * Cols = Row(p) * Cols
  OBVIOUS
<1> HIDE DEF Row
<1> QED BY <1>1, <1>2, <1>3, <1>4, <1>5

(* Rows above shift the row and leave the column. *)
LEMMA RowShift ==
  ASSUME NEW k \in Int, NEW p \in Int
  PROVE  Row(k * Cols + p) = k + Row(p) /\ Col(k * Cols + p) = Col(p)
<1>1. Row(p) \in Int /\ Col(p) \in 0..(Cols - 1) /\ p = Row(p) * Cols + Col(p)
  BY DivMod
<1> DEFINE r == Row(p)
           c == Col(p)
<1>2. (k + r) * Cols = k * Cols + r * Cols
  BY <1>1, Grid
<1>3. k + r \in Int /\ c \in 0..(Cols - 1) /\ p = r * Cols + c
  BY <1>1
<1>4. k * Cols \in Int /\ r * Cols \in Int
  BY <1>1, Grid
<1> HIDE DEF r, c
<1>5. k * Cols + p = (k + r) * Cols + c
  BY <1>2, <1>3, <1>4, Grid
<1> QED BY <1>3, <1>5, RowUnique DEF r, c

(* The next cell is in the next row only after the last column. *)
LEMMA RowAfter ==
  ASSUME NEW p \in Int
  PROVE  /\ Col(p + 1) = 0 => Row(p + 1) = Row(p) + 1
         /\ Col(p + 1) # 0 => Row(p + 1) = Row(p)
<1>1. Row(p) \in Int /\ Col(p) \in 0..(Cols - 1) /\ p = Row(p) * Cols + Col(p)
  BY DivMod
<1> DEFINE r == Row(p)
           c == Col(p)
<1>2. r \in Int /\ c \in 0..(Cols - 1) /\ p = r * Cols + c /\ r * Cols \in Int
  BY <1>1, Grid
<1> HIDE DEF r, c
<1>3. CASE c = Cols - 1
  <2>1. p + 1 = (r + 1) * Cols
    BY <1>2, <1>3, Grid
  <2>2. Row(p + 1) = r + 1 /\ Col(p + 1) = 0
    BY <1>2, <2>1, RowOf
  <2> QED BY <2>2 DEF r
<1>4. CASE c # Cols - 1
  <2>1. c + 1 \in 0..(Cols - 1) /\ p + 1 = r * Cols + (c + 1) /\ c + 1 # 0
    BY <1>2, <1>4, Grid
  <2>2. Row(p + 1) = r /\ Col(p + 1) = c + 1
    BY <1>2, <2>1, RowUnique
  <2> QED BY <2>1, <2>2 DEF r
<1> QED BY <1>3, <1>4

-----------------------------------------------------------------------------
(* One glyph *)

(* Writing to cell p scrolls it into sight. *)
TopFor(top, p) == IF Row(p) >= top + Rows THEN Row(p) - Rows + 1 ELSE top

(* The cursor is put on a cell from the screen's first on. *)
LEMMA ReachType ==
  ASSUME NEW t, IsTerminal(t), NEW p \in Nat, t.top * Cols <= p
  PROVE  /\ IsTerminal(Reach(t, p))
         /\ Reach(t, p).tape = t.tape /\ Reach(t, p).at = p /\ Reach(t, p).wrap = FALSE
         /\ Reach(t, p).top = TopFor(t.top, p)
         /\ Reach(t, p).top >= t.top
         /\ Row(p) < Reach(t, p).top + Rows
<1> DEFINE r == Row(p)
           top == IF r >= t.top + Rows THEN r - Rows + 1 ELSE t.top
           u == Reach(t, p)
<1>1. /\ DOMAIN u = {"tape", "at", "wrap", "top"}
      /\ u.tape = t.tape /\ u.at = p /\ u.wrap = FALSE /\ u.top = top
  BY DEF Reach, IsTerminal, Row
<1> HIDE DEF u
<1>2. t.top \in Nat /\ Rows \in Nat /\ Rows >= 1 /\ r \in Int
  BY Grid, DivMod DEF IsTerminal
<1>3. ~ (r < t.top)
  <2>1. t.top * Cols \in Int
    BY <1>2, Grid
  <2>2. ~ (p < t.top * Cols)
    BY <2>1
  <2> QED BY <1>2, <2>2, RowLess
<1> HIDE DEF r
<1>4. top \in Nat /\ t.top <= top /\ top <= r /\ r < top + Rows
  BY <1>2, <1>3
<1> HIDE DEF top
<1>5. top * Cols <= p
  <2>1. ~ (p < top * Cols)
    BY <1>2, <1>4, RowLess DEF r
  <2>2. top * Cols \in Int
    BY <1>4, Grid
  <2> QED BY <2>1, <2>2
<1>6. p < (top + Rows) * Cols
  BY <1>2, <1>4, RowLess DEF r
<1>7. IsTerminal(u)
  BY <1>1, <1>4, <1>5, <1>6 DEF IsTerminal
<1> QED BY <1>1, <1>4, <1>7 DEF r, top, u, TopFor

(* The next glyph goes to the cursor's cell or, when a wrap is pending, behind it. *)
LEMMA InsertionType ==
  ASSUME NEW t, IsTerminal(t)
  PROVE  /\ Insertion(t) \in Nat /\ Insertion(t) >= t.at /\ Insertion(t) <= t.at + 1
         /\ t.top * Cols <= Insertion(t)
         /\ Insertion(t) % Cols # 0 => Insertion(t) = t.at
<1>1. t.at \in Nat /\ t.top * Cols <= t.at /\ t.top * Cols \in Int
  BY Grid DEF IsTerminal
<1> QED BY <1>1 DEF Insertion, IsTerminal

(* A glyph is written to the next cells that hold it whole. *)
LEMMA PutAt ==
  ASSUME NEW t, IsTerminal(t), NEW g \in DOMAIN Width, Width[g] # 0
  PROVE  \E p \in Nat :
           /\ p >= Insertion(t) /\ (Width[g] = 1 => p = Insertion(t))
           /\ IsTerminal(Put(t, g))
           /\ Put(t, g).tape = Written(t.tape, p..(p + Width[g] - 1), g)
           /\ Insertion(Put(t, g)) = p + Width[g]
           /\ Put(t, g).wrap <=> Col(p + Width[g]) = 0
           /\ Put(t, g).top = TopFor(t.top, p)
           /\ Put(t, g).top >= t.top
<1> DEFINE w     == Width[g]
           first == Insertion(t)
           p     == IF (first % Cols) + w > Cols THEN ((first \div Cols) + 1) * Cols ELSE first
           next  == p + w
           full  == (next % Cols) = 0
           u     == Put(t, g)
           v     == Reach(t, p)
<1>1. w \in 1..2 /\ Cols \in Nat /\ Cols >= 2 /\ Rows \in Nat /\ Rows >= 1
  BY TerminalAssumption
<1>2. first \in Nat /\ t.top * Cols <= first /\ t.top \in Nat /\ t.top * Cols \in Int
  BY <1>1, InsertionType DEF IsTerminal
<1>3. /\ Row(first) \in Int /\ Col(first) \in 0..(Cols - 1)
      /\ first = Row(first) * Cols + Col(first) /\ first < Row(first) * Cols + Cols
  BY <1>2, DivMod
<1>4. p \in Nat /\ p >= first /\ (w = 1 => p = first) /\ Col(p) + w <= Cols
  <2>1. CASE Col(first) + w > Cols
    <3>1. p = (Row(first) + 1) * Cols
      BY <2>1 DEF Row, Col
    <3>2. p = Row(first) * Cols + Cols /\ Row(first) * Cols \in Int
      BY <1>1, <1>3, <3>1
    <3>3. Col(p) = 0
      BY <1>3, <3>1, RowOf
    <3>4. p >= first /\ p \in Nat
      BY <1>1, <1>2, <1>3, <3>2
    <3>5. w # 1
      BY <1>1, <1>3, <2>1
    <3> QED BY <1>1, <3>3, <3>4, <3>5
  <2>2. CASE ~ (Col(first) + w > Cols)
    <3>1. p = first
      BY <2>2 DEF Col
    <3> QED BY <1>1, <1>2, <1>3, <2>2, <3>1
  <2> QED BY <2>1, <2>2
<1>5. u = [v EXCEPT !.tape = Written(@, p..(next - 1), g),
                    !.at = IF full THEN next - 1 ELSE next, !.wrap = full]
  BY <1>1 DEF Put
<1> HIDE DEF p, w, first, u, v
<1>6. t.top * Cols <= p
  BY <1>2, <1>4
<1>7. /\ IsTerminal(v) /\ v.tape = t.tape /\ v.at = p
      /\ v.top = TopFor(t.top, p)
      /\ v.top >= t.top /\ Row(p) < v.top + Rows
  BY <1>4, <1>6, ReachType DEF v
<1>8. /\ DOMAIN u = {"tape", "at", "wrap", "top"}
      /\ u.at = (IF full THEN next - 1 ELSE next) /\ u.wrap = full
  BY <1>5, <1>7 DEF IsTerminal
<1>16. u.top = v.top /\ u.tape = Written(t.tape, p..(next - 1), g)
  BY <1>5, <1>7 DEF IsTerminal
<1>9. u.at \in Nat /\ u.at >= p /\ (full => u.at + 1 = next) /\ (~full => u.at = next)
  BY <1>1, <1>4, <1>8
<1>10. Row(u.at) = Row(p)
  <2> DEFINE r == Row(p)
             c == Col(p)
  <2>1. r \in Int /\ c \in 0..(Cols - 1) /\ p = r * Cols + c /\ r * Cols \in Int
    BY <1>1, <1>4, DivMod
  <2> HIDE DEF r, c
  <2>2. c + w <= Cols
    BY <1>4 DEF c
  <2>3. CASE full
    <3>1. c + (w - 1) \in 0..(Cols - 1) /\ u.at = r * Cols + (c + (w - 1))
      BY <1>1, <1>9, <2>1, <2>2, <2>3
    <3> QED BY <2>1, <3>1, RowUnique DEF r
  <2>4. CASE ~full
    <3>1. c + w # Cols
      <4> SUFFICES ASSUME c + w = Cols PROVE FALSE
        OBVIOUS
      <4>1. next = (r + 1) * Cols
        BY <1>1, <2>1
      <4>2. Col(next) = 0
        BY <2>1, <4>1, RowOf
      <4> QED BY <2>4, <4>2 DEF Col
    <3>2. c + w \in 0..(Cols - 1) /\ u.at = r * Cols + (c + w)
      BY <1>1, <1>9, <2>1, <2>2, <2>4, <3>1
    <3> QED BY <2>1, <3>2, RowUnique DEF r
  <2> QED BY <2>3, <2>4
<1>11. IsTerminal(u)
  <2>1. v.top \in Nat /\ v.top * Cols <= p /\ v.top * Cols \in Int
    BY <1>1, <1>7 DEF IsTerminal
  <2>2. v.top * Cols <= u.at
    BY <1>4, <1>9, <2>1
  <2>3. u.at < (v.top + Rows) * Cols
    BY <1>1, <1>7, <1>9, <1>10, <2>1, RowLess
  <2>4. u.wrap => (u.at + 1) % Cols = 0
    BY <1>8, <1>9
  <2>5. DOMAIN u.tape \subseteq Nat
    <3>1. DOMAIN u.tape = DOMAIN t.tape \cup p..(next - 1)
      BY <1>16 DEF Written
    <3>2. p..(next - 1) \subseteq Nat /\ DOMAIN t.tape \subseteq Nat
      BY <1>1, <1>4 DEF IsTerminal
    <3> QED BY <3>1, <3>2
  <2> QED BY <1>8, <1>9, <1>16, <2>1, <2>2, <2>3, <2>4, <2>5 DEF IsTerminal
<1>12. Insertion(u) = next
  BY <1>1, <1>4, <1>8, <1>9 DEF Insertion
<1>13. /\ u.top = TopFor(t.top, p) /\ u.top >= t.top
       /\ u.tape = Written(t.tape, p..(p + w - 1), g)
  <2>1. u.top = TopFor(t.top, p)
    BY <1>7, <1>16
  <2>2. u.top >= t.top
    BY <1>7, <1>16
  <2>3. u.tape = Written(t.tape, p..(p + w - 1), g)
    <3>1. p + w - 1 = next - 1
      BY <1>1, <1>4
    <3> HIDE DEF next
    <3> QED BY <1>16, <3>1
  <2> QED BY <2>1, <2>2, <2>3
<1>15. u.wrap <=> Col(p + w) = 0
  BY <1>8, Zenon DEF Col
<1> HIDE DEF next, full
<1> SUFFICES \E q \in Nat :
      /\ q >= first /\ (w = 1 => q = first)
      /\ IsTerminal(u)
      /\ u.tape = Written(t.tape, q..(q + w - 1), g)
      /\ Insertion(u) = q + w
      /\ u.wrap <=> Col(q + w) = 0
      /\ u.top = TopFor(t.top, q)
      /\ u.top >= t.top
  BY DEF u, w, first
<1>14. p \in Nat
  BY <1>4
<1> WITNESS p \in Nat
<1> QED BY <1>4, <1>11, <1>12, <1>13, <1>15 DEF next

(* A glyph of any width leaves what is before the cursor. *)
LEMMA PutType ==
  ASSUME NEW t, IsTerminal(t), NEW g \in DOMAIN Width
  PROVE  /\ IsTerminal(Put(t, g))
         /\ Insertion(Put(t, g)) >= Insertion(t) + Width[g]
         /\ Put(t, g).top >= t.top
         /\ \A q \in Int : q < Insertion(t) => Cell(Put(t, g), q) = Cell(t, q)
<1>0. Width[g] \in 0..2 /\ Insertion(t) \in Nat /\ t.top \in Nat
  BY TerminalAssumption, InsertionType DEF IsTerminal
<1>1. CASE Width[g] = 0
  BY <1>0, <1>1 DEF Put
<1>2. CASE Width[g] # 0
  <2> DEFINE u == Put(t, g)
             w == Width[g]
  <2>1. PICK p \in Nat :
           /\ p >= Insertion(t) /\ IsTerminal(u)
           /\ u.tape = Written(t.tape, p..(p + w - 1), g)
           /\ Insertion(u) = p + w /\ u.top >= t.top
    BY <1>2, PutAt
  <2> HIDE DEF u
  <2>2. ASSUME NEW q \in Int, q < Insertion(t) PROVE Cell(u, q) = Cell(t, q)
    <3>1. q \notin p..(p + w - 1)
      BY <1>0, <2>1, <2>2
    <3> QED BY <2>1, <3>1 DEF Cell, Written
  <2> QED BY <1>0, <2>1, <2>2 DEF u
<1> QED BY <1>1, <1>2

(* A narrow glyph takes exactly the cell of the cursor. *)
LEMMA PutNarrow ==
  ASSUME NEW t, IsTerminal(t), NEW g \in DOMAIN Width, Width[g] = 1
  PROVE  LET i == Insertion(t)
         IN  /\ IsTerminal(Put(t, g)) /\ Insertion(Put(t, g)) = i + 1
             /\ Put(t, g).wrap <=> Col(i + 1) = 0
             /\ Put(t, g).top = TopFor(t.top, i)
             /\ \A q \in Int : Cell(Put(t, g), q) = IF q = i THEN g ELSE Cell(t, q)
<1> DEFINE u == Put(t, g)
           i == Insertion(t)
<1>0. i \in Nat
  BY InsertionType
<1>1. /\ IsTerminal(u) /\ u.tape = Written(t.tape, i..(i + 1 - 1), g)
      /\ Insertion(u) = i + 1 /\ (u.wrap <=> Col(i + 1) = 0)
      /\ u.top = TopFor(t.top, i)
  BY PutAt
<1> HIDE DEF u
<1>2. i..(i + 1 - 1) = {i}
  BY <1>0
<1> HIDE DEF i
<1>3. ASSUME NEW q \in Int PROVE Cell(u, q) = IF q = i THEN g ELSE Cell(t, q)
  BY <1>1, <1>2 DEF Cell, Written
<1> QED BY <1>1, <1>3 DEF u, i

-----------------------------------------------------------------------------
(* Folds: the values after each of the elements *)

PutStep(s, t, f, X) ==
  IF X = {} THEN t ELSE LET x == Max(X) IN Put(f[X \ {x}], s[x])

WidthStep(s, t, f, X) ==
  IF X = {} THEN t ELSE LET x == Max(X) IN f[X \ {x}] + Width[s[x]]

(* The glyphs are put one after the other. *)
LEMMA PutExists ==
  ASSUME NEW s, NEW t, NEW m \in Nat
  PROVE  \E f : f = [X \in SUBSET (1..m) |-> PutStep(s, t, f, X)]
<1> DEFINE S == {k \in 0..m : \E f : f = [X \in SUBSET (1..k) |-> PutStep(s, t, f, X)]}
<1>1. 0 \in S
  <2> DEFINE f == [X \in SUBSET (1..0) |-> t]
  <2>1. \A X \in SUBSET (1..0) : X = {}
    OBVIOUS
  <2>2. f = [X \in SUBSET (1..0) |-> PutStep(s, t, f, X)]
    BY <2>1 DEF PutStep
  <2> HIDE DEF f
  <2>3. \E h : h = [X \in SUBSET (1..0) |-> PutStep(s, t, h, X)]
    BY <2>2
  <2> QED BY <2>3
<1>2. ASSUME NEW k \in 0..m, k \in S, k < m PROVE k + 1 \in S
  <2>1. PICK f : f = [X \in SUBSET (1..k) |-> PutStep(s, t, f, X)]
    BY <1>2
  <2> DEFINE Dom == SUBSET (1..k)
             All == SUBSET (1..(k + 1))
             g == [X \in All |-> PutStep(s, t, f, X)]
  <2>2. Dom \subseteq All
    BY <1>2
  <2>3. ASSUME NEW X \in All, X # {} PROVE X \ {Max(X)} \in Dom
    <3>1. Max(X) \in X /\ \A y \in X : y <= Max(X)
      BY <2>3, LargestOf
    <3>2. ASSUME NEW y \in X, y # Max(X) PROVE y \in 1..k
      <4>1. y \in 1..(k + 1) /\ Max(X) \in 1..(k + 1) /\ y <= Max(X)
        BY <3>1
      <4> HIDE DEF All
      <4> QED BY <3>2, <4>1
    <3> QED BY <3>2
  <2>4. ASSUME NEW X \in Dom PROVE g[X] = f[X]
    <3> HIDE DEF Dom, All
    <3>1. X \in All
      BY <2>2
    <3>2. f[X] = PutStep(s, t, f, X)
      BY <2>1 DEF Dom
    <3> QED BY <3>1, <3>2
  <2>5. ASSUME NEW X \in All PROVE PutStep(s, t, g, X) = PutStep(s, t, f, X)
    <3> HIDE DEF Dom, All, g
    <3> QED BY <2>3, <2>4 DEF PutStep
  <2>6. g = [X \in All |-> PutStep(s, t, g, X)]
    <3> HIDE DEF All
    <3>1. g = [X \in All |-> PutStep(s, t, f, X)]
      OBVIOUS
    <3> HIDE DEF g
    <3> QED BY <2>5, <3>1
  <2> HIDE DEF g
  <2>7. \E h : h = [X \in SUBSET (1..(k + 1)) |-> PutStep(s, t, h, X)]
    BY <2>6
  <2>8. k + 1 \in 0..m
    BY <1>2
  <2> QED BY <2>7, <2>8
<1>3. m \in S
  <2> HIDE DEF S
  <2>1. \A k \in 0..m : k \in S /\ k < m => k + 1 \in S
    BY <1>2
  <2>2. \A k \in 0..m : k \in S
    BY <1>1, <2>1, Counting
  <2> QED BY <2>2
<1> QED BY <1>3

(* PutAll as the terminals after each of the glyphs. *)
LEMMA PutRun ==
  ASSUME NEW t, NEW s, Len(s) \in Nat, DOMAIN s = 1..Len(s)
  PROVE  \E run : /\ run[0] = t /\ PutAll(t, s) = run[Len(s)]
                  /\ \A k \in 1..Len(s) : run[k] = Put(run[k - 1], s[k])
<1> DEFINE m == Len(s)
           iter == CHOOSE f : f = [X \in SUBSET (1..m) |-> PutStep(s, t, f, X)]
           run == [k \in 0..m |-> iter[1..k]]
<1>1. m \in Nat /\ DOMAIN s = 1..m
  OBVIOUS
<1>2. PutAll(t, s) = iter[1..m]
  BY <1>1 DEF PutAll, FoldLeft, MapThenFoldSet, PutStep
<1>3. iter = [X \in SUBSET (1..m) |-> PutStep(s, t, iter, X)]
  <2> HIDE DEF m
  <2> QED BY <1>1, PutExists
<1> HIDE DEF iter, m
<1>4. ASSUME NEW X \in SUBSET (1..m) PROVE iter[X] = PutStep(s, t, iter, X)
  BY <1>3
<1>5. run[0] = t
  <2>1. 1..0 = {} /\ 1..0 \in SUBSET (1..m) /\ 0 \in 0..m
    BY <1>1
  <2> QED BY <1>4, <2>1 DEF PutStep
<1>6. ASSUME NEW k \in 1..m PROVE run[k] = Put(run[k - 1], s[k])
  <2>1. /\ 1..k \in SUBSET (1..m) /\ k \in 1..k /\ 1..k # {}
        /\ k \in 0..m /\ k - 1 \in 0..m /\ (1..k) \ {k} = 1..(k - 1)
        /\ 1..k \in SUBSET Int /\ k \in Int
    <3>1. k \in Nat /\ k >= 1 /\ k <= m
      BY <1>1
    <3>2. k \in 0..m /\ k - 1 \in 0..m
      BY <1>1, <3>1
    <3>3. 1..k \in SUBSET (1..m) /\ 1..k \in SUBSET Int
      BY <1>1, <3>1
    <3>4. k \in 1..k
      BY <3>1
    <3>5. (1..k) \ {k} = 1..(k - 1)
      BY <3>1
    <3> QED BY <3>1, <3>2, <3>3, <3>4, <3>5
  <2>2. Max(1..k) = k
    <3>1. \A y \in 1..k : y <= k
      OBVIOUS
    <3> QED BY <2>1, <3>1, LargestIs
  <2>3. iter[1..k] = PutStep(s, t, iter, 1..k)
    BY <1>4, <2>1
  <2>4. run[k] = iter[1..k] /\ run[k - 1] = iter[1..(k - 1)]
    BY <2>1
  <2> HIDE DEF run
  <2> QED BY <2>1, <2>2, <2>3, <2>4 DEF PutStep
<1>7. run[m] = iter[1..m]
  BY <1>1
<1> HIDE DEF run
<1>8. \E r : r[0] = t /\ PutAll(t, s) = r[m] /\ \A k \in 1..m : r[k] = Put(r[k - 1], s[k])
  <2>1. run[0] = t /\ PutAll(t, s) = run[m]
    BY <1>2, <1>5, <1>7
  <2> WITNESS run
  <2> QED BY <1>6, <2>1
<1> QED BY <1>8 DEF m

(* The widths are added one after the other. *)
LEMMA WidthExists ==
  ASSUME NEW s, NEW t, NEW m \in Nat
  PROVE  \E f : f = [X \in SUBSET (1..m) |-> WidthStep(s, t, f, X)]
<1> DEFINE S == {k \in 0..m : \E f : f = [X \in SUBSET (1..k) |-> WidthStep(s, t, f, X)]}
<1>1. 0 \in S
  <2> DEFINE f == [X \in SUBSET (1..0) |-> t]
  <2>1. \A X \in SUBSET (1..0) : X = {}
    OBVIOUS
  <2>2. f = [X \in SUBSET (1..0) |-> WidthStep(s, t, f, X)]
    BY <2>1 DEF WidthStep
  <2> HIDE DEF f
  <2>3. \E h : h = [X \in SUBSET (1..0) |-> WidthStep(s, t, h, X)]
    BY <2>2
  <2> QED BY <2>3
<1>2. ASSUME NEW k \in 0..m, k \in S, k < m PROVE k + 1 \in S
  <2>1. PICK f : f = [X \in SUBSET (1..k) |-> WidthStep(s, t, f, X)]
    BY <1>2
  <2> DEFINE Dom == SUBSET (1..k)
             All == SUBSET (1..(k + 1))
             g == [X \in All |-> WidthStep(s, t, f, X)]
  <2>2. Dom \subseteq All
    BY <1>2
  <2>3. ASSUME NEW X \in All, X # {} PROVE X \ {Max(X)} \in Dom
    <3>1. Max(X) \in X /\ \A y \in X : y <= Max(X)
      BY <2>3, LargestOf
    <3>2. ASSUME NEW y \in X, y # Max(X) PROVE y \in 1..k
      <4>1. y \in 1..(k + 1) /\ Max(X) \in 1..(k + 1) /\ y <= Max(X)
        BY <3>1
      <4> HIDE DEF All
      <4> QED BY <3>2, <4>1
    <3> QED BY <3>2
  <2>4. ASSUME NEW X \in Dom PROVE g[X] = f[X]
    <3> HIDE DEF Dom, All
    <3>1. X \in All
      BY <2>2
    <3>2. f[X] = WidthStep(s, t, f, X)
      BY <2>1 DEF Dom
    <3> QED BY <3>1, <3>2
  <2>5. ASSUME NEW X \in All PROVE WidthStep(s, t, g, X) = WidthStep(s, t, f, X)
    <3> HIDE DEF Dom, All, g
    <3> QED BY <2>3, <2>4 DEF WidthStep
  <2>6. g = [X \in All |-> WidthStep(s, t, g, X)]
    <3> HIDE DEF All
    <3>1. g = [X \in All |-> WidthStep(s, t, f, X)]
      OBVIOUS
    <3> HIDE DEF g
    <3> QED BY <2>5, <3>1
  <2> HIDE DEF g
  <2>7. \E h : h = [X \in SUBSET (1..(k + 1)) |-> WidthStep(s, t, h, X)]
    BY <2>6
  <2>8. k + 1 \in 0..m
    BY <1>2
  <2> QED BY <2>7, <2>8
<1>3. m \in S
  <2> HIDE DEF S
  <2>1. \A k \in 0..m : k \in S /\ k < m => k + 1 \in S
    BY <1>2
  <2>2. \A k \in 0..m : k \in S
    BY <1>1, <2>1, Counting
  <2> QED BY <2>2
<1> QED BY <1>3

(* TextWidth as the sums after each of the glyphs. *)
LEMMA WidthRun ==
  ASSUME NEW s, Len(s) \in Nat, DOMAIN s = 1..Len(s)
  PROVE  \E run : /\ run[0] = 0 /\ TextWidth(s) = run[Len(s)]
                  /\ \A k \in 1..Len(s) : run[k] = run[k - 1] + Width[s[k]]
<1> DEFINE m == Len(s)
           iter == CHOOSE f : f = [X \in SUBSET (1..m) |-> WidthStep(s, 0, f, X)]
           run == [k \in 0..m |-> iter[1..k]]
<1>1. m \in Nat /\ DOMAIN s = 1..m
  OBVIOUS
<1>2. TextWidth(s) = iter[1..m]
  BY <1>1 DEF TextWidth, FoldLeft, MapThenFoldSet, WidthStep
<1>3. iter = [X \in SUBSET (1..m) |-> WidthStep(s, 0, iter, X)]
  <2> HIDE DEF m
  <2> QED BY <1>1, WidthExists
<1> HIDE DEF iter, m
<1>4. ASSUME NEW X \in SUBSET (1..m) PROVE iter[X] = WidthStep(s, 0, iter, X)
  BY <1>3
<1>5. run[0] = 0
  <2>1. 1..0 = {} /\ 1..0 \in SUBSET (1..m) /\ 0 \in 0..m
    BY <1>1
  <2> QED BY <1>4, <2>1 DEF WidthStep
<1>6. ASSUME NEW k \in 1..m PROVE run[k] = run[k - 1] + Width[s[k]]
  <2>1. /\ 1..k \in SUBSET (1..m) /\ k \in 1..k /\ 1..k # {}
        /\ k \in 0..m /\ k - 1 \in 0..m /\ (1..k) \ {k} = 1..(k - 1)
        /\ 1..k \in SUBSET Int /\ k \in Int
    <3>1. k \in Nat /\ k >= 1 /\ k <= m
      BY <1>1
    <3>2. k \in 0..m /\ k - 1 \in 0..m
      BY <1>1, <3>1
    <3>3. 1..k \in SUBSET (1..m) /\ 1..k \in SUBSET Int
      BY <1>1, <3>1
    <3>4. k \in 1..k
      BY <3>1
    <3>5. (1..k) \ {k} = 1..(k - 1)
      BY <3>1
    <3> QED BY <3>1, <3>2, <3>3, <3>4, <3>5
  <2>2. Max(1..k) = k
    <3>1. \A y \in 1..k : y <= k
      OBVIOUS
    <3> QED BY <2>1, <3>1, LargestIs
  <2>3. iter[1..k] = WidthStep(s, 0, iter, 1..k)
    BY <1>4, <2>1
  <2>4. run[k] = iter[1..k] /\ run[k - 1] = iter[1..(k - 1)]
    BY <2>1
  <2> HIDE DEF run
  <2> QED BY <2>1, <2>2, <2>3, <2>4 DEF WidthStep
<1>7. run[m] = iter[1..m]
  BY <1>1
<1> HIDE DEF run
<1>8. \E r : r[0] = 0 /\ TextWidth(s) = r[m] /\ \A k \in 1..m : r[k] = r[k - 1] + Width[s[k]]
  <2>1. run[0] = 0 /\ TextWidth(s) = run[m]
    BY <1>2, <1>5, <1>7
  <2> WITNESS run
  <2> QED BY <1>6, <2>1
<1> QED BY <1>8 DEF m

-----------------------------------------------------------------------------
(* Text on the terminal *)

Glyph == DOMAIN Width

(* Widths add up to a natural number, for narrow glyphs to their number. *)
LEMMA WidthOf ==
  ASSUME NEW s \in Seq(Glyph)
  PROVE  /\ TextWidth(s) \in Nat
         /\ (\A k \in 1..Len(s) : Width[s[k]] = 1) => TextWidth(s) = Len(s)
<1> DEFINE m == Len(s)
<1>1. m \in Nat /\ DOMAIN s = 1..m /\ \A k \in 1..m : s[k] \in Glyph
  BY LenProperties, ElementOfSeq
<1> HIDE DEF m
<1>2. PICK run : /\ run[0] = 0 /\ TextWidth(s) = run[m]
                 /\ \A k \in 1..m : run[k] = run[k - 1] + Width[s[k]]
  BY <1>1, WidthRun DEF m
<1>3. \A k \in 1..m : Width[s[k]] \in Nat
  BY <1>1, TerminalAssumption DEF Glyph
<1>4. run[m] \in Nat
  <2> DEFINE S == {k \in 0..m : run[k] \in Nat}
  <2>1. 0 \in S
    BY <1>1, <1>2
  <2>2. ASSUME NEW k \in 0..m, k \in S /\ k < m PROVE k + 1 \in S
    <3>1. k + 1 \in 1..m /\ (k + 1) - 1 = k /\ run[k] \in Nat
      BY <1>1, <2>2
    <3>2. run[k + 1] = run[k] + Width[s[k + 1]]
      BY <1>2, <3>1
    <3> QED BY <1>3, <3>1, <3>2
  <2> HIDE DEF S
  <2>3. \A k \in 0..m : k \in S
    BY <1>1, <2>1, <2>2, Counting
  <2> QED BY <1>1, <2>3 DEF S
<1>5. ASSUME \A k \in 1..m : Width[s[k]] = 1 PROVE run[m] = m
  <2> DEFINE S == {k \in 0..m : run[k] = k}
  <2>1. 0 \in S
    BY <1>1, <1>2
  <2>2. ASSUME NEW k \in 0..m, k \in S /\ k < m PROVE k + 1 \in S
    <3>1. k + 1 \in 1..m /\ (k + 1) - 1 = k /\ run[k] = k
      BY <1>1, <2>2
    <3>2. run[k + 1] = run[k] + Width[s[k + 1]]
      BY <1>2, <3>1
    <3> QED BY <1>5, <3>1, <3>2
  <2> HIDE DEF S
  <2>3. \A k \in 0..m : k \in S
    BY <1>1, <2>1, <2>2, Counting
  <2> QED BY <1>1, <2>3 DEF S
<1> QED BY <1>2, <1>4, <1>5 DEF m

(* The cells before the cursor stay, whatever is printed. *)
Kept(t, u, i) == \A q \in Int : q < i => Cell(u, q) = Cell(t, q)

(* Printing never goes back, and advances by the width at least. *)
LEMMA PutAllType ==
  ASSUME NEW t, IsTerminal(t), NEW s \in Seq(Glyph)
  PROVE  /\ IsTerminal(PutAll(t, s))
         /\ Insertion(PutAll(t, s)) >= Insertion(t) + TextWidth(s)
         /\ PutAll(t, s).top >= t.top
         /\ Kept(t, PutAll(t, s), Insertion(t))
<1> DEFINE m == Len(s)
<1>1. m \in Nat /\ DOMAIN s = 1..m /\ \A k \in 1..m : s[k] \in Glyph
  BY LenProperties, ElementOfSeq
<1> HIDE DEF m
<1>2. PICK w : /\ w[0] = 0 /\ TextWidth(s) = w[m]
               /\ \A k \in 1..m : w[k] = w[k - 1] + Width[s[k]]
  BY <1>1, WidthRun DEF m
<1>3. PICK run : /\ run[0] = t /\ PutAll(t, s) = run[m]
                 /\ \A k \in 1..m : run[k] = Put(run[k - 1], s[k])
  BY <1>1, PutRun DEF m
<1>4. Insertion(t) \in Nat /\ t.top \in Nat
  BY InsertionType DEF IsTerminal
<1> DEFINE P(k) == /\ w[k] \in Nat /\ IsTerminal(run[k])
                   /\ Insertion(run[k]) >= Insertion(t) + w[k]
                   /\ run[k].top >= t.top
                   /\ Kept(t, run[k], Insertion(t))
           S == {k \in 0..m : P(k)}
<1>5. 0 \in S
  <2>1. P(0)
    BY <1>2, <1>3, <1>4 DEF Kept
  <2> QED BY <1>1, <2>1
<1>6. ASSUME NEW k \in 0..m, k \in S /\ k < m PROVE k + 1 \in S
  <2> DEFINE u == run[k]
             v == run[k + 1]
             g == s[k + 1]
  <2>1. k + 1 \in 1..m /\ (k + 1) - 1 = k
    BY <1>1, <1>6
  <2>2. /\ w[k] \in Nat /\ IsTerminal(u) /\ Insertion(u) >= Insertion(t) + w[k]
        /\ u.top >= t.top /\ Kept(t, u, Insertion(t))
    BY <1>6
  <2>3. v = Put(u, g) /\ g \in Glyph /\ w[k + 1] = w[k] + Width[g]
    BY <1>1, <1>2, <1>3, <2>1
  <2> HIDE DEF u, v, g
  <2>4. Width[g] \in Nat /\ Insertion(u) \in Nat /\ u.top \in Nat
    <3>1. Width[g] \in Nat
      BY <2>3, TerminalAssumption DEF Glyph
    <3>2. Insertion(u) \in Nat
      BY <2>2, InsertionType
    <3>3. u.top \in Nat
      BY <2>2 DEF IsTerminal
    <3> QED BY <3>1, <3>2, <3>3
  <2>5. /\ IsTerminal(v) /\ Insertion(v) >= Insertion(u) + Width[g] /\ v.top >= u.top
        /\ \A q \in Int : q < Insertion(u) => Cell(v, q) = Cell(u, q)
    BY <2>2, <2>3, PutType DEF Glyph
  <2>6. Insertion(v) \in Nat /\ v.top \in Nat
    BY <2>5, InsertionType DEF IsTerminal
  <2>7. Kept(t, v, Insertion(t))
    BY <1>4, <2>2, <2>4, <2>5 DEF Kept
  <2>8. w[k + 1] \in Nat /\ Insertion(v) >= Insertion(t) + w[k + 1]
    BY SMTT(30), <1>4, <2>2, <2>3, <2>4, <2>5, <2>6
  <2>9. v.top >= t.top
    BY <1>4, <2>2, <2>4, <2>5, <2>6
  <2>10. P(k + 1)
    BY <2>5, <2>7, <2>8, <2>9 DEF v
  <2> QED BY <1>1, <2>1, <2>10
<1>7. P(m)
  <2> HIDE DEF S
  <2>1. \A k \in 0..m : k \in S
    BY <1>1, <1>5, <1>6, Counting
  <2> QED BY <1>1, <2>1 DEF S
<1> QED BY <1>2, <1>3, <1>7

(* Scrolling for one cell and then for a later one is scrolling for the later. *)
LEMMA TopAgain ==
  ASSUME NEW top \in Int, NEW p \in Int, NEW q \in Int, p <= q
  PROVE  TopFor(TopFor(top, p), q) = TopFor(top, q)
<1>1. Row(p) \in Int /\ Row(q) \in Int /\ Row(p) <= Row(q) /\ Rows \in Nat
  BY DivMod, RowMonotone, Grid
<1> DEFINE i == Row(p)
           j == Row(q)
<1> HIDE DEF i, j
<1>2. i \in Int /\ j \in Int /\ i <= j /\ Rows \in Nat
  BY <1>1 DEF i, j
<1>3. TopFor(top, p) = IF i >= top + Rows THEN i - Rows + 1 ELSE top
  BY DEF TopFor, i
<1>4. TopFor(top, q) = IF j >= top + Rows THEN j - Rows + 1 ELSE top
  BY DEF TopFor, j
<1>5. TopFor(TopFor(top, p), q) =
        IF j >= TopFor(top, p) + Rows THEN j - Rows + 1 ELSE TopFor(top, p)
  BY DEF TopFor, j
<1>6. CASE i >= top + Rows
  BY <1>2, <1>3, <1>4, <1>5, <1>6
<1>7. CASE ~ (i >= top + Rows)
  BY <1>2, <1>3, <1>4, <1>5, <1>7
<1> QED BY <1>6, <1>7

Shown(t, i, s, q) == IF i <= q /\ q < i + Len(s) THEN s[q - i + 1] ELSE Cell(t, q)

(* Narrow glyphs fill one cell after the other. *)
LEMMA PutAllNarrow ==
  ASSUME NEW t, IsTerminal(t), NEW s \in Seq(Glyph), \A k \in 1..Len(s) : Width[s[k]] = 1
  PROVE  /\ IsTerminal(PutAll(t, s))
         /\ Insertion(PutAll(t, s)) = Insertion(t) + Len(s)
         /\ Len(s) = 0 => PutAll(t, s) = t
         /\ Len(s) # 0 => /\ PutAll(t, s).wrap <=> Col(Insertion(t) + Len(s)) = 0
                          /\ PutAll(t, s).top = TopFor(t.top, Insertion(t) + Len(s) - 1)
         /\ \A q \in Int : Cell(PutAll(t, s), q) = Shown(t, Insertion(t), s, q)
<1> DEFINE m == Len(s)
           i == Insertion(t)
<1>1. m \in Nat /\ DOMAIN s = 1..m /\ \A k \in 1..m : s[k] \in Glyph /\ Width[s[k]] = 1
  BY LenProperties, ElementOfSeq
<1> HIDE DEF m
<1>3. PICK run : /\ run[0] = t /\ PutAll(t, s) = run[m]
                 /\ \A k \in 1..m : run[k] = Put(run[k - 1], s[k])
  BY <1>1, PutRun DEF m
<1>4. i \in Nat /\ t.top \in Nat
  BY InsertionType DEF IsTerminal
<1> HIDE DEF i
<1> DEFINE Upper(k, q) == IF i <= q /\ q < i + k THEN s[q - i + 1] ELSE Cell(t, q)
           P(k) == /\ IsTerminal(run[k])
                   /\ Insertion(run[k]) = i + k
                   /\ k # 0 => /\ run[k].wrap <=> Col(i + k) = 0
                               /\ run[k].top = TopFor(t.top, i + k - 1)
                   /\ \A q \in Int : Cell(run[k], q) = Upper(k, q)
           S == {k \in 0..m : P(k)}
<1>5. 0 \in S
  <2>1. \A q \in Int : Cell(t, q) = Upper(0, q)
    BY <1>4
  <2>2. P(0)
    BY <1>3, <1>4, <2>1 DEF i
  <2> QED BY <1>1, <2>2
<1>6. ASSUME NEW k \in 0..m, k \in S /\ k < m PROVE k + 1 \in S
  <2> DEFINE u == run[k]
             v == run[k + 1]
             g == s[k + 1]
  <2>1. k + 1 \in 1..m /\ (k + 1) - 1 = k /\ k \in Nat
    BY <1>1, <1>6
  <2>2. P(k)
    BY <1>6
  <2>3. v = Put(u, g) /\ g \in DOMAIN Width /\ Width[g] = 1
    BY <1>1, <1>3, <2>1 DEF Glyph
  <2>4. /\ IsTerminal(u) /\ Insertion(u) = i + k
        /\ \A q \in Int : Cell(u, q) = Upper(k, q)
    BY <2>2
  <2>5. u.top = IF k = 0 THEN t.top ELSE TopFor(t.top, i + k - 1)
    BY <1>3, <2>1, <2>2
  <2> HIDE DEF u, v, g
  <2>6. /\ IsTerminal(v) /\ Insertion(v) = (i + k) + 1
        /\ (v.wrap <=> Col((i + k) + 1) = 0)
        /\ v.top = TopFor(u.top, i + k)
        /\ \A q \in Int : Cell(v, q) = IF q = i + k THEN g ELSE Cell(u, q)
    BY <2>3, <2>4, PutNarrow
  <2>7. v.top = TopFor(t.top, i + k)
    <3>1. CASE k = 0
      BY <2>5, <2>6, <3>1
    <3>2. CASE k # 0
      <4>1. i + k - 1 \in Int /\ i + k \in Int /\ i + k - 1 <= i + k
        BY <1>4, <2>1
      <4>2. TopFor(TopFor(t.top, i + k - 1), i + k) = TopFor(t.top, i + k)
        BY <1>4, <4>1, TopAgain
      <4> QED BY <2>5, <2>6, <3>2, <4>2
    <3> QED BY <3>1, <3>2
  <2>8. ASSUME NEW q \in Int PROVE Cell(v, q) = Upper(k + 1, q)
    <3>1. Cell(v, q) = IF q = i + k THEN g ELSE Upper(k, q)
      BY <2>4, <2>6
    <3>2. CASE q = i + k
      <4>1. q - i + 1 = k + 1 /\ i <= q /\ q < i + (k + 1)
        BY <1>4, <2>1, <3>2
      <4> QED BY <3>1, <3>2, <4>1 DEF g
    <3>3. CASE q # i + k
      <4>1. q < i + (k + 1) <=> q < i + k
        BY <1>4, <2>1, <3>3
      <4> QED BY <3>1, <3>3, <4>1
    <3> QED BY <3>2, <3>3
  <2> HIDE DEF Upper
  <2>9. (i + k) + 1 = i + (k + 1) /\ i + (k + 1) - 1 = i + k
    BY <1>4, <2>1
  <2>10. P(k + 1)
    BY <2>6, <2>7, <2>8, <2>9 DEF v
  <2> QED BY <1>1, <2>1, <2>10
<1>7. P(m)
  <2> HIDE DEF S
  <2>1. \A k \in 0..m : k \in S
    BY <1>1, <1>5, <1>6, Counting
  <2> QED BY <1>1, <2>1 DEF S
<1>8. \A q \in Int : Upper(m, q) = Shown(t, i, s, q)
  BY DEF Shown, m
<1> HIDE DEF Upper
<1>9. m = 0 => run[m] = t
  BY <1>3
<1> QED BY <1>3, <1>7, <1>8, <1>9 DEF m, i

-----------------------------------------------------------------------------
(* Positions on the screen *)

Position == [row : Nat, col : 0..(Cols - 1)]

Lin(pos) == pos.row * Cols + pos.col

(* Positions and their linear form, as linear_offset_to_2d converts them. *)
LEMMA LinType ==
  ASSUME NEW pos \in Position
  PROVE  /\ pos.row \in Nat /\ pos.col \in 0..(Cols - 1) /\ Lin(pos) \in Nat
         /\ Row(Lin(pos)) = pos.row /\ Col(Lin(pos)) = pos.col
         /\ Lin(pos) < Rows * Cols <=> pos.row < Rows
<1>1. pos.row \in Nat /\ pos.col \in 0..(Cols - 1)
  BY DEF Position
<1>2. Row(Lin(pos)) = pos.row /\ Col(Lin(pos)) = pos.col
  BY <1>1, RowUnique DEF Lin
<1>3. pos.row * Cols \in Nat
  BY <1>1, Grid
<1>4. Lin(pos) \in Nat
  BY <1>1, <1>3, Grid DEF Lin
<1>5. Lin(pos) < Rows * Cols <=> pos.row < Rows
  BY <1>2, <1>4, Grid, RowLess
<1> QED BY <1>1, <1>2, <1>4, <1>5

(* linear_offset_to_2d never leaves the positions. *)
LEMMA OffsetType ==
  ASSUME NEW pos \in Position, NEW n \in Int
  PROVE  /\ Offset(pos, n) \in Position
         /\ Lin(pos) + n >= 0 => Lin(Offset(pos, n)) = Lin(pos) + n
         /\ Lin(pos) + n < 0 => Lin(Offset(pos, n)) = 0
<1> DEFINE p == pos.row * Cols + pos.col + n
<1>1. p = Lin(pos) + n /\ p \in Int
  BY LinType DEF Lin
<1>2. CASE p < 0
  <2>1. Offset(pos, n) = [row |-> 0, col |-> 0]
    BY <1>2 DEF Offset
  <2>2. Offset(pos, n) \in Position
    BY <2>1, Grid DEF Position
  <2>3. Lin(Offset(pos, n)) = 0
    BY <2>1, Grid DEF Lin
  <2> HIDE DEF p
  <2> QED BY <1>1, <1>2, <2>2, <2>3
<1>3. CASE ~ (p < 0)
  <2>1. Offset(pos, n) = [row |-> Row(p), col |-> Col(p)]
    BY <1>3 DEF Offset, Row, Col
  <2> HIDE DEF p
  <2>2. Row(p) \in Int /\ Col(p) \in 0..(Cols - 1) /\ p = Row(p) * Cols + Col(p)
    BY <1>1, DivMod
  <2>3. ~ (Row(p) < 0)
    <3>1. ~ (p < 0 * Cols)
      BY <1>1, <1>3, Grid
    <3>2. 0 \in Int
      OBVIOUS
    <3> QED BY <1>1, <3>1, <3>2, RowLess
  <2>4. Offset(pos, n) \in Position
    BY <2>1, <2>2, <2>3 DEF Position
  <2>5. Lin(Offset(pos, n)) = p
    BY <2>1, <2>2 DEF Lin
  <2> QED BY <1>1, <1>3, <2>4, <2>5
<1> QED BY <1>2, <1>3

(* Addressing moves the cursor alone, and leaves it on the screen. *)
LEMMA AddressType ==
  ASSUME NEW t, IsTerminal(t), NEW pos \in Position
  PROVE  /\ IsTerminal(Address(t, pos))
         /\ Address(t, pos).tape = t.tape
         /\ Address(t, pos).top = t.top
         /\ Address(t, pos).wrap = FALSE
         /\ Address(t, pos).at \in Nat
         /\ Insertion(Address(t, pos)) = Address(t, pos).at
         /\ pos.row < Rows => Address(t, pos).at = t.top * Cols + Lin(pos)
<1> DEFINE row == IF pos.row < Rows THEN pos.row ELSE Rows - 1
           col == IF pos.col < Cols THEN pos.col ELSE Cols - 1
           at  == (t.top + row) * Cols + col
           u   == Address(t, pos)
<1>1. pos.row \in Nat /\ pos.col \in 0..(Cols - 1) /\ Cols \in Nat /\ Rows \in Nat /\ Rows >= 1
  BY LinType, Grid
<1>2. row \in Nat /\ row < Rows /\ col = pos.col
  BY <1>1
<1>3. /\ DOMAIN u = {"tape", "at", "wrap", "top"}
      /\ u.tape = t.tape /\ u.at = at /\ u.top = t.top /\ u.wrap = FALSE
  BY DEF Address, IsTerminal
<1>4. t.top \in Nat /\ DOMAIN t.tape \subseteq Nat
  BY DEF IsTerminal
<1>5. pos.row < Rows => row = pos.row
  OBVIOUS
<1> HIDE DEF u, row
<1> DEFINE y == t.top + row
<1>6. y \in Nat /\ y < t.top + Rows /\ t.top <= y
  BY <1>1, <1>2, <1>4
<1> HIDE DEF y
<1>7. at = y * Cols + pos.col
  BY <1>2 DEF y
<1> HIDE DEF at, col
<1>8. Row(at) = y
  BY <1>1, <1>6, <1>7, RowUnique
<1>9. at \in Nat
  <2>1. y * Cols \in Nat
    BY <1>1, <1>6
  <2> QED BY <1>1, <1>7, <2>1
<1>10. at < (t.top + Rows) * Cols /\ ~ (at < t.top * Cols)
  BY <1>1, <1>4, <1>6, <1>8, <1>9, RowLess
<1>11. t.top * Cols <= at
  <2>1. t.top * Cols \in Int
    BY <1>1, <1>4
  <2> QED BY <1>9, <1>10, <2>1
<1>12. IsTerminal(u)
  BY <1>3, <1>4, <1>9, <1>10, <1>11 DEF IsTerminal
<1>13. pos.row < Rows => u.at = t.top * Cols + Lin(pos)
  <2> SUFFICES ASSUME pos.row < Rows PROVE at = t.top * Cols + Lin(pos)
    BY <1>3
  <2>1. y = t.top + pos.row
    BY <1>5 DEF y
  <2>2. (t.top + pos.row) * Cols = t.top * Cols + pos.row * Cols
    BY <1>1, <1>4
  <2>3. t.top * Cols \in Int /\ pos.row * Cols \in Int
    BY <1>1, <1>4
  <2> QED BY <1>1, <1>7, <2>1, <2>2, <2>3 DEF Lin
<1>14. Insertion(u) = u.at
  BY <1>3 DEF Insertion
<1> QED BY <1>3, <1>9, <1>12, <1>13, <1>14 DEF u

LEMMA SameCells ==
  ASSUME NEW t, NEW u, u.tape = t.tape, NEW q
  PROVE  Cell(u, q) = Cell(t, q)
BY DEF Cell

(* "\n" stays on the screen, and goes to the start of the next row. *)
LEMMA LineFeedType ==
  ASSUME NEW t, IsTerminal(t)
  PROVE  /\ IsTerminal(LineFeed(t))
         /\ LineFeed(t).tape = t.tape
         /\ LineFeed(t).at = (Row(t.at) + 1) * Cols
         /\ Insertion(LineFeed(t)) = LineFeed(t).at
         /\ LineFeed(t).top = TopFor(t.top, (Row(t.at) + 1) * Cols)
         /\ LineFeed(t).top >= t.top
         /\ Row(t.at) + 1 < LineFeed(t).top + Rows
         /\ Insertion(t) <= Insertion(LineFeed(t))
<1> DEFINE k == Row(t.at) + 1
           p == k * Cols
<1>1. t.at \in Nat /\ t.top * Cols <= t.at /\ t.top * Cols \in Int /\ t.top \in Nat
  BY Grid DEF IsTerminal
<1>2. Row(t.at) \in Int /\ t.at < Row(t.at) * Cols + Cols
  BY <1>1, DivMod
<1>3. k \in Int /\ p = Row(t.at) * Cols + Cols /\ Row(t.at) * Cols \in Int
  BY <1>2, Grid
<1>4. p \in Nat /\ t.at < p /\ t.top * Cols <= p
  <2> HIDE DEF p
  <2> QED BY <1>1, <1>2, <1>3, Grid
<1>5. Row(p) = k
  BY <1>3, RowOf
<1>6. LineFeed(t) = Reach(t, p)
  BY DEF LineFeed, Row
<1> HIDE DEF p
<1>7. /\ IsTerminal(Reach(t, p))
      /\ Reach(t, p).tape = t.tape /\ Reach(t, p).at = p /\ Reach(t, p).wrap = FALSE
      /\ Reach(t, p).top = TopFor(t.top, p)
      /\ Reach(t, p).top >= t.top
      /\ Row(p) < Reach(t, p).top + Rows
  BY <1>4, ReachType
<1>8. Insertion(LineFeed(t)) = p
  BY <1>6, <1>7 DEF Insertion
<1>9. Insertion(t) <= p
  <2>1. Insertion(t) <= t.at + 1 /\ Insertion(t) \in Nat
    BY InsertionType
  <2> QED BY <1>1, <1>4, <2>1
<1> QED BY <1>5, <1>6, <1>7, <1>8, <1>9 DEF p

(* The terminal scrolled at least as far as the cells it printed demand. *)
LEMMA ScrolledFor ==
  ASSUME NEW t, IsTerminal(t), NEW e \in Nat, e <= Insertion(t), Col(e) # 0
  PROVE  Row(e) < t.top + Rows
<1>1. t.at \in Nat /\ t.top \in Nat /\ t.at < (t.top + Rows) * Cols
  BY DEF IsTerminal
<1>2. e - 1 <= t.at /\ e - 1 \in Int
  BY <1>1, InsertionType
<1>3. Row(e - 1) = Row(e)
  <2>1. (e - 1) + 1 = e
    OBVIOUS
  <2> QED BY <1>2, <2>1, RowAfter
<1>4. Row(e - 1) <= Row(t.at)
  BY <1>1, <1>2, RowMonotone
<1>5. Row(t.at) < t.top + Rows
  BY <1>1, Grid, RowLess
<1>6. Row(e) \in Int /\ Row(t.at) \in Int
  BY <1>1, DivMod
<1>7. t.top + Rows \in Int
  BY <1>1, Grid
<1> QED BY <1>3, <1>4, <1>5, <1>6, <1>7

-----------------------------------------------------------------------------
(* Prefixes of the line *)

LEMMA PrefixOf ==
  ASSUME NEW x \in Seq(Char), NEW y \in Seq(Char), NEW n \in 0..Len(x)
  PROVE  Prefix(x \o y, n) = Prefix(x, n)
<1>1. Len(x) \in Nat /\ Len(y) \in Nat
  BY LenProperties
<1>2. CASE n = 0
  BY <1>2, SubSeqEmpty, ConcatProperties DEF Prefix
<1>3. CASE n # 0
  <2>1. 1 \in 1..Len(x) /\ n \in 1..Len(x)
    BY <1>1, <1>3
  <2> QED BY <2>1, SubSeqOfConcat1 DEF Prefix
<1> QED BY <1>2, <1>3

(* A prefix of a prefix is a prefix. *)
LEMMA PrefixTwice ==
  ASSUME NEW x \in Seq(Char), NEW i \in 0..Len(x), NEW n \in 0..i
  PROVE  Prefix(Prefix(x, i), n) = Prefix(x, n)
<1>1. /\ Prefix(x, i) \in Seq(Char) /\ Len(Prefix(x, i)) = i /\ Beyond(x, i) \in Seq(Char)
      /\ Prefix(x, i) \o Beyond(x, i) = x
  BY CutType, CutJoin DEF Prefix, Upto
<1>2. Prefix(Prefix(x, i) \o Beyond(x, i), n) = Prefix(Prefix(x, i), n)
  BY <1>1, PrefixOf
<1> QED BY <1>1, <1>2

(* What is before the index stays when text is inserted or erased there. *)
LEMMA SplicePrefix ==
  ASSUME NEW x \in Seq(Char), NEW i \in 0..Len(x), NEW s \in Seq(Char), NEW n \in 0..i
  PROVE  Prefix(Splice(x, i, s), n) = Prefix(x, n)
<1> DEFINE p == Prefix(x, i)
           y == SubSeq(x, i + 1, Len(x))
<1>1. p \in Seq(Char) /\ Len(p) = i /\ y \in Seq(Char)
  BY CutType DEF Prefix, Upto, Beyond
<1>2. p \o s \in Seq(Char) /\ Len(p \o s) = i + Len(s) /\ Len(s) \in Nat
  BY <1>1, ConcatProperties, LenProperties
<1>3. Splice(x, i, s) = (p \o s) \o y
  BY DEF Splice
<1> HIDE DEF p, y
<1>4. n \in 0..Len(p) /\ n \in 0..Len(p \o s)
  BY <1>1, <1>2
<1>5. Prefix((p \o s) \o y, n) = Prefix(p \o s, n)
  BY <1>1, <1>2, <1>4, PrefixOf
<1>6. Prefix(p \o s, n) = Prefix(p, n)
  BY <1>1, <1>4, PrefixOf
<1>7. Prefix(p, n) = Prefix(x, n)
  BY PrefixTwice DEF p
<1> QED BY <1>3, <1>5, <1>6, <1>7

LEMMA ErasePrefix ==
  ASSUME NEW x \in Seq(Char), NEW i \in 0..(Len(x) - 1), NEW n \in 0..i
  PROVE  Prefix(Erase(x, i), n) = Prefix(x, n)
<1> DEFINE p == Prefix(x, i)
           y == SubSeq(x, i + 2, Len(x))
<1>1. i \in 0..Len(x) /\ i + 1 \in 0..Len(x) /\ (i + 1) + 1 = i + 2
  BY LenProperties
<1>2. p \in Seq(Char) /\ Len(p) = i /\ y \in Seq(Char)
  BY <1>1, CutType DEF Prefix, Upto, Beyond
<1>3. Erase(x, i) = p \o y
  BY DEF Erase
<1> HIDE DEF p, y
<1>4. n \in 0..Len(p)
  BY <1>2
<1>5. Prefix(p \o y, n) = Prefix(p, n)
  BY <1>2, <1>4, PrefixOf
<1>6. Prefix(p, n) = Prefix(x, n)
  BY <1>1, PrefixTwice DEF p
<1> QED BY <1>3, <1>5, <1>6

-----------------------------------------------------------------------------
(* What is drawn for a text *)

(* Shown or hidden, a text is drawn with as many glyphs as it has characters. *)
LEMMA DrawnType ==
  ASSUME NEW x \in Seq(Char), echo_mode \in {"off", "on", "obscured"}
  PROVE  /\ Drawn(x) \in Seq(Glyph)
         /\ TextWidth(Drawn(x)) \in Nat
         /\ echo_mode # "off" => Len(Drawn(x)) = Len(x)
<1>1. Char \subseteq Glyph /\ Star \in Glyph
  BY DisplayAssumption DEF Glyph
<1>2. Len(x) \in Nat /\ DOMAIN x = 1..Len(x) /\ \A k \in 1..Len(x) : x[k] \in Char
  BY LenProperties, ElementOfSeq
<1>3. CASE echo_mode = "on"
  <2>1. Drawn(x) = x
    BY <1>3 DEF Drawn
  <2>2. \A k \in 1..Len(x) : x[k] \in Glyph
    BY <1>1, <1>2
  <2>3. x \in Seq(Glyph)
    BY <1>2, <2>2
  <2> QED BY <2>1, <2>3, WidthOf
<1>4. CASE echo_mode = "obscured"
  <2>1. Drawn(x) = [k \in 1..Len(x) |-> Star]
    BY <1>4 DEF Drawn
  <2>2. Drawn(x) \in Seq(Glyph) /\ Len(Drawn(x)) = Len(x)
    BY <1>1, <1>2, <2>1
  <2> QED BY <2>2, WidthOf
<1>5. CASE echo_mode = "off"
  <2>1. Drawn(x) = <<>>
    BY <1>5 DEF Drawn
  <2>2. Drawn(x) \in Seq(Glyph)
    BY <2>1
  <2> QED BY <2>2, <1>5, WidthOf
<1> QED BY <1>3, <1>4, <1>5

LEMMA DrawnNothing ==
  ASSUME NEW x \in Seq(Char), echo_mode \in {"off", "on", "obscured"}
  PROVE  TextWidth(Drawn(Prefix(x, 0))) = 0
<1>1. Prefix(x, 0) \in Seq(Char) /\ Len(Prefix(x, 0)) = 0
  <2>1. 0 \in 0..Len(x)
    BY LenProperties
  <2> QED BY <2>1, CutType DEF Prefix, Upto
<1>2. Drawn(Prefix(x, 0)) \in Seq(Glyph)
  BY <1>1, DrawnType
<1>3. Len(Drawn(Prefix(x, 0))) = 0
  <2>1. CASE echo_mode = "off"
    BY <2>1 DEF Drawn
  <2>2. CASE echo_mode # "off"
    BY <1>1, <2>2, DrawnType
  <2> QED BY <2>1, <2>2
<1> DEFINE d == Drawn(Prefix(x, 0))
<1> HIDE DEF d
<1>4. d \in Seq(Glyph) /\ Len(d) = 0
  BY <1>2, <1>3 DEF d
<1>6. \A k \in 1..Len(d) : Width[d[k]] = 1
  BY <1>4
<1>5. TextWidth(d) = Len(d)
  BY <1>4, <1>6, WidthOf
<1> QED BY <1>4, <1>5 DEF d

LEMMA WholePrefix == ASSUME NEW x \in Seq(Char) PROVE Prefix(x, Len(x)) = x
BY SubSeqFull DEF Prefix

(* Nothing is erased where the new text is no shorter. *)
LEMMA BlanksType ==
  ASSUME NEW n \in Int
  PROVE  /\ Blanks(n) \in Seq(Glyph)
         /\ Len(Blanks(n)) = IF n < 0 THEN 0 ELSE n
         /\ \A k \in 1..Len(Blanks(n)) : Blanks(n)[k] = Blank /\ Width[Blanks(n)[k]] = 1
<1> DEFINE m == IF n < 0 THEN 0 ELSE n
<1>1. Blank \in Glyph /\ Width[Blank] = 1 /\ m \in Nat /\ 1..n = 1..m
  BY TerminalAssumption DEF Glyph
<1>2. Blanks(n) = [k \in 1..m |-> Blank]
  BY <1>1 DEF Blanks
<1> HIDE DEF m
<1>3. Blanks(n) \in Seq(Glyph) /\ Len(Blanks(n)) = m /\ \A k \in 1..m : Blanks(n)[k] = Blank
  BY <1>1, <1>2
<1> QED BY <1>1, <1>3 DEF m

-----------------------------------------------------------------------------
(* What an event does to the screen *)

(* An event either leaves the screen and the text before the terminal's      *)
(* cursor alone, or moves that cursor before it touches the text behind it.  *)
Stays ==
  /\ UNCHANGED <<screen, render_cursor>>
  /\ Prefix(buffer', render_cursor) = Prefix(buffer, render_cursor)
  /\ dirty' \/ UNCHANGED <<buffer, cursor, dirty>>

Moves(to) ==
  /\ Moving /\ SyncCursors(buffer, to)
  /\ Prefix(buffer', to) = Prefix(buffer, to)
  /\ dirty' \/ (cursor' = to /\ UNCHANGED <<buffer, dirty>>)

LEMMA MoveMoves ==
  ASSUME NEW to, MoveCursor(to), Moving, UNCHANGED <<buffer, dirty, given>>
  PROVE  Moves(to)
BY DEF MoveCursor, Moves

(* Every event is of one of these two kinds. *)
LEMMA EventMoves ==
  ASSUME LineInv, SetupInv, NEW more, Event(more)
  PROVE  Stays \/ \E to \in 0..Len(buffer) : Moves(to)
<1>0. Len(buffer) \in Nat /\ cursor \in Nat /\ buffer \in Seq(Char)
  BY LenProperties DEF LineInv
<1>00. cursor \in 0..Len(buffer) /\ render_cursor \in 0..cursor
  BY DEF LineInv
<1>1. CASE \E s \in Texts[Setup] : InsertText(s, more)
  <2> PICK s \in Texts[Setup] : InsertText(s, more)
    BY <1>1
  <2>1. s \in Seq(Char)
    BY TextsTyped
  <2>2. Prefix(Splice(buffer, cursor, s), render_cursor) = Prefix(buffer, render_cursor)
    BY <1>0, <1>00, <2>1, SplicePrefix
  <2>3. Stays
    BY <2>2 DEF InsertText, Stays
  <2> QED BY <2>3
<1>2. CASE EscapeLeft(more)
  <2>1. cursor - 1 \in 0..Len(buffer)
    BY <1>0, <1>00, <1>2 DEF EscapeLeft
  <2>2. Moves(cursor - 1)
    BY <1>2, MoveMoves DEF EscapeLeft
  <2> QED BY <2>1, <2>2
<1>3. CASE EscapeRight(more)
  <2>1. cursor + 1 \in 0..Len(buffer)
    BY <1>0, <1>3 DEF EscapeRight
  <2>2. Moves(cursor + 1)
    BY <1>3, MoveMoves DEF EscapeRight
  <2> QED BY <2>1, <2>2
<1>4. CASE EscapeHome(more)
  <2>1. 0 \in 0..Len(buffer)
    BY <1>0
  <2>2. Moves(0)
    BY <1>4, MoveMoves DEF EscapeHome
  <2> QED BY <2>1, <2>2
<1>5. CASE EscapeEnd(more)
  <2>1. Len(buffer) \in 0..Len(buffer)
    BY <1>0
  <2>2. Moves(Len(buffer))
    BY <1>5, MoveMoves DEF EscapeEnd
  <2> QED BY <2>1, <2>2
<1>6. CASE EscapeDelete(more)
  <2>1. cursor \in 0..(Len(buffer) - 1)
    BY <1>0, <1>6 DEF EscapeDelete
  <2>2. Prefix(Erase(buffer, cursor), render_cursor) = Prefix(buffer, render_cursor)
    BY <1>0, <1>00, <2>1, ErasePrefix
  <2>3. Stays
    BY <1>6, <2>2 DEF EscapeDelete, Stays
  <2> QED BY <2>3
<1>7. CASE EscapeBackspace(more)
  <2>1. cursor - 1 \in 0..(Len(buffer) - 1) /\ cursor - 1 \in 0..(cursor - 1) /\ cursor - 1 \in 0..Len(buffer)
    BY <1>0, <1>00, <1>7 DEF EscapeBackspace
  <2>2. Prefix(Erase(buffer, cursor - 1), cursor - 1) = Prefix(buffer, cursor - 1)
    BY <1>0, <2>1, ErasePrefix
  <2>3. Moves(cursor - 1)
    BY <1>7, <2>2 DEF EscapeBackspace, MoveCursor, Moves
  <2> QED BY <2>1, <2>3
<1>8. CASE \E r \in Replies : EvalCustom(r, more)
  <2> PICK r \in Replies : EvalCustom(r, more)
    BY <1>8
  <2>1. r.text \in Seq(Char) /\ buffer' = r.text /\ Len(r.text) \in Nat
    BY LineAssumption, LenProperties DEF EvalCustom
  <2>2. Prefix(r.text, 0) = Prefix(buffer, 0)
    BY SubSeqEmpty DEF Prefix
  <2>3. Moves(0)
    BY <2>1, <2>2 DEF EvalCustom, Moves, Moving
  <2>4. 0 \in 0..Len(buffer)
    BY <1>0
  <2> QED BY <2>3, <2>4
<1>9. CASE NoEffect(more)
  <2>1. UNCHANGED <<line, screen>>
    BY <1>9 DEF NoEffect
  <2>2. UNCHANGED <<buffer, cursor, dirty, render_cursor, screen>>
    BY <2>1 DEF line
  <2>3. Stays
    BY <2>2 DEF Stays
  <2> QED BY <2>3
<1> QED BY <1>1, <1>2, <1>3, <1>4, <1>5, <1>6, <1>7, <1>8, <1>9 DEF Event

-----------------------------------------------------------------------------
(* The screen invariant *)

(* The renderer drives the terminal by addresses; otherwise it only prints. *)
Drives == term_smart /\ echo_mode # "off"

(* The columns the renderer takes to lie before the terminal's cursor, and   *)
(* the cell at which, by its own arithmetic, the line begins.                *)
Ahead  == TextWidth(Drawn(Prefix(buffer, render_cursor)))
Origin == term.top * Cols + (Lin(cursor_pos) - Ahead)

(* The first cell the renderer may write.  The position report it begins     *)
(* with cannot tell a pending wrap.                                          *)
First == IF Drives THEN start.at ELSE Insertion(start)

(* The inductive invariant: the origin never rises above the prompt's end,   *)
(* and never falls below the screen, where addresses are clamped; and every  *)
(* redraw begins at the origin or further down.                              *)
ScreenInv ==
  /\ start \in Starts /\ IsTerminal(term)
  /\ cursor_pos \in Position /\ last_rendered_width \in Nat
  /\ Kept(start, term, First)
  /\ Drives => start.at <= Origin /\ Origin < (term.top + Rows) * Cols
  /\ ~Drives => Insertion(start) <= Insertion(term)
  /\ echo_mode = "off" => term = start

LEMMA AheadStep ==
  ASSUME UNCHANGED given, NEW n, Prefix(buffer', render_cursor') = Prefix(buffer, n)
  PROVE  Ahead' = TextWidth(Drawn(Prefix(buffer, n)))
<1>1. echo_mode' = echo_mode
  BY DEF given
<1> QED BY <1>1 DEF Ahead, Drawn

LEMMA AheadType ==
  ASSUME LineInv, SetupInv, NEW n \in 0..Len(buffer)
  PROVE  TextWidth(Drawn(Prefix(buffer, n))) \in Nat
<1>1. Prefix(buffer, n) \in Seq(Char)
  BY CutType DEF LineInv, Prefix, Upto
<1> QED BY <1>1, DrawnType, SetupKinds

LEMMA OriginType ==
  ASSUME LineInv, SetupInv, ScreenInv
  PROVE  /\ term.top \in Nat /\ term.top * Cols \in Nat /\ Lin(cursor_pos) \in Nat
         /\ Ahead \in Nat /\ Origin \in Int
         /\ start.at \in Nat /\ (term.top + Rows) * Cols = term.top * Cols + Rows * Cols
         /\ Rows * Cols \in Nat /\ Rows * Cols >= 1
<1>1. term.top \in Nat
  BY DEF ScreenInv, IsTerminal
<1>2. start.at \in Nat
  BY StartAssumption DEF ScreenInv, IsTerminal
<1>3. Lin(cursor_pos) \in Nat
  BY LinType DEF ScreenInv
<1>4. Ahead \in Nat
  <2>1. render_cursor \in 0..Len(buffer)
    BY LenProperties DEF LineInv
  <2> QED BY <2>1, AheadType DEF Ahead
<1>5. term.top * Cols \in Nat /\ Rows * Cols \in Nat /\ Rows * Cols >= 1
  BY <1>1, Grid
<1>6. (term.top + Rows) * Cols = term.top * Cols + Rows * Cols
  BY <1>1, Grid
<1>7. Origin \in Int
  BY <1>3, <1>4, <1>5 DEF Origin
<1> QED BY <1>1, <1>2, <1>3, <1>4, <1>5, <1>6, <1>7

LEMMA ScreenInit == Init => ScreenInv
<1> SUFFICES ASSUME Init PROVE ScreenInv
  OBVIOUS
<1>0. SetupInv /\ LineInv
  BY SetupInit, InvInit
<1>1. start \in Starts /\ term = start /\ last_rendered_width = 0 /\ buffer = <<>> /\ render_cursor = 0
  BY DEF Init
<1>2. IsTerminal(start)
  BY <1>1, StartAssumption
<1>3. start.at \in Nat /\ start.top \in Nat /\ start.top * Cols <= start.at
  BY <1>2 DEF IsTerminal
<1> DEFINE r == Row(start.at)
           c == Col(start.at)
<1>4. r \in Int /\ c \in 0..(Cols - 1) /\ start.at = r * Cols + c /\ r >= start.top
  <2>1. start.top * Cols \in Int
    BY <1>3, Grid
  <2>2. ~ (start.at < start.top * Cols)
    BY <1>3, <2>1
  <2>3. ~ (r < start.top)
    BY <1>3, <2>2, RowLess
  <2> QED BY <1>3, <2>3, DivMod
<1> HIDE DEF r, c
<1>5. Report(start) = [row |-> r - start.top, col |-> c]
  BY DEF Report, r, c, Row, Col
<1>6. CASE Drives
  <2>1. cursor_pos = [row |-> r - start.top, col |-> c]
    BY <1>5, <1>6 DEF Init, Drives
  <2>2. cursor_pos \in Position
    BY <1>3, <1>4, <2>1 DEF Position
  <2>3. Ahead = 0
    BY <1>0, <1>1, SetupKinds, DrawnNothing DEF Ahead, LineInv
  <2>4. Origin = start.at
    <3>1. Lin(cursor_pos) = (r - start.top) * Cols + c
      BY <2>1 DEF Lin
    <3>2. (r - start.top) * Cols = r * Cols - start.top * Cols
      BY <1>3, <1>4, Grid
    <3>3. r * Cols \in Int /\ start.top * Cols \in Int
      BY <1>3, <1>4, Grid
    <3> QED BY <1>1, <1>3, <1>4, <2>3, <3>1, <3>2, <3>3, Grid DEF Origin
  <2>5. start.at < (start.top + Rows) * Cols
    BY <1>2 DEF IsTerminal
  <2>6. Kept(start, term, First)
    BY <1>1 DEF Kept
  <2> QED BY <1>1, <1>2, <1>3, <1>6, <2>2, <2>4, <2>5, <2>6 DEF ScreenInv
<1>7. CASE ~Drives
  <2>1. cursor_pos = [row |-> 0, col |-> 0]
    BY <1>7 DEF Init, Drives
  <2>2. cursor_pos \in Position
    BY <2>1, Grid DEF Position
  <2>3. Kept(start, term, First)
    BY <1>1 DEF Kept
  <2>4. Insertion(start) <= Insertion(term)
    BY <1>1, <1>2, InsertionType
  <2> QED BY <1>1, <1>2, <1>7, <2>2, <2>3, <2>4 DEF ScreenInv
<1> QED BY <1>6, <1>7

(* A step that draws nothing keeps the invariant. *)
LEMMA StayScreen ==
  ASSUME ScreenInv, UNCHANGED <<screen, given, render_cursor>>,
         Prefix(buffer', render_cursor) = Prefix(buffer, render_cursor)
  PROVE  ScreenInv'
<1>1. /\ cursor_pos' = cursor_pos /\ last_rendered_width' = last_rendered_width /\ term' = term
      /\ start' = start /\ echo_mode' = echo_mode /\ (term_smart' <=> term_smart)
      /\ render_cursor' = render_cursor
  BY DEF screen, given
<1>2. Ahead' = Ahead
  BY <1>1, AheadStep DEF Ahead
<1>3. Origin' = Origin
  BY <1>1, <1>2 DEF Origin
<1>4. (Drives' <=> Drives) /\ First' = First
  BY <1>1 DEF Drives, First
<1> QED BY <1>1, <1>3, <1>4 DEF ScreenInv

(* Falling back to the corner moves the origin down, but not off the screen. *)
LEMMA OriginMoved ==
  ASSUME NEW base \in Nat, NEW height \in Nat, height >= 1,
         NEW lin \in Nat, NEW a \in Nat, NEW c \in Nat, NEW l \in Nat,
         lin + (c - a) >= 0 => l = lin + (c - a),
         lin + (c - a) < 0 => l = 0,
         base + (lin - a) < base + height
  PROVE  /\ base + (l - c) \in Int
         /\ base + (lin - a) <= base + (l - c)
         /\ base + (l - c) < base + height
         /\ base <= base + (lin - a) => base + (l - c) = base + (lin - a)
<1>1. CASE lin + (c - a) >= 0
  BY <1>1
<1>2. CASE lin + (c - a) < 0
  BY <1>2
<1> QED BY <1>1, <1>2

(* So does a motion; the origin stays unless it was above the screen. *)
LEMMA MoveScreen ==
  ASSUME LineInv, SetupInv, ScreenInv, Drives, NEW to \in 0..Len(buffer), UNCHANGED given,
         SyncCursors(buffer, to), Prefix(buffer', to) = Prefix(buffer, to)
  PROVE  /\ ScreenInv'
         /\ term.top * Cols <= Origin => Origin' = Origin
<1> DEFINE c == TextWidth(Drawn(Prefix(buffer, to)))
           pos == Offset(cursor_pos, c - Ahead)
           u == Address(term, pos)
<1>1. /\ render_cursor' = to /\ last_rendered_width' = last_rendered_width
      /\ cursor_pos' = pos /\ term' = u
  BY DEF SyncCursors, Drives, MoveWidth, Ahead
<1>2. start' = start /\ echo_mode' = echo_mode /\ (term_smart' <=> term_smart)
  BY DEF given
<1>3. c \in Nat
  BY AheadType
<1>4. Ahead' = c
  BY <1>1, AheadStep
<1>5. /\ term.top \in Nat /\ term.top * Cols \in Nat /\ Lin(cursor_pos) \in Nat
      /\ Ahead \in Nat /\ Origin \in Int
      /\ start.at \in Nat /\ (term.top + Rows) * Cols = term.top * Cols + Rows * Cols
      /\ Rows * Cols \in Nat /\ Rows * Cols >= 1
  BY OriginType
<1> HIDE DEF c
<1>6. /\ pos \in Position
      /\ Lin(cursor_pos) + (c - Ahead) >= 0 => Lin(pos) = Lin(cursor_pos) + (c - Ahead)
      /\ Lin(cursor_pos) + (c - Ahead) < 0 => Lin(pos) = 0
  <2>1. c - Ahead \in Int /\ cursor_pos \in Position
    BY <1>3, <1>5 DEF ScreenInv
  <2> QED BY <2>1, OffsetType
<1>7. IsTerminal(u) /\ u.tape = term.tape /\ u.top = term.top
  BY <1>6, AddressType DEF ScreenInv
<1> HIDE DEF pos, u
<1> DEFINE o == u.top * Cols + (Lin(pos) - c)
<1>8. Origin' = o
  BY <1>1, <1>4 DEF Origin
<1>9. Origin = term.top * Cols + (Lin(cursor_pos) - Ahead) /\ Lin(pos) \in Nat
  BY <1>6, LinType DEF Origin
<1>10. o = term.top * Cols + (Lin(pos) - c)
  BY <1>7
<1> HIDE DEF o
<1>12. Origin < (term.top + Rows) * Cols /\ start.at <= Origin
  BY DEF ScreenInv
<1>11. /\ o \in Int /\ Origin <= o /\ o < (term.top + Rows) * Cols
       /\ term.top * Cols <= Origin => o = Origin
  <2> DEFINE base == term.top * Cols
             height == Rows * Cols
             lin == Lin(cursor_pos)
             l == Lin(pos)
             a == Ahead
  <2>1. /\ base \in Nat /\ height \in Nat /\ height >= 1 /\ lin \in Nat /\ a \in Nat /\ l \in Nat
        /\ lin + (c - a) >= 0 => l = lin + (c - a)
        /\ lin + (c - a) < 0 => l = 0
    BY <1>5, <1>6, <1>9
  <2>2. /\ Origin = base + (lin - a) /\ o = base + (l - c)
        /\ (term.top + Rows) * Cols = base + height
    BY <1>5, <1>9, <1>10
  <2> HIDE DEF base, height, lin, l, a
  <2>3. base + (lin - a) < base + height
    BY <1>12, <2>2
  <2>4. /\ base + (l - c) \in Int
        /\ base + (lin - a) <= base + (l - c)
        /\ base + (l - c) < base + height
        /\ base <= base + (lin - a) => base + (l - c) = base + (lin - a)
    BY <1>3, <2>1, <2>3, OriginMoved
  <2> QED BY <2>2, <2>4 DEF base
<1>13. o < (term.top + Rows) * Cols /\ start.at <= o
  <2>1. start.at \in Int /\ Origin \in Int
    BY <1>5
  <2> QED BY <1>11, <1>12, <2>1
<1>14. Drives' /\ First' = First
  BY <1>2 DEF Drives, First
<1>15. Kept(start, u, First)
  BY <1>7 DEF ScreenInv, Kept, Cell
<1>16. Drives' => start'.at <= Origin' /\ Origin' < (term'.top + Rows) * Cols
  BY <1>1, <1>2, <1>7, <1>8, <1>13
<1>17. start' \in Starts /\ IsTerminal(term') /\ cursor_pos' \in Position /\ last_rendered_width' \in Nat
  BY <1>1, <1>2, <1>6, <1>7 DEF ScreenInv
<1>18. Kept(start', term', First')
  BY <1>1, <1>2, <1>14, <1>15
<1>19. echo_mode' # "off"
  BY <1>2 DEF Drives
<1>20. ScreenInv'
  BY <1>14, <1>16, <1>17, <1>18, <1>19 DEF ScreenInv
<1> QED BY <1>8, <1>11, <1>20

-----------------------------------------------------------------------------
(* The steps of a redraw *)

Home     == Offset(cursor_pos, MoveWidth(buffer, render_cursor, 0))
Printed  == PutAll(Address(term, Home), Drawn(buffer))
LineEnd  == Offset(Home, TextWidth(Drawn(buffer)))
Gone     == RowsScrolled(LineEnd)
Scrolled == IF Gone > 0 /\ LineEnd.col = 0 THEN LineFeed(Printed) ELSE Printed
Erased   == PutAll(Scrolled, Blanks(EraseCount(buffer)))
AtCursor == Offset([LineEnd EXCEPT !.row = @ - Gone], MoveWidth(buffer, Len(buffer), cursor))

LEMMA RedrawSteps ==
  ASSUME RedrawSmart
  PROVE  /\ cursor_pos' = AtCursor /\ term' = Address(Erased, AtCursor)
         /\ last_rendered_width' = TextWidth(Drawn(buffer))
         /\ render_cursor' = cursor
<1>1. cursor_pos' = AtCursor
  BY DEF RedrawSmart, Home, LineEnd, Gone, AtCursor
<1>2. term' = Address(Erased, cursor_pos')
  BY DEF RedrawSmart, Home, LineEnd, Gone, Printed, Scrolled, Erased
<1> QED BY <1>1, <1>2 DEF RedrawSmart

(* The cell the redraw begins at, and the one behind its last column. *)
HomeCell == term.top * Cols + Lin(Home)
EndCell  == HomeCell + TextWidth(Drawn(buffer))

(* A redraw begins at the origin or, when that scrolled away, at the corner. *)
LEMMA HomeType ==
  ASSUME LineInv, SetupInv, ScreenInv, Drives
  PROVE  /\ Home \in Position /\ HomeCell \in Nat
         /\ IsTerminal(Address(term, Home))
         /\ Address(term, Home).tape = term.tape /\ Address(term, Home).top = term.top
         /\ Insertion(Address(term, Home)) = HomeCell
         /\ Origin <= HomeCell /\ HomeCell < (term.top + Rows) * Cols
         /\ term.top * Cols <= Origin => HomeCell = Origin
<1> DEFINE base == term.top * Cols
           height == Rows * Cols
           lin == Lin(cursor_pos)
           a == Ahead
           l == Lin(Home)
<1>1. /\ base \in Nat /\ height \in Nat /\ height >= 1 /\ lin \in Nat /\ a \in Nat
      /\ Origin = base + (lin - a) /\ Origin < base + height
      /\ (term.top + Rows) * Cols = base + height
  BY OriginType DEF Origin, ScreenInv
<1>2. MoveWidth(buffer, render_cursor, 0) = 0 - a
  BY DrawnNothing, SetupKinds DEF MoveWidth, Ahead, LineInv
<1>3. cursor_pos \in Position /\ 0 - a \in Int
  <2>1. cursor_pos \in Position
    BY DEF ScreenInv
  <2> HIDE DEF a
  <2> QED BY <1>1, <2>1
<1>4. /\ Home \in Position
      /\ lin + (0 - a) >= 0 => l = lin + (0 - a)
      /\ lin + (0 - a) < 0 => l = 0
  BY <1>2, <1>3, OffsetType DEF Home
<1>5. l \in Nat /\ (l < height <=> Home.row < Rows)
  BY <1>4, LinType
<1> HIDE DEF base, height, lin, a, l
<1>6. l < height /\ Origin <= base + l /\ base + l < base + height
      /\ (base <= Origin => base + l = Origin)
  <2>1. CASE lin + (0 - a) >= 0
    BY <1>1, <1>4, <1>5, <2>1
  <2>2. CASE lin + (0 - a) < 0
    BY <1>1, <1>4, <1>5, <2>2
  <2> QED BY <1>1, <1>5, <2>1, <2>2
<1>7. HomeCell = base + l /\ base + l \in Nat
  BY <1>1, <1>5 DEF HomeCell, base, l
<1>8. IsTerminal(term)
  BY DEF ScreenInv
<1>9. /\ IsTerminal(Address(term, Home))
      /\ Address(term, Home).tape = term.tape /\ Address(term, Home).top = term.top
      /\ Insertion(Address(term, Home)) = base + l
  BY <1>4, <1>5, <1>6, <1>8, AddressType DEF base, l
<1> QED BY <1>1, <1>4, <1>6, <1>7, <1>9 DEF base

(* Where the renderer expects its text to end, and what it takes to scroll. *)
LEMMA LineEndType ==
  ASSUME LineInv, SetupInv, ScreenInv, Drives
  PROVE  /\ LineEnd \in Position
         /\ EndCell \in Nat /\ EndCell = term.top * Cols + Lin(LineEnd)
         /\ TextWidth(Drawn(buffer)) \in Nat
         /\ Row(EndCell) = term.top + LineEnd.row /\ Col(EndCell) = LineEnd.col
         /\ Gone \in Nat /\ Gone <= LineEnd.row
         /\ Row(EndCell) < term.top + Gone + Rows
         /\ Gone > 0 => Row(EndCell) + 1 = term.top + Gone + Rows
<1> DEFINE w == TextWidth(Drawn(buffer))
           l == Lin(Home)
           base == term.top * Cols
<1>1. w \in Nat
  BY DrawnType, SetupKinds DEF LineInv
<1>2. Home \in Position /\ l \in Nat
  BY HomeType, LinType
<1>3. base \in Nat /\ term.top \in Nat
  BY OriginType
<1> HIDE DEF w, l, base
<1>4. w \in Int /\ l + w >= 0 /\ l + w \in Nat
  BY <1>1, <1>2
<1>5. LineEnd \in Position /\ Lin(LineEnd) = l + w
  BY <1>2, <1>4, OffsetType DEF LineEnd, l, w
<1>6. EndCell = base + (l + w) /\ EndCell \in Nat
  <2>1. EndCell = (base + l) + w
    BY DEF EndCell, HomeCell, base, l, w
  <2> QED BY <1>1, <1>2, <1>3, <2>1
<1>7. /\ LineEnd.row \in Nat
      /\ Row(Lin(LineEnd)) = LineEnd.row /\ Col(Lin(LineEnd)) = LineEnd.col
  BY <1>5, LinType
<1>8. Row(EndCell) = term.top + LineEnd.row /\ Col(EndCell) = LineEnd.col
  BY <1>3, <1>4, <1>5, <1>6, <1>7, RowShift DEF base
<1> DEFINE r == LineEnd.row
           g == Gone
<1>9. g = IF r >= Rows THEN r - Rows + 1 ELSE 0
  BY DEF Gone, RowsScrolled
<1>10. r \in Nat /\ Row(EndCell) = term.top + r
  BY <1>7, <1>8
<1> HIDE DEF r, g
<1>11. /\ g \in Nat /\ g <= r /\ term.top + r < term.top + g + Rows
       /\ g > 0 => (term.top + r) + 1 = term.top + g + Rows
  BY <1>3, <1>9, <1>10, Grid
<1> QED BY <1>1, <1>5, <1>6, <1>8, <1>10, <1>11 DEF w, base, r, g

(* The text is printed from there on. *)
LEMMA PrintedType ==
  ASSUME LineInv, SetupInv, ScreenInv, Drives
  PROVE  /\ IsTerminal(Printed) /\ EndCell <= Insertion(Printed)
         /\ Printed.top >= term.top /\ Kept(term, Printed, HomeCell)
<1> DEFINE t == Address(term, Home)
           s == Drawn(buffer)
<1>1. IsTerminal(t) /\ t.tape = term.tape /\ t.top = term.top /\ Insertion(t) = HomeCell
  BY HomeType
<1>2. s \in Seq(Glyph)
  BY DrawnType, SetupKinds DEF LineInv
<1>3. Printed = PutAll(t, s) /\ EndCell = HomeCell + TextWidth(s)
  BY DEF Printed, EndCell
<1> HIDE DEF t, s
<1>4. /\ IsTerminal(PutAll(t, s)) /\ Insertion(PutAll(t, s)) >= HomeCell + TextWidth(s)
      /\ PutAll(t, s).top >= term.top /\ Kept(t, PutAll(t, s), HomeCell)
  BY <1>1, <1>2, PutAllType
<1>5. Insertion(Printed) \in Int /\ EndCell \in Int
  BY <1>3, <1>4, InsertionType, LineEndType
<1>6. Kept(term, Printed, HomeCell)
  BY <1>1, <1>3, <1>4 DEF Kept, Cell
<1> QED BY <1>3, <1>4, <1>5, <1>6

(* What handle_scroll takes the terminal to have scrolled, it has. *)
LEMMA ScrolledType ==
  ASSUME LineInv, SetupInv, ScreenInv, Drives
  PROVE  /\ IsTerminal(Scrolled) /\ Insertion(Printed) <= Insertion(Scrolled)
         /\ term.top + Gone <= Scrolled.top /\ Scrolled.tape = Printed.tape
<1>1. IsTerminal(Printed) /\ EndCell <= Insertion(Printed) /\ Printed.top >= term.top
  BY PrintedType
<1>2. /\ EndCell \in Nat /\ Gone \in Nat /\ Row(EndCell) \in Int /\ Col(EndCell) = LineEnd.col
      /\ Gone > 0 => Row(EndCell) + 1 = term.top + Gone + Rows
  BY LineEndType, DivMod
<1>3. term.top \in Nat /\ Rows \in Nat /\ Insertion(Printed) \in Nat
  BY <1>1, Grid, OriginType, InsertionType
<1>4. Printed.top \in Nat /\ Printed.at \in Nat
  BY <1>1 DEF IsTerminal
<1>5. CASE Gone > 0 /\ LineEnd.col = 0
  <2>1. Scrolled = LineFeed(Printed)
    BY <1>5 DEF Scrolled
  <2>2. /\ IsTerminal(Scrolled) /\ Insertion(Printed) <= Insertion(Scrolled)
        /\ Scrolled.tape = Printed.tape /\ Row(Printed.at) + 1 < Scrolled.top + Rows
    BY <1>1, <2>1, LineFeedType
  <2>3. EndCell - 1 \in Int /\ EndCell - 1 <= Printed.at
    BY <1>1, <1>2, <1>3, <1>4, InsertionType
  <2>4. Row(EndCell - 1) <= Row(Printed.at)
    BY <1>4, <2>3, RowMonotone
  <2>5. Row(EndCell - 1) + 1 = Row(EndCell) /\ Row(EndCell - 1) \in Int /\ Row(Printed.at) \in Int
    <3>1. (EndCell - 1) + 1 = EndCell
      BY <1>2
    <3>2. Row(EndCell) = Row(EndCell - 1) + 1
      BY <1>2, <1>5, <2>3, <3>1, RowAfter
    <3> QED BY <1>4, <2>3, <3>2, DivMod
  <2>6. Scrolled.top \in Nat
    BY <2>2 DEF IsTerminal
  <2>7. term.top + Gone <= Scrolled.top
    BY <1>2, <1>3, <1>5, <2>2, <2>4, <2>5, <2>6
  <2> QED BY <2>2, <2>7
<1>6. CASE ~ (Gone > 0 /\ LineEnd.col = 0)
  <2>1. Scrolled = Printed
    BY <1>6 DEF Scrolled
  <2>2. CASE Gone > 0
    <3>1. Row(EndCell) < Printed.top + Rows
      BY <1>1, <1>2, <1>6, <2>2, ScrolledFor
    <3>2. term.top + Gone <= Printed.top
      BY <1>2, <1>3, <1>4, <2>2, <3>1
    <3> QED BY <1>1, <1>3, <2>1, <3>2
  <2>3. CASE ~ (Gone > 0)
    <3>1. Gone = 0
      BY <1>2, <2>3
    <3> QED BY <1>1, <1>3, <1>4, <2>1, <3>1
  <2> QED BY <2>2, <2>3
<1> QED BY <1>5, <1>6

(* Erasing changes nothing before the line either. *)
LEMMA ErasedType ==
  ASSUME LineInv, SetupInv, ScreenInv, Drives
  PROVE  /\ IsTerminal(Erased) /\ term.top + Gone <= Erased.top
         /\ Kept(term, Erased, HomeCell)
<1> DEFINE b == Blanks(EraseCount(buffer))
<1>1. EraseCount(buffer) \in Int
  BY LenProperties DEF EraseCount, LineInv, ScreenInv
<1>2. b \in Seq(Glyph)
  BY <1>1, BlanksType
<1>3. Erased = PutAll(Scrolled, b)
  BY DEF Erased
<1> HIDE DEF b
<1>4. /\ IsTerminal(Scrolled) /\ Insertion(Printed) <= Insertion(Scrolled)
      /\ term.top + Gone <= Scrolled.top /\ Scrolled.tape = Printed.tape
  BY ScrolledType
<1>5. /\ IsTerminal(Erased) /\ Erased.top >= Scrolled.top
      /\ Kept(Scrolled, Erased, Insertion(Scrolled))
  BY <1>2, <1>3, <1>4, PutAllType
<1>6. HomeCell <= Insertion(Scrolled)
  <2>1. EndCell <= Insertion(Printed) /\ IsTerminal(Printed)
    BY PrintedType
  <2>2. EndCell \in Int /\ HomeCell \in Int /\ TextWidth(Drawn(buffer)) \in Nat
    BY LineEndType, HomeType
  <2>3. HomeCell <= EndCell
    BY <2>2 DEF EndCell
  <2>4. Insertion(Printed) \in Int /\ Insertion(Scrolled) \in Int
    BY <1>4, <2>1, InsertionType
  <2> QED BY <1>4, <2>1, <2>2, <2>3, <2>4
<1>7. Kept(term, Printed, HomeCell)
  BY PrintedType
<1>8. ASSUME NEW q \in Int, q < HomeCell PROVE Cell(Erased, q) = Cell(term, q)
  <2>1. q < Insertion(Scrolled)
    <3>1. HomeCell \in Int /\ Insertion(Scrolled) \in Int
      BY <1>4, HomeType, InsertionType
    <3> QED BY <1>6, <1>8, <3>1
  <2>2. Cell(Erased, q) = Cell(Scrolled, q)
    BY <1>5, <2>1 DEF Kept
  <2>3. Cell(Scrolled, q) = Cell(Printed, q)
    BY <1>4, SameCells
  <2>4. Cell(Printed, q) = Cell(term, q)
    BY <1>7, <1>8 DEF Kept
  <2> QED BY <2>2, <2>3, <2>4
<1>9. term.top + Gone <= Erased.top
  <2>1. term.top \in Int /\ Gone \in Int /\ Scrolled.top \in Int /\ Erased.top \in Int
    BY <1>4, <1>5, OriginType, LineEndType DEF IsTerminal
  <2> QED BY <1>4, <1>5, <2>1
<1> QED BY <1>5, <1>8, <1>9 DEF Kept

(* The position after a redraw stands for an origin no higher than the old one. *)
LEMMA AtCursorType ==
  ASSUME LineInv, SetupInv, ScreenInv, Drives,
         NEW k \in Nat, Erased.top = term.top + Gone + k
  PROVE  LET c == TextWidth(Drawn(Prefix(buffer, cursor)))
             o == Erased.top * Cols + (Lin(AtCursor) - c)
         IN  /\ AtCursor \in Position
             /\ o \in Int /\ HomeCell + k * Cols <= o /\ o < (Erased.top + Rows) * Cols
             /\ Erased.top * Cols <= HomeCell + k * Cols => o = HomeCell + k * Cols
<1> DEFINE c == TextWidth(Drawn(Prefix(buffer, cursor)))
           w == TextWidth(Drawn(buffer))
           scr == [LineEnd EXCEPT !.row = @ - Gone]
           base == Erased.top * Cols
           height == Rows * Cols
           lin == Lin(scr)
           l == Lin(AtCursor)
<1>1. c \in Nat /\ w \in Nat
  <2>1. cursor \in 0..Len(buffer)
    BY DEF LineInv
  <2>2. c \in Nat
    BY <2>1, AheadType
  <2>3. w \in Nat
    BY LineEndType
  <2> QED BY <2>2, <2>3
<1>2. MoveWidth(buffer, Len(buffer), cursor) = c - w
  BY WholePrefix DEF MoveWidth, LineInv
<1>3. /\ LineEnd \in Position /\ Gone \in Nat /\ Gone <= LineEnd.row
      /\ HomeCell + w = term.top * Cols + Lin(LineEnd)
  BY LineEndType DEF EndCell
<1>4. /\ LineEnd.row \in Nat /\ LineEnd.col \in 0..(Cols - 1)
      /\ term.top \in Nat /\ HomeCell \in Nat /\ HomeCell < (term.top + Rows) * Cols
  BY <1>3, LinType, OriginType, HomeType
<1>5. scr = [row |-> LineEnd.row - Gone, col |-> LineEnd.col]
  BY <1>3 DEF Position
<1>6. scr \in Position
  BY <1>3, <1>4, <1>5 DEF Position
<1>7. AtCursor = Offset(scr, c - w)
  BY <1>2 DEF AtCursor
<1>8. Lin(LineEnd) = LineEnd.row * Cols + LineEnd.col /\ lin = (LineEnd.row - Gone) * Cols + LineEnd.col
  BY <1>5 DEF Lin
<1>9. lin \in Nat
  BY <1>6, LinType
<1> HIDE DEF c, w, scr, lin, l
<1>10. /\ AtCursor \in Position
       /\ lin + (c - w) >= 0 => l = lin + (c - w)
       /\ lin + (c - w) < 0 => l = 0
  <2>1. c - w \in Int
    BY <1>1
  <2> QED BY <1>6, <1>7, <2>1, OffsetType DEF lin, l
<1>11. l \in Nat
  BY <1>10, LinType DEF l
<1>12. /\ base \in Nat /\ height \in Nat /\ height >= 1
       /\ (Erased.top + Rows) * Cols = base + height
  <2>1. Erased.top \in Nat
    BY <1>3, <1>4
  <2> QED BY <2>1, Grid
<1>13. /\ base = term.top * Cols + Gone * Cols + k * Cols
       /\ (LineEnd.row - Gone) * Cols = LineEnd.row * Cols - Gone * Cols
       /\ (term.top + Rows) * Cols = term.top * Cols + height
  <2>1. base = (term.top + Gone + k) * Cols
    OBVIOUS
  <2>2. (term.top + Gone + k) * Cols = term.top * Cols + Gone * Cols + k * Cols
    BY <1>3, <1>4, Grid
  <2>3. (LineEnd.row - Gone) * Cols = LineEnd.row * Cols - Gone * Cols
    BY <1>3, <1>4, Grid
  <2>4. (term.top + Rows) * Cols = term.top * Cols + height
    BY <1>4, Grid
  <2> QED BY <2>1, <2>2, <2>3, <2>4
<1>14. /\ term.top * Cols \in Nat /\ Gone * Cols \in Nat /\ k * Cols \in Nat
       /\ LineEnd.row * Cols \in Nat
  BY <1>3, <1>4, Grid
<1> HIDE DEF base, height
<1>15. base + (lin - w) = HomeCell + k * Cols
  <2> DEFINE above == term.top * Cols
             gone  == Gone * Cols
             extra == k * Cols
             rows  == LineEnd.row * Cols
             col   == LineEnd.col
             home  == HomeCell
  <2>1. /\ above \in Nat /\ gone \in Nat /\ extra \in Nat /\ rows \in Nat /\ home \in Nat
        /\ col \in Int /\ w \in Nat
    BY <1>1, <1>4, <1>14
  <2>2. base = above + gone + extra
    BY <1>13
  <2>3. lin = (rows - gone) + col
    BY <1>8, <1>13
  <2>4. home + w = above + (rows + col)
    BY <1>3, <1>8
  <2> HIDE DEF above, gone, extra, rows, col, home
  <2>5. base + (lin - w) = home + extra
    BY <2>1, <2>2, <2>3, <2>4
  <2> QED BY <2>5 DEF home, extra
<1>16. HomeCell + k * Cols < base + height
  BY <1>4, <1>12, <1>13, <1>14
<1>17. /\ base + (l - c) \in Int
       /\ base + (lin - w) <= base + (l - c)
       /\ base + (l - c) < base + height
       /\ base <= base + (lin - w) => base + (l - c) = base + (lin - w)
  <2>1. base + (lin - w) < base + height
    BY <1>15, <1>16
  <2> QED BY <1>1, <1>9, <1>10, <1>11, <1>12, <2>1, OriginMoved
<1> QED BY <1>10, <1>12, <1>15, <1>17 DEF c, l, base

(* How far the terminal scrolled beyond what the renderer reckons with. *)
LEMMA Excess ==
  ASSUME LineInv, SetupInv, ScreenInv, Drives
  PROVE  \E k \in Nat : Erased.top = term.top + Gone + k
<1>1. /\ IsTerminal(Erased) /\ term.top + Gone <= Erased.top
      /\ term.top \in Nat /\ Gone \in Nat
  BY ErasedType, OriginType, LineEndType
<1>2. Erased.top \in Nat
  BY <1>1 DEF IsTerminal
<1> DEFINE k == Erased.top - (term.top + Gone)
<1>3. k \in Nat /\ Erased.top = term.top + Gone + k
  BY <1>1, <1>2
<1> QED BY <1>3

(* A redraw by addresses keeps the invariant. *)
LEMMA SmartScreen ==
  ASSUME LineInv, SetupInv, ScreenInv, Drives, RedrawSmart, UNCHANGED <<buffer, cursor, given>>
  PROVE  ScreenInv'
<1> DEFINE c == TextWidth(Drawn(Prefix(buffer, cursor)))
           u == Address(Erased, AtCursor)
           o == Erased.top * Cols + (Lin(AtCursor) - c)
<1>1. /\ cursor_pos' = AtCursor /\ term' = u
      /\ last_rendered_width' = TextWidth(Drawn(buffer)) /\ render_cursor' = cursor
  BY RedrawSteps
<1>2. PICK k \in Nat : Erased.top = term.top + Gone + k
  BY Excess
<1>3. /\ AtCursor \in Position
      /\ o \in Int /\ HomeCell + k * Cols <= o /\ o < (Erased.top + Rows) * Cols
  BY <1>2, AtCursorType
<1>4. IsTerminal(Erased) /\ Kept(term, Erased, HomeCell)
  BY ErasedType
<1>5. IsTerminal(u) /\ u.tape = Erased.tape /\ u.top = Erased.top
  BY <1>3, <1>4, AddressType
<1>6. start' = start /\ echo_mode' = echo_mode /\ (term_smart' <=> term_smart)
  BY DEF given
<1>7. Ahead' = c
  <2>1. Prefix(buffer', render_cursor') = Prefix(buffer, cursor)
    BY <1>1
  <2> QED BY <2>1, AheadStep
<1>8. Origin' = o
  BY <1>1, <1>5, <1>7 DEF Origin
<1>9. start.at <= Origin /\ Origin <= HomeCell /\ HomeCell \in Nat /\ Origin \in Int /\ start.at \in Nat
  BY HomeType, OriginType DEF ScreenInv
<1>10. k * Cols \in Nat
  BY Grid
<1> HIDE DEF o, u, c
<1>11. start.at <= o
  BY <1>3, <1>9, <1>10
<1>12. Drives' /\ First' = First /\ First = start.at
  BY <1>6 DEF Drives, First
<1>13. ASSUME NEW q \in Int, q < First PROVE Cell(u, q) = Cell(start, q)
  <2>1. q < HomeCell
    BY <1>9, <1>12, <1>13
  <2>2. Cell(Erased, q) = Cell(term, q)
    BY <1>4, <2>1 DEF Kept
  <2>3. Cell(term, q) = Cell(start, q)
    BY <1>13 DEF ScreenInv, Kept
  <2>4. Cell(u, q) = Cell(Erased, q)
    BY <1>5, SameCells
  <2> QED BY <2>2, <2>3, <2>4
<1>14. Kept(start', term', First')
  BY <1>1, <1>6, <1>12, <1>13 DEF Kept
<1>15. Drives' => start'.at <= Origin' /\ Origin' < (term'.top + Rows) * Cols
  BY <1>1, <1>3, <1>5, <1>6, <1>8, <1>11
<1>16. start' \in Starts /\ IsTerminal(term') /\ cursor_pos' \in Position /\ last_rendered_width' \in Nat
  BY <1>1, <1>3, <1>5, <1>6, LineEndType DEF ScreenInv
<1>17. echo_mode' # "off"
  BY <1>6 DEF Drives
<1> QED BY <1>12, <1>14, <1>15, <1>16, <1>17 DEF ScreenInv

(* Without addresses the text goes behind whatever was printed. *)
LEMMA DumbScreen ==
  ASSUME LineInv, SetupInv, ScreenInv, ~term_smart, echo_mode # "off",
         RedrawDumb, UNCHANGED <<buffer, cursor, given>>
  PROVE  ScreenInv'
<1> DEFINE x == SubSeq(buffer, render_cursor + 1, Len(buffer))
           s == Drawn(x)
           u == PutAll(term, s)
<1>1. /\ cursor_pos' = cursor_pos /\ term' = u
      /\ last_rendered_width' = last_rendered_width /\ render_cursor' = render_cursor
  BY DEF RedrawDumb
<1>2. x \in Seq(Char)
  <2>1. render_cursor \in 0..Len(buffer)
    BY LenProperties DEF LineInv
  <2> QED BY <2>1, CutType DEF Beyond, LineInv
<1>3. s \in Seq(Glyph) /\ TextWidth(s) \in Nat
  BY <1>2, DrawnType, SetupKinds
<1> HIDE DEF x, s
<1>4. IsTerminal(term) /\ Insertion(term) \in Nat /\ IsTerminal(start) /\ Insertion(start) \in Nat
  BY InsertionType, StartAssumption DEF ScreenInv
<1>5. /\ IsTerminal(u) /\ Insertion(u) >= Insertion(term) + TextWidth(s)
      /\ Kept(term, u, Insertion(term))
  BY <1>3, <1>4, PutAllType
<1>6. Insertion(u) \in Nat
  BY <1>5, InsertionType
<1> HIDE DEF u
<1>7. start' = start /\ echo_mode' = echo_mode /\ (term_smart' <=> term_smart)
  BY DEF given
<1>8. ~Drives /\ ~Drives' /\ First = Insertion(start) /\ First' = First
  BY <1>7 DEF Drives, First
<1>9. Insertion(start) <= Insertion(term)
  BY <1>8 DEF ScreenInv
<1>10. Insertion(start) <= Insertion(u)
  BY <1>3, <1>4, <1>5, <1>6, <1>9
<1>11. ASSUME NEW q \in Int, q < First PROVE Cell(u, q) = Cell(start, q)
  <2>1. q < Insertion(term)
    BY <1>4, <1>8, <1>9, <1>11
  <2>2. Cell(u, q) = Cell(term, q)
    BY <1>5, <2>1 DEF Kept
  <2>3. Cell(term, q) = Cell(start, q)
    BY <1>11 DEF ScreenInv, Kept
  <2> QED BY <2>2, <2>3
<1>12. Kept(start', term', First')
  BY <1>1, <1>7, <1>8, <1>11 DEF Kept
<1>13. start' \in Starts /\ IsTerminal(term') /\ cursor_pos' \in Position /\ last_rendered_width' \in Nat
  BY <1>1, <1>5, <1>7 DEF ScreenInv
<1>14. Insertion(start') <= Insertion(term')
  BY <1>1, <1>7, <1>10
<1> QED BY <1>7, <1>8, <1>12, <1>13, <1>14 DEF ScreenInv

LEMMA ScreenNext == LineInv /\ SetupInv /\ ScreenInv /\ [Next]_vars => ScreenInv'
<1> SUFFICES ASSUME LineInv, SetupInv, ScreenInv, [Next]_vars PROVE ScreenInv'
  OBVIOUS
<1>0. UNCHANGED given
  BY NextSetup
<1>1. CASE \E more \in BOOLEAN : Event(more)
  <2> PICK more \in BOOLEAN : Event(more)
    BY <1>1
  <2>1. CASE Stays
    <3>1. UNCHANGED <<screen, render_cursor>> /\ Prefix(buffer', render_cursor) = Prefix(buffer, render_cursor)
      BY <2>1 DEF Stays
    <3>2. UNCHANGED <<screen, given, render_cursor>>
      BY <1>0, <3>1
    <3> QED BY <3>1, <3>2, StayScreen
  <2>2. CASE \E to \in 0..Len(buffer) : Moves(to)
    <3> PICK to \in 0..Len(buffer) : Moves(to)
      BY <2>2
    <3>1. Moving /\ SyncCursors(buffer, to) /\ Prefix(buffer', to) = Prefix(buffer, to)
      BY DEF Moves
    <3>2. CASE echo_mode = "off"
      <4>1. UNCHANGED <<render_cursor, screen>>
        BY <3>1, <3>2 DEF SyncCursors
      <4>2. start' = start /\ echo_mode' = echo_mode /\ (term_smart' <=> term_smart)
        BY <1>0 DEF given
      <4>3. ~Drives /\ ~Drives' /\ First' = First
        BY <3>2, <4>2 DEF Drives, First
      <4>4. cursor_pos' = cursor_pos /\ last_rendered_width' = last_rendered_width /\ term' = term
        BY <4>1 DEF screen
      <4> QED BY <4>2, <4>3, <4>4 DEF ScreenInv
    <3>3. CASE echo_mode # "off"
      <4>1. Drives
        BY <3>1, <3>3 DEF Drives, Moving
      <4> QED BY <1>0, <3>1, <4>1, MoveScreen
    <3> QED BY <3>2, <3>3
  <2> QED BY <2>1, <2>2, EventMoves
<1>2. CASE Redraw
  <2>1. UNCHANGED <<buffer, cursor, given>>
    BY <1>2 DEF Redraw
  <2>2. CASE echo_mode = "off"
    <3>1. UNCHANGED <<render_cursor, screen>>
      BY <1>2, <2>2 DEF Redraw
    <3>2. UNCHANGED <<screen, given, render_cursor>> /\ Prefix(buffer', render_cursor) = Prefix(buffer, render_cursor)
      BY <2>1, <3>1
    <3> QED BY <3>2, StayScreen
  <2>3. CASE echo_mode # "off" /\ term_smart
    <3>1. RedrawSmart /\ Drives
      BY <1>2, <2>3 DEF Redraw, Drives
    <3> QED BY <2>1, <3>1, SmartScreen
  <2>4. CASE echo_mode # "off" /\ ~term_smart
    <3>1. RedrawDumb
      BY <1>2, <2>4 DEF Redraw
    <3> QED BY <2>1, <2>4, <3>1, DumbScreen
  <2> QED BY <2>2, <2>3, <2>4
<1>3. CASE ReadStop \/ Abort \/ UNCHANGED vars \/ \E r \in Replies : HandlerFault(r)
  <2>1. UNCHANGED <<line, screen>>
    BY <1>3 DEF ReadStop, Abort, HandlerFault, vars
  <2>2. UNCHANGED <<screen, given, render_cursor>> /\ Prefix(buffer', render_cursor) = Prefix(buffer, render_cursor)
    BY <1>0, <2>1 DEF line
  <2> QED BY <2>2, StayScreen
<1> QED BY <1>1, <1>2, <1>3 DEF Next

(* The screen invariant holds throughout a session. *)
THEOREM ScreenInvariant == ASSUME LastWhole PROVE Spec => []ScreenInv
BY InvInit, InvNext, SetupInit, SetupNext, ScreenInit, ScreenNext, PTL DEF Spec

(* No redraw or cursor motion of render.c writes before the end of the       *)
(* prompt, whatever the widths of the characters, the height of the line and *)
(* the echo mode, unless the prompt ended in the last column.                *)
THEOREM PromptIsPreserved ==
  ASSUME NoWrapPending, LastWhole
  PROVE  Spec => []PromptPreserved
<1>1. ScreenInv => PromptPreserved
  <2> SUFFICES ASSUME ScreenInv, NEW p \in 0..(Insertion(start) - 1)
               PROVE  Cell(term, p) = Cell(start, p)
    BY DEF PromptPreserved
  <2>1. start \in Starts /\ Kept(start, term, First)
    BY DEF ScreenInv
  <2>2. ~start.wrap
    BY <2>1 DEF NoWrapPending
  <2>3. Insertion(start) = start.at
    BY <2>2 DEF Insertion
  <2>4. First = Insertion(start) /\ Insertion(start) \in Nat
    BY <2>1, <2>3, StartAssumption, InsertionType DEF First
  <2>5. p \in Int /\ p < First
    BY <2>4
  <2> QED BY <2>1, <2>5 DEF Kept
<1> QED BY <1>1, ScreenInvariant, PTL

-----------------------------------------------------------------------------
(* Narrow text *)

(* Inserting and erasing stay within a set of characters. *)
LEMMA EditsWithin ==
  ASSUME NEW S, NEW x \in Seq(S)
  PROVE  /\ \A i \in 0..Len(x) : \A s \in Seq(S) : Splice(x, i, s) \in Seq(S)
         /\ \A i \in 0..(Len(x) - 1) : Erase(x, i) \in Seq(S)
<1>1. ASSUME NEW i \in 0..Len(x), NEW s \in Seq(S) PROVE Splice(x, i, s) \in Seq(S)
  <2>1. Prefix(x, i) \in Seq(S) /\ SubSeq(x, i + 1, Len(x)) \in Seq(S)
    BY CutType DEF Prefix, Upto, Beyond
  <2>2. Prefix(x, i) \o s \in Seq(S)
    BY <2>1, ConcatProperties
  <2>3. (Prefix(x, i) \o s) \o SubSeq(x, i + 1, Len(x)) \in Seq(S)
    BY <2>1, <2>2, ConcatProperties
  <2> QED BY <2>3 DEF Splice
<1>2. ASSUME NEW i \in 0..(Len(x) - 1) PROVE Erase(x, i) \in Seq(S)
  <2>1. i \in 0..Len(x) /\ i + 1 \in 0..Len(x) /\ (i + 1) + 1 = i + 2
    BY LenProperties
  <2>2. Prefix(x, i) \in Seq(S)
    BY <2>1, CutType DEF Prefix, Upto
  <2>3. SubSeq(x, i + 2, Len(x)) \in Seq(S)
    BY <2>1, CutType DEF Beyond
  <2>4. Prefix(x, i) \o SubSeq(x, i + 2, Len(x)) \in Seq(S)
    BY <2>2, <2>3, ConcatProperties
  <2> QED BY <2>4 DEF Erase
<1> QED BY <1>1, <1>2

(* A line that is shown as it is has only narrow characters. *)
NarrowInv == term_smart /\ echo_mode = "on" => buffer \in Seq(Narrow)

LEMMA NarrowInit == Init => NarrowInv
<1>1. <<>> \in Seq(Narrow)
  BY EmptySeq
<1> QED BY <1>1 DEF Init, NarrowInv

LEMMA NarrowNext ==
  ASSUME VisibleNarrow
  PROVE  LineInv /\ SetupInv /\ NarrowInv /\ [Next]_vars => NarrowInv'
<1> SUFFICES ASSUME LineInv, SetupInv, NarrowInv, [Next]_vars, term_smart', echo_mode' = "on"
             PROVE  buffer' \in Seq(Narrow)
  BY DEF NarrowInv
<1>0. term_smart /\ echo_mode = "on"
  BY NextSetup DEF given
<1>s. buffer \in Seq(Narrow) /\ Len(buffer) \in Nat /\ cursor \in 0..Len(buffer) /\ cursor \in Nat
  BY <1>0, LenProperties DEF NarrowInv, LineInv
<1>1. CASE \E more \in BOOLEAN : Event(more)
  <2> PICK more \in BOOLEAN : Event(more)
    BY <1>1
  <2>1. CASE \E s \in Texts[Setup] : InsertText(s, more)
    <3> PICK s \in Texts[Setup] : InsertText(s, more)
      BY <2>1
    <3>1. Setup \in Setups /\ Setup.smart /\ Setup.echo_mode = "on"
      BY <1>0 DEF SetupInv, Setup
    <3>2. s \in Seq(Narrow)
      BY <3>1 DEF VisibleNarrow
    <3>3. buffer' = Splice(buffer, cursor, s)
      BY DEF InsertText
    <3> QED BY <1>s, <3>2, <3>3, EditsWithin
  <2>2. CASE EscapeDelete(more)
    <3>1. cursor \in 0..(Len(buffer) - 1) /\ buffer' = Erase(buffer, cursor)
      BY <1>s, <2>2 DEF EscapeDelete
    <3> QED BY <1>s, <3>1, EditsWithin
  <2>3. CASE EscapeBackspace(more)
    <3>1. cursor - 1 \in 0..(Len(buffer) - 1) /\ buffer' = Erase(buffer, cursor - 1)
      BY <1>s, <2>3 DEF EscapeBackspace
    <3> QED BY <1>s, <3>1, EditsWithin
  <2>4. CASE \E r \in Replies : EvalCustom(r, more)
    <3> PICK r \in Replies : EvalCustom(r, more)
      BY <2>4
    <3>1. buffer' = r.text
      BY DEF EvalCustom
    <3> QED BY <3>1 DEF VisibleNarrow
  <2>5. CASE EscapeLeft(more) \/ EscapeRight(more) \/ EscapeHome(more) \/ EscapeEnd(more)
    BY <1>s, <2>5 DEF EscapeLeft, EscapeRight, EscapeHome, EscapeEnd
  <2>6. CASE NoEffect(more)
    BY <1>s, <2>6 DEF NoEffect, line
  <2> QED BY <2>1, <2>2, <2>3, <2>4, <2>5, <2>6 DEF Event
<1>2. CASE Redraw \/ ReadStop \/ Abort \/ UNCHANGED vars \/ \E r \in Replies : HandlerFault(r)
  BY <1>s, <1>2 DEF Redraw, ReadStop, Abort, HandlerFault, vars, line
<1> QED BY <1>1, <1>2 DEF Next

(* A text of narrow characters is drawn one column to a character. *)
LEMMA DrawnNarrow ==
  ASSUME SetupInv, echo_mode # "off", NEW x \in Seq(Char), echo_mode = "on" => x \in Seq(Narrow)
  PROVE  /\ Drawn(x) \in Seq(Glyph) /\ Len(Drawn(x)) = Len(x)
         /\ \A k \in 1..Len(Drawn(x)) : Width[Drawn(x)[k]] = 1
         /\ TextWidth(Drawn(x)) = Len(x)
<1>1. Drawn(x) \in Seq(Glyph) /\ Len(Drawn(x)) = Len(x)
  BY DrawnType, SetupKinds
<1>2. ASSUME NEW k \in 1..Len(Drawn(x)) PROVE Width[Drawn(x)[k]] = 1
  <2>1. k \in 1..Len(x)
    BY <1>1
  <2>2. CASE echo_mode = "on"
    <3>1. Drawn(x) = x
      BY <2>2 DEF Drawn
    <3>2. x[k] \in Narrow
      BY <2>1, <2>2, ElementOfSeq
    <3> QED BY <3>1, <3>2 DEF Narrow
  <2>3. CASE echo_mode = "obscured"
    <3>1. Drawn(x) = [i \in 1..Len(x) |-> Star]
      BY <2>3 DEF Drawn
    <3>2. Drawn(x)[k] = Star
      BY <2>1, <3>1
    <3> QED BY <3>2, DisplayAssumption
  <2> QED BY <2>2, <2>3, SetupKinds
<1>3. TextWidth(Drawn(x)) = Len(Drawn(x))
  BY <1>1, <1>2, WidthOf
<1> QED BY <1>1, <1>2, <1>3

LEMMA PrefixNarrow ==
  ASSUME LineInv, SetupInv, NarrowInv, Drives, NEW n \in 0..Len(buffer)
  PROVE  /\ Drawn(Prefix(buffer, n)) \in Seq(Glyph)
         /\ Len(Drawn(Prefix(buffer, n))) = n
         /\ \A k \in 1..Len(Drawn(Prefix(buffer, n))) : Width[Drawn(Prefix(buffer, n))[k]] = 1
         /\ TextWidth(Drawn(Prefix(buffer, n))) = n
<1>1. Prefix(buffer, n) \in Seq(Char) /\ Len(Prefix(buffer, n)) = n
  BY CutType DEF LineInv, Prefix, Upto
<1>2. echo_mode # "off" /\ (echo_mode = "on" => Prefix(buffer, n) \in Seq(Narrow))
  BY CutType DEF Drives, NarrowInv, Prefix, Upto
<1> QED BY <1>1, <1>2, DrawnNarrow

LEMMA LineNarrow ==
  ASSUME LineInv, SetupInv, NarrowInv, Drives
  PROVE  /\ Drawn(buffer) \in Seq(Glyph)
         /\ Len(Drawn(buffer)) = Len(buffer)
         /\ \A k \in 1..Len(Drawn(buffer)) : Width[Drawn(buffer)[k]] = 1
         /\ TextWidth(Drawn(buffer)) = Len(buffer)
<1>1. buffer \in Seq(Char)
  BY DEF LineInv
<1>2. echo_mode # "off" /\ (echo_mode = "on" => buffer \in Seq(Narrow))
  BY DEF Drives, NarrowInv
<1> QED BY <1>1, <1>2, DrawnNarrow

-----------------------------------------------------------------------------
(* The screen shows the line *)

(* The cells of the screen from the line on are those of the last redraw. *)
Redrawn ==
  /\ last_rendered_width = Len(buffer)
  /\ render_cursor = cursor
  /\ Insertion(term) = start.at + cursor
  /\ \A k \in 1..Len(buffer) : Cell(term, start.at + (k - 1)) = Drawn(buffer)[k]

(* While the first row is in sight the origin is exact, what the next redraw *)
(* will erase ends on the screen, and nothing is behind it.                  *)
ShownInv ==
  Drives /\ term.top * Cols <= start.at =>
    /\ Origin = start.at
    /\ start.at + last_rendered_width < (term.top + Rows) * Cols
    /\ \A q \in Int : start.at + last_rendered_width <= q => Cell(term, q) = Blank
    /\ ~dirty => Redrawn

(* The cells behind the prompt are empty. *)
LEMMA BeyondStart ==
  ASSUME NEW t \in Starts, NEW q \in Int, Insertion(t) <= q
  PROVE  Cell(t, q) = Blank
<1>1. DOMAIN t.tape \subseteq 0..(Insertion(t) - 1) /\ Insertion(t) \in Nat
  BY StartAssumption, InsertionType
<1>2. q \notin DOMAIN t.tape
  BY <1>1
<1> QED BY <1>2 DEF Cell

LEMMA ShownInit == ASSUME NoWrapPending PROVE Init => ShownInv
<1> SUFFICES ASSUME Init, Drives PROVE ShownInv
  BY DEF ShownInv
<1>0. SetupInv /\ LineInv /\ ScreenInv
  BY SetupInit, InvInit, ScreenInit
<1>1. /\ start \in Starts /\ term = start /\ last_rendered_width = 0 /\ buffer = <<>>
      /\ render_cursor = 0 /\ cursor = 0
  BY DEF Init
<1>2. IsTerminal(start) /\ ~start.wrap
  BY <1>1, StartAssumption DEF NoWrapPending
<1>3. Insertion(start) = start.at /\ start.at \in Nat /\ start.at < (start.top + Rows) * Cols
  BY <1>2 DEF Insertion, IsTerminal
<1>4. Len(buffer) = 0
  BY <1>1, EmptySeq
<1>5. Redrawn
  BY <1>1, <1>3, <1>4 DEF Redrawn
<1>6. start.at + last_rendered_width = start.at
  BY <1>1, <1>3
<1>7. \A q \in Int : start.at + last_rendered_width <= q => Cell(term, q) = Blank
  BY <1>1, <1>3, <1>6, BeyondStart
<1>8. Origin = start.at
  <2>1. start.at <= Origin /\ Origin \in Int
    BY <1>0, OriginType DEF ScreenInv
  <2>2. cursor_pos = Report(start)
    BY DEF Init, Drives
  <2>3. Ahead = 0
    BY <1>0, <1>1, SetupKinds, DrawnNothing DEF Ahead, LineInv
  <2>4. Lin(cursor_pos) = (Row(start.at) - start.top) * Cols + Col(start.at)
    BY <2>2 DEF Lin, Report, Row, Col
  <2>5. start.top \in Nat
    BY <1>2 DEF IsTerminal
  <2>6. Row(start.at) \in Int /\ Col(start.at) \in 0..(Cols - 1) /\ start.at = Row(start.at) * Cols + Col(start.at)
    BY <1>3, DivMod
  <2> DEFINE r == Row(start.at)
             c == Col(start.at)
  <2>7. r \in Int /\ c \in Int /\ start.at = r * Cols + c /\ Lin(cursor_pos) = (r - start.top) * Cols + c
    BY <2>4, <2>6
  <2> HIDE DEF r, c
  <2>8. (r - start.top) * Cols = r * Cols - start.top * Cols
    BY <2>5, <2>7, Grid
  <2>9. r * Cols \in Int /\ start.top * Cols \in Int
    BY <2>5, <2>7, Grid
  <2>10. Origin = start.top * Cols + (Lin(cursor_pos) - 0)
    BY <1>1, <2>3 DEF Origin
  <2> QED BY <2>7, <2>8, <2>9, <2>10
<1> QED BY <1>1, <1>3, <1>5, <1>6, <1>7, <1>8 DEF ShownInv

LEMMA StayShown ==
  ASSUME ShownInv, UNCHANGED given, Stays
  PROVE  ShownInv'
<1>1. /\ cursor_pos' = cursor_pos /\ last_rendered_width' = last_rendered_width /\ term' = term
      /\ start' = start /\ echo_mode' = echo_mode /\ (term_smart' <=> term_smart)
      /\ render_cursor' = render_cursor
  BY DEF screen, given, Stays
<1>2. Ahead' = Ahead
  BY <1>1, AheadStep DEF Ahead, Stays
<1>3. Origin' = Origin
  BY <1>1, <1>2 DEF Origin
<1>4. Drives' <=> Drives
  BY <1>1 DEF Drives
<1>5. CASE dirty'
  BY <1>1, <1>3, <1>4, <1>5 DEF ShownInv
<1>6. CASE UNCHANGED <<buffer, cursor, dirty>>
  <2>1. Drawn(buffer)' = Drawn(buffer)
    BY <1>1, <1>6 DEF Drawn
  <2>2. Redrawn' <=> Redrawn
    BY <1>1, <1>6, <2>1 DEF Redrawn
  <2> QED BY <1>1, <1>3, <1>4, <1>6, <2>2 DEF ShownInv
<1> QED BY <1>5, <1>6 DEF Stays

(* A motion on a line that is shown puts the cursor on the character's cell. *)
LEMMA MoveShown ==
  ASSUME LineInv, SetupInv, ScreenInv, NarrowInv, ShownInv, Drives, UNCHANGED given,
         NEW to \in 0..Len(buffer), Moves(to)
  PROVE  ShownInv'
<1>1. /\ SyncCursors(buffer, to) /\ Prefix(buffer', to) = Prefix(buffer, to)
      /\ dirty' \/ (cursor' = to /\ UNCHANGED <<buffer, dirty>>)
  BY DEF Moves
<1>2. /\ render_cursor' = to /\ last_rendered_width' = last_rendered_width
      /\ term' = Address(term, cursor_pos')
  BY <1>1 DEF SyncCursors, Drives
<1>3. ScreenInv' /\ (term.top * Cols <= Origin => Origin' = Origin)
  BY <1>1, MoveScreen
<1>4. start' = start /\ echo_mode' = echo_mode /\ (term_smart' <=> term_smart)
  BY DEF given
<1>5. cursor_pos' \in Position /\ IsTerminal(term)
  BY <1>3 DEF ScreenInv
<1> DEFINE pos == cursor_pos'
           u == Address(term, pos)
<1> HIDE DEF pos
<1>6. /\ pos \in Position /\ term' = u /\ u.tape = term.tape /\ u.top = term.top /\ Insertion(u) = u.at
      /\ pos.row < Rows => u.at = term.top * Cols + Lin(pos)
  BY <1>2, <1>5, AddressType DEF pos
<1> HIDE DEF u
<1> SUFFICES ASSUME term.top * Cols <= start.at
             PROVE  /\ Origin' = start.at
                    /\ start.at + last_rendered_width < (term.top + Rows) * Cols
                    /\ \A q \in Int : start.at + last_rendered_width <= q => Cell(u, q) = Blank
                    /\ ~dirty' => Redrawn'
  BY <1>2, <1>4, <1>6 DEF ShownInv
<1>7. /\ Origin = start.at
      /\ start.at + last_rendered_width < (term.top + Rows) * Cols
      /\ \A q \in Int : start.at + last_rendered_width <= q => Cell(term, q) = Blank
      /\ ~dirty => Redrawn
  BY DEF ShownInv
<1>8. Origin' = start.at
  BY <1>3, <1>7
<1>9. \A q \in Int : start.at + last_rendered_width <= q => Cell(u, q) = Blank
  BY <1>6, <1>7, SameCells
<1>10. ASSUME ~dirty' PROVE Redrawn'
  <2>1. cursor' = to /\ buffer' = buffer /\ ~dirty /\ Redrawn
    BY <1>1, <1>7, <1>10
  <2>2. Drawn(buffer)' = Drawn(buffer)
    BY <1>4, <2>1 DEF Drawn
  <2>3. Ahead' = to
    BY <1>1, <1>2, AheadStep, PrefixNarrow
  <2>4. start.at = u.top * Cols + (Lin(pos) - to)
    <3>1. Origin' = term'.top * Cols + (Lin(pos) - Ahead')
      BY DEF Origin, pos
    <3> QED BY <1>6, <1>8, <2>3, <3>1
  <2>5. to \in Nat /\ to <= Len(buffer) /\ Len(buffer) = last_rendered_width /\ Len(buffer) \in Nat
    BY <2>1, LenProperties DEF LineInv, Redrawn
  <2>6. /\ term.top * Cols \in Nat /\ start.at \in Nat /\ Rows * Cols \in Nat
        /\ (term.top + Rows) * Cols = term.top * Cols + Rows * Cols
    BY OriginType
  <2>7. Lin(pos) \in Nat /\ (Lin(pos) < Rows * Cols <=> pos.row < Rows)
    BY <1>6, LinType
  <2> DEFINE base == term.top * Cols
             height == Rows * Cols
             l == Lin(pos)
             at == start.at
             n == Len(buffer)
  <2>8. /\ base \in Nat /\ height \in Nat /\ l \in Nat /\ at \in Nat /\ n \in Nat
        /\ at = base + (l - to) /\ at + n < base + height
    BY <1>6, <1>7, <2>4, <2>5, <2>6, <2>7
  <2> HIDE DEF base, height, l, at, n
  <2>9. to \in Nat /\ to <= n
    BY <2>5 DEF n
  <2>10. l < height /\ base + l = at + to
    BY <2>8, <2>9
  <2>11. u.at = at + to
    BY <1>6, <2>7, <2>10 DEF l, height, base
  <2>12. Insertion(term') = start'.at + cursor'
    BY <1>4, <1>6, <2>1, <2>11 DEF at
  <2>13. \A q : Cell(term', q) = Cell(term, q)
    BY <1>6, SameCells
  <2> QED BY <1>2, <1>4, <2>1, <2>2, <2>12, <2>13 DEF Redrawn
<1> QED BY <1>7, <1>8, <1>9, <1>10

(* A redraw of a line whose first row stays in sight, step by step. *)
InSight == /\ LineInv /\ SetupInv /\ ScreenInv /\ NarrowInv /\ ShownInv /\ Drives
           /\ Erased.top * Cols <= start.at

LEMMA InSightType ==
  ASSUME InSight
  PROVE  /\ LineInv /\ SetupInv /\ ScreenInv /\ NarrowInv /\ Drives
         /\ term.top * Cols <= start.at
         /\ start.at \in Nat /\ Len(buffer) \in Nat /\ last_rendered_width \in Nat
         /\ term.top \in Nat /\ Gone \in Nat /\ Erased.top \in Nat
         /\ HomeCell = start.at /\ EndCell = start.at + Len(buffer)
         /\ start.at + last_rendered_width < (term.top + Rows) * Cols
         /\ \A q \in Int : start.at + last_rendered_width <= q => Cell(term, q) = Blank
         /\ start.at < (term.top + Rows) * Cols
<1>1. LineInv /\ SetupInv /\ ScreenInv /\ NarrowInv /\ Drives /\ ShownInv
  BY DEF InSight
<1>2. Erased.top * Cols <= start.at
  BY DEF InSight
<1>3. /\ IsTerminal(Erased) /\ term.top + Gone <= Erased.top
      /\ term.top \in Nat /\ Gone \in Nat /\ start.at \in Nat
  BY <1>1, ErasedType, OriginType, LineEndType
<1>4. Erased.top \in Nat
  BY <1>3 DEF IsTerminal
<1>5. term.top * Cols <= start.at
  <2>1. ~ (start.at < Erased.top * Cols)
    <3>1. Erased.top * Cols \in Int
      BY <1>4, Grid
    <3> QED BY <1>2, <1>3, <3>1
  <2>2. ~ (Row(start.at) < Erased.top)
    BY <1>3, <1>4, <2>1, RowLess
  <2>3. Row(start.at) \in Int
    BY <1>3, DivMod
  <2>4. ~ (Row(start.at) < term.top)
    BY <1>3, <1>4, <2>2, <2>3
  <2>5. ~ (start.at < term.top * Cols) /\ term.top * Cols \in Int
    BY <1>3, <2>4, RowLess, Grid
  <2> QED BY <1>3, <2>5
<1>6. /\ Origin = start.at
      /\ start.at + last_rendered_width < (term.top + Rows) * Cols
      /\ \A q \in Int : start.at + last_rendered_width <= q => Cell(term, q) = Blank
  BY <1>1, <1>5 DEF ShownInv
<1>7. HomeCell = start.at /\ start.at < (term.top + Rows) * Cols
  BY <1>1, <1>5, <1>6, HomeType
<1>8. EndCell = start.at + Len(buffer)
  BY <1>1, <1>7, LineNarrow DEF EndCell
<1>9. Len(buffer) \in Nat /\ last_rendered_width \in Nat
  BY <1>1, LenProperties DEF LineInv, ScreenInv
<1> QED BY <1>1, <1>3, <1>4, <1>5, <1>6, <1>7, <1>8, <1>9

(* Its glyphs fill the cells from the prompt on. *)
LEMMA PrintedNarrow ==
  ASSUME InSight
  PROVE  /\ IsTerminal(Printed) /\ Insertion(Printed) = EndCell
         /\ Len(buffer) = 0 => Printed.top = term.top /\ Gone = 0
         /\ Len(buffer) # 0 => /\ Printed.wrap <=> Col(EndCell) = 0
                               /\ Printed.top = TopFor(term.top, EndCell - 1)
         /\ \A q \in Int : Cell(Printed, q) = Shown(term, start.at, Drawn(buffer), q)
<1>1. /\ LineInv /\ SetupInv /\ ScreenInv /\ NarrowInv /\ Drives
      /\ start.at \in Nat /\ Len(buffer) \in Nat /\ term.top \in Nat /\ Gone \in Nat
      /\ HomeCell = start.at /\ EndCell = start.at + Len(buffer)
      /\ start.at < (term.top + Rows) * Cols
  BY InSightType
<1> DEFINE t == Address(term, Home)
           s == Drawn(buffer)
<1>2. IsTerminal(t) /\ t.tape = term.tape /\ t.top = term.top /\ Insertion(t) = start.at
  BY <1>1, HomeType
<1>3. s \in Seq(Glyph) /\ Len(s) = Len(buffer) /\ \A k \in 1..Len(s) : Width[s[k]] = 1
  BY <1>1, LineNarrow
<1>4. Printed = PutAll(t, s)
  BY DEF Printed
<1> HIDE DEF t, s
<1>5. /\ IsTerminal(PutAll(t, s))
      /\ Insertion(PutAll(t, s)) = start.at + Len(s)
      /\ Len(s) = 0 => PutAll(t, s) = t
      /\ Len(s) # 0 => /\ PutAll(t, s).wrap <=> Col(start.at + Len(s)) = 0
                       /\ PutAll(t, s).top = TopFor(t.top, start.at + Len(s) - 1)
      /\ \A q \in Int : Cell(PutAll(t, s), q) = Shown(t, start.at, s, q)
  BY <1>2, <1>3, PutAllNarrow
<1>6. Len(buffer) = 0 => Gone = 0
  <2> SUFFICES ASSUME Len(buffer) = 0, Gone # 0 PROVE FALSE
    OBVIOUS
  <2>1. EndCell = start.at
    BY <1>1
  <2>2. Row(EndCell) < term.top + Rows
    <3>1. term.top + Rows \in Int
      BY <1>1, Grid
    <3> QED BY <1>1, <2>1, <3>1, RowLess
  <2>3. Row(EndCell) + 1 = term.top + Gone + Rows
    <3>1. Gone > 0
      BY <1>1
    <3> QED BY <1>1, <3>1, LineEndType
  <2>4. Row(EndCell) \in Int /\ Rows \in Nat
    BY <1>1, <2>1, DivMod, Grid
  <2>5. Gone >= 1
    BY <1>1
  <2> QED BY <1>1, <2>2, <2>3, <2>4, <2>5
<1>7. \A q \in Int : Shown(t, start.at, s, q) = Shown(term, start.at, s, q)
  BY <1>2 DEF Shown, Cell
<1>8. IsTerminal(Printed) /\ Insertion(Printed) = EndCell
  BY <1>1, <1>3, <1>4, <1>5
<1>9. Len(buffer) = 0 => Printed.top = term.top
  BY <1>2, <1>3, <1>4, <1>5
<1>10. Len(buffer) # 0 => /\ Printed.wrap <=> Col(EndCell) = 0
                          /\ Printed.top = TopFor(term.top, EndCell - 1)
  <2> SUFFICES ASSUME Len(buffer) # 0
               PROVE  /\ Printed.wrap <=> Col(EndCell) = 0
                      /\ Printed.top = TopFor(term.top, EndCell - 1)
    OBVIOUS
  <2>1. start.at + Len(s) = EndCell /\ start.at + Len(s) - 1 = EndCell - 1
    <3> DEFINE n == Len(s)
               e == EndCell
               at == start.at
    <3>1. n \in Nat /\ at \in Nat /\ e = at + n
      BY <1>1, <1>3
    <3> HIDE DEF n, e, at
    <3>2. at + n = e /\ at + n - 1 = e - 1
      BY <3>1
    <3> QED BY <3>2 DEF n, e, at
  <2>2. /\ PutAll(t, s).wrap <=> Col(start.at + Len(s)) = 0
        /\ PutAll(t, s).top = TopFor(t.top, start.at + Len(s) - 1)
    BY <1>3, <1>5
  <2> QED BY <1>2, <1>4, <2>1, <2>2
<1>11. \A q \in Int : Cell(Printed, q) = Shown(term, start.at, s, q)
  BY <1>4, <1>5, <1>7
<1> QED BY <1>6, <1>8, <1>9, <1>10, <1>11 DEF s

(* Both cases of scrolling to a cell. *)
LEMMA TopForIs ==
  ASSUME NEW top \in Int, NEW p \in Int
  PROVE  /\ Row(p) < top + Rows => TopFor(top, p) = top
         /\ Row(p) >= top + Rows => TopFor(top, p) = Row(p) - Rows + 1
<1>1. Row(p) \in Int /\ Rows \in Nat
  BY DivMod, Grid
<1> DEFINE r == Row(p)
<1> HIDE DEF r
<1>2. r \in Int /\ Rows \in Nat /\ TopFor(top, p) = IF r >= top + Rows THEN r - Rows + 1 ELSE top
  BY <1>1 DEF r, TopFor
<1> QED BY <1>2 DEF r

(* handle_scroll counts the rows that scrolled, no more and no less. *)
LEMMA ScrolledNarrow ==
  ASSUME InSight
  PROVE  /\ IsTerminal(Scrolled) /\ Insertion(Scrolled) = EndCell
         /\ Scrolled.top = term.top + Gone /\ Scrolled.tape = Printed.tape
<1>1. /\ LineInv /\ SetupInv /\ ScreenInv /\ Drives
      /\ start.at \in Nat /\ Len(buffer) \in Nat /\ term.top \in Nat /\ Gone \in Nat
      /\ EndCell = start.at + Len(buffer)
  BY InSightType
<1>2. /\ IsTerminal(Printed) /\ Insertion(Printed) = EndCell
      /\ Len(buffer) = 0 => Printed.top = term.top /\ Gone = 0
      /\ Len(buffer) # 0 => /\ Printed.wrap <=> Col(EndCell) = 0
                            /\ Printed.top = TopFor(term.top, EndCell - 1)
  BY PrintedNarrow
<1>3. /\ Col(EndCell) = LineEnd.col /\ Row(EndCell) < term.top + Gone + Rows
      /\ Gone > 0 => Row(EndCell) + 1 = term.top + Gone + Rows
  BY <1>1, LineEndType
<1>4. EndCell \in Nat /\ Row(EndCell) \in Int /\ EndCell - 1 \in Int /\ Row(EndCell - 1) \in Int
  <2>1. EndCell \in Nat
    BY <1>1
  <2>2. EndCell - 1 \in Int /\ EndCell \in Int
    BY <2>1
  <2> QED BY <2>1, <2>2, DivMod
<1>5. (EndCell - 1) + 1 = EndCell /\ EndCell - 1 <= EndCell /\ Rows \in Nat
  BY <1>4, Grid
<1>6. /\ Col(EndCell) = 0 => Row(EndCell) = Row(EndCell - 1) + 1
      /\ Col(EndCell) # 0 => Row(EndCell) = Row(EndCell - 1)
  BY <1>4, <1>5, RowAfter
<1>9. Gone > 0 => Row(EndCell) - Rows + 1 = term.top + Gone
  <2> DEFINE r == Row(EndCell)
  <2>1. r \in Int /\ (Gone > 0 => r + 1 = term.top + Gone + Rows)
    BY <1>3, <1>4
  <2> HIDE DEF r
  <2>2. Gone > 0 => r - Rows + 1 = term.top + Gone
    BY SMTT(30), <1>1, <1>5, <2>1
  <2> QED BY <2>2 DEF r
<1>7. CASE Gone > 0 /\ LineEnd.col = 0
  <2>1. Scrolled = LineFeed(Printed)
    BY <1>7 DEF Scrolled
  <2>2. /\ IsTerminal(Scrolled) /\ Scrolled.tape = Printed.tape
        /\ Insertion(Scrolled) = (Row(Printed.at) + 1) * Cols
        /\ Scrolled.top = TopFor(Printed.top, (Row(Printed.at) + 1) * Cols)
    BY <1>2, <2>1, LineFeedType
  <2>3. Printed.wrap /\ Printed.top = TopFor(term.top, EndCell - 1)
    BY <1>2, <1>3, <1>7
  <2>4. Printed.at = EndCell - 1
    <3>1. Insertion(Printed) = Printed.at + 1
      BY <2>3 DEF Insertion
    <3>2. Printed.at \in Nat
      BY <1>2 DEF IsTerminal
    <3> QED BY <1>2, <1>4, <3>1, <3>2
  <2>5. (Row(Printed.at) + 1) * Cols = EndCell
    <3>1. Row(Printed.at) + 1 = Row(EndCell)
      BY <1>3, <1>6, <1>7, <2>4
    <3>2. EndCell = Row(EndCell) * Cols + Col(EndCell) /\ Col(EndCell) = 0
      BY <1>3, <1>4, <1>7, DivMod
    <3>3. Row(EndCell) * Cols \in Int
      BY <1>4, Grid
    <3> QED BY <1>4, <3>1, <3>2, <3>3
  <2>6. Scrolled.top = TopFor(term.top, EndCell)
    BY <1>1, <1>4, <1>5, <2>2, <2>3, <2>5, TopAgain
  <2>7. Row(EndCell) >= term.top + Rows
    BY <1>1, <1>3, <1>4, <1>5, <1>7
  <2>8. Scrolled.top = Row(EndCell) - Rows + 1
    BY <1>1, <1>4, <2>6, <2>7, TopForIs
  <2>9. Scrolled.top = term.top + Gone
    BY <1>1, <1>7, <1>9, <2>8
  <2> QED BY <2>2, <2>5, <2>9
<1>8. CASE ~ (Gone > 0 /\ LineEnd.col = 0)
  <2>1. Scrolled = Printed
    BY <1>8 DEF Scrolled
  <2>2. CASE Len(buffer) = 0
    BY <1>1, <1>2, <2>1, <2>2
  <2>3. CASE Len(buffer) # 0 /\ Gone > 0
    <3>1. Row(EndCell - 1) = Row(EndCell)
      BY <1>3, <1>6, <1>8, <2>3
    <3>2. Row(EndCell - 1) >= term.top + Rows
      BY <1>1, <1>3, <1>4, <1>5, <2>3, <3>1
    <3>3. Printed.top = Row(EndCell) - Rows + 1
      BY <1>1, <1>2, <1>4, <2>3, <3>1, <3>2, TopForIs
    <3>4. Printed.top = term.top + Gone
      BY <1>1, <1>9, <2>3, <3>3
    <3> QED BY <1>2, <2>1, <3>4
  <2>4. CASE Len(buffer) # 0 /\ ~ (Gone > 0)
    <3>1. Gone = 0
      BY <1>1, <2>4
    <3>2. Row(EndCell - 1) <= Row(EndCell)
      BY <1>4, <1>5, RowMonotone
    <3>3. Row(EndCell - 1) < term.top + Rows
      BY <1>1, <1>3, <1>4, <1>5, <3>1, <3>2
    <3>4. Printed.top = term.top
      BY <1>1, <1>2, <1>4, <2>4, <3>3, TopForIs
    <3> QED BY <1>1, <1>2, <2>1, <3>1, <3>4
  <2> QED BY <1>1, <2>2, <2>3, <2>4
<1> QED BY <1>7, <1>8

(* Erasing what is left of a longer text scrolls nothing. *)
LEMMA ErasedNarrow ==
  ASSUME InSight
  PROVE  /\ IsTerminal(Erased) /\ Erased.top = term.top + Gone
         /\ \A k \in 1..Len(buffer) : Cell(Erased, start.at + (k - 1)) = Drawn(buffer)[k]
         /\ \A q \in Int : EndCell <= q => Cell(Erased, q) = Blank
<1> DEFINE n == Len(buffer)
           w == last_rendered_width
           at == start.at
           b == Blanks(w - n)
           D == Drawn(buffer)
           m == Len(b)
<1>1. /\ LineInv /\ SetupInv /\ ScreenInv /\ NarrowInv /\ Drives
      /\ at \in Nat /\ n \in Nat /\ w \in Nat /\ term.top \in Nat /\ Gone \in Nat
      /\ EndCell = at + n
      /\ at + w < (term.top + Rows) * Cols
      /\ \A q \in Int : at + w <= q => Cell(term, q) = Blank
  BY InSightType
<1>2. /\ IsTerminal(Scrolled) /\ Insertion(Scrolled) = EndCell
      /\ Scrolled.top = term.top + Gone /\ Scrolled.tape = Printed.tape
  BY ScrolledNarrow
<1>3. Erased = PutAll(Scrolled, b)
  BY DEF Erased, EraseCount
<1>4. Len(D) = n
  BY <1>1, LineNarrow
<1>5. \A q \in Int : Cell(Scrolled, q) = Shown(term, at, D, q)
  BY <1>2, PrintedNarrow DEF Cell
<1> HIDE DEF n, w, at, D
<1>6. w - n \in Int
  BY <1>1
<1>7. /\ b \in Seq(Glyph) /\ m = (IF w - n < 0 THEN 0 ELSE w - n)
      /\ \A k \in 1..m : b[k] = Blank /\ Width[b[k]] = 1
  BY <1>6, BlanksType
<1> HIDE DEF b
<1>8. /\ IsTerminal(Erased)
      /\ Len(b) = 0 => Erased = Scrolled
      /\ Len(b) # 0 => Erased.top = TopFor(Scrolled.top, EndCell + Len(b) - 1)
      /\ \A q \in Int : Cell(Erased, q) = Shown(Scrolled, EndCell, b, q)
  BY <1>2, <1>3, <1>7, PutAllNarrow
<1> HIDE DEF m
<1>9. Erased.top = term.top + Gone
  <2>1. CASE m = 0
    BY <1>2, <1>8, <2>1 DEF m
  <2>2. CASE m # 0
    <3> DEFINE p == EndCell + m - 1
    <3>1. m = w - n /\ p = at + w - 1 /\ p \in Int
      BY <1>1, <1>7, <2>2
    <3>2. p < (term.top + Rows) * Cols
      <4>1. (term.top + Rows) * Cols \in Int
        BY <1>1, Grid
      <4> QED BY <1>1, <3>1, <4>1
    <3> HIDE DEF p
    <3>3. Row(p) < term.top + Rows
      <4>1. term.top + Rows \in Int
        BY <1>1, Grid
      <4> QED BY <3>1, <3>2, <4>1, RowLess
    <3>4. Row(p) \in Int /\ Rows \in Nat
      BY <3>1, DivMod, Grid
    <3>5. Scrolled.top \in Int /\ Row(p) < Scrolled.top + Rows
      BY <1>1, <1>2, <3>3, <3>4
    <3>6. TopFor(Scrolled.top, p) = Scrolled.top
      BY <3>1, <3>5, TopForIs
    <3>7. Erased.top = TopFor(Scrolled.top, p)
      BY <1>8, <2>2 DEF m, p
    <3> QED BY <1>2, <3>6, <3>7
  <2> QED BY <2>1, <2>2
<1>10. \A q \in Int : Cell(Erased, q) = IF EndCell <= q /\ q < EndCell + m THEN b[q - EndCell + 1] ELSE Cell(Scrolled, q)
  BY <1>8 DEF Shown, m
<1>11. \A q \in Int : Cell(Scrolled, q) = IF at <= q /\ q < at + n THEN D[q - at + 1] ELSE Cell(term, q)
  BY <1>4, <1>5 DEF Shown
<1>12. ASSUME NEW k \in 1..n PROVE Cell(Erased, at + (k - 1)) = D[k]
  <2> DEFINE q == at + (k - 1)
  <2>1. /\ q \in Int /\ ~ (EndCell <= q /\ q < EndCell + m)
        /\ at <= q /\ q < at + n /\ q - at + 1 = k
    BY <1>1
  <2> HIDE DEF q
  <2>2. Cell(Erased, q) = Cell(Scrolled, q)
    BY <1>10, <2>1
  <2>3. Cell(Scrolled, q) = D[k]
    BY <1>11, <2>1
  <2> QED BY <2>2, <2>3 DEF q
<1>13. ASSUME NEW q \in Int, EndCell <= q PROVE Cell(Erased, q) = Blank
  <2>1. CASE q < EndCell + m
    <3>1. m \in Nat
      BY <1>1, <1>7
    <3>2. q - EndCell + 1 \in 1..m
      BY <1>1, <1>13, <2>1, <3>1
    <3>3. Cell(Erased, q) = b[q - EndCell + 1]
      BY <1>10, <1>13, <2>1
    <3> QED BY <1>7, <3>2, <3>3
  <2>2. CASE ~ (q < EndCell + m)
    <3>1. at + w <= q /\ ~ (q < at + n)
      BY <1>1, <1>7, <1>13, <2>2
    <3>2. Cell(Erased, q) = Cell(Scrolled, q)
      BY <1>10, <2>2
    <3>3. Cell(Scrolled, q) = Cell(term, q)
      BY <1>11, <3>1
    <3> QED BY <1>1, <3>1, <3>2, <3>3
  <2> QED BY <2>1, <2>2
<1> QED BY <1>8, <1>9, <1>12, <1>13 DEF n, at, D

(* After a redraw the line is shown. *)
LEMMA RedrawShown ==
  ASSUME LineInv, SetupInv, ScreenInv, NarrowInv, ShownInv, Drives,
         RedrawSmart, UNCHANGED <<buffer, cursor, given>>
  PROVE  ShownInv'
<1> DEFINE c == TextWidth(Drawn(Prefix(buffer, cursor)))
           u == Address(Erased, AtCursor)
           o == Erased.top * Cols + (Lin(AtCursor) - c)
<1>1. /\ cursor_pos' = AtCursor /\ term' = u
      /\ last_rendered_width' = TextWidth(Drawn(buffer)) /\ render_cursor' = cursor
  BY RedrawSteps
<1>2. PICK k \in Nat : Erased.top = term.top + Gone + k
  BY Excess
<1>3. /\ AtCursor \in Position
      /\ Erased.top * Cols <= HomeCell + k * Cols => o = HomeCell + k * Cols
  BY <1>2, AtCursorType
<1>4. IsTerminal(Erased)
  BY ErasedType
<1>5. /\ u.tape = Erased.tape /\ u.top = Erased.top /\ Insertion(u) = u.at
      /\ AtCursor.row < Rows => u.at = Erased.top * Cols + Lin(AtCursor)
  BY <1>3, <1>4, AddressType
<1>6. start' = start /\ echo_mode' = echo_mode /\ (term_smart' <=> term_smart)
  BY DEF given
<1>7. Ahead' = c
  <2>1. Prefix(buffer', render_cursor') = Prefix(buffer, cursor)
    BY <1>1
  <2> QED BY <2>1, AheadStep
<1>8. Origin' = o
  BY <1>1, <1>5, <1>7 DEF Origin
<1> HIDE DEF o, u
<1> SUFFICES ASSUME Erased.top * Cols <= start.at
             PROVE  /\ o = start.at
                    /\ start.at + TextWidth(Drawn(buffer)) < (Erased.top + Rows) * Cols
                    /\ \A q \in Int : start.at + TextWidth(Drawn(buffer)) <= q => Cell(u, q) = Blank
                    /\ Redrawn'
  BY <1>1, <1>5, <1>6, <1>8 DEF ShownInv
<1>9. InSight
  BY DEF InSight
<1>10. /\ NarrowInv /\ start.at \in Nat /\ Len(buffer) \in Nat /\ HomeCell = start.at
       /\ EndCell = start.at + Len(buffer) /\ term.top \in Nat /\ Gone \in Nat
  BY <1>9, InSightType
<1>11. /\ Erased.top = term.top + Gone
       /\ \A i \in 1..Len(buffer) : Cell(Erased, start.at + (i - 1)) = Drawn(buffer)[i]
       /\ \A q \in Int : EndCell <= q => Cell(Erased, q) = Blank
  BY <1>9, ErasedNarrow
<1>12. TextWidth(Drawn(buffer)) = Len(buffer)
  BY LineNarrow
<1>13. cursor \in 0..Len(buffer) /\ c = cursor
  <2>1. cursor \in 0..Len(buffer)
    BY DEF LineInv
  <2> QED BY <2>1, PrefixNarrow
<1> HIDE DEF c
<1>14. o = start.at
  <2>1. k = 0
    BY <1>2, <1>10, <1>11
  <2>2. HomeCell + k * Cols = start.at
    BY <1>10, <2>1, Grid
  <2> QED BY <1>3, <2>2
<1>15. EndCell < (Erased.top + Rows) * Cols
  <2>1. Row(EndCell) < Erased.top + Rows
    BY <1>11, LineEndType
  <2>2. EndCell \in Int /\ Erased.top + Rows \in Int
    BY <1>10, <1>11, Grid
  <2> QED BY <2>1, <2>2, RowLess
<1>16. \A q \in Int : start.at + TextWidth(Drawn(buffer)) <= q => Cell(u, q) = Blank
  BY <1>5, <1>10, <1>11, <1>12, SameCells
<1>17. Redrawn'
  <2>1. Drawn(buffer)' = Drawn(buffer)
    BY <1>6 DEF Drawn
  <2>2. Erased.top \in Nat /\ Erased.top * Cols \in Nat /\ Rows * Cols \in Nat
    <3>1. Erased.top \in Nat
      BY <1>10, <1>11
    <3> QED BY <3>1, Grid
  <2>3. (Erased.top + Rows) * Cols = Erased.top * Cols + Rows * Cols
    BY <2>2, Grid
  <2>4. /\ Lin(AtCursor) \in Nat
        /\ Lin(AtCursor) < Rows * Cols <=> AtCursor.row < Rows
    BY <1>3, LinType
  <2> DEFINE base == Erased.top * Cols
             height == Rows * Cols
             l == Lin(AtCursor)
             at == start.at
             n == Len(buffer)
  <2>5. /\ base \in Nat /\ height \in Nat /\ l \in Nat /\ at \in Nat /\ n \in Nat
        /\ at = base + (l - cursor) /\ at + n < base + height
    BY <1>10, <1>13, <1>14, <1>15, <2>2, <2>3, <2>4 DEF o
  <2> HIDE DEF base, height, l, at, n
  <2>6. cursor \in 0..n
    BY <1>13 DEF n
  <2>7. l < height /\ base + l = at + cursor
    BY <2>5, <2>6
  <2>8. u.at = at + cursor
    BY <1>5, <2>4, <2>7 DEF l, height, base
  <2>9. Insertion(term') = start'.at + cursor'
    BY <1>1, <1>5, <1>6, <2>8 DEF at
  <2>10. \A q : Cell(term', q) = Cell(Erased, q)
    BY <1>1, <1>5, SameCells
  <2>11. \A i \in 1..Len(buffer') : Cell(term', start'.at + (i - 1)) = Drawn(buffer)[i]
    BY <1>6, <1>11, <2>10
  <2> QED BY <1>1, <1>12, <2>1, <2>9, <2>11 DEF Redrawn
<1> QED BY <1>10, <1>12, <1>14, <1>15, <1>16, <1>17

LEMMA ShownNext ==
  LineInv /\ SetupInv /\ ScreenInv /\ NarrowInv /\ ShownInv /\ [Next]_vars => ShownInv'
<1> SUFFICES ASSUME LineInv, SetupInv, ScreenInv, NarrowInv, ShownInv, [Next]_vars, Drives'
             PROVE  ShownInv'
  BY DEF ShownInv
<1>0. UNCHANGED given /\ Drives
  BY NextSetup DEF given, Drives
<1>1. CASE \E more \in BOOLEAN : Event(more)
  <2> PICK more \in BOOLEAN : Event(more)
    BY <1>1
  <2>1. CASE Stays
    BY <1>0, <2>1, StayShown
  <2>2. CASE \E to \in 0..Len(buffer) : Moves(to)
    BY <1>0, <2>2, MoveShown
  <2> QED BY <2>1, <2>2, EventMoves
<1>2. CASE Redraw
  <2>1. RedrawSmart /\ UNCHANGED <<buffer, cursor, given>>
    BY <1>0, <1>2 DEF Redraw, Drives
  <2> QED BY <1>0, <2>1, RedrawShown
<1>3. CASE ReadStop \/ Abort \/ UNCHANGED vars \/ \E r \in Replies : HandlerFault(r)
  <2>1. UNCHANGED <<line, screen>>
    BY <1>3 DEF ReadStop, Abort, HandlerFault, vars
  <2>2. UNCHANGED <<buffer, cursor, dirty, render_cursor, screen>>
    BY <2>1 DEF line
  <2>3. Stays
    BY <2>2 DEF Stays
  <2> QED BY <1>0, <2>3, StayShown
<1> QED BY <1>1, <1>2, <1>3 DEF Next

(* Whenever the line is clean and begins on the screen, redraws, scrolling,   *)
(* erasing and cursor motions of render.c have left the screen as if the text *)
(* had been typed on the prompt, and the cursor at the logical one: for every *)
(* size of the screen, every line of narrow characters and every hidden line. *)
THEOREM ScreenShowsLine ==
  ASSUME NoWrapPending, VisibleNarrow, LastWhole
  PROVE  Spec => []LineShown
<1>1. LineInv /\ SetupInv /\ ScreenInv /\ NarrowInv /\ ShownInv => LineShown
  <2> SUFFICES ASSUME LineInv, SetupInv, ScreenInv, NarrowInv, ShownInv, term_smart, ~dirty, OnScreen
               PROVE  LET shown == PutAll(start, Drawn(buffer))
                      IN  /\ \A p \in DOMAIN term.tape \cup DOMAIN shown.tape : Cell(term, p) = Cell(shown, p)
                          /\ Insertion(term) = Insertion(PutAll(start, Drawn(Prefix(buffer, cursor))))
    BY DEF LineShown
  <2> DEFINE shown == PutAll(start, Drawn(buffer))
  <2>1. start \in Starts /\ IsTerminal(start) /\ IsTerminal(term) /\ ~start.wrap
    BY StartAssumption DEF ScreenInv, NoWrapPending
  <2>2. Insertion(start) = start.at /\ start.at \in Nat
    BY <2>1 DEF Insertion, IsTerminal
  <2>3. CASE echo_mode = "off"
    <3>1. Drawn(buffer) = <<>> /\ Drawn(Prefix(buffer, cursor)) = <<>> /\ term = start
      BY <2>3 DEF Drawn, ScreenInv
    <3>2. <<>> \in Seq(Glyph) /\ Len(<<>>) = 0
      BY EmptySeq
    <3>3. \A j \in 1..Len(<<>>) : Width[<<>>[j]] = 1
      BY <3>2
    <3>4. PutAll(start, <<>>) = start
      BY <2>1, <3>2, <3>3, PutAllNarrow
    <3> QED BY <3>1, <3>4
  <2>4. CASE echo_mode # "off"
    <3> DEFINE D == Drawn(buffer)
               e == Drawn(Prefix(buffer, cursor))
               n == Len(buffer)
               at == start.at
    <3>1. Drives /\ term.top * Cols <= start.at
      BY <2>2, <2>4 DEF Drives, OnScreen
    <3>2. /\ start.at + last_rendered_width < (term.top + Rows) * Cols
          /\ \A q \in Int : at + last_rendered_width <= q => Cell(term, q) = Blank
          /\ Redrawn
      BY <3>1 DEF ShownInv
    <3>3. /\ last_rendered_width = n /\ Insertion(term) = at + cursor
          /\ \A j \in 1..n : Cell(term, at + (j - 1)) = D[j]
      BY <3>2 DEF Redrawn
    <3>4. D \in Seq(Glyph) /\ Len(D) = n /\ \A j \in 1..Len(D) : Width[D[j]] = 1
      BY <3>1, LineNarrow
    <3>5. e \in Seq(Glyph) /\ Len(e) = cursor /\ \A j \in 1..Len(e) : Width[e[j]] = 1
      <4>1. cursor \in 0..Len(buffer)
        BY DEF LineInv
      <4> QED BY <3>1, <4>1, PrefixNarrow
    <3>6. n \in Nat
      BY LenProperties DEF LineInv
    <3>7. First = at /\ Kept(start, term, at)
      BY <3>1 DEF First, ScreenInv
    <3> HIDE DEF D, e, n, at
    <3>8. IsTerminal(PutAll(start, D)) /\ \A q \in Int : Cell(PutAll(start, D), q) = Shown(start, at, D, q)
      BY <2>1, <2>2, <3>4, PutAllNarrow DEF at
    <3>9. Insertion(PutAll(start, e)) = at + cursor
      BY <2>1, <2>2, <3>5, PutAllNarrow DEF at
    <3>10. ASSUME NEW p \in Int PROVE Cell(term, p) = Cell(PutAll(start, D), p)
      <4>0. at \in Nat
        BY <2>2 DEF at
      <4>1. Cell(PutAll(start, D), p) = IF at <= p /\ p < at + n THEN D[p - at + 1] ELSE Cell(start, p)
        BY <3>4, <3>8 DEF Shown
      <4>2. CASE p < at
        <5>1. Cell(PutAll(start, D), p) = Cell(start, p)
          BY <4>0, <4>1, <4>2
        <5> QED BY <3>7, <4>2, <5>1 DEF Kept
      <4>3. CASE at <= p /\ p < at + n
        <5>1. p - at + 1 \in 1..n /\ at + ((p - at + 1) - 1) = p
          BY <3>6, <4>0, <4>3
        <5>2. Cell(term, at + ((p - at + 1) - 1)) = D[p - at + 1]
          BY <3>3, <5>1
        <5> QED BY <4>1, <4>3, <5>1, <5>2
      <4>4. CASE at + n <= p
        <5>1. Cell(term, p) = Blank
          BY <3>2, <3>3, <4>4
        <5>2. at <= p /\ ~ (p < at + n)
          BY <3>6, <4>0, <4>4
        <5>3. Cell(start, p) = Blank
          BY <2>1, <2>2, <5>2, BeyondStart DEF at
        <5> QED BY <4>1, <5>1, <5>2, <5>3
      <4>5. p < at \/ (at <= p /\ p < at + n) \/ at + n <= p
        BY <3>6, <4>0
      <4> QED BY <4>2, <4>3, <4>4, <4>5
    <3>11. shown = PutAll(start, D)
      BY DEF D
    <3>12. DOMAIN term.tape \subseteq Int /\ DOMAIN PutAll(start, D).tape \subseteq Int
      <4>1. DOMAIN term.tape \subseteq Nat
        BY <2>1 DEF IsTerminal
      <4>2. DOMAIN PutAll(start, D).tape \subseteq Nat
        BY <3>8 DEF IsTerminal
      <4> QED BY <4>1, <4>2
    <3>13. \A p \in DOMAIN term.tape \cup DOMAIN shown.tape : Cell(term, p) = Cell(shown, p)
      BY <3>10, <3>11, <3>12
    <3>14. Insertion(term) = Insertion(PutAll(start, Drawn(Prefix(buffer, cursor))))
      BY <3>3, <3>9 DEF e
    <3> QED BY <3>13, <3>14
  <2> QED BY <2>3, <2>4
<1>2. Spec => []NarrowInv
  BY InvInit, InvNext, SetupInit, SetupNext, NarrowInit, NarrowNext, PTL DEF Spec
<1>3. Init => ShownInv
  BY ShownInit
<1>4. Spec => []ShownInv
  BY <1>2, <1>3, LineInvariant, SetupInvariant, ScreenInvariant, ShownNext, PTL DEF Spec
<1> QED BY <1>1, <1>2, <1>4, LineInvariant, SetupInvariant, ScreenInvariant, PTL
=============================================================================
