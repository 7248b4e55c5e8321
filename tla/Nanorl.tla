------------------------------- MODULE Nanorl -------------------------------
(***************************************************************************)
(* One call of nanorl(): the reader of Reader and the line of Editor put   *)
(* together by the main loop, from the bytes that read() returns to the    *)
(* line that is given back.  A character is the tuple of its bytes, "^X"   *)
(* is the two characters <<"^">> and <<X>>.                                *)
(***************************************************************************)
EXTENDS Integers, Sequences, SequencesExt

CONSTANTS
  Byte, EOT, Newline, Nul, Control, LeadLen, Cont, BufSize,    \* of Reader
  Streams, Preloads, NoPreload, Interrupts,
  Rows, Cols, Width, Blank, Char, Setups, Star, Starts, MaxLen,  \* of Editor
  Meaning,                \* the keys, and what each of them does
  Handler,                \* what the handlers of some custom keys return
  CustomIgnoreDefault     \* custom_ignore_default of the configuration

Edits == {"left", "right", "home", "end", "delete", "backspace"}
Keys == DOMAIN Meaning

(* What a handler may return: no cursor inside of the first of several       *)
(* characters, where the process ends, see Editor.                           *)
ASSUME CallAssumption ==
  /\ \A k \in Keys : Meaning[k] \in Edits \cup {"custom"}
  /\ DOMAIN Handler \subseteq {k \in Keys : Meaning[k] = "custom"}
  /\ \A k \in DOMAIN Handler :
       LET r == Handler[k]
       IN  /\ r.text \in Seq(Char) /\ r.point \in 0..Len(r.text)
           /\ r.inside => /\ r.point < Len(r.text)
                          /\ r.point > 0 \/ Len(r.text) = 1
  /\ CustomIgnoreDefault \in BOOLEAN

(* What the bytes are, see Reader. *)
ASSUME ByteAssumption ==
  /\ BufSize \in Nat /\ BufSize >= 4
  /\ LeadLen \in [Byte -> 1..4]
  /\ {EOT, Newline, Nul} \subseteq Byte
  /\ Streams \subseteq Seq(Byte)
  /\ Preloads \ {NoPreload} \subseteq Seq(Byte)
  /\ NoPreload \notin Seq(Byte)
  /\ Keys \subseteq Seq(Byte)
  /\ \A k \in Keys : Len(k) \in 1..BufSize
  /\ \A k, l \in Keys : IsPrefix(k, l) => k = l

VARIABLES
  input, preload, rd_buf, rd_count, rd_used, rd_pending, path, uchars, reading,
  session, fed, events, taken, opened,                            \* of Reader
  echo_mode, term_smart, buffer, cursor, render_cursor, dirty,
  cursor_pos, last_rendered_width, term, start, pc                \* of Editor

R == INSTANCE Reader WITH pc <- reading, Sessions <- 1
E == INSTANCE Editor WITH
       Texts   <- [s \in Setups |-> Seq(Char)],
       Replies <- {Handler[k] : k \in DOMAIN Handler}

(* Every character that is typed or printed is one the editor knows. *)
ASSUME CharAssumption ==
  /\ "^" \notin Byte
  /\ {<<"^">>, <<"error">>} \cup {<<b>> : b \in Byte} \subseteq Char
  /\ \A n \in 1..4 : \A u \in [1..n -> Byte] : LeadLen[u[1]] = n /\ R!Valid(u) => u \in Char

(* The calls and the terminals there are, see Editor and Terminal. *)
ASSUME ScreenAssumption ==
  /\ Setups \subseteq [echo_mode : {"off", "on", "obscured"}, smart : BOOLEAN]
  /\ Rows \in Nat \ {0} /\ Cols \in Nat \ {0, 1}
  /\ \A g \in DOMAIN Width : Width[g] \in 0..2
  /\ Char \cup {Star, Blank} \subseteq DOMAIN Width
  /\ Width[Star] = 1 /\ Width[Blank] = 1
  /\ \A t \in Starts : E!IsTerminal(t) /\ DOMAIN t.tape \subseteq 0..(E!Insertion(t) - 1)
  /\ MaxLen \in Nat

byteVars == <<input, preload, rd_buf, rd_count, rd_used, rd_pending, path, uchars, reading,
              session, fed, events, taken, opened>>
lineVars == <<echo_mode, term_smart, buffer, cursor, render_cursor, dirty,
              cursor_pos, last_rendered_width, term, start, pc>>
vars == <<byteVars, lineVars>>

Init == R!Init /\ E!Init

-----------------------------------------------------------------------------
(* One step of nrl_io_read that returns nothing yet. *)
Reading ==
  /\ pc = "read"
  /\ \/ R!StartRead
     \/ R!Refill
     \/ R!DfaStep
     \/ R!ReadPlain
     \/ R!StartUchar
     \/ R!UcharStep
  /\ UNCHANGED lineVars

(* Mutant of More: asked before the bytes of the event are taken off. *)
MoreStale == rd_used < rd_count

(* read_buf.more *)
More == rd_used' < rd_count'

Characters(value) ==
  IF value[1] = "^" THEN <<<<"^">>, <<value[2]>>>> ELSE <<value>>

(* Each byte of a custom key the way it would be printed if it were typed. *)
Printed(key) ==
  FlattenSeq([i \in 1..Len(key) |-> Characters(R!CharEvent(<<key[i]>>).value)])

Or(possible, action, none) == IF possible THEN action ELSE none

Handled(key) == echo_mode = "on" /\ key \in DOMAIN Handler

(* Mutant of CustomKey: the setting is read the other way round. *)
CustomKeyIgnored(key) ==
  IF Handled(key) THEN E!EvalCustom(Handler[key], More)
  ELSE IF ~CustomIgnoreDefault THEN E!NoEffect(More)
  ELSE E!InsertText(Printed(key), More)

CustomKey(key) ==
  IF Handled(key) THEN E!EvalCustom(Handler[key], More)
  ELSE IF CustomIgnoreDefault THEN E!NoEffect(More)
  ELSE E!InsertText(Printed(key), More)

(* nrl_manip_eval_escape *)
EditKey(meaning) ==
  \/ meaning = "left"      /\ Or(cursor > 0, E!EscapeLeft(More), E!NoEffect(More))
  \/ meaning = "right"     /\ Or(cursor < Len(buffer), E!EscapeRight(More), E!NoEffect(More))
  \/ meaning = "home"      /\ E!EscapeHome(More)
  \/ meaning = "end"       /\ E!EscapeEnd(More)
  \/ meaning = "delete"    /\ Or(cursor < Len(buffer), E!EscapeDelete(More), E!NoEffect(More))
  \/ meaning = "backspace" /\ Or(cursor > 0, E!EscapeBackspace(More), E!NoEffect(More))

(* nrl_io_read returns a key, ... *)
Key ==
  /\ R!DfaAccept
  /\ LET key == Last(events').value
     IN  \/ EditKey(Meaning[key])
         \/ Meaning[key] = "custom" /\ CustomKey(key)

(* ... a text, ... *)
Text ==
  /\ R!UcharDone
  /\ Last(events').type = "text"
  /\ E!InsertText(Characters(Last(events').value), More)

(* ... or the end. *)
Stop ==
  /\ R!UcharDone
  /\ Last(events').type = "stop"
  /\ E!ReadStop

Redraw == E!Redraw /\ UNCHANGED byteVars

Next == Reading \/ Key \/ Text \/ Stop \/ Redraw

(* The call goes on while its reader can: a read() returns, because the      *)
(* input is one that has an end, and what the loop does between two reads is *)
(* over at some time.                                                        *)
Spec == Init /\ [][Next]_vars /\ WF_(R!vars)(R!Next)

-----------------------------------------------------------------------------
(* What the events of a call do to a line, as the two halves of LineEdit. *)
Halves(before, after) == [before |-> before, after |-> after]

KeyEdited(halves, meaning) ==
  LET before == halves.before
      after  == halves.after
  IN  CASE meaning = "left" ->
             IF before = <<>> THEN halves ELSE Halves(Front(before), <<Last(before)>> \o after)
        [] meaning = "right" ->
             IF after = <<>> THEN halves ELSE Halves(Append(before, Head(after)), Tail(after))
        [] meaning = "home" -> Halves(<<>>, before \o after)
        [] meaning = "end" -> Halves(before \o after, <<>>)
        [] meaning = "delete" -> IF after = <<>> THEN halves ELSE Halves(before, Tail(after))
        [] meaning = "backspace" -> IF before = <<>> THEN halves ELSE Halves(Front(before), after)

CustomEdited(halves, key) ==
  LET reply == Handler[key]
      cut   == IF reply.inside THEN reply.point + 1 ELSE reply.point
  IN  IF Handled(key)
      THEN Halves(SubSeq(reply.text, 1, cut), SubSeq(reply.text, cut + 1, Len(reply.text)))
      ELSE IF CustomIgnoreDefault THEN halves
      ELSE Halves(halves.before \o Printed(key), halves.after)

Edited(halves, e) ==
  CASE e.type = "text" -> Halves(halves.before \o Characters(e.value), halves.after)
    [] e.type = "stop" -> halves
    [] e.type = "escape" ->
         IF Meaning[e.value] = "custom" THEN CustomEdited(halves, e.value)
         ELSE KeyEdited(halves, Meaning[e.value])

Line(all) ==
  LET after[i \in 0..Len(all)] ==
        IF i = 0 THEN Halves(<<>>, <<>>) ELSE Edited(after[i - 1], all[i])
  IN  after[Len(all)]

(* The input ended inside of a key: what is left of it is not kept, see      *)
(* Reader.                                                                   *)
KeyCut == \E k \in Keys : \E n \in 1..(Len(k) - 1) : IsSuffix(Append(SubSeq(k, 1, n), EOT), fed)

(* The line, and so what the call returns, is what an ideal editor makes of  *)
(* the bytes read so far: however read() cut them up, whatever was preloaded *)
(* and wherever keys, their handlers and characters follow each other.       *)
LineFaithful ==
  (reading \in {"idle", "done"} /\ ~KeyCut) =>
    Line(R!Decode(fed, Len(R!Decoded)))
      = Halves(SubSeq(buffer, 1, cursor), SubSeq(buffer, cursor + 1, Len(buffer)))

(* nanorl never waits for a key while the user does not see what the keys    *)
(* before it did: a read() that starts a key finds the line drawn, also      *)
(* after a preload, and after a paste that more than fills the buffer.       *)
ShownBeforeWait ==
  (pc = "read" /\ reading \in {"dfa", "uchar"} /\ R!Starved /\ rd_pending = 0 /\ preload = NoPreload)
    => ~dirty

(* No step of a call is in vain: it brings the end of the reader's call      *)
(* nearer, or is the one redraw after an event.  So neither the reader nor   *)
(* the loop around it goes round without getting on.                         *)
EveryStepCounts ==
  [][\/ R!GetsNearer
     \/ UNCHANGED byteVars /\ pc = "redraw" /\ pc' = "read"]_vars

(* Every call returns: input that ends ends it, at any byte. *)
CallEnds == <>(pc = "done")
=============================================================================
