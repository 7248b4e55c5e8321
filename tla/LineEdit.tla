------------------------------ MODULE LineEdit ------------------------------
(***************************************************************************)
(* What a line editor promises, without buffers, indices or a screen: the  *)
(* text is two halves around the cursor, and every operation works on the  *)
(* ends that meet there.  Editor.tla is shown to implement it.             *)
(***************************************************************************)
EXTENDS Integers, Sequences, SequencesExt

CONSTANTS
  Texts,      \* the character sequences one read may deliver
  Replies     \* what a custom escape handler may return

VARIABLES
  before,     \* the text left of the cursor
  after       \* the text right of the cursor

vars == <<before, after>>

Init == before = <<>> /\ after = <<>>

Type == /\ \E s \in Texts : before' = before \o s
        /\ after' = after

Backspace == /\ before # <<>>
             /\ before' = Front(before)
             /\ after' = after

Delete == /\ after # <<>>
          /\ after' = Tail(after)
          /\ before' = before

Left == /\ before # <<>>
        /\ before' = Front(before)
        /\ after' = <<Last(before)>> \o after

Right == /\ after # <<>>
         /\ before' = Append(before, Head(after))
         /\ after' = Tail(after)

Home == before' = <<>> /\ after' = before \o after

End == before' = before \o after /\ after' = <<>>

(* "If the handler [...] places the cursor in the middle of a single unicode *)
(* point, the cursor will jump to the end of the unicode point."             *)
Cut(r) == IF r.inside THEN r.point + 1 ELSE r.point

Replace == \E r \in Replies :
             /\ before' = SubSeq(r.text, 1, Cut(r))
             /\ after' = SubSeq(r.text, Cut(r) + 1, Len(r.text))

Next == Type \/ Backspace \/ Delete \/ Left \/ Right \/ Home \/ End \/ Replace

Spec == Init /\ [][Next]_vars
=============================================================================
