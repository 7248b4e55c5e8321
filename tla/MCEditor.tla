------------------------------ MODULE MCEditor ------------------------------
(* Small instances of Editor for TLC. *)
EXTENDS Editor

CONSTANTS a, b, wide, mark, star, blank, prompt

MCWidth == (a :> 1) @@ (b :> 1) @@ (wide :> 2) @@ (mark :> 0)
           @@ (star :> 1) @@ (blank :> 1) @@ (prompt :> 1)

Chars == {a, b, wide, mark}
Visible == [echo_mode |-> "on", smart |-> TRUE]
MCSetups == [echo_mode : {"off", "on", "obscured"}, smart : BOOLEAN]

(* Narrow characters where they are placed on the screen one by one; wide    *)
(* and combining ones where they are hidden or only printed.                 *)
MCTexts == [s \in MCSetups |-> IF s = Visible THEN {<<a>>, <<b>>, <<a, b>>}
                               ELSE {<<a>>, <<wide>>, <<mark>>}]
Reply(text, point, inside) == [text |-> text, point |-> point, inside |-> inside]

(* Cursors between two characters, and in the first one. *)
MCReplies == {Reply(<<>>, 0, FALSE), Reply(<<b, a, b>>, 1, FALSE), Reply(<<a, b>>, 0, TRUE)}

(* One in the middle of a character with others on both sides. *)
MiddleReplies == {Reply(<<b, a, b>>, 1, TRUE)}

(* Prompts that leave the cursor in the first and the last column of each    *)
(* row of a 2x3 screen.                                                      *)
Corners == {Prompted(p, FALSE, prompt) : p \in {0, 2, 3, 5}}

(* The hypotheses of the theorems about the screen hold on this instance. *)
ASSUME NoWrapPending /\ VisibleNarrow /\ (Replies = MCReplies => CursorsWhole)
=============================================================================
