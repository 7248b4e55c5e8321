------------------------------ MODULE MCNanorl ------------------------------
(* A keyboard with three keys, and what is typed on it. *)
EXTENDS Nanorl, TLC

CONSTANTS esc, brk, A, B, bs, x, lead, cont, nl, eot, nul, star, blank, prompt

MCByte == {esc, brk, A, B, bs, x, lead, cont, nl, eot, nul}
MCControl == {esc, bs, nl, eot, nul}
MCLeadLen == [c \in MCByte |-> IF c = lead THEN 2 ELSE 1]

Left == <<esc, brk, A>>
Custom == <<esc, brk, B>>
Other == <<esc, A>>
MCMeaning == (Left :> "left") @@ (<<bs>> :> "backspace") @@ (Custom :> "custom") @@ (Other :> "custom")
MCHandler == (Custom :> [text |-> <<<<x>>, <<A>>, <<x>>>>, point |-> 1, inside |-> FALSE])

Pieces == {<<x>>, <<lead, cont>>, Left, <<bs>>, Custom, Other, <<nul>>, <<nl>>}
Typed == {p \o q \o r : p \in Pieces, q \in Pieces, r \in Pieces}
Cut == {<<x, esc>>, <<x, esc, brk>>, <<x, lead>>, <<lead, esc>>, <<>>}
MCStreams == Typed \cup Cut
MCPreloads == {NoPreload, <<x, lead, cont, bs, x>>}

MCChar == {<<c>> : c \in MCByte} \cup {<<lead, cont>>, <<"^">>, <<"error">>}
MCWidth == [c \in MCChar \cup {star, blank, prompt} |-> 1]
MCSetups == [echo_mode : {"on", "off"}, smart : {TRUE}]
Display == INSTANCE Terminal
MCStarts == {Display!Prompted(1, FALSE, prompt)}

(* What is typed, but for what is cut off in a key or a character, is input   *)
(* for which the line is proved to follow the bytes, and the screen the line. *)
Whole == INSTANCE Reader WITH Streams <- Typed, pc <- reading, Sessions <- 1
ASSUME TypedIsWhole == Whole!WholeInput /\ E!NoWrapPending /\ E!CursorsWhole /\ Char \subseteq E!Narrow
ASSUME EndPlain == R!EndIsPlain
=============================================================================
