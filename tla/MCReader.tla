------------------------------ MODULE MCReader ------------------------------
(* Small instances of Reader for TLC. *)
EXTENDS Reader, TLC

CONSTANTS esc, brk, A, B, x, lead, cont, nl, eot, nul

MCByte == {esc, brk, A, B, x, lead, cont, nl, eot, nul}
MCControl == {esc, nl, eot, nul}
MCLeadLen == [c \in MCByte |-> IF c = lead THEN 2 ELSE 1]

Arrows == {<<esc, brk, A>>, <<esc, brk, B>>}
NoKeys == {}

(* What a user types: characters and keys, each of them whole. *)
Pieces == {<<x>>, <<lead, cont>>, <<esc, brk, A>>, <<esc, brk, B>>, <<nl>>}
Typed == {p \o q \o r : p \in Pieces, q \in Pieces, r \in Pieces}

(* Characters only. *)
Plain == {<<x, lead, cont, x>>, <<lead, cont, lead, cont, nl>>}

(* Invalid characters. *)
Broken == {<<cont, x, nl>>, <<lead, nl, x>>, <<lead, esc, brk, A>>, <<x, lead>>}

(* Valid and invalid characters, on one and on two lines. *)
PlainOrBroken == Plain \cup Broken \cup {<<x, nl, lead, cont, nl>>}

Preloaded == {NoPreload, <<>>, <<x, lead, cont>>, <<x, x, esc, brk, A, x>>}
NotPreloaded == {NoPreload}

(* The theorem about whole keys and characters is about this instance. *)
ASSUME TypedIsWhole == Keys = Arrows /\ Streams = Typed => WholeInput

(* And so are those that take Ctrl-D for a character of one byte. *)
ASSUME EndPlain == EndIsPlain

(* The Escape key, and a sequence that is no key of the terminal. *)
Unknown == {<<esc, x, nl>>, <<esc, brk, x, nl>>}
=============================================================================
