------------------------------- MODULE Format -------------------------------
(***************************************************************************)
(* format.c: parameterised terminfo strings.  A format is a sequence of    *)
(* literals and of the directives "%i", "%d", "%p1" and "%p2"; a formatted *)
(* string holds a number as one element.                                   *)
(***************************************************************************)
EXTENDS Integers, Sequences, SequencesExt

Directives == {"%i", "%d", "%p1", "%p2"}

Formatted(s, c) ==
  CASE c = "%i"  -> [s EXCEPT !.plist = <<@[1] + 1, @[2] + 1>>]
    [] c = "%p1" -> [s EXCEPT !.stack = Append(@, s.plist[1])]
    [] c = "%p2" -> [s EXCEPT !.stack = Append(@, s.plist[2])]
    [] c = "%d"  -> IF s.stack = <<>> THEN [s EXCEPT !.ok = FALSE]
                    ELSE [s EXCEPT !.out = Append(@, Last(s.stack)), !.stack = Front(@)]
    [] c \notin Directives -> [s EXCEPT !.out = Append(@, c)]

(* nrl_terminfo_string_format with two arguments; NULL (not ok) when a       *)
(* number is printed that was not pushed.                                    *)
FormatString(fmt, p1, p2) ==
  LET after[i \in 0..Len(fmt)] ==
        IF i = 0 THEN [out |-> <<>>, stack |-> <<>>, plist |-> <<p1, p2>>, ok |-> TRUE]
        ELSE LET s == after[i - 1]
             IN  IF s.ok THEN Formatted(s, fmt[i]) ELSE s
  IN  after[Len(fmt)]

(* strtol: no number reads as 0, and stays. *)
Scanned(s) ==
  LET number == Head(s.data) \in Int
      value  == IF number THEN Head(s.data) ELSE 0
  IN  IF Len(s.found) = 2 THEN [s EXCEPT !.ok = FALSE]
      ELSE [s EXCEPT !.found = Append(@, value), !.ok = value # 0,
                     !.data = IF number THEN Tail(@) ELSE @]

Matched(s, c) ==
  IF s.data = <<>> THEN [s EXCEPT !.ok = FALSE]
  ELSE CASE c = "%i" -> [s EXCEPT !.i_flag = TRUE]
         [] c = "%d" -> Scanned(s)
         [] c \notin {"%i", "%d"} -> [s EXCEPT !.ok = (c = Head(s.data)), !.data = Tail(@)]

Parsed(fmt, text) ==
  LET after[i \in 0..Len(fmt)] ==
        IF i = 0 THEN [data |-> text, found |-> <<>>, i_flag |-> FALSE, ok |-> TRUE]
        ELSE LET s == after[i - 1]
             IN  IF s.ok THEN Matched(s, fmt[i]) ELSE s
  IN  after[Len(fmt)]

(* Mutant of Parse2: "%i" is skipped. *)
Parse2FromOne(fmt, text) == Parsed(fmt, text).found

(* nrl_terminfo_string_parse2: what it assigns to p1 and p2, none, one or    *)
(* both of them; numbers found before a failure are not decremented.         *)
Parse2(fmt, text) ==
  LET s == Parsed(fmt, text)
  IN  IF s.ok /\ s.i_flag THEN [i \in DOMAIN s.found |-> s.found[i] - 1] ELSE s.found
=============================================================================
