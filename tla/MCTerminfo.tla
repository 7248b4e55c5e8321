----------------------------- MODULE MCTerminfo -----------------------------
(* Small databases for TLC: three standard keys, two custom ones. *)
EXTENDS Terminfo, TLC

CONSTANTS esc, brk, A, B, bs, cap, none, unset, vt, xterm, usr, own, alt, sys, lib

CtrlHKey == <<bs>>
WildKey == <<brk>>
Cap == <<cap>>      \* a string that is no key
Left == <<esc, brk, A>>
Right == <<esc, brk, B>>

MCEdge == {esc, brk, A, B, bs, cap}
MCStrings == {Cap, Left, Right, <<bs>>, <<esc>>, <<brk>>, <<A>>, <<esc, A>>, <<esc, B, A>>}

(* The layout of an entry: cursor_address, keys, customs, keypad_local and   *)
(* keypad_xmit, user6 and user7.                                             *)
Inputs == <<2, 3, 1>>
Customs == <<4, 5>>
Outputs == <<6, 7>>
Specials == <<0, 8, 9>>

Holding(i, c, o) == [parses |-> TRUE, strings |-> <<Cap, i[3], i[1], i[2]>> \o c \o o \o <<Cap, Cap>>]
Bad == [parses |-> FALSE, strings |-> <<>>]

(* An array of strings that ends before user6, as most compiled entries do. *)
Short == [parses |-> TRUE, strings |-> <<Cap, none, Left, Right, none, none, Cap, Cap>>]

StandardKeys == {none, Left, Right, <<bs>>}
CustomKeys   == {none, <<A>>, <<esc, A>>, <<esc, B, A>>}

(* No sequence is in both tables.  Only the Escape key, which is never the   *)
(* first of its table, begins others.                                        *)
Entries3 == {Holding(<<x, y, z>>, <<c, d>>, <<Cap, Cap>>) :
               x \in StandardKeys, y \in StandardKeys, z \in StandardKeys \cup {<<esc>>},
               c \in CustomKeys, d \in CustomKeys}
One == Holding(<<Left, Right, <<bs>>>>, <<<<A>>, none>>, <<Cap, none>>)
Two == Holding(<<Right, none, none>>, <<none, none>>, <<none, none>>)

MCDirs == {usr, own, alt, lib, sys}
OnlySystem(e) == [d \in MCDirs |-> IF d = sys THEN e ELSE NoEntry]

(* Every entry in the system's database, and two or three entries or bad     *)
(* ones anywhere.                                                            *)
MCDisks == {OnlySystem(e) : e \in Entries3 \cup {Short}}
           \cup {[d \in MCDirs |-> CASE d = p -> e [] d = q -> f [] OTHER -> NoEntry] :
                   p \in MCDirs, q \in MCDirs, e \in {One, Bad}, f \in {Two, NoEntry}}

Env(term, terminfo, home, dirs) ==
  [term |-> term, terminfo |-> terminfo, home |-> home, dirs |-> dirs]
MCEnvs == {Env(vt, unset, unset, <<>>), Env(vt, usr, own, <<alt, usr>>),
           Env(xterm, unset, own, <<>>), Env(unset, usr, own, <<alt>>)}
MCSystem == <<lib, sys>>
MCFast == <<Cap, <<bs>>, Left, Right, <<esc, A>>, <<esc, B, A>>, Cap, Cap, Cap, Cap>>

(* The theorem about the kinds of keys is about this instance. *)
ASSUME KindsAreKept == TablesApart
=============================================================================
