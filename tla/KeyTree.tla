------------------------------- MODULE KeyTree ------------------------------
(***************************************************************************)
(* nrl_dfa_build: the tree of dfa.c, grown from the key tables and again   *)
(* at every call of nanorl(), without ever being emptied.  A node is named *)
(* by the edges that lead to it.  Terminfo.tla loads the tables and calls  *)
(* the builds.                                                             *)
(***************************************************************************)
EXTENDS Integers, Sequences, SequencesExt

CONSTANTS
  Edge,       \* the bytes of keys
  Strings,    \* the strings a terminal may have
  NoKey,      \* NULL: a string the terminal does not have
  CtrlH,      \* the sequence "\010"
  Backspace   \* TII_KEY_BACKSPACE

ASSUME KeyTreeAssumption ==
  /\ Strings \subseteq Seq(Edge) \ {<<>>}
  /\ NoKey \notin Strings
  /\ CtrlH \in Strings /\ Backspace \in Nat

VARIABLES
  tables,     \* inputs and customs of terminfo.c: sequences of keys or NoKey
  nodes,      \* the tree without its root: "custom" and "accept" of every node
  todo,       \* the rounds that nrl_dfa_build still has to make
  wanted      \* history: all rounds so far

NoAccept == -1

(* Mutant of Entries: indices counted from 1. *)
EntriesFromOne(table, custom) ==
  [i \in 1..Len(table) |-> [key |-> table[i], accept |-> i, custom |-> custom]]

(* One round of the loop for every index of a table, counted from 0. *)
Entries(table, custom) ==
  [i \in 1..Len(table) |-> [key |-> table[i], accept |-> i - 1, custom |-> custom]]

(* The order of nrl_dfa_build. *)
Insertions(t, xterm) ==
  Entries(t.inputs, FALSE)
    \o (IF xterm THEN <<[key |-> CtrlH, accept |-> Backspace, custom |-> FALSE]>> ELSE <<>>)
    \o Entries(t.customs, TRUE)

EmptyTree == nodes = <<>> /\ todo = <<>> /\ wanted = <<>>

StartBuild(xterm) ==
  /\ todo' = Insertions(tables, xterm)
  /\ wanted' = wanted \o todo'
  /\ UNCHANGED <<tables, nodes>>

Inner(p) == \E q \in DOMAIN nodes : IsStrictPrefix(p, q)

(* The union of children and acceptor is used as both: an acceptor becomes a *)
(* pointer for realloc (0 does no harm, it is NULL), or overwrites one.      *)
Clobbers(key) ==
  \/ Inner(key)
  \/ \E p \in DOMAIN nodes : /\ IsStrictPrefix(p, key) /\ ~Inner(p)
                             /\ nodes[p].accept \notin {NoAccept, 0}

(* Mutant of Grown: the last edge is left out. *)
GrownShort(e) ==
  [p \in DOMAIN nodes \cup (Prefixes(Front(e.key)) \ {<<>>}) |->
     [custom |-> e.custom, accept |-> NoAccept]]

(* Mutant of Grown: a node that is already there keeps its acceptor. *)
GrownFirstWins(e) ==
  [p \in DOMAIN nodes \cup (Prefixes(e.key) \ {<<>>}) |->
     IF p \in DOMAIN nodes THEN nodes[p]
     ELSE [custom |-> e.custom, accept |-> IF p = e.key THEN e.accept ELSE NoAccept]]

(* Mutant of Grown: the flag of a new node is not set. *)
GrownUnmarked(e) ==
  [p \in DOMAIN nodes \cup (Prefixes(e.key) \ {<<>>}) |->
     [custom |-> FALSE, accept |-> IF p = e.key THEN e.accept ELSE NoAccept]]

(* Missing nodes are added with the flag of this key; only the last one      *)
(* takes the acceptor, new or not.                                           *)
Grown(e) ==
  [p \in DOMAIN nodes \cup (Prefixes(e.key) \ {<<>>}) |->
     [custom |-> IF p \in DOMAIN nodes THEN nodes[p].custom ELSE e.custom,
      accept |-> IF p = e.key THEN e.accept
                 ELSE IF p \in DOMAIN nodes THEN nodes[p].accept ELSE NoAccept]]

(* dfa_insert *)
Insert ==
  /\ todo # <<>> /\ Head(todo).key # NoKey
  /\ ~Clobbers(Head(todo).key)
  /\ nodes' = Grown(Head(todo))
  /\ todo' = Tail(todo)
  /\ UNCHANGED <<tables, wanted>>

(* sequence == NULL *)
Skip ==
  /\ todo # <<>> /\ Head(todo).key = NoKey
  /\ todo' = Tail(todo)
  /\ UNCHANGED <<tables, nodes, wanted>>

-----------------------------------------------------------------------------
(* The rounds that insert a key. *)
Inserted == {i \in 1..Len(wanted) : wanted[i].key # NoKey}

Keys == {wanted[i].key : i \in Inserted}

(* The insertion that counts for a key: the last one. *)
Final == {i \in Inserted : \A j \in (i + 1)..Len(wanted) : wanted[j].key # wanted[i].key}

(* What nrl_dfa_parse follows once a build is done, on an empty tree or on   *)
(* the one of an earlier call, is exactly the set of keys: a path of the     *)
(* tree begins a key, a leaf is a key.                                       *)
TreeIsKeys ==
  todo = <<>> => /\ DOMAIN nodes = (UNION {Prefixes(k) : k \in Keys}) \ {<<>>}
                 /\ {p \in DOMAIN nodes : ~Inner(p)} = Keys

(* Every key answers with the capability it stands for, however many the     *)
(* terminal gives the same sequence: the one looked up last.                 *)
LastKeyWins ==
  todo = <<>> => \A i \in Final : nodes[wanted[i].key].accept = wanted[i].accept

(* The result type of a parse (DFA_RES_CUSTOM or DFA_RES_INPUT) is that of   *)
(* the acceptor it comes with: the acceptor's union is read as what it is.   *)
KindMatches ==
  todo = <<>> => \A i \in Final : nodes[wanted[i].key].custom = wanted[i].custom
=============================================================================
