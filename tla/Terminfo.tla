------------------------------ MODULE Terminfo ------------------------------
(***************************************************************************)
(* The terminal database: nrl_load_terminfo, which looks for the           *)
(* terminal's entry once in the life of the process, and what init makes   *)
(* of it at every call of nanorl(): the tree of KeyTree, and whether the   *)
(* terminal is "smart".  The environment may change between two calls.     *)
(*                                                                         *)
(* A compiled entry is its array of strings (NoKey where the offset is     *)
(* negative or the string empty); the rest of the binary format is one     *)
(* flag that says whether parse() accepts it.                              *)
(***************************************************************************)
EXTENDS KeyTree

CONSTANTS
  Dirs,         \* the directories of databases
  Envs,         \* what TERM, TERMINFO, HOME and TERMINFO_DIRS may be set to
  Unset,        \* an environment variable that is not set
  Xterms,       \* the names of terminals that contain "xterm"
  System,       \* sysdb_path
  Disks,        \* what the databases may hold: an entry or NoEntry for a directory
  NoEntry,
  Fast,         \* the stubs of fastload.c
  InputIdx, CustomIdx, OutputIdx, SpecialIdx,   \* input_seq_indices, ...
  Wild,         \* a string found where the array of strings has already ended
  MaxCalls      \* bound of the model

Found == Strings \cup {NoKey}
Entry == [parses : BOOLEAN, strings : Seq(Found)]
Indices == UNION {ToSet(s) : s \in {InputIdx, CustomIdx, OutputIdx, SpecialIdx}}

ASSUME TerminfoAssumption ==
  /\ Unset \notin Xterms \cup Dirs
  /\ \A e \in Envs : {e.terminfo, e.home} \subseteq Dirs \cup {Unset} /\ e.dirs \in Seq(Dirs)
  /\ System \in Seq(Dirs)
  /\ Disks \subseteq [Dirs -> Entry \cup {NoEntry}]
  /\ {InputIdx, CustomIdx, OutputIdx, SpecialIdx} \subseteq Seq(Nat)
  /\ Len(OutputIdx) = 2 /\ Len(SpecialIdx) = 3 /\ Backspace < Len(InputIdx)
  /\ Fast \in Seq(Found) /\ \A index \in Indices : index < Len(Fast)
  /\ Wild \in Found
  /\ MaxCalls \in Nat

VARIABLES
  env,          \* the environment
  disk,         \* the databases
  attempted_load, load_result,
  outputs, specials,
  path,         \* find_entry: the directories still to be tried
  pc, calls

tree  == <<tables, nodes, todo, wanted>>
caps  == <<outputs, specials>>
cache == <<attempted_load, load_result>>
vars  == <<env, disk, cache, caps, path, pc, calls, tree>>

Nothing(indices) == [i \in 1..Len(indices) |-> NoKey]

Init ==
  /\ env \in Envs /\ disk \in Disks
  /\ attempted_load = FALSE /\ load_result = FALSE
  /\ tables = [inputs |-> Nothing(InputIdx), customs |-> Nothing(CustomIdx)]
  /\ outputs = Nothing(OutputIdx) /\ specials = Nothing(SpecialIdx)
  /\ path = <<>>
  /\ pc = "out" /\ calls = 0
  /\ EmptyTree

-----------------------------------------------------------------------------
(* nrl_load_terminfo *)

Known(variable) == IF variable = Unset THEN <<>> ELSE <<variable>>

(* Mutant of SearchPath: the system's databases come before TERMINFO_DIRS. *)
SearchPathSystemFirst(e) ==
  Known(e.terminfo) \o Known(e.home) \o System \o e.dirs

(* The order of find_entry. *)
SearchPath(e) == Known(e.terminfo) \o Known(e.home) \o e.dirs \o System

(* Mutant of Cached: the load is attempted until it succeeds. *)
CachedSuccess == load_result

Cached == attempted_load

(* init: the first call loads, every call builds if that went well. *)
Call ==
  /\ pc = "out" /\ calls < MaxCalls
  /\ calls' = calls + 1
  /\ env' \in Envs
  /\ pc' = IF ~Cached THEN "load" ELSE IF load_result THEN "build" ELSE "edit"
  /\ UNCHANGED <<disk, cache, caps, path, tree>>

LoadFails == load_result' = FALSE /\ pc' = "edit" /\ UNCHANGED <<caps, tree>>

LoadUnset ==
  /\ pc = "load" /\ env.term = Unset
  /\ attempted_load' = TRUE
  /\ LoadFails
  /\ UNCHANGED <<env, disk, path, calls>>

Table(found, indices) == [i \in 1..Len(indices) |-> found[indices[i]]]

(* The four tables, with the string found for each index. *)
Fill(found) ==
  /\ tables' = [inputs |-> Table(found, InputIdx), customs |-> Table(found, CustomIdx)]
  /\ outputs' = Table(found, OutputIdx) /\ specials' = Table(found, SpecialIdx)
  /\ UNCHANGED <<nodes, todo, wanted>>

(* nrl_fl_xterm *)
LoadFast ==
  /\ pc = "load" /\ env.term \in Xterms
  /\ attempted_load' = TRUE /\ load_result' = TRUE
  /\ Fill([index \in Indices |-> Fast[index + 1]])
  /\ pc' = "build"
  /\ UNCHANGED <<env, disk, path, calls>>

LoadSearch ==
  /\ pc = "load" /\ env.term \notin Xterms \cup {Unset}
  /\ attempted_load' = TRUE
  /\ path' = SearchPath(env)
  /\ pc' = "search"
  /\ UNCHANGED <<env, disk, load_result, caps, calls, tree>>

(* try_open on one directory after the other *)
TryNext ==
  /\ pc = "search" /\ path # <<>> /\ disk[Head(path)] = NoEntry
  /\ path' = Tail(path)
  /\ UNCHANGED <<env, disk, cache, caps, pc, calls, tree>>

NotFound ==
  /\ pc = "search" /\ path = <<>>
  /\ LoadFails
  /\ UNCHANGED <<env, disk, attempted_load, path, calls>>

(* parse: bad magic number, or an entry cut short *)
Refused(entry) == ~entry.parses

BadEntry ==
  /\ pc = "search" /\ path # <<>> /\ disk[Head(path)] # NoEntry
  /\ Refused(disk[Head(path)])
  /\ LoadFails
  /\ UNCHANGED <<env, disk, attempted_load, path, calls>>

(* lookup_strings does not ask how long the array is: at every index past    *)
(* its end it finds no string or some string, whatever it finds at others.   *)
Past(strings) == {index \in Indices : index >= Len(strings)}

Lookups(strings) ==
  {[index \in Indices |-> IF index < Len(strings) THEN strings[index + 1] ELSE beyond[index]] :
     beyond \in [Past(strings) -> {NoKey, Wild}]}

LoadEntry ==
  /\ pc = "search" /\ path # <<>> /\ disk[Head(path)] # NoEntry
  /\ LET entry == disk[Head(path)]
     IN  /\ ~Refused(entry)
         /\ \E found \in Lookups(entry.strings) : Fill(found)
  /\ load_result' = TRUE
  /\ pc' = "build"
  /\ UNCHANGED <<env, disk, attempted_load, path, calls>>

-----------------------------------------------------------------------------
(* nrl_dfa_build asks for TERM once more. *)

Build ==
  /\ pc = "build" /\ env.term # Unset
  /\ StartBuild(env.term \in Xterms)
  /\ pc' = "insert"
  /\ UNCHANGED <<env, disk, cache, caps, path, calls>>

InsertKey ==
  /\ pc = "insert"
  /\ Insert \/ Skip
  /\ UNCHANGED <<env, disk, cache, caps, path, pc, calls>>

Built ==
  /\ pc = "insert" /\ todo = <<>>
  /\ pc' = "edit"
  /\ UNCHANGED <<env, disk, cache, caps, path, calls, tree>>

(* strstr(NULL, "xterm"), or a node used as what it is not. *)
Crash ==
  /\ \/ pc = "build" /\ env.term = Unset
     \/ pc = "insert" /\ todo # <<>> /\ Head(todo).key # NoKey /\ Clobbers(Head(todo).key)
  /\ pc' = "crashed"
  /\ UNCHANGED <<env, disk, cache, caps, path, calls, tree>>

(* The rest of nanorl() *)
Return ==
  /\ pc = "edit"
  /\ pc' = "out"
  /\ UNCHANGED <<env, disk, cache, caps, path, calls, tree>>

Next ==
  \/ Call
  \/ LoadUnset
  \/ LoadFast
  \/ LoadSearch
  \/ TryNext
  \/ NotFound
  \/ BadEntry
  \/ LoadEntry
  \/ Build
  \/ InsertKey
  \/ Built
  \/ Crash
  \/ Return

Spec == Init /\ [][Next]_vars

-----------------------------------------------------------------------------
(* The condition under which a node's flag and its acceptor belong together: *)
(* no string is in both tables of keys, the one that is patched in included. *)
Apart(found) ==
  \A j \in ToSet(CustomIdx) :
    found[j] # NoKey => /\ found[j] # CtrlH
                        /\ \A i \in ToSet(InputIdx) : found[i] # found[j]

TablesApart ==
  /\ Apart([index \in Indices |-> Fast[index + 1]])
  /\ \A d \in Disks, dir \in Dirs :
       d[dir] # NoEntry /\ ~Refused(d[dir]) =>
         \A found \in Lookups(d[dir].strings) : Apart(found)

(* nrl_term_is_smart: it takes the indices of keys for those of outputs,     *)
(* TII_KEY_LEFT = TIS_CURSOR_ADDRESS = 0 and TII_KEY_RIGHT = 1.              *)
Smart == outputs[1] # NoKey /\ outputs[2] # NoKey

(* The tables, the tree and the caller's place; an acceptor is an index into *)
(* a table of keys, into the one its flag selects only if KindMatches holds. *)
TypeOK ==
  /\ attempted_load \in BOOLEAN /\ load_result \in BOOLEAN
  /\ pc \in {"out", "load", "search", "build", "insert", "edit", "crashed"}
  /\ \A p \in DOMAIN nodes :
       /\ p # <<>>
       /\ \E table \in {tables.inputs, tables.customs} :
            nodes[p].accept \in NoAccept..(Len(table) - 1)

(* The documented order of the databases (man 5 terminfo), as ranks. *)
Rank(dir) ==
  IF dir = env.terminfo THEN 1
  ELSE IF dir = env.home THEN 2
  ELSE IF dir \in ToSet(env.dirs) THEN 2 + SelectInSeq(env.dirs, LAMBDA d : d = dir)
  ELSE 2 + Len(env.dirs) + SelectInSeq(System, LAMBDA d : d = dir)

Places == {dir \in {env.terminfo, env.home} \cup ToSet(env.dirs) \cup ToSet(System) :
             dir # Unset /\ disk[dir] # NoEntry}

(* The first call takes every capability from the first entry in that order, *)
(* and from no other, also when that one is unusable: then from none.        *)
(* Strings past the end of the entry's array are whatever lies there.        *)
FirstEntryWins ==
  (calls = 1 /\ pc \in {"build", "insert", "edit"} /\ env.term \notin Xterms) =>
    LET usable == {dir \in Places : /\ disk[dir].parses
                                    /\ \A other \in Places : Rank(dir) <= Rank(other)}
        table(found, indices) ==
          \A i \in 1..Len(indices) :
            IF env.term = Unset \/ usable = {} THEN found[i] = NoKey
            ELSE \A dir \in usable :
                   indices[i] < Len(disk[dir].strings) =>
                     found[i] = disk[dir].strings[indices[i] + 1]
    IN  /\ table(tables.inputs, InputIdx) /\ table(tables.customs, CustomIdx)
        /\ table(outputs, OutputIdx) /\ table(specials, SpecialIdx)

(* What the tree stands for stays what the tables say: they are filled by    *)
(* the first call or never, whatever TERM names at a later one.              *)
CapsKept == [][calls > 1 => UNCHANGED <<tables, caps>>]_vars

(* A terminal that passes for smart has "Enough capabilities enabled for     *)
(* cursor movement": addressing, and the query and report of its position.   *)
(* Not so in the code, which tests two strings of the keypad.                *)
SmartCanMove == Smart => \A i \in 1..Len(SpecialIdx) : specials[i] # NoKey
=============================================================================
