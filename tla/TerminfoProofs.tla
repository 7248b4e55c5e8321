--------------------------- MODULE TerminfoProofs ---------------------------
(***************************************************************************)
(* What holds of Terminfo for every environment, every database and any    *)
(* number of calls.                                                        *)
(***************************************************************************)
EXTENDS Terminfo, SequenceTheorems, WellFoundedInduction, TLAPS

(* The database is searched by the first call alone: a later one finds the   *)
(* attempt noted, whether it went well or not.                               *)
SearchInv ==
  /\ calls \in Nat
  /\ pc \in {"out", "load", "search", "build", "insert", "edit", "crashed"}
  /\ pc \in {"load", "search"} => calls = 1
  /\ calls > 0 /\ pc # "load" => attempted_load
  /\ calls = 0 => pc = "out"

-----------------------------------------------------------------------------
LEMMA SearchInit == Init => SearchInv
BY DEF Init, SearchInv

LEMMA SearchNext == SearchInv /\ [Next]_vars => SearchInv'
<1> SUFFICES ASSUME SearchInv, [Next]_vars PROVE SearchInv'
  OBVIOUS
<1>1. CASE Call
  BY <1>1 DEF Call, Cached, cache, SearchInv
<1>2. CASE LoadUnset
  BY <1>2 DEF LoadUnset, LoadFails, SearchInv
<1>3. CASE LoadFast
  BY <1>3 DEF LoadFast, SearchInv
<1>4. CASE LoadSearch
  BY <1>4 DEF LoadSearch, SearchInv
<1>5. CASE TryNext
  BY <1>5 DEF TryNext, cache, SearchInv
<1>6. CASE NotFound
  BY <1>6 DEF NotFound, LoadFails, SearchInv
<1>7. CASE BadEntry
  BY <1>7 DEF BadEntry, LoadFails, SearchInv
<1>8. CASE LoadEntry
  BY <1>8 DEF LoadEntry, SearchInv
<1>9. CASE Build \/ InsertKey \/ Built
  BY <1>9 DEF Build, InsertKey, Built, cache, SearchInv
<1>10. CASE Crash \/ Return
  BY <1>10 DEF Crash, Return, cache, SearchInv
<1>11. CASE UNCHANGED vars
  BY <1>11 DEF vars, cache, SearchInv
<1> QED BY <1>1, <1>2, <1>3, <1>4, <1>5, <1>6, <1>7, <1>8, <1>9, <1>10, <1>11 DEF Next

-----------------------------------------------------------------------------
(* Building the tree leaves the tables as they are. *)
LEMMA BuildKeepsTables ==
  ASSUME Build \/ InsertKey
  PROVE  UNCHANGED <<tables, caps>>
BY DEF Build, InsertKey, StartBuild, Insert, Skip, caps

LEMMA TablesKept ==
  ASSUME SearchInv, [Next]_vars, calls > 1
  PROVE  UNCHANGED <<tables, caps>>
<1>1. pc \notin {"load", "search"}
  BY DEF SearchInv
<1>2. ~(LoadUnset \/ LoadFast \/ LoadSearch \/ TryNext \/ NotFound \/ BadEntry \/ LoadEntry)
  BY <1>1 DEF LoadUnset, LoadFast, LoadSearch, TryNext, NotFound, BadEntry, LoadEntry
<1>3. CASE Call \/ Built \/ Crash \/ Return
  BY <1>3 DEF Call, Built, Crash, Return, tree
<1>4. CASE UNCHANGED vars
  BY <1>4 DEF vars, tree
<1> QED BY <1>2, <1>3, <1>4, BuildKeepsTables DEF Next

(* The capabilities are those the first call found, for the life of the      *)
(* process: no later call reads a database, whatever TERM says by then and   *)
(* whatever the databases hold.                                              *)
THEOREM CapabilitiesKept == Spec => CapsKept
<1>1. SearchInv /\ [Next]_vars => [calls > 1 => UNCHANGED <<tables, caps>>]_vars
  BY TablesKept
<1> QED BY <1>1, SearchInit, SearchNext, PTL DEF Spec, CapsKept

-----------------------------------------------------------------------------
(* The tree, whatever the terminals' strings are.  The rounds already made   *)
(* are those before the ones to do.                                          *)

Round == [key : Found, accept : Nat, custom : BOOLEAN]

Done  == Len(wanted) - Len(todo)
Ready == {i \in 1..Done : wanted[i].key # NoKey}

Typed ==
  /\ tables.inputs \in Seq(Found) /\ tables.customs \in Seq(Found)
  /\ wanted \in Seq(Round) /\ todo \in Seq(Round)
  /\ disk \in [Dirs -> Entry \cup {NoEntry}]
  /\ env \in Envs /\ path \in Seq(Dirs)
  /\ pc \notin {"insert", "crashed"} => todo = <<>>

(* What is still to do ends what was asked for. *)
RoundsInv ==
  /\ Done >= 0
  /\ \A i \in 1..Len(todo) : todo[i] = wanted[Done + i]

(* TreeIsKeys and LastKeyWins say what holds once a build is done.  At every *)
(* round of it the tree is what the rounds so far make it.                   *)
GrownInv ==
  /\ DOMAIN nodes = (UNION {Prefixes(wanted[i].key) : i \in Ready}) \ {<<>>}
  /\ \A i \in Ready :
       (\A j \in (i + 1)..Done : wanted[j].key # wanted[i].key) =>
         nodes[wanted[i].key].accept = wanted[i].accept

TreeInv == Typed /\ RoundsInv /\ GrownInv

-----------------------------------------------------------------------------
LEMMA StringType ==
  ASSUME NEW k \in Found, k # NoKey
  PROVE  k \in Seq(Edge) /\ k # <<>>
BY KeyTreeAssumption DEF Found

(* A key is a path of its own, and the other ones are shorter. *)
LEMMA KeyIsPath ==
  ASSUME NEW k \in Seq(Edge)
  PROVE  k \in Prefixes(k)
<1>1. SubSeq(k, 1, Len(k)) = k /\ Len(k) \in 0..Len(k)
  BY SubSeqFull, LenProperties
<1> QED BY <1>1 DEF Prefixes

LEMMA NothingType ==
  ASSUME NEW indices \in Seq(Nat)
  PROVE  Nothing(indices) \in Seq(Found)
<1>1. Len(indices) \in Nat /\ \A i \in 1..Len(indices) : NoKey \in Found
  BY LenProperties DEF Found
<1> QED BY <1>1, IsASeq DEF Nothing

LEMMA TableType ==
  ASSUME NEW found \in [Indices -> Found],
         NEW indices \in {InputIdx, CustomIdx, OutputIdx, SpecialIdx}
  PROVE  Table(found, indices) \in Seq(Found)
<1>1. indices \in Seq(Nat)
  BY TerminfoAssumption
<1>2. Len(indices) \in Nat /\ DOMAIN indices = 1..Len(indices)
  BY <1>1, LenProperties
<1>3. \A i \in 1..Len(indices) : indices[i] \in ToSet(indices)
  BY <1>2 DEF ToSet
<1>4. \A i \in 1..Len(indices) : indices[i] \in Indices
  BY <1>3 DEF Indices
<1> QED BY <1>2, <1>4, IsASeq DEF Table

LEMMA FillType ==
  ASSUME NEW found \in [Indices -> Found], Fill(found)
  PROVE  tables'.inputs \in Seq(Found) /\ tables'.customs \in Seq(Found)
BY TableType DEF Fill

LEMMA EntriesType ==
  ASSUME NEW table \in Seq(Found), NEW custom \in BOOLEAN
  PROVE  Entries(table, custom) \in Seq(Round)
<1>1. Len(table) \in Nat /\ \A i \in 1..Len(table) : table[i] \in Found
  BY LenProperties, ElementOfSeq
<1>2. \A i \in 1..Len(table) : i - 1 \in Nat
  OBVIOUS
<1>3. \A i \in 1..Len(table) :
        [key |-> table[i], accept |-> i - 1, custom |-> custom] \in Round
  BY <1>1, <1>2 DEF Round
<1> QED BY <1>1, <1>3, IsASeq DEF Entries

LEMMA InsertionsType ==
  ASSUME NEW xterm \in BOOLEAN,
         tables.inputs \in Seq(Found), tables.customs \in Seq(Found)
  PROVE  Insertions(tables, xterm) \in Seq(Round)
<1> DEFINE patch == IF xterm THEN <<[key |-> CtrlH, accept |-> Backspace, custom |-> FALSE]>>
                    ELSE <<>>
<1>1. patch \in Seq(Round)
  <2>1. [key |-> CtrlH, accept |-> Backspace, custom |-> FALSE] \in Round
    BY KeyTreeAssumption DEF Round, Found
  <2> QED BY <2>1
<1>2. Entries(tables.inputs, FALSE) \in Seq(Round) /\ Entries(tables.customs, TRUE) \in Seq(Round)
  BY EntriesType
<1> HIDE DEF patch
<1>3. Entries(tables.inputs, FALSE) \o patch \in Seq(Round)
  BY <1>1, <1>2, ConcatProperties
<1>4. Entries(tables.inputs, FALSE) \o patch \o Entries(tables.customs, TRUE) \in Seq(Round)
  BY <1>2, <1>3, ConcatProperties
<1> QED BY <1>4 DEF patch, Insertions

-----------------------------------------------------------------------------
LEMMA TreeInit == Init => TreeInv
<1> SUFFICES ASSUME Init PROVE TreeInv
  OBVIOUS
<1>1. Nothing(InputIdx) \in Seq(Found) /\ Nothing(CustomIdx) \in Seq(Found)
  BY NothingType, TerminfoAssumption
<1>2. Typed
  <2>1. disk \in [Dirs -> Entry \cup {NoEntry}]
    BY TerminfoAssumption DEF Init
  <2> QED BY <1>1, <2>1 DEF Init, EmptyTree, Typed
<1>3. Done = 0 /\ todo = <<>> /\ wanted = <<>> /\ nodes = <<>>
  BY DEF Init, EmptyTree, Done
<1>4. Ready = {}
  BY <1>3 DEF Ready
<1>5. DOMAIN nodes = {}
  BY <1>3
<1> QED BY <1>2, <1>3, <1>4, <1>5 DEF TreeInv, RoundsInv, GrownInv

(* What does not touch the tree keeps it. *)
LEMMA TreeUntouched ==
  ASSUME RoundsInv, GrownInv, UNCHANGED <<nodes, todo, wanted>>
  PROVE  RoundsInv' /\ GrownInv'
<1>1. Done' = Done /\ Ready' = Ready
  BY DEF Done, Ready
<1> QED BY <1>1 DEF RoundsInv, GrownInv

(* The rounds that are asked for come after all the others. *)
LEMMA StartBuildGrows ==
  ASSUME Typed, RoundsInv, GrownInv, todo = <<>>, NEW xterm \in BOOLEAN, StartBuild(xterm)
  PROVE  /\ todo' \in Seq(Round) /\ wanted' \in Seq(Round)
         /\ RoundsInv' /\ GrownInv'
<1> DEFINE more == Insertions(tables, xterm)
<1>1. more \in Seq(Round) /\ wanted \in Seq(Round)
  BY InsertionsType DEF Typed
<1>2. todo' = more /\ wanted' = wanted \o more /\ nodes' = nodes
  BY DEF StartBuild
<1> HIDE DEF more
<1>3. /\ wanted' \in Seq(Round)
      /\ Len(wanted') = Len(wanted) + Len(more)
      /\ \A i \in 1..Len(wanted) + Len(more) :
           wanted'[i] = IF i <= Len(wanted) THEN wanted[i] ELSE more[i - Len(wanted)]
  BY <1>1, <1>2, ConcatProperties
<1>4. Len(wanted) \in Nat /\ Len(more) \in Nat
  BY <1>1, LenProperties
<1>5. Done = Len(wanted) /\ Done' = Len(wanted)
  BY <1>2, <1>3, <1>4 DEF Done
<1>6. \A i \in 1..Done : wanted'[i] = wanted[i]
  BY <1>3, <1>4, <1>5
<1>7. RoundsInv'
  <2>1. \A i \in 1..Len(more) : wanted'[Done + i] = more[i]
    BY <1>3, <1>4, <1>5
  <2> QED BY <1>2, <1>4, <1>5, <2>1 DEF RoundsInv
<1>8. Ready' = Ready
  BY <1>5, <1>6 DEF Ready
<1>9. \A i \in Ready : wanted'[i].key = wanted[i].key /\ wanted'[i].accept = wanted[i].accept
  BY <1>6 DEF Ready
<1>10. GrownInv'
  <2>1. DOMAIN nodes' = (UNION {Prefixes(wanted'[i].key) : i \in Ready'}) \ {<<>>}
    <3>1. {Prefixes(wanted'[i].key) : i \in Ready'} = {Prefixes(wanted[i].key) : i \in Ready}
      BY <1>8, <1>9
    <3> QED BY <1>2, <3>1 DEF GrownInv
  <2>2. ASSUME NEW i \in Ready', \A j \in (i + 1)..Done' : wanted'[j].key # wanted'[i].key
        PROVE  nodes'[wanted'[i].key].accept = wanted'[i].accept
    <3>1. i \in Ready /\ i \in 1..Done
      BY <1>8 DEF Ready
    <3>2. \A j \in (i + 1)..Done : wanted[j].key # wanted[i].key
      BY <1>4, <1>5, <1>6, <2>2, <3>1
    <3> QED BY <1>2, <1>9, <3>1, <3>2 DEF GrownInv
  <2> QED BY <2>1, <2>2 DEF GrownInv
<1> QED BY <1>1, <1>2, <1>3, <1>7, <1>10

(* One round takes the next of those asked for. *)
LEMMA NextRound ==
  ASSUME Typed, RoundsInv, todo # <<>>, todo' = Tail(todo), wanted' = wanted
  PROVE  /\ todo' \in Seq(Round) /\ Head(todo) \in Round
         /\ Done \in Nat /\ Done' = Done + 1 /\ Done + 1 <= Len(wanted)
         /\ Head(todo) = wanted[Done + 1]
         /\ RoundsInv'
<1>1. todo \in Seq(Round) /\ wanted \in Seq(Round)
  BY DEF Typed
<1>2. Len(todo) \in Nat /\ Len(wanted) \in Nat
  BY <1>1, LenProperties
<1>3. /\ Head(todo) \in Round /\ Tail(todo) \in Seq(Round)
      /\ Len(Tail(todo)) = Len(todo) - 1
      /\ \A i \in 1..Len(Tail(todo)) : Tail(todo)[i] = todo[i + 1]
  BY <1>1, HeadTailProperties
<1>4. Len(todo) > 0 /\ Head(todo) = todo[1]
  BY <1>1, <1>2, EmptySeq
<1>5. Done \in Nat /\ Done' = Done + 1 /\ Done + 1 <= Len(wanted)
  BY <1>2, <1>3, <1>4 DEF Done, RoundsInv
<1>6. \A i \in 1..Len(todo') : todo'[i] = wanted[Done + 1 + i]
  <2>1. ASSUME NEW i \in 1..Len(todo') PROVE todo'[i] = wanted[Done + 1 + i]
    <3>1. i + 1 \in 1..Len(todo) /\ todo'[i] = todo[i + 1]
      BY <1>2, <1>3
    <3>2. todo[i + 1] = wanted[Done + (i + 1)]
      BY <3>1 DEF RoundsInv
    <3>3. Done + (i + 1) = Done + 1 + i
      BY <1>5
    <3> QED BY <3>1, <3>2, <3>3
  <2> QED BY <2>1
<1>7. RoundsInv'
  <2>1. Done' >= 0
    BY <1>5
  <2>2. \A i \in 1..Len(todo') : todo'[i] = wanted'[Done' + i]
    BY <1>5, <1>6
  <2> QED BY <2>1, <2>2 DEF RoundsInv
<1>8. Head(todo) = wanted[Done + 1]
  BY <1>2, <1>4, <1>5 DEF RoundsInv
<1> QED BY <1>3, <1>5, <1>7, <1>8

LEMMA SkipGrows ==
  ASSUME Typed, RoundsInv, GrownInv, Skip
  PROVE  GrownInv'
<1>1. /\ Done \in Nat /\ Done' = Done + 1
      /\ wanted[Done + 1].key = NoKey
  BY NextRound DEF Skip
<1>2. nodes' = nodes /\ wanted' = wanted
  BY DEF Skip
<1>3. Ready' = Ready
  BY <1>1, <1>2 DEF Ready
<1>4. DOMAIN nodes' = (UNION {Prefixes(wanted'[i].key) : i \in Ready'}) \ {<<>>}
  BY <1>2, <1>3 DEF GrownInv
<1>5. ASSUME NEW i \in Ready', \A j \in (i + 1)..Done' : wanted'[j].key # wanted'[i].key
      PROVE  nodes'[wanted'[i].key].accept = wanted'[i].accept
  <2>1. \A j \in (i + 1)..Done : wanted[j].key # wanted[i].key
    BY <1>1, <1>2, <1>3, <1>5 DEF Ready
  <2> QED BY <1>2, <1>3, <2>1 DEF GrownInv
<1> QED BY <1>4, <1>5 DEF GrownInv

(* The paths of one more key are added, and its acceptor replaces the one of *)
(* an equal key.                                                             *)
LEMMA InsertGrows ==
  ASSUME Typed, RoundsInv, GrownInv, Insert
  PROVE  GrownInv'
<1> DEFINE e == Head(todo)
<1>1. /\ Done \in Nat /\ Done' = Done + 1
      /\ e = wanted[Done + 1] /\ e.key \in Found
  BY NextRound DEF Insert, Round
<1>2. e.key # NoKey /\ wanted' = wanted /\ nodes' = Grown(e)
  BY DEF Insert
<1> HIDE DEF e
<1>3. e.key \in Seq(Edge) /\ e.key # <<>>
  BY <1>1, <1>2, StringType
<1>4. Ready' = Ready \cup {Done + 1}
  BY <1>1, <1>2 DEF Ready
<1>5. /\ DOMAIN nodes' = DOMAIN nodes \cup (Prefixes(e.key) \ {<<>>})
      /\ \A p \in DOMAIN nodes' :
           nodes'[p].accept = IF p = e.key THEN e.accept
                              ELSE IF p \in DOMAIN nodes THEN nodes[p].accept ELSE NoAccept
  BY <1>2 DEF Grown
<1>6. DOMAIN nodes' = (UNION {Prefixes(wanted'[i].key) : i \in Ready'}) \ {<<>>}
  <2>1. {Prefixes(wanted'[i].key) : i \in Ready'}
          = {Prefixes(wanted[i].key) : i \in Ready} \cup {Prefixes(e.key)}
    BY <1>1, <1>2, <1>4
  <2>2. DOMAIN nodes = (UNION {Prefixes(wanted[i].key) : i \in Ready}) \ {<<>>}
    BY DEF GrownInv
  <2>3. ASSUME NEW A, NEW P
        PROVE  (UNION (A \cup {P})) \ {<<>>} = ((UNION A) \ {<<>>}) \cup (P \ {<<>>})
    OBVIOUS
  <2>4. (UNION {Prefixes(wanted'[i].key) : i \in Ready'}) \ {<<>>}
          = ((UNION {Prefixes(wanted[i].key) : i \in Ready}) \ {<<>>}) \cup (Prefixes(e.key) \ {<<>>})
    BY <2>1, <2>3
  <2> QED BY <1>5, <2>2, <2>4
<1>7. ASSUME NEW i \in Ready', \A j \in (i + 1)..Done' : wanted'[j].key # wanted'[i].key
      PROVE  nodes'[wanted'[i].key].accept = wanted'[i].accept
  <2>1. CASE i = Done + 1
    <3>1. e.key \in DOMAIN nodes'
      BY <1>3, <1>5, KeyIsPath
    <3> QED BY <1>1, <1>2, <1>5, <2>1, <3>1
  <2>2. CASE i \in Ready
    <3>1. i \in 1..Done /\ wanted[i].key # NoKey
      BY <2>2 DEF Ready
    <3>2. \A j \in (i + 1)..Done' : wanted[j].key # wanted[i].key
      BY <1>2, <1>7
    <3>3. wanted[i].key # e.key /\ \A j \in (i + 1)..Done : wanted[j].key # wanted[i].key
      BY <1>1, <3>1, <3>2
    <3>4. wanted[i].key \in Seq(Edge) /\ wanted[i].key # <<>>
      <4>1. wanted \in Seq(Round) /\ Done <= Len(wanted)
        BY <1>1, NextRound DEF Typed, Insert
      <4>2. wanted[i].key \in Found
        <5>1. Len(wanted) \in Nat /\ i \in 1..Len(wanted)
          BY <1>1, <3>1, <4>1, LenProperties
        <5>2. wanted[i] \in Round
          BY <4>1, <5>1, ElementOfSeq
        <5> QED BY <5>2 DEF Round
      <4> QED BY <3>1, <4>2, StringType
    <3>5. wanted[i].key \in DOMAIN nodes
      <4>1. wanted[i].key \in Prefixes(wanted[i].key)
        BY <3>4, KeyIsPath
      <4> QED BY <2>2, <3>4, <4>1 DEF GrownInv
    <3> QED BY <1>2, <1>5, <2>2, <3>3, <3>5 DEF GrownInv
  <2> QED BY <1>4, <2>1, <2>2
<1> QED BY <1>6, <1>7 DEF GrownInv

-----------------------------------------------------------------------------
LEMMA PathType ==
  ASSUME NEW e \in Envs
  PROVE  SearchPath(e) \in Seq(Dirs)
<1>1. Known(e.terminfo) \in Seq(Dirs) /\ Known(e.home) \in Seq(Dirs)
  BY TerminfoAssumption DEF Known
<1>2. e.dirs \in Seq(Dirs) /\ System \in Seq(Dirs)
  BY TerminfoAssumption
<1>3. Known(e.terminfo) \o Known(e.home) \in Seq(Dirs)
  BY <1>1, ConcatProperties
<1>4. Known(e.terminfo) \o Known(e.home) \o e.dirs \in Seq(Dirs)
  BY <1>2, <1>3, ConcatProperties
<1> QED BY <1>2, <1>4, ConcatProperties DEF SearchPath

LEMMA IndicesType == Indices \subseteq Nat
<1>1. \A s \in Seq(Nat) : ToSet(s) \subseteq Nat
  BY LenProperties, ElementOfSeq DEF ToSet
<1> QED BY <1>1, TerminfoAssumption DEF Indices

LEMMA FastFound == [index \in Indices |-> Fast[index + 1]] \in [Indices -> Found]
<1>1. \A index \in Indices : index \in Nat /\ index < Len(Fast)
  BY IndicesType, TerminfoAssumption
<1>2. Fast \in Seq(Found) /\ Len(Fast) \in Nat
  BY TerminfoAssumption, LenProperties
<1>3. \A index \in Indices : Fast[index + 1] \in Found
  BY <1>1, <1>2, ElementOfSeq
<1> QED BY <1>3

(* Whatever lies past an array of strings, what is looked up are strings,    *)
(* and those of the array where it has not ended.                            *)
LEMMA LookupsType ==
  ASSUME NEW strings \in Seq(Found), NEW found \in Lookups(strings)
  PROVE  /\ found \in [Indices -> Found]
         /\ \A index \in Indices : index < Len(strings) => found[index] = strings[index + 1]
<1>1. PICK beyond \in [Past(strings) -> {NoKey, Wild}] :
        found = [index \in Indices |-> IF index < Len(strings) THEN strings[index + 1]
                                       ELSE beyond[index]]
  BY DEF Lookups
<1>2. ASSUME NEW index \in Indices PROVE found[index] \in Found
  <2>1. index \in Nat /\ Len(strings) \in Nat
    BY IndicesType, LenProperties
  <2>2. CASE index < Len(strings)
    <3>1. index + 1 \in 1..Len(strings)
      BY <2>1, <2>2
    <3> QED BY <1>1, <2>2, <3>1, ElementOfSeq
  <2>3. CASE ~(index < Len(strings))
    <3>1. index \in Past(strings)
      BY <2>1, <2>3 DEF Past
    <3>2. beyond[index] \in {NoKey, Wild}
      BY <3>1
    <3>3. beyond[index] \in Found
      BY <3>2, TerminfoAssumption DEF Found
    <3> QED BY <1>1, <2>3, <3>3
  <2> QED BY <2>2, <2>3
<1> QED BY <1>1, <1>2

LEMMA FastType ==
  ASSUME LoadFast
  PROVE  tables'.inputs \in Seq(Found) /\ tables'.customs \in Seq(Found)
BY FastFound, FillType DEF LoadFast

LEMMA EntryType ==
  ASSUME Typed, LoadEntry
  PROVE  tables'.inputs \in Seq(Found) /\ tables'.customs \in Seq(Found)
<1> DEFINE entry == disk[Head(path)]
<1>1. Head(path) \in Dirs
  BY HeadTailProperties DEF LoadEntry, Typed
<1>2. entry \in Entry
  BY <1>1 DEF LoadEntry, Typed
<1>3. entry.strings \in Seq(Found)
  BY <1>2 DEF Entry
<1>4. PICK found \in Lookups(entry.strings) : Fill(found)
  BY DEF LoadEntry
<1>5. found \in [Indices -> Found]
  BY <1>3, LookupsType
<1> QED BY <1>4, <1>5, FillType

LEMMA TreeNext == TreeInv /\ [Next]_vars => TreeInv'
<1> SUFFICES ASSUME TreeInv, [Next]_vars PROVE TreeInv'
  OBVIOUS
<1> USE DEF TreeInv
<1>1. CASE Call
  <2>1. Typed'
    BY <1>1 DEF Call, tree, Typed
  <2> QED BY <1>1, <2>1, TreeUntouched DEF Call, tree
<1>2. CASE LoadUnset \/ NotFound \/ BadEntry
  <2>1. Typed'
    BY <1>2 DEF LoadUnset, NotFound, BadEntry, LoadFails, tree, Typed
  <2> QED BY <1>2, <2>1, TreeUntouched DEF LoadUnset, NotFound, BadEntry, LoadFails, tree
<1>3. CASE LoadFast
  <2>1. Typed'
    BY <1>3, FastType DEF LoadFast, Fill, Typed
  <2> QED BY <1>3, <2>1, TreeUntouched DEF LoadFast, Fill
<1>4. CASE LoadSearch
  <2>1. Typed'
    BY <1>4, PathType DEF LoadSearch, tree, Typed
  <2> QED BY <1>4, <2>1, TreeUntouched DEF LoadSearch, tree
<1>5. CASE TryNext
  <2>1. Typed'
    BY <1>5, HeadTailProperties DEF TryNext, tree, Typed
  <2> QED BY <1>5, <2>1, TreeUntouched DEF TryNext, tree
<1>6. CASE LoadEntry
  <2>1. Typed'
    BY <1>6, EntryType DEF LoadEntry, Fill, Typed
  <2> QED BY <1>6, <2>1, TreeUntouched DEF LoadEntry, Fill
<1>7. CASE Build
  <2>1. todo = <<>> /\ (env.term \in Xterms) \in BOOLEAN /\ StartBuild(env.term \in Xterms)
    BY <1>7 DEF Build, Typed
  <2>2. todo' \in Seq(Round) /\ wanted' \in Seq(Round) /\ RoundsInv' /\ GrownInv'
    BY <2>1, StartBuildGrows
  <2>3. Typed'
    BY <1>7, <2>1, <2>2 DEF Build, StartBuild, Typed
  <2> QED BY <2>2, <2>3
<1>8. CASE InsertKey /\ Insert
  <2>1. todo' \in Seq(Round) /\ RoundsInv'
    BY <1>8, NextRound DEF Insert
  <2>2. Typed'
    BY <1>8, <2>1 DEF InsertKey, Insert, Typed
  <2> QED BY <1>8, <2>1, <2>2, InsertGrows
<1>9. CASE InsertKey /\ Skip
  <2>1. todo' \in Seq(Round) /\ RoundsInv'
    BY <1>9, NextRound DEF Skip
  <2>2. Typed'
    BY <1>9, <2>1 DEF InsertKey, Skip, Typed
  <2> QED BY <1>9, <2>1, <2>2, SkipGrows
<1>10. CASE Built \/ Crash \/ Return
  <2>1. Typed'
    BY <1>10 DEF Built, Crash, Return, tree, Typed
  <2> QED BY <1>10, <2>1, TreeUntouched DEF Built, Crash, Return, tree
<1>11. CASE UNCHANGED vars
  <2>1. Typed'
    BY <1>11 DEF vars, tree, Typed
  <2> QED BY <1>11, <2>1, TreeUntouched DEF vars, tree
<1> QED BY <1>1, <1>2, <1>3, <1>4, <1>5, <1>6, <1>7, <1>8, <1>9, <1>10, <1>11 DEF Next, InsertKey

-----------------------------------------------------------------------------
(* Once a build is done every round is ready that has a key. *)
LEMMA BuildDone ==
  ASSUME TreeInv, todo = <<>>
  PROVE  Done = Len(wanted) /\ Ready = Inserted
<1>1. Len(wanted) \in Nat
  BY LenProperties DEF TreeInv, Typed
<1>2. Done = Len(wanted)
  BY <1>1 DEF Done
<1> QED BY <1>2 DEF Ready, Inserted

(* However many capabilities share a sequence, within a table, across the    *)
(* two or with the backspace that is patched in, and however many calls have *)
(* built on the same tree: the one looked up last answers.                   *)
THEOREM LastKeyAnswers == Spec => []LastKeyWins
<1>1. TreeInv => LastKeyWins
  <2> SUFFICES ASSUME TreeInv, todo = <<>>, NEW i \in Final
               PROVE  nodes[wanted[i].key].accept = wanted[i].accept
    BY DEF LastKeyWins
  <2> QED BY BuildDone DEF Final, TreeInv, GrownInv
<1> QED BY <1>1, TreeInit, TreeNext, PTL DEF Spec

-----------------------------------------------------------------------------
(* No sequence of the terminals begins another, as with xterm. *)
PrefixFree == \A k \in Strings, l \in Strings : ~IsStrictPrefix(k, l)

LEMMA BeginningType ==
  ASSUME NEW k \in Seq(Edge), NEW p \in Prefixes(k)
  PROVE  p \in Seq(Edge) /\ IsPrefix(p, k)
<1>1. PICK n \in 0..Len(k) : p = SubSeq(k, 1, n)
  BY DEF Prefixes
<1>2. Len(k) \in Nat /\ \A i \in 1..Len(k) : k[i] \in Edge
  BY LenProperties, ElementOfSeq
<1>3. n \in Int /\ 1 \in Int /\ \A i \in 1..n : k[i] \in Edge
  BY <1>2
<1>4. p \in Seq(Edge) /\ Len(p) = n
  BY <1>1, <1>2, <1>3, SubSeqProperties
<1>5. SubSeq(p, 1, Len(p)) = p
  BY <1>4, SubSeqFull
<1> QED BY <1>1, <1>2, <1>4, <1>5 DEF IsPrefix

(* A beginning of a beginning is one. *)
LEMMA PrefixOfPrefix ==
  ASSUME NEW k \in Seq(Edge), NEW q \in Seq(Edge), NEW l \in Seq(Edge),
         IsStrictPrefix(k, q), IsPrefix(q, l)
  PROVE  IsStrictPrefix(k, l)
<1>1. /\ Len(k) \in Nat /\ Len(q) \in Nat /\ Len(l) \in Nat
      /\ Len(k) <= Len(q) /\ Len(q) <= Len(l)
  BY LenProperties DEF IsStrictPrefix, IsPrefix
<1>2. /\ SubSeq(k, 1, Len(k)) = k /\ SubSeq(q, 1, Len(q)) = q
      /\ k = SubSeq(q, 1, Len(k)) /\ q = SubSeq(l, 1, Len(q))
  BY SubSeqFull DEF IsStrictPrefix, IsPrefix
<1>3. \A i \in 1..Len(k) : q[i] = l[i]
  <2>1. \A i \in 1..Len(q) : l[i] \in Edge
    BY <1>1, ElementOfSeq
  <2>2. \A i \in 1..Len(q) : SubSeq(l, 1, Len(q))[i] = l[1 + i - 1]
    BY <1>1, <2>1, SubSeqProperties
  <2> QED BY <1>1, <1>2, <2>2
<1>4. \A i \in 1..Len(k) : q[i] \in Edge /\ l[i] \in Edge
  BY <1>1, ElementOfSeq
<1>5. SubSeq(q, 1, Len(k)) = SubSeq(l, 1, Len(k))
  BY <1>1, <1>3, <1>4
<1>6. IsPrefix(k, l)
  BY <1>1, <1>2, <1>5 DEF IsPrefix
<1>7. k # l
  <2> SUFFICES ASSUME k = l PROVE FALSE
    OBVIOUS
  <2>1. Len(k) = Len(q)
    BY <1>1
  <2>2. k = q
    BY <1>2, <2>1
  <2> QED BY <2>2 DEF IsStrictPrefix
<1> QED BY <1>6, <1>7 DEF IsStrictPrefix

LEMMA KeyType ==
  ASSUME TreeInv, NEW k \in Keys
  PROVE  k \in Strings /\ k \in Seq(Edge) /\ k # <<>>
<1>1. PICK i \in Inserted : k = wanted[i].key
  BY DEF Keys
<1>2. wanted \in Seq(Round) /\ i \in 1..Len(wanted) /\ k # NoKey
  BY <1>1 DEF TreeInv, Typed, Inserted
<1>3. k \in Found
  <2>1. wanted[i] \in Round
    BY <1>2, ElementOfSeq
  <2> QED BY <1>1, <2>1 DEF Round
<1> QED BY <1>2, <1>3, StringType DEF Found

(* Where no sequence begins another, what nrl_dfa_parse follows is exactly   *)
(* the terminal's keys: every one ends in a leaf, and there are no others.   *)
THEOREM TreeHasKeys ==
  ASSUME PrefixFree
  PROVE  Spec => []TreeIsKeys
<1>1. ASSUME TreeInv, todo = <<>>
      PROVE  DOMAIN nodes = (UNION {Prefixes(k) : k \in Keys}) \ {<<>>}
  <2>1. {Prefixes(k) : k \in Keys} = {Prefixes(wanted[i].key) : i \in Ready}
    BY <1>1, BuildDone DEF Keys
  <2> QED BY <1>1, <2>1 DEF TreeInv, GrownInv
<1>2. ASSUME TreeInv, todo = <<>>, NEW k \in Keys
      PROVE  k \in DOMAIN nodes /\ ~Inner(k)
  <2>1. k \in Strings /\ k \in Seq(Edge) /\ k \in DOMAIN nodes
    BY <1>1, <1>2, KeyType, KeyIsPath
  <2>2. ASSUME NEW q \in DOMAIN nodes, IsStrictPrefix(k, q) PROVE FALSE
    <3>1. PICK l \in Keys : q \in Prefixes(l)
      BY <1>1, <1>2
    <3>2. l \in Strings /\ l \in Seq(Edge)
      BY <1>2, KeyType
    <3>3. IsStrictPrefix(k, l)
      BY <2>1, <2>2, <3>1, <3>2, BeginningType, PrefixOfPrefix
    <3> QED BY <2>1, <3>2, <3>3, PrefixFree DEF PrefixFree
  <2> QED BY <2>1, <2>2 DEF Inner
<1>3. ASSUME TreeInv, todo = <<>>, NEW p \in DOMAIN nodes, ~Inner(p)
      PROVE  p \in Keys
  <2>1. PICK k \in Keys : p \in Prefixes(k)
    BY <1>1, <1>3
  <2>2. k \in Seq(Edge) /\ k \in DOMAIN nodes
    BY <1>2, <1>3, KeyType
  <2>3. IsPrefix(p, k)
    BY <2>1, <2>2, BeginningType
  <2> QED BY <1>3, <2>1, <2>2, <2>3 DEF Inner, IsStrictPrefix
<1>4. TreeInv => TreeIsKeys
  BY <1>1, <1>2, <1>3 DEF TreeIsKeys
<1> QED BY <1>4, TreeInit, TreeNext, PTL DEF Spec

-----------------------------------------------------------------------------
(* The flag of a node and the acceptor it comes with *)

TableOf(custom) == IF custom THEN tables.customs ELSE tables.inputs

(* What a round asks for: an entry of the table its flag selects, or the     *)
(* patched backspace.                                                        *)
FromTable(w) ==
  /\ w.accept < Len(TableOf(w.custom))
  /\ w.key # NoKey =>
       \/ w.key \in ToSet(TableOf(w.custom))
       \/ w.key = CtrlH /\ ~w.custom

TablesInv ==
  /\ disk \in Disks
  /\ Len(tables.inputs) = Len(InputIdx) /\ Len(tables.customs) = Len(CustomIdx)
  /\ \A k \in ToSet(tables.customs) :
       k # NoKey => k # CtrlH /\ k \notin ToSet(tables.inputs)

(* Tables are loaded before anything is asked for. *)
LoadFirstInv ==
  /\ pc = "search" \/ ~attempted_load => wanted = <<>>
  /\ pc = "load" => ~attempted_load
  /\ pc \in {"load", "search"} => todo = <<>>

AskedInv == \A i \in 1..Len(wanted) : FromTable(wanted[i])

KindInv ==
  /\ \A i \in Ready : nodes[wanted[i].key].custom = wanted[i].custom
  /\ \A p \in DOMAIN nodes :
       nodes[p].accept # NoAccept =>
         \E i \in Ready : wanted[i].key = p /\ wanted[i].accept = nodes[p].accept

MarkedInv == TablesInv /\ LoadFirstInv /\ AskedInv /\ KindInv

-----------------------------------------------------------------------------
LEMMA ReadyIsNode ==
  ASSUME TreeInv, NEW i \in Ready
  PROVE  /\ wanted[i] \in Round /\ i \in 1..Len(wanted)
         /\ wanted[i].key \in Seq(Edge) /\ wanted[i].key # <<>>
         /\ wanted[i].key \in DOMAIN nodes
<1>1. wanted \in Seq(Round) /\ todo \in Seq(Round) /\ Len(wanted) \in Nat /\ Len(todo) \in Nat
  BY LenProperties DEF TreeInv, Typed
<1>2. i \in 1..Len(wanted) /\ wanted[i].key # NoKey
  BY <1>1 DEF Ready, Done
<1>3. wanted[i] \in Round
  BY <1>1, <1>2, ElementOfSeq
<1>4. wanted[i].key \in Found
  BY <1>3 DEF Round
<1>5. wanted[i].key \in Seq(Edge) /\ wanted[i].key # <<>>
  BY <1>2, <1>4, StringType
<1>6. wanted[i].key \in Prefixes(wanted[i].key)
  BY <1>5, KeyIsPath
<1>7. wanted[i].key \in DOMAIN nodes
  BY <1>5, <1>6 DEF TreeInv, GrownInv
<1> QED BY <1>2, <1>3, <1>5, <1>7

(* A node is a key that was asked for, or there are longer ones. *)
LEMMA LeafIsReady ==
  ASSUME TreeInv, NEW p \in DOMAIN nodes, ~Inner(p)
  PROVE  \E i \in Ready : wanted[i].key = p
<1>1. PICK i \in Ready : p \in Prefixes(wanted[i].key)
  BY DEF TreeInv, GrownInv
<1>2. wanted[i].key \in Seq(Edge) /\ wanted[i].key \in DOMAIN nodes
  BY ReadyIsNode
<1>3. IsPrefix(p, wanted[i].key)
  BY <1>1, <1>2, BeginningType
<1> QED BY <1>2, <1>3 DEF Inner, IsStrictPrefix

(* Rounds for the same key have the same flag. *)
LEMMA SameKind ==
  ASSUME TablesInv, NEW v \in Round, NEW w \in Round, FromTable(v), FromTable(w),
         v.key = w.key, v.key # NoKey
  PROVE  v.custom = w.custom
<1>1. v.custom \in BOOLEAN /\ w.custom \in BOOLEAN
  BY DEF Round
<1>2. ASSUME NEW a \in Round, NEW b \in Round, FromTable(a), FromTable(b),
             a.key = b.key, a.key # NoKey, a.custom, ~b.custom
      PROVE  FALSE
  <2>1. a.key \in ToSet(tables.customs)
    BY <1>2 DEF FromTable, TableOf
  <2>2. a.key \in ToSet(tables.inputs) \/ a.key = CtrlH
    BY <1>2 DEF FromTable, TableOf
  <2> QED BY <1>2, <2>1, <2>2 DEF TablesInv
<1> QED BY <1>1, <1>2

-----------------------------------------------------------------------------
LEMMA NothingIn ==
  ASSUME NEW indices \in Seq(Nat)
  PROVE  Len(Nothing(indices)) = Len(indices) /\ ToSet(Nothing(indices)) \subseteq {NoKey}
<1>1. Len(indices) \in Nat
  BY LenProperties
<1>2. Nothing(indices) \in Seq(Found)
  BY NothingType
<1>3. DOMAIN Nothing(indices) = 1..Len(indices)
      /\ \A i \in 1..Len(indices) : Nothing(indices)[i] = NoKey
  BY DEF Nothing
<1>4. Len(Nothing(indices)) = Len(indices)
  BY <1>1, <1>2, <1>3, LenProperties
<1> QED BY <1>3, <1>4 DEF ToSet

LEMMA MarkedInit == Init => MarkedInv
<1> SUFFICES ASSUME Init PROVE MarkedInv
  OBVIOUS
<1>1. InputIdx \in Seq(Nat) /\ CustomIdx \in Seq(Nat)
  BY TerminfoAssumption
<1>2. /\ tables.inputs = Nothing(InputIdx) /\ tables.customs = Nothing(CustomIdx)
      /\ disk \in Disks /\ wanted = <<>> /\ todo = <<>> /\ nodes = <<>> /\ pc = "out"
  BY DEF Init, EmptyTree
<1>3. TablesInv
  BY <1>1, <1>2, NothingIn DEF TablesInv
<1>4. LoadFirstInv /\ AskedInv
  BY <1>2 DEF LoadFirstInv, AskedInv
<1>5. Ready = {} /\ DOMAIN nodes = {}
  BY <1>2 DEF Ready, Done
<1>6. KindInv
  BY <1>5 DEF KindInv
<1> QED BY <1>3, <1>4, <1>6 DEF MarkedInv

(* The tables stay apart when they are filled with strings that are. *)
LEMMA FillApart ==
  ASSUME NEW found \in [Indices -> Found], Apart(found), Fill(found)
  PROVE  /\ Len(tables'.inputs) = Len(InputIdx) /\ Len(tables'.customs) = Len(CustomIdx)
         /\ \A k \in ToSet(tables'.customs) :
              k # NoKey => k # CtrlH /\ k \notin ToSet(tables'.inputs)
<1>1. ASSUME NEW indices \in {InputIdx, CustomIdx}
      PROVE  /\ Len(Table(found, indices)) = Len(indices)
             /\ ToSet(Table(found, indices)) = {found[i] : i \in ToSet(indices)}
  <2>1. indices \in Seq(Nat)
    BY TerminfoAssumption
  <2>2. Len(indices) \in Nat /\ DOMAIN indices = 1..Len(indices)
    BY <2>1, LenProperties
  <2>3. Table(found, indices) \in Seq(Found)
    BY TableType
  <2>4. DOMAIN Table(found, indices) = 1..Len(indices)
        /\ \A i \in 1..Len(indices) : Table(found, indices)[i] = found[indices[i]]
    BY DEF Table
  <2>5. Len(Table(found, indices)) = Len(indices)
    BY <2>2, <2>3, <2>4, LenProperties
  <2> QED BY <2>2, <2>4, <2>5 DEF ToSet
<1>2. tables'.inputs = Table(found, InputIdx) /\ tables'.customs = Table(found, CustomIdx)
  BY DEF Fill
<1>3. ASSUME NEW k \in ToSet(tables'.customs), k # NoKey
      PROVE  k # CtrlH /\ k \notin ToSet(tables'.inputs)
  <2>1. PICK j \in ToSet(CustomIdx) : k = found[j]
    BY <1>1, <1>2
  <2>2. k # CtrlH /\ \A i \in ToSet(InputIdx) : found[i] # k
    BY <1>3, <2>1 DEF Apart
  <2> QED BY <1>1, <1>2, <2>2
<1> QED BY <1>1, <1>2, <1>3

(* What does not touch the tree or the tables keeps them. *)
LEMMA MarkedUntouched ==
  ASSUME TablesInv, AskedInv, KindInv, UNCHANGED <<disk, tree>>
  PROVE  TablesInv' /\ AskedInv' /\ KindInv'
<1>1. tables' = tables /\ nodes' = nodes /\ wanted' = wanted /\ todo' = todo /\ disk' = disk
  BY DEF tree
<1>2. Done' = Done
  BY <1>1 DEF Done
<1>3. Ready' = Ready
  BY <1>1, <1>2 DEF Ready
<1> QED BY <1>1, <1>3 DEF TablesInv, AskedInv, FromTable, TableOf, KindInv

LEMMA FillMarked ==
  ASSUME wanted = <<>>, todo = <<>>, TreeInv, MarkedInv, disk' = disk,
         NEW found \in [Indices -> Found], Apart(found), Fill(found)
  PROVE  TablesInv' /\ AskedInv' /\ KindInv'
<1>1. wanted' = <<>> /\ todo' = <<>> /\ nodes' = nodes
  BY DEF Fill
<1>2. TablesInv'
  BY FillApart DEF TablesInv, MarkedInv
<1>3. AskedInv'
  BY <1>1 DEF AskedInv
<1>4. Ready = {} /\ Ready' = {}
  BY <1>1 DEF Ready, Done
<1>5. DOMAIN nodes = {}
  BY <1>4 DEF TreeInv, GrownInv
<1>6. KindInv'
  BY <1>1, <1>4, <1>5 DEF KindInv
<1> QED BY <1>2, <1>3, <1>6
-----------------------------------------------------------------------------
LEMMA EntryMarked ==
  ASSUME TablesApart, TreeInv, MarkedInv, LoadEntry
  PROVE  TablesInv' /\ AskedInv' /\ KindInv'
<1> DEFINE entry == disk[Head(path)]
<1>1. Head(path) \in Dirs
  BY HeadTailProperties DEF LoadEntry, TreeInv, Typed
<1>2. entry # NoEntry /\ ~Refused(entry) /\ entry \in Entry
  BY <1>1 DEF LoadEntry, TreeInv, Typed
<1>3. entry.strings \in Seq(Found)
  BY <1>2 DEF Entry
<1>4. PICK found \in Lookups(entry.strings) : Fill(found)
  BY DEF LoadEntry
<1>5. found \in [Indices -> Found]
  BY <1>3, LookupsType
<1>6. Apart(found)
  BY <1>1, <1>2, <1>4 DEF TablesApart, MarkedInv, TablesInv
<1>7. wanted = <<>> /\ todo = <<>> /\ disk' = disk
  BY DEF LoadEntry, MarkedInv, LoadFirstInv
<1> QED BY <1>4, <1>5, <1>6, <1>7, FillMarked

-----------------------------------------------------------------------------
(* The rounds that a build asks for. *)
LEMMA EntryFromTable ==
  ASSUME TreeInv, NEW custom \in BOOLEAN, NEW i \in 1..Len(Entries(TableOf(custom), custom))
  PROVE  FromTable(Entries(TableOf(custom), custom)[i])
<1> DEFINE table == TableOf(custom)
<1>1. table \in Seq(Found) /\ Len(table) \in Nat
  BY LenProperties DEF TreeInv, Typed, TableOf
<1>2. Entries(table, custom) \in Seq(Round)
  BY <1>1, EntriesType
<1>3. DOMAIN Entries(table, custom) = 1..Len(table)
  BY DEF Entries
<1>4. i \in 1..Len(table)
  BY <1>2, <1>3, LenProperties
<1>5. Entries(table, custom)[i] = [key |-> table[i], accept |-> i - 1, custom |-> custom]
  BY <1>4 DEF Entries
<1>6. table[i] \in ToSet(table) /\ i - 1 < Len(table)
  BY <1>1, <1>4, LenProperties DEF ToSet
<1>7. Entries(table, custom)[i].custom = custom
  BY <1>5
<1> QED BY <1>5, <1>6, <1>7 DEF FromTable

LEMMA RoundsFromTable ==
  ASSUME TreeInv, TablesInv, NEW xterm \in BOOLEAN,
         NEW i \in 1..Len(Insertions(tables, xterm))
  PROVE  FromTable(Insertions(tables, xterm)[i])
<1> DEFINE patch == IF xterm THEN <<[key |-> CtrlH, accept |-> Backspace, custom |-> FALSE]>>
                    ELSE <<>>
           a == Entries(tables.inputs, FALSE)
           b == Entries(tables.customs, TRUE)
<1>1. a \in Seq(Round) /\ b \in Seq(Round)
  BY EntriesType DEF TreeInv, Typed
<1>2. patch \in Seq(Round)
  <2>1. [key |-> CtrlH, accept |-> Backspace, custom |-> FALSE] \in Round
    BY KeyTreeAssumption DEF Round, Found
  <2> QED BY <2>1
<1>3. \A j \in 1..Len(a) : FromTable(a[j])
  BY EntryFromTable DEF TableOf
<1>4. \A j \in 1..Len(b) : FromTable(b[j])
  BY EntryFromTable DEF TableOf
<1>5. \A j \in 1..Len(patch) : FromTable(patch[j])
  <2>1. FromTable([key |-> CtrlH, accept |-> Backspace, custom |-> FALSE])
    BY TerminfoAssumption DEF FromTable, TableOf, TablesInv
  <2>2. CASE xterm
    <3>1. Len(patch) = 1 /\ patch[1] = [key |-> CtrlH, accept |-> Backspace, custom |-> FALSE]
      BY <2>2
    <3> HIDE DEF patch
    <3>2. \A j \in 1..Len(patch) : j = 1
      BY <3>1
    <3> QED BY <2>1, <3>1, <3>2
  <2>3. CASE ~xterm
    BY <2>3
  <2> QED BY <2>2, <2>3
<1>6. Insertions(tables, xterm) = (a \o patch) \o b
  BY DEF Insertions
<1> HIDE DEF a, b, patch
<1>7. /\ a \o patch \in Seq(Round) /\ Len(a \o patch) = Len(a) + Len(patch)
      /\ \A j \in 1..Len(a) + Len(patch) :
           (a \o patch)[j] = IF j <= Len(a) THEN a[j] ELSE patch[j - Len(a)]
  BY <1>1, <1>2, ConcatProperties
<1> DEFINE ap == a \o patch
<1> HIDE DEF ap
<1>8. /\ Len(ap \o b) = Len(ap) + Len(b)
      /\ \A j \in 1..Len(ap) + Len(b) :
           (ap \o b)[j] = IF j <= Len(ap) THEN ap[j] ELSE b[j - Len(ap)]
  BY <1>1, <1>7, ConcatProperties DEF ap
<1>9. Len(a) \in Nat /\ Len(b) \in Nat /\ Len(patch) \in Nat /\ Len(ap) = Len(a) + Len(patch)
  BY <1>1, <1>2, <1>7, LenProperties DEF ap
<1>10. \A j \in 1..Len(ap) : FromTable(ap[j])
  <2>1. \A j \in 1..Len(a) + Len(patch) :
           ap[j] = IF j <= Len(a) THEN a[j] ELSE patch[j - Len(a)]
    BY <1>7 DEF ap
  <2>2. ASSUME NEW j \in 1..Len(ap) PROVE FromTable(ap[j])
    <3>1. j \in 1..Len(a) \/ (~(j <= Len(a)) /\ j - Len(a) \in 1..Len(patch))
      BY <1>9
    <3> QED BY SMTT(30), <1>3, <1>5, <1>9, <2>1, <3>1
  <2> QED BY <2>2
<1>11. i \in 1..Len(ap) + Len(b)
  BY <1>6, <1>8 DEF ap
<1>12. i \in 1..Len(ap) \/ (~(i <= Len(ap)) /\ i - Len(ap) \in 1..Len(b))
  BY <1>9, <1>11
<1>13. Insertions(tables, xterm)[i] = IF i <= Len(ap) THEN ap[i] ELSE b[i - Len(ap)]
  BY <1>6, <1>8, <1>11 DEF ap
<1> QED BY <1>4, <1>9, <1>10, <1>12, <1>13

LEMMA BuildMarked ==
  ASSUME TreeInv, MarkedInv, Build
  PROVE  TablesInv' /\ AskedInv' /\ KindInv'
<1> DEFINE xterm == env.term \in Xterms
           more == Insertions(tables, xterm)
<1>1. /\ todo = <<>> /\ xterm \in BOOLEAN
      /\ todo' = more /\ wanted' = wanted \o more
      /\ nodes' = nodes /\ tables' = tables /\ disk' = disk
  BY DEF Build, StartBuild, TreeInv, Typed
<1>2. more \in Seq(Round) /\ wanted \in Seq(Round)
  BY <1>1, InsertionsType DEF TreeInv, Typed
<1>3. \A j \in 1..Len(more) : FromTable(more[j])
  BY <1>1, RoundsFromTable DEF MarkedInv
<1> HIDE DEF more, xterm
<1>4. /\ Len(wanted') = Len(wanted) + Len(more)
      /\ \A i \in 1..Len(wanted) + Len(more) :
           wanted'[i] = IF i <= Len(wanted) THEN wanted[i] ELSE more[i - Len(wanted)]
  BY <1>1, <1>2, ConcatProperties
<1>5. Len(wanted) \in Nat /\ Len(more) \in Nat
  BY <1>2, LenProperties
<1>6. TablesInv'
  BY <1>1 DEF MarkedInv, TablesInv
<1>7. ASSUME NEW i \in 1..Len(wanted') PROVE FromTable(wanted'[i])
  <2>1. i \in 1..Len(wanted) \/ (~(i <= Len(wanted)) /\ i - Len(wanted) \in 1..Len(more))
    BY <1>4, <1>5
  <2>2. i \in 1..Len(wanted) + Len(more)
    BY <1>4
  <2> QED BY <1>3, <1>4, <1>5, <2>1, <2>2 DEF MarkedInv, AskedInv
<1>8. AskedInv'
  BY <1>1, <1>7 DEF AskedInv, FromTable, TableOf
<1>9. Done = Len(wanted) /\ Done' = Len(wanted)
  BY <1>1, <1>4, <1>5 DEF Done
<1>10. \A i \in 1..Done : wanted'[i] = wanted[i]
  BY <1>4, <1>5, <1>9
<1>11. Ready' = Ready /\ \A i \in Ready : wanted'[i] = wanted[i]
  BY <1>9, <1>10 DEF Ready
<1>12. KindInv'
  <2>1. nodes' = nodes /\ KindInv
    BY <1>1 DEF MarkedInv
  <2>2. \A i \in Ready' : nodes'[wanted'[i].key].custom = wanted'[i].custom
    BY <1>11, <2>1 DEF KindInv
  <2>3. ASSUME NEW p \in DOMAIN nodes', nodes'[p].accept # NoAccept
        PROVE  \E i \in Ready' : wanted'[i].key = p /\ wanted'[i].accept = nodes'[p].accept
    <3>1. PICK i \in Ready : wanted[i].key = p /\ wanted[i].accept = nodes[p].accept
      BY <2>1, <2>3 DEF KindInv
    <3> QED BY <1>11, <2>1, <3>1
  <2> QED BY <2>2, <2>3 DEF KindInv
<1> QED BY <1>6, <1>8, <1>12

-----------------------------------------------------------------------------
LEMMA SkipMarked ==
  ASSUME TreeInv, MarkedInv, Skip, disk' = disk
  PROVE  TablesInv' /\ AskedInv' /\ KindInv'
<1>1. Done \in Nat /\ Done' = Done + 1 /\ wanted[Done + 1].key = NoKey
  BY NextRound DEF Skip, TreeInv
<1>2. nodes' = nodes /\ wanted' = wanted /\ tables' = tables
  BY DEF Skip
<1>3. Ready' = Ready
  BY <1>1, <1>2 DEF Ready
<1>4. KindInv'
  <2>1. KindInv
    BY DEF MarkedInv
  <2> QED BY <1>2, <1>3, <2>1 DEF KindInv
<1>5. TablesInv'
  BY <1>2 DEF MarkedInv, TablesInv
<1> QED BY <1>2, <1>4, <1>5 DEF MarkedInv, AskedInv, FromTable, TableOf

(* An old node keeps its flag, and the key that comes back to it has that    *)
(* flag; a new one takes the flag of the key.                                *)
LEMMA InsertMarked ==
  ASSUME TreeInv, MarkedInv, Insert, disk' = disk
  PROVE  TablesInv' /\ AskedInv' /\ KindInv'
<1> DEFINE e == Head(todo)
<1>1. /\ Done \in Nat /\ Done' = Done + 1 /\ Done + 1 <= Len(wanted)
      /\ e = wanted[Done + 1] /\ e \in Round
  BY NextRound DEF Insert, TreeInv
<1>2. /\ e.key # NoKey /\ ~Clobbers(e.key)
      /\ wanted' = wanted /\ tables' = tables /\ nodes' = Grown(e)
  BY DEF Insert
<1> HIDE DEF e
<1>3. e.key \in Found
  BY <1>1 DEF Round
<1>4. e.key \in Seq(Edge) /\ e.key # <<>>
  BY <1>2, <1>3, StringType
<1>5. e.key \in Prefixes(e.key)
  BY <1>4, KeyIsPath
<1>6. Ready' = Ready \cup {Done + 1}
  BY <1>1, <1>2 DEF Ready
<1>7. /\ DOMAIN nodes' = DOMAIN nodes \cup (Prefixes(e.key) \ {<<>>})
      /\ \A p \in DOMAIN nodes' :
           /\ nodes'[p].custom = IF p \in DOMAIN nodes THEN nodes[p].custom ELSE e.custom
           /\ nodes'[p].accept = IF p = e.key THEN e.accept
                              ELSE IF p \in DOMAIN nodes THEN nodes[p].accept ELSE NoAccept
  BY <1>2 DEF Grown
<1>8. FromTable(e)
  <2>1. Len(wanted) \in Nat
    BY LenProperties DEF TreeInv, Typed
  <2> QED BY <1>1, <2>1 DEF MarkedInv, AskedInv
<1>9. ASSUME e.key \in DOMAIN nodes
      PROVE  nodes[e.key].custom = e.custom
  <2>1. ~Inner(e.key)
    BY <1>2 DEF Clobbers
  <2>2. PICK j \in Ready : wanted[j].key = e.key
    BY <1>9, <2>1, LeafIsReady
  <2>3. wanted[j] \in Round /\ j \in 1..Len(wanted)
    BY ReadyIsNode
  <2>4. FromTable(wanted[j])
    BY <2>3 DEF MarkedInv, AskedInv
  <2>5. wanted[j].custom = e.custom
    BY <1>1, <1>2, <1>8, <2>2, <2>3, <2>4, SameKind DEF MarkedInv
  <2> QED BY <2>2, <2>5 DEF MarkedInv, KindInv
<1>10. ASSUME NEW i \in Ready'
       PROVE  nodes'[wanted'[i].key].custom = wanted'[i].custom
  <2>1. CASE i = Done + 1
    <3>1. e.key \in DOMAIN nodes'
      BY <1>4, <1>5, <1>7
    <3> QED BY <1>1, <1>2, <1>7, <1>9, <2>1, <3>1
  <2>2. CASE i \in Ready
    <3>1. wanted[i].key \in DOMAIN nodes
      BY <2>2, ReadyIsNode
    <3>2. nodes'[wanted[i].key].custom = nodes[wanted[i].key].custom
      BY <1>7, <3>1
    <3> QED BY <1>2, <2>2, <3>2 DEF MarkedInv, KindInv
  <2> QED BY <1>6, <2>1, <2>2
<1>11. ASSUME NEW p \in DOMAIN nodes', nodes'[p].accept # NoAccept
       PROVE  \E i \in Ready' : wanted'[i].key = p /\ wanted'[i].accept = nodes'[p].accept
  <2>1. CASE p = e.key
    BY <1>1, <1>2, <1>6, <1>7, <2>1
  <2>2. CASE p # e.key
    <3>1. p \in DOMAIN nodes /\ nodes'[p].accept = nodes[p].accept
      BY <1>7, <1>11, <2>2
    <3> QED BY <1>2, <1>6, <1>11, <3>1 DEF MarkedInv, KindInv
  <2> QED BY <2>1, <2>2
<1>12. KindInv'
  BY <1>10, <1>11 DEF KindInv
<1> QED BY <1>2, <1>12 DEF MarkedInv, TablesInv, AskedInv, FromTable, TableOf

-----------------------------------------------------------------------------
LEMMA LoadFirstNext ==
  ASSUME SearchInv, TreeInv, LoadFirstInv, [Next]_vars
  PROVE  LoadFirstInv'
<1>1. CASE Call
  BY <1>1 DEF Call, Cached, cache, tree, LoadFirstInv, TreeInv, Typed
<1>2. CASE LoadUnset \/ NotFound \/ BadEntry
  BY <1>2 DEF LoadUnset, NotFound, BadEntry, LoadFails, tree, LoadFirstInv
<1>3. CASE LoadFast \/ LoadSearch \/ LoadEntry
  BY <1>3 DEF LoadFast, LoadSearch, LoadEntry, Fill, tree, LoadFirstInv
<1>4. CASE TryNext
  BY <1>4 DEF TryNext, cache, tree, LoadFirstInv
<1>5. CASE Build
  BY <1>5 DEF Build, cache, SearchInv, LoadFirstInv
<1>6. CASE InsertKey
  BY <1>6 DEF InsertKey, Insert, Skip, cache, SearchInv, LoadFirstInv
<1>7. CASE Built \/ Crash \/ Return
  BY <1>7 DEF Built, Crash, Return, cache, tree, SearchInv, LoadFirstInv
<1>8. CASE UNCHANGED vars
  BY <1>8 DEF vars, cache, tree, LoadFirstInv
<1> QED BY <1>1, <1>2, <1>3, <1>4, <1>5, <1>6, <1>7, <1>8 DEF Next

LEMMA MarkedNext ==
  ASSUME TablesApart, SearchInv, TreeInv, MarkedInv, [Next]_vars
  PROVE  MarkedInv'
<1>1. LoadFirstInv'
  BY LoadFirstNext DEF MarkedInv
<1>2. CASE UNCHANGED <<disk, tree>>
  BY <1>1, <1>2, MarkedUntouched DEF MarkedInv
<1>3. CASE LoadFast
  <2>1. wanted = <<>> /\ todo = <<>> /\ disk' = disk
    BY <1>3 DEF LoadFast, MarkedInv, LoadFirstInv
  <2>2. Fill([index \in Indices |-> Fast[index + 1]])
    BY <1>3 DEF LoadFast
  <2>3. TablesInv' /\ AskedInv' /\ KindInv'
    <3>1. Apart([index \in Indices |-> Fast[index + 1]])
      BY DEF TablesApart
    <3> QED BY <2>1, <2>2, <3>1, FastFound, FillMarked
  <2> QED BY <1>1, <2>3 DEF MarkedInv
<1>4. CASE LoadEntry
  BY <1>1, <1>4, EntryMarked DEF MarkedInv
<1>5. CASE Build
  BY <1>1, <1>5, BuildMarked DEF MarkedInv
<1>6. CASE InsertKey /\ Insert
  BY <1>1, <1>6, InsertMarked DEF InsertKey, MarkedInv
<1>7. CASE InsertKey /\ Skip
  BY <1>1, <1>7, SkipMarked DEF InsertKey, MarkedInv
<1>8. CASE Call \/ LoadUnset \/ LoadSearch \/ TryNext \/ NotFound \/ BadEntry
             \/ Built \/ Crash \/ Return \/ UNCHANGED vars
  <2>1. UNCHANGED <<disk, tree>>
    BY <1>8 DEF Call, LoadUnset, LoadSearch, TryNext, NotFound, BadEntry, LoadFails,
                Built, Crash, Return, vars
  <2> QED BY <1>2, <2>1
<1> QED BY <1>3, <1>4, <1>5, <1>6, <1>7, <1>8 DEF Next, InsertKey

-----------------------------------------------------------------------------
(* Where no string is in both tables of keys, the result of a parse is of    *)
(* the kind its acceptor was made for: the two are never read as each other, *)
(* however many calls have built on the tree and whatever the terminals'     *)
(* strings begin with.                                                       *)
THEOREM KindsMatch ==
  ASSUME TablesApart
  PROVE  Spec => []KindMatches
<1>1. TreeInv /\ MarkedInv => KindMatches
  <2> SUFFICES ASSUME TreeInv, MarkedInv, todo = <<>>, NEW i \in Final
               PROVE  nodes[wanted[i].key].custom = wanted[i].custom
    BY DEF KindMatches
  <2> QED BY BuildDone DEF Final, MarkedInv, KindInv
<1>2. SearchInv /\ TreeInv /\ MarkedInv /\ [Next]_vars => MarkedInv'
  BY MarkedNext
<1> QED BY <1>1, <1>2, SearchInit, SearchNext, TreeInit, TreeNext, MarkedInit, PTL DEF Spec

(* An acceptor is an index into a table of keys: whatever strings the tables *)
(* share, a round is made for an index of one of them.                       *)
Indexes(accept) == \E indices \in {InputIdx, CustomIdx} : accept \in NoAccept..(Len(indices) - 1)

IndexInv ==
  /\ attempted_load \in BOOLEAN /\ load_result \in BOOLEAN
  /\ Len(tables.inputs) = Len(InputIdx) /\ Len(tables.customs) = Len(CustomIdx)
  /\ \A i \in 1..Len(todo) : Indexes(todo[i].accept)
  /\ \A p \in DOMAIN nodes : Indexes(nodes[p].accept)

LEMMA IndicesLength == Len(InputIdx) \in Nat /\ Len(CustomIdx) \in Nat
BY TerminfoAssumption, LenProperties

LEMMA FillLength ==
  ASSUME NEW found \in [Indices -> Found], Fill(found)
  PROVE  Len(tables'.inputs) = Len(InputIdx) /\ Len(tables'.customs) = Len(CustomIdx)
<1>1. ASSUME NEW indices \in {InputIdx, CustomIdx}
      PROVE  Len(Table(found, indices)) = Len(indices)
  <2>1. Len(indices) \in Nat /\ Table(found, indices) \in Seq(Found)
    BY IndicesLength, TableType
  <2>2. DOMAIN Table(found, indices) = 1..Len(indices)
    BY DEF Table
  <2> QED BY <2>1, <2>2, LenProperties
<1> QED BY <1>1 DEF Fill

LEMMA EntriesIndex ==
  ASSUME NEW table \in Seq(Found), NEW custom \in BOOLEAN,
         NEW i \in 1..Len(Entries(table, custom))
  PROVE  Entries(table, custom)[i].accept \in NoAccept..(Len(table) - 1)
<1>1. Len(table) \in Nat /\ Entries(table, custom) \in Seq(Round)
  BY EntriesType, LenProperties
<1>2. DOMAIN Entries(table, custom) = 1..Len(table)
  BY DEF Entries
<1>3. i \in 1..Len(table)
  BY <1>1, <1>2, LenProperties
<1>4. Entries(table, custom)[i].accept = i - 1
  BY <1>3 DEF Entries
<1> QED BY <1>1, <1>3, <1>4 DEF NoAccept

LEMMA InsertionsIndex ==
  ASSUME Typed, IndexInv, NEW xterm \in BOOLEAN, NEW i \in 1..Len(Insertions(tables, xterm))
  PROVE  Indexes(Insertions(tables, xterm)[i].accept)
<1> DEFINE patch == IF xterm THEN <<[key |-> CtrlH, accept |-> Backspace, custom |-> FALSE]>>
                    ELSE <<>>
           standard == Entries(tables.inputs, FALSE)
           custom == Entries(tables.customs, TRUE)
<1>1. standard \in Seq(Round) /\ custom \in Seq(Round)
  BY EntriesType DEF Typed
<1>2. patch \in Seq(Round)
  <2>1. [key |-> CtrlH, accept |-> Backspace, custom |-> FALSE] \in Round
    BY KeyTreeAssumption DEF Round, Found
  <2> QED BY <2>1
<1>3. \A j \in 1..Len(standard) : Indexes(standard[j].accept)
  BY EntriesIndex DEF Typed, IndexInv, Indexes
<1>4. \A j \in 1..Len(custom) : Indexes(custom[j].accept)
  BY EntriesIndex DEF Typed, IndexInv, Indexes
<1>5. \A j \in 1..Len(patch) : Indexes(patch[j].accept)
  <2>1. Backspace \in NoAccept..(Len(InputIdx) - 1)
    BY IndicesLength, KeyTreeAssumption, TerminfoAssumption DEF NoAccept
  <2>2. CASE xterm
    BY <2>1, <2>2 DEF Indexes
  <2>3. CASE ~xterm
    BY <2>3
  <2> QED BY <2>2, <2>3
<1>6. Insertions(tables, xterm) = standard \o patch \o custom
  BY DEF Insertions
<1> HIDE DEF patch, standard, custom
<1>7. ASSUME NEW s \in Seq(Round), NEW t \in Seq(Round),
             \A j \in 1..Len(s) : Indexes(s[j].accept),
             \A j \in 1..Len(t) : Indexes(t[j].accept)
      PROVE  s \o t \in Seq(Round) /\ \A j \in 1..Len(s \o t) : Indexes((s \o t)[j].accept)
  <2>1. Len(s) \in Nat /\ Len(t) \in Nat
    BY LenProperties
  <2>2. /\ s \o t \in Seq(Round) /\ Len(s \o t) = Len(s) + Len(t)
        /\ \A j \in 1..Len(s) + Len(t) : (s \o t)[j] = IF j <= Len(s) THEN s[j] ELSE t[j - Len(s)]
    BY ConcatProperties
  <2>3. \A j \in 1..Len(s) + Len(t) : j <= Len(s) => j \in 1..Len(s)
    BY <2>1
  <2>4. \A j \in 1..Len(s) + Len(t) : ~(j <= Len(s)) => j - Len(s) \in 1..Len(t)
    BY <2>1
  <2> QED BY <1>7, <2>2, <2>3, <2>4
<1>8. /\ standard \o patch \in Seq(Round)
      /\ \A j \in 1..Len(standard \o patch) : Indexes((standard \o patch)[j].accept)
  BY <1>1, <1>2, <1>3, <1>5, <1>7
<1>9. \A j \in 1..Len((standard \o patch) \o custom) :
        Indexes(((standard \o patch) \o custom)[j].accept)
  BY <1>1, <1>4, <1>7, <1>8
<1> QED BY <1>6, <1>9

(* A round is taken from those to do. *)
LEMMA IndexNext == SearchInv /\ TreeInv /\ IndexInv /\ [Next]_vars => IndexInv'
<1> SUFFICES ASSUME SearchInv, TreeInv, IndexInv, [Next]_vars PROVE IndexInv'
  OBVIOUS
<1>1. attempted_load' \in BOOLEAN /\ load_result' \in BOOLEAN
  BY DEF IndexInv, Next, vars, cache, Call, LoadUnset, LoadFast, LoadSearch, TryNext, NotFound,
         BadEntry, LoadEntry, LoadFails, Build, InsertKey, Built, Crash, Return
<1>2. CASE UNCHANGED tree
  BY <1>1, <1>2 DEF IndexInv, tree
<1>3. ASSUME NEW found \in [Indices -> Found], Fill(found) PROVE IndexInv'
  BY <1>1, <1>3, FillLength DEF IndexInv, Fill
<1>4. CASE LoadFast
  BY <1>3, <1>4, FastFound DEF LoadFast
<1>5. CASE LoadEntry
  <2> DEFINE entry == disk[Head(path)]
  <2>1. entry.strings \in Seq(Found)
    BY <1>5, HeadTailProperties DEF LoadEntry, TreeInv, Typed, Entry
  <2>2. PICK found \in Lookups(entry.strings) : Fill(found)
    BY <1>5 DEF LoadEntry
  <2> QED BY <1>3, <2>1, <2>2, LookupsType
<1>6. CASE Build
  <2>1. todo' = Insertions(tables, env.term \in Xterms) /\ tables' = tables /\ nodes' = nodes
    BY <1>6 DEF Build, StartBuild
  <2>2. (env.term \in Xterms) \in BOOLEAN /\ Typed
    BY DEF TreeInv
  <2>3. \A i \in 1..Len(Insertions(tables, env.term \in Xterms)) :
          Indexes(Insertions(tables, env.term \in Xterms)[i].accept)
    <3> DEFINE xterm == env.term \in Xterms
    <3> HIDE DEF xterm
    <3>1. xterm \in BOOLEAN
      BY <2>2 DEF xterm
    <3>2. \A i \in 1..Len(Insertions(tables, xterm)) : Indexes(Insertions(tables, xterm)[i].accept)
      BY <2>2, <3>1, InsertionsIndex
    <3> QED BY <3>2 DEF xterm
  <2> QED BY <1>1, <2>1, <2>3 DEF IndexInv
<1>7. CASE InsertKey /\ (Insert \/ Skip)
  <2>1. todo # <<>> /\ todo' = Tail(todo) /\ tables' = tables
    BY <1>7 DEF Insert, Skip
  <2>2. /\ Len(todo) \in Nat /\ Len(todo') = Len(todo) - 1 /\ Len(todo) > 0
        /\ \A i \in 1..Len(todo') : todo'[i] = todo[i + 1]
        /\ Head(todo) = todo[1]
    BY <2>1, HeadTailProperties, LenProperties, EmptySeq DEF TreeInv, Typed
  <2>3. \A i \in 1..Len(todo') : i + 1 \in 1..Len(todo)
    BY <2>2
  <2>4. \A i \in 1..Len(todo') : Indexes(todo'[i].accept)
    BY <2>2, <2>3 DEF IndexInv
  <2>5. Indexes(Head(todo).accept)
    BY <2>2 DEF IndexInv
  <2>6. Indexes(NoAccept)
    BY IndicesLength DEF Indexes, NoAccept
  <2>7. \A p \in DOMAIN nodes' : Indexes(nodes'[p].accept)
    <3>1. CASE Insert
      BY <2>5, <2>6, <3>1 DEF Insert, Grown, IndexInv
    <3>2. CASE Skip
      BY <3>2 DEF Skip, IndexInv
    <3> QED BY <1>7, <3>1, <3>2
  <2> QED BY <1>1, <2>1, <2>4, <2>7 DEF IndexInv
<1>8. Call \/ LoadUnset \/ LoadSearch \/ TryNext \/ NotFound \/ BadEntry \/ Built \/ Crash \/ Return
        \/ UNCHANGED vars => UNCHANGED tree
  BY DEF Call, LoadUnset, LoadSearch, TryNext, NotFound, BadEntry, LoadFails, Built, Crash, Return,
         vars, tree
<1> QED BY <1>2, <1>4, <1>5, <1>6, <1>7, <1>8 DEF Next, InsertKey

(* The type invariant, for every terminal: an acceptor is an index into a    *)
(* table of keys, over any number of builds.  That it is one into the table  *)
(* its flag selects is KindMatches, and takes tables that share no sequence. *)
THEOREM TerminfoTypeCorrect == Spec => []TypeOK
<1>1. Init => IndexInv
  <2>1. ASSUME NEW indices \in {InputIdx, CustomIdx}
        PROVE  Len(Nothing(indices)) = Len(indices)
    <3>1. Len(indices) \in Nat /\ Nothing(indices) \in Seq(Found)
      BY IndicesLength, NothingType, TerminfoAssumption
    <3>2. DOMAIN Nothing(indices) = 1..Len(indices)
      BY DEF Nothing
    <3> QED BY <3>1, <3>2, LenProperties
  <2> SUFFICES ASSUME Init PROVE IndexInv
    OBVIOUS
  <2>2. Len(tables.inputs) = Len(InputIdx) /\ Len(tables.customs) = Len(CustomIdx)
    BY <2>1 DEF Init
  <2>3. nodes = <<>> /\ todo = <<>> /\ attempted_load = FALSE /\ load_result = FALSE
    BY DEF Init, EmptyTree
  <2>4. DOMAIN nodes = {} /\ Len(todo) = 0
    BY <2>3
  <2>5. \A i \in 1..Len(todo) : Indexes(todo[i].accept)
    BY <2>4
  <2>6. \A p \in DOMAIN nodes : Indexes(nodes[p].accept)
    BY <2>4
  <2>7. attempted_load \in BOOLEAN /\ load_result \in BOOLEAN
    BY <2>3
  <2> QED BY <2>2, <2>5, <2>6, <2>7 DEF IndexInv
<1>2. SearchInv /\ TreeInv /\ IndexInv => TypeOK
  <2> SUFFICES ASSUME SearchInv, TreeInv, IndexInv, NEW p \in DOMAIN nodes
               PROVE  /\ p # <<>>
                      /\ \E table \in {tables.inputs, tables.customs} :
                           nodes[p].accept \in NoAccept..(Len(table) - 1)
    BY DEF SearchInv, IndexInv, TypeOK
  <2>1. p # <<>>
    BY DEF TreeInv, GrownInv
  <2> QED BY <2>1 DEF IndexInv, Indexes
<1> QED BY <1>1, <1>2, IndexNext, SearchInit, SearchNext, TreeInit, TreeNext, PTL DEF Spec

-----------------------------------------------------------------------------
(* The order in which find_entry looks for the terminal's entry, and which   *)
(* one it takes.                                                             *)

LEMMA LeastOfSome ==
  ASSUME NEW I \in SUBSET Nat, I # {}
  PROVE  \E x \in I : \A y \in I : x <= y
<1>1. IsWellFoundedOn(OpToRel(<, Nat), Nat)
  BY NatLessThanWellFounded
<1>2. PICK x \in I : \A y \in I : ~ (<<y, x>> \in OpToRel(<, Nat))
  BY <1>1, WFMin
<1>3. ASSUME NEW y \in I PROVE x <= y
  <2>1. x \in Nat /\ y \in Nat
    OBVIOUS
  <2>2. ~ (y < x)
    BY <1>2, <2>1 DEF OpToRel
  <2> QED BY <2>1, <2>2
<1> QED BY <1>3

(* The place of the first occurrence. *)
Place(s, dir) == SelectInSeq(s, LAMBDA d : d = dir)

LEMMA FirstPlace ==
  ASSUME NEW s \in Seq(Dirs), NEW dir \in ToSet(s)
  PROVE  /\ Place(s, dir) \in 1..Len(s)
         /\ s[Place(s, dir)] = dir
         /\ \A i \in 1..Len(s) : s[i] = dir => Place(s, dir) <= i
<1> DEFINE I == {i \in 1..Len(s) : s[i] = dir}
<1>1. Place(s, dir) = IF I # {} THEN Min(I) ELSE 0
  BY DEF Place, SelectInSeq
<1>2. Len(s) \in Nat /\ DOMAIN s = 1..Len(s)
  BY LenProperties
<1>3. I \in SUBSET Nat /\ I # {}
  BY <1>2 DEF ToSet
<1>4. \E x \in I : \A y \in I : x <= y
  <2> HIDE DEF I
  <2> QED BY <1>3, LeastOfSome
<1>5. Min(I) \in I /\ \A y \in I : Min(I) <= y
  <2> HIDE DEF I
  <2> QED BY <1>4 DEF Min
<1>6. Place(s, dir) = Min(I)
  BY <1>1, <1>3
<1> DEFINE m == Min(I)
<1>7. m \in I /\ \A y \in I : m <= y
  BY <1>5
<1> HIDE DEF m
<1> QED BY <1>6, <1>7 DEF m

-----------------------------------------------------------------------------
LEMMA KnownPart ==
  ASSUME NEW variable \in Dirs \cup {Unset}
  PROVE  /\ Known(variable) \in Seq(Dirs)
         /\ Len(Known(variable)) = IF variable = Unset THEN 0 ELSE 1
         /\ variable # Unset => Known(variable)[1] = variable
BY DEF Known

(* The parts of the path in the order of find_entry. *)
PathOf == SearchPath(env)
Homes  == Len(Known(env.terminfo))
Users  == Homes + Len(Known(env.home))
Shared == Users + Len(env.dirs)

LEMMA PathParts ==
  ASSUME env \in Envs
  PROVE  /\ {Homes, Users, Shared, Len(PathOf)} \subseteq Nat
         /\ env.terminfo = Unset => Homes = 0
         /\ env.terminfo # Unset => Homes = 1
         /\ Users = Homes \/ Users = Homes + 1
         /\ env.home = Unset => Users = Homes
         /\ env.home # Unset => Users = Homes + 1
         /\ Shared = Users + Len(env.dirs) /\ Len(env.dirs) \in Nat
         /\ Len(PathOf) = Shared + Len(System) /\ Len(System) \in Nat
         /\ \A i \in 1..Len(PathOf) :
              PathOf[i] = IF i <= Homes THEN env.terminfo
                          ELSE IF i <= Users THEN env.home
                          ELSE IF i <= Shared THEN env.dirs[i - Users]
                          ELSE System[i - Shared]
<1> DEFINE a == Known(env.terminfo)
           b == Known(env.home)
           c == env.dirs
           ab == a \o b
           abc == ab \o c
<1>1. a \in Seq(Dirs) /\ b \in Seq(Dirs) /\ c \in Seq(Dirs) /\ System \in Seq(Dirs)
  BY KnownPart, TerminfoAssumption
<1>2. /\ Len(a) = IF env.terminfo = Unset THEN 0 ELSE 1
      /\ env.terminfo # Unset => a[1] = env.terminfo
      /\ Len(b) = IF env.home = Unset THEN 0 ELSE 1
      /\ env.home # Unset => b[1] = env.home
  BY KnownPart, TerminfoAssumption
<1>3. Len(a) \in Nat /\ Len(b) \in Nat /\ Len(c) \in Nat /\ Len(System) \in Nat
  BY <1>1, LenProperties
<1>4. Homes = Len(a) /\ Users = Len(a) + Len(b) /\ Shared = Len(a) + Len(b) + Len(c)
  BY DEF Homes, Users, Shared
<1>5. PathOf = abc \o System
  BY DEF PathOf, SearchPath
<1> HIDE DEF a, b, c, ab, abc
<1>6. /\ ab \in Seq(Dirs) /\ Len(ab) = Len(a) + Len(b)
      /\ \A i \in 1..Len(a) + Len(b) : ab[i] = IF i <= Len(a) THEN a[i] ELSE b[i - Len(a)]
  BY <1>1, ConcatProperties DEF ab
<1>7. /\ abc \in Seq(Dirs) /\ Len(abc) = Len(ab) + Len(c)
      /\ \A i \in 1..Len(ab) + Len(c) : abc[i] = IF i <= Len(ab) THEN ab[i] ELSE c[i - Len(ab)]
  <2>1. ab \in Seq(Dirs)
    BY <1>6
  <2> QED BY <1>1, <2>1, ConcatProperties DEF abc
<1>8. /\ Len(PathOf) = Len(abc) + Len(System)
      /\ \A i \in 1..Len(abc) + Len(System) :
           PathOf[i] = IF i <= Len(abc) THEN abc[i] ELSE System[i - Len(abc)]
  BY SMTT(30), <1>1, <1>5, <1>7, ConcatProperties
<1>9. ASSUME NEW i \in 1..Len(PathOf)
      PROVE  PathOf[i] = IF i <= Homes THEN env.terminfo
                          ELSE IF i <= Users THEN env.home
                          ELSE IF i <= Shared THEN env.dirs[i - Users]
                          ELSE System[i - Shared]
  <2>1. CASE i <= Homes
    <3>1. PathOf[i] = a[i] /\ i = 1 /\ Len(a) = 1
      BY <1>2, <1>3, <1>4, <1>6, <1>7, <1>8, <2>1
    <3>2. a[1] = env.terminfo
      BY <1>2, <3>1
    <3> HIDE DEF a
    <3>3. PathOf[i] = env.terminfo
      BY <3>1, <3>2
    <3> QED BY <2>1, <3>3
  <2>2. CASE ~(i <= Homes) /\ i <= Users
    <3>1. PathOf[i] = b[i - Len(a)] /\ i - Len(a) = 1 /\ Len(b) = 1
      BY <1>2, <1>3, <1>4, <1>6, <1>7, <1>8, <2>2
    <3>2. b[1] = env.home
      BY <1>2, <3>1
    <3> HIDE DEF b
    <3>3. PathOf[i] = env.home
      BY <3>1, <3>2
    <3> QED BY <2>2, <3>3
  <2>3. CASE ~(i <= Users) /\ i <= Shared
    <3>1. PathOf[i] = c[i - Users]
      <4>1. Len(ab) = Users /\ Len(abc) = Shared /\ {Users, Shared} \subseteq Nat
        BY <1>3, <1>4, <1>6, <1>7
      <4>2. PathOf[i] = abc[i]
        BY <1>3, <1>8, <2>3, <4>1
      <4> QED BY <1>3, <1>4, <1>7, <2>3, <4>1, <4>2
    <3>2. ~(i <= Homes)
      BY <1>3, <1>4, <2>3
    <3> QED BY <2>3, <3>1, <3>2 DEF c
  <2>4. CASE ~(i <= Shared)
    <3>1. PathOf[i] = System[i - Shared]
      BY <1>3, <1>4, <1>6, <1>7, <1>8, <2>4
    <3>2. ~(i <= Homes) /\ ~(i <= Users)
      BY <1>3, <1>4, <2>4
    <3> QED BY <2>4, <3>1, <3>2
  <2> QED BY <2>1, <2>2, <2>3, <2>4
<1>10. Len(env.dirs) \in Nat /\ Shared = Users + Len(env.dirs)
  BY <1>3, <1>4 DEF c
<1>11. Len(abc) = Shared
  BY <1>4, <1>6, <1>7
<1>12. {Homes, Users, Shared, Len(PathOf)} \subseteq Nat /\ Len(PathOf) = Shared + Len(System)
  BY <1>3, <1>4, <1>8, <1>11
<1>13. /\ env.terminfo = Unset => Homes = 0
       /\ env.terminfo # Unset => Homes = 1
  BY <1>2, <1>4
<1>14. /\ env.home = Unset => Users = Homes
       /\ env.home # Unset => Users = Homes + 1
       /\ Users = Homes \/ Users = Homes + 1
  BY <1>2, <1>3, <1>4
<1> QED BY <1>3, <1>9, <1>10, <1>12, <1>13, <1>14

(* A rank by the first place in its part. *)
LEMMA RankParts ==
  ASSUME env \in Envs, NEW dir \in {env.terminfo, env.home} \cup ToSet(env.dirs) \cup ToSet(System)
  PROVE  /\ Rank(dir) \in Nat
         /\ \/ dir = env.terminfo /\ Rank(dir) = 1
            \/ dir # env.terminfo /\ dir = env.home /\ Rank(dir) = 2
            \/ /\ dir \notin {env.terminfo, env.home} /\ dir \in ToSet(env.dirs)
               /\ Place(env.dirs, dir) \in 1..Len(env.dirs)
               /\ Rank(dir) = 2 + Place(env.dirs, dir)
            \/ /\ dir \notin {env.terminfo, env.home} \cup ToSet(env.dirs) /\ dir \in ToSet(System)
               /\ Place(System, dir) \in 1..Len(System)
               /\ Rank(dir) = 2 + Len(env.dirs) + Place(System, dir)
<1>1. env.dirs \in Seq(Dirs) /\ System \in Seq(Dirs)
  BY TerminfoAssumption
<1>2. Len(env.dirs) \in Nat /\ Len(System) \in Nat
  BY <1>1, LenProperties
<1>3. Rank(dir) = IF dir = env.terminfo THEN 1
                  ELSE IF dir = env.home THEN 2
                  ELSE IF dir \in ToSet(env.dirs) THEN 2 + Place(env.dirs, dir)
                  ELSE 2 + Len(env.dirs) + Place(System, dir)
  BY DEF Rank, Place
<1>4. dir \in ToSet(env.dirs) => Place(env.dirs, dir) \in 1..Len(env.dirs)
  BY <1>1, FirstPlace
<1>5. dir \in ToSet(System) => Place(System, dir) \in 1..Len(System)
  BY <1>1, FirstPlace
<1> QED BY <1>2, <1>3, <1>4, <1>5

LEMMA AtPlace ==
  ASSUME NEW s \in Seq(Dirs), NEW i \in 1..Len(s)
  PROVE  s[i] \in ToSet(s) /\ Place(s, s[i]) <= i
<1>1. s[i] \in ToSet(s)
  BY LenProperties DEF ToSet
<1> QED BY <1>1, FirstPlace

(* What find_entry tries is a place of the documented order, and any other   *)
(* one that ranks no lower has been tried before it.                         *)
LEMMA OnPath ==
  ASSUME env \in Envs, NEW n \in 1..Len(PathOf)
  PROVE  /\ PathOf[n] \in Dirs
         /\ PathOf[n] \in {env.terminfo, env.home} \cup ToSet(env.dirs) \cup ToSet(System)
<1>1. SearchPath(env) \in Seq(Dirs)
  BY PathType
<1>2. PathOf[n] \in Dirs
  BY <1>1, ElementOfSeq DEF PathOf
<1>3. CASE n <= Users
  BY <1>2, <1>3, PathParts
<1>4. CASE n > Users /\ n <= Shared
  <2>1. n - Users \in 1..Len(env.dirs)
    BY SMTT(30), <1>4, PathParts
  <2>2. ~(n <= Homes) /\ ~(n <= Users)
    BY <1>4, PathParts
  <2>3. PathOf[n] = env.dirs[n - Users]
    BY <1>4, <2>2, PathParts
  <2> QED BY <1>2, <2>1, <2>3, AtPlace, TerminfoAssumption
<1>5. CASE n > Shared
  <2>1. n - Shared \in 1..Len(System)
    BY <1>5, PathParts
  <2>2. ~(n <= Homes) /\ ~(n <= Users) /\ ~(n <= Shared)
    BY <1>5, PathParts
  <2>3. PathOf[n] = System[n - Shared]
    BY <2>2, PathParts
  <2> QED BY <1>2, <2>1, <2>3, AtPlace, TerminfoAssumption
<1>6. n <= Users \/ (n > Users /\ n <= Shared) \/ n > Shared
  BY PathParts
<1> QED BY <1>2, <1>3, <1>4, <1>5, <1>6

LEMMA Preceded ==
  ASSUME env \in Envs, NEW n \in 1..Len(PathOf),
         NEW other \in {env.terminfo, env.home} \cup ToSet(env.dirs) \cup ToSet(System),
         other # Unset, other # PathOf[n], Rank(other) <= Rank(PathOf[n])
  PROVE  \E m \in 1..(n - 1) : PathOf[m] = other
<1> DEFINE dir == PathOf[n]
           r == Rank(dir)
           q == Rank(other)
<1>1. dir \in {env.terminfo, env.home} \cup ToSet(env.dirs) \cup ToSet(System) /\ dir \in Dirs
  BY OnPath
<1>2. Unset \notin Dirs /\ env.dirs \in Seq(Dirs) /\ System \in Seq(Dirs)
  BY TerminfoAssumption
<1>3. dir = IF n <= Homes THEN env.terminfo
            ELSE IF n <= Users THEN env.home
            ELSE IF n <= Shared THEN env.dirs[n - Users]
            ELSE System[n - Shared]
  BY PathParts
<1>4. /\ Homes \in Nat /\ Users \in Nat /\ Shared \in Nat
      /\ Len(PathOf) \in Nat /\ Len(env.dirs) \in Nat /\ Len(System) \in Nat
      /\ n \in Nat /\ 1 <= n /\ n <= Len(PathOf)
  BY PathParts
<1>41. Shared = Users + Len(env.dirs) /\ Len(PathOf) = Shared + Len(System)
  BY PathParts
<1>42. Homes <= Users /\ Users <= Shared /\ Shared <= Len(PathOf)
  BY <1>4, <1>41, PathParts
<1>5. /\ r \in Nat
      /\ \/ dir = env.terminfo /\ r = 1
         \/ dir # env.terminfo /\ dir = env.home /\ r = 2
         \/ /\ dir \notin {env.terminfo, env.home} /\ dir \in ToSet(env.dirs)
            /\ Place(env.dirs, dir) \in 1..Len(env.dirs)
            /\ r = 2 + Place(env.dirs, dir)
         \/ /\ dir \notin {env.terminfo, env.home} \cup ToSet(env.dirs) /\ dir \in ToSet(System)
            /\ Place(System, dir) \in 1..Len(System)
            /\ r = 2 + Len(env.dirs) + Place(System, dir)
  BY <1>1, RankParts
<1>6. q <= r /\ other # dir
  OBVIOUS
<1> HIDE DEF dir, r, q
<1>7. CASE other = env.terminfo
  <2>1. Homes = 1
    BY <1>7, PathParts
  <2>3. n # 1
    BY <1>3, <1>6, <1>7, <2>1
  <2>2. PathOf[1] = other
    <3>1. 1 \in 1..Len(PathOf) /\ 1 <= Homes
      BY <1>4, <2>1
    <3> QED BY <1>7, <3>1, PathParts
  <2>4. 1 \in 1..(n - 1)
    BY <1>4, <2>3
  <2> QED BY <2>2, <2>4
<1>8. CASE other # env.terminfo /\ other = env.home
  <2>1. q = 2
    BY <1>8, RankParts DEF q
  <2>2. dir # env.terminfo
    BY <1>5, <1>6, <2>1
  <2>3. n > Users
    <3>1. ~(n <= Homes)
      BY <1>1, <1>2, <1>3, <2>2
    <3>2. ~(n <= Users)
      BY <1>3, <1>6, <1>8, <3>1
    <3> QED BY <1>4, <3>2
  <2>7. Users = Homes + 1
    BY <1>8, PathParts
  <2>4. Users = Homes + 1 /\ Users \in 1..Len(PathOf)
    BY <1>4, <1>42, <2>7
  <2>5. ~(Users <= Homes) /\ Users <= Users
    BY <1>4, <2>4
  <2>6. PathOf[Users] = other
    BY <1>8, <2>4, <2>5, PathParts
  <2> QED BY <1>4, <2>3, <2>4, <2>6
<1>9. CASE other \notin {env.terminfo, env.home} /\ other \in ToSet(env.dirs)
  <2> DEFINE j == Place(env.dirs, other)
  <2>1. j \in 1..Len(env.dirs) /\ env.dirs[j] = other
    BY <1>2, <1>9, FirstPlace
  <2>2. q = 2 + j
    BY <1>9, RankParts DEF q
  <2> HIDE DEF j
  <2>3. dir \notin {env.terminfo, env.home}
    BY <1>5, <1>6, <2>1, <2>2
  <2>4. n > Users
    <3>1. ~(n <= Homes) /\ ~(n <= Users)
      BY <1>3, <2>3
    <3> QED BY <1>4, <3>1
  <2>5. n > Users + j
    <3>1. CASE n <= Shared
      <4>1. dir = env.dirs[n - Users] /\ n - Users \in 1..Len(env.dirs)
        <5>1. ~(n <= Homes) /\ ~(n <= Users)
          BY <1>4, <1>42, <2>4
        <5>2. dir = env.dirs[n - Users]
          BY <1>3, <3>1, <5>1
        <5> QED BY <1>4, <1>41, <2>4, <3>1, <5>2
      <4>2. dir \in ToSet(env.dirs) /\ Place(env.dirs, dir) <= n - Users
        BY <1>2, <4>1, AtPlace
      <4>3. j <= n - Users
        BY <1>4, <1>5, <1>6, <2>1, <2>2, <2>3, <4>1, <4>2
      <4>4. j # n - Users
        BY <1>6, <2>1, <4>1
      <4> QED BY <1>4, <2>1, <4>3, <4>4
    <3>2. CASE n > Shared
      BY <1>4, <1>41, <2>1, <3>2
    <3> QED BY <1>4, <3>1, <3>2
  <2>6. Users + j \in 1..Len(PathOf) /\ ~(Users + j <= Homes) /\ ~(Users + j <= Users)
        /\ Users + j <= Shared /\ (Users + j) - Users = j
    BY <1>4, <1>42, <1>41, <2>1
  <2>7. PathOf[Users + j] = other
    BY <2>1, <2>6, PathParts
  <2> QED BY <1>4, <2>1, <2>5, <2>6, <2>7
<1>10. CASE other \notin {env.terminfo, env.home} \cup ToSet(env.dirs) /\ other \in ToSet(System)
  <2> DEFINE j == Place(System, other)
  <2>1. j \in 1..Len(System) /\ System[j] = other
    BY <1>2, <1>10, FirstPlace
  <2>2. q = 2 + Len(env.dirs) + j
    BY <1>10, RankParts DEF q
  <2> HIDE DEF j
  <2>3. dir \notin {env.terminfo, env.home} \cup ToSet(env.dirs)
    BY <1>4, <1>5, <1>6, <2>1, <2>2
  <2>4. n > Shared
    <3>1. n > Users
      <4>1. ~(n <= Homes) /\ ~(n <= Users)
        BY <1>3, <2>3
      <4> QED BY <1>4, <4>1
    <3>2. ASSUME n <= Shared PROVE FALSE
      <4>1. dir = env.dirs[n - Users] /\ n - Users \in 1..Len(env.dirs)
        <5>1. ~(n <= Homes) /\ ~(n <= Users)
          BY <1>4, <1>42, <3>1
        <5>2. dir = env.dirs[n - Users]
          BY <1>3, <3>2, <5>1
        <5> QED BY <1>4, <1>41, <3>1, <3>2, <5>2
      <4> QED BY <1>2, <2>3, <4>1, AtPlace
    <3> QED BY <1>4, <3>2
  <2>5. dir = System[n - Shared] /\ n - Shared \in 1..Len(System)
    <3>1. ~(n <= Homes) /\ ~(n <= Users) /\ ~(n <= Shared)
      BY <1>4, <1>42, <2>4
    <3> QED BY <1>3, <1>4, <1>41, <2>4, <3>1
  <2>6. Place(System, dir) <= n - Shared
    BY <1>2, <2>5, AtPlace
  <2>7. j <= n - Shared /\ j # n - Shared
    <3>1. r = 2 + Len(env.dirs) + Place(System, dir) /\ Place(System, dir) \in 1..Len(System)
      BY <1>5, <2>3
    <3>2. j # n - Shared
      BY <1>6, <2>1, <2>5
    <3> QED BY <1>4, <1>6, <2>1, <2>2, <2>6, <3>1, <3>2
  <2>8. Shared + j \in 1..Len(PathOf) /\ ~(Shared + j <= Homes) /\ ~(Shared + j <= Users)
        /\ ~(Shared + j <= Shared) /\ (Shared + j) - Shared = j
    BY <1>4, <1>42, <1>41, <2>1
  <2>9. PathOf[Shared + j] = other
    BY <2>1, <2>8, PathParts
  <2> QED BY <1>4, <2>1, <2>7, <2>8, <2>9
<1> QED BY <1>7, <1>8, <1>9, <1>10

-----------------------------------------------------------------------------
(* What find_entry still has to try ends its path, and what it has tried     *)
(* holds nothing; until something is found the tables are empty.             *)
Unfilled ==
  /\ tables = [inputs |-> Nothing(InputIdx), customs |-> Nothing(CustomIdx)]
  /\ outputs = Nothing(OutputIdx) /\ specials = Nothing(SpecialIdx)

TriedInv ==
  pc = "search" =>
    /\ env.term # Unset
    /\ \E n \in 0..Len(PathOf) :
         /\ path = SubSeq(PathOf, n + 1, Len(PathOf))
         /\ \A m \in 1..n : disk[PathOf[m]] = NoEntry

FirstInv ==
  /\ calls = 0 => ~attempted_load
  /\ calls = 0 \/ pc \in {"load", "search"} => Unfilled
  /\ TriedInv
  /\ FirstEntryWins

LEMMA HeadOfRest ==
  ASSUME NEW s \in Seq(Dirs), NEW n \in 0..Len(s), NEW p, p = SubSeq(s, n + 1, Len(s))
  PROVE  /\ p = <<>> <=> n = Len(s)
         /\ n < Len(s) => Head(p) = s[n + 1] /\ Tail(p) = SubSeq(s, n + 2, Len(s))
<1>1. Len(s) \in Nat /\ n \in Nat /\ n <= Len(s)
  BY LenProperties
<1>2. \A i \in (n + 1)..Len(s) : s[i] \in Dirs
  BY <1>1, ElementOfSeq
<1>3. /\ p \in Seq(Dirs)
      /\ Len(p) = IF n + 1 <= Len(s) THEN Len(s) - (n + 1) + 1 ELSE 0
      /\ \A i \in 1..(Len(s) - (n + 1) + 1) : p[i] = s[(n + 1) + i - 1]
  BY <1>1, <1>2, SubSeqProperties
<1>4. Len(p) = Len(s) - n
  BY <1>1, <1>3
<1>5. p = <<>> <=> n = Len(s)
  <2>1. p \in Seq(Dirs)
    BY <1>3
  <2>2. p = <<>> <=> Len(p) = 0
    BY <2>1, EmptySeq
  <2> QED BY <1>1, <1>4, <2>2
<1>6. ASSUME n < Len(s)
      PROVE  Head(p) = s[n + 1] /\ Tail(p) = SubSeq(s, n + 2, Len(s))
  <2>1. p # <<>>
    BY <1>1, <1>5, <1>6
  <2>2. /\ Head(p) = p[1] /\ Tail(p) \in Seq(Dirs) /\ Len(Tail(p)) = Len(p) - 1
        /\ \A i \in 1..Len(Tail(p)) : Tail(p)[i] = p[i + 1]
    BY <1>3, <2>1, HeadTailProperties
  <2>3. Head(p) = s[n + 1]
    BY <1>1, <1>3, <1>4, <1>6, <2>2
  <2> DEFINE q == SubSeq(s, n + 2, Len(s))
  <2>4. \A i \in (n + 2)..Len(s) : s[i] \in Dirs
    BY <1>1, ElementOfSeq
  <2>5. /\ q \in Seq(Dirs)
        /\ Len(q) = IF n + 2 <= Len(s) THEN Len(s) - (n + 2) + 1 ELSE 0
        /\ \A i \in 1..(Len(s) - (n + 2) + 1) : q[i] = s[(n + 2) + i - 1]
    BY <1>1, <2>4, SubSeqProperties
  <2> HIDE DEF q
  <2>6. Len(q) = Len(Tail(p))
    BY <1>1, <1>4, <1>6, <2>2, <2>5
  <2>7. \A i \in 1..Len(q) : q[i] = Tail(p)[i]
    <3>1. ASSUME NEW i \in 1..Len(q) PROVE q[i] = Tail(p)[i]
      <4>1. i + 1 \in 1..(Len(s) - (n + 1) + 1) /\ i \in 1..(Len(s) - (n + 2) + 1)
        BY <1>1, <1>4, <1>6, <2>2, <2>6
      <4>2. q[i] = s[(n + 2) + i - 1] /\ Tail(p)[i] = p[i + 1]
        BY <2>2, <2>5, <2>6, <4>1
      <4>3. p[i + 1] = s[(n + 1) + (i + 1) - 1]
        BY <1>3, <4>1
      <4>4. (n + 2) + i - 1 = (n + 1) + (i + 1) - 1
        BY <1>1, <4>1
      <4> QED BY <4>2, <4>3, <4>4
    <3> QED BY <3>1
  <2>8. q = Tail(p)
    BY <2>2, <2>5, <2>6, <2>7, SeqEqual
  <2> QED BY <2>3, <2>8 DEF q
<1> QED BY <1>5, <1>6

(* The place that find_entry comes to is the first that holds an entry. *)
LEMMA FirstOfPlaces ==
  ASSUME env \in Envs, NEW n \in 1..Len(PathOf),
         disk[PathOf[n]] # NoEntry, \A m \in 1..(n - 1) : disk[PathOf[m]] = NoEntry
  PROVE  /\ PathOf[n] \in Places
         /\ \A other \in Places : Rank(PathOf[n]) <= Rank(other)
         /\ \A dir \in Places : (\A other \in Places : Rank(dir) <= Rank(other)) => dir = PathOf[n]
<1>1. PathOf[n] \in Places
  BY OnPath, TerminfoAssumption DEF Places
<1>2. ASSUME NEW other \in Places, Rank(other) <= Rank(PathOf[n])
      PROVE  other = PathOf[n]
  <2>1. other \in {env.terminfo, env.home} \cup ToSet(env.dirs) \cup ToSet(System)
        /\ other # Unset /\ disk[other] # NoEntry
    BY DEF Places
  <2> QED BY <1>2, <2>1, Preceded
<1>3. ASSUME NEW other \in Places
      PROVE  Rank(PathOf[n]) <= Rank(other)
  <2>1. Rank(other) \in Nat /\ Rank(PathOf[n]) \in Nat
    BY <1>1, RankParts DEF Places
  <2>2. Rank(other) <= Rank(PathOf[n]) \/ Rank(PathOf[n]) <= Rank(other)
    BY <2>1
  <2> QED BY <1>2, <2>1, <2>2
<1> QED BY <1>1, <1>2, <1>3

(* A place that holds an entry is on the path. *)
LEMMA PlaceOnPath ==
  ASSUME env \in Envs, NEW dir \in Places
  PROVE  \E n \in 1..Len(PathOf) : PathOf[n] = dir
<1>1. Homes \in Nat /\ Users \in Nat /\ Shared \in Nat /\ Len(PathOf) \in Nat
      /\ Len(env.dirs) \in Nat /\ Len(System) \in Nat
  BY PathParts
<1>2. Shared = Users + Len(env.dirs) /\ Len(PathOf) = Shared + Len(System)
  BY PathParts
<1>3. Homes <= Users /\ Users <= Shared /\ Shared <= Len(PathOf)
  BY <1>1, <1>2, PathParts
<1>4. dir # Unset /\ dir \in {env.terminfo, env.home} \cup ToSet(env.dirs) \cup ToSet(System)
  BY DEF Places
<1>5. env.dirs \in Seq(Dirs) /\ System \in Seq(Dirs)
  BY TerminfoAssumption
<1>6. CASE dir = env.terminfo
  <2>1. Homes = 1
    BY <1>4, <1>6, PathParts
  <2>2. 1 \in 1..Len(PathOf) /\ 1 <= Homes
    BY <1>1, <1>3, <2>1
  <2> QED BY <1>6, <2>2, PathParts
<1>7. CASE dir = env.home
  <2>1. Users = Homes + 1
    BY <1>4, <1>7, PathParts
  <2>2. Users \in 1..Len(PathOf) /\ ~(Users <= Homes) /\ Users <= Users
    BY <1>1, <1>3, <2>1
  <2> QED BY <1>7, <2>2, PathParts
<1>8. CASE dir \in ToSet(env.dirs)
  <2> DEFINE j == Place(env.dirs, dir)
  <2>1. j \in 1..Len(env.dirs) /\ env.dirs[j] = dir
    BY <1>5, <1>8, FirstPlace
  <2> HIDE DEF j
  <2>2. Users + j \in 1..Len(PathOf) /\ ~(Users + j <= Homes) /\ ~(Users + j <= Users)
        /\ Users + j <= Shared /\ (Users + j) - Users = j
    BY <1>1, <1>2, <1>3, <2>1
  <2> QED BY <2>1, <2>2, PathParts
<1>9. CASE dir \in ToSet(System)
  <2> DEFINE j == Place(System, dir)
  <2>1. j \in 1..Len(System) /\ System[j] = dir
    BY <1>5, <1>9, FirstPlace
  <2> HIDE DEF j
  <2>2. Shared + j \in 1..Len(PathOf) /\ ~(Shared + j <= Homes) /\ ~(Shared + j <= Users)
        /\ ~(Shared + j <= Shared) /\ (Shared + j) - Shared = j
    BY <1>1, <1>2, <1>3, <2>1
  <2> QED BY <2>1, <2>2, PathParts
<1> QED BY <1>4, <1>6, <1>7, <1>8, <1>9

-----------------------------------------------------------------------------
Usable == {dir \in Places : disk[dir].parses /\ \A other \in Places : Rank(dir) <= Rank(other)}

(* What FirstEntryWins says of a table. *)
FromFirst(found, indices) ==
  \A i \in 1..Len(indices) :
    IF env.term = Unset \/ Usable = {} THEN found[i] = NoKey
    ELSE \A dir \in Usable :
           indices[i] < Len(disk[dir].strings) => found[i] = disk[dir].strings[indices[i] + 1]

AllFromFirst ==
  /\ FromFirst(tables.inputs, InputIdx) /\ FromFirst(tables.customs, CustomIdx)
  /\ FromFirst(outputs, OutputIdx) /\ FromFirst(specials, SpecialIdx)

LEMMA FirstMeans ==
  FirstEntryWins <=>
    (calls = 1 /\ pc \in {"build", "insert", "edit"} /\ env.term \notin Xterms => AllFromFirst)
BY DEF FirstEntryWins, AllFromFirst, FromFirst, Usable

LEMMA SameRank ==
  ASSUME env' = env, NEW dir
  PROVE  Rank(dir)' = Rank(dir)
BY DEF Rank, SelectInSeq

LEMMA SameUsable ==
  ASSUME env' = env, disk' = disk
  PROVE  Usable' = Usable
<1>1. Places' = Places
  BY DEF Places
<1>2. \A dir : Rank(dir)' = Rank(dir)
  BY SameRank
<1> QED BY <1>1, <1>2 DEF Usable

LEMMA NothingFromFirst ==
  ASSUME NEW indices, env.term = Unset \/ Usable = {}
  PROVE  FromFirst(Nothing(indices), indices)
BY DEF FromFirst, Nothing

LEMMA UnfilledFromFirst ==
  ASSUME Unfilled, env.term = Unset \/ Usable = {}
  PROVE  AllFromFirst
BY NothingFromFirst DEF AllFromFirst, Unfilled

LEMMA EntryFromFirst ==
  ASSUME NEW first, Usable = {first}, env.term # Unset,
         disk[first].strings \in Seq(Found), NEW found \in Lookups(disk[first].strings),
         NEW indices \in {InputIdx, CustomIdx, OutputIdx, SpecialIdx}
  PROVE  FromFirst(Table(found, indices), indices)
<1> SUFFICES ASSUME NEW i \in 1..Len(indices), indices[i] < Len(disk[first].strings)
             PROVE  Table(found, indices)[i] = disk[first].strings[indices[i] + 1]
  BY DEF FromFirst
<1>1. indices \in Seq(Nat)
  BY TerminfoAssumption
<1>2. indices[i] \in ToSet(indices)
  BY <1>1, LenProperties DEF ToSet
<1>3. indices[i] \in Indices
  BY <1>2 DEF Indices
<1>4. Table(found, indices)[i] = found[indices[i]]
  BY DEF Table
<1> QED BY <1>3, <1>4, LookupsType

-----------------------------------------------------------------------------
LEMMA FirstInit == Init => FirstInv
<1> SUFFICES ASSUME Init PROVE FirstInv
  OBVIOUS
<1>1. pc = "out" /\ calls = 0 /\ ~attempted_load /\ Unfilled
  BY DEF Init, Unfilled
<1>2. FirstEntryWins
  BY <1>1, FirstMeans
<1> QED BY <1>1, <1>2 DEF FirstInv, TriedInv

(* While the environment, the databases and what was found stay, so does     *)
(* the result of the search.                                                 *)
LEMMA ResultKept ==
  ASSUME FirstInv, UNCHANGED <<env, disk, tables, caps, calls>>,
         pc \in {"build", "insert", "edit"} \/ pc' \notin {"build", "insert", "edit"}
  PROVE  FirstEntryWins'
<1>1. Usable' = Usable
  BY SameUsable
<1>2. tables' = tables /\ outputs' = outputs /\ specials' = specials /\ env' = env /\ disk' = disk
  BY DEF caps
<1>3. AllFromFirst => AllFromFirst'
  BY <1>1, <1>2 DEF AllFromFirst, FromFirst
<1>4. (FirstEntryWins <=>
         (calls = 1 /\ pc \in {"build", "insert", "edit"} /\ env.term \notin Xterms
            => AllFromFirst))'
  BY FirstMeans, PTL
<1> QED BY <1>2, <1>3, <1>4, FirstMeans DEF FirstInv

LEMMA NotFoundFirst ==
  ASSUME TreeInv, SearchInv, FirstInv, NotFound
  PROVE  AllFromFirst /\ UNCHANGED <<env, disk, tables, caps, calls>>
<1>1. pc = "search" /\ path = <<>> /\ Unfilled /\ env \in Envs
  BY DEF NotFound, FirstInv, TreeInv, Typed
<1>2. PICK n \in 0..Len(PathOf) : /\ path = SubSeq(PathOf, n + 1, Len(PathOf))
                                  /\ \A m \in 1..n : disk[PathOf[m]] = NoEntry
  BY <1>1 DEF FirstInv, TriedInv
<1>3. PathOf \in Seq(Dirs)
  BY <1>1, PathType DEF PathOf
<1>4. n = Len(PathOf)
  BY <1>1, <1>2, <1>3, HeadOfRest
<1>5. Usable = {}
  <2> SUFFICES ASSUME NEW dir \in Places PROVE FALSE
    BY DEF Usable
  <2>1. PICK m \in 1..Len(PathOf) : PathOf[m] = dir
    BY <1>1, PlaceOnPath
  <2> QED BY <1>2, <1>4, <2>1 DEF Places
<1> QED BY <1>1, <1>5, UnfilledFromFirst DEF NotFound, LoadFails, tree

(* The entry that is read is the first one. *)
LEMMA ReadFirst ==
  ASSUME TreeInv, SearchInv, FirstInv, pc = "search", path # <<>>, disk[Head(path)] # NoEntry
  PROVE  /\ Usable \subseteq {Head(path)}
         /\ disk[Head(path)].parses => Usable = {Head(path)}
         /\ Usable # {} => disk[Head(path)].parses
         /\ env.term # Unset
<1>1. env \in Envs /\ env.term # Unset
  BY DEF TreeInv, Typed, FirstInv, TriedInv
<1>2. PICK n \in 0..Len(PathOf) : /\ path = SubSeq(PathOf, n + 1, Len(PathOf))
                                  /\ \A m \in 1..n : disk[PathOf[m]] = NoEntry
  BY DEF FirstInv, TriedInv
<1>3. PathOf \in Seq(Dirs) /\ Len(PathOf) \in Nat
  BY <1>1, PathType, LenProperties DEF PathOf
<1>4. n # Len(PathOf) /\ (n < Len(PathOf) => Head(path) = PathOf[n + 1])
  BY <1>2, <1>3, HeadOfRest
<1>5. n + 1 \in 1..Len(PathOf) /\ (n + 1) - 1 = n /\ Head(path) = PathOf[n + 1]
  BY <1>3, <1>4
<1>6. /\ Head(path) \in Places
      /\ \A other \in Places : Rank(Head(path)) <= Rank(other)
      /\ \A dir \in Places :
           (\A other \in Places : Rank(dir) <= Rank(other)) => dir = Head(path)
  BY <1>1, <1>2, <1>5, FirstOfPlaces
<1> QED BY <1>1, <1>6 DEF Usable

LEMMA BadEntryFirst ==
  ASSUME TreeInv, SearchInv, FirstInv, BadEntry
  PROVE  AllFromFirst /\ UNCHANGED <<env, disk, tables, caps, calls>>
<1>1. Unfilled
  BY DEF BadEntry, FirstInv
<1>2. ~disk[Head(path)].parses
  BY DEF BadEntry, Refused
<1>3. Usable = {}
  BY <1>2, ReadFirst DEF BadEntry
<1> QED BY <1>1, <1>3, UnfilledFromFirst DEF BadEntry, LoadFails, tree

LEMMA LoadEntryFirst ==
  ASSUME TreeInv, SearchInv, FirstInv, LoadEntry
  PROVE  AllFromFirst'
<1> DEFINE first == Head(path)
<1>1. Usable = {first} /\ env.term # Unset
  BY ReadFirst DEF LoadEntry, Refused
<1>2. env' = env /\ disk' = disk
  BY DEF LoadEntry
<1>3. Usable' = Usable
  BY <1>2, SameUsable
<1>4. PICK found \in Lookups(disk[first].strings) : Fill(found)
  BY DEF LoadEntry
<1>9. disk[first].strings \in Seq(Found)
  BY HeadTailProperties DEF LoadEntry, TreeInv, Typed, Entry
<1>5. \A indices \in {InputIdx, CustomIdx, OutputIdx, SpecialIdx} :
        FromFirst(Table(found, indices), indices)
  BY <1>1, <1>9, EntryFromFirst
<1>6. /\ tables'.inputs = Table(found, InputIdx) /\ tables'.customs = Table(found, CustomIdx)
      /\ outputs' = Table(found, OutputIdx) /\ specials' = Table(found, SpecialIdx)
  BY <1>4 DEF Fill
<1> HIDE DEF first
<1> DEFINE From(f, indices) ==
             \A i \in 1..Len(indices) :
               IF env'.term = Unset \/ Usable' = {} THEN f[i] = NoKey
               ELSE \A dir \in Usable' :
                      indices[i] < Len(disk'[dir].strings) =>
                        f[i] = disk'[dir].strings[indices[i] + 1]
<1>7. \A f, indices : FromFirst(f, indices) => From(f, indices)
  BY <1>2, <1>3 DEF FromFirst
<1> HIDE DEF From
<1>8. /\ From(tables'.inputs, InputIdx) /\ From(tables'.customs, CustomIdx)
      /\ From(outputs', OutputIdx) /\ From(specials', SpecialIdx)
  BY <1>5, <1>6, <1>7
<1> QED BY <1>8 DEF AllFromFirst, FromFirst, From

LEMMA TryNextTries ==
  ASSUME TreeInv, FirstInv, TryNext
  PROVE  TriedInv'
<1>1. env \in Envs /\ env.term # Unset /\ pc = "search"
  BY DEF TryNext, TreeInv, Typed, FirstInv, TriedInv
<1>2. PICK n \in 0..Len(PathOf) : /\ path = SubSeq(PathOf, n + 1, Len(PathOf))
                                  /\ \A m \in 1..n : disk[PathOf[m]] = NoEntry
  BY <1>1 DEF FirstInv, TriedInv
<1>3. PathOf \in Seq(Dirs) /\ Len(PathOf) \in Nat
  BY <1>1, PathType, LenProperties DEF PathOf
<1>4. n # Len(PathOf)
  BY <1>2, <1>3, HeadOfRest DEF TryNext
<1>5. n < Len(PathOf) /\ n + 1 \in 0..Len(PathOf)
  BY <1>3, <1>4
<1>6. Head(path) = PathOf[n + 1] /\ Tail(path) = SubSeq(PathOf, n + 2, Len(PathOf))
  BY <1>2, <1>3, <1>5, HeadOfRest
<1>7. \A m \in 1..(n + 1) : disk[PathOf[m]] = NoEntry
  <2>1. disk[PathOf[n + 1]] = NoEntry
    BY <1>6 DEF TryNext
  <2>2. \A m \in 1..(n + 1) : m = n + 1 \/ m \in 1..n
    BY <1>3
  <2> QED BY <1>2, <2>1, <2>2
<1>8. env' = env /\ disk' = disk /\ PathOf' = PathOf /\ path' = Tail(path)
  BY DEF TryNext, PathOf, SearchPath
<1>9. n + 2 = (n + 1) + 1
  BY <1>3
<1>10. path' = SubSeq(PathOf, (n + 1) + 1, Len(PathOf))
  BY <1>6, <1>8, <1>9
<1> QED BY <1>1, <1>5, <1>7, <1>8, <1>10 DEF TriedInv

LEMMA FirstNext ==
  ASSUME SearchInv, TreeInv, FirstInv, [Next]_vars
  PROVE  FirstInv'
<1>1. (FirstEntryWins <=>
         (calls = 1 /\ pc \in {"build", "insert", "edit"} /\ env.term \notin Xterms
            => AllFromFirst))'
  BY FirstMeans, PTL
<1>2. calls \in Nat
  BY DEF SearchInv
<1>3. CASE Call
  <2>1. calls' # 0
    BY <1>2, <1>3 DEF Call
  <2>2. calls = 0 => pc' = "load"
    BY <1>3 DEF Call, Cached, FirstInv
  <2>3. calls' = 1 => calls = 0
    BY <1>2, <1>3 DEF Call
  <2>4. pc' \in {"load", "search"} => calls = 0
    BY <1>3 DEF Call, Cached, SearchInv
  <2>5. calls = 0 => Unfilled'
    BY <1>3 DEF Call, FirstInv, Unfilled, tree, caps
  <2>6. pc' # "search"
    BY <1>3 DEF Call
  <2> QED BY <1>1, <2>1, <2>2, <2>3, <2>4, <2>5, <2>6 DEF FirstInv, TriedInv
<1>4. CASE LoadUnset
  <2>1. pc = "load" /\ pc' = "edit" /\ calls' = calls /\ calls # 0
    BY <1>4 DEF LoadUnset, LoadFails, SearchInv
  <2>2. Unfilled' /\ env'.term = Unset
    BY <1>4 DEF LoadUnset, LoadFails, tree, caps, FirstInv, Unfilled
  <2>3. (Unfilled /\ (env.term = Unset \/ Usable = {}) => AllFromFirst)'
    BY UnfilledFromFirst, PTL
  <2> QED BY <1>1, <2>1, <2>2, <2>3 DEF FirstInv, TriedInv
<1>5. CASE LoadFast
  <2>1. pc' = "build" /\ calls' = calls /\ calls # 0 /\ env'.term \in Xterms
    BY <1>5 DEF LoadFast, SearchInv
  <2> QED BY <1>1, <2>1 DEF FirstInv, TriedInv
<1>6. CASE LoadSearch
  <2>1. pc' = "search" /\ calls' = calls /\ calls # 0 /\ env' = env /\ env.term # Unset
        /\ path' = PathOf /\ PathOf' = PathOf
    BY <1>6 DEF LoadSearch, SearchInv, PathOf, SearchPath
  <2>2. Unfilled'
    BY <1>6 DEF LoadSearch, tree, caps, FirstInv, Unfilled
  <2>3. PathOf \in Seq(Dirs) /\ Len(PathOf) \in Nat
    BY PathType, LenProperties DEF PathOf, TreeInv, Typed
  <2>4. PathOf = SubSeq(PathOf, 0 + 1, Len(PathOf))
    BY <2>3, SubSeqFull
  <2>5. 0 \in 0..Len(PathOf) /\ \A m \in 1..0 : disk'[PathOf[m]] = NoEntry
    BY <2>3
  <2>6. TriedInv'
    BY <2>1, <2>4, <2>5 DEF TriedInv
  <2> QED BY <1>1, <2>1, <2>2, <2>6 DEF FirstInv
<1>7. CASE TryNext
  <2>1. pc' = "search" /\ calls' = calls /\ calls # 0
    BY <1>7 DEF TryNext, SearchInv
  <2>2. Unfilled'
    BY <1>7 DEF TryNext, tree, caps, FirstInv, Unfilled
  <2> QED BY <1>1, <1>7, <2>1, <2>2, TryNextTries DEF FirstInv
<1>8. CASE NotFound \/ BadEntry
  <2>1. AllFromFirst /\ UNCHANGED <<env, disk, tables, caps, calls>>
    BY <1>8, NotFoundFirst, BadEntryFirst
  <2>2. pc' = "edit" /\ calls # 0
    BY <1>8 DEF NotFound, BadEntry, LoadFails, SearchInv
  <2>3. Usable' = Usable
    BY <2>1, SameUsable
  <2>4. AllFromFirst'
    BY <2>1, <2>3 DEF AllFromFirst, FromFirst, caps
  <2> QED BY <1>1, <2>1, <2>2, <2>4 DEF FirstInv, TriedInv
<1>9. CASE LoadEntry
  <2>1. pc' = "build" /\ calls' = calls /\ calls # 0
    BY <1>9 DEF LoadEntry, SearchInv
  <2> QED BY <1>1, <1>9, <2>1, LoadEntryFirst DEF FirstInv, TriedInv
<1>10. CASE Build \/ InsertKey \/ Built \/ Crash \/ Return
  <2>1. /\ UNCHANGED <<env, disk, tables, caps, calls>> /\ calls # 0
        /\ pc' \notin {"load", "search"}
        /\ pc \in {"build", "insert", "edit"}
    BY <1>10 DEF Build, StartBuild, InsertKey, Insert, Skip, Built, Crash, Return, tree, SearchInv
  <2>2. FirstEntryWins'
    BY <2>1, ResultKept
  <2> QED BY <2>1, <2>2 DEF FirstInv, TriedInv
<1>11. CASE UNCHANGED vars
  <2>1. UNCHANGED <<env, disk, tables, caps, calls>> /\ pc' = pc /\ path' = path
        /\ attempted_load' = attempted_load
    BY <1>11 DEF vars, tree, cache
  <2>2. FirstEntryWins'
    BY <2>1, ResultKept
  <2>3. PathOf' = PathOf
    BY <2>1 DEF PathOf, SearchPath
  <2>4. TriedInv'
    BY <2>1, <2>3 DEF FirstInv, TriedInv
  <2> QED BY <2>1, <2>2, <2>4 DEF FirstInv, Unfilled, caps
<1> QED BY <1>3, <1>4, <1>5, <1>6, <1>7, <1>8, <1>9, <1>10, <1>11 DEF Next

(* Whatever the environment names and the databases hold, the first call     *)
(* takes its capabilities from the first entry in the documented order of    *)
(* places, and from that one alone: an entry that cannot be used ends the    *)
(* search, and a directory named twice counts where it comes first.          *)
THEOREM FirstEntryIsUsed == Spec => []FirstEntryWins
<1>1. SearchInv /\ TreeInv /\ FirstInv /\ [Next]_vars => FirstInv'
  BY FirstNext
<1>2. FirstInv => FirstEntryWins
  BY DEF FirstInv
<1> QED BY <1>1, <1>2, SearchInit, SearchNext, TreeInit, TreeNext, FirstInit, PTL DEF Spec
=============================================================================
