---------------------------- MODULE NanorlProofs ----------------------------
(***************************************************************************)
(* What the main loop adds to the reader and the editor, for every set of  *)
(* keys, handlers and inputs and every size of the buffer, and what it     *)
(* takes over from the proofs about each of them.                          *)
(***************************************************************************)
EXTENDS Nanorl, TextLemmas

(* A sequence of whatever the buffer holds. *)
Sequence(s) == \E S : s \in Seq(S)

(* The counters count, ... *)
CountInv ==
  /\ rd_used \in Nat /\ rd_count \in Nat /\ rd_pending \in Nat
  /\ Sequence(input)
  /\ preload # NoPreload => Sequence(preload)
  /\ Sequence(uchars)

(* ... and a line that is not drawn has bytes behind it that are no event    *)
(* yet.                                                                      *)
DrawnInv == pc = "read" /\ dirty => rd_used < rd_count

Inv == CountInv /\ DrawnInv

-----------------------------------------------------------------------------
LEMMA AppendSequence ==
  ASSUME NEW s, Sequence(s), NEW x
  PROVE  Sequence(Append(s, x)) /\ Len(Append(s, x)) \in Nat
<1>1. PICK S : s \in Seq(S)
  BY DEF Sequence
<1>2. s \in Seq(S \cup {x})
  BY <1>1
<1>3. Append(s, x) \in Seq(S \cup {x}) /\ Len(Append(s, x)) \in Nat
  BY <1>2, AppendProperties, LenProperties
<1> QED BY <1>3 DEF Sequence

(* A sequence has a length, ... *)
LEMMA SequenceLen ==
  ASSUME NEW s, Sequence(s)
  PROVE  Len(s) \in Nat
BY LenProperties DEF Sequence

(* ... and what is cut out of it is one. *)
LEMMA CutSequence ==
  ASSUME NEW s, NEW m \in Int, NEW n \in Int
  PROVE  Sequence(SubSeq(s, m, n)) /\ Len(SubSeq(s, m, n)) \in Nat
<1> DEFINE S == {s[i] : i \in m..n}
<1>1. \A i \in m..n : s[i] \in S
  OBVIOUS
<1>2. SubSeq(s, m, n) \in Seq(S) /\ Len(SubSeq(s, m, n)) = IF m <= n THEN n - m + 1 ELSE 0
  <2> HIDE DEF S
  <2> QED BY <1>1, SubSeqProperties
<1> HIDE DEF S
<1>3. Len(SubSeq(s, m, n)) \in Nat
  BY <1>2
<1>4. Sequence(SubSeq(s, m, n))
  <2>1. SubSeq(s, m, n) \in Seq(S)
    BY <1>2
  <2> HIDE <1>2
  <2> QED BY <2>1 DEF Sequence
<1> QED BY <1>3, <1>4

(* A read puts its bytes behind the ones that are kept. *)
LEMMA ReadGrows ==
  ASSUME CountInv, NEW buf, NEW at \in Nat, R!ReadWrapper(buf, at)
  PROVE  /\ rd_count' \in Nat /\ rd_count' >= at
         /\ Sequence(input')
         /\ preload' # NoPreload => Sequence(preload')
<1> DEFINE room == R!Room(at)
<1>1. room \in Int
  BY ByteAssumption DEF R!Room
<1> HIDE DEF room
<1>2. CASE /\ preload # NoPreload
           /\ LET n == IF Len(preload) > room THEN room ELSE Len(preload)
              IN  /\ R!Deliver(buf, at, SubSeq(preload, 1, n))
                  /\ preload' = IF Len(preload) > room
                                THEN SubSeq(preload, n + 1, Len(preload)) ELSE NoPreload
           /\ UNCHANGED input
  <2> DEFINE n == IF Len(preload) > room THEN room ELSE Len(preload)
  <2>1. Len(preload) \in Int /\ n \in Int
    BY <1>1, <1>2, SequenceLen DEF CountInv
  <2>2. rd_count' = at + Len(SubSeq(preload, 1, n))
    BY <1>2 DEF R!Deliver
  <2>3. preload' \in {SubSeq(preload, n + 1, Len(preload)), NoPreload}
    BY <1>2
  <2> HIDE DEF n
  <2>4. Len(SubSeq(preload, 1, n)) \in Nat /\ Sequence(SubSeq(preload, n + 1, Len(preload)))
    BY <2>1, CutSequence
  <2>5. rd_count' \in Nat /\ rd_count' >= at
    <3> DEFINE size == Len(SubSeq(preload, 1, n))
    <3>1. rd_count' = at + size /\ size \in Nat
      BY <2>2, <2>4
    <3> HIDE DEF size
    <3> QED BY <3>1
  <2>6. preload' # NoPreload => Sequence(preload')
    BY <2>3, <2>4
  <2>7. Sequence(input')
    BY <1>2 DEF CountInv
  <2> QED BY <2>5, <2>6, <2>7
<1>3. CASE /\ preload = NoPreload
           /\ \E n \in 1..room : /\ n <= Len(input)
                                 /\ R!Deliver(buf, at, SubSeq(input, 1, n))
                                 /\ input' = SubSeq(input, n + 1, Len(input))
           /\ UNCHANGED preload
  <2>1. PICK n \in 1..room : /\ R!Deliver(buf, at, SubSeq(input, 1, n))
                             /\ input' = SubSeq(input, n + 1, Len(input))
    BY <1>3
  <2>2. n \in Int /\ Len(input) \in Int
    BY <1>1, SequenceLen DEF CountInv
  <2>3. Len(SubSeq(input, 1, n)) \in Nat /\ Sequence(input')
    BY <2>1, <2>2, CutSequence
  <2>4. rd_count' = at + Len(SubSeq(input, 1, n))
    BY <2>1 DEF R!Deliver
  <2> QED BY <1>3, <2>3, <2>4
<1>4. CASE /\ preload = NoPreload
           /\ R!Deliver(buf, at, R!EndMark)
           /\ UNCHANGED <<input, preload>>
  <2>1. rd_count' = at + 1
    BY <1>4 DEF R!Deliver, R!EndMark
  <2> QED BY <1>4, <2>1 DEF CountInv
<1> QED BY <1>2, <1>3, <1>4 DEF R!ReadWrapper, room

-----------------------------------------------------------------------------
LEMMA InvInit == Init => Inv
<1> SUFFICES ASSUME Init PROVE Inv
  OBVIOUS
<1>1. input \in Seq(Byte) /\ (preload # NoPreload => preload \in Seq(Byte))
  BY ByteAssumption DEF Init, R!Init
<1>2. uchars \in Seq({}) /\ rd_used = 0 /\ rd_count = 0 /\ rd_pending = 0
  BY DEF Init, R!Init
<1>3. ~dirty
  BY DEF Init, E!Init
<1> QED BY <1>1, <1>2, <1>3 DEF Inv, CountInv, DrawnInv, Sequence

(* A refill in the middle of an event keeps the bytes of that event. *)
LEMMA RefillInv ==
  ASSUME Inv, R!Refill, UNCHANGED lineVars
  PROVE  Inv'
<1>1. /\ rd_count' \in Nat /\ rd_count' >= rd_pending
      /\ Sequence(input') /\ (preload' # NoPreload => Sequence(preload'))
  BY ReadGrows DEF R!Refill, Inv, CountInv
<1>2. rd_used' = 0 /\ rd_pending' = rd_pending /\ uchars' = uchars
  BY DEF R!Refill, R!parsing
<1>3. rd_used + rd_pending = rd_count
  BY DEF R!Refill, R!Starved
<1>4. pc' = pc /\ dirty' = dirty
  BY DEF lineVars
<1> QED BY <1>1, <1>2, <1>3, <1>4 DEF Inv, CountInv, DrawnInv

(* The blocking read of nrl_io_read itself finds the line drawn. *)
LEMMA ReadPlainInv ==
  ASSUME Inv, R!ReadPlain, UNCHANGED lineVars
  PROVE  Inv'
<1>1. /\ rd_count' \in Nat
      /\ Sequence(input') /\ (preload' # NoPreload => Sequence(preload'))
  BY ReadGrows DEF R!ReadPlain, Inv
<1>2. rd_used' = 0 /\ rd_pending' = 0 /\ uchars' = <<>> /\ rd_count = rd_used
  BY DEF R!ReadPlain
<1>3. Sequence(uchars')
  BY <1>2 DEF Sequence
<1>4. pc' = pc /\ dirty' = dirty
  BY DEF lineVars
<1> QED BY <1>1, <1>2, <1>3, <1>4 DEF Inv, CountInv, DrawnInv

(* The steps that read nothing and return nothing. *)
LEMMA ParseInv ==
  ASSUME Inv, UNCHANGED lineVars,
         R!StartRead \/ R!DfaStep \/ R!StartUchar \/ R!UcharStep
  PROVE  Inv'
<1>1. UNCHANGED <<rd_count, rd_used, input, preload>>
  BY DEF R!StartRead, R!DfaStep, R!StartUchar, R!UcharStep, R!counts, R!source
<1>2. rd_pending' \in Nat
  BY DEF R!StartRead, R!DfaStep, R!StartUchar, R!UcharStep, R!counts, Inv, CountInv
<1>3. Sequence(uchars')
  <2>1. CASE uchars' = uchars
    BY <2>1 DEF Inv, CountInv
  <2>2. CASE uchars' = <<>>
    BY <2>2 DEF Sequence
  <2>3. CASE uchars' = Append(uchars, R!NextByte)
    BY <2>3, AppendSequence DEF Inv, CountInv
  <2> QED BY <2>1, <2>2, <2>3 DEF R!StartRead, R!DfaStep, R!StartUchar, R!UcharStep
<1>4. pc' = pc /\ dirty' = dirty
  BY DEF lineVars
<1> QED BY <1>1, <1>2, <1>3, <1>4 DEF Inv, CountInv, DrawnInv

(* What is returned leaves the counters in order. *)
LEMMA ReturnCounts ==
  ASSUME Inv, R!DfaAccept \/ R!UcharDone
  PROVE  CountInv'
<1>1. CASE R!DfaAccept
  BY <1>1 DEF R!DfaAccept, R!source, Inv, CountInv
<1>2. CASE R!UcharDone
  <2> DEFINE u == Append(uchars, R!NextByte)
  <2>1. Sequence(u) /\ Len(u) \in Nat
    BY AppendSequence DEF Inv, CountInv
  <2>2. /\ uchars' = u /\ rd_used' = rd_used + R!Consumed(u)
        /\ rd_pending' = 0 /\ UNCHANGED <<rd_count, input, preload>>
    BY <1>2 DEF R!UcharDone, R!source
  <2> HIDE DEF u
  <2>3. R!Consumed(u) \in Nat
    BY <2>1 DEF R!Consumed
  <2> QED BY <2>1, <2>2, <2>3 DEF Inv, CountInv
<1> QED BY <1>1, <1>2

(* Every answer to an event ends in the test that asks for a redraw, and     *)
(* asks it of the bytes that are left behind the event.                      *)
LEMMA KeyContinues ==
  ASSUME Key
  PROVE  E!Continue(More)
<1> DEFINE key == Last(events').value
<1>1. CASE EditKey(Meaning[key])
  BY <1>1 DEF EditKey, Or, E!EscapeLeft, E!EscapeRight, E!EscapeHome, E!EscapeEnd,
              E!EscapeDelete, E!EscapeBackspace, E!NoEffect
<1>2. CASE CustomKey(key)
  BY <1>2 DEF CustomKey, E!EvalCustom, E!NoEffect, E!InsertText
<1> QED BY <1>1, <1>2 DEF Key

(* Where the loop goes on to a read, the line is drawn or bytes are left. *)
LEMMA ContinueDrawn ==
  ASSUME E!Continue(More)
  PROVE  DrawnInv'
BY DEF E!Continue, More, DrawnInv

(* A redraw leaves nothing to draw. *)
LEMMA RedrawInv ==
  ASSUME Inv, Redraw
  PROVE  Inv'
<1>1. UNCHANGED <<rd_count, rd_used, rd_pending, input, preload, uchars>>
  BY DEF Redraw, byteVars
<1>2. dirty' = FALSE
  BY DEF Redraw, E!Redraw
<1> QED BY <1>1, <1>2 DEF Inv, CountInv, DrawnInv

(* Every step of a call keeps the invariant. *)
LEMMA InvNext == Inv /\ [Next]_vars => Inv'
<1> SUFFICES ASSUME Inv, [Next]_vars PROVE Inv'
  OBVIOUS
<1>1. CASE Reading
  BY <1>1, RefillInv, ReadPlainInv, ParseInv DEF Reading
<1>2. CASE Key
  <2>1. CountInv'
    BY <1>2, ReturnCounts DEF Key
  <2> QED BY <1>2, <2>1, KeyContinues, ContinueDrawn DEF Inv
<1>3. CASE Text
  <2>1. CountInv' /\ E!Continue(More)
    BY <1>3, ReturnCounts DEF Text, E!InsertText
  <2> QED BY <2>1, ContinueDrawn DEF Inv
<1>4. CASE Stop
  <2>1. CountInv' /\ pc' = "done"
    BY <1>4, ReturnCounts DEF Stop, E!ReadStop
  <2> QED BY <2>1 DEF Inv, DrawnInv
<1>5. CASE Redraw
  BY <1>5, RedrawInv
<1>6. CASE UNCHANGED vars
  BY <1>6 DEF vars, byteVars, lineVars, Inv, CountInv, DrawnInv, Sequence
<1> QED BY <1>1, <1>2, <1>3, <1>4, <1>5, <1>6 DEF Next

(* nanorl never waits for a key in front of a line that is not drawn, for    *)
(* every size of the buffer and every way read() cuts the input up.          *)
THEOREM DrawnBeforeWait == Spec => []ShownBeforeWait
<1>1. Inv => ShownBeforeWait
  BY DEF Inv, CountInv, DrawnInv, ShownBeforeWait, R!Starved
<1> QED BY <1>1, InvInit, InvNext, PTL DEF Spec

-----------------------------------------------------------------------------
(* The reader of a call is the reader on its own: what the main loop does    *)
(* with an event is never a step of it.                                      *)
THEOREM CallRefinesReader == Spec => R!Spec
<1>1. Init => R!Init
  BY DEF Init
<1>2. [Next]_vars => [R!Next]_(R!vars)
  <2> SUFFICES ASSUME [Next]_vars PROVE [R!Next]_(R!vars)
    OBVIOUS
  <2>1. CASE Reading
    BY <2>1 DEF Reading, R!Next
  <2>2. CASE Key \/ Text \/ Stop
    BY <2>2 DEF Key, Text, Stop, R!Next
  <2>3. CASE Redraw \/ UNCHANGED vars
    BY <2>3 DEF Redraw, vars, byteVars, R!vars, R!source, R!counts, R!parsing, R!calls
  <2> QED BY <2>1, <2>2, <2>3 DEF Next
<1> QED BY <1>1, <1>2, PTL DEF Spec, R!Spec

-----------------------------------------------------------------------------
(* What is proved of the reader on its own holds of the reader of a call. *)

RP == INSTANCE ReaderProofs WITH pc <- reading, Sessions <- 1

(* The constants of a call are ones the reader may have. *)
LEMMA ReaderConstants ==
  /\ BufSize \in Nat /\ BufSize >= 4
  /\ LeadLen \in [Byte -> 1..4]
  /\ {EOT, Newline, Nul} \subseteq Byte
  /\ Streams \subseteq Seq(Byte)
  /\ Preloads \ {NoPreload} \subseteq Seq(Byte)
  /\ NoPreload \notin Seq(Byte)
  /\ 1 \in Nat
  /\ Keys \subseteq Seq(Byte)
  /\ \A k \in Keys : Len(k) \in 1..BufSize
  /\ \A k, l \in Keys : RP!IsPrefix(k, l) => k = l
BY ByteAssumption DEF RP!IsPrefix, IsPrefix

(* Both instances of the reader begin, ... *)
LEMMA SameInit == RP!Init <=> R!Init
BY DEF RP!Init, R!Init

(* ... step, ... *)
LEMMA SameNext == RP!Next <=> R!Next
BY DEF RP!Next, R!Next, RP!StartRead, R!StartRead, RP!Refill, R!Refill, RP!DfaStep,
       R!DfaStep, RP!DfaAccept, R!DfaAccept, RP!ReadPlain, R!ReadPlain, RP!StartUchar,
       R!StartUchar, RP!UcharStep, R!UcharStep, RP!UcharDone, R!UcharDone, RP!NewSession,
       R!NewSession, RP!CountersReset, R!CountersReset, RP!Consumed, R!Consumed, RP!Bytes, R!Bytes,
       RP!CharEvent, R!CharEvent, RP!Valid, R!Valid, RP!Leaf, R!Leaf, RP!Node, R!Node,
       RP!NextByte, R!NextByte, RP!Starved, R!Starved, RP!Moved, R!Moved, RP!ReadWrapper,
       R!ReadWrapper, RP!Deliver, R!Deliver, RP!EndMark, R!EndMark, RP!Room, R!Room,
       RP!Stored, R!Stored, RP!source, RP!counts, RP!parsing, RP!calls, R!source, R!counts,
       R!parsing, R!calls, RP!IsPrefix, R!IsPrefix

(* ... and mean the same by whole input ... *)
LEMMA SameWhole == R!WholeInput <=> RP!WholeInput
BY DEF RP!WholeInput, R!WholeInput, RP!Tails, R!Tails, RP!TakenUp, R!TakenUp, RP!Inputs,
       R!Inputs, RP!Whole, R!Whole, RP!Valid, R!Valid, 
  RP!Node, R!Node, RP!IsPrefix, R!IsPrefix

(* ... and by faithful events. *)
LEMMA SameEvents == R!EventsFaithful <=> RP!EventsFaithful
BY DEF RP!EventsFaithful, R!EventsFaithful, RP!Decode, R!Decode, RP!PieceAt, R!PieceAt,
       RP!Decoded, R!Decoded, RP!IsPrefix, R!IsPrefix, 
  RP!Consumed, R!Consumed, RP!CharEvent, R!CharEvent, RP!Valid, R!Valid, RP!Min2, R!Min2

(* ... and stutter alike, ... *)
LEMMA SameStep == [RP!Next]_(RP!vars) <=> [R!Next]_(R!vars)
<1>1. UNCHANGED RP!vars <=> UNCHANGED R!vars
  BY DEF RP!vars, R!vars, RP!source, RP!counts, RP!parsing, RP!calls, R!source, R!counts,
         R!parsing, R!calls
<1> QED BY <1>1, SameNext

(* ... and so do its faithful events, for whole input. *)
LEMMA WholeEvents == ASSUME R!WholeInput PROVE Spec => []R!EventsFaithful
<1>1. Spec => R!Spec
  BY CallRefinesReader
<1>2. RP!WholeInput
  BY SameWhole
<1>3. RP!Spec => []RP!EventsFaithful
  BY <1>2, ReaderConstants, RP!WholeEventsFaithful
<1> QED BY <1>1, <1>3, SameStep, SameInit, SameEvents, PTL DEF RP!Spec, R!Spec

-----------------------------------------------------------------------------
(* Line, one event at a time *)

Nothing == Halves(<<>>, <<>>)

(* The body of the recursion of Line. *)
LineStep(all, f, i) == IF i = 0 THEN Nothing ELSE Edited(f[i - 1], all[i])

(* The recursion of Line has a solution. *)
LEMMA LineExists ==
  ASSUME NEW all, NEW m \in Nat
  PROVE  \E f : f = [i \in 0..m |-> LineStep(all, f, i)]
<1> DEFINE S == {k \in 0..m : \E f : f = [i \in 0..k |-> LineStep(all, f, i)]}
<1>1. 0 \in S
  <2> DEFINE f == [i \in 0..0 |-> Nothing]
  <2>1. f = [i \in 0..0 |-> LineStep(all, f, i)]
    BY DEF LineStep
  <2> HIDE DEF f
  <2>2. \E h : h = [i \in 0..0 |-> LineStep(all, h, i)]
    BY <2>1
  <2> QED BY <2>2
<1>2. ASSUME NEW k \in 0..m, k \in S, k < m PROVE k + 1 \in S
  <2>1. PICK f : f = [i \in 0..k |-> LineStep(all, f, i)]
    BY <1>2
  <2> DEFINE g == [i \in 0..(k + 1) |-> LineStep(all, f, i)]
  <2>2. ASSUME NEW i \in 0..k PROVE g[i] = f[i]
    <3>1. f[i] = LineStep(all, f, i)
      BY <2>1
    <3>2. i \in 0..(k + 1)
      BY <1>2
    <3> QED BY <3>1, <3>2
  <2>3. ASSUME NEW i \in 0..(k + 1) PROVE LineStep(all, g, i) = LineStep(all, f, i)
    <3>1. i # 0 => i - 1 \in 0..k
      BY <1>2
    <3> HIDE DEF g
    <3> QED BY <2>2, <3>1 DEF LineStep
  <2>4. g = [i \in 0..(k + 1) |-> LineStep(all, f, i)]
    OBVIOUS
  <2> HIDE DEF g
  <2>5. g = [i \in 0..(k + 1) |-> LineStep(all, g, i)]
    BY <2>3, <2>4
  <2>6. \E h : h = [i \in 0..(k + 1) |-> LineStep(all, h, i)]
    BY <2>5
  <2>7. k + 1 \in 0..m
    BY <1>2
  <2> QED BY <2>6, <2>7
<1>3. m \in S
  <2> HIDE DEF S
  <2>1. \A k \in 0..m : k \in S /\ k < m => k + 1 \in S
    BY <1>2
  <2>2. \A k \in 0..m : k \in S
    BY <1>1, <2>1, Counting
  <2> QED BY <2>2
<1> QED BY <1>3

(* Line as the halves after each of the events. *)
LEMMA LineRun ==
  ASSUME NEW all, Len(all) \in Nat
  PROVE  \E run : /\ run[0] = Nothing /\ Line(all) = run[Len(all)]
                  /\ \A i \in 1..Len(all) : run[i] = Edited(run[i - 1], all[i])
<1> DEFINE m == Len(all)
           run == CHOOSE f : f = [i \in 0..m |-> LineStep(all, f, i)]
<1>1. Line(all) = run[m]
  BY DEF Line, LineStep, Nothing
<1>2. run = [i \in 0..m |-> LineStep(all, run, i)]
  <2> HIDE DEF m
  <2>1. m \in Nat
    BY DEF m
  <2> QED BY <2>1, LineExists
<1> HIDE DEF run
<1>3. run[0] = Nothing
  BY <1>2 DEF LineStep
<1>4. ASSUME NEW i \in 1..m PROVE run[i] = Edited(run[i - 1], all[i])
  <2>1. i \in 0..m /\ i # 0
    OBVIOUS
  <2>2. run[i] = LineStep(all, run, i)
    BY <1>2, <2>1
  <2> QED BY <2>1, <2>2 DEF LineStep
<1> QED BY <1>1, <1>3, <1>4

(* One more event is one more edit. *)
LEMMA LineGrows ==
  ASSUME NEW S, NEW all \in Seq(S), NEW e \in S
  PROVE  Line(Append(all, e)) = Edited(Line(all), e)
<1> DEFINE n == Len(all)
           more == Append(all, e)
<1>1. /\ n \in Nat /\ Len(more) = n + 1 /\ more[n + 1] = e
      /\ \A i \in 1..n : more[i] = all[i]
  BY LenProperties, AppendProperties
<1> HIDE DEF n, more
<1>2. PICK f : /\ f[0] = Nothing /\ Line(all) = f[n]
               /\ \A i \in 1..n : f[i] = Edited(f[i - 1], all[i])
  BY <1>1, LineRun DEF n
<1>3. PICK g : /\ g[0] = Nothing /\ Line(more) = g[n + 1]
               /\ \A i \in 1..(n + 1) : g[i] = Edited(g[i - 1], more[i])
  <2>1. Len(more) \in Nat
    BY <1>1
  <2>2. PICK g : /\ g[0] = Nothing /\ Line(more) = g[Len(more)]
                 /\ \A i \in 1..Len(more) : g[i] = Edited(g[i - 1], more[i])
    BY <2>1, LineRun
  <2> QED BY <1>1, <2>2
<1> DEFINE T == {i \in 0..n : g[i] = f[i]}
<1>4. 0 \in T
  BY <1>1, <1>2, <1>3
<1>5. ASSUME NEW i \in 0..n, i \in T, i < n PROVE i + 1 \in T
  <2>1. i + 1 \in 1..n /\ i + 1 \in 1..(n + 1) /\ (i + 1) - 1 = i /\ i + 1 \in 0..n
    BY <1>1, <1>5
  <2>2. g[i + 1] = Edited(g[i], more[i + 1])
    BY <1>3, <2>1
  <2>3. f[i + 1] = Edited(f[i], all[i + 1])
    BY <1>2, <2>1
  <2>4. more[i + 1] = all[i + 1] /\ g[i] = f[i]
    BY <1>1, <1>5, <2>1
  <2> QED BY <2>1, <2>2, <2>3, <2>4
<1>6. n \in T
  <2> HIDE DEF T
  <2>1. \A i \in 0..n : i \in T /\ i < n => i + 1 \in T
    BY <1>5
  <2>2. \A i \in 0..n : i \in T
    BY <1>1, <1>4, <2>1, Counting
  <2> QED BY <1>1, <2>2
<1>7. g[n] = Line(all)
  BY <1>2, <1>6
<1>8. g[n + 1] = Edited(g[n], more[n + 1])
  <2>1. n + 1 \in 1..(n + 1) /\ (n + 1) - 1 = n
    BY <1>1
  <2> QED BY <1>3, <2>1
<1> QED BY <1>1, <1>3, <1>7, <1>8 DEF more

(* Nothing typed is an empty line. *)
LEMMA LineOfNothing == Line(<<>>) = Nothing
<1>1. PICK run : run[0] = Nothing /\ Line(<<>>) = run[Len(<<>>)]
  <2>1. Len(<<>>) \in Nat
    OBVIOUS
  <2> QED BY <2>1, LineRun
<1>2. Len(<<>>) = 0
  OBVIOUS
<1> QED BY <1>1, <1>2

(* Without an event and with the same echo mode the reference stays. *)
LEMMA LineSame ==
  ASSUME UNCHANGED <<events, echo_mode>>
  PROVE  Line(events)' = Line(events)
BY DEF Line, Edited, CustomEdited, Handled, KeyEdited, Halves, Printed, Characters,
       R!CharEvent, R!Valid

-----------------------------------------------------------------------------
(* What is inserted is characters *)

(* A decoded text, an error character or "^X" is made of characters. *)
LEMMA CharactersType ==
  ASSUME NEW u \in Seq(Byte), Len(u) >= 1, R!Valid(u) => Len(u) = 1 \/ u \in Char
  PROVE  Characters(R!CharEvent(u).value) \in Seq(Char)
<1> DEFINE value == R!CharEvent(u).value
           W == Byte \cup {"^"}
<1>1. Len(u) \in Nat /\ 1 \in 1..Len(u)
  BY LenProperties
<1>2. u[1] \in Byte
  BY <1>1, ElementOfSeq
<1>3. <<u[1]>> \in Char /\ <<"^">> \in Char /\ <<"error">> \in Char /\ u[1] # "^"
  BY <1>2, CharAssumption
<1>4. /\ value \in {<<"error">>, u, <<"^">> \o u}
      /\ (value \in {u, <<"^">> \o u} => value = <<"error">> \/ R!Valid(u))
  <2>1. CASE ~R!Valid(u)
    BY <2>1 DEF R!CharEvent
  <2>2. CASE R!Valid(u)
    BY <2>2 DEF R!CharEvent
  <2> QED BY <2>1, <2>2
<1> HIDE DEF value
<1>5. CASE value = <<"error">>
  <2>1. value[1] # "^"
    BY <1>5
  <2>2. Characters(value) = <<value>>
    BY <2>1 DEF Characters
  <2>3. <<value>> \in Seq(Char)
    BY <1>3, <1>5
  <2> QED BY <2>2, <2>3 DEF value
<1>6. CASE value = u /\ R!Valid(u)
  <2>1. u \in Char
    <3>1. CASE Len(u) = 1
      <4>1. u = <<u[1]>>
        BY <3>1
      <4> QED BY <1>3, <4>1
    <3> QED BY <1>6, <3>1
  <2>2. value[1] # "^"
    BY <1>3, <1>6
  <2>3. Characters(value) = <<value>>
    BY <2>2 DEF Characters
  <2>4. <<u>> \in Seq(Char)
    BY <2>1
  <2> QED BY <1>6, <2>3, <2>4 DEF value
<1>7. CASE value = <<"^">> \o u
  <2> DEFINE x == <<"^">>
  <2>1. x \in Seq(W) /\ u \in Seq(W) /\ Len(x) = 1 /\ x[1] = "^"
    OBVIOUS
  <2> HIDE DEF x, W
  <2>2. /\ \A i \in 1..Len(x) : (x \o u)[i] = x[i]
        /\ \A i \in 1..Len(u) : (x \o u)[Len(x) + i] = u[i]
    <3>1. /\ Len(x) \in Nat /\ Len(u) \in Nat
          /\ \A i \in 1..(Len(x) + Len(u)) :
               (x \o u)[i] = IF i <= Len(x) THEN x[i] ELSE u[i - Len(x)]
      BY <2>1, LenProperties, ConcatProperties
    <3>2. ASSUME NEW i \in 1..Len(u)
          PROVE  /\ Len(x) + i \in 1..(Len(x) + Len(u))
                 /\ ~(Len(x) + i <= Len(x)) /\ Len(x) + i - Len(x) = i
      BY <3>1
    <3>3. \A i \in 1..Len(x) : i \in 1..(Len(x) + Len(u)) /\ i <= Len(x)
      BY <3>1
    <3> QED BY <3>1, <3>2, <3>3
  <2>3. (x \o u)[1] = "^"
    BY <2>1, <2>2
  <2>4. (x \o u)[2] = u[1]
    BY <1>1, <2>1, <2>2
  <2>5. value[1] = "^" /\ value[2] = u[1]
    BY <1>7, <2>3, <2>4 DEF x
  <2>6. Characters(value) = <<<<"^">>, <<u[1]>>>>
    BY <2>5 DEF Characters
  <2> QED BY <1>3, <2>6 DEF value
<1> QED BY <1>4, <1>5, <1>6, <1>7

(* The body of the recursion of FlattenSeq. *)
FlatStep(seqs, f, i) == IF i = 1 THEN seqs[i] ELSE f[i - 1] \o seqs[i]

(* The recursion of FlattenSeq has a solution. *)
LEMMA FlatExists ==
  ASSUME NEW seqs, NEW m \in Nat
  PROVE  \E f : f = [i \in 1..m |-> FlatStep(seqs, f, i)]
<1> DEFINE S == {k \in 0..m : \E f : f = [i \in 1..k |-> FlatStep(seqs, f, i)]}
<1>1. 0 \in S
  <2> DEFINE f == [i \in 1..0 |-> <<>>]
  <2>1. f = [i \in 1..0 |-> FlatStep(seqs, f, i)]
    OBVIOUS
  <2> HIDE DEF f
  <2>2. \E h : h = [i \in 1..0 |-> FlatStep(seqs, h, i)]
    BY <2>1
  <2>3. 0 \in 0..m
    OBVIOUS
  <2> QED BY <2>2, <2>3
<1>2. ASSUME NEW k \in 0..m, k \in S, k < m PROVE k + 1 \in S
  <2>1. PICK f : f = [i \in 1..k |-> FlatStep(seqs, f, i)]
    BY <1>2
  <2> DEFINE g == [i \in 1..(k + 1) |-> FlatStep(seqs, f, i)]
  <2>2. ASSUME NEW i \in 1..k PROVE g[i] = f[i]
    <3>1. f[i] = FlatStep(seqs, f, i)
      BY <2>1
    <3>2. i \in 1..(k + 1)
      BY <1>2
    <3> QED BY <3>1, <3>2
  <2>3. ASSUME NEW i \in 1..(k + 1) PROVE FlatStep(seqs, g, i) = FlatStep(seqs, f, i)
    <3>1. i # 1 => i - 1 \in 1..k
      BY <1>2
    <3> HIDE DEF g
    <3> QED BY <2>2, <3>1 DEF FlatStep
  <2>4. g = [i \in 1..(k + 1) |-> FlatStep(seqs, f, i)]
    OBVIOUS
  <2> HIDE DEF g
  <2>5. g = [i \in 1..(k + 1) |-> FlatStep(seqs, g, i)]
    BY <2>3, <2>4
  <2>6. \E h : h = [i \in 1..(k + 1) |-> FlatStep(seqs, h, i)]
    BY <2>5
  <2>7. k + 1 \in 0..m
    BY <1>2
  <2> QED BY <2>6, <2>7
<1>3. m \in S
  <2> HIDE DEF S
  <2>1. \A k \in 0..m : k \in S /\ k < m => k + 1 \in S
    BY <1>2
  <2>2. \A k \in 0..m : k \in S
    BY <1>1, <2>1, Counting
  <2> QED BY <2>2
<1> QED BY <1>3

(* Texts flattened are a text. *)
LEMMA FlatType ==
  ASSUME NEW seqs \in Seq(Seq(Char)), Len(seqs) >= 1
  PROVE  FlattenSeq(seqs) \in Seq(Char)
<1> DEFINE n == Len(seqs)
           run == CHOOSE f : f = [i \in 1..n |-> FlatStep(seqs, f, i)]
<1>1. n \in Nat /\ n >= 1 /\ \A i \in 1..n : seqs[i] \in Seq(Char)
  BY LenProperties, ElementOfSeq
<1>2. FlattenSeq(seqs) = run[n]
  BY <1>1 DEF FlattenSeq, FlatStep
<1>3. run = [i \in 1..n |-> FlatStep(seqs, run, i)]
  <2> HIDE DEF n
  <2> QED BY <1>1, FlatExists
<1> HIDE DEF run, n
<1>4. ASSUME NEW i \in 1..n PROVE run[i] = FlatStep(seqs, run, i)
  BY <1>3
<1> DEFINE T == {k \in 0..n : k >= 1 => run[k] \in Seq(Char)}
<1>5. 0 \in T
  BY <1>1
<1>6. ASSUME NEW k \in 0..n, k \in T, k < n PROVE k + 1 \in T
  <2>1. k + 1 \in 1..n /\ k + 1 \in 0..n /\ (k + 1) - 1 = k /\ seqs[k + 1] \in Seq(Char)
    BY <1>1, <1>6
  <2>2. run[k + 1] = FlatStep(seqs, run, k + 1)
    BY <1>4, <2>1
  <2>3. CASE k = 0
    BY <2>1, <2>2, <2>3 DEF FlatStep
  <2>4. CASE k # 0
    <3>1. run[k + 1] = run[k] \o seqs[k + 1]
      <4>1. k + 1 # 1 /\ (k + 1) - 1 = k
        BY <1>6, <2>4
      <4> QED BY <2>2, <4>1 DEF FlatStep
    <3>2. run[k] \in Seq(Char)
      BY <1>6, <2>4
    <3>3. run[k + 1] \in Seq(Char)
      BY <2>1, <3>1, <3>2, ConcatProperties
    <3> QED BY <2>1, <3>3
  <2> QED BY <2>3, <2>4
<1>7. n \in T
  <2> HIDE DEF T
  <2>1. \A k \in 0..n : k \in T /\ k < n => k + 1 \in T
    BY <1>6
  <2>2. \A k \in 0..n : k \in T
    BY <1>1, <1>5, <2>1, Counting
  <2> QED BY <1>1, <2>2
<1> QED BY <1>1, <1>2, <1>7

(* What nanorl prints of a key nobody handles is a text. *)
LEMMA PrintedType ==
  ASSUME NEW key \in Keys
  PROVE  Printed(key) \in Seq(Char)
<1> DEFINE seqs == [i \in 1..Len(key) |-> Characters(R!CharEvent(<<key[i]>>).value)]
<1>1. key \in Seq(Byte) /\ Len(key) \in Nat /\ Len(key) >= 1
  BY ByteAssumption, LenProperties
<1>2. ASSUME NEW i \in 1..Len(key) PROVE Characters(R!CharEvent(<<key[i]>>).value) \in Seq(Char)
  <2>1. key[i] \in Byte
    BY <1>1, ElementOfSeq
  <2> DEFINE u == <<key[i]>>
  <2>2. u \in Seq(Byte) /\ Len(u) = 1 /\ Len(u) >= 1
    BY <2>1
  <2> HIDE DEF u
  <2>3. Characters(R!CharEvent(u).value) \in Seq(Char)
    BY <2>2, CharactersType
  <2> QED BY <2>3 DEF u
<1>3. seqs \in Seq(Seq(Char)) /\ Len(seqs) >= 1
  <2> DEFINE m == Len(key)
  <2>1. m \in Nat /\ m >= 1
    BY <1>1
  <2> HIDE DEF m
  <2>2. seqs = [i \in 1..m |-> Characters(R!CharEvent(<<key[i]>>).value)]
    BY DEF m
  <2>3. \A i \in 1..m : Characters(R!CharEvent(<<key[i]>>).value) \in Seq(Char)
    BY <1>2 DEF m
  <2> HIDE DEF seqs
  <2>4. seqs \in [1..m -> Seq(Char)]
    BY <2>2, <2>3
  <2> HIDE <2>2, <2>3
  <2>5. seqs \in Seq(Seq(Char)) /\ Len(seqs) = m
    BY <2>1, <2>4
  <2> QED BY <2>1, <2>5
<1>4. Printed(key) = FlattenSeq(seqs)
  BY DEF Printed
<1> QED BY <1>3, <1>4, FlatType

-----------------------------------------------------------------------------
(* The line and the events *)

(* What is before the cursor, and what is behind it. *)
Before == Upto(buffer, cursor)
After  == Beyond(buffer, cursor)

(* The line is a text and the cursor is in it. *)
TextInv == buffer \in Seq(Char) /\ cursor \in 0..Len(buffer)

(* The line is what the events say.  Not inductive by itself: that a text    *)
(* inserted is made of known characters needs UcharInv, below, and the       *)
(* reader's invariant.                                                       *)
EditInv ==
  /\ TextInv
  /\ Sequence(events)
  /\ Line(events) = Halves(Before, After)

(* The halves of the line are texts, and together the line. *)
LEMMA TextLengths ==
  ASSUME TextInv
  PROVE  /\ Len(buffer) \in Nat /\ cursor \in Nat /\ cursor <= Len(buffer)
         /\ Before \in Seq(Char) /\ Len(Before) = cursor /\ After \in Seq(Char)
         /\ Before \o After = buffer
         /\ cursor = 0 => Before = <<>>
         /\ cursor = Len(buffer) => After = <<>>
<1>1. buffer \in Seq(Char) /\ Len(buffer) \in Nat /\ cursor \in 0..Len(buffer)
  BY LenProperties DEF TextInv
<1>2. /\ Before \in Seq(Char) /\ Len(Before) = cursor
      /\ After \in Seq(Char) /\ Len(After) = Len(buffer) - cursor
  BY <1>1, CutType DEF Before, After
<1>3. Before \o After = buffer
  BY <1>1, CutJoin DEF Before, After
<1>4. cursor = 0 => Before = <<>>
  BY <1>2, EmptySeq
<1>5. cursor = Len(buffer) => After = <<>>
  <2>1. cursor = Len(buffer) => Len(After) = 0
    BY <1>1, <1>2
  <2> QED BY <1>2, <2>1, EmptySeq
<1> QED BY <1>1, <1>2, <1>3, <1>4, <1>5

(* Two texts joined at the cursor. *)
LEMMA Joined ==
  ASSUME NEW x \in Seq(Char), NEW y \in Seq(Char), buffer' = x \o y, cursor' = Len(x)
  PROVE  TextInv' /\ Before' = x /\ After' = y
<1>1. /\ Len(x) \in Nat /\ Len(y) \in Nat
      /\ x \o y \in Seq(Char) /\ Len(x \o y) = Len(x) + Len(y)
  BY LenProperties, ConcatProperties
<1>2. Upto(x \o y, Len(x)) = x /\ Beyond(x \o y, Len(x)) = y
  BY JoinCut
<1>3. cursor' \in 0..Len(buffer')
  BY <1>1
<1> QED BY <1>1, <1>2, <1>3 DEF TextInv, Before, After

(* nrl_manip_insert_text adds the text to the first half. *)
LEMMA Inserted ==
  ASSUME TextInv, NEW s \in Seq(Char), E!InsertText(s, More)
  PROVE  TextInv' /\ Before' = Before \o s /\ After' = After /\ echo_mode' = echo_mode
<1>1. /\ buffer' = (SubSeq(buffer, 1, cursor) \o s) \o SubSeq(buffer, cursor + 1, Len(buffer))
      /\ cursor' = cursor + Len(s) /\ echo_mode' = echo_mode
  BY DEF E!InsertText, E!Splice, E!Prefix, E!given
<1>2. Before \in Seq(Char) /\ Len(Before) = cursor /\ After \in Seq(Char)
  BY TextLengths
<1>3. Before \o s \in Seq(Char) /\ Len(Before \o s) = Len(Before) + Len(s)
  BY <1>2, ConcatProperties
<1>4. buffer' = (Before \o s) \o After
  BY <1>1 DEF Before, After, Upto, Beyond
<1>5. cursor' = Len(Before \o s)
  BY <1>1, <1>2, <1>3
<1> QED BY <1>1, <1>2, <1>3, <1>4, <1>5, Joined

(* A motion of the cursor in the line as it is. *)
LEMMA MovedCut ==
  ASSUME TextInv, NEW to \in 0..Len(buffer), cursor' = to, buffer' = buffer
  PROVE  TextInv' /\ Before' = Upto(buffer, to) /\ After' = Beyond(buffer, to)
BY DEF TextInv, Before, After

(* What leaves the line alone leaves its halves alone. *)
LEMMA Unmoved ==
  ASSUME TextInv, UNCHANGED <<buffer, cursor>>
  PROVE  TextInv' /\ Before' = Before /\ After' = After
BY DEF TextInv, Before, After

(* The character behind an index goes. *)
LEMMA Erased ==
  ASSUME TextInv, NEW i \in 0..(Len(buffer) - 1), buffer' = E!Erase(buffer, i), cursor' = i
  PROVE  TextInv' /\ Before' = Upto(buffer, i) /\ After' = Beyond(buffer, i + 1)
<1>1. i \in 0..Len(buffer) /\ i + 1 \in 0..Len(buffer) /\ (i + 1) + 1 = i + 2
  BY TextLengths
<1>2. /\ Upto(buffer, i) \in Seq(Char) /\ Len(Upto(buffer, i)) = i
      /\ Beyond(buffer, i + 1) \in Seq(Char)
  BY <1>1, CutType DEF TextInv
<1>3. buffer' = Upto(buffer, i) \o Beyond(buffer, i + 1)
  BY <1>1 DEF E!Erase, E!Prefix, Upto, Beyond
<1> QED BY <1>2, <1>3, Joined

(* A key does to the line what it does to its halves. *)
LEMMA KeyEdits ==
  ASSUME TextInv, NEW meaning \in Edits, EditKey(meaning)
  PROVE  /\ TextInv' /\ echo_mode' = echo_mode
         /\ Halves(Before', After') = KeyEdited(Halves(Before, After), meaning)
<1>1. /\ Len(buffer) \in Nat /\ cursor \in Nat /\ cursor <= Len(buffer) /\ buffer \in Seq(Char)
      /\ Before \in Seq(Char) /\ Before \o After = buffer
      /\ cursor = 0 => Before = <<>>
      /\ cursor = Len(buffer) => After = <<>>
  BY TextLengths DEF TextInv
<1>2. echo_mode' = echo_mode
  BY DEF EditKey, Or, E!EscapeLeft, E!EscapeRight, E!EscapeHome, E!EscapeEnd, E!EscapeDelete,
         E!EscapeBackspace, E!NoEffect, E!given
<1>3. ASSUME E!NoEffect(More) PROVE TextInv' /\ Before' = Before /\ After' = After
  BY <1>3, Unmoved DEF E!NoEffect, E!line
<1>4. CASE meaning = "left"
  <2>1. CASE cursor > 0
    <3>1. E!EscapeLeft(More)
      BY <1>4, <2>1 DEF EditKey, Or
    <3>2. buffer' = buffer /\ cursor' = cursor - 1
      BY <3>1 DEF E!EscapeLeft, E!MoveCursor
    <3>3. /\ cursor - 1 \in 0..(Len(buffer) - 1) /\ cursor - 1 \in 0..Len(buffer)
          /\ (cursor - 1) + 1 = cursor
      BY <1>1, <2>1
    <3>4. /\ Before # <<>> /\ Front(Before) = Upto(buffer, cursor - 1)
          /\ <<Last(Before)>> \o After = Beyond(buffer, cursor - 1)
      BY <1>1, <3>3, CutNext DEF Before, After
    <3>5. TextInv' /\ Before' = Front(Before) /\ After' = <<Last(Before)>> \o After
      BY <3>2, <3>3, <3>4, MovedCut
    <3> QED BY <1>2, <1>4, <3>4, <3>5 DEF KeyEdited, Halves
  <2>2. CASE ~(cursor > 0)
    <3>1. E!NoEffect(More)
      BY <1>4, <2>2 DEF EditKey, Or
    <3>2. Before = <<>>
      BY <1>1, <2>2
    <3> QED BY <1>2, <1>3, <1>4, <3>1, <3>2 DEF KeyEdited, Halves
  <2> QED BY <2>1, <2>2
<1>5. CASE meaning = "right"
  <2>1. CASE cursor < Len(buffer)
    <3>1. E!EscapeRight(More)
      BY <1>5, <2>1 DEF EditKey, Or
    <3>2. buffer' = buffer /\ cursor' = cursor + 1
      BY <3>1 DEF E!EscapeRight, E!MoveCursor
    <3>3. cursor \in 0..(Len(buffer) - 1) /\ cursor + 1 \in 0..Len(buffer)
      BY <1>1, <2>1
    <3>4. /\ After # <<>> /\ Upto(buffer, cursor + 1) = Append(Before, Head(After))
          /\ Beyond(buffer, cursor + 1) = Tail(After)
      BY <1>1, <3>3, CutNext DEF Before, After
    <3>5. TextInv' /\ Before' = Append(Before, Head(After)) /\ After' = Tail(After)
      BY <3>2, <3>3, <3>4, MovedCut
    <3> QED BY <1>2, <1>5, <3>4, <3>5 DEF KeyEdited, Halves
  <2>2. CASE ~(cursor < Len(buffer))
    <3>1. E!NoEffect(More)
      BY <1>5, <2>2 DEF EditKey, Or
    <3>2. cursor = Len(buffer)
      BY <1>1, <2>2
    <3>3. After = <<>>
      BY <1>1, <3>2
    <3> QED BY <1>2, <1>3, <1>5, <3>1, <3>3 DEF KeyEdited, Halves
  <2> QED BY <2>1, <2>2
<1>6. CASE meaning = "home"
  <2>1. buffer' = buffer /\ cursor' = 0 /\ 0 \in 0..Len(buffer)
    BY <1>1, <1>6 DEF EditKey, E!EscapeHome, E!MoveCursor
  <2>2. Upto(buffer, 0) = <<>> /\ Beyond(buffer, 0) = buffer
    BY <1>1, SubSeqEmpty, SubSeqFull DEF Upto, Beyond
  <2>3. TextInv' /\ Before' = <<>> /\ After' = Before \o After
    BY <1>1, <2>1, <2>2, MovedCut
  <2> QED BY <1>2, <1>6, <2>3 DEF KeyEdited, Halves
<1>7. CASE meaning = "end"
  <2>1. buffer' = buffer /\ cursor' = Len(buffer) /\ Len(buffer) \in 0..Len(buffer)
    BY <1>1, <1>7 DEF EditKey, E!EscapeEnd, E!MoveCursor
  <2>2. Upto(buffer, Len(buffer)) = buffer /\ Beyond(buffer, Len(buffer)) = <<>>
    BY <1>1, SubSeqEmpty, SubSeqFull DEF Upto, Beyond
  <2>3. TextInv' /\ Before' = Before \o After /\ After' = <<>>
    BY <1>1, <2>1, <2>2, MovedCut
  <2> QED BY <1>2, <1>7, <2>3 DEF KeyEdited, Halves
<1>8. CASE meaning = "delete"
  <2>1. CASE cursor < Len(buffer)
    <3>1. E!EscapeDelete(More)
      BY <1>8, <2>1 DEF EditKey, Or
    <3>2. buffer' = E!Erase(buffer, cursor) /\ cursor' = cursor
      BY <3>1 DEF E!EscapeDelete
    <3>3. cursor \in 0..(Len(buffer) - 1)
      BY <1>1, <2>1
    <3>4. After # <<>> /\ Beyond(buffer, cursor + 1) = Tail(After)
      BY <1>1, <3>3, CutNext DEF Before, After
    <3>5. TextInv' /\ Before' = Before /\ After' = Tail(After)
      <4>1. TextInv' /\ Before' = Upto(buffer, cursor) /\ After' = Beyond(buffer, cursor + 1)
        BY <3>2, <3>3, Erased
      <4> QED BY <3>4, <4>1 DEF Before
    <3> QED BY <1>2, <1>8, <3>4, <3>5 DEF KeyEdited, Halves
  <2>2. CASE ~(cursor < Len(buffer))
    <3>1. E!NoEffect(More)
      BY <1>8, <2>2 DEF EditKey, Or
    <3>2. cursor = Len(buffer)
      BY <1>1, <2>2
    <3>3. After = <<>>
      BY <1>1, <3>2
    <3> QED BY <1>2, <1>3, <1>8, <3>1, <3>3 DEF KeyEdited, Halves
  <2> QED BY <2>1, <2>2
<1>9. CASE meaning = "backspace"
  <2>1. CASE cursor > 0
    <3>1. E!EscapeBackspace(More)
      BY <1>9, <2>1 DEF EditKey, Or
    <3>2. buffer' = E!Erase(buffer, cursor - 1) /\ cursor' = cursor - 1
      BY <3>1 DEF E!EscapeBackspace, E!MoveCursor
    <3>3. cursor - 1 \in 0..(Len(buffer) - 1) /\ (cursor - 1) + 1 = cursor
      BY <1>1, <2>1
    <3>4. Before # <<>> /\ Front(Before) = Upto(buffer, cursor - 1)
      BY <1>1, <3>3, CutNext DEF Before
    <3>5. TextInv' /\ Before' = Front(Before) /\ After' = After
      <4>1. /\ TextInv' /\ Before' = Upto(buffer, cursor - 1)
            /\ After' = Beyond(buffer, (cursor - 1) + 1)
        BY <3>2, <3>3, Erased
      <4> QED BY <3>3, <3>4, <4>1 DEF After
    <3> QED BY <1>2, <1>9, <3>4, <3>5 DEF KeyEdited, Halves
  <2>2. CASE ~(cursor > 0)
    <3>1. E!NoEffect(More)
      BY <1>9, <2>2 DEF EditKey, Or
    <3>2. Before = <<>>
      BY <1>1, <2>2
    <3> QED BY <1>2, <1>3, <1>9, <3>1, <3>2 DEF KeyEdited, Halves
  <2> QED BY <2>1, <2>2
<1> QED BY <1>4, <1>5, <1>6, <1>7, <1>8, <1>9 DEF Edits

(* The reference after a step, as the reference of one event more. *)
LEMMA LinePrimed ==
  ASSUME NEW e, events' = Append(events, e), UNCHANGED echo_mode
  PROVE  Line(events)' = Line(Append(events, e))
BY DEF Line, Edited, CustomEdited, Handled, KeyEdited, Halves, Printed, Characters,
       R!CharEvent, R!Valid

(* A step that edits the halves as its event says keeps them in step. *)
LEMMA LineFollows ==
  ASSUME EditInv, NEW e, events' = Append(events, e), UNCHANGED echo_mode, TextInv',
         Halves(Before', After') = Edited(Halves(Before, After), e)
  PROVE  EditInv'
<1>1. PICK S : events \in Seq(S)
  BY DEF EditInv, Sequence
<1>2. events \in Seq(S \cup {e})
  BY <1>1
<1>3. Line(Append(events, e)) = Edited(Line(events), e)
  BY <1>2, LineGrows
<1>4. Line(events)' = Halves(Before', After')
  BY <1>3, LinePrimed DEF EditInv
<1>5. Sequence(events')
  BY AppendSequence DEF EditInv
<1> QED BY <1>4, <1>5 DEF EditInv, Halves

(* A step without an event that leaves the line alone does so as well. *)
LEMMA LineStays ==
  ASSUME EditInv, UNCHANGED <<events, echo_mode, buffer, cursor>>
  PROVE  EditInv'
<1>1. TextInv' /\ Before' = Before /\ After' = After
  BY Unmoved DEF EditInv
<1>2. Line(events)' = Line(events)
  BY LineSame
<1>3. Sequence(events')
  BY DEF EditInv
<1> QED BY <1>1, <1>2, <1>3 DEF EditInv, Halves

(* A call begins with no events and an empty line. *)
LEMMA EditInit == Init => EditInv
<1> SUFFICES ASSUME Init PROVE EditInv
  OBVIOUS
<1>1. events = <<>> /\ buffer = <<>> /\ cursor = 0
  BY DEF Init, R!Init, E!Init
<1>2. Len(<<>>) = 0 /\ <<>> \in Seq(Char)
  OBVIOUS
<1>3. TextInv
  BY <1>1, <1>2 DEF TextInv
<1>4. Before = <<>> /\ After = <<>>
  BY <1>1, <1>2, <1>3, TextLengths
<1>5. Sequence(events)
  BY <1>1, <1>2 DEF Sequence
<1> QED BY <1>1, <1>3, <1>4, <1>5, LineOfNothing DEF EditInv, Nothing

(* The event a step handles is the one the reader has just returned. *)
LEMMA LastOfAppend ==
  ASSUME NEW s, Sequence(s), NEW x
  PROVE  Last(Append(s, x)) = x
<1>1. PICK S : s \in Seq(S)
  BY DEF Sequence
<1>2. s \in Seq(S \cup {x})
  BY <1>1
<1>3. Len(Append(s, x)) = Len(s) + 1 /\ Append(s, x)[Len(s) + 1] = x
  BY <1>2, AppendProperties
<1> QED BY <1>3 DEF Last

(* A custom key does to the halves what its handler or its print says. *)
LEMMA CustomEdits ==
  ASSUME E!CursorsWhole, TextInv, NEW key \in Keys, Meaning[key] = "custom", CustomKey(key)
  PROVE  /\ TextInv' /\ echo_mode' = echo_mode
         /\ Halves(Before', After') = CustomEdited(Halves(Before, After), key)
<1>1. CASE Handled(key)
  <2> DEFINE r == Handler[key]
  <2>1. /\ r.text \in Seq(Char) /\ r.point \in 0..Len(r.text)
    BY <1>1, CallAssumption DEF Handled
  <2>2. E!EvalCustom(r, More) /\ ~r.inside
    BY <1>1 DEF CustomKey, Handled, E!EvalCustom, E!CursorsWhole
  <2> HIDE DEF r
  <2>3. E!Landing(r) = r.point
    BY <2>2 DEF E!Landing
  <2>4. buffer' = r.text /\ cursor' = r.point /\ echo_mode' = echo_mode
    BY <2>2, <2>3 DEF E!EvalCustom, E!given
  <2>5. TextInv'
    BY <2>1, <2>4 DEF TextInv
  <2>6. Halves(Before', After')
        = Halves(SubSeq(r.text, 1, r.point), SubSeq(r.text, r.point + 1, Len(r.text)))
    BY <2>4 DEF Before, After, Upto, Beyond
  <2> QED BY <1>1, <2>2, <2>4, <2>5, <2>6 DEF CustomEdited, r
<1>2. CASE ~Handled(key) /\ CustomIgnoreDefault
  <2>1. UNCHANGED <<buffer, cursor, echo_mode>>
    BY <1>2 DEF CustomKey, E!NoEffect, E!line, E!given
  <2>2. TextInv' /\ Before' = Before /\ After' = After
    BY <2>1, Unmoved
  <2> QED BY <1>2, <2>1, <2>2 DEF CustomEdited, Halves
<1>3. CASE ~Handled(key) /\ ~CustomIgnoreDefault
  <2>1. E!InsertText(Printed(key), More)
    BY <1>3 DEF CustomKey
  <2>2. TextInv' /\ Before' = Before \o Printed(key) /\ After' = After /\ echo_mode' = echo_mode
    BY <2>1, PrintedType, Inserted
  <2> QED BY <1>3, <2>2 DEF CustomEdited, Halves
<1> QED BY <1>1, <1>2, <1>3

(* A key edits the line as its event says, ... *)
LEMMA KeyEdit == ASSUME E!CursorsWhole PROVE EditInv /\ Key => EditInv'
<1> SUFFICES ASSUME EditInv, Key PROVE EditInv'
  OBVIOUS
<1> DEFINE p == Append(path, R!NextByte)
           e == [type |-> "escape", value |-> p]
<1>1. p \in Keys /\ events' = Append(events, e)
  BY DEF Key, R!DfaAccept, R!Leaf
<1> HIDE DEF p
<1>2. Last(events').value = p
  <2>1. Last(Append(events, e)) = e
    BY LastOfAppend DEF EditInv
  <2> QED BY <1>1, <2>1
<1>3. EditKey(Meaning[p]) \/ (Meaning[p] = "custom" /\ CustomKey(p))
  BY <1>2 DEF Key
<1>4. Meaning[p] \in Edits \cup {"custom"}
  BY <1>1, CallAssumption
<1>5. /\ TextInv' /\ echo_mode' = echo_mode
      /\ Halves(Before', After') = Edited(Halves(Before, After), e)
  <2>1. Edited(Halves(Before, After), e)
        = IF Meaning[p] = "custom" THEN CustomEdited(Halves(Before, After), p)
          ELSE KeyEdited(Halves(Before, After), Meaning[p])
    BY DEF Edited
  <2>2. CASE Meaning[p] = "custom"
    <3>1. CustomKey(p)
      BY <1>3, <2>2 DEF EditKey
    <3> QED BY <1>1, <2>1, <2>2, <3>1, CustomEdits DEF EditInv
  <2>3. CASE Meaning[p] # "custom"
    <3>1. EditKey(Meaning[p]) /\ Meaning[p] \in Edits
      BY <1>3, <1>4, <2>3
    <3> QED BY <2>1, <2>3, <3>1, KeyEdits DEF EditInv
  <2> QED BY <2>2, <2>3
<1> QED BY <1>1, <1>5, LineFollows

-----------------------------------------------------------------------------
(* What the reader returns is what the line gets *)

(* next_uchar never holds a whole character. *)
UcharInv == reading = "uchar" => uchars = <<>> \/ Len(uchars) < LeadLen[uchars[1]]

(* next_uchar holds bytes, also with the next one. *)
LEMMA ByteReturned ==
  ASSUME RP!Inv, reading = "uchar", ~R!Starved
  PROVE  /\ R!NextByte \in Byte /\ uchars \in Seq(Byte)
         /\ Append(uchars, R!NextByte) \in Seq(Byte)
         /\ LeadLen[Append(uchars, R!NextByte)[1]] \in 1..4
<1>1. ~RP!Starved
  BY DEF RP!Starved, R!Starved
<1>2. RP!NextByte \in Byte
  BY <1>1, ReaderConstants, RP!NextByteType
<1>3. R!NextByte \in Byte
  BY <1>2 DEF RP!NextByte, R!NextByte
<1>4. uchars \in Seq(Byte)
  BY DEF RP!Inv, RP!LookaheadInv
<1> DEFINE u == Append(uchars, R!NextByte)
<1>5. u \in Seq(Byte) /\ Len(u) = Len(uchars) + 1 /\ Len(uchars) \in Nat
  BY <1>3, <1>4, AppendProperties, LenProperties
<1>6. 1 \in 1..Len(u)
  BY <1>5
<1>7. u[1] \in Byte
  BY <1>5, <1>6, ElementOfSeq
<1>8. LeadLen[u[1]] \in 1..4
  BY <1>7, ByteAssumption
<1> QED BY <1>3, <1>4, <1>5, <1>8

(* A valid character that is returned is as long as its first byte says. *)
LEMMA CharacterReturned ==
  ASSUME RP!Inv, UcharInv, R!UcharDone
  PROVE  Characters(R!CharEvent(Append(uchars, R!NextByte)).value) \in Seq(Char)
<1> DEFINE b == R!NextByte
           u == Append(uchars, b)
<1>1. reading = "uchar" /\ ~R!Starved /\ Len(u) >= LeadLen[u[1]]
  BY DEF R!UcharDone
<1>2. b \in Byte /\ uchars \in Seq(Byte) /\ u \in Seq(Byte) /\ LeadLen[u[1]] \in 1..4
  BY <1>1, ByteReturned
<1> HIDE DEF b
<1>3. /\ Len(u) = Len(uchars) + 1 /\ Len(uchars) \in Nat
      /\ \A i \in 1..Len(uchars) : u[i] = uchars[i]
  BY <1>2, AppendProperties, LenProperties
<1> HIDE DEF u
<1>4. Len(u) = 1 \/ Len(u) = LeadLen[u[1]]
  <2>1. CASE uchars = <<>>
    BY <1>3, <2>1
  <2>2. CASE uchars # <<>>
    <3>1. Len(uchars) < LeadLen[uchars[1]]
      BY <1>1, <2>2 DEF UcharInv
    <3>2. Len(uchars) >= 1
      BY <1>2, <1>3, <2>2, EmptySeq
    <3>3. u[1] = uchars[1]
      BY <1>3, <3>2
    <3> QED BY <1>1, <1>2, <1>3, <3>1, <3>3
  <2> QED BY <2>1, <2>2
<1>5. R!Valid(u) => Len(u) = 1 \/ u \in Char
  <2> SUFFICES ASSUME R!Valid(u), Len(u) # 1 PROVE u \in Char
    OBVIOUS
  <2> DEFINE n == Len(u)
  <2>1. n \in 1..4 /\ LeadLen[u[1]] = n
    BY <1>2, <1>4
  <2>2. u \in [1..n -> Byte]
    BY <1>2
  <2> QED BY <2>1, <2>2, CharAssumption
<1>6. u \in Seq(Byte) /\ Len(u) >= 1
  BY <1>2, <1>3
<1>7. Characters(R!CharEvent(u).value) \in Seq(Char)
  BY <1>5, <1>6, CharactersType
<1> QED BY <1>7 DEF u, b

(* ... a text does, ... *)
LEMMA TextEdit == EditInv /\ UcharInv /\ RP!Inv /\ Text => EditInv'
<1> SUFFICES ASSUME EditInv, UcharInv, RP!Inv, Text PROVE EditInv'
  OBVIOUS
<1> DEFINE e == R!CharEvent(Append(uchars, R!NextByte))
<1>1. R!UcharDone /\ events' = Append(events, e)
  BY DEF Text, R!UcharDone
<1>2. Characters(e.value) \in Seq(Char)
  BY <1>1, CharacterReturned
<1> HIDE DEF e
<1>3. Last(Append(events, e)) = e
  BY LastOfAppend DEF EditInv
<1>4. e.type = "text" /\ E!InsertText(Characters(e.value), More)
  BY <1>1, <1>3 DEF Text
<1> DEFINE s == Characters(e.value)
<1>5. TextInv' /\ Before' = Before \o s /\ After' = After /\ echo_mode' = echo_mode
  <2> HIDE DEF s
  <2> QED BY <1>2, <1>4, Inserted DEF EditInv, s
<1>6. Halves(Before', After') = Edited(Halves(Before, After), e)
  BY <1>4, <1>5 DEF Edited, Halves
<1> QED BY <1>1, <1>5, <1>6, LineFollows

(* ... and so does the end. *)
LEMMA StopEdit == EditInv /\ Stop => EditInv'
<1> SUFFICES ASSUME EditInv, Stop PROVE EditInv'
  OBVIOUS
<1> DEFINE e == R!CharEvent(Append(uchars, R!NextByte))
<1>1. events' = Append(events, e)
  BY DEF Stop, R!UcharDone
<1> HIDE DEF e
<1>2. Last(Append(events, e)) = e
  BY LastOfAppend DEF EditInv
<1>3. e.type = "stop"
  BY <1>1, <1>2 DEF Stop
<1>4. UNCHANGED <<buffer, cursor, echo_mode>>
  BY DEF Stop, E!ReadStop, E!line, E!given
<1>5. TextInv' /\ Before' = Before /\ After' = After
  BY <1>4, Unmoved DEF EditInv
<1>6. Halves(Before', After') = Edited(Halves(Before, After), e)
  BY <1>3, <1>5 DEF Edited, Halves
<1> QED BY <1>1, <1>4, <1>5, <1>6, LineFollows

(* Every step of a call keeps the line and the events together. *)
LEMMA EditNext ==
  ASSUME E!CursorsWhole
  PROVE  EditInv /\ UcharInv /\ RP!Inv /\ [Next]_vars => EditInv'
<1> SUFFICES ASSUME EditInv, UcharInv, RP!Inv, [Next]_vars PROVE EditInv'
  OBVIOUS
<1>1. CASE Reading
  <2>1. events' = events
    BY <1>1 DEF Reading, R!StartRead, R!Refill, R!DfaStep, R!ReadPlain, R!StartUchar, R!UcharStep
  <2>2. UNCHANGED <<echo_mode, buffer, cursor>>
    BY <1>1 DEF Reading, lineVars
  <2> QED BY <2>1, <2>2, LineStays
<1>2. CASE Redraw
  <2>1. UNCHANGED <<events, echo_mode, buffer, cursor>>
    BY <1>2 DEF Redraw, byteVars, E!Redraw, E!given
  <2> QED BY <2>1, LineStays
<1>3. CASE UNCHANGED vars
  <2>1. UNCHANGED <<events, echo_mode, buffer, cursor>>
    BY <1>3 DEF vars, byteVars, lineVars
  <2> QED BY <2>1, LineStays
<1> QED BY <1>1, <1>2, <1>3, KeyEdit, TextEdit, StopEdit DEF Next

(* next_uchar begins with nothing, ... *)
LEMMA UcharInit == Init => UcharInv
BY DEF Init, R!Init, UcharInv

(* ... and never holds a whole character. *)
LEMMA UcharNext == UcharInv /\ [Next]_vars => UcharInv'
<1> SUFFICES ASSUME UcharInv, [Next]_vars PROVE UcharInv'
  OBVIOUS
<1>1. CASE R!StartRead \/ R!DfaStep \/ R!DfaAccept \/ R!UcharDone
  BY <1>1 DEF R!StartRead, R!DfaStep, R!DfaAccept, R!UcharDone, UcharInv
<1>2. CASE R!Refill
  BY <1>2 DEF R!Refill, R!parsing, UcharInv
<1>3. CASE R!ReadPlain \/ R!StartUchar
  BY <1>3 DEF R!ReadPlain, R!StartUchar, UcharInv
<1>4. CASE R!UcharStep
  BY <1>4 DEF R!UcharStep, UcharInv
<1>5. CASE Redraw \/ UNCHANGED vars
  BY <1>5 DEF Redraw, vars, byteVars, UcharInv
<1> QED BY <1>1, <1>2, <1>3, <1>4, <1>5 DEF Next, Reading, Key, Text, Stop

(* A model of one call: its histories begin with it. *)
OpenedInv == opened = [fed |-> 0, events |-> 0, taken |-> 0] /\ Sequence(fed)

(* Two sequences make one. *)
LEMMA JoinSequence ==
  ASSUME NEW s, Sequence(s), NEW t, Sequence(t)
  PROVE  Sequence(s \o t)
<1>1. PICK S : s \in Seq(S)
  BY DEF Sequence
<1>2. PICK T : t \in Seq(T)
  BY DEF Sequence
<1>3. s \in Seq(S \cup T) /\ t \in Seq(S \cup T)
  BY <1>1, <1>2
<1>4. s \o t \in Seq(S \cup T)
  BY <1>3, ConcatProperties
<1> QED BY <1>4 DEF Sequence

(* read_wrapper returns a sequence of bytes. *)
LEMMA FedGrows ==
  ASSUME CountInv, Sequence(fed), NEW buf, NEW at \in Nat, R!ReadWrapper(buf, at)
  PROVE  Sequence(fed')
<1>1. R!Room(at) \in Int
  BY ByteAssumption DEF R!Room
<1>2. \E bytes : Sequence(bytes) /\ fed' = fed \o bytes
  <2>1. CASE preload # NoPreload
    <3> DEFINE n == IF Len(preload) > R!Room(at) THEN R!Room(at) ELSE Len(preload)
    <3>1. fed' = fed \o SubSeq(preload, 1, n)
      BY <2>1 DEF R!ReadWrapper, R!Deliver
    <3>2. n \in Int
      BY <1>1, <2>1, SequenceLen DEF CountInv
    <3> HIDE DEF n
    <3>3. Sequence(SubSeq(preload, 1, n))
      BY <3>2, CutSequence
    <3> QED BY <3>1, <3>3
  <2>2. ASSUME NEW n \in 1..R!Room(at), fed' = fed \o SubSeq(input, 1, n)
        PROVE  \E bytes : Sequence(bytes) /\ fed' = fed \o bytes
    <3>1. n \in Int
      BY <1>1
    <3>2. Sequence(SubSeq(input, 1, n))
      BY <3>1, CutSequence
    <3> QED BY <2>2, <3>2
  <2>3. CASE fed' = fed \o R!EndMark
    <3>1. R!EndMark \in Seq({EOT})
      BY DEF R!EndMark
    <3> QED BY <2>3, <3>1 DEF Sequence
  <2>4. \/ preload # NoPreload
        \/ \E n \in 1..R!Room(at) : fed' = fed \o SubSeq(input, 1, n)
        \/ fed' = fed \o R!EndMark
    BY DEF R!ReadWrapper, R!Deliver
  <2> QED BY <2>1, <2>2, <2>3, <2>4
<1> QED BY <1>2, JoinSequence

(* The call is the first one, ... *)
LEMMA OpenedInit == Init => OpenedInv
<1> SUFFICES ASSUME Init PROVE OpenedInv
  OBVIOUS
<1>1. opened = [fed |-> 0, events |-> 0, taken |-> 0] /\ fed = <<>>
  BY DEF Init, R!Init
<1>2. Sequence(fed)
  BY <1>1 DEF Sequence
<1> QED BY <1>1, <1>2 DEF OpenedInv

(* ... and stays it. *)
LEMMA OpenedNext == Inv /\ OpenedInv /\ [Next]_vars => OpenedInv'
<1> SUFFICES ASSUME Inv, OpenedInv, [Next]_vars PROVE OpenedInv'
  OBVIOUS
<1>1. CASE R!StartRead \/ R!DfaStep \/ R!DfaAccept \/ R!StartUchar \/ R!UcharStep \/ R!UcharDone
  BY <1>1 DEF R!StartRead, R!DfaStep, R!DfaAccept, R!StartUchar, R!UcharStep, R!UcharDone,
              R!source, R!calls, OpenedInv
<1>2. CASE R!Refill
  <2>1. Sequence(fed')
    BY <1>2, FedGrows DEF R!Refill, OpenedInv, Inv, CountInv
  <2> QED BY <1>2, <2>1 DEF R!Refill, R!calls, OpenedInv
<1>3. CASE R!ReadPlain
  <2>1. Sequence(fed')
    BY <1>3, FedGrows DEF R!ReadPlain, OpenedInv, Inv
  <2> QED BY <1>3, <2>1 DEF R!ReadPlain, R!calls, OpenedInv
<1>4. CASE Redraw \/ UNCHANGED vars
  BY <1>4 DEF Redraw, vars, byteVars, OpenedInv
<1> QED BY <1>1, <1>2, <1>3, <1>4 DEF Next, Reading, Key, Text, Stop

(* A sequence is the whole of itself. *)
LEMMA SequenceWhole ==
  ASSUME NEW s, Sequence(s)
  PROVE  SubSeq(s, 1, Len(s)) = s
<1>1. PICK S : s \in Seq(S)
  BY DEF Sequence
<1> QED BY <1>1, SubSeqFull

(* A line that follows events which follow the bytes follows the bytes. *)
LEMMA LineOfBytes ==
  ASSUME Inv, EditInv, OpenedInv, R!EventsFaithful
  PROVE  LineFaithful
<1> SUFFICES ASSUME reading \in {"idle", "done"}
             PROVE  Line(R!Decode(fed, Len(R!Decoded))) = Halves(Before, After)
  BY DEF LineFaithful, Before, After, Upto, Beyond
<1>1. opened.fed = 0 /\ opened.events = 0
  BY DEF OpenedInv
<1>2. /\ SubSeq(events, opened.events + 1, Len(events)) = events
      /\ SubSeq(fed, opened.fed + 1, Len(fed)) = fed
  <2>1. SubSeq(events, 1, Len(events)) = events /\ SubSeq(fed, 1, Len(fed)) = fed
    BY SequenceWhole DEF EditInv, OpenedInv
  <2>2. 0 + 1 = 1
    OBVIOUS
  <2> QED BY <1>1, <2>1, <2>2
<1>3. Len(R!Decoded) - opened.fed = Len(R!Decoded)
  <2> DEFINE n == Len(fed) - (rd_count - rd_used)
  <2>1. n \in Int
    BY SequenceLen DEF OpenedInv, Inv, CountInv
  <2> HIDE DEF n
  <2>2. Len(SubSeq(fed, 1, n)) \in Nat
    BY <2>1, CutSequence
  <2>3. Len(R!Decoded) \in Nat
    BY <2>2 DEF R!Decoded, n
  <2> QED BY <1>1, <2>3
<1>4. events = R!Decode(fed, Len(R!Decoded))
  BY <1>2, <1>3 DEF R!EventsFaithful
<1> QED BY <1>4 DEF EditInv

(* The reader's invariant holds in a call, ... *)
LEMMA ReaderHeld == Spec => []RP!Inv
<1>1. Spec => R!Spec
  BY CallRefinesReader
<1>2. RP!Spec => []RP!Inv
  BY ReaderConstants, RP!ReaderInvariant
<1> QED BY <1>1, <1>2, SameStep, SameInit, PTL DEF RP!Spec, R!Spec

(* The halves of the line are those the events so far make. *)
FollowsEvents == Line(events) = Halves(Before, After)

(* The line follows the events, ... *)
LEMMA EditedAlways == ASSUME E!CursorsWhole PROVE Spec => []EditInv
<1>1. Init => EditInv /\ UcharInv
  BY EditInit, UcharInit
<1>2. EditInv /\ UcharInv /\ RP!Inv /\ [Next]_vars => EditInv' /\ UcharInv'
  BY EditNext, UcharNext
<1> QED BY <1>1, <1>2, ReaderHeld, PTL DEF Spec

(* Whatever is typed, preloaded, cut off or interrupted, and whatever texts  *)
(* the handlers return, their cursors between two characters: the line and   *)
(* its cursor are at all times what an ideal editor makes of the events that *)
(* nrl_io_read has returned.                                                 *)
THEOREM LineFollowsEvents == ASSUME E!CursorsWhole PROVE Spec => []FollowsEvents
<1>1. EditInv => FollowsEvents
  BY DEF EditInv, FollowsEvents
<1> QED BY <1>1, EditedAlways, PTL

(* ... in a call whose histories begin with it. *)
LEMMA CallAlways == Spec => [](Inv /\ OpenedInv)
<1>1. Init => Inv /\ OpenedInv
  BY InvInit, OpenedInit
<1>2. Inv /\ OpenedInv /\ [Next]_vars => Inv' /\ OpenedInv'
  BY InvNext, OpenedNext
<1> QED BY <1>1, <1>2, PTL DEF Spec

(* The line a call returns is what its bytes mean, for every key set, every                  *)
(* text a handler may return and every way the bytes arrive, where the input is whole: where *)
(* memmove's wrong source (rd_buf + rd_count) is never seen, see Reader.                     *)
THEOREM WholeLinesFaithful == ASSUME R!WholeInput, E!CursorsWhole PROVE Spec => []LineFaithful
<1>1. Spec => []R!EventsFaithful
  BY WholeEvents
<1>2. Inv /\ EditInv /\ OpenedInv /\ R!EventsFaithful => LineFaithful
  BY LineOfBytes
<1> QED BY <1>1, <1>2, EditedAlways, CallAlways, PTL

(* Without a known terminal and with characters of one or two bytes it is,   *)
(* for every input, whole or not, and every interrupted read.                *)
THEOREM PlainLinesFaithful ==
  ASSUME Keys = {}, \A b \in Byte : LeadLen[b] <= 2, E!CursorsWhole
  PROVE  Spec => []LineFaithful
<1>1. Spec => R!Spec
  BY CallRefinesReader
<1>2. RP!Spec => []RP!EventsFaithful
  BY ReaderConstants, RP!PlainEventsFaithful
<1>3. Spec => []R!EventsFaithful
  BY <1>1, <1>2, SameStep, SameInit, SameEvents, PTL DEF RP!Spec, R!Spec
<1>4. Inv /\ EditInv /\ OpenedInv /\ R!EventsFaithful => LineFaithful
  BY LineOfBytes
<1> QED BY <1>3, <1>4, EditedAlways, CallAlways, PTL

(* And it is for every key set, every input and every interrupted read where *)
(* a refill keeps the bytes of the running parse: nothing but memmove's      *)
(* source stands between what a call is given and the line it returns.       *)
THEOREM RefillAloneLines ==
  ASSUME E!CursorsWhole
  PROVE  Spec /\ [][RP!RefillKeeps]_(RP!vars) => []LineFaithful
<1>1. Spec => R!Spec
  BY CallRefinesReader
<1>2. RP!Spec /\ [][RP!RefillKeeps]_(RP!vars) => []RP!EventsFaithful
  BY ReaderConstants, RP!RefillAlone, PTL
<1>3. Spec /\ [][RP!RefillKeeps]_(RP!vars) => []R!EventsFaithful
  BY <1>1, <1>2, SameStep, SameInit, SameEvents, PTL DEF RP!Spec, R!Spec
<1>4. Inv /\ EditInv /\ OpenedInv /\ R!EventsFaithful => LineFaithful
  BY LineOfBytes
<1> QED BY <1>3, <1>4, EditedAlways, CallAlways, PTL

-----------------------------------------------------------------------------
(* How far a call is from its end *)

(* Both instances of the reader measure alike. *)
LEMMA SameMeasure ==
  /\ R!GetsNearer <=> RP!GetsNearer
  /\ R!EndIsPlain <=> RP!EndIsPlain
BY DEF R!GetsNearer, RP!GetsNearer, R!EndIsPlain, RP!EndIsPlain, R!ToEnd, RP!ToEnd,
       R!FirstEOT, RP!FirstEOT, R!Undecoded, RP!Undecoded, R!Rest, RP!Rest, R!ToEvent,
       RP!ToEvent, R!ToByte, RP!ToByte, R!Starved, RP!Starved

(* A step of a call is one of its reader, or the redraw. *)
LEMMA CallNearer ==
  ASSUME R!EndIsPlain, RP!Inv, RP!FedInv, RP!Counted, Next
  PROVE  R!GetsNearer \/ (UNCHANGED byteVars /\ pc = "redraw" /\ pc' = "read")
<1>1. CASE Reading \/ Key \/ Text \/ Stop
  <2>1. R!Next
    BY <1>1 DEF Reading, Key, Text, Stop, R!Next
  <2>2. RP!Next /\ RP!EndIsPlain
    BY <2>1, SameNext, SameMeasure
  <2>3. RP!GetsNearer
    BY <2>2, ReaderConstants, RP!NextNearer
  <2> QED BY <2>3, SameMeasure
<1>2. CASE Redraw
  BY <1>2 DEF Redraw, E!Redraw
<1> QED BY <1>1, <1>2 DEF Next

LEMMA CallStepsCount ==
  ASSUME R!EndIsPlain
  PROVE  Spec /\ [](RP!Inv /\ RP!FedInv /\ RP!Counted) => EveryStepCounts
<1>1. /\ RP!Inv /\ RP!FedInv /\ RP!Counted /\ [Next]_vars
      => [\/ R!GetsNearer
          \/ UNCHANGED byteVars /\ pc = "redraw" /\ pc' = "read"]_vars
  BY CallNearer
<1> QED BY <1>1, PTL DEF Spec, EveryStepCounts

(* No step of a call is in vain, for every key set, every handler and every  *)
(* way the bytes arrive, where the input is whole: the reader and the loop   *)
(* around it come to the end of a call in finitely many steps.               *)
THEOREM WholeCallsCount ==
  ASSUME R!EndIsPlain, R!WholeInput
  PROVE  Spec => EveryStepCounts
<1>1. Spec => R!Spec
  BY CallRefinesReader
<1>2. RP!Spec => [](RP!Inv /\ RP!FedInv /\ RP!Counted)
  BY SameWhole, ReaderConstants, RP!WholeHeld
<1> QED BY <1>1, <1>2, SameStep, SameInit, CallStepsCount, PTL DEF RP!Spec, R!Spec

(* The same without a known terminal, for broken and interrupted input. *)
THEOREM PlainCallsCount ==
  ASSUME R!EndIsPlain, Keys = {}, \A b \in Byte : LeadLen[b] <= 2
  PROVE  Spec => EveryStepCounts
<1>1. Spec => R!Spec
  BY CallRefinesReader
<1>2. RP!Spec => [](RP!Inv /\ RP!FedInv /\ RP!Counted)
  BY ReaderConstants, RP!PlainHeld
<1> QED BY <1>1, <1>2, SameStep, SameInit, CallStepsCount, PTL DEF RP!Spec, R!Spec

(* And for every input, where a refill keeps the bytes of the running parse. *)
THEOREM KeptCallsCount ==
  ASSUME R!EndIsPlain
  PROVE  Spec /\ [][RP!RefillKeeps]_(RP!vars) => EveryStepCounts
<1>1. Spec => R!Spec
  BY CallRefinesReader
<1>2. RP!Spec /\ [][RP!RefillKeeps]_(RP!vars) => [](RP!Inv /\ RP!FedInv /\ RP!Counted)
  BY ReaderConstants, RP!KeptHeld
<1> QED BY <1>1, <1>2, SameStep, SameInit, CallStepsCount, PTL DEF RP!Spec, R!Spec

-----------------------------------------------------------------------------
(* The editor of a call is the editor on its own *)

(* The echo mode and the terminal are those of a call there is. *)
SetupInv == E!Setup \in Setups

(* A call begins with a setup that may be given, ... *)
LEMMA SetupInit == Init => SetupInv
<1> SUFFICES ASSUME Init PROVE SetupInv
  OBVIOUS
<1>1. PICK s \in Setups : echo_mode = s.echo_mode /\ term_smart = s.smart
  BY DEF Init, E!Init
<1>2. s = [echo_mode |-> s.echo_mode, smart |-> s.smart]
  BY ScreenAssumption
<1> QED BY <1>1, <1>2 DEF SetupInv, E!Setup

(* read_buf.more is a flag. *)
LEMMA MoreType == More \in BOOLEAN
BY DEF More

(* A text the call inserts is one the editor may get. *)
LEMMA TextsOfCall ==
  ASSUME SetupInv, NEW s \in Seq(Char), E!InsertText(s, More)
  PROVE  E!Next
<1>1. E!Event(More)
  BY DEF E!Event, SetupInv
<1> QED BY <1>1, MoreType DEF E!Next

(* What the main loop does with a key is an event of the editor, ... *)
LEMMA KeyIsEvent == EditInv /\ SetupInv /\ Key => E!Next
<1> SUFFICES ASSUME EditInv, SetupInv, Key PROVE E!Next
  OBVIOUS
<1> DEFINE p == Append(path, R!NextByte)
           e == [type |-> "escape", value |-> p]
<1>1. p \in Keys /\ events' = Append(events, e)
  BY DEF Key, R!DfaAccept, R!Leaf
<1> HIDE DEF p
<1>2. Last(events').value = p
  <2>1. Last(Append(events, e)) = e
    BY LastOfAppend DEF EditInv
  <2> QED BY <1>1, <2>1
<1>3. CASE EditKey(Meaning[p])
  <2>1. E!Event(More)
    BY <1>3 DEF EditKey, Or, E!Event
  <2> QED BY <2>1, MoreType DEF E!Next
<1>4. CASE CustomKey(p)
  <2>1. CASE Handled(p)
    <3>1. Handler[p] \in {Handler[k] : k \in DOMAIN Handler}
      BY <2>1 DEF Handled
    <3>2. E!EvalCustom(Handler[p], More)
      BY <1>4, <2>1 DEF CustomKey
    <3>3. E!Event(More)
      BY <3>1, <3>2 DEF E!Event
    <3> QED BY <3>3, MoreType DEF E!Next
  <2>2. CASE ~Handled(p) /\ CustomIgnoreDefault
    <3>1. E!Event(More)
      BY <1>4, <2>2 DEF CustomKey, E!Event
    <3> QED BY <3>1, MoreType DEF E!Next
  <2>3. CASE ~Handled(p) /\ ~CustomIgnoreDefault
    <3>1. E!InsertText(Printed(p), More)
      BY <1>4, <2>3 DEF CustomKey
    <3> QED BY <1>1, <3>1, PrintedType, TextsOfCall
  <2> QED BY <2>1, <2>2, <2>3
<1> QED BY <1>2, <1>3, <1>4 DEF Key

(* ... and so is what it does with a text. *)
LEMMA TextIsEvent == EditInv /\ UcharInv /\ SetupInv /\ RP!Inv /\ Text => E!Next
<1> SUFFICES ASSUME EditInv, UcharInv, SetupInv, RP!Inv, Text PROVE E!Next
  OBVIOUS
<1> DEFINE e == R!CharEvent(Append(uchars, R!NextByte))
<1>1. R!UcharDone /\ events' = Append(events, e)
  BY DEF Text, R!UcharDone
<1>2. Characters(e.value) \in Seq(Char)
  BY <1>1, CharacterReturned
<1> HIDE DEF e
<1>3. Last(Append(events, e)) = e
  BY LastOfAppend DEF EditInv
<1>4. E!InsertText(Characters(e.value), More)
  BY <1>1, <1>3 DEF Text
<1> QED BY <1>2, <1>4, TextsOfCall

(* Every step of a call is a step or a stutter of its editor. *)
LEMMA CallStep == EditInv /\ UcharInv /\ SetupInv /\ RP!Inv /\ [Next]_vars => [E!Next]_(E!vars)
<1> SUFFICES ASSUME EditInv, UcharInv, SetupInv, RP!Inv, [Next]_vars PROVE [E!Next]_(E!vars)
  OBVIOUS
<1>1. CASE Reading \/ UNCHANGED vars
  BY <1>1 DEF Reading, vars, lineVars, E!vars, E!line, E!screen, E!given
<1>2. CASE Stop \/ Redraw
  BY <1>2 DEF Stop, Redraw, E!Next
<1> QED BY <1>1, <1>2, KeyIsEvent, TextIsEvent DEF Next

(* ... which no step of the editor changes. *)
LEMMA SetupKept == SetupInv /\ [E!Next]_(E!vars) => SetupInv'
<1> SUFFICES ASSUME SetupInv, [E!Next]_(E!vars) PROVE SetupInv'
  OBVIOUS
<1>1. UNCHANGED <<echo_mode, term_smart>>
  BY DEF E!vars, E!given, E!Next, E!Event, E!InsertText, E!EscapeLeft, E!EscapeRight, E!EscapeHome,
         E!EscapeEnd, E!EscapeDelete, E!EscapeBackspace, E!EvalCustom, E!NoEffect, E!Redraw,
         E!ReadStop, E!Abort, E!HandlerFault
<1> QED BY <1>1 DEF SetupInv, E!Setup

(* The line of a call is the line of Editor: the reader and the key tree     *)
(* never make the main loop do what Editor does not allow.                   *)
THEOREM CallRefinesEditor == ASSUME E!CursorsWhole PROVE Spec => E!Spec
<1>1. Init => E!Init /\ SetupInv
  BY SetupInit DEF Init
<1>2. EditInv /\ UcharInv /\ SetupInv /\ RP!Inv /\ [Next]_vars => [E!Next]_(E!vars) /\ SetupInv'
  BY CallStep, SetupKept
<1>3. Spec => []UcharInv
  BY UcharInit, UcharNext, PTL DEF Spec
<1> QED BY <1>1, <1>2, <1>3, ReaderHeld, EditedAlways, PTL DEF Spec, E!Spec

-----------------------------------------------------------------------------
(* What is proved of the editor on its own holds of the editor of a call *)

EP == INSTANCE EditorProofs WITH
       Texts   <- [s \in Setups |-> Seq(Char)],
       Replies <- {Handler[k] : k \in DOMAIN Handler}

(* The constants of a call are ones the editor may have. *)
LEMMA EditorConstants ==
  /\ Rows \in Nat \ {0}
  /\ Cols \in Nat \ {0, 1}
  /\ \A g \in DOMAIN Width : Width[g] \in 0..2
  /\ Blank \in DOMAIN Width
  /\ Width[Blank] = 1
  /\ \A t \in Starts : EP!IsTerminal(t) /\ DOMAIN t.tape \subseteq 0..(EP!Insertion(t) - 1)
  /\ Setups \subseteq [echo_mode : {"off", "on", "obscured"}, smart : BOOLEAN]
  /\ Char \cup {Star} \subseteq DOMAIN Width
  /\ Width[Star] = 1
  /\ \A s \in Setups : [s_1 \in Setups |-> Seq(Char)][s] \subseteq Seq(Char)
  /\ \A r \in {Handler[k] : k \in DOMAIN Handler} :
       /\ r.text \in Seq(Char) /\ r.point \in 0..Len(r.text)
       /\ r.inside => r.point < Len(r.text)
  /\ MaxLen \in Nat
BY CallAssumption, ScreenAssumption DEF E!IsTerminal, EP!IsTerminal, E!Insertion, EP!Insertion

(* Both instances of the editor measure texts, ... *)
LEMMA EditorWidths == \A x : E!TextWidth(x) = EP!TextWidth(x)
BY DEF E!TextWidth, EP!TextWidth, E!FoldLeft, EP!FoldLeft, E!MapThenFoldSet,
       EP!MapThenFoldSet, E!Max, EP!Max

(* ... draw them, ... *)
LEMMA EditorDrawn == \A x : E!Drawn(x) = EP!Drawn(x)
BY DEF E!Drawn, EP!Drawn

(* ... and compute positions alike; ... *)
LEMMA EditorMeasures ==
  /\ \A x, i, j : E!MoveWidth(x, i, j) = EP!MoveWidth(x, i, j)
  /\ \A o, n : E!Offset(o, n) = EP!Offset(o, n)
<1>1. \A x, i, j : E!MoveWidth(x, i, j) = EP!MoveWidth(x, i, j)
  BY EditorWidths, EditorDrawn DEF E!MoveWidth, EP!MoveWidth, E!Prefix, EP!Prefix
<1>2. \A o, n : E!Offset(o, n) = EP!Offset(o, n)
  BY DEF E!Offset, EP!Offset
<1> QED BY <1>1, <1>2

(* ... they print, ... *)
LEMMA EditorPuts == \A t, g : E!PutAll(t, g) = EP!PutAll(t, g)
BY DEF E!PutAll, EP!PutAll, E!Put, EP!Put, E!Reach, EP!Reach, E!Insertion, EP!Insertion,
       E!Written, EP!Written, E!FoldLeft, EP!FoldLeft, E!MapThenFoldSet, EP!MapThenFoldSet,
       E!Max, EP!Max

(* ... address and scroll the terminal, ... *)
LEMMA EditorScreens ==
  /\ \A t, p : E!Address(t, p) = EP!Address(t, p)
  /\ \A t : E!LineFeed(t) = EP!LineFeed(t)
  /\ \A p : E!RowsScrolled(p) = EP!RowsScrolled(p)
  /\ \A x : E!EraseCount(x) = EP!EraseCount(x)
  /\ \A n : E!Blanks(n) = EP!Blanks(n)
BY DEF E!Address, EP!Address, E!LineFeed, EP!LineFeed, E!Reach, EP!Reach, E!RowsScrolled,
       EP!RowsScrolled, E!EraseCount, EP!EraseCount, E!Blanks, EP!Blanks

(* ... move the cursors, ... *)
LEMMA EditorSyncs ==
  /\ \A x, i : E!SyncCursors(x, i) <=> EP!SyncCursors(x, i)
  /\ \A i : E!MoveCursor(i) <=> EP!MoveCursor(i)
<1>1. \A x, i : E!SyncCursors(x, i) <=> EP!SyncCursors(x, i)
  BY EditorMeasures, EditorScreens DEF E!SyncCursors, EP!SyncCursors, E!screen, EP!screen
<1> QED BY <1>1 DEF E!MoveCursor, EP!MoveCursor, E!screen, EP!screen

(* ... handle the keys, ... *)
LEMMA EditorMoves ==
  /\ \A m : E!EscapeLeft(m) <=> EP!EscapeLeft(m)
  /\ \A m : E!EscapeRight(m) <=> EP!EscapeRight(m)
  /\ \A m : E!EscapeHome(m) <=> EP!EscapeHome(m)
  /\ \A m : E!EscapeEnd(m) <=> EP!EscapeEnd(m)
BY EditorSyncs DEF E!EscapeLeft, EP!EscapeLeft, E!EscapeRight, EP!EscapeRight,
       E!EscapeHome, EP!EscapeHome, E!EscapeEnd, EP!EscapeEnd, E!given, EP!given,
       E!Continue, EP!Continue, E!Moving, EP!Moving

(* ... the deletions, ... *)
LEMMA EditorEdits ==
  /\ \A m : E!EscapeDelete(m) <=> EP!EscapeDelete(m)
  /\ \A m : E!EscapeBackspace(m) <=> EP!EscapeBackspace(m)
BY EditorSyncs DEF E!EscapeDelete, EP!EscapeDelete, E!EscapeBackspace, EP!EscapeBackspace,
       E!Erase, EP!Erase, E!Prefix, EP!Prefix, E!screen, EP!screen, E!given, EP!given,
       E!Continue, EP!Continue, E!Moving, EP!Moving

(* ... the insertions, ... *)
LEMMA EditorTexts ==
  /\ \A s, m : E!InsertText(s, m) <=> EP!InsertText(s, m)
  /\ \A r, m : E!EvalCustom(r, m) <=> EP!EvalCustom(r, m)
<1>1. \A s, m : E!InsertText(s, m) <=> EP!InsertText(s, m)
  BY DEF E!InsertText, EP!InsertText, E!Splice, EP!Splice, E!Prefix, EP!Prefix, E!screen,
         EP!screen, E!given, EP!given, E!Continue, EP!Continue
<1>2. \A r, m : E!EvalCustom(r, m) <=> EP!EvalCustom(r, m)
  BY EditorSyncs DEF E!EvalCustom, EP!EvalCustom, E!Landing, EP!Landing, E!given, EP!given,
         E!Continue, EP!Continue, E!Lost, EP!Lost
<1> QED BY <1>1, <1>2

(* ... what has no effect and the end, ... *)
LEMMA EditorRests ==
  /\ \A m : E!NoEffect(m) <=> EP!NoEffect(m)
  /\ E!ReadStop <=> EP!ReadStop
  /\ E!Abort <=> EP!Abort
  /\ \A r : E!HandlerFault(r) <=> EP!HandlerFault(r)
BY DEF E!HandlerFault, EP!HandlerFault, E!Lost, EP!Lost, E!NoEffect, EP!NoEffect, E!ReadStop, EP!ReadStop, E!Abort, EP!Abort, E!line,
       EP!line, E!screen, EP!screen, E!given, EP!given, E!Continue, EP!Continue

(* ... and redraw alike, ... *)
LEMMA EditorRedraws == E!Redraw <=> EP!Redraw
<1>1. E!RedrawSmart <=> EP!RedrawSmart
  BY EditorWidths, EditorDrawn, EditorMeasures, EditorPuts, EditorScreens
     DEF E!RedrawSmart, EP!RedrawSmart
<1>2. E!RedrawDumb <=> EP!RedrawDumb
  BY EditorDrawn, EditorPuts DEF E!RedrawDumb, EP!RedrawDumb
<1> QED BY <1>1, <1>2 DEF E!Redraw, EP!Redraw, E!screen, EP!screen, E!given, EP!given

(* ... so their steps are the same, ... *)
LEMMA EditorNext == E!Next <=> EP!Next
BY EditorMoves, EditorEdits, EditorTexts, EditorRests, EditorRedraws
   DEF E!Next, EP!Next, E!Event, EP!Event, E!Setup, EP!Setup

(* ... as are their beginnings ... *)
LEMMA EditorInit == E!Init <=> EP!Init
BY DEF E!Init, EP!Init, E!Report, EP!Report

(* ... and their variables. *)
LEMMA EditorVars == UNCHANGED E!vars <=> UNCHANGED EP!vars
BY DEF E!vars, EP!vars, E!line, EP!line, E!screen, EP!screen, E!given, EP!given

(* They mean the same by a line that is shown, ... *)
LEMMA EditorShown == E!LineShown <=> EP!LineShown
BY ZenonT(30) DEF E!LineShown, EP!LineShown, E!OnScreen, EP!OnScreen, E!Insertion, EP!Insertion, E!PutAll,
       EP!PutAll, E!Drawn, EP!Drawn, E!Cell, EP!Cell, E!Prefix, EP!Prefix, E!Put, EP!Put,
       E!Reach, EP!Reach, E!Written, EP!Written, E!FoldLeft, EP!FoldLeft, E!MapThenFoldSet,
       EP!MapThenFoldSet, E!Max, EP!Max

(* ... by a prompt that is kept, ... *)
LEMMA EditorPrompt == E!PromptPreserved <=> EP!PromptPreserved
BY DEF E!PromptPreserved, EP!PromptPreserved, E!Insertion, EP!Insertion, E!Cell, EP!Cell

(* ... by narrow characters on a prompt that wraps nothing, and by cursors   *)
(* between characters.                                                       *)
LEMMA EditorHypotheses ==
  /\ E!NoWrapPending <=> EP!NoWrapPending
  /\ (E!VisibleNarrow <=> EP!VisibleNarrow)
  /\ E!CursorsWhole <=> EP!CursorsWhole
BY DEF E!CursorsWhole, EP!CursorsWhole, E!Lost, EP!Lost, E!NoWrapPending, EP!NoWrapPending, E!VisibleNarrow, EP!VisibleNarrow, E!Narrow, EP!Narrow

(* So one is the other. *)
LEMMA SameEditor == [E!Next]_(E!vars) <=> [EP!Next]_(EP!vars)
BY EditorNext, EditorVars

(* From bytes to cells: where all that is drawn is narrow and no prompt ends *)
(* in the last column, the terminal of every call shows its line whenever    *)
(* the line is drawn.                                                        *)
THEOREM CallShowsLine ==
  ASSUME E!NoWrapPending, E!VisibleNarrow, E!CursorsWhole
  PROVE  Spec => []E!LineShown
<1>1. EP!NoWrapPending /\ EP!VisibleNarrow /\ EP!LastWhole
  BY EditorHypotheses, EditorConstants, EP!WholeLast
<1>2. EP!Spec => []EP!LineShown
  BY <1>1, EditorConstants, EP!ScreenShowsLine
<1> QED BY <1>2, SameEditor, EditorInit, EditorShown, CallRefinesEditor, PTL DEF E!Spec, EP!Spec

(* A call never writes over its prompt, whatever is typed. *)
THEOREM CallKeepsPrompt ==
  ASSUME E!NoWrapPending, E!CursorsWhole
  PROVE  Spec => []E!PromptPreserved
<1>1. EP!NoWrapPending /\ EP!LastWhole
  BY EditorHypotheses, EditorConstants, EP!WholeLast
<1>2. EP!Spec => []EP!PromptPreserved
  BY <1>1, EditorConstants, EP!PromptIsPreserved
<1> QED BY <1>2, SameEditor, EditorInit, EditorPrompt, CallRefinesEditor, PTL DEF E!Spec, EP!Spec

(* Above all of it: where handlers put their cursors between characters, a   *)
(* call is a behaviour of LineEdit, on the two halves of its line.           *)
THEOREM CallRefinesLineEdit == ASSUME E!CursorsWhole PROVE Spec => EP!EditsLine
<1>1. EP!CursorsWhole
  BY EditorHypotheses
<1>2. EP!Spec => EP!EditsLine
  BY <1>1, EditorConstants, EP!EditorRefinesLineEdit
<1> QED BY <1>2, SameEditor, EditorInit, CallRefinesEditor, PTL DEF E!Spec, EP!Spec
=============================================================================
