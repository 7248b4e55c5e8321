---------------------------- MODULE ReaderProofs ----------------------------
(***************************************************************************)
(* What holds of Reader for every buffer size, key set and input. *)
(***************************************************************************)
EXTENDS Reader, TextLemmas

(* The counters, and how far the running parse has looked ahead: as many     *)
(* bytes as it has taken from the buffer, fewer than a whole key or          *)
(* character.  Without the last part nothing bounds rd_pending, and a        *)
(* refill could find the buffer full.                                        *)
CountersInv ==
  /\ rd_used \in Nat /\ rd_pending \in Nat /\ rd_count \in 0..BufSize
  /\ rd_used + rd_pending <= rd_count

LookaheadInv ==
  /\ pc \in {"idle", "dfa", "empty", "uchar", "done"}
  /\ pc = "idle" => rd_pending = 0
  /\ pc = "dfa" => /\ path \in Seq(Byte) /\ Len(path) = rd_pending
                   /\ \E k \in Keys : Len(path) < Len(k)
  /\ pc = "uchar" => /\ uchars \in Seq(Byte) /\ Len(uchars) = rd_pending
                     /\ rd_pending < 4

BytesInv ==
  /\ rd_buf \in [0..(BufSize - 1) -> Byte]
  /\ input \in Seq(Byte)
  /\ preload # NoPreload => preload \in Seq(Byte)

Inv == CountersInv /\ LookaheadInv /\ BytesInv

-----------------------------------------------------------------------------
LEMMA Lengths ==
  ASSUME Inv
  PROVE  /\ BufSize \in Nat /\ BufSize >= 4
         /\ rd_used \in Nat /\ rd_pending \in Nat /\ rd_count \in Nat
         /\ rd_used + rd_pending <= rd_count /\ rd_count <= BufSize
BY ReaderAssumption DEF Inv, CountersInv

(* A read in the middle of a parse finds room in the buffer. *)
LEMMA RoomLeft ==
  ASSUME Inv, pc \in {"dfa", "uchar"}
  PROVE  rd_pending < BufSize
<1>1. CASE pc = "dfa"
  <2>1. PICK k \in Keys : Len(path) < Len(k)
    BY <1>1 DEF Inv, LookaheadInv
  <2>2. Len(k) \in 1..BufSize
    BY KeyAssumption
  <2>3. Len(path) = rd_pending
    BY <1>1 DEF Inv, LookaheadInv
  <2> QED BY <2>1, <2>2, <2>3, Lengths
<1>2. CASE pc = "uchar"
  BY <1>2, Lengths DEF Inv, LookaheadInv
<1> QED BY <1>1, <1>2

(* Storing bytes where they fit. *)
LEMMA DeliverType ==
  ASSUME NEW buf \in [0..(BufSize - 1) -> Byte], NEW at \in Nat,
         NEW bytes \in Seq(Byte), at + Len(bytes) <= BufSize,
         Deliver(buf, at, bytes)
  PROVE  /\ rd_buf' \in [0..(BufSize - 1) -> Byte]
         /\ rd_count' \in at..BufSize
<1>1. Len(bytes) \in Nat /\ BufSize \in Nat
  BY LenProperties, ReaderAssumption
<1>2. rd_count' \in at..BufSize
  BY <1>1 DEF Deliver
<1>3. rd_buf' = [i \in 0..(BufSize - 1) |->
                   IF i \in at..(at + Len(bytes) - 1) THEN bytes[i - at + 1] ELSE buf[i]]
  BY DEF Deliver, Stored
<1>4. ASSUME NEW i \in 0..(BufSize - 1), i \in at..(at + Len(bytes) - 1)
      PROVE  bytes[i - at + 1] \in Byte
  <2>1. i - at + 1 \in 1..Len(bytes)
    BY <1>1, <1>4
  <2> QED BY <2>1, ElementOfSeq
<1>5. rd_buf' \in [0..(BufSize - 1) -> Byte]
  BY <1>3, <1>4
<1> QED BY <1>2, <1>5

(* Part of a byte sequence. *)
LEMMA PartType ==
  ASSUME NEW s \in Seq(Byte), NEW n \in 0..Len(s)
  PROVE  /\ SubSeq(s, 1, n) \in Seq(Byte) /\ Len(SubSeq(s, 1, n)) = n
         /\ SubSeq(s, n + 1, Len(s)) \in Seq(Byte)
<1>1. Len(s) \in Nat /\ \A j \in 1..Len(s) : s[j] \in Byte
  BY LenProperties, ElementOfSeq
<1>2. \A j \in 1..n : s[j] \in Byte
  BY <1>1
<1>3. \A j \in (n + 1)..Len(s) : s[j] \in Byte
  BY <1>1
<1>4. SubSeq(s, 1, n) \in Seq(Byte) /\ Len(SubSeq(s, 1, n)) = n
  BY <1>1, <1>2, SubSeqProperties
<1>5. SubSeq(s, n + 1, Len(s)) \in Seq(Byte)
  BY <1>1, <1>3, SubSeqProperties
<1> QED BY <1>4, <1>5

(* read_wrapper never brings more than there is room for. *)
LEMMA ReadWrapperType ==
  ASSUME Inv, NEW buf \in [0..(BufSize - 1) -> Byte], NEW at \in 0..(BufSize - 1),
         ReadWrapper(buf, at)
  PROVE  /\ BytesInv'
         /\ rd_count' \in at..BufSize
<1> DEFINE room == BufSize - at
           n == IF Len(preload) > room THEN room ELSE Len(preload)
<1>0. BufSize \in Nat /\ at \in Nat /\ at < BufSize /\ room \in Nat /\ BytesInv
  BY ReaderAssumption DEF Inv
<1>1. CASE /\ preload # NoPreload
           /\ Deliver(buf, at, SubSeq(preload, 1, n))
           /\ preload' = IF Len(preload) > room
                         THEN SubSeq(preload, n + 1, Len(preload)) ELSE NoPreload
           /\ UNCHANGED input
  <2>1. preload \in Seq(Byte) /\ Len(preload) \in Nat
    BY <1>0, <1>1, LenProperties DEF BytesInv
  <2>2. n \in 0..Len(preload) /\ n <= room
    BY <1>0, <2>1
  <2>3. /\ SubSeq(preload, 1, n) \in Seq(Byte) /\ Len(SubSeq(preload, 1, n)) = n
        /\ SubSeq(preload, n + 1, Len(preload)) \in Seq(Byte)
    BY <2>1, <2>2, PartType
  <2>4. at + n <= BufSize
    BY <1>0, <2>1, <2>2
  <2>5. rd_buf' \in [0..(BufSize - 1) -> Byte] /\ rd_count' \in at..BufSize
    BY <1>0, <1>1, <2>3, <2>4, DeliverType
  <2>6. preload' # NoPreload => preload' \in Seq(Byte)
    BY <1>1, <2>3
  <2> QED BY <1>0, <1>1, <2>5, <2>6 DEF BytesInv
<1>2. CASE /\ \E m \in 1..room :
                /\ m <= Len(input)
                /\ Deliver(buf, at, SubSeq(input, 1, m))
                /\ input' = SubSeq(input, m + 1, Len(input))
           /\ UNCHANGED preload
  <2> PICK m \in 1..room : /\ m <= Len(input)
                           /\ Deliver(buf, at, SubSeq(input, 1, m))
                           /\ input' = SubSeq(input, m + 1, Len(input))
    BY <1>2
  <2>1. input \in Seq(Byte) /\ Len(input) \in Nat
    BY <1>0, LenProperties DEF BytesInv
  <2>2. m \in 0..Len(input)
    BY <1>0, <2>1
  <2>3. /\ SubSeq(input, 1, m) \in Seq(Byte) /\ Len(SubSeq(input, 1, m)) = m
        /\ SubSeq(input, m + 1, Len(input)) \in Seq(Byte)
    BY <2>1, <2>2, PartType
  <2>4. at + m <= BufSize
    BY <1>0
  <2>5. rd_buf' \in [0..(BufSize - 1) -> Byte] /\ rd_count' \in at..BufSize
    BY <1>0, <2>3, <2>4, DeliverType
  <2> QED BY <1>0, <1>2, <2>3, <2>5 DEF BytesInv
<1>3. CASE Deliver(buf, at, EndMark) /\ UNCHANGED <<input, preload>>
  <2>1. EndMark \in Seq(Byte) /\ Len(EndMark) = 1
    BY ReaderAssumption DEF EndMark
  <2>2. at + 1 <= BufSize
    BY <1>0
  <2>3. rd_buf' \in [0..(BufSize - 1) -> Byte] /\ rd_count' \in at..BufSize
    BY <1>0, <1>3, <2>1, <2>2, DeliverType
  <2> QED BY <1>0, <1>3, <2>3 DEF BytesInv
<1> QED BY <1>1, <1>2, <1>3 DEF ReadWrapper, Room

-----------------------------------------------------------------------------
LEMMA InvInit == Init => Inv
<1> SUFFICES ASSUME Init PROVE Inv
  OBVIOUS
<1>1. CountersInv
  BY ReaderAssumption DEF Init, CountersInv
<1>2. LookaheadInv
  BY DEF Init, LookaheadInv
<1>3. BytesInv
  BY ReaderAssumption DEF Init, BytesInv
<1> QED BY <1>1, <1>2, <1>3 DEF Inv

(* The byte next_char returns, and what the parse holds with it. *)
LEMMA NextByteType ==
  ASSUME Inv, ~Starved
  PROVE  NextByte \in Byte /\ rd_used + rd_pending + 1 <= rd_count
<1>1. rd_used + rd_pending < rd_count
  BY Lengths DEF Starved
<1>2. rd_used + rd_pending \in 0..(BufSize - 1)
  BY <1>1, Lengths
<1>3. rd_buf \in [0..(BufSize - 1) -> Byte]
  BY DEF Inv, BytesInv
<1> QED BY <1>1, <1>2, <1>3, Lengths DEF NextByte

LEMMA StartReadInv == Inv /\ StartRead => Inv'
<1> SUFFICES ASSUME Inv, StartRead PROVE Inv'
  OBVIOUS
<1>1. CountersInv' /\ BytesInv'
  BY DEF StartRead, counts, source, Inv, CountersInv, BytesInv
<1>2. LookaheadInv'
  <2>1. rd_pending' = 0 /\ path' = <<>>
    BY DEF StartRead, counts, Inv, LookaheadInv
  <2>2. <<>> \in Seq(Byte) /\ Len(<<>>) = 0
    BY EmptySeq
  <2>3. CASE Keys = {}
    BY <2>3 DEF StartRead, LookaheadInv
  <2>4. CASE Keys # {}
    <3>1. PICK k \in Keys : TRUE
      BY <2>4
    <3>2. Len(<<>>) < Len(k)
      BY KeyAssumption, <2>2
    <3> QED BY <2>1, <2>2, <2>4, <3>2 DEF StartRead, LookaheadInv
  <2> QED BY <2>3, <2>4
<1> QED BY <1>1, <1>2 DEF Inv

LEMMA RefillInv == Inv /\ Refill => Inv'
<1> SUFFICES ASSUME Inv, Refill PROVE Inv'
  OBVIOUS
<1>1. rd_pending \in 0..(BufSize - 1)
  BY RoomLeft, Lengths DEF Refill
<1> PICK beyond \in Byte : ReadWrapper(Moved(rd_buf, beyond), rd_pending)
  BY DEF Refill
<1>2. Moved(rd_buf, beyond) \in [0..(BufSize - 1) -> Byte]
  <2>1. rd_buf \in [0..(BufSize - 1) -> Byte]
    BY DEF Inv, BytesInv
  <2>2. ASSUME NEW i \in 0..(BufSize - 1), rd_count + i < BufSize
        PROVE  rd_buf[rd_count + i] \in Byte
    <3>1. rd_count + i \in 0..(BufSize - 1)
      BY <2>2, Lengths
    <3> QED BY <2>1, <3>1
  <2> QED BY <2>1, <2>2 DEF Moved
<1>3. BytesInv' /\ rd_count' \in rd_pending..BufSize
  BY <1>1, <1>2, ReadWrapperType
<1>4. CountersInv'
  BY <1>3, Lengths DEF Refill, CountersInv
<1>5. LookaheadInv'
  BY DEF Refill, parsing, Inv, LookaheadInv
<1> QED BY <1>3, <1>4, <1>5 DEF Inv

LEMMA DfaStepInv == Inv /\ DfaStep => Inv'
<1> SUFFICES ASSUME Inv, DfaStep PROVE Inv'
  OBVIOUS
<1> DEFINE p == Append(path, NextByte)
<1>1. pc = "dfa" /\ ~Starved /\ ~Leaf(p) /\ path' = p /\ rd_pending' = rd_pending + 1
      /\ pc' = IF Node(p) THEN "dfa" ELSE "empty"
  BY DEF DfaStep
<1>2. path \in Seq(Byte) /\ Len(path) = rd_pending
  BY <1>1 DEF Inv, LookaheadInv
<1>3. p \in Seq(Byte) /\ Len(p) = rd_pending + 1
  BY <1>1, <1>2, NextByteType, AppendProperties
<1>4. CountersInv' /\ BytesInv'
  <2>1. rd_used + (rd_pending + 1) <= rd_count
    BY <1>1, NextByteType, Lengths
  <2>2. CountersInv'
    BY <1>1, <2>1, Lengths DEF DfaStep, Inv, CountersInv
  <2> QED BY <2>2 DEF DfaStep, source, Inv, BytesInv
<1>5. ASSUME Node(p) PROVE \E k \in Keys : Len(p) < Len(k)
  <2>1. PICK k \in Keys : IsPrefix(p, k)
    BY <1>5 DEF Node
  <2>2. k \in Seq(Byte) /\ Len(k) \in Nat /\ Len(p) \in Nat
    BY KeyAssumption, <1>3, LenProperties
  <2>3. Len(p) <= Len(k) /\ SubSeq(p, 1, Len(p)) = SubSeq(k, 1, Len(p))
    BY <2>1 DEF IsPrefix
  <2>4. Len(p) # Len(k)
    <3> SUFFICES ASSUME Len(p) = Len(k) PROVE FALSE
      OBVIOUS
    <3>1. p = k
      BY <1>3, <2>2, <2>3, SubSeqFull
    <3> QED BY <1>1, <3>1 DEF Leaf
  <2> QED BY <2>2, <2>3, <2>4
<1>6. LookaheadInv'
  BY <1>1, <1>3, <1>5 DEF LookaheadInv
<1> QED BY <1>4, <1>6 DEF Inv

LEMMA DfaAcceptInv == Inv /\ DfaAccept => Inv'
<1> SUFFICES ASSUME Inv, DfaAccept PROVE Inv'
  OBVIOUS
<1>1. rd_used + rd_pending + 1 <= rd_count
  BY NextByteType DEF DfaAccept
<1>2. CountersInv'
  BY <1>1, Lengths DEF DfaAccept, Inv, CountersInv
<1>3. LookaheadInv' /\ BytesInv'
  BY DEF DfaAccept, source, Inv, LookaheadInv, BytesInv
<1> QED BY <1>2, <1>3 DEF Inv

LEMMA ReadPlainInv == Inv /\ ReadPlain => Inv'
<1> SUFFICES ASSUME Inv, ReadPlain PROVE Inv'
  OBVIOUS
<1>1. 0 \in 0..(BufSize - 1)
  BY Lengths
<1>2. BytesInv' /\ rd_count' \in 0..BufSize
  BY <1>1, ReadWrapperType DEF ReadPlain, Inv, BytesInv
<1>3. CountersInv'
  BY <1>2, Lengths DEF ReadPlain, CountersInv
<1>4. LookaheadInv'
  BY EmptySeq DEF ReadPlain, LookaheadInv
<1> QED BY <1>2, <1>3, <1>4 DEF Inv

LEMMA StartUcharInv == Inv /\ StartUchar => Inv'
<1> SUFFICES ASSUME Inv, StartUchar PROVE Inv'
  OBVIOUS
<1>1. CountersInv'
  BY Lengths DEF StartUchar, Inv, CountersInv
<1>2. LookaheadInv'
  BY EmptySeq DEF StartUchar, LookaheadInv
<1>3. BytesInv'
  BY DEF StartUchar, source, Inv, BytesInv
<1> QED BY <1>1, <1>2, <1>3 DEF Inv

(* What next_uchar holds after one more byte. *)
LEMMA UcharType ==
  ASSUME Inv, pc = "uchar", ~Starved
  PROVE  LET u == Append(uchars, NextByte)
         IN  /\ u \in Seq(Byte) /\ Len(u) = rd_pending + 1
             /\ LeadLen[u[1]] \in 1..4
<1> DEFINE u == Append(uchars, NextByte)
<1>1. uchars \in Seq(Byte) /\ Len(uchars) = rd_pending
  BY DEF Inv, LookaheadInv
<1>2. u \in Seq(Byte) /\ Len(u) = rd_pending + 1
  BY <1>1, NextByteType, AppendProperties
<1>3. u[1] \in Byte
  <2>1. 1 \in 1..Len(u)
    BY <1>2, Lengths
  <2> QED BY <1>2, <2>1, ElementOfSeq
<1>4. LeadLen[u[1]] \in 1..4
  BY <1>3, ReaderAssumption
<1> QED BY <1>2, <1>4

LEMMA UcharStepInv == Inv /\ UcharStep => Inv'
<1> SUFFICES ASSUME Inv, UcharStep PROVE Inv'
  OBVIOUS
<1> DEFINE u == Append(uchars, NextByte)
<1>1. /\ u \in Seq(Byte) /\ Len(u) = rd_pending + 1 /\ LeadLen[u[1]] \in 1..4
      /\ Len(u) < LeadLen[u[1]] /\ uchars' = u
      /\ rd_pending' = rd_pending + 1 /\ pc = "uchar" /\ pc' = "uchar"
  BY UcharType DEF UcharStep
<1>2. rd_used + (rd_pending + 1) <= rd_count
  BY NextByteType, Lengths DEF UcharStep
<1>3. CountersInv'
  BY <1>1, <1>2, Lengths DEF UcharStep, Inv, CountersInv
<1>4. LookaheadInv'
  <2>1. rd_pending + 1 < 4
    BY <1>1, Lengths
  <2> HIDE DEF u
  <2> QED BY <1>1, <2>1 DEF LookaheadInv
<1>5. BytesInv'
  BY DEF UcharStep, source, Inv, BytesInv
<1> QED BY <1>3, <1>4, <1>5 DEF Inv

LEMMA UcharDoneInv == Inv /\ UcharDone => Inv'
<1> SUFFICES ASSUME Inv, UcharDone PROVE Inv'
  OBVIOUS
<1> DEFINE u == Append(uchars, NextByte)
<1>1. /\ u \in Seq(Byte) /\ Len(u) = rd_pending + 1
      /\ rd_used' = rd_used + Consumed(u) /\ rd_pending' = 0
      /\ pc' \in {"done", "idle"}
  BY UcharType DEF UcharDone
<1>2. rd_used + (rd_pending + 1) <= rd_count
  BY NextByteType, Lengths DEF UcharDone
<1>3. Consumed(u) \in 1..(rd_pending + 1)
  BY <1>1, Lengths DEF Consumed
<1>4. CountersInv'
  BY <1>1, <1>2, <1>3, Lengths DEF UcharDone, Inv, CountersInv
<1>5. LookaheadInv'
  BY <1>1 DEF LookaheadInv
<1>6. BytesInv'
  BY DEF UcharDone, source, Inv, BytesInv
<1> QED BY <1>4, <1>5, <1>6 DEF Inv

LEMMA NewSessionInv == Inv /\ NewSession => Inv'
<1> SUFFICES ASSUME Inv, NewSession PROVE Inv'
  OBVIOUS
<1>1. CountersInv' /\ LookaheadInv'
  BY Lengths DEF NewSession, CountersReset, CountersInv, LookaheadInv
<1>2. BytesInv'
  BY ReaderAssumption DEF NewSession, Inv, BytesInv
<1> QED BY <1>1, <1>2 DEF Inv

LEMMA InvNext == Inv /\ [Next]_vars => Inv'
<1> SUFFICES ASSUME Inv, [Next]_vars PROVE Inv'
  OBVIOUS
<1>1. CASE UNCHANGED vars
  BY <1>1 DEF vars, source, counts, parsing, Inv, CountersInv, LookaheadInv, BytesInv
<1>2. CASE Next
  BY <1>2, StartReadInv, RefillInv, DfaStepInv, DfaAcceptInv, ReadPlainInv,
     StartUcharInv, UcharStepInv, UcharDoneInv, NewSessionInv DEF Next
<1> QED BY <1>1, <1>2

THEOREM ReaderInvariant == Spec => []Inv
BY InvInit, InvNext, PTL DEF Spec

(* The counters of the read buffer stay ordered and inside the buffer. *)
THEOREM ReaderTypeCorrect == Spec => []TypeOK
<1>1. Inv => TypeOK
  BY DEF Inv, CountersInv, LookaheadInv, TypeOK
<1> QED BY <1>1, ReaderInvariant, PTL

(* next_char never reads past the data and read_wrapper is never called with *)
(* no room (assert(count > 0)), for every buffer that is as long as the      *)
(* longest key and the longest character, every input and every way read()   *)
(* cuts it up, end of file and interrupts included.                          *)
THEOREM ReadsStayInBounds == Spec => []ReadsInBounds
<1>1. Inv => ReadsInBounds
  BY RoomLeft DEF Inv, CountersInv, ReadsInBounds
<1> QED BY <1>1, ReaderInvariant, PTL

-----------------------------------------------------------------------------
(* Beginnings and tails of byte sequences. *)

LEMMA PrefixPoints ==
  ASSUME NEW p \in Seq(Byte), NEW s \in Seq(Byte)
  PROVE  IsPrefix(p, s) <=> /\ Len(p) <= Len(s)
                            /\ \A i \in 1..Len(p) : p[i] = s[i]
<1> DEFINE b == SubSeq(s, 1, Len(p))
<1>1. Len(p) \in Nat /\ Len(s) \in Nat
  BY LenProperties
<1>2. SubSeq(p, 1, Len(p)) = p
  BY SubSeqFull
<1>3. IsPrefix(p, s) <=> Len(p) <= Len(s) /\ p = b
  BY <1>2 DEF IsPrefix
<1>4. ASSUME Len(p) <= Len(s)
      PROVE  p = b <=> \A i \in 1..Len(p) : p[i] = s[i]
  <2>1. \A i \in 1..Len(p) : s[i] \in Byte
    BY <1>1, <1>4, ElementOfSeq
  <2>2. /\ b \in Seq(Byte)
        /\ Len(b) = IF 1 <= Len(p) THEN Len(p) - 1 + 1 ELSE 0
        /\ \A i \in 1..(Len(p) - 1 + 1) : b[i] = s[1 + i - 1]
    BY <1>1, <2>1, SubSeqProperties
  <2> HIDE DEF b
  <2>3. Len(b) = Len(p) /\ \A i \in 1..Len(p) : b[i] = s[i]
    BY <1>1, <2>2
  <2>4. ASSUME \A i \in 1..Len(p) : p[i] = s[i] PROVE p = b
    BY <2>2, <2>3, <2>4, SeqEqual
  <2> QED BY <2>3, <2>4
<1> HIDE DEF b
<1> QED BY <1>3, <1>4

LEMMA EmptyPrefix == ASSUME NEW s \in Seq(Byte) PROVE IsPrefix(<<>>, s)
<1>1. Len(<<>>) = 0 /\ Len(s) \in Nat
  BY EmptySeq, LenProperties
<1>2. SubSeq(<<>>, 1, 0) = <<>> /\ SubSeq(s, 1, 0) = <<>>
  BY SubSeqEmpty
<1> QED BY <1>1, <1>2 DEF IsPrefix

(* What follows the first m elements. *)
LEMMA TailType ==
  ASSUME NEW s \in Seq(Byte), NEW i \in 1..(Len(s) + 1)
  PROVE  /\ SubSeq(s, i, Len(s)) \in Seq(Byte)
         /\ Len(SubSeq(s, i, Len(s))) = Len(s) - i + 1
         /\ \A j \in 1..(Len(s) - i + 1) : SubSeq(s, i, Len(s))[j] = s[i + j - 1]
<1>1. Len(s) \in Nat /\ i \in Int
  BY LenProperties
<1>2. \A j \in i..Len(s) : s[j] \in Byte
  BY <1>1, ElementOfSeq
<1>3. /\ SubSeq(s, i, Len(s)) \in Seq(Byte)
      /\ Len(SubSeq(s, i, Len(s))) = IF i <= Len(s) THEN Len(s) - i + 1 ELSE 0
      /\ \A j \in 1..(Len(s) - i + 1) : SubSeq(s, i, Len(s))[j] = s[i + j - 1]
  BY <1>1, <1>2, SubSeqProperties
<1> QED BY <1>1, <1>3

LEMMA TailOfTail ==
  ASSUME NEW s \in Seq(Byte), NEW t \in Tails(s), NEW u \in Tails(t)
  PROVE  u \in Tails(s)
<1> PICK i \in 1..(Len(s) + 1) : t = SubSeq(s, i, Len(s))
  BY DEF Tails
<1>1. /\ t \in Seq(Byte) /\ Len(t) = Len(s) - i + 1
      /\ \A k \in 1..Len(t) : t[k] = s[i + k - 1]
  BY TailType
<1> PICK j \in 1..(Len(t) + 1) : u = SubSeq(t, j, Len(t))
  BY DEF Tails
<1>2. /\ u \in Seq(Byte) /\ Len(u) = Len(t) - j + 1
      /\ \A k \in 1..(Len(t) - j + 1) : u[k] = t[j + k - 1]
  BY <1>1, TailType
<1>3. Len(s) \in Nat
  BY LenProperties
<1> DEFINE v == SubSeq(s, i + j - 1, Len(s))
<1>4. i + j - 1 \in 1..(Len(s) + 1)
  BY <1>1, <1>3
<1>5. /\ v \in Seq(Byte) /\ Len(v) = Len(s) - (i + j - 1) + 1
      /\ \A k \in 1..(Len(s) - (i + j - 1) + 1) : v[k] = s[i + j - 1 + k - 1]
  BY <1>4, TailType
<1> HIDE DEF v
<1>6. Len(u) = Len(v)
  BY <1>1, <1>2, <1>3, <1>5
<1>7. ASSUME NEW k \in 1..Len(u) PROVE u[k] = v[k]
  <2>1. u[k] = t[j + k - 1] /\ j + k - 1 \in 1..Len(t)
    BY <1>1, <1>2, <1>3
  <2>2. t[j + k - 1] = s[i + (j + k - 1) - 1]
    BY <1>1, <2>1
  <2>3. k \in 1..(Len(s) - (i + j - 1) + 1)
    BY <1>1, <1>2, <1>3
  <2>4. v[k] = s[i + j - 1 + k - 1]
    BY <1>5, <2>3
  <2>5. i + (j + k - 1) - 1 = i + j - 1 + k - 1
    BY <1>3, <2>3
  <2> QED BY <2>1, <2>2, <2>4, <2>5
<1>8. u = v
  BY <1>2, <1>5, <1>6, <1>7, SeqEqual
<1> QED BY <1>4, <1>8 DEF Tails, v

(* Dropping more of s drops more of s followed by r. *)
LEMMA TailOfConcat ==
  ASSUME NEW s \in Seq(Byte), NEW r \in Seq(Byte),
         NEW a \in 0..Len(s), NEW b \in a..Len(s)
  PROVE  SubSeq(s, b + 1, Len(s)) \o r \in Tails(SubSeq(s, a + 1, Len(s)) \o r)
<1> DEFINE x == SubSeq(s, a + 1, Len(s))
           y == SubSeq(s, b + 1, Len(s))
           xr == x \o r
           v == SubSeq(xr, b - a + 1, Len(xr))
           yr == y \o r
<1>1. Len(s) \in Nat /\ Len(r) \in Nat
  BY LenProperties
<1>2. /\ x \in Seq(Byte) /\ Len(x) = Len(s) - (a + 1) + 1
      /\ \A k \in 1..(Len(s) - (a + 1) + 1) : x[k] = s[a + 1 + k - 1]
  BY <1>1, TailType
<1>3. /\ y \in Seq(Byte) /\ Len(y) = Len(s) - (b + 1) + 1
      /\ \A k \in 1..(Len(s) - (b + 1) + 1) : y[k] = s[b + 1 + k - 1]
  BY <1>1, TailType
<1> HIDE DEF x, y
<1>4. /\ xr \in Seq(Byte) /\ Len(xr) = Len(x) + Len(r)
      /\ \A i \in 1..(Len(x) + Len(r)) :
           xr[i] = IF i <= Len(x) THEN x[i] ELSE r[i - Len(x)]
  BY <1>2, ConcatProperties
<1>5. /\ yr \in Seq(Byte) /\ Len(yr) = Len(y) + Len(r)
      /\ \A i \in 1..(Len(y) + Len(r)) :
           yr[i] = IF i <= Len(y) THEN y[i] ELSE r[i - Len(y)]
  BY <1>3, ConcatProperties
<1> HIDE DEF xr, yr
<1>6. b - a + 1 \in 1..(Len(xr) + 1)
  BY <1>1, <1>2, <1>4
<1>7. /\ v \in Seq(Byte) /\ Len(v) = Len(xr) - (b - a + 1) + 1
      /\ \A k \in 1..(Len(xr) - (b - a + 1) + 1) : v[k] = xr[b - a + 1 + k - 1]
  BY <1>4, <1>6, TailType
<1> HIDE DEF v
<1>8. Len(v) = Len(yr)
  BY <1>1, <1>2, <1>3, <1>4, <1>5, <1>7
<1>9. ASSUME NEW k \in 1..Len(yr) PROVE v[k] = yr[k]
  <2> DEFINE i == b - a + 1 + k - 1
  <2>1. /\ i \in 1..(Len(x) + Len(r)) /\ k \in 1..(Len(y) + Len(r))
        /\ k \in 1..(Len(xr) - (b - a + 1) + 1)
        /\ i <= Len(x) <=> k <= Len(y)
    BY SMTT(30), <1>1, <1>2, <1>3, <1>4, <1>5
  <2>2. v[k] = xr[i]
    BY <1>7, <2>1
  <2>3. CASE k <= Len(y)
    <3>1. v[k] = x[i] /\ yr[k] = y[k]
      BY <1>4, <1>5, <2>1, <2>2, <2>3
    <3>2. x[i] = s[a + 1 + i - 1] /\ y[k] = s[b + 1 + k - 1]
      BY SMTT(30), <1>1, <1>2, <1>3, <2>1, <2>3
    <3>3. a + 1 + i - 1 = b + 1 + k - 1
      BY <1>1, <2>1
    <3> QED BY <3>1, <3>2, <3>3
  <2>4. CASE ~(k <= Len(y))
    <3>1. v[k] = r[i - Len(x)] /\ yr[k] = r[k - Len(y)]
      BY <1>4, <1>5, <2>1, <2>2, <2>4
    <3>2. i - Len(x) = k - Len(y)
      BY <1>1, <1>2, <1>3, <2>1
    <3> QED BY <3>1, <3>2
  <2> QED BY <2>3, <2>4
<1>10. v = yr
  BY <1>5, <1>7, <1>8, <1>9, SeqEqual
<1> QED BY <1>6, <1>10 DEF Tails, v, yr, xr, x, y

(* What follows the first a elements of s goes on with what is added to s. *)
LEMMA TailGrows ==
  ASSUME NEW s \in Seq(Byte), NEW r \in Seq(Byte), NEW a \in 0..Len(s)
  PROVE  SubSeq(s \o r, a + 1, Len(s \o r)) = SubSeq(s, a + 1, Len(s)) \o r
<1> DEFINE x == SubSeq(s, a + 1, Len(s))
           sr == s \o r
           v == SubSeq(sr, a + 1, Len(sr))
           xr == x \o r
<1>1. Len(s) \in Nat /\ Len(r) \in Nat
  BY LenProperties
<1>2. /\ x \in Seq(Byte) /\ Len(x) = Len(s) - (a + 1) + 1
      /\ \A k \in 1..(Len(s) - (a + 1) + 1) : x[k] = s[a + 1 + k - 1]
  BY <1>1, TailType
<1> HIDE DEF x
<1>3. /\ sr \in Seq(Byte) /\ Len(sr) = Len(s) + Len(r)
      /\ \A i \in 1..(Len(s) + Len(r)) :
           sr[i] = IF i <= Len(s) THEN s[i] ELSE r[i - Len(s)]
  BY ConcatProperties
<1>4. /\ xr \in Seq(Byte) /\ Len(xr) = Len(x) + Len(r)
      /\ \A i \in 1..(Len(x) + Len(r)) :
           xr[i] = IF i <= Len(x) THEN x[i] ELSE r[i - Len(x)]
  BY <1>2, ConcatProperties
<1> HIDE DEF sr, xr
<1>5. a + 1 \in 1..(Len(sr) + 1)
  BY <1>1, <1>3
<1>6. /\ v \in Seq(Byte) /\ Len(v) = Len(sr) - (a + 1) + 1
      /\ \A k \in 1..(Len(sr) - (a + 1) + 1) : v[k] = sr[a + 1 + k - 1]
  BY <1>3, <1>5, TailType
<1> HIDE DEF v
<1>7. Len(v) = Len(xr)
  <2>1. Len(v) = Len(s) + Len(r) - (a + 1) + 1 /\ Len(xr) = Len(s) - (a + 1) + 1 + Len(r)
    BY <1>2, <1>3, <1>4, <1>6
  <2>2. Len(s) \in Int /\ Len(r) \in Int /\ a \in Int
    BY <1>1
  <2> QED BY <2>1, <2>2
<1>8. ASSUME NEW k \in 1..Len(xr) PROVE v[k] = xr[k]
  <2> DEFINE i == a + 1 + k - 1
  <2>1. /\ i \in 1..(Len(s) + Len(r)) /\ k \in 1..(Len(x) + Len(r))
        /\ k \in 1..(Len(sr) - (a + 1) + 1)
        /\ i <= Len(s) <=> k <= Len(x)
    BY <1>1, <1>2, <1>3, <1>4
  <2>2. v[k] = sr[i]
    BY <1>6, <2>1
  <2>3. CASE k <= Len(x)
    <3>1. v[k] = s[i] /\ xr[k] = x[k]
      BY <1>3, <1>4, <2>1, <2>2, <2>3
    <3>2. x[k] = s[i]
      BY SMTT(30), <1>1, <1>2, <2>1, <2>3
    <3> QED BY <3>1, <3>2
  <2>4. CASE ~(k <= Len(x))
    <3>1. v[k] = r[i - Len(s)] /\ xr[k] = r[k - Len(x)]
      BY <1>3, <1>4, <2>1, <2>2, <2>4
    <3>2. i - Len(s) = k - Len(x)
      BY <1>1, <1>2, <2>1
    <3> QED BY <3>1, <3>2
  <2> QED BY <2>3, <2>4
<1>9. v = xr
  BY <1>4, <1>6, <1>7, <1>8, SeqEqual
<1> QED BY <1>9 DEF v, sr, xr, x

-----------------------------------------------------------------------------
(* Keys and first bytes *)

LEMMA OneByte ==
  ASSUME NEW b \in Byte, NEW s \in Seq(Byte)
  PROVE  IsPrefix(<<b>>, s) <=> Len(s) >= 1 /\ s[1] = b
<1> DEFINE q == <<b>>
<1>1. q \in Seq(Byte) /\ Len(q) = 1 /\ q[1] = b
  OBVIOUS
<1>2. Len(s) \in Nat
  BY LenProperties
<1> HIDE DEF q
<1>3. IsPrefix(q, s) <=> Len(q) <= Len(s) /\ \A i \in 1..Len(q) : q[i] = s[i]
  BY <1>1, PrefixPoints
<1>4. IsPrefix(q, s) <=> Len(s) >= 1 /\ s[1] = b
  BY <1>1, <1>2, <1>3
<1> QED BY <1>4 DEF q

(* A key that s begins with is in the tree from its first byte on. *)
LEMMA BeginsKey ==
  ASSUME NEW s \in Seq(Byte), NEW k \in Keys, IsPrefix(k, s)
  PROVE  Len(s) >= 1 /\ Node(<<s[1]>>)
<1>1. k \in Seq(Byte) /\ Len(k) \in Nat /\ Len(k) >= 1 /\ Len(s) \in Nat
  BY KeyAssumption, LenProperties
<1>2. Len(k) <= Len(s) /\ \A i \in 1..Len(k) : k[i] = s[i]
  BY <1>1, PrefixPoints
<1>3. Len(s) >= 1 /\ k[1] = s[1] /\ s[1] \in Byte
  <2>1. 1 \in 1..Len(k) /\ 1 \in 1..Len(s)
    BY <1>1, <1>2
  <2> QED BY <1>1, <1>2, <2>1, ElementOfSeq
<1>4. IsPrefix(<<s[1]>>, k)
  BY <1>1, <1>3, OneByte
<1> QED BY <1>3, <1>4 DEF Node

LEMMA NodeFirst ==
  ASSUME NEW p \in Seq(Byte), Len(p) >= 1, Node(p)
  PROVE  Node(<<p[1]>>)
<1> PICK k \in Keys : IsPrefix(p, k)
  BY DEF Node
<1>1. k \in Seq(Byte) /\ Len(k) \in Nat /\ Len(p) \in Nat
  BY KeyAssumption, LenProperties
<1>2. Len(p) <= Len(k) /\ \A i \in 1..Len(p) : p[i] = k[i]
  BY <1>1, PrefixPoints
<1>3. 1 \in 1..Len(p)
  BY <1>1
<1>4. Len(k) >= 1 /\ k[1] = p[1] /\ p[1] \in Byte
  BY <1>1, <1>2, <1>3, ElementOfSeq
<1>5. IsPrefix(<<p[1]>>, k)
  BY <1>1, <1>4, OneByte
<1> QED BY <1>5 DEF Node

(* Of two beginnings of s the shorter one begins the other. *)
LEMMA ShorterPrefix ==
  ASSUME NEW p \in Seq(Byte), NEW q \in Seq(Byte), NEW s \in Seq(Byte),
         IsPrefix(p, s), IsPrefix(q, s), Len(p) <= Len(q)
  PROVE  IsPrefix(p, q)
<1>1. Len(p) \in Nat /\ Len(q) \in Nat
  BY LenProperties
<1>2. \A i \in 1..Len(p) : p[i] = s[i]
  BY PrefixPoints
<1>3. \A i \in 1..Len(q) : q[i] = s[i]
  BY PrefixPoints
<1>4. \A i \in 1..Len(p) : p[i] = q[i]
  BY <1>1, <1>2, <1>3
<1> QED BY <1>4, PrefixPoints

LEMMA PrefixTransitive ==
  ASSUME NEW p \in Seq(Byte), NEW q \in Seq(Byte), NEW s \in Seq(Byte),
         IsPrefix(p, q), IsPrefix(q, s)
  PROVE  IsPrefix(p, s)
<1>1. Len(p) \in Nat /\ Len(q) \in Nat /\ Len(s) \in Nat
  BY LenProperties
<1>2. Len(p) <= Len(q) /\ \A i \in 1..Len(p) : p[i] = q[i]
  BY PrefixPoints
<1>3. Len(q) <= Len(s) /\ \A i \in 1..Len(q) : q[i] = s[i]
  BY PrefixPoints
<1>4. Len(p) <= Len(s) /\ \A i \in 1..Len(p) : p[i] = s[i]
  BY <1>1, <1>2, <1>3
<1> QED BY <1>4, PrefixPoints

(* No key begins an unfinished key. *)
LEMMA NoKeyInside ==
  ASSUME NEW p \in Seq(Byte), NEW k \in Keys, IsPrefix(p, k), Len(p) < Len(k),
         NEW l \in Keys
  PROVE  ~IsPrefix(l, p)
<1> SUFFICES ASSUME IsPrefix(l, p) PROVE FALSE
  OBVIOUS
<1>1. k \in Seq(Byte) /\ l \in Seq(Byte)
  BY KeyAssumption
<1>2. IsPrefix(l, k)
  BY <1>1, PrefixTransitive
<1>3. l = k
  BY <1>2, KeyAssumption
<1>4. Len(l) <= Len(p) /\ Len(l) \in Nat /\ Len(p) \in Nat
  BY <1>1, PrefixPoints, LenProperties
<1> QED BY <1>3, <1>4

LEMMA JoinedPrefix ==
  ASSUME NEW p \in Seq(Byte), NEW q \in Seq(Byte)
  PROVE  p \o q \in Seq(Byte) /\ IsPrefix(p, p \o q)
<1> DEFINE r == p \o q
<1>1. /\ r \in Seq(Byte) /\ Len(r) = Len(p) + Len(q)
      /\ \A i \in 1..(Len(p) + Len(q)) : r[i] = IF i <= Len(p) THEN p[i] ELSE q[i - Len(p)]
  BY ConcatProperties
<1>2. Len(p) \in Nat /\ Len(q) \in Nat
  BY LenProperties
<1> HIDE DEF r
<1>3. Len(p) <= Len(r) /\ \A i \in 1..Len(p) : p[i] = r[i]
  BY <1>1, <1>2
<1>4. IsPrefix(p, r)
  BY <1>1, <1>3, PrefixPoints
<1> QED BY <1>1, <1>4 DEF r

(* No key begins r or goes on from it, so none begins what r grows to. *)
Keyless(r) == \A k \in Keys : ~IsPrefix(k, r) /\ ~IsPrefix(r, k)

LEMMA KeylessGrows ==
  ASSUME NEW p \in Seq(Byte), NEW s \in Seq(Byte), Keyless(p), IsPrefix(p, s)
  PROVE  Keyless(s)
<1> SUFFICES ASSUME NEW k \in Keys PROVE ~IsPrefix(k, s) /\ ~IsPrefix(s, k)
  BY DEF Keyless
<1>1. k \in Seq(Byte) /\ Len(k) \in Nat /\ Len(p) \in Nat
  BY KeyAssumption, LenProperties
<1>2. ~IsPrefix(k, p) /\ ~IsPrefix(p, k)
  BY DEF Keyless
<1>3. ASSUME IsPrefix(k, s) PROVE FALSE
  <2>1. Len(k) <= Len(p) \/ Len(p) <= Len(k)
    BY <1>1
  <2> QED BY <1>1, <1>2, <1>3, <2>1, ShorterPrefix
<1>4. ASSUME IsPrefix(s, k) PROVE FALSE
  BY <1>1, <1>2, <1>4, PrefixTransitive
<1> QED BY <1>3, <1>4

(* A character whose first byte begins no key.                               *)
(* Only without a tree is nothing known to begin no key.                     *)
LEMMA KeylessEmpty ==
  ASSUME Keyless(<<>>)
  PROVE  Keys = {}
<1> SUFFICES ASSUME NEW k \in Keys PROVE FALSE
  OBVIOUS
<1>1. IsPrefix(<<>>, k)
  BY KeyAssumption, EmptyPrefix
<1> QED BY <1>1 DEF Keyless

(* A beginning p of what a key begins with, and the byte with which it is    *)
(* neither a key nor the beginning of one.                                   *)
LEMMA KeylessStep ==
  ASSUME NEW p \in Seq(Byte), NEW k \in Keys, IsPrefix(p, k), Len(p) < Len(k),
         NEW q \in Seq(Byte), IsPrefix(p, q), Len(q) = Len(p) + 1, ~Node(q)
  PROVE  Keyless(q)
<1> SUFFICES ASSUME NEW l \in Keys PROVE ~IsPrefix(l, q) /\ ~IsPrefix(q, l)
  BY DEF Keyless
<1>1. l \in Seq(Byte) /\ Len(l) \in Nat /\ Len(p) \in Nat /\ Len(q) \in Nat
  BY KeyAssumption, LenProperties
<1>2. ~IsPrefix(q, l)
  BY DEF Node
<1>3. ASSUME IsPrefix(l, q) PROVE FALSE
  <2>1. CASE Len(l) <= Len(p)
    <3>1. IsPrefix(l, p)
      BY <1>1, <1>3, <2>1, ShorterPrefix
    <3> QED BY <3>1, NoKeyInside
  <2>2. CASE ~(Len(l) <= Len(p))
    <3>1. Len(l) <= Len(q) /\ \A i \in 1..Len(l) : l[i] = q[i]
      BY <1>1, <1>3, PrefixPoints
    <3>2. Len(l) = Len(q)
      BY <1>1, <2>2, <3>1
    <3>3. l = q
      BY <1>1, <3>1, <3>2, SeqEqual
    <3> QED BY <1>2, <1>3, <3>3
  <2> QED BY <2>1, <2>2
<1> QED BY <1>2, <1>3

-----------------------------------------------------------------------------
(* The read buffer and what was read *)

(* Where rd_buf[0] lies in fed. *)
Base == Len(fed) - rd_count

Intact(from) == \A i \in from..(rd_count - 1) : rd_buf[i] = fed[Base + i + 1]

(* The bytes that the running parse has passed need not be in the buffer any *)
(* more (memmove keeps others); those after them are, and so are all of them *)
(* when no parse is running.                                                 *)
BufferInv ==
  /\ fed \in Seq(Byte)
  /\ Base + rd_used >= 0
  /\ Intact(IF pc \in {"dfa", "uchar"} THEN rd_used + rd_pending ELSE rd_used)

(* What a parse has passed is what it has stored elsewhere: the edges of the *)
(* tree, or the bytes of the character.                                      *)
PassedInv ==
  /\ pc = "dfa" =>
       /\ \E k \in Keys : IsPrefix(path, k) /\ Len(path) < Len(k)
       /\ \A j \in 1..rd_pending : path[j] = fed[Base + rd_used + j]
  /\ pc = "uchar" =>
       /\ rd_pending > 0 => rd_pending < LeadLen[uchars[1]]
       /\ \A j \in 1..rd_pending : uchars[j] = fed[Base + rd_used + j]

(* What is read and not decoded. *)
Held == SubSeq(fed, Base + rd_used + 1, Len(fed))

(* A character is decoded only where no key begins. *)
NoKeyInv == pc \in {"empty", "uchar"} => Keyless(Held)

FedInv == BufferInv /\ PassedInv /\ NoKeyInv

LEMMA FedLengths ==
  ASSUME Inv, FedInv
  PROVE  /\ fed \in Seq(Byte) /\ Len(fed) \in Nat /\ Base \in Int
         /\ Base + rd_used >= 0
         /\ Base + rd_used + rd_pending <= Len(fed)
         /\ Base + rd_count = Len(fed)
<1>1. fed \in Seq(Byte) /\ Len(fed) \in Nat /\ Base + rd_used >= 0
  BY LenProperties DEF FedInv, BufferInv
<1> QED BY <1>1, Lengths DEF Base

(* next_char returns the byte after those the parse has passed. *)
LEMMA NextByteFed ==
  ASSUME Inv, FedInv, pc \in {"dfa", "uchar"}, ~Starved
  PROVE  /\ NextByte = fed[Base + rd_used + rd_pending + 1]
         /\ Base + rd_used + rd_pending + 1 \in 1..Len(fed)
         /\ rd_used + rd_pending < rd_count
<1>1. rd_used + rd_pending < rd_count
  BY Lengths DEF Starved
<1>2. rd_used + rd_pending \in (rd_used + rd_pending)..(rd_count - 1)
  BY <1>1, Lengths
<1>3. rd_buf[rd_used + rd_pending] = fed[Base + (rd_used + rd_pending) + 1]
  BY <1>2 DEF FedInv, BufferInv, Intact
<1>4. Base + (rd_used + rd_pending) + 1 = Base + rd_used + rd_pending + 1
  BY Lengths, FedLengths
<1> QED BY <1>1, <1>3, <1>4, Lengths, FedLengths DEF NextByte

(* With the next byte, what a parse holds still is what was read. *)
LEMMA PassedGrows ==
  ASSUME Inv, FedInv, pc \in {"dfa", "uchar"}, ~Starved,
         NEW held \in Seq(Byte), Len(held) = rd_pending,
         \A j \in 1..rd_pending : held[j] = fed[Base + rd_used + j]
  PROVE  LET h == Append(held, NextByte)
         IN  /\ h \in Seq(Byte) /\ Len(h) = rd_pending + 1
             /\ \A j \in 1..(rd_pending + 1) : h[j] = fed[Base + rd_used + j]
<1> DEFINE h == Append(held, NextByte)
<1>1. /\ h \in Seq(Byte) /\ Len(h) = rd_pending + 1
      /\ \A j \in 1..rd_pending : h[j] = held[j]
      /\ h[rd_pending + 1] = NextByte
  BY NextByteType, AppendProperties
<1> HIDE DEF h
<1>2. ASSUME NEW j \in 1..(rd_pending + 1) PROVE h[j] = fed[Base + rd_used + j]
  <2>1. CASE j = rd_pending + 1
    <3>1. Base + rd_used + rd_pending + 1 = Base + rd_used + j
      BY <2>1, Lengths, FedLengths
    <3> QED BY <1>1, <2>1, <3>1, NextByteFed
  <2>2. CASE j # rd_pending + 1
    <3>1. j \in 1..rd_pending
      BY <2>2, Lengths
    <3> QED BY <1>1, <3>1
  <2> QED BY <2>1, <2>2
<1> QED BY <1>1, <1>2 DEF h

LEMMA HeldType ==
  ASSUME Inv, FedInv
  PROVE  /\ Held \in Seq(Byte) /\ Len(Held) = rd_count - rd_used
         /\ \A j \in 1..(rd_count - rd_used) : Held[j] = fed[Base + rd_used + j]
<1>1. /\ fed \in Seq(Byte) /\ Len(fed) \in Nat /\ Base \in Int
      /\ Base + rd_used >= 0 /\ Base + rd_count = Len(fed)
      /\ rd_used \in Nat /\ rd_count \in Nat /\ rd_used <= rd_count
  BY FedLengths, Lengths
<1> DEFINE i == Base + rd_used + 1
<1>2. i \in 1..(Len(fed) + 1) /\ Len(fed) - i + 1 = rd_count - rd_used
  BY <1>1
<1>3. ASSUME NEW j \in 1..(rd_count - rd_used) PROVE i + j - 1 = Base + rd_used + j
  BY <1>1
<1>4. /\ SubSeq(fed, i, Len(fed)) \in Seq(Byte)
      /\ Len(SubSeq(fed, i, Len(fed))) = Len(fed) - i + 1
      /\ \A j \in 1..(Len(fed) - i + 1) : SubSeq(fed, i, Len(fed))[j] = fed[i + j - 1]
  BY <1>1, <1>2, TailType
<1>5. Held = SubSeq(fed, i, Len(fed))
  BY DEF Held
<1> HIDE DEF i
<1> QED BY <1>2, <1>3, <1>4, <1>5

(* What a parse has passed is the beginning of what is held. *)
LEMMA PassedHeld ==
  ASSUME Inv, FedInv
  PROVE  /\ pc = "dfa" => IsPrefix(path, Held)
         /\ pc = "uchar" => IsPrefix(uchars, Held)
         /\ Starved => (pc = "dfa" => Held = path) /\ (pc = "uchar" => Held = uchars)
<1>1. rd_pending <= rd_count - rd_used /\ rd_pending \in Nat
      /\ (Starved => rd_pending = rd_count - rd_used)
  BY Lengths DEF Starved
<1>2. ASSUME NEW h \in Seq(Byte), Len(h) = rd_pending,
             \A j \in 1..rd_pending : h[j] = fed[Base + rd_used + j]
      PROVE  IsPrefix(h, Held) /\ (Starved => Held = h)
  <2>1. Len(h) <= Len(Held) /\ \A j \in 1..Len(h) : h[j] = Held[j]
    BY <1>1, <1>2, HeldType, Lengths
  <2>2. IsPrefix(h, Held)
    BY <2>1, HeldType, PrefixPoints
  <2>3. Starved => Held = h
    BY <1>1, <1>2, <2>1, HeldType, SeqEqual
  <2> QED BY <2>2, <2>3
<1>3. CASE pc = "dfa"
  BY <1>2, <1>3 DEF Inv, LookaheadInv, FedInv, PassedInv
<1>4. CASE pc = "uchar"
  BY <1>2, <1>4 DEF Inv, LookaheadInv, FedInv, PassedInv
<1> QED BY <1>3, <1>4

(* A parse with the byte it takes next is the beginning of what is held. *)
LEMMA GrownHeld ==
  ASSUME Inv, FedInv, pc \in {"dfa", "uchar"}, ~Starved,
         NEW held \in Seq(Byte), Len(held) = rd_pending,
         \A j \in 1..rd_pending : held[j] = fed[Base + rd_used + j]
  PROVE  LET h == Append(held, NextByte)
         IN  /\ h \in Seq(Byte) /\ Len(h) = rd_pending + 1
             /\ IsPrefix(h, Held) /\ h[1] = Held[1]
             /\ \A j \in 1..Len(held) : h[j] = held[j]
<1> DEFINE h == Append(held, NextByte)
<1>2. /\ h \in Seq(Byte) /\ Len(h) = rd_pending + 1
      /\ \A j \in 1..(rd_pending + 1) : h[j] = fed[Base + rd_used + j]
  BY PassedGrows
<1> HIDE DEF h
<1>3. rd_pending + 1 <= rd_count - rd_used
  BY NextByteFed, Lengths
<1>4. Len(h) <= Len(Held) /\ \A j \in 1..Len(h) : h[j] = Held[j]
  <2>1. \A j \in 1..(rd_pending + 1) : j \in 1..(rd_count - rd_used)
    BY <1>3, Lengths
  <2>2. /\ Len(Held) = rd_count - rd_used
        /\ \A j \in 1..(rd_count - rd_used) : Held[j] = fed[Base + rd_used + j]
    BY HeldType
  <2> QED BY <1>2, <1>3, <2>1, <2>2
<1>5. IsPrefix(h, Held)
  BY <1>2, <1>4, HeldType, PrefixPoints
<1>6. 1 \in 1..Len(h) /\ \A j \in 1..Len(held) : j \in 1..Len(h)
  BY <1>2, Lengths
<1>7. \A j \in 1..Len(held) : h[j] = held[j]
  BY <1>2, <1>6
<1> QED BY <1>2, <1>4, <1>5, <1>6, <1>7 DEF h

-----------------------------------------------------------------------------
LEMMA FedInit == Init => FedInv
<1> SUFFICES ASSUME Init PROVE FedInv
  OBVIOUS
<1>1. /\ fed = <<>> /\ rd_count = 0 /\ rd_used = 0 /\ rd_pending = 0 /\ pc = "idle"
      /\ <<>> \in Seq(Byte) /\ Len(<<>>) = 0
  BY EmptySeq DEF Init
<1> QED BY <1>1 DEF FedInv, BufferInv, PassedInv, NoKeyInv, Intact, Base

LEMMA StartReadFed == Inv /\ FedInv /\ StartRead => FedInv'
<1> SUFFICES ASSUME Inv, FedInv, StartRead PROVE FedInv'
  OBVIOUS
<1>1. /\ pc = "idle" /\ path' = <<>> /\ rd_pending = 0
      /\ pc' = IF Keys = {} THEN "empty" ELSE "dfa"
      /\ UNCHANGED <<fed, rd_buf, rd_count, rd_used, rd_pending, uchars>>
  BY DEF StartRead, source, counts, Inv, LookaheadInv
<1>2. BufferInv'
  BY <1>1, Lengths DEF FedInv, BufferInv, Base, Intact
<1>3. PassedInv'
  <2>1. CASE Keys = {}
    BY <1>1, <2>1 DEF PassedInv
  <2>2. CASE Keys # {}
    <3>1. PICK k \in Keys : TRUE
      BY <2>2
    <3>2. k \in Seq(Byte) /\ Len(k) >= 1 /\ <<>> \in Seq(Byte) /\ Len(<<>>) = 0
      BY KeyAssumption, EmptySeq
    <3>4. IsPrefix(path', k) /\ Len(path') < Len(k)
      BY <1>1, <3>2, EmptyPrefix
    <3> QED BY <1>1, <2>2, <3>4 DEF PassedInv
  <2> QED BY <2>1, <2>2
<1>4. NoKeyInv'
  BY <1>1 DEF NoKeyInv, Keyless
<1> QED BY <1>2, <1>3, <1>4 DEF FedInv

(* Storing bytes behind index "at" of a buffer. *)
LEMMA DeliverFed ==
  ASSUME NEW buf \in [0..(BufSize - 1) -> Byte], NEW at \in Nat,
         NEW bytes \in Seq(Byte), at + Len(bytes) <= BufSize,
         fed \in Seq(Byte), Deliver(buf, at, bytes)
  PROVE  /\ fed' \in Seq(Byte) /\ Len(fed') = Len(fed) + Len(bytes)
         /\ \A i \in 1..Len(fed) : fed'[i] = fed[i]
         /\ rd_count' = at + Len(bytes)
         /\ Base' = Len(fed) - at
         /\ \A i \in at..(rd_count' - 1) : rd_buf'[i] = fed'[Base' + i + 1]
<1>0. Len(bytes) \in Nat /\ Len(fed) \in Nat /\ BufSize \in Nat
  BY LenProperties, ReaderAssumption
<1>1. /\ fed' = fed \o bytes
      /\ fed \o bytes \in Seq(Byte) /\ Len(fed \o bytes) = Len(fed) + Len(bytes)
      /\ \A i \in 1..(Len(fed) + Len(bytes)) :
           (fed \o bytes)[i] = IF i <= Len(fed) THEN fed[i] ELSE bytes[i - Len(fed)]
  BY ConcatProperties DEF Deliver
<1>2. rd_count' = at + Len(bytes)
  BY DEF Deliver
<1>3. Base' = Len(fed) - at
  BY <1>0, <1>1, <1>2 DEF Base
<1>4. ASSUME NEW i \in at..(rd_count' - 1) PROVE rd_buf'[i] = fed'[Base' + i + 1]
  <2>1. i \in at..(at + Len(bytes) - 1) /\ i \in 0..(BufSize - 1)
    BY <1>0, <1>2
  <2>2. rd_buf'[i] = bytes[i - at + 1]
    BY <2>1 DEF Deliver, Stored
  <2> DEFINE n == Len(fed) - at + i + 1
  <2>3. n \in 1..(Len(fed) + Len(bytes)) /\ ~(n <= Len(fed)) /\ n - Len(fed) = i - at + 1
    BY <1>0, <2>1
  <2>4. Base' + i + 1 = n
    BY <1>3
  <2> HIDE DEF n
  <2>5. (fed \o bytes)[n] = bytes[n - Len(fed)]
    BY <1>1, <2>3
  <2>6. fed'[n] = bytes[i - at + 1]
    BY <1>1, <2>3, <2>5
  <2> QED BY <2>2, <2>4, <2>6
<1>5. ASSUME NEW i \in 1..Len(fed) PROVE fed'[i] = fed[i]
  <2>1. i \in 1..(Len(fed) + Len(bytes)) /\ i <= Len(fed)
    BY <1>0
  <2> QED BY <1>1, <2>1
<1>6. fed' \in Seq(Byte) /\ Len(fed') = Len(fed) + Len(bytes)
  BY <1>1
<1> QED BY <1>2, <1>3, <1>4, <1>5, <1>6

(* What read_wrapper brings is the beginning of what it had yet to deliver,  *)
(* or the Ctrl-D of a read() that brought nothing.                           *)
Brings(bytes) ==
  \/ Rest = bytes \o Rest'
  \/ /\ bytes = EndMark
     /\ preload = NoPreload /\ (input = <<>> \/ Interrupts)
     /\ UNCHANGED <<input, preload>>

LEMMA PreloadThenInput ==
  ASSUME NEW p, p # NoPreload => p \in Seq(Byte), NEW s \in Seq(Byte)
  PROVE  (IF p = NoPreload THEN <<>> ELSE p) \o s \in Seq(Byte)
BY EmptySeq, ConcatProperties

LEMMA RestType == ASSUME BytesInv PROVE Rest \in Seq(Byte)
BY PreloadThenInput DEF Rest, BytesInv

LEMMA Regrouped ==
  ASSUME NEW p \in Seq(Byte), NEW q \in Seq(Byte), NEW s \in Seq(Byte)
  PROVE  (p \o q) \o s = p \o (q \o s)
BY ConcatAssociative

LEMMA SplitAt ==
  ASSUME NEW s \in Seq(Byte), NEW n \in 0..Len(s)
  PROVE  s = SubSeq(s, 1, n) \o SubSeq(s, n + 1, Len(s))
<1>1. Len(s) \in Nat
  BY LenProperties
<1>2. 1 \in 1..(Len(s) + 1) /\ n \in (1 - 1)..Len(s) /\ Len(s) \in n..Len(s)
  BY <1>1
<1>3. SubSeq(s, 1, n) \o SubSeq(s, n + 1, Len(s)) = SubSeq(s, 1, Len(s))
  BY <1>2, ConcatAdjacentSubSeq
<1> QED BY <1>3, SubSeqFull

LEMMA ReadWrapperBrings ==
  ASSUME Inv, NEW buf, NEW at \in 0..(BufSize - 1), ReadWrapper(buf, at)
  PROVE  /\ input' \in Tails(input)
         /\ \E bytes \in Seq(Byte) : /\ at + Len(bytes) <= BufSize
                                     /\ Deliver(buf, at, bytes)
                                     /\ Brings(bytes)
<1> DEFINE room == BufSize - at
           n == IF Len(preload) > room THEN room ELSE Len(preload)
<1>0. BufSize \in Nat /\ at \in Nat /\ at < BufSize /\ room \in Nat
      /\ input \in Seq(Byte) /\ Len(input) \in Nat
  BY ReaderAssumption, LenProperties DEF Inv, BytesInv
<1>1. ASSUME UNCHANGED input PROVE input' \in Tails(input)
  BY <1>0, <1>1, SubSeqFull DEF Tails
<1>2. CASE /\ preload # NoPreload
           /\ Deliver(buf, at, SubSeq(preload, 1, n))
           /\ preload' = IF Len(preload) > room
                         THEN SubSeq(preload, n + 1, Len(preload)) ELSE NoPreload
           /\ UNCHANGED input
  <2>1. preload \in Seq(Byte) /\ Len(preload) \in Nat
    BY <1>2, LenProperties DEF Inv, BytesInv
  <2>2. n \in 0..Len(preload) /\ n <= room
    BY <1>0, <2>1
  <2> DEFINE bytes == SubSeq(preload, 1, n)
             after == SubSeq(preload, n + 1, Len(preload))
  <2>3. bytes \in Seq(Byte) /\ Len(bytes) = n /\ after \in Seq(Byte)
    BY <2>1, <2>2, PartType
  <2>4. preload = bytes \o after
    BY <2>1, <2>2, SplitAt
  <2>5. Rest = preload \o input
    BY <1>2 DEF Rest
  <2>6. (bytes \o after) \o input = bytes \o (after \o input)
    <3> HIDE DEF bytes, after
    <3> QED BY <1>0, <2>3, Regrouped
  <2>7. Rest' = after \o input
    <3>1. CASE Len(preload) > room
      <4>1. preload' = after /\ preload' # NoPreload
        BY <1>2, <2>3, <3>1, ReaderAssumption
      <4> HIDE DEF after
      <4> QED BY <1>2, <4>1 DEF Rest
    <3>2. CASE ~(Len(preload) > room)
      <4>1. preload' = NoPreload /\ n = Len(preload)
        BY <1>2, <3>2
      <4>2. after = <<>>
        <5>1. n + 1 \in Int /\ Len(preload) \in Int /\ Len(preload) < n + 1
          BY <2>1, <4>1
        <5> QED BY <5>1, SubSeqEmpty
      <4> HIDE DEF after
      <4> QED BY <1>2, <4>1, <4>2 DEF Rest
    <3> QED BY <3>1, <3>2
  <2>8. at + Len(bytes) <= BufSize
    BY <1>0, <2>1, <2>2, <2>3
  <2> HIDE DEF after
  <2>9. Brings(bytes)
    <3> HIDE DEF bytes
    <3> QED BY <2>4, <2>5, <2>6, <2>7 DEF Brings
  <2>10. Deliver(buf, at, bytes)
    BY <1>2
  <2> QED BY <1>1, <1>2, <2>3, <2>8, <2>9, <2>10
<1>3. CASE /\ preload = NoPreload
           /\ \E m \in 1..room :
                /\ m <= Len(input)
                /\ Deliver(buf, at, SubSeq(input, 1, m))
                /\ input' = SubSeq(input, m + 1, Len(input))
           /\ UNCHANGED preload
  <2> PICK m \in 1..room : /\ m <= Len(input)
                           /\ Deliver(buf, at, SubSeq(input, 1, m))
                           /\ input' = SubSeq(input, m + 1, Len(input))
    BY <1>3
  <2>1. m \in 0..Len(input) /\ m + 1 \in 1..(Len(input) + 1)
    BY <1>0
  <2> DEFINE bytes == SubSeq(input, 1, m)
             after == SubSeq(input, m + 1, Len(input))
  <2>2. bytes \in Seq(Byte) /\ Len(bytes) = m /\ after \in Seq(Byte)
    BY <1>0, <2>1, PartType
  <2>3. input = bytes \o after
    BY <1>0, <2>1, SplitAt
  <2>4. input' \in Tails(input)
    BY <2>1 DEF Tails
  <2>5. <<>> \o input = input /\ <<>> \o after = after
    BY <1>0, <2>2, ConcatEmptySeq
  <2>6. Rest = input /\ Rest' = after
    BY <1>3, <2>5 DEF Rest
  <2>7. at + Len(bytes) <= BufSize
    BY <1>0, <2>2
  <2>8. Brings(bytes)
    <3> HIDE DEF bytes, after
    <3> QED BY <2>3, <2>6 DEF Brings
  <2> QED BY <2>2, <2>4, <2>7, <2>8
<1>4. CASE /\ preload = NoPreload
           /\ input = <<>> \/ Interrupts
           /\ Deliver(buf, at, EndMark)
           /\ UNCHANGED <<input, preload>>
  <2>1. EndMark \in Seq(Byte) /\ Len(EndMark) = 1
    BY ReaderAssumption DEF EndMark
  <2>2. at + Len(EndMark) <= BufSize
    BY <1>0, <2>1
  <2>3. Brings(EndMark)
    BY <1>4 DEF Brings
  <2> QED BY <1>1, <1>4, <2>1, <2>2, <2>3
<1> QED BY <1>2, <1>3, <1>4 DEF ReadWrapper, Room

-----------------------------------------------------------------------------
LEMMA MovedType ==
  ASSUME Inv, NEW beyond \in Byte
  PROVE  Moved(rd_buf, beyond) \in [0..(BufSize - 1) -> Byte]
<1>1. rd_buf \in [0..(BufSize - 1) -> Byte]
  BY DEF Inv, BytesInv
<1>2. ASSUME NEW i \in 0..(BufSize - 1), rd_count + i < BufSize
      PROVE  rd_buf[rd_count + i] \in Byte
  <2>1. rd_count + i \in 0..(BufSize - 1)
    BY <1>2, Lengths
  <2> QED BY <1>1, <2>1
<1> QED BY <1>1, <1>2 DEF Moved

LEMMA RefillFed == Inv /\ FedInv /\ Refill => FedInv'
<1> SUFFICES ASSUME Inv, FedInv, Refill PROVE FedInv'
  OBVIOUS
<1>1. /\ pc \in {"dfa", "uchar"} /\ rd_used + rd_pending = rd_count /\ rd_used' = 0
      /\ UNCHANGED <<rd_pending, path, uchars, pc>>
  BY DEF Refill, Starved, parsing
<1> PICK beyond \in Byte : ReadWrapper(Moved(rd_buf, beyond), rd_pending)
  BY DEF Refill
<1>2. rd_pending \in 0..(BufSize - 1)
  BY <1>1, RoomLeft, Lengths
<1> PICK bytes \in Seq(Byte) : /\ rd_pending + Len(bytes) <= BufSize
                               /\ Deliver(Moved(rd_buf, beyond), rd_pending, bytes)
  BY <1>2, ReadWrapperBrings
<1>3. /\ fed' \in Seq(Byte) /\ Len(fed') = Len(fed) + Len(bytes)
      /\ \A i \in 1..Len(fed) : fed'[i] = fed[i]
      /\ rd_count' = rd_pending + Len(bytes)
      /\ Base' = Len(fed) - rd_pending
      /\ \A i \in rd_pending..(rd_count' - 1) : rd_buf'[i] = fed'[Base' + i + 1]
  <2>1. Moved(rd_buf, beyond) \in [0..(BufSize - 1) -> Byte]
    BY MovedType
  <2>2. fed \in Seq(Byte) /\ rd_pending \in Nat
    BY Lengths, FedLengths
  <2> QED BY <2>1, <2>2, DeliverFed
<1>4. /\ Len(bytes) \in Nat
      /\ Base' + rd_used' = Base + rd_used
      /\ Base + rd_used >= 0 /\ Base + rd_used + rd_pending = Len(fed)
  <2>1. Len(bytes) \in Nat
    BY LenProperties
  <2>2. /\ Base \in Int /\ Len(fed) \in Nat /\ Base + rd_count = Len(fed)
        /\ Base + rd_used >= 0
    BY FedLengths
  <2>3. rd_used \in Nat /\ rd_pending \in Nat /\ rd_used + rd_pending = rd_count
    BY <1>1, Lengths
  <2>4. Base' = Len(fed) - rd_pending /\ rd_used' = 0
    BY <1>1, <1>3
  <2> QED BY <2>1, <2>2, <2>3, <2>4
<1>5. \A j \in 1..rd_pending : fed'[Base' + rd_used' + j] = fed[Base + rd_used + j]
  <2> SUFFICES ASSUME NEW j \in 1..rd_pending
               PROVE  fed'[Base' + rd_used' + j] = fed[Base + rd_used + j]
    OBVIOUS
  <2>1. Base + rd_used + j \in 1..Len(fed)
    <3>1. Base \in Int /\ Len(fed) \in Nat /\ rd_used \in Nat /\ rd_pending \in Nat
      BY Lengths, FedLengths
    <3> QED BY <1>4, <3>1
  <2> QED BY <1>3, <1>4, <2>1
<1>6. BufferInv'
  <2>1. (rd_used + rd_pending)' = rd_pending
    BY <1>1, Lengths
  <2>2. Intact(rd_used + rd_pending)'
    BY <1>1, <1>3, <2>1 DEF Intact
  <2>3. Base' + rd_used' >= 0
    BY <1>4
  <2> QED BY <1>1, <1>3, <2>2, <2>3 DEF BufferInv
<1>7. PassedInv'
  BY <1>1, <1>5 DEF FedInv, PassedInv
<1>8. NoKeyInv'
  <2> DEFINE a == Base + rd_used
  <2>1. a \in 0..Len(fed) /\ fed \in Seq(Byte)
    BY FedLengths, Lengths
  <2>2. Held = SubSeq(fed, a + 1, Len(fed))
    BY DEF Held
  <2>3. Held' = SubSeq(fed \o bytes, a + 1, Len(fed \o bytes))
    BY <1>4 DEF Held, Deliver
  <2> HIDE DEF a
  <2>4. Held' = Held \o bytes
    BY <2>1, <2>2, <2>3, TailGrows
  <2>5. Held \in Seq(Byte) /\ Held' \in Seq(Byte) /\ IsPrefix(Held, Held')
    BY <2>4, HeldType, JoinedPrefix
  <2>6. Keyless(Held) => Keyless(Held')
    BY <2>5, KeylessGrows
  <2> QED BY <1>1, <2>6 DEF FedInv, NoKeyInv
<1> QED BY <1>6, <1>7, <1>8 DEF FedInv

(* A step with which a parse ends leaves the bytes behind that were read:    *)
(* those a failed parse returns to, and those after a byte that is skipped.  *)
LeavesIntact ==
  /\ DfaStep /\ pc' = "empty" => Intact(rd_used)
  /\ UcharDone => Intact(rd_used')

LEMMA DfaStepFed == Inv /\ FedInv /\ DfaStep /\ LeavesIntact => FedInv'
<1> SUFFICES ASSUME Inv, FedInv, DfaStep, LeavesIntact PROVE FedInv'
  OBVIOUS
<1> DEFINE p == Append(path, NextByte)
<1>1. /\ pc = "dfa" /\ ~Starved /\ ~Leaf(p) /\ path' = p /\ rd_pending' = rd_pending + 1
      /\ pc' = IF Node(p) THEN "dfa" ELSE "empty"
      /\ UNCHANGED <<fed, rd_buf, rd_count, rd_used>>
  BY DEF DfaStep, source
<1>2. /\ path \in Seq(Byte) /\ Len(path) = rd_pending
      /\ \A j \in 1..rd_pending : path[j] = fed[Base + rd_used + j]
  BY <1>1 DEF Inv, LookaheadInv, FedInv, PassedInv
<1>3. /\ p \in Seq(Byte) /\ Len(p) = rd_pending + 1
      /\ \A j \in 1..(rd_pending + 1) : p[j] = fed[Base + rd_used + j]
  BY <1>1, <1>2, PassedGrows
<1>4. /\ NextByte = fed[Base + rd_used + rd_pending + 1]
      /\ rd_used + rd_pending < rd_count
  BY <1>1, NextByteFed
<1> HIDE DEF p
<1>5. Base' = Base
  BY <1>1 DEF Base
<1>6. fed \in Seq(Byte) /\ Base + rd_used >= 0 /\ Intact(rd_used + rd_pending)
  BY <1>1 DEF FedInv, BufferInv
<1>7. CASE Node(p)
  <2>1. pc' = "dfa"
    BY <1>1, <1>7
  <2>2. Intact(rd_used + rd_pending)'
    BY <1>1, <1>5, <1>6, Lengths DEF Intact
  <2>3. BufferInv'
    BY <1>1, <1>5, <1>6, <2>1, <2>2 DEF BufferInv
  <2>4. \E k \in Keys : IsPrefix(p, k) /\ Len(p) < Len(k)
    <3>1. PICK k \in Keys : IsPrefix(p, k)
      BY <1>7 DEF Node
    <3>2. k \in Seq(Byte) /\ Len(k) \in Nat /\ Len(p) \in Nat
      BY KeyAssumption, <1>3, LenProperties
    <3>3. Len(p) <= Len(k) /\ \A i \in 1..Len(p) : p[i] = k[i]
      BY <1>3, <3>1, <3>2, PrefixPoints
    <3>4. Len(p) = Len(k) => p = k
      BY <1>3, <3>2, <3>3, SeqEqual
    <3>5. p # k
      BY <1>1 DEF Leaf
    <3>6. Len(p) < Len(k)
      BY <3>2, <3>3, <3>4, <3>5
    <3> QED BY <3>1, <3>6
  <2>5. PassedInv'
    BY <1>1, <1>3, <1>5, <2>1, <2>4 DEF PassedInv
  <2>6. NoKeyInv'
    BY <2>1 DEF NoKeyInv
  <2> QED BY <2>3, <2>5, <2>6 DEF FedInv
<1>8. CASE ~Node(p)
  <2>1. pc' = "empty"
    BY <1>1, <1>8
  <2>2. Intact(rd_used)'
    BY <1>1, <1>5, <2>1 DEF LeavesIntact, Intact
  <2>3. BufferInv'
    BY <1>1, <1>5, <1>6, <2>1, <2>2 DEF BufferInv
  <2>4. PICK k \in Keys : IsPrefix(path, k) /\ Len(path) < Len(k)
    BY <1>1 DEF FedInv, PassedInv
  <2>5. IsPrefix(p, Held) /\ \A j \in 1..Len(path) : p[j] = path[j]
    BY <1>1, <1>2, GrownHeld DEF p
  <2>6. IsPrefix(path, p)
    BY <1>2, <1>3, <2>5, Lengths, PrefixPoints
  <2>7. Keyless(p)
    BY <1>2, <1>3, <1>8, <2>4, <2>6, KeylessStep
  <2>8. Held' = Held /\ Keyless(Held)
    BY <1>1, <1>3, <1>5, <2>5, <2>7, HeldType, KeylessGrows DEF Held
  <2>9. NoKeyInv'
    BY <2>8 DEF NoKeyInv, Keyless
  <2>10. PassedInv'
    BY <2>1 DEF PassedInv
  <2> QED BY <2>3, <2>9, <2>10 DEF FedInv
<1> QED BY <1>7, <1>8

LEMMA StillRead ==
  ASSUME Inv, FedInv, NEW n \in Nat, Base' = Base, rd_used' = rd_used + n
  PROVE  Base' + rd_used' >= 0
<1>1. Base \in Int /\ rd_used \in Nat /\ Base + rd_used >= 0
  BY Lengths, FedLengths
<1> QED BY <1>1

(* The buffer after some of its bytes have been taken, when no parse runs. *)
LEMMA TakenFed ==
  ASSUME Inv, FedInv, ~Starved, pc \in {"dfa", "uchar"}, pc' \in {"idle", "done"},
         UNCHANGED <<fed, rd_buf, rd_count>>, rd_used' = rd_used + rd_pending + 1
  PROVE  FedInv'
<1>1. rd_used + rd_pending < rd_count /\ Base' = Base
  BY NextByteFed DEF Base
<1>2. fed \in Seq(Byte) /\ Base + rd_used >= 0 /\ Intact(rd_used + rd_pending)
  BY DEF FedInv, BufferInv
<1>3. Intact(rd_used)'
  BY <1>1, <1>2, Lengths DEF Intact
<1>4. Base' + rd_used' >= 0
  <2>1. rd_pending + 1 \in Nat /\ rd_used' = rd_used + (rd_pending + 1)
    BY Lengths
  <2> QED BY <1>1, <2>1, StillRead
<1>5. BufferInv'
  BY <1>2, <1>3, <1>4 DEF BufferInv
<1> QED BY <1>5 DEF FedInv, PassedInv, NoKeyInv

LEMMA DfaAcceptFed == Inv /\ FedInv /\ DfaAccept => FedInv'
BY TakenFed DEF DfaAccept, source

LEMMA ReadPlainFed == Inv /\ FedInv /\ ReadPlain => FedInv'
<1> SUFFICES ASSUME Inv, FedInv, ReadPlain PROVE FedInv'
  OBVIOUS
<1>1. /\ pc = "empty" /\ rd_count = rd_used /\ rd_used' = 0 /\ rd_pending' = 0
      /\ pc' = "uchar" /\ ReadWrapper(rd_buf, 0)
  BY DEF ReadPlain
<1>2. Keys = {}
  <2>1. Held = <<>>
    BY <1>1, HeldType, EmptySeq, Lengths
  <2> QED BY <1>1, <2>1, KeylessEmpty DEF FedInv, NoKeyInv
<1>3. 0 \in 0..(BufSize - 1)
  BY Lengths
<1> PICK bytes \in Seq(Byte) : 0 + Len(bytes) <= BufSize /\ Deliver(rd_buf, 0, bytes)
  BY <1>1, <1>3, ReadWrapperBrings
<1>4. /\ fed' \in Seq(Byte)
      /\ Base' = Len(fed) - 0
      /\ \A i \in 0..(rd_count' - 1) : rd_buf'[i] = fed'[Base' + i + 1]
  <2>1. rd_buf \in [0..(BufSize - 1) -> Byte] /\ fed \in Seq(Byte) /\ 0 \in Nat
    BY FedLengths DEF Inv, BytesInv
  <2> QED BY <2>1, DeliverFed
<1>5. Base' + rd_used' >= 0
  BY <1>1, <1>4, FedLengths
<1>6. BufferInv'
  BY <1>1, <1>4, <1>5 DEF BufferInv, Intact
<1>7. PassedInv'
  BY <1>1 DEF PassedInv
<1> QED BY <1>2, <1>6, <1>7 DEF FedInv, NoKeyInv, Keyless

LEMMA StartUcharFed == Inv /\ FedInv /\ StartUchar => FedInv'
<1> SUFFICES ASSUME Inv, FedInv, StartUchar PROVE FedInv'
  OBVIOUS
<1>1. /\ pc = "empty" /\ pc' = "uchar" /\ rd_pending' = 0
      /\ UNCHANGED <<fed, rd_buf, rd_count, rd_used>>
  BY DEF StartUchar, source
<1>2. Base' = Base /\ (rd_used + rd_pending)' = rd_used
  BY <1>1, Lengths DEF Base
<1>3. BufferInv'
  BY <1>1, <1>2 DEF FedInv, BufferInv, Intact
<1>4. PassedInv'
  BY <1>1 DEF PassedInv
<1>5. NoKeyInv'
  BY <1>1, <1>2 DEF FedInv, NoKeyInv, Keyless, Held
<1> QED BY <1>3, <1>4, <1>5 DEF FedInv

LEMMA UcharStepFed == Inv /\ FedInv /\ UcharStep => FedInv'
<1> SUFFICES ASSUME Inv, FedInv, UcharStep PROVE FedInv'
  OBVIOUS
<1> DEFINE u == Append(uchars, NextByte)
<1>1. /\ pc = "uchar" /\ pc' = "uchar" /\ ~Starved /\ uchars' = u
      /\ Len(u) < LeadLen[u[1]] /\ rd_pending' = rd_pending + 1
      /\ UNCHANGED <<fed, rd_buf, rd_count, rd_used>>
  BY DEF UcharStep, source
<1>2. /\ uchars \in Seq(Byte) /\ Len(uchars) = rd_pending
      /\ \A j \in 1..rd_pending : uchars[j] = fed[Base + rd_used + j]
  BY <1>1 DEF Inv, LookaheadInv, FedInv, PassedInv
<1>3. /\ u \in Seq(Byte) /\ Len(u) = rd_pending + 1
      /\ \A j \in 1..(rd_pending + 1) : u[j] = fed[Base + rd_used + j]
  BY <1>1, <1>2, PassedGrows
<1> HIDE DEF u
<1>4. Base' = Base
  BY <1>1 DEF Base
<1>5. BufferInv'
  <2>1. fed \in Seq(Byte) /\ Base + rd_used >= 0 /\ Intact(rd_used + rd_pending)
    BY <1>1 DEF FedInv, BufferInv
  <2>2. (rd_used + rd_pending)' = rd_used + rd_pending + 1
    BY <1>1, Lengths
  <2>3. Intact(rd_used + rd_pending)'
    BY <1>1, <1>4, <2>1, <2>2, Lengths DEF Intact
  <2> QED BY <1>1, <1>4, <2>1, <2>3 DEF BufferInv
<1>6. PassedInv'
  BY <1>1, <1>3, <1>4 DEF PassedInv
<1>7. NoKeyInv'
  BY <1>1, <1>4 DEF FedInv, NoKeyInv, Keyless, Held
<1> QED BY <1>5, <1>6, <1>7 DEF FedInv

LEMMA UcharDoneFed == Inv /\ FedInv /\ UcharDone /\ LeavesIntact => FedInv'
<1> SUFFICES ASSUME Inv, FedInv, UcharDone, LeavesIntact PROVE FedInv'
  OBVIOUS
<1> DEFINE u == Append(uchars, NextByte)
<1>1. /\ pc = "uchar" /\ pc' \in {"idle", "done"} /\ ~Starved
      /\ rd_used' = rd_used + Consumed(u)
      /\ UNCHANGED <<fed, rd_buf, rd_count>>
  BY DEF UcharDone, source
<1>2. Consumed(u) \in Nat
  BY <1>1, UcharType, LenProperties DEF Consumed
<1> HIDE DEF u
<1>3. Base' = Base
  BY <1>1 DEF Base
<1>4. Base' + rd_used' >= 0 /\ fed' \in Seq(Byte)
  BY <1>1, <1>2, <1>3, StillRead, FedLengths
<1>5. Intact(rd_used)'
  BY <1>1, <1>3 DEF LeavesIntact, Intact
<1>6. BufferInv'
  BY <1>1, <1>4, <1>5 DEF BufferInv
<1> QED BY <1>1, <1>6 DEF FedInv, PassedInv, NoKeyInv

LEMMA NewSessionFed == Inv /\ FedInv /\ NewSession => FedInv'
<1> SUFFICES ASSUME Inv, FedInv, NewSession PROVE FedInv'
  OBVIOUS
<1>1. fed' = fed /\ rd_count' = 0 /\ rd_used' = 0 /\ pc' = "idle"
  BY DEF NewSession, CountersReset
<1>2. Base' = Len(fed) - 0
  BY <1>1 DEF Base
<1>3. BufferInv'
  BY <1>1, <1>2, FedLengths DEF BufferInv, Intact
<1> QED BY <1>1, <1>3 DEF FedInv, PassedInv, NoKeyInv

LEMMA FedStays == FedInv /\ UNCHANGED vars => FedInv'
BY DEF vars, source, counts, parsing, FedInv, BufferInv, PassedInv, NoKeyInv, Keyless, Held,
       Intact, Base

LEMMA FedNext == Inv /\ FedInv /\ [Next]_vars /\ LeavesIntact => FedInv'
<1> SUFFICES ASSUME Inv, FedInv, [Next]_vars, LeavesIntact PROVE FedInv'
  OBVIOUS
<1>1. CASE UNCHANGED vars
  BY <1>1, FedStays
<1>2. CASE Next
  BY <1>2, StartReadFed, RefillFed, DfaStepFed, DfaAcceptFed, ReadPlainFed,
     StartUcharFed, UcharStepFed, UcharDoneFed, NewSessionFed DEF Next
<1> QED BY <1>1, <1>2

-----------------------------------------------------------------------------
(* Where no parse runs the buffer still has what was read last. *)
LEMMA HeldWindow ==
  ASSUME Inv, FedInv, pc \in {"idle", "done"}
  PROVE  Held = Window
<1>1. /\ fed \in Seq(Byte) /\ Len(fed) \in Nat /\ Base \in Int
      /\ Base + rd_used >= 0 /\ Base + rd_count = Len(fed)
      /\ rd_used \in Nat /\ rd_count \in Nat /\ rd_used <= rd_count
  BY FedLengths, Lengths
<1>3. Held = Window
  <2>3. Intact(rd_used)
    BY DEF FedInv, BufferInv
  <2>4. ASSUME NEW j \in 1..(rd_count - rd_used)
        PROVE  rd_buf[rd_used + j - 1] = fed[Base + rd_used + j] /\ rd_buf[rd_used + j - 1] \in Byte
    <3>1. rd_used + j - 1 \in rd_used..(rd_count - 1) /\ rd_used + j - 1 \in 0..(BufSize - 1)
      BY <1>1, Lengths
    <3>2. rd_buf[rd_used + j - 1] = fed[Base + (rd_used + j - 1) + 1]
      BY <2>3, <3>1 DEF Intact
    <3>3. Base + (rd_used + j - 1) + 1 = Base + rd_used + j
      BY <1>1
    <3>4. rd_buf[rd_used + j - 1] \in Byte
      BY <3>1 DEF Inv, BytesInv
    <3> QED BY <3>2, <3>3, <3>4
  <2>5. Window \in Seq(Byte) /\ Len(Window) = rd_count - rd_used
        /\ \A j \in 1..(rd_count - rd_used) : Window[j] = rd_buf[rd_used + j - 1]
    <3> DEFINE n == rd_count - rd_used
    <3>1. n \in Nat
      BY <1>1
    <3>2. Window = [j \in 1..n |-> rd_buf[rd_used + j - 1]]
      BY DEF Window
    <3> HIDE DEF n
    <3>3. \A j \in 1..n : rd_buf[rd_used + j - 1] \in Byte
      BY <2>4 DEF n
    <3>4. Window \in [1..n -> Byte] /\ \A j \in 1..n : Window[j] = rd_buf[rd_used + j - 1]
      BY <3>2, <3>3
    <3>5. Window \in Seq(Byte)
      BY <3>1, <3>4, SeqDef
    <3>6. Len(Window) = n
      BY <3>1, <3>4, <3>5, LenProperties
    <3> QED BY <3>4, <3>5, <3>6 DEF n
  <2> QED BY <2>4, <2>5, HeldType, SeqEqual
<1> QED BY <1>3

LEMMA FedSafe == Inv /\ FedInv => WaitsOnlyIfIncomplete
<1> SUFFICES ASSUME Inv, FedInv PROVE WaitsOnlyIfIncomplete
  OBVIOUS
<1>4. ASSUME pc = "dfa", Starved
      PROVE  Held \notin Keys /\ \E k \in Keys : IsStrictPrefix(Held, k)
  <2>1. Held = path /\ path \in Seq(Byte)
    BY <1>4, PassedHeld DEF Inv, LookaheadInv
  <2>2. PICK k \in Keys : IsPrefix(path, k) /\ Len(path) < Len(k)
    BY <1>4 DEF FedInv, PassedInv
  <2>3. Held # k /\ Len(Held) \in Nat
    BY <2>1, <2>2, LenProperties
  <2> QED BY <2>1, <2>2, <2>3, KeyAssumption DEF IsStrictPrefix
<1>5. ASSUME pc = "uchar", Starved
      PROVE  Held \notin Keys /\ (Held # <<>> => Len(Held) < LeadLen[Held[1]])
  <2>1. Held = uchars /\ uchars \in Seq(Byte) /\ Len(uchars) = rd_pending
    BY <1>5, PassedHeld DEF Inv, LookaheadInv
  <2>2. uchars # <<>> => rd_pending > 0
    BY <2>1, EmptySeq, Lengths
  <2>3. Held # <<>> => Len(Held) < LeadLen[Held[1]]
    BY <1>5, <2>1, <2>2 DEF FedInv, PassedInv
  <2>4. Held \notin Keys
    <3> SUFFICES ASSUME Held \in Keys PROVE FALSE
      OBVIOUS
    <3>1. IsPrefix(Held, Held)
      BY <2>1, PrefixPoints, LenProperties
    <3> QED BY <1>5, <3>1 DEF FedInv, NoKeyInv, Keyless
  <2> QED BY <2>3, <2>4
<1>6. Held = Undecoded
  BY DEF Held, Undecoded, Base
<1> QED BY <1>4, <1>5, <1>6 DEF WaitsOnlyIfIncomplete

-----------------------------------------------------------------------------
(* What the events of a call stand for is what it has read, up to what is    *)
(* held.                                                                     *)
Gone == (Base + rd_used) - opened.fed

TakenInv ==
  /\ taken \in Seq(Byte)
  /\ opened.fed \in Nat /\ opened.taken \in Nat
  /\ Gone >= 0 /\ Len(taken) = opened.taken + Gone
  /\ \A j \in 1..Gone : taken[opened.taken + j] = fed[opened.fed + j]

LEMMA TakenLengths ==
  ASSUME Inv, FedInv, TakenInv
  PROVE  /\ Gone \in Nat /\ opened.fed \in Nat /\ opened.taken \in Nat
         /\ Base + rd_used = opened.fed + Gone /\ opened.fed + Gone <= Len(fed)
         /\ Len(fed) = opened.fed + Gone + (rd_count - rd_used)
         /\ taken \in Seq(Byte) /\ Len(taken) = opened.taken + Gone
<1>1. /\ opened.fed \in Nat /\ opened.taken \in Nat /\ Gone >= 0
      /\ taken \in Seq(Byte) /\ Len(taken) = opened.taken + Gone
  BY DEF TakenInv
<1>2. /\ Base \in Int /\ rd_used \in Nat /\ rd_count \in Nat /\ rd_used <= rd_count
      /\ Len(fed) \in Nat /\ Base + rd_count = Len(fed)
  BY FedLengths, Lengths
<1> QED BY <1>1, <1>2 DEF Gone

LEMMA TakenInit == Init => TakenInv
<1> SUFFICES ASSUME Init PROVE TakenInv
  OBVIOUS
<1>1. /\ fed = <<>> /\ taken = <<>> /\ rd_count = 0 /\ rd_used = 0
      /\ opened.fed = 0 /\ opened.taken = 0 /\ Len(<<>>) = 0 /\ <<>> \in Seq(Byte)
  BY EmptySeq DEF Init
<1> QED BY <1>1 DEF TakenInv, Gone, Base

(* Bytes are read, behind those that events stand for. *)
LEMMA TakenRead ==
  ASSUME Inv, FedInv, TakenInv, NEW bytes \in Seq(Byte), fed' = fed \o bytes,
         UNCHANGED <<taken, opened>>, (Base + rd_used)' = Base + rd_used
  PROVE  TakenInv'
<1> DEFINE n == Gone
<1>1. n \in Nat /\ opened.fed \in Nat /\ opened.fed + n <= Len(fed) /\ Len(fed) \in Nat
  BY FedLengths, TakenLengths
<1>2. n' = n
  BY DEF Gone
<1>3. \A j \in 1..n : taken[opened.taken + j] = fed[opened.fed + j]
  BY DEF TakenInv
<1> HIDE DEF n
<1>4. ASSUME NEW j \in 1..n PROVE fed'[opened.fed + j] = fed[opened.fed + j]
  <2>1. opened.fed + j \in 1..Len(fed)
    BY <1>1
  <2>2. opened.fed + j \in 1..(Len(fed) + Len(bytes)) /\ opened.fed + j <= Len(fed)
    BY <1>1, <2>1, LenProperties
  <2> QED BY <2>2, FedLengths, ConcatProperties
<1>5. \A j \in 1..n' : taken'[opened'.taken + j] = fed'[opened'.fed + j]
  BY <1>2, <1>3, <1>4
<1> QED BY <1>2, <1>5 DEF TakenInv, n

(* An event takes what the bytes held begin with. *)
LEMMA TakenGrows ==
  ASSUME Inv, FedInv, TakenInv, NEW h \in Seq(Byte), IsPrefix(h, Held),
         UNCHANGED <<fed, rd_count, opened>>,
         taken' = taken \o h, rd_used' = rd_used + Len(h)
  PROVE  TakenInv'
<1> DEFINE n == Gone
           t == opened.taken
<1>1. /\ n \in Nat /\ opened.fed \in Nat /\ t \in Nat /\ taken \in Seq(Byte)
      /\ Len(taken) = t + n /\ Base + rd_used = opened.fed + n
      /\ \A j \in 1..n : taken[t + j] = fed[opened.fed + j]
  <2>1. \A j \in 1..n : taken[t + j] = fed[opened.fed + j]
    BY DEF TakenInv
  <2> QED BY <2>1, TakenLengths
<1>2. Len(h) \in Nat /\ Len(h) <= Len(Held) /\ \A j \in 1..Len(h) : h[j] = Held[j]
  BY HeldType, PrefixPoints, LenProperties
<1>3. n' = n + Len(h)
  <2>1. Base' = Base /\ Base \in Int /\ rd_used \in Nat
    BY FedLengths, Lengths DEF Base
  <2>2. opened'.fed = opened.fed
    OBVIOUS
  <2>3. n' = (Base + (rd_used + Len(h))) - opened.fed
    BY <2>1, <2>2 DEF Gone
  <2>4. n = (Base + rd_used) - opened.fed
    BY DEF Gone
  <2>5. opened.fed \in Nat /\ Len(h) \in Nat
    BY <1>1, <1>2
  <2> HIDE DEF n, t
  <2> QED BY <2>1, <2>3, <2>4, <2>5
<1>4. /\ taken' \in Seq(Byte) /\ Len(taken') = t + n + Len(h)
      /\ \A i \in 1..(Len(taken) + Len(h)) :
           taken'[i] = IF i <= Len(taken) THEN taken[i] ELSE h[i - Len(taken)]
  BY <1>1, ConcatProperties
<1>5. ASSUME NEW j \in 1..Len(h) PROVE h[j] = fed[opened.fed + n + j]
  <2>1. j \in 1..(rd_count - rd_used)
    BY <1>2, HeldType, Lengths
  <2> QED BY <1>1, <1>2, <2>1, HeldType
<1> HIDE DEF n, t
<1>6. ASSUME NEW j \in 1..(n + Len(h)) PROVE taken'[t + j] = fed[opened.fed + j]
  <2>0. t + j \in 1..(Len(taken) + Len(h)) /\ (t + j <= Len(taken) <=> j <= n)
    BY <1>1, <1>2
  <2>1. CASE j <= n
    BY <1>1, <1>4, <2>0, <2>1
  <2>2. CASE ~(j <= n)
    <3>1. (t + j) - Len(taken) = j - n /\ j - n \in 1..Len(h) /\ opened.fed + n + (j - n) = opened.fed + j
      BY <1>1, <1>2, <2>2
    <3>2. taken'[t + j] = h[j - n]
      <4>1. Len(taken) \in Nat /\ ~(t + j <= Len(taken))
        BY <1>1, <2>0, <2>2
      <4> QED BY <1>4, <2>0, <3>1, <4>1
    <3> QED BY <1>5, <3>1, <3>2
  <2> QED BY <2>1, <2>2
<1>7. \A j \in 1..n' : taken'[opened'.taken + j] = fed'[opened'.fed + j]
  BY <1>3, <1>6 DEF t
<1>8. opened'.taken = t /\ n' >= 0 /\ Len(taken') = opened'.taken + n'
  BY <1>1, <1>2, <1>3, <1>4 DEF t
<1> QED BY <1>1, <1>4, <1>7, <1>8 DEF TakenInv, n, t

LEMMA TakenOpened == Inv /\ FedInv /\ TakenInv /\ NewSession => TakenInv'
<1> SUFFICES ASSUME Inv, FedInv, TakenInv, NewSession PROVE TakenInv'
  OBVIOUS
<1>1. /\ opened' = [fed |-> Len(fed), events |-> Len(events), taken |-> Len(taken)]
      /\ rd_count' = 0 /\ rd_used' = 0 /\ fed' = fed /\ taken' = taken
  BY DEF NewSession, CountersReset
<1>2. Len(fed) \in Nat /\ Len(taken) \in Nat /\ taken \in Seq(Byte)
  BY FedLengths, LenProperties DEF TakenInv
<1>3. Gone' = 0 /\ opened'.taken = Len(taken) /\ opened'.fed = Len(fed)
  BY <1>1, <1>2 DEF Gone, Base
<1> QED BY <1>1, <1>2, <1>3 DEF TakenInv

(* A read in the middle of a parse, or before the first character. *)
LEMMA ReadMore ==
  ASSUME Inv, FedInv, Refill \/ ReadPlain
  PROVE  /\ \E bytes \in Seq(Byte) : fed' = fed \o bytes
         /\ UNCHANGED <<events, taken, opened>>
         /\ (Base + rd_used)' = Base + rd_used
<1> PICK at, buf :
           /\ at \in 0..(BufSize - 1) /\ ReadWrapper(buf, at) /\ rd_used' = 0
           /\ UNCHANGED <<events, taken, opened>>
           /\ at + rd_used = rd_count
  <2>1. CASE Refill
    <3>1. PICK beyond \in Byte : ReadWrapper(Moved(rd_buf, beyond), rd_pending)
      BY <2>1 DEF Refill
    <3>2. pc \in {"dfa", "uchar"} /\ Starved /\ rd_used' = 0 /\ UNCHANGED <<events, taken, opened>>
      BY <2>1 DEF Refill, calls
    <3>3. rd_pending \in 0..(BufSize - 1)
      BY <3>2, Lengths, RoomLeft
    <3>4. rd_pending + rd_used = rd_count
      BY <3>2, Lengths DEF Starved
    <3> QED BY <3>1, <3>2, <3>3, <3>4
  <2>2. CASE ReadPlain
    <3>1. /\ ReadWrapper(rd_buf, 0) /\ rd_count = rd_used /\ rd_used' = 0
          /\ UNCHANGED <<events, taken, opened>>
      BY <2>2 DEF ReadPlain, calls
    <3>2. 0 \in 0..(BufSize - 1) /\ 0 + rd_used = rd_count
      BY <3>1, Lengths
    <3> QED BY <3>1, <3>2
  <2> QED BY <2>1, <2>2
<1> PICK bytes \in Seq(Byte) : at + Len(bytes) <= BufSize /\ Deliver(buf, at, bytes)
  BY ReadWrapperBrings
<1>1. fed' = fed \o bytes /\ rd_count' = at + Len(bytes)
  BY DEF Deliver
<1>2. Len(fed \o bytes) = Len(fed) + Len(bytes) /\ Len(bytes) \in Nat
  BY FedLengths, LenProperties, ConcatProperties
<1>3. (Base + rd_used)' = Base + rd_used
  <2>1. Len(fed') = Len(fed) + Len(bytes)
    BY <1>1, <1>2
  <2>2. at \in Nat /\ Len(fed) \in Nat /\ rd_used \in Nat /\ rd_count \in Nat
    BY FedLengths, Lengths
  <2>3. (Base + rd_used)' = Len(fed') - rd_count' + rd_used'
    BY DEF Base
  <2>4. Base + rd_used = Len(fed) - rd_count + rd_used
    BY DEF Base
  <2>5. Len(fed) + Len(bytes) - (at + Len(bytes)) + 0 = Len(fed) - rd_count + rd_used
    BY <1>2, <2>2
  <2> QED BY <1>1, <2>1, <2>3, <2>4, <2>5
<1> QED BY <1>1, <1>3

LEMMA TakenNext == Inv /\ FedInv /\ TakenInv /\ [Next]_vars => TakenInv'
<1> SUFFICES ASSUME Inv, FedInv, TakenInv, [Next]_vars PROVE TakenInv'
  OBVIOUS
<1>1. CASE UNCHANGED vars \/ StartRead \/ DfaStep \/ StartUchar \/ UcharStep
  <2>1. UNCHANGED <<fed, taken, opened, rd_count, rd_used>>
    BY <1>1 DEF vars, source, counts, calls, StartRead, DfaStep, StartUchar, UcharStep
  <2> QED BY <2>1 DEF TakenInv, Gone, Base
<1>2. CASE Refill \/ ReadPlain
  BY <1>2, ReadMore, TakenRead
<1>3. CASE DfaAccept
  <2> DEFINE p == Append(path, NextByte)
  <2>1. /\ pc = "dfa" /\ ~Starved /\ taken' = taken \o p
        /\ rd_used' = rd_used + rd_pending + 1
        /\ UNCHANGED <<fed, rd_count, opened>>
    BY <1>3 DEF DfaAccept, source, calls
  <2>2. /\ path \in Seq(Byte) /\ Len(path) = rd_pending
        /\ \A j \in 1..rd_pending : path[j] = fed[Base + rd_used + j]
    BY <2>1 DEF Inv, LookaheadInv, FedInv, PassedInv
  <2>3. p \in Seq(Byte) /\ Len(p) = rd_pending + 1 /\ IsPrefix(p, Held)
    BY <2>1, <2>2, GrownHeld
  <2> HIDE DEF p
  <2>4. rd_used' = rd_used + Len(p)
    BY <2>1, <2>3, Lengths
  <2> QED BY <2>1, <2>3, <2>4, TakenGrows
<1>4. CASE UcharDone
  <2> DEFINE u == Append(uchars, NextByte)
  <2>1. /\ pc = "uchar" /\ ~Starved /\ taken' = taken \o Bytes(u)
        /\ rd_used' = rd_used + Consumed(u)
        /\ UNCHANGED <<fed, rd_count, opened>>
    BY <1>4 DEF UcharDone, source, calls
  <2>2. /\ uchars \in Seq(Byte) /\ Len(uchars) = rd_pending
        /\ \A j \in 1..rd_pending : uchars[j] = fed[Base + rd_used + j]
    BY <2>1 DEF Inv, LookaheadInv, FedInv, PassedInv
  <2>3. u \in Seq(Byte) /\ Len(u) = rd_pending + 1 /\ IsPrefix(u, Held) /\ u[1] = Held[1]
    BY <2>1, <2>2, GrownHeld
  <2> HIDE DEF u
  <2>4. /\ Bytes(u) \in Seq(Byte) /\ Len(Bytes(u)) = Consumed(u) /\ IsPrefix(Bytes(u), Held)
    <3>1. CASE Valid(u)
      BY <2>3, <3>1 DEF Bytes, Consumed
    <3>2. CASE ~Valid(u)
      <4>1. 1 \in 1..Len(u) /\ u[1] \in Byte
        BY <2>3, Lengths, ElementOfSeq
      <4>2. <<u[1]>> \in Seq(Byte) /\ Len(<<u[1]>>) = 1 /\ <<u[1]>>[1] = Held[1]
        BY <2>3, <4>1
      <4>3. 1 <= Len(Held)
        BY <2>3, <4>1, HeldType, PrefixPoints, LenProperties
      <4> DEFINE w == <<u[1]>>
      <4>4. w \in Seq(Byte) /\ Len(w) = 1 /\ w[1] = Held[1]
        BY <4>2
      <4> HIDE DEF w
      <4>5. Len(w) <= Len(Held) /\ \A j \in 1..Len(w) : w[j] = Held[j]
        BY <4>3, <4>4
      <4>6. IsPrefix(w, Held)
        BY <4>4, <4>5, HeldType, PrefixPoints
      <4> QED BY <3>2, <4>4, <4>6 DEF Bytes, Consumed, w
    <3> QED BY <3>1, <3>2
  <2> QED BY <2>1, <2>4, TakenGrows
<1> QED BY <1>1, <1>2, <1>3, <1>4, TakenOpened DEF Next

LEMMA TakenSafe == Inv /\ FedInv /\ TakenInv => NoByteLost
<1> SUFFICES ASSUME Inv, FedInv, TakenInv, pc \in {"idle", "done"}
             PROVE  SubSeq(fed, opened.fed + 1, Len(fed))
                      = SubSeq(taken, opened.taken + 1, Len(taken)) \o Window
  BY DEF NoByteLost
<1> DEFINE f == opened.fed
           t == opened.taken
           n == Gone
           read == SubSeq(fed, f + 1, Len(fed))
           got == SubSeq(taken, t + 1, Len(taken))
<1>1. /\ n \in Nat /\ f \in Nat /\ t \in Nat /\ taken \in Seq(Byte)
      /\ Len(taken) = t + n /\ Base + rd_used = f + n
      /\ \A j \in 1..n : taken[t + j] = fed[f + j]
  <2>1. \A j \in 1..n : taken[t + j] = fed[f + j]
    BY DEF TakenInv
  <2> QED BY <2>1, TakenLengths
<1>2. fed \in Seq(Byte) /\ Len(fed) \in Nat /\ Len(fed) = f + n + (rd_count - rd_used)
      /\ rd_count - rd_used \in Nat
  <2>1. Len(fed) = f + n + (rd_count - rd_used)
    BY TakenLengths
  <2>2. rd_count - rd_used \in Nat
    BY Lengths
  <2> QED BY <2>1, <2>2, FedLengths
<1>3. /\ Held \in Seq(Byte) /\ Len(Held) = rd_count - rd_used /\ Held = Window
      /\ \A j \in 1..(rd_count - rd_used) : Held[j] = fed[f + n + j]
  BY <1>1, HeldType, HeldWindow
<1> HIDE DEF f, t, n
<1>4. /\ read \in Seq(Byte) /\ Len(read) = Len(fed) - (f + 1) + 1
      /\ \A j \in 1..(Len(fed) - (f + 1) + 1) : read[j] = fed[f + 1 + j - 1]
  BY <1>1, <1>2, TailType
<1>5. /\ got \in Seq(Byte) /\ Len(got) = Len(taken) - (t + 1) + 1
      /\ \A j \in 1..(Len(taken) - (t + 1) + 1) : got[j] = taken[t + 1 + j - 1]
  BY <1>1, TailType
<1> HIDE DEF read, got
<1>6. Len(read) = n + Len(Held) /\ Len(got) = n
  BY <1>1, <1>2, <1>3, <1>4, <1>5
<1>7. /\ got \o Held \in Seq(Byte) /\ Len(got \o Held) = Len(got) + Len(Held)
      /\ \A j \in 1..(Len(got) + Len(Held)) :
           (got \o Held)[j] = IF j <= Len(got) THEN got[j] ELSE Held[j - Len(got)]
  BY <1>3, <1>5, ConcatProperties
<1>8. ASSUME NEW j \in 1..Len(read) PROVE read[j] = (got \o Held)[j]
  <2>1. read[j] = fed[f + j]
    BY <1>1, <1>2, <1>4
  <2>2. CASE j <= n
    <3>1. j \in 1..n /\ got[j] = taken[t + j]
      BY <1>1, <1>5, <1>6, <2>2
    <3> QED BY <1>1, <1>6, <1>7, <2>1, <2>2, <3>1
  <2>3. CASE ~(j <= n)
    <3>1. j - n \in 1..(rd_count - rd_used) /\ f + n + (j - n) = f + j
      BY <1>1, <1>2, <1>3, <1>6, <2>3
    <3>2. Held[j - n] = fed[f + j]
      BY <1>3, <3>1
    <3>3. (got \o Held)[j] = Held[j - n]
      BY <1>6, <1>7, <2>3
    <3> QED BY <2>1, <3>2, <3>3
  <2> QED BY <2>2, <2>3
<1>9. read = got \o Held
  BY <1>4, <1>6, <1>7, <1>8, SeqEqual
<1> QED BY <1>3, <1>9 DEF read, got, f, t

-----------------------------------------------------------------------------
(* Whole input: what is held and what is yet to come go on as it is taken up *)

Pool == (UNION {Tails(t) : t \in TakenUp}) \cup {<<>>, <<EOT>>}

StreamInv == Held \o Rest \in Pool /\ input \in Inputs

LEMMA InputsType ==
  /\ Inputs \subseteq Seq(Byte)
  /\ Streams \subseteq Inputs
  /\ \A s \in Inputs : Tails(s) \subseteq Inputs
<1>1. ASSUME NEW s \in Inputs
      PROVE  s \in Seq(Byte) /\ Tails(s) \subseteq Inputs
  <2>1. PICK r \in Streams : s \in Tails(r)
    BY DEF Inputs
  <2>2. r \in Seq(Byte)
    BY ReaderAssumption
  <2>3. s \in Seq(Byte)
    BY <2>1, <2>2, TailType DEF Tails
  <2>4. Tails(s) \subseteq Tails(r)
    BY <2>1, <2>2, TailOfTail
  <2> QED BY <2>3, <2>4 DEF Inputs
<1>2. ASSUME NEW s \in Streams PROVE s \in Inputs
  <2>1. s \in Seq(Byte) /\ Len(s) \in Nat
    BY ReaderAssumption, LenProperties
  <2>2. s = SubSeq(s, 1, Len(s)) /\ 1 \in 1..(Len(s) + 1)
    BY <2>1, SubSeqFull
  <2>3. s \in Tails(s)
    BY <2>2 DEF Tails
  <2> QED BY <2>3 DEF Inputs
<1> QED BY <1>1, <1>2

LEMMA TakenUpType == TakenUp \subseteq Seq(Byte)
<1>1. (Preloads \ {NoPreload}) \cup {<<>>} \subseteq Seq(Byte)
  BY ReaderAssumption, EmptySeq
<1>2. ASSUME NEW p \in Seq(Byte), NEW s \in Seq(Byte) PROVE p \o s \in Seq(Byte)
  BY ConcatProperties
<1>3. ASSUME NEW t \in TakenUp PROVE t \in Seq(Byte)
  <2>1. PICK p \in (Preloads \ {NoPreload}) \cup {<<>>}, s \in Inputs : t = p \o s
    BY DEF TakenUp
  <2>2. p \in Seq(Byte) /\ s \in Seq(Byte)
    BY <1>1, InputsType
  <2> QED BY <1>2, <2>1, <2>2
<1> QED BY <1>3

LEMMA PoolType == Pool \subseteq Seq(Byte)
<1>1. ASSUME NEW t \in TakenUp PROVE Tails(t) \subseteq Seq(Byte)
  <2>1. t \in Seq(Byte)
    BY TakenUpType
  <2> QED BY <2>1, TailType DEF Tails
<1>2. <<>> \in Seq(Byte) /\ <<EOT>> \in Seq(Byte)
  BY EmptySeq, ReaderAssumption
<1> QED BY <1>1, <1>2 DEF Pool

(* What is taken up anew: a preload, and what is left of the input. *)
LEMMA TakenUpPool ==
  ASSUME NEW p \in (Preloads \ {NoPreload}) \cup {<<>>}, NEW s \in Inputs
  PROVE  p \o s \in Pool
<1> DEFINE t == p \o s
<1>1. t \in TakenUp
  BY SMTT(30) DEF TakenUp
<1>2. t \in Seq(Byte)
  BY <1>1, TakenUpType
<1> HIDE DEF t
<1>3. t = SubSeq(t, 1, Len(t)) /\ 1 \in 1..(Len(t) + 1)
  BY <1>2, SubSeqFull, LenProperties
<1>4. t \in Tails(t)
  BY <1>3 DEF Tails
<1>5. t \in Pool
  BY <1>1, <1>4 DEF Pool
<1> QED BY <1>5 DEF t

LEMMA PoolTails == ASSUME NEW s \in Pool, NEW t \in Tails(s) PROVE t \in Pool
<1>1. CASE s \in UNION {Tails(r) : r \in TakenUp}
  <2>1. PICK r \in TakenUp : s \in Tails(r)
    BY <1>1
  <2>2. t \in Tails(r)
    BY <2>1, TakenUpType, TailOfTail
  <2> QED BY <2>2 DEF Pool
<1>2. CASE s = <<>>
  <2>1. PICK i \in 1..(Len(s) + 1) : t = SubSeq(s, i, Len(s))
    BY DEF Tails
  <2>2. Len(s) = 0
    BY <1>2
  <2>3. t = <<>>
    BY <2>1, <2>2, SubSeqEmpty
  <2> QED BY <2>3 DEF Pool
<1>3. CASE s = <<EOT>>
  <2>1. PICK i \in 1..(Len(s) + 1) : t = SubSeq(s, i, Len(s))
    BY DEF Tails
  <2>2. s \in Seq(Byte) /\ Len(s) = 1
    BY <1>3, ReaderAssumption
  <2>3. CASE i = 1
    <3>1. t = s
      BY <2>1, <2>2, <2>3, SubSeqFull
    <3> QED BY <3>1
  <2>4. CASE i = 2
    <3>1. t = <<>>
      BY <2>1, <2>2, <2>4, SubSeqEmpty
    <3> QED BY <3>1 DEF Pool
  <2> QED BY <2>1, <2>2, <2>3, <2>4
<1> QED BY <1>1, <1>2, <1>3 DEF Pool

LEMMA PoolWhole == ASSUME WholeInput, NEW s \in Pool PROVE Whole(s)
<1>1. CASE s = <<>>
  BY <1>1 DEF Whole
<1>2. CASE s # <<>>
  BY <1>2 DEF WholeInput, Pool
<1> QED BY <1>1, <1>2

(* What Whole says of a sequence that is not empty. *)
LEMMA WholeCases ==
  ASSUME NEW s \in Seq(Byte), Len(s) >= 1, Whole(s)
  PROVE  \/ \E k \in Keys : IsPrefix(k, s)
         \/ /\ ~Node(<<s[1]>>)
            /\ LeadLen[s[1]] <= Len(s)
            /\ LeadLen[s[1]] <= 2 \/ Valid(SubSeq(s, 1, LeadLen[s[1]]))
<1>1. s # <<>>
  BY EmptySeq
<1> QED BY <1>1 DEF Whole

LEMMA StreamType ==
  ASSUME Inv, FedInv
  PROVE  /\ Rest \in Seq(Byte) /\ Held \o Rest \in Seq(Byte)
         /\ Len(Held \o Rest) = Len(Held) + Len(Rest)
         /\ \A i \in 1..Len(Held) : (Held \o Rest)[i] = Held[i]
         /\ IsPrefix(Held, Held \o Rest)
<1>1. Held \in Seq(Byte) /\ Rest \in Seq(Byte) /\ Len(Held) \in Nat /\ Len(Rest) \in Nat
  BY HeldType, RestType, LenProperties DEF Inv
<1> DEFINE hr == Held \o Rest
<1>2. /\ hr \in Seq(Byte) /\ Len(hr) = Len(Held) + Len(Rest)
      /\ \A i \in 1..(Len(Held) + Len(Rest)) :
           hr[i] = IF i <= Len(Held) THEN Held[i] ELSE Rest[i - Len(Held)]
  BY <1>1, ConcatProperties
<1> HIDE DEF hr
<1>3. \A i \in 1..Len(Held) : hr[i] = Held[i]
  BY <1>1, <1>2
<1>4. IsPrefix(Held, hr)
  BY <1>1, <1>2, <1>3, PrefixPoints
<1> QED BY <1>1, <1>2, <1>3, <1>4 DEF hr

-----------------------------------------------------------------------------
(* A key is unfinished, or its first byte is no character of its own. *)
LEMMA WholeStep ==
  ASSUME Inv, FedInv, StreamInv, WholeInput, DfaStep, pc' = "empty"
  PROVE  rd_pending = 0
<1> SUFFICES ASSUME rd_pending # 0 PROVE FALSE
  OBVIOUS
<1> DEFINE p == Append(path, NextByte)
           s == Held \o Rest
<1>1. pc = "dfa" /\ ~Starved /\ ~Leaf(p) /\ ~Node(p)
  BY DEF DfaStep
<1>2. /\ path \in Seq(Byte) /\ Len(path) = rd_pending /\ rd_pending >= 1
      /\ \A j \in 1..rd_pending : path[j] = fed[Base + rd_used + j]
  BY <1>1, Lengths DEF Inv, LookaheadInv, FedInv, PassedInv
<1>3. /\ p \in Seq(Byte) /\ Len(p) = rd_pending + 1
      /\ IsPrefix(p, Held) /\ p[1] = Held[1]
      /\ \A j \in 1..Len(path) : p[j] = path[j]
  BY <1>1, <1>2, GrownHeld
<1> HIDE DEF p
<1>4. s \in Seq(Byte) /\ IsPrefix(p, s) /\ IsPrefix(path, s) /\ Whole(s) /\ Len(s) >= 1
      /\ s[1] = path[1]
  <2>1. s \in Seq(Byte) /\ IsPrefix(Held, s)
    BY StreamType
  <2>2. Held \in Seq(Byte) /\ IsPrefix(path, Held)
    BY <1>1, HeldType, PassedHeld
  <2>3. s \in Pool
    BY DEF StreamInv
  <2>4. Whole(s)
    BY <2>3, PoolWhole
  <2> HIDE DEF s
  <2>5. IsPrefix(p, s) /\ IsPrefix(path, s)
    BY <1>2, <1>3, <2>1, <2>2, PrefixTransitive
  <2>6. Len(path) <= Len(s) /\ \A i \in 1..Len(path) : path[i] = s[i]
    BY <1>2, <2>1, <2>5, PrefixPoints
  <2>7. Len(s) >= 1 /\ s[1] = path[1]
    BY <1>2, <2>1, <2>6, LenProperties
  <2> QED BY <2>1, <2>4, <2>5, <2>7
<1> HIDE DEF s
<1>5. PICK k \in Keys : IsPrefix(path, k) /\ Len(path) < Len(k)
  BY <1>1 DEF FedInv, PassedInv
<1>6. CASE \E l \in Keys : IsPrefix(l, s)
  <2>1. PICK l \in Keys : IsPrefix(l, s)
    BY <1>6
  <2>2. l \in Seq(Byte) /\ Len(l) \in Nat
    BY KeyAssumption, LenProperties
  <2>3. CASE Len(l) <= Len(path)
    <3>1. IsPrefix(l, path)
      BY <1>2, <1>4, <2>1, <2>2, <2>3, ShorterPrefix
    <3> QED BY <1>2, <1>5, <3>1, NoKeyInside
  <2>4. CASE Len(p) <= Len(l)
    <3>1. IsPrefix(p, l)
      BY <1>3, <1>4, <2>1, <2>2, <2>4, ShorterPrefix
    <3> QED BY <1>1, <3>1 DEF Node
  <2> QED BY <1>2, <1>3, <2>2, <2>3, <2>4, Lengths
<1>7. CASE ~Node(<<s[1]>>)
  <2>1. Node(path)
    BY <1>5 DEF Node
  <2>2. Node(<<path[1]>>)
    BY <1>2, <2>1, NodeFirst
  <2> QED BY <1>4, <1>7, <2>2
<1> QED BY <1>4, <1>6, <1>7, WholeCases

(* A character that is read to its end begins no key, so it is valid or      *)
(* short.                                                                    *)
LEMMA WholeDone ==
  ASSUME Inv, FedInv, StreamInv, WholeInput, UcharDone
  PROVE  LET u == Append(uchars, NextByte) IN Valid(u) \/ Len(u) <= 2
<1> DEFINE u == Append(uchars, NextByte)
           s == Held \o Rest
<1>1. pc = "uchar" /\ ~Starved /\ Len(u) >= LeadLen[u[1]]
  BY DEF UcharDone
<1>2. /\ uchars \in Seq(Byte) /\ Len(uchars) = rd_pending
      /\ \A j \in 1..rd_pending : uchars[j] = fed[Base + rd_used + j]
  BY <1>1 DEF Inv, LookaheadInv, FedInv, PassedInv
<1>3. /\ u \in Seq(Byte) /\ Len(u) = rd_pending + 1
      /\ IsPrefix(u, Held) /\ u[1] = Held[1]
      /\ \A j \in 1..Len(uchars) : u[j] = uchars[j]
  BY <1>1, <1>2, GrownHeld
<1>4. LeadLen[u[1]] \in 1..4
  BY <1>1, UcharType
<1> HIDE DEF u
<1>5. Len(u) = LeadLen[u[1]]
  <2>1. CASE rd_pending = 0
    BY <1>1, <1>3, <1>4, <2>1
  <2>2. CASE rd_pending > 0
    <3>1. rd_pending < LeadLen[uchars[1]]
      BY <1>1, <2>2 DEF FedInv, PassedInv
    <3>2. 1 \in 1..Len(uchars)
      BY <1>2, <2>2, Lengths
    <3>3. u[1] = uchars[1]
      BY <1>3, <3>2
    <3> QED BY <1>1, <1>3, <1>4, <3>1, <3>3, Lengths
  <2> QED BY <2>1, <2>2, Lengths
<1>6. s \in Seq(Byte) /\ IsPrefix(u, s) /\ Whole(s)
  <2>1. s \in Seq(Byte) /\ IsPrefix(Held, s) /\ Held \in Seq(Byte)
    BY StreamType, HeldType
  <2>2. Whole(s)
    BY PoolWhole DEF StreamInv
  <2> HIDE DEF s
  <2>3. IsPrefix(u, s)
    BY <1>3, <2>1, PrefixTransitive
  <2> QED BY <2>1, <2>2, <2>3
<1> HIDE DEF s
<1>7. Len(u) \in Nat /\ Len(s) \in Nat /\ Len(u) <= Len(s) /\ \A i \in 1..Len(u) : u[i] = s[i]
  BY <1>3, <1>6, PrefixPoints, LenProperties
<1>8. Len(s) >= 1 /\ s[1] = u[1] /\ s[1] = Held[1]
  BY <1>3, <1>7, Lengths
<1>9. Keyless(s)
  <2>1. Keyless(Held)
    BY <1>1 DEF FedInv, NoKeyInv
  <2> QED BY <2>1, StreamType, HeldType, KeylessGrows DEF s
<1>10. CASE \E k \in Keys : IsPrefix(k, s)
  BY <1>9, <1>10 DEF Keyless
<1>11. CASE LeadLen[s[1]] <= 2
  BY <1>5, <1>8, <1>11 DEF u
<1>12. CASE Valid(SubSeq(s, 1, LeadLen[s[1]]))
  <2>1. u = SubSeq(s, 1, Len(u))
    <3>1. SubSeq(u, 1, Len(u)) = u
      BY <1>3, SubSeqFull
    <3> QED BY <1>6, <3>1 DEF IsPrefix
  <2>2. Valid(u)
    BY <1>5, <1>8, <1>12, <2>1
  <2> QED BY <2>2 DEF u
<1> QED BY <1>6, <1>8, <1>10, <1>11, <1>12, WholeCases

(* Where all that is to come is held, a parse that has taken all of it has   *)
(* taken nothing.                                                            *)
LEMMA NothingUnfinished ==
  ASSUME Inv, FedInv, pc \in {"dfa", "uchar"}, Starved, Whole(Held)
  PROVE  Held = <<>>
<1> SUFFICES ASSUME Held # <<>> PROVE FALSE
  OBVIOUS
<1>1. Held \in Seq(Byte) /\ Len(Held) \in Nat /\ Len(Held) >= 1
  BY HeldType, EmptySeq, LenProperties
<1>2. \/ \E k \in Keys : IsPrefix(k, Held)
      \/ ~Node(<<Held[1]>>) /\ LeadLen[Held[1]] <= Len(Held)
  BY <1>1, WholeCases
<1>3. CASE pc = "dfa"
  <2>1. Held = path
    BY <1>3, PassedHeld
  <2>2. PICK k \in Keys : IsPrefix(Held, k) /\ Len(Held) < Len(k)
    BY <1>3, <2>1 DEF FedInv, PassedInv
  <2>3. \A l \in Keys : ~IsPrefix(l, Held)
    BY <1>1, <2>2, NoKeyInside
  <2>4. Node(<<Held[1]>>)
    BY <1>1, <2>2, NodeFirst DEF Node
  <2> QED BY <1>2, <2>3, <2>4
<1>4. CASE pc = "uchar"
  <2>1. Held = uchars /\ Len(Held) = rd_pending
    BY <1>4, PassedHeld DEF Inv, LookaheadInv
  <2>2. rd_pending < LeadLen[Held[1]]
    BY <1>1, <1>4, <2>1 DEF FedInv, PassedInv
  <2>3. LeadLen[Held[1]] \in 1..4
    <3>1. 1 \in 1..Len(Held)
      BY <1>1
    <3>2. Held[1] \in Byte
      BY <1>1, <3>1, ElementOfSeq
    <3> QED BY <3>2, ReaderAssumption
  <2>4. ~(LeadLen[Held[1]] <= Len(Held))
    BY <2>1, <2>2, <2>3, Lengths
  <2>5. PICK k \in Keys : IsPrefix(k, Held)
    BY <1>2, <2>4
  <2> QED BY <1>4, <2>5 DEF FedInv, NoKeyInv, Keyless
<1> QED BY <1>3, <1>4

-----------------------------------------------------------------------------
LEMMA StreamInit == Init => StreamInv
<1> SUFFICES ASSUME Init PROVE StreamInv
  OBVIOUS
<1>1. /\ fed = <<>> /\ rd_count = 0 /\ rd_used = 0
      /\ input \in Streams /\ preload \in Preloads
      /\ Len(<<>>) = 0
  BY EmptySeq DEF Init
<1>2. Held = <<>>
  <2>1. Base + rd_used + 1 = 1 /\ Len(fed) = 0
    BY <1>1 DEF Base
  <2> QED BY <2>1, SubSeqEmpty DEF Held
<1>3. input \in Inputs
  BY <1>1, InputsType
<1>4. Rest \in Pool
  BY <1>1, <1>3, TakenUpPool DEF Rest
<1>5. <<>> \o Rest = Rest
  BY <1>4, PoolType, ConcatEmptySeq
<1> QED BY <1>2, <1>3, <1>4, <1>5 DEF StreamInv

(* Bytes are taken from what is held. *)
LEMMA StreamTaken ==
  ASSUME Inv, FedInv, StreamInv, Inv', rd_used' >= rd_used,
         UNCHANGED <<source, rd_count>>
  PROVE  StreamInv'
<1>1. fed' = fed /\ Base' = Base /\ Rest' = Rest /\ input' = input
  BY DEF source, Base, Rest
<1>2. rd_used' \in Nat /\ rd_used' <= rd_count
  <2>1. rd_used' \in Nat /\ rd_pending' \in Nat /\ rd_used' + rd_pending' <= rd_count'
    BY DEF Inv, CountersInv
  <2> QED BY <2>1, Lengths
<1> DEFINE a == Base + rd_used
           b == Base + rd_used'
<1>3. fed \in Seq(Byte) /\ a \in 0..Len(fed) /\ b \in a..Len(fed)
  BY <1>2, FedLengths, Lengths
<1>4. Rest \in Seq(Byte)
  BY RestType DEF Inv
<1>5. Held = SubSeq(fed, a + 1, Len(fed)) /\ Held' = SubSeq(fed, b + 1, Len(fed))
  BY <1>1 DEF Held
<1> HIDE DEF a, b
<1>6. SubSeq(fed, b + 1, Len(fed)) \o Rest \in Tails(SubSeq(fed, a + 1, Len(fed)) \o Rest)
  BY <1>3, <1>4, TailOfConcat
<1>7. Held \o Rest \in Pool /\ Held' \o Rest' \in Tails(Held \o Rest)
  BY <1>1, <1>5, <1>6 DEF StreamInv
<1>8. Held' \o Rest' \in Pool
  BY <1>7, PoolTails
<1> QED BY <1>1, <1>8 DEF StreamInv

(* Bytes are read: what was yet to come is held now, or the end is. *)
LEMMA StreamRead ==
  ASSUME Inv, FedInv, StreamInv, WholeInput, Inv',
         NEW bytes \in Seq(Byte), fed' = fed \o bytes, Brings(bytes),
         Base' + rd_used' = Base + rd_used, input' \in Tails(input),
         Whole(Held) => Held = <<>>
  PROVE  StreamInv'
<1>1. Held' = Held \o bytes
  <2> DEFINE a == Base + rd_used
  <2>1. fed \in Seq(Byte) /\ a \in 0..Len(fed)
    BY FedLengths, Lengths
  <2>2. Held = SubSeq(fed, a + 1, Len(fed)) /\ Held' = SubSeq(fed \o bytes, a + 1, Len(fed \o bytes))
    BY DEF Held
  <2> HIDE DEF a
  <2> QED BY <2>1, <2>2, TailGrows
<1>2. Held \in Seq(Byte) /\ Rest' \in Seq(Byte) /\ Rest \in Seq(Byte)
  <2>1. input' \in Seq(Byte) /\ (preload' # NoPreload => preload' \in Seq(Byte))
    BY DEF Inv, BytesInv
  <2>2. Rest' \in Seq(Byte)
    BY <2>1, PreloadThenInput DEF Rest
  <2> QED BY <2>2, HeldType, RestType DEF Inv
<1>3. Held' \o Rest' \in Pool
  <2>1. CASE Rest = bytes \o Rest'
    <3>1. (Held \o bytes) \o Rest' = Held \o (bytes \o Rest')
      BY ZenonT(30), <1>2, Regrouped
    <3> QED BY <1>1, <2>1, <3>1 DEF StreamInv
  <2>2. CASE /\ bytes = EndMark
             /\ preload = NoPreload /\ (input = <<>> \/ Interrupts)
             /\ UNCHANGED <<input, preload>>
    <3>1. Rest = <<>> /\ Rest' = <<>>
      <4>1. input = <<>>
        BY <2>2 DEF WholeInput
      <4>2. <<>> \o <<>> = <<>>
        BY EmptySeq, ConcatEmptySeq
      <4> QED BY <2>2, <4>1, <4>2 DEF Rest
    <3>2. Held \o Rest = Held
      BY <1>2, <3>1, ConcatEmptySeq
    <3>3. Whole(Held)
      BY <3>2, PoolWhole DEF StreamInv
    <3>4. Held' = bytes
      BY <1>1, <3>3, ConcatEmptySeq
    <3>5. Held' \o Rest' = bytes
      BY <3>1, <3>4, ConcatEmptySeq
    <3> QED BY <2>2, <3>5 DEF EndMark, Pool
  <2> QED BY <2>1, <2>2 DEF Brings
<1>4. input' \in Inputs
  BY InputsType DEF StreamInv
<1> QED BY <1>3, <1>4 DEF StreamInv

LEMMA RefillStream ==
  Inv /\ FedInv /\ StreamInv /\ WholeInput /\ Refill => StreamInv'
<1> SUFFICES ASSUME Inv, FedInv, StreamInv, WholeInput, Refill PROVE StreamInv'
  OBVIOUS
<1>1. Inv'
  BY RefillInv
<1>2. /\ pc \in {"dfa", "uchar"} /\ Starved /\ rd_used + rd_pending = rd_count
      /\ rd_used' = 0
  BY DEF Refill, Starved
<1> PICK beyond \in Byte : ReadWrapper(Moved(rd_buf, beyond), rd_pending)
  BY DEF Refill
<1>3. rd_pending \in 0..(BufSize - 1)
  BY <1>2, RoomLeft, Lengths
<1>4. input' \in Tails(input)
  BY <1>3, ReadWrapperBrings
<1> PICK bytes \in Seq(Byte) : /\ rd_pending + Len(bytes) <= BufSize
                               /\ Deliver(Moved(rd_buf, beyond), rd_pending, bytes)
                               /\ Brings(bytes)
  BY <1>3, ReadWrapperBrings
<1>5. fed' = fed \o bytes
  BY DEF Deliver
<1>6. Base' + rd_used' = Base + rd_used
  <2>1. Moved(rd_buf, beyond) \in [0..(BufSize - 1) -> Byte]
    BY MovedType
  <2>2. fed \in Seq(Byte) /\ rd_pending \in Nat /\ rd_used \in Nat
    BY Lengths, FedLengths
  <2>3. Base' = Len(fed) - rd_pending
    BY <2>1, <2>2, DeliverFed
  <2>4. Base \in Int /\ Base + rd_count = Len(fed) /\ Len(fed) \in Nat
    BY FedLengths
  <2> QED BY <1>2, <2>2, <2>3, <2>4
<1>7. Whole(Held) => Held = <<>>
  BY <1>2, NothingUnfinished
<1> QED BY <1>1, <1>4, <1>5, <1>6, <1>7, StreamRead

LEMMA ReadPlainStream ==
  Inv /\ FedInv /\ StreamInv /\ WholeInput /\ ReadPlain => StreamInv'
<1> SUFFICES ASSUME Inv, FedInv, StreamInv, WholeInput, ReadPlain PROVE StreamInv'
  OBVIOUS
<1>1. Inv'
  BY ReadPlainInv
<1>2. rd_count = rd_used /\ rd_used' = 0 /\ ReadWrapper(rd_buf, 0)
  BY DEF ReadPlain
<1>3. 0 \in 0..(BufSize - 1)
  BY Lengths
<1>4. input' \in Tails(input)
  BY <1>2, <1>3, ReadWrapperBrings
<1> PICK bytes \in Seq(Byte) : /\ 0 + Len(bytes) <= BufSize
                               /\ Deliver(rd_buf, 0, bytes)
                               /\ Brings(bytes)
  BY <1>2, <1>3, ReadWrapperBrings
<1>5. fed' = fed \o bytes
  BY DEF Deliver
<1>6. Base' + rd_used' = Base + rd_used
  <2>1. rd_buf \in [0..(BufSize - 1) -> Byte] /\ fed \in Seq(Byte) /\ 0 \in Nat
    BY FedLengths DEF Inv, BytesInv
  <2>2. Base' = Len(fed) - 0
    BY <2>1, DeliverFed
  <2> QED BY <1>2, <2>2, FedLengths
<1>7. Held = <<>>
  <2>1. Held \in Seq(Byte) /\ Len(Held) = 0
    BY <1>2, HeldType, Lengths
  <2> QED BY <2>1, EmptySeq
<1> QED BY <1>1, <1>4, <1>5, <1>6, <1>7, StreamRead

LEMMA NewSessionStream == Inv /\ FedInv /\ StreamInv /\ NewSession => StreamInv'
<1> SUFFICES ASSUME Inv, FedInv, StreamInv, NewSession PROVE StreamInv'
  OBVIOUS
<1>1. /\ fed' = fed /\ input' = input /\ rd_count' = 0 /\ rd_used' = 0
      /\ preload' \in Preloads
  BY DEF NewSession, CountersReset
<1>2. Held' = <<>>
  <2>1. fed \in Seq(Byte) /\ Len(fed) \in Nat
    BY FedLengths
  <2>2. Base' + rd_used' + 1 = Len(fed) + 1
    BY <1>1, <2>1 DEF Base
  <2>3. SubSeq(fed, Len(fed) + 1, Len(fed)) = <<>>
    BY <2>1, SubSeqEmpty
  <2> QED BY <1>1, <2>2, <2>3 DEF Held
<1>3. input \in Inputs
  BY DEF StreamInv
<1>4. Rest' \in Pool
  BY <1>1, <1>3, TakenUpPool DEF Rest
<1>5. <<>> \o Rest' = Rest'
  BY <1>4, PoolType, ConcatEmptySeq
<1> QED BY <1>1, <1>2, <1>3, <1>4, <1>5 DEF StreamInv

LEMMA StreamNext ==
  Inv /\ FedInv /\ StreamInv /\ WholeInput /\ [Next]_vars => StreamInv'
<1> SUFFICES ASSUME Inv, FedInv, StreamInv, WholeInput, [Next]_vars PROVE StreamInv'
  OBVIOUS
<1>1. Inv'
  BY InvNext
<1>2. rd_used \in Nat
  BY Lengths
<1>3. CASE UNCHANGED vars
  BY <1>1, <1>2, <1>3, StreamTaken DEF vars, counts
<1>4. CASE StartRead
  BY <1>1, <1>2, <1>4, StreamTaken DEF StartRead, counts
<1>5. CASE DfaStep
  BY <1>1, <1>2, <1>5, StreamTaken DEF DfaStep
<1>6. CASE DfaAccept
  <2>1. rd_used' >= rd_used
    BY <1>6, Lengths DEF DfaAccept
  <2> QED BY <1>1, <1>6, <2>1, StreamTaken DEF DfaAccept
<1>7. CASE StartUchar
  BY <1>1, <1>2, <1>7, StreamTaken DEF StartUchar
<1>8. CASE UcharStep
  BY <1>1, <1>2, <1>8, StreamTaken DEF UcharStep
<1>9. CASE UcharDone
  <2> DEFINE u == Append(uchars, NextByte)
  <2>1. Len(u) = rd_pending + 1 /\ rd_used' = rd_used + Consumed(u)
    BY <1>9, UcharType DEF UcharDone
  <2> HIDE DEF u
  <2>2. rd_used' >= rd_used
    BY <2>1, Lengths DEF Consumed
  <2> QED BY <1>1, <1>9, <2>2, StreamTaken DEF UcharDone
<1> QED BY <1>3, <1>4, <1>5, <1>6, <1>7, <1>8, <1>9, RefillStream, ReadPlainStream,
           NewSessionStream DEF Next

-----------------------------------------------------------------------------
(* Nothing is left behind: a parse fails at its first byte, and what is      *)
(* skipped one byte at a time is two bytes long.                             *)
LeavesNothing ==
  /\ DfaStep /\ pc' = "empty" => rd_pending = 0
  /\ UcharDone => LET u == Append(uchars, NextByte) IN Valid(u) \/ Len(u) <= 2

LEMMA LaterIntact ==
  ASSUME NEW i \in Int, NEW j \in Int, i <= j, rd_count \in Int, Intact(i)
  PROVE  Intact(j)
BY DEF Intact

(* The bytes that no parse has passed are in the buffer. *)
LEMMA NothingIntact == ASSUME Inv, FedInv, LeavesNothing PROVE LeavesIntact
<1>1. ASSUME DfaStep, pc' = "empty" PROVE Intact(rd_used)
  <2>1. pc = "dfa" /\ rd_pending = 0
    BY <1>1 DEF DfaStep, LeavesNothing
  <2>2. rd_used + rd_pending = rd_used
    BY <2>1, Lengths
  <2> QED BY <2>1, <2>2 DEF FedInv, BufferInv
<1>2. ASSUME UcharDone PROVE Intact(rd_used')
  <2> DEFINE u == Append(uchars, NextByte)
  <2>1. pc = "uchar" /\ ~Starved /\ rd_used' = rd_used + Consumed(u)
    BY <1>2 DEF UcharDone
  <2>2. Len(u) = rd_pending + 1
    BY <2>1, UcharType
  <2>3. Valid(u) \/ Len(u) <= 2
    BY <1>2 DEF LeavesNothing
  <2> HIDE DEF u
  <2>4. rd_used' \in Int /\ rd_used + rd_pending <= rd_used'
    BY <2>1, <2>2, <2>3, Lengths DEF Consumed
  <2>5. Intact(rd_used + rd_pending)
    BY <2>1 DEF FedInv, BufferInv
  <2>6. rd_used + rd_pending \in Int /\ rd_count \in Int
    BY Lengths
  <2> QED BY <2>4, <2>5, <2>6, LaterIntact
<1> QED BY <1>1, <1>2 DEF LeavesIntact

(* A terminal without keys: what is read is characters, none of them longer  *)
(* than two bytes.  Valid or not, however they are cut up and interrupted.   *)
LEMMA PlainLeavesNothing ==
  ASSUME Inv, FedInv, Keys = {}, \A b \in Byte : LeadLen[b] <= 2
  PROVE  LeavesNothing
<1>1. ~DfaStep
  BY DEF DfaStep, Inv, LookaheadInv
<1>2. ASSUME UcharDone PROVE Len(Append(uchars, NextByte)) <= 2
  <2>1. pc = "uchar" /\ ~Starved
    BY <1>2 DEF UcharDone
  <2>2. Len(Append(uchars, NextByte)) = rd_pending + 1
    BY <2>1, UcharType
  <2>3. rd_pending > 0 => rd_pending < 2
    <3> SUFFICES ASSUME rd_pending > 0 PROVE rd_pending < 2
      OBVIOUS
    <3>1. uchars \in Seq(Byte) /\ Len(uchars) = rd_pending /\ rd_pending < LeadLen[uchars[1]]
      BY <2>1 DEF Inv, LookaheadInv, FedInv, PassedInv
    <3>2. 1 \in 1..Len(uchars)
      BY <3>1, Lengths
    <3>3. uchars[1] \in Byte
      BY <3>1, <3>2, ElementOfSeq
    <3>4. LeadLen[uchars[1]] \in 1..4 /\ LeadLen[uchars[1]] <= 2
      BY <3>3, ReaderAssumption
    <3> QED BY <3>1, <3>4, Lengths
  <2> QED BY <2>2, <2>3, Lengths
<1> QED BY <1>1, <1>2 DEF LeavesNothing

LEMMA PlainSafe ==
  ASSUME Keys = {}, \A b \in Byte : LeadLen[b] <= 2
  PROVE  Spec => [](NoByteLost /\ WaitsOnlyIfIncomplete)
<1>1. Init => Inv /\ FedInv /\ TakenInv
  BY InvInit, FedInit, TakenInit
<1>2. Inv /\ FedInv /\ TakenInv /\ [Next]_vars => Inv' /\ FedInv' /\ TakenInv'
  BY InvNext, FedNext, TakenNext, PlainLeavesNothing, NothingIntact
<1>3. Inv /\ FedInv /\ TakenInv => NoByteLost /\ WaitsOnlyIfIncomplete
  BY FedSafe, TakenSafe
<1> QED BY <1>1, <1>2, <1>3, PTL DEF Spec

(* In each call of nanorl() no byte read is lost, repeated or changed between *)
(* two calls of nrl_io_read where no key is known and no character is longer  *)
(* than two bytes; reads may be interrupted, and bytes that are no character  *)
(* are skipped one at a time.                                                 *)
THEOREM PlainBytesKept ==
  ASSUME Keys = {}, \A b \in Byte : LeadLen[b] <= 2
  PROVE  Spec => []NoByteLost
BY PlainSafe, PTL

(* There, too, nrl_io_read waits for no byte after a whole event. *)
THEOREM PlainWaits ==
  ASSUME Keys = {}, \A b \in Byte : LeadLen[b] <= 2
  PROVE  Spec => []WaitsOnlyIfIncomplete
BY PlainSafe, PTL

LEMMA WholeLeavesNothing ==
  ASSUME Inv, FedInv, StreamInv, WholeInput
  PROVE  LeavesNothing
BY WholeStep, WholeDone DEF LeavesNothing

LEMMA WholeSafe ==
  ASSUME WholeInput
  PROVE  Spec => [](NoByteLost /\ WaitsOnlyIfIncomplete)
<1>1. Init => Inv /\ FedInv /\ StreamInv /\ TakenInv
  BY InvInit, FedInit, StreamInit, TakenInit
<1>2. Inv /\ FedInv /\ StreamInv /\ TakenInv /\ [Next]_vars
        => Inv' /\ FedInv' /\ StreamInv' /\ TakenInv'
  BY InvNext, FedNext, StreamNext, TakenNext, WholeLeavesNothing, NothingIntact
<1>3. Inv /\ FedInv /\ TakenInv => NoByteLost /\ WaitsOnlyIfIncomplete
  BY FedSafe, TakenSafe
<1> QED BY <1>1, <1>2, <1>3, PTL DEF Spec

(* The same, in each call, for every set of keys and characters of every     *)
(* length, where the input is whole: memmove's wrong source (rd_buf +        *)
(* rd_count) is never seen.                                                  *)
THEOREM WholeInputKept == ASSUME WholeInput PROVE Spec => []NoByteLost
BY WholeSafe, PTL

(* A key that begins no other is returned without waiting for the byte after *)
(* it, and so is a character, for every set of keys, where the input is      *)
(* whole.                                                                    *)
THEOREM WholeInputWaits == ASSUME WholeInput PROVE Spec => []WaitsOnlyIfIncomplete
BY WholeSafe, PTL

-----------------------------------------------------------------------------
(* What the bytes mean *)

(* The piece at the beginning of r. *)
Piece(r) ==
  LET keys == {k \in Keys : IsPrefix(k, r)}
      u    == SubSeq(r, 1, Min2(LeadLen[r[1]], Len(r)))
  IN  IF keys # {}
      THEN LET k == CHOOSE k \in keys : TRUE
           IN  [size |-> Len(k), event |-> [type |-> "escape", value |-> k]]
      ELSE [size |-> Consumed(u), event |-> CharEvent(u)]

(* No byte that follows r can change its first piece. *)
Firm(r) ==
  \/ \E k \in Keys : IsPrefix(k, r)
  \/ r # <<>> /\ Keyless(r) /\ LeadLen[r[1]] <= Len(r)

LEMMA PieceAtIs == \A s, i : PieceAt(s, i) = Piece(SubSeq(s, i, Len(s)))
BY DEF PieceAt, Piece

(* The first n bytes. *)
LEMMA FrontType ==
  ASSUME NEW s \in Seq(Byte), NEW n \in 0..Len(s)
  PROVE  /\ SubSeq(s, 1, n) \in Seq(Byte) /\ Len(SubSeq(s, 1, n)) = n
         /\ \A j \in 1..n : SubSeq(s, 1, n)[j] = s[j]
<1>1. Len(s) \in Nat /\ n \in Int
  BY LenProperties
<1>2. \A j \in 1..n : s[j] \in Byte
  BY <1>1, ElementOfSeq
<1>3. /\ SubSeq(s, 1, n) \in Seq(Byte)
      /\ Len(SubSeq(s, 1, n)) = IF 1 <= n THEN n - 1 + 1 ELSE 0
      /\ \A j \in 1..(n - 1 + 1) : SubSeq(s, 1, n)[j] = s[1 + j - 1]
  BY <1>1, <1>2, SubSeqProperties
<1> QED BY <1>1, <1>3

LEMMA OnlyKey ==
  ASSUME NEW r \in Seq(Byte), NEW k \in Keys, NEW l \in Keys, IsPrefix(k, r), IsPrefix(l, r)
  PROVE  k = l
<1>1. k \in Seq(Byte) /\ l \in Seq(Byte) /\ Len(k) \in Nat /\ Len(l) \in Nat
  BY KeyAssumption, LenProperties
<1>2. Len(k) <= Len(l) \/ Len(l) <= Len(k)
  BY <1>1
<1>3. IsPrefix(k, l) \/ IsPrefix(l, k)
  BY <1>1, <1>2, ShorterPrefix
<1> QED BY <1>3, KeyAssumption

LEMMA KeyPiece ==
  ASSUME NEW r \in Seq(Byte), NEW k \in Keys, IsPrefix(k, r)
  PROVE  Piece(r) = [size |-> Len(k), event |-> [type |-> "escape", value |-> k]]
<1>1. {l \in Keys : IsPrefix(l, r)} = {k}
  BY OnlyKey
<1>2. (CHOOSE l \in {k} : TRUE) = k
  OBVIOUS
<1> QED BY <1>1, <1>2 DEF Piece

LEMMA NoKeyPiece ==
  ASSUME NEW r \in Seq(Byte), Len(r) >= 1, \A k \in Keys : ~IsPrefix(k, r)
  PROVE  LET u == SubSeq(r, 1, Min2(LeadLen[r[1]], Len(r)))
         IN  /\ Piece(r) = [size |-> Consumed(u), event |-> CharEvent(u)]
             /\ LeadLen[r[1]] \in 1..4
             /\ u \in Seq(Byte) /\ Len(u) = Min2(LeadLen[r[1]], Len(r)) /\ Len(u) \in 1..Len(r)
             /\ Consumed(u) \in 1..Len(r)
<1> DEFINE n == Min2(LeadLen[r[1]], Len(r))
           u == SubSeq(r, 1, n)
<1>1. Len(r) \in Nat /\ r[1] \in Byte
  BY LenProperties, ElementOfSeq
<1>2. LeadLen[r[1]] \in 1..4
  BY <1>1, ReaderAssumption
<1>3. n \in 1..Len(r)
  BY <1>1, <1>2 DEF Min2
<1>4. u \in Seq(Byte) /\ Len(u) = n
  <2> HIDE DEF n
  <2> QED BY <1>1, <1>3, FrontType
<1>5. {k \in Keys : IsPrefix(k, r)} = {}
  OBVIOUS
<1>6. Piece(r) = [size |-> Consumed(u), event |-> CharEvent(u)]
  BY <1>5 DEF Piece
<1>7. Consumed(u) \in 1..Len(r)
  <2> HIDE DEF n, u
  <2> QED BY <1>1, <1>3, <1>4 DEF Consumed
<1> QED BY <1>2, <1>3, <1>4, <1>6, <1>7

LEMMA PieceSize ==
  ASSUME NEW r \in Seq(Byte), Len(r) >= 1
  PROVE  Piece(r).size \in 1..Len(r)
<1>1. CASE \E k \in Keys : IsPrefix(k, r)
  <2> PICK k \in Keys : IsPrefix(k, r)
    BY <1>1
  <2>1. k \in Seq(Byte) /\ Len(k) \in Nat /\ Len(k) >= 1 /\ Len(r) \in Nat
    BY KeyAssumption, LenProperties
  <2>2. Len(k) <= Len(r)
    BY <2>1, PrefixPoints
  <2> QED BY <2>1, <2>2, KeyPiece
<1>2. CASE \A k \in Keys : ~IsPrefix(k, r)
  BY <1>2, NoKeyPiece
<1> QED BY <1>1, <1>2

(* A character that begins no key and is there to its end. *)
LEMMA CharPiece ==
  ASSUME NEW r \in Seq(Byte), Len(r) >= 1, Keyless(r), LeadLen[r[1]] <= Len(r)
  PROVE  LET u == SubSeq(r, 1, LeadLen[r[1]])
         IN  Piece(r) = [size |-> Consumed(u), event |-> CharEvent(u)]
<1>1. \A k \in Keys : ~IsPrefix(k, r)
  BY DEF Keyless
<1>2. LeadLen[r[1]] \in 1..4 /\ Len(r) \in Nat
  BY <1>1, NoKeyPiece, LenProperties
<1>3. Min2(LeadLen[r[1]], Len(r)) = LeadLen[r[1]]
  BY <1>2 DEF Min2
<1> QED BY <1>1, <1>3, NoKeyPiece

LEMMA FirmType ==
  ASSUME NEW r \in Seq(Byte), Firm(r)
  PROVE  Len(r) >= 1
<1>1. r # <<>> => Len(r) >= 1
  BY LenProperties, EmptySeq
<1> QED BY <1>1, BeginsKey DEF Firm

LEMMA FirmGrows ==
  ASSUME NEW r \in Seq(Byte), NEW b \in Seq(Byte), Firm(r)
  PROVE  Firm(r \o b) /\ Piece(r \o b) = Piece(r)
<1> DEFINE rb == r \o b
<1>1. /\ rb \in Seq(Byte) /\ Len(rb) = Len(r) + Len(b)
      /\ \A i \in 1..Len(r) + Len(b) : rb[i] = IF i <= Len(r) THEN r[i] ELSE b[i - Len(r)]
  BY ConcatProperties
<1> HIDE DEF rb
<1>2. Len(r) \in Nat /\ Len(b) \in Nat /\ Len(r) >= 1
  BY LenProperties, FirmType
<1>3. Len(rb) >= Len(r) /\ \A i \in 1..Len(r) : rb[i] = r[i]
  BY <1>1, <1>2
<1>4. CASE \E k \in Keys : IsPrefix(k, r)
  <2> PICK k \in Keys : IsPrefix(k, r)
    BY <1>4
  <2>1. IsPrefix(r, rb)
    BY <1>1, <1>2, <1>3, PrefixPoints
  <2>2. k \in Seq(Byte)
    BY KeyAssumption
  <2>3. IsPrefix(k, rb)
    BY <1>1, <2>1, <2>2, PrefixTransitive
  <2> QED BY <1>1, <2>3, KeyPiece DEF Firm, rb
<1>5. CASE Keyless(r) /\ LeadLen[r[1]] <= Len(r)
  <2>1. rb[1] = r[1] /\ Len(rb) >= 1
    BY <1>2, <1>3
  <2>2. LeadLen[r[1]] \in 1..4
    <3>1. r[1] \in Byte
      BY <1>2, ElementOfSeq
    <3> QED BY <3>1, ReaderAssumption
  <2>3. LeadLen[rb[1]] <= Len(rb) /\ Keyless(rb)
    <3>1. LeadLen[rb[1]] <= Len(rb)
      BY <1>2, <1>3, <1>5, <2>1, <2>2
    <3>2. IsPrefix(r, rb)
      BY JoinedPrefix DEF rb
    <3> QED BY <1>1, <1>5, <3>1, <3>2, KeylessGrows
  <2> DEFINE n == LeadLen[r[1]]
             u == SubSeq(r, 1, n)
             v == SubSeq(rb, 1, n)
  <2>4. n \in 0..Len(r) /\ n \in 0..Len(rb) /\ LeadLen[rb[1]] = n
    BY <1>1, <1>2, <1>3, <1>5, <2>1, <2>2
  <2> HIDE DEF n
  <2>5. /\ u \in Seq(Byte) /\ Len(u) = n /\ \A j \in 1..n : u[j] = r[j]
    BY <2>4, FrontType
  <2>6. /\ v \in Seq(Byte) /\ Len(v) = n /\ \A j \in 1..n : v[j] = rb[j]
    BY <1>1, <2>4, FrontType
  <2> HIDE DEF u, v
  <2>7. \A j \in 1..n : j \in 1..Len(r)
    BY <1>2, <2>4
  <2>8. u = v
    BY <1>3, <2>5, <2>6, <2>7, SeqEqual
  <2>9. Piece(r) = [size |-> Consumed(u), event |-> CharEvent(u)]
    BY <1>2, <1>5, CharPiece DEF u, n
  <2>10. Piece(rb) = [size |-> Consumed(v), event |-> CharEvent(v)]
    BY <1>1, <2>1, <2>3, <2>4, CharPiece DEF v
  <2>11. rb # <<>>
    BY <1>1, <2>1, EmptySeq
  <2> QED BY <2>3, <2>8, <2>9, <2>10, <2>11 DEF Firm, rb
<1> QED BY <1>4, <1>5 DEF Firm

-----------------------------------------------------------------------------
(* Decode, by induction over what is left of the bytes *)

(* The pieces of a sequence lie within it. *)
LEMMA PieceAtSize ==
  ASSUME NEW s \in Seq(Byte), NEW i \in 1..Len(s)
  PROVE  PieceAt(s, i).size \in 1..(Len(s) - i + 1)
<1>1. Len(s) \in Nat
  BY LenProperties
<1>2. /\ SubSeq(s, i, Len(s)) \in Seq(Byte)
      /\ Len(SubSeq(s, i, Len(s))) = Len(s) - i + 1
  BY <1>1, TailType
<1>3. Len(SubSeq(s, i, Len(s))) >= 1
  BY <1>1, <1>2
<1> QED BY <1>2, <1>3, PieceSize, PieceAtIs

Step(s, n, f, i) ==
  IF i > n THEN <<>> ELSE <<PieceAt(s, i).event>> \o f[i + PieceAt(s, i).size]

(* The recursion of Decode is well-founded. *)
LEMMA DecodeExists ==
  ASSUME NEW s \in Seq(Byte), NEW n \in 0..Len(s)
  PROVE  \E f : f = [i \in 1..(Len(s) + 1) |-> Step(s, n, f, i)]
<1> DEFINE l == Len(s)
           Dom(k) == (l + 1 - k)..(l + 1)
           S == {k \in 0..l : \E f : f = [i \in Dom(k) |-> Step(s, n, f, i)]}
<1>1. l \in Nat
  BY LenProperties
<1> HIDE DEF l
<1>2. 0 \in S
  <2> DEFINE f == [i \in Dom(0) |-> <<>>]
  <2>1. \A i \in Dom(0) : i > n
    BY <1>1 DEF l
  <2>2. f = [i \in Dom(0) |-> Step(s, n, f, i)]
    BY <2>1 DEF Step
  <2> HIDE DEF f, Dom
  <2>3. \E h : h = [i \in Dom(0) |-> Step(s, n, h, i)]
    BY <2>2
  <2>4. 0 \in 0..l
    BY <1>1
  <2> QED BY <2>3, <2>4
<1>3. ASSUME NEW k \in 0..l, k \in S, k < l PROVE k + 1 \in S
  <2>1. PICK f : f = [i \in Dom(k) |-> Step(s, n, f, i)]
    BY <1>3
  <2> DEFINE first == l + 1 - (k + 1)
             g == [i \in Dom(k + 1) |-> IF i = first THEN Step(s, n, f, first) ELSE f[i]]
  <2>2. first \in 1..l /\ Dom(k + 1) = Dom(k) \cup {first} /\ first \notin Dom(k)
    BY <1>1, <1>3
  <2>3. ASSUME NEW i \in Dom(k + 1), ~(i > n)
        PROVE  i + PieceAt(s, i).size \in Dom(k)
    <3>1. i \in 1..l
      BY <1>1, <1>3, <2>3 DEF l
    <3>2. PieceAt(s, i).size \in 1..(l - i + 1)
      BY <3>1, PieceAtSize DEF l
    <3> DEFINE size == PieceAt(s, i).size
    <3> HIDE DEF size
    <3> QED BY <1>1, <1>3, <2>3, <3>1, <3>2 DEF size
  <2>4. \A j \in Dom(k) : g[j] = f[j]
    <3> HIDE DEF Dom, first
    <3> QED BY <2>2
  <2>5. ASSUME NEW i \in Dom(k + 1) PROVE g[i] = Step(s, n, g, i)
    <3>1. Step(s, n, g, i) = Step(s, n, f, i)
      <4> HIDE DEF Dom, g
      <4> QED BY <2>3, <2>4, <2>5 DEF Step
    <3>2. CASE i = first
      BY <3>1, <3>2
    <3>3. CASE i # first
      <4>1. i \in Dom(k) /\ g[i] = f[i]
        BY <2>2, <2>5, <3>3
      <4>2. f[i] = Step(s, n, f, i)
        <5> HIDE DEF Dom
        <5> QED BY <2>1, <4>1
      <4> QED BY <3>1, <4>1, <4>2
    <3> QED BY <3>2, <3>3
  <2>6. g = [i \in Dom(k + 1) |-> Step(s, n, g, i)]
    <3>1. g = [i \in Dom(k + 1) |-> g[i]]
      OBVIOUS
    <3> HIDE DEF g, Dom
    <3> QED BY <2>5, <3>1
  <2>7. k + 1 \in 0..l
    BY <1>1, <1>3
  <2> QED BY <2>6, <2>7
<1>4. l \in S
  <2> HIDE DEF S
  <2>1. \A k \in 0..l : k \in S /\ k < l => k + 1 \in S
    BY <1>3
  <2>2. \A k \in 0..l : k \in S
    BY <1>1, <1>2, <2>1, Counting
  <2> QED BY <1>1, <2>2
<1>5. Dom(l) = 1..(l + 1)
  BY <1>1
<1> QED BY <1>4, <1>5 DEF l

(* The events of the pieces from index i on. *)
From(s, n) == CHOOSE f : f = [i \in 1..(Len(s) + 1) |-> Step(s, n, f, i)]

LEMMA DecodeUnfolds ==
  ASSUME NEW s \in Seq(Byte), NEW n \in 0..Len(s)
  PROVE  /\ Decode(s, n) = From(s, n)[1]
         /\ \A i \in 1..(Len(s) + 1) :
              From(s, n)[i] = IF i > n THEN <<>>
                              ELSE <<PieceAt(s, i).event>> \o From(s, n)[i + PieceAt(s, i).size]
<1>1. Decode(s, n) = From(s, n)[1]
  BY DEF Decode, From, Step
<1>2. From(s, n) = [i \in 1..(Len(s) + 1) |-> Step(s, n, From(s, n), i)]
  BY DecodeExists DEF From
<1>3. \A i \in 1..(Len(s) + 1) : From(s, n)[i] = Step(s, n, From(s, n), i)
  BY <1>2
<1> QED BY <1>1, <1>3 DEF Step

-----------------------------------------------------------------------------
(* The events of the running session *)

Ahead(i) == SubSeq(fed, i + 1, Len(fed))

Event == {Piece(r).event : r \in Seq(Byte)}

(* b[j] is the number of bytes read before the piece after event j.  Each    *)
(* piece was settled by what has been read.                                  *)
Cuts(b) ==
  /\ b \in [opened.events..Len(events) -> opened.fed..(Base + rd_used)]
  /\ b[opened.events] = opened.fed /\ b[Len(events)] = Base + rd_used
  /\ \A j \in (opened.events + 1)..Len(events) :
       /\ Firm(Ahead(b[j - 1]))
       /\ events[j] = Piece(Ahead(b[j - 1])).event
       /\ b[j] = b[j - 1] + Piece(Ahead(b[j - 1])).size

EventsInv ==
  /\ events \in Seq(Event)
  /\ opened.fed \in Nat /\ opened.events \in Nat
  /\ opened.events <= Len(events) /\ opened.fed <= Base + rd_used
  /\ \E b : Cuts(b)

LEMMA EventsType ==
  ASSUME Inv, FedInv, EventsInv
  PROVE  /\ Len(events) \in Nat /\ Base + rd_used \in Nat /\ Base + rd_used <= Len(fed)
         /\ opened.fed \in Nat /\ opened.events \in Nat
         /\ opened.events <= Len(events) /\ opened.fed <= Base + rd_used
<1>1. Len(events) \in Nat
  BY LenProperties DEF EventsInv
<1>2. Base + rd_used \in Nat /\ Base + rd_used <= Len(fed)
  BY FedLengths, Lengths
<1> QED BY <1>1, <1>2 DEF EventsInv

LEMMA AheadPoints ==
  ASSUME fed \in Seq(Byte), NEW i \in 0..Len(fed)
  PROVE  /\ Ahead(i) \in Seq(Byte) /\ Len(Ahead(i)) = Len(fed) - i
         /\ \A x \in 1..(Len(fed) - i) : Ahead(i)[x] = fed[i + x]
<1>1. Len(fed) \in Nat /\ i + 1 \in 1..(Len(fed) + 1)
  BY LenProperties
<1>2. /\ Ahead(i) \in Seq(Byte) /\ Len(Ahead(i)) = Len(fed) - (i + 1) + 1
      /\ \A x \in 1..(Len(fed) - (i + 1) + 1) : Ahead(i)[x] = fed[i + 1 + x - 1]
  BY <1>1, TailType DEF Ahead
<1>3. Len(fed) - (i + 1) + 1 = Len(fed) - i /\ \A x \in Nat : i + 1 + x - 1 = i + x
  BY <1>1
<1> QED BY <1>1, <1>2, <1>3

LEMMA EventsInit == Init => EventsInv
<1> SUFFICES ASSUME Init PROVE EventsInv
  OBVIOUS
<1>1. /\ fed = <<>> /\ rd_count = 0 /\ rd_used = 0 /\ events = <<>>
      /\ opened.fed = 0 /\ opened.events = 0 /\ Len(<<>>) = 0 /\ <<>> \in Seq(Event)
  BY EmptySeq DEF Init
<1>2. Base + rd_used = 0 /\ Len(events) = 0
  BY <1>1 DEF Base
<1> DEFINE b == [j \in 0..0 |-> 0]
<1>3. Cuts(b)
  <2>1. b \in [0..0 -> 0..0] /\ b[0] = 0
    OBVIOUS
  <2>2. \A j \in (opened.events + 1)..Len(events) : FALSE
    BY <1>1, <1>2
  <2> HIDE DEF b
  <2> QED BY <1>1, <1>2, <2>1, <2>2 DEF Cuts
<1> HIDE DEF b
<1>4. \E c : Cuts(c)
  BY <1>3
<1> QED BY <1>1, <1>2, <1>4 DEF EventsInv

(* Nothing is read and nothing decoded. *)
LEMMA EventsStay ==
  ASSUME EventsInv, UNCHANGED <<fed, events, opened>>, (Base + rd_used)' = Base + rd_used
  PROVE  EventsInv'
BY DEF EventsInv, Cuts, Ahead

(* Bytes are read; what was decoded keeps its meaning. *)
LEMMA EventsRead ==
  ASSUME Inv, FedInv, EventsInv, NEW bytes \in Seq(Byte), fed' = fed \o bytes,
         UNCHANGED <<events, opened>>, (Base + rd_used)' = Base + rd_used
  PROVE  EventsInv'
<1> PICK b : Cuts(b)
  BY DEF EventsInv
<1>1. ASSUME NEW j \in (opened.events + 1)..Len(events)
      PROVE  /\ Firm(Ahead(b[j - 1])')
             /\ Piece(Ahead(b[j - 1])') = Piece(Ahead(b[j - 1]))
  <2>1. j - 1 \in opened.events..Len(events)
    BY EventsType
  <2>2. b[j - 1] \in opened.fed..(Base + rd_used)
    BY <2>1 DEF Cuts
  <2>3. b[j - 1] \in 0..Len(fed)
    BY <2>2, EventsType, FedLengths
  <2>4. fed \in Seq(Byte) /\ Ahead(b[j - 1]) \in Seq(Byte) /\ Firm(Ahead(b[j - 1]))
    BY <2>3, FedLengths, AheadPoints DEF Cuts
  <2>5. SubSeq(fed \o bytes, b[j - 1] + 1, Len(fed \o bytes))
          = SubSeq(fed, b[j - 1] + 1, Len(fed)) \o bytes
    BY <2>3, <2>4, TailGrows
  <2>6. Ahead(b[j - 1])' = Ahead(b[j - 1]) \o bytes
    BY <2>5 DEF Ahead
  <2> QED BY <2>4, <2>6, FirmGrows
<1>2. Cuts(b)'
  BY <1>1 DEF Cuts
<1>3. \E c : Cuts(c)'
  BY <1>2
<1> QED BY <1>3 DEF EventsInv

(* A piece that what is held begins with is taken from it. *)
LEMMA EventsTaken ==
  ASSUME Inv, FedInv, EventsInv, Firm(Held), UNCHANGED <<fed, rd_count, opened>>,
         events' = Append(events, Piece(Held).event),
         rd_used' = rd_used + Piece(Held).size
  PROVE  EventsInv'
<1> DEFINE m == Len(events)
           n == Base + rd_used
           e == Piece(Held).event
           size == Piece(Held).size
<1> PICK b : Cuts(b)
  BY DEF EventsInv
<1>1. /\ m \in Nat /\ n \in Nat /\ opened.fed \in Nat /\ opened.events \in Nat
      /\ opened.events <= m /\ opened.fed <= n
  BY EventsType
<1>2. Held \in Seq(Byte) /\ Held = Ahead(n)
  BY HeldType DEF Held, Ahead
<1>3. size \in Nat /\ e \in Event
  BY <1>2, FirmType, PieceSize, LenProperties DEF Event
<1>4. (Base + rd_used)' = n + size
  <2>1. Base' = Base /\ rd_used' = rd_used + size /\ Base \in Int /\ rd_used \in Nat
    BY FedLengths, Lengths DEF Base
  <2> HIDE DEF size
  <2> QED BY <1>3, <2>1
<1>5. /\ events' \in Seq(Event) /\ Len(events') = m + 1
      /\ \A j \in 1..m : events'[j] = events[j]
      /\ events'[m + 1] = e
  BY <1>3, AppendProperties DEF EventsInv
<1> DEFINE oe == opened.events
           of == opened.fed
           grown == [j \in oe..(m + 1) |-> IF j = m + 1 THEN n + size ELSE b[j]]
<1> PICK c : c = grown
  OBVIOUS
<1>6. b \in [oe..m -> of..n] /\ b[oe] = of /\ b[m] = n
  BY DEF Cuts
<1>8. ASSUME NEW j \in (oe + 1)..m
      PROVE  Firm(Ahead(b[j - 1])) /\ events[j] = Piece(Ahead(b[j - 1])).event
             /\ b[j] = b[j - 1] + Piece(Ahead(b[j - 1])).size
  BY <1>8 DEF Cuts
<1>9. Cuts(c)'
  <2> HIDE DEF m, n, e, size, oe, of
  <2>1. /\ c \in [oe..(m + 1) -> of..(n + size)]
        /\ c[m + 1] = n + size /\ \A j \in oe..m : c[j] = b[j]
    <3>1. ASSUME NEW j \in oe..(m + 1)
          PROVE  (IF j = m + 1 THEN n + size ELSE b[j]) \in of..(n + size)
      <4>1. CASE j = m + 1
        BY <1>1, <1>3, <4>1 DEF of
      <4>2. CASE j # m + 1
        <5>1. j \in oe..m
          BY <1>1, <4>2 DEF oe
        <5>2. b[j] \in of..n
          BY <1>6, <5>1
        <5> QED BY <1>1, <1>3, <4>2, <5>2 DEF of
      <4> QED BY <4>1, <4>2
    <3>2. grown \in [oe..(m + 1) -> of..(n + size)]
      BY <3>1
    <3>3. m + 1 \in oe..(m + 1) /\ \A j \in oe..m : j \in oe..(m + 1) /\ j # m + 1
      BY <1>1 DEF oe
    <3> QED BY <3>2, <3>3
  <2>2. c[oe] = of
    <3>1. oe \in oe..m
      BY <1>1 DEF oe
    <3> QED BY <1>6, <2>1, <3>1
  <2>3. ASSUME NEW j \in (oe + 1)..(m + 1)
        PROVE  /\ Firm(Ahead(c[j - 1])) /\ events'[j] = Piece(Ahead(c[j - 1])).event
               /\ c[j] = c[j - 1] + Piece(Ahead(c[j - 1])).size
    <3>1. j - 1 \in oe..m
      BY <1>1 DEF oe
    <3>2. c[j - 1] = b[j - 1]
      BY <2>1, <3>1
    <3>3. CASE j = m + 1
      <4>1. j - 1 = m
        BY <1>1, <3>3
      <4>2. c[j - 1] = n
        BY <1>6, <3>2, <4>1
      <4> QED BY <1>2, <1>5, <2>1, <3>3, <4>2 DEF e, size
    <3>4. CASE j # m + 1
      <4>1. j \in (oe + 1)..m /\ j \in oe..m /\ j \in 1..m
        BY <1>1, <3>4 DEF oe
      <4> QED BY <1>5, <1>8, <2>1, <3>2, <4>1
    <3> QED BY <3>3, <3>4
  <2>4. opened' = opened /\ Len(events') = m + 1 /\ (Base + rd_used)' = n + size
    BY <1>4, <1>5
  <2>5. /\ c \in [opened'.events..Len(events') -> opened'.fed..(Base + rd_used)']
        /\ c[opened'.events] = opened'.fed /\ c[Len(events')] = (Base + rd_used)'
    BY <2>1, <2>2, <2>4 DEF oe, of
  <2>6. ASSUME NEW j \in (opened'.events + 1)..Len(events')
        PROVE  /\ Firm(Ahead(c[j - 1])') /\ events'[j] = Piece(Ahead(c[j - 1])').event
               /\ c[j] = c[j - 1] + Piece(Ahead(c[j - 1])').size
    <3>1. j \in (oe + 1)..(m + 1)
      BY <2>4 DEF oe
    <3>2. Ahead(c[j - 1])' = Ahead(c[j - 1])
      BY DEF Ahead
    <3> QED BY ZenonT(30), <2>3, <3>1, <3>2
  <2> QED BY <2>5, <2>6 DEF Cuts
<1>10. \E d : Cuts(d)'
  BY <1>9
<1>11. opened'.events <= Len(events') /\ opened'.fed <= (Base + rd_used)'
  <2> HIDE DEF m, n, size
  <2> QED BY <1>1, <1>3, <1>4, <1>5
<1> QED BY <1>1, <1>5, <1>10, <1>11 DEF EventsInv

LEMMA EventsOpened ==
  Inv /\ FedInv /\ EventsInv /\ NewSession => EventsInv'
<1> SUFFICES ASSUME Inv, FedInv, EventsInv, NewSession PROVE EventsInv'
  OBVIOUS
<1>1. /\ opened' = [fed |-> Len(fed), events |-> Len(events), taken |-> Len(taken)]
      /\ rd_count' = 0 /\ rd_used' = 0 /\ fed' = fed /\ events' = events
  BY DEF NewSession, CountersReset
<1>2. Len(events) \in Nat /\ Len(fed) \in Nat
  BY EventsType, FedLengths
<1>3. (Base + rd_used)' = Len(fed)
  BY <1>1, <1>2 DEF Base
<1>4. opened'.fed = Len(fed) /\ opened'.events = Len(events)
  BY <1>1
<1> DEFINE one == [j \in Len(events)..Len(events) |-> Len(fed)]
<1> PICK b : b = one
  OBVIOUS
<1>5. Cuts(b)'
  <2>1. b \in [Len(events)..Len(events) -> Len(fed)..Len(fed)] /\ b[Len(events)] = Len(fed)
    BY <1>2
  <2>2. \A j \in (Len(events) + 1)..Len(events) : FALSE
    BY <1>2
  <2>3. /\ b \in [opened'.events..Len(events') -> opened'.fed..(Base + rd_used)']
        /\ b[opened'.events] = opened'.fed /\ b[Len(events')] = (Base + rd_used)'
    BY <1>1, <1>3, <1>4, <2>1
  <2>4. \A j \in (opened'.events + 1)..Len(events') : FALSE
    BY <1>1, <1>4, <2>2
  <2> QED BY <2>3, <2>4 DEF Cuts
<1>6. \E c : Cuts(c)'
  BY <1>5
<1>7. events' \in Seq(Event)
  BY <1>1 DEF EventsInv
<1> QED BY <1>1, <1>2, <1>3, <1>4, <1>6, <1>7 DEF EventsInv

LEMMA ReadEvents ==
  ASSUME Inv, FedInv, EventsInv, Refill \/ ReadPlain
  PROVE  EventsInv'
BY ReadMore, EventsRead

LEMMA AcceptEvents ==
  ASSUME Inv, FedInv, EventsInv, DfaAccept
  PROVE  EventsInv'
<1> DEFINE p == Append(path, NextByte)
<1>1. /\ pc = "dfa" /\ ~Starved /\ p \in Keys
      /\ events' = Append(events, [type |-> "escape", value |-> p])
      /\ rd_used' = rd_used + rd_pending + 1
      /\ UNCHANGED <<fed, rd_count, opened>>
  BY DEF DfaAccept, source, calls, Leaf
<1>2. /\ path \in Seq(Byte) /\ Len(path) = rd_pending
      /\ \A j \in 1..rd_pending : path[j] = fed[Base + rd_used + j]
  BY <1>1 DEF Inv, LookaheadInv, FedInv, PassedInv
<1>3. Len(p) = rd_pending + 1 /\ IsPrefix(p, Held)
  BY <1>1, <1>2, GrownHeld
<1> HIDE DEF p
<1>4. Firm(Held) /\ Piece(Held) = [size |-> Len(p), event |-> [type |-> "escape", value |-> p]]
  BY <1>1, <1>3, HeldType, KeyPiece DEF Firm
<1>5. rd_used' = rd_used + Piece(Held).size
  BY <1>1, <1>3, <1>4, Lengths
<1>6. events' = Append(events, Piece(Held).event)
  BY <1>1, <1>4
<1> QED BY <1>1, <1>4, <1>5, <1>6, EventsTaken

LEMMA DoneEvents ==
  ASSUME Inv, FedInv, EventsInv, UcharDone
  PROVE  EventsInv'
<1> DEFINE u == Append(uchars, NextByte)
<1>1. /\ pc = "uchar" /\ ~Starved /\ Len(u) >= LeadLen[u[1]]
      /\ events' = Append(events, CharEvent(u))
      /\ rd_used' = rd_used + Consumed(u)
      /\ UNCHANGED <<fed, rd_count, opened>>
  BY DEF UcharDone, source, calls
<1>2. /\ uchars \in Seq(Byte) /\ Len(uchars) = rd_pending
      /\ \A j \in 1..rd_pending : uchars[j] = fed[Base + rd_used + j]
  BY <1>1 DEF Inv, LookaheadInv, FedInv, PassedInv
<1>3. /\ u \in Seq(Byte) /\ Len(u) = rd_pending + 1
      /\ IsPrefix(u, Held) /\ u[1] = Held[1]
      /\ \A j \in 1..Len(uchars) : u[j] = uchars[j]
  BY <1>1, <1>2, GrownHeld
<1>4. LeadLen[u[1]] \in 1..4
  BY <1>1, UcharType
<1> HIDE DEF u
<1>5. Len(u) = LeadLen[Held[1]]
  <2>1. rd_pending > 0 => rd_pending < LeadLen[u[1]]
    <3> SUFFICES ASSUME rd_pending > 0 PROVE rd_pending < LeadLen[u[1]]
      OBVIOUS
    <3>1. rd_pending < LeadLen[uchars[1]] /\ 1 \in 1..Len(uchars)
      BY <1>1, <1>2, Lengths DEF FedInv, PassedInv
    <3> QED BY <1>3, <3>1
  <2> QED BY SMTT(30), <1>1, <1>3, <1>4, <2>1, Lengths
<1>6. /\ Held \in Seq(Byte) /\ Len(Held) \in Nat /\ Len(u) <= Len(Held) /\ Len(Held) >= 1
      /\ u = SubSeq(Held, 1, LeadLen[Held[1]])
  <2>1. Held \in Seq(Byte) /\ Len(Held) \in Nat
    BY HeldType, LenProperties
  <2>2. Len(u) <= Len(Held)
    BY <1>3, <2>1, PrefixPoints
  <2>3. SubSeq(u, 1, Len(u)) = u
    BY <1>3, SubSeqFull
  <2>4. u = SubSeq(Held, 1, Len(u))
    BY <1>3, <2>3 DEF IsPrefix
  <2> QED BY SMTT(30), <1>3, <1>5, <2>1, <2>2, <2>4, Lengths
<1>7. Keyless(Held)
  BY <1>1 DEF FedInv, NoKeyInv
<1>8. Firm(Held)
  BY <1>5, <1>6, <1>7, EmptySeq DEF Firm
<1>9. Piece(Held) = [size |-> Consumed(u), event |-> CharEvent(u)]
  BY <1>5, <1>6, <1>7, CharPiece
<1> QED BY <1>1, <1>8, <1>9, EventsTaken

LEMMA EventsNext ==
  Inv /\ FedInv /\ EventsInv /\ [Next]_vars => EventsInv'
<1> SUFFICES ASSUME Inv, FedInv, EventsInv, [Next]_vars PROVE EventsInv'
  OBVIOUS
<1>1. CASE UNCHANGED vars \/ StartRead \/ DfaStep \/ StartUchar \/ UcharStep
  <2>1. UNCHANGED <<fed, events, opened, rd_count, rd_used>>
    BY <1>1 DEF vars, source, counts, calls, StartRead, DfaStep, StartUchar, UcharStep
  <2>2. (Base + rd_used)' = Base + rd_used
    BY <2>1 DEF Base
  <2> QED BY <2>1, <2>2, EventsStay
<1> QED BY <1>1, ReadEvents, AcceptEvents, DoneEvents, EventsOpened DEF Next

-----------------------------------------------------------------------------
LEMMA EventsDecoded ==
  ASSUME Inv, FedInv, EventsInv
  PROVE  EventsFaithful
<1> DEFINE of == opened.fed
           oe == opened.events
           m == Len(events)
           l == Len(fed)
           at == Base + rd_used
           s == SubSeq(fed, of + 1, l)
           n == at - of
<1> PICK b : Cuts(b)
  BY DEF EventsInv
<1>0. fed \in Seq(Byte) /\ events \in Seq(Event)
  BY FedLengths DEF EventsInv
<1>1. /\ m \in Nat /\ oe \in Nat /\ of \in Nat /\ oe <= m
      /\ at \in Nat /\ of <= at /\ at <= l /\ l \in Nat
  BY EventsType, FedLengths
<1>5. b \in [oe..m -> of..at] /\ b[oe] = of /\ b[m] = at
  BY DEF Cuts
<1> HIDE DEF of, oe, m, at, l
<1>2. s \in Seq(Byte) /\ Len(s) = l - of
  <2>1. of \in 0..l
    BY <1>1
  <2> QED BY <1>0, <2>1, AheadPoints DEF Ahead, l
<1>3. n \in Nat /\ n \in 0..Len(s)
  BY <1>1, <1>2
<1>4. Len(Decoded) - of = n
  <2>1. Len(fed) - (rd_count - rd_used) = at
    BY FedLengths, Lengths DEF at
  <2>2. at \in 0..Len(fed)
    BY <1>1 DEF l
  <2>3. Len(SubSeq(fed, 1, at)) = at
    BY <1>0, <2>2, FrontType
  <2> QED BY <2>1, <2>3 DEF Decoded
<1> HIDE DEF s
<1> DEFINE F == From(s, n)
           S == {k \in 0..(m - oe) : F[b[m - k] - of + 1] = SubSeq(events, (m - k) + 1, m)}
<1>6. \A i \in 1..(Len(s) + 1) :
        F[i] = IF i > n THEN <<>> ELSE <<PieceAt(s, i).event>> \o F[i + PieceAt(s, i).size]
  BY <1>2, <1>3, DecodeUnfolds
<1> HIDE DEF F
<1>7. 0 \in S
  <2>1. b[m - 0] - of + 1 = n + 1 /\ m - 0 = m
    BY <1>1, <1>5
  <2>2. n + 1 \in 1..(Len(s) + 1) /\ n + 1 > n
    BY <1>1, <1>2
  <2> HIDE DEF n
  <2>3. F[n + 1] = <<>>
    BY <1>6, <2>2
  <2>4. SubSeq(events, m + 1, m) = <<>>
    BY <1>1, SubSeqEmpty DEF m
  <2>5. 0 \in 0..(m - oe)
    BY <1>1
  <2> QED BY <2>1, <2>3, <2>4, <2>5
<1>8. ASSUME NEW k \in 0..(m - oe), k \in S, k < m - oe PROVE k + 1 \in S
  <2> DEFINE j == m - k
             i == b[j - 1] - of + 1
             size == Piece(Ahead(b[j - 1])).size
  <2>1. j \in (oe + 1)..m /\ j \in oe..m /\ j - 1 \in oe..m /\ m - (k + 1) = j - 1
        /\ k + 1 \in 0..(m - oe) /\ j \in 1..m
    BY <1>1, <1>8
  <2> HIDE DEF j
  <2>2. b[j] \in of..at /\ b[j - 1] \in of..at
    BY <1>5, <2>1
  <2>3. /\ Firm(Ahead(b[j - 1])) /\ events[j] = Piece(Ahead(b[j - 1])).event
        /\ b[j] = b[j - 1] + size
    BY <2>1 DEF Cuts, oe, m
  <2>4. Ahead(b[j - 1]) = SubSeq(s, i, Len(s))
    <3> DEFINE a == b[j - 1]
    <3>1. a \in of..l
      BY <1>1, <2>2
    <3> HIDE DEF a
    <3>2. /\ of + 1 \in 1..(l + 1) /\ l \in of..l
          /\ a - of + 1 \in 1..(l - of + 1)
          /\ (of + 1) + (a - of + 1) - 1 = a + 1 /\ (of + 1) + (l - of) - 1 = l
      BY <1>1, <3>1
    <3>3. s = Ahead(of) /\ of \in 0..l /\ a \in 0..l
      BY <1>1, <3>1 DEF s, Ahead, l
    <3>4. a - of + 1 \in 1..(Len(s) + 1)
      BY <1>2, <3>2
    <3>5. /\ SubSeq(s, a - of + 1, Len(s)) \in Seq(Byte)
          /\ Len(SubSeq(s, a - of + 1, Len(s))) = Len(s) - (a - of + 1) + 1
          /\ \A x \in 1..(Len(s) - (a - of + 1) + 1) :
               SubSeq(s, a - of + 1, Len(s))[x] = s[a - of + 1 + x - 1]
      BY <1>2, <3>4, TailType
    <3>6. /\ Ahead(a) \in Seq(Byte) /\ Len(Ahead(a)) = l - a
          /\ \A x \in 1..(l - a) : Ahead(a)[x] = fed[a + x]
      BY <1>0, <3>3, AheadPoints DEF l
    <3>7. \A x \in 1..(l - of) : s[x] = fed[of + x]
      BY <1>0, <3>3, AheadPoints DEF l
    <3> DEFINE t == SubSeq(s, a - of + 1, Len(s))
    <3> HIDE DEF t
    <3>8. Len(t) = Len(Ahead(a))
      BY <1>1, <1>2, <3>1, <3>5, <3>6 DEF t
    <3>9. ASSUME NEW x \in 1..Len(t) PROVE t[x] = Ahead(a)[x]
      <4>1. /\ x \in 1..(l - a) /\ a - of + x \in 1..(l - of)
            /\ of + (a - of + x) = a + x /\ a - of + 1 + x - 1 = a - of + x
            /\ x \in 1..(Len(s) - (a - of + 1) + 1)
        <5>1. /\ x \in 1..(l - a) /\ x \in Int /\ x >= 1 /\ x <= l - a
              /\ a \in Int /\ of \in Int /\ l \in Int /\ of <= a
          BY <1>1, <3>1, <3>6, <3>8
        <5>2. Len(s) = l - of
          BY <1>2
        <5> QED BY <5>1, <5>2
      <4>2. t[x] = s[a - of + x]
        BY <3>5, <4>1 DEF t
      <4> QED BY <3>6, <3>7, <4>1, <4>2
    <3>10. t \in Seq(Byte)
      BY <3>5 DEF t
    <3>11. t = Ahead(a)
      BY <3>6, <3>8, <3>9, <3>10, SeqEqual
    <3> QED BY <3>11 DEF t, a
  <2>5. PieceAt(s, i) = Piece(Ahead(b[j - 1]))
    BY <2>4, PieceAtIs
  <2>6. size \in Nat /\ size >= 1
    <3>1. b[j - 1] \in 0..l
      BY <1>1, <2>2
    <3>2. Ahead(b[j - 1]) \in Seq(Byte) /\ Len(Ahead(b[j - 1])) \in Nat
      BY <1>0, <3>1, AheadPoints, LenProperties DEF l
    <3>3. Len(Ahead(b[j - 1])) >= 1
      BY <2>3, <3>2, FirmType
    <3> QED BY <3>2, <3>3, PieceSize
  <2> HIDE DEF size
  <2>7. /\ i \in 1..(Len(s) + 1) /\ ~(i > n)
        /\ i + size = b[j] - of + 1
    BY SMTT(30), <1>1, <1>2, <2>2, <2>3, <2>6
  <2> HIDE DEF i, n
  <2>8. F[i] = <<events[j]>> \o F[i + size]
    BY <1>6, <2>3, <2>5, <2>7 DEF size
  <2>9. F[i + size] = SubSeq(events, j + 1, m)
    BY <1>8, <2>7 DEF j
  <2>10. SubSeq(events, j, m) = <<events[j]>> \o SubSeq(events, j + 1, m)
    BY <1>0, <2>1, SubSeqRecursiveFirst DEF m
  <2>11. (j - 1) + 1 = j
    BY <1>1, <2>1
  <2>12. F[b[m - (k + 1)] - of + 1] = SubSeq(events, (m - (k + 1)) + 1, m)
    BY <2>1, <2>8, <2>9, <2>10, <2>11 DEF i
  <2> QED BY <2>1, <2>12
<1>9. m - oe \in S
  <2> HIDE DEF S
  <2>1. m - oe \in Nat
    BY <1>1
  <2>2. \A k \in 0..(m - oe) : k \in S /\ k < m - oe => k + 1 \in S
    BY <1>8
  <2>3. \A k \in 0..(m - oe) : k \in S
    BY <1>7, <2>1, <2>2, Counting
  <2> QED BY <2>1, <2>3
<1>10. F[1] = SubSeq(events, oe + 1, m)
  <2>1. m - (m - oe) = oe
    BY <1>1
  <2>2. of - of + 1 = 1
    BY <1>1
  <2> QED BY <1>5, <1>9, <2>1, <2>2
<1>11. Decode(s, n) = F[1]
  BY <1>2, <1>3, DecodeUnfolds DEF F
<1> QED BY <1>4, <1>10, <1>11 DEF EventsFaithful, s, l, of, oe, m

(* The events of a call of nanorl() are what the bytes read during that call *)
(* mean, read one after the other: pieces and refills do not matter.  First  *)
(* for a terminal without keys, whose reads may be interrupted, then for     *)
(* every set of keys where the input is whole.                               *)
THEOREM PlainEventsFaithful ==
  ASSUME Keys = {}, \A b \in Byte : LeadLen[b] <= 2
  PROVE  Spec => []EventsFaithful
<1>1. Init => Inv /\ FedInv /\ EventsInv
  BY InvInit, FedInit, EventsInit
<1>2. Inv /\ FedInv /\ EventsInv /\ [Next]_vars => Inv' /\ FedInv' /\ EventsInv'
  BY InvNext, FedNext, EventsNext, PlainLeavesNothing, NothingIntact
<1>3. Inv /\ FedInv /\ EventsInv => EventsFaithful
  BY EventsDecoded
<1> QED BY <1>1, <1>2, <1>3, PTL DEF Spec

THEOREM WholeEventsFaithful ==
  ASSUME WholeInput
  PROVE  Spec => []EventsFaithful
<1>1. Init => Inv /\ FedInv /\ StreamInv /\ EventsInv
  BY InvInit, FedInit, StreamInit, EventsInit
<1>2. Inv /\ FedInv /\ StreamInv /\ EventsInv /\ [Next]_vars
        => Inv' /\ FedInv' /\ StreamInv' /\ EventsInv'
  BY InvNext, FedNext, StreamNext, EventsNext, WholeLeavesNothing, NothingIntact
<1>3. Inv /\ FedInv /\ EventsInv => EventsFaithful
  BY EventsDecoded
<1> QED BY <1>1, <1>2, <1>3, PTL DEF Spec

-----------------------------------------------------------------------------
(* Every input, whole or not *)

(* The memmove of a refill keeps the bytes the running parse has passed: what *)
(* it moves to the beginning of the buffer begins at rd_used.                 *)
RefillKeeps == Refill => \A i \in 0..(rd_pending - 1) : rd_buf'[i] = rd_buf[rd_used + i]

LEMMA KeptIntact == ASSUME Inv, FedInv, Intact(rd_used) PROVE LeavesIntact
<1>1. ASSUME UcharDone PROVE Intact(rd_used')
  <2> DEFINE u == Append(uchars, NextByte)
  <2>1. pc = "uchar" /\ ~Starved /\ rd_used' = rd_used + Consumed(u)
    BY <1>1 DEF UcharDone
  <2>2. Consumed(u) \in Nat
    BY <2>1, UcharType, LenProperties DEF Consumed
  <2> HIDE DEF u
  <2>3. rd_used \in Int /\ rd_used' \in Int /\ rd_used <= rd_used' /\ rd_count \in Int
    BY <2>1, <2>2, Lengths
  <2> QED BY <2>3, LaterIntact
<1> QED BY <1>1 DEF LeavesIntact

(* Bytes are taken, or none are. *)
LEMMA KeptTaken ==
  ASSUME Inv, Intact(rd_used), UNCHANGED <<fed, rd_buf, rd_count>>,
         rd_used' \in Int, rd_used <= rd_used'
  PROVE  Intact(rd_used)'
<1>1. rd_used \in Int /\ rd_count \in Int
  BY Lengths
<1>2. Intact(rd_used')
  BY <1>1, LaterIntact
<1> QED BY <1>2 DEF Intact, Base

LEMMA KeptRefill ==
  ASSUME Inv, FedInv, Intact(rd_used), Refill, RefillKeeps
  PROVE  Intact(rd_used)'
<1>1. /\ pc \in {"dfa", "uchar"} /\ rd_used + rd_pending = rd_count /\ rd_used' = 0
      /\ UNCHANGED rd_pending
  BY DEF Refill, Starved
<1> PICK beyond \in Byte : ReadWrapper(Moved(rd_buf, beyond), rd_pending)
  BY DEF Refill
<1>2. rd_pending \in 0..(BufSize - 1)
  BY <1>1, RoomLeft, Lengths
<1> PICK bytes \in Seq(Byte) : /\ rd_pending + Len(bytes) <= BufSize
                               /\ Deliver(Moved(rd_buf, beyond), rd_pending, bytes)
  BY <1>2, ReadWrapperBrings
<1>3. /\ \A i \in 1..Len(fed) : fed'[i] = fed[i]
      /\ rd_count' = rd_pending + Len(bytes)
      /\ Base' = Len(fed) - rd_pending
      /\ \A i \in rd_pending..(rd_count' - 1) : rd_buf'[i] = fed'[Base' + i + 1]
  <2>1. Moved(rd_buf, beyond) \in [0..(BufSize - 1) -> Byte]
    BY MovedType
  <2>2. fed \in Seq(Byte) /\ rd_pending \in Nat
    BY Lengths, FedLengths
  <2> QED BY <2>1, <2>2, DeliverFed
<1>4. ASSUME NEW i \in 0..(rd_count' - 1) PROVE rd_buf'[i] = fed'[Base' + i + 1]
  <2>1. CASE i >= rd_pending
    <3>1. i \in rd_pending..(rd_count' - 1)
      BY <1>2, <2>1
    <3> QED BY <1>3, <3>1
  <2>2. CASE i < rd_pending
    <3>1. i \in 0..(rd_pending - 1) /\ rd_used + i \in rd_used..(rd_count - 1)
      BY <1>1, <1>2, <2>2, Lengths
    <3>2. rd_buf'[i] = rd_buf[rd_used + i]
      BY <3>1 DEF RefillKeeps
    <3>3. rd_buf[rd_used + i] = fed[Base + (rd_used + i) + 1]
      BY <3>1 DEF Intact
    <3>4. Base + (rd_used + i) + 1 = Base' + i + 1 /\ Base' + i + 1 \in 1..Len(fed)
      <4>1. /\ Base \in Int /\ Len(fed) \in Nat /\ Base + rd_count = Len(fed)
            /\ Base + rd_used >= 0
        BY FedLengths
      <4>2. /\ rd_used \in Nat /\ rd_pending \in Nat /\ rd_used + rd_pending = rd_count
            /\ i \in Nat /\ i < rd_pending
        BY <1>1, <1>2, <2>2, Lengths
      <4>3. Base' = Len(fed) - rd_pending
        BY <1>3
      <4> QED BY <4>1, <4>2, <4>3
    <3>5. fed'[Base' + i + 1] = fed[Base' + i + 1]
      BY <1>3, <3>4
    <3> QED BY <3>2, <3>3, <3>4, <3>5
  <2> QED BY <1>2, <2>1, <2>2
<1> QED BY <1>1, <1>4 DEF Intact

LEMMA KeptNext ==
  ASSUME Inv, FedInv, Intact(rd_used), [Next]_vars, [RefillKeeps]_vars
  PROVE  Intact(rd_used)'
<1>0. rd_used \in Int
  BY Lengths
<1>1. CASE UNCHANGED vars \/ StartRead \/ DfaStep \/ StartUchar \/ UcharStep
  <2>1. UNCHANGED <<fed, rd_buf, rd_count, rd_used>>
    BY <1>1 DEF vars, source, counts, StartRead, DfaStep, StartUchar, UcharStep
  <2> QED BY <1>0, <2>1, KeptTaken
<1>2. CASE Refill
  BY <1>1, <1>2, KeptRefill
<1>3. CASE DfaAccept
  BY <1>3, Lengths, KeptTaken DEF DfaAccept, source
<1>4. CASE ReadPlain
  <2>1. FedInv' /\ pc' = "uchar" /\ rd_used' = 0 /\ rd_pending' = 0
    BY <1>4, ReadPlainFed DEF ReadPlain
  <2>2. (rd_used + rd_pending)' = rd_used'
    BY <2>1
  <2> QED BY <2>1, <2>2 DEF FedInv, BufferInv, Intact
<1>5. CASE UcharDone
  <2> DEFINE u == Append(uchars, NextByte)
  <2>1. pc = "uchar" /\ ~Starved /\ rd_used' = rd_used + Consumed(u)
        /\ UNCHANGED <<fed, rd_buf, rd_count>>
    BY <1>5 DEF UcharDone, source
  <2>2. Consumed(u) \in Nat
    BY <2>1, UcharType, LenProperties DEF Consumed
  <2> HIDE DEF u
  <2>3. rd_used' \in Int /\ rd_used <= rd_used'
    BY <1>0, <2>1, <2>2
  <2> QED BY <2>1, <2>3, KeptTaken
<1>6. CASE NewSession
  BY <1>6 DEF NewSession, CountersReset, Intact
<1> QED BY <1>1, <1>2, <1>3, <1>4, <1>5, <1>6 DEF Next

(* Within a call memmove's source, rd_buf + rd_count, is the only way in      *)
(* which the reader loses, repeats or changes a byte: where a refill keeps    *)
(* the bytes that the running parse has passed, as a move from rd_buf +       *)
(* rd_used does, the events of every call stand for the bytes it has read, in *)
(* order, and are what these mean, for all keys and characters, also where    *)
(* they are cut off, unknown, invalid or interrupted.  (What a call has read  *)
(* and not used, nrl_io_init drops.)                                          *)
THEOREM RefillAlone ==
  Spec /\ [][RefillKeeps]_vars
    => []NoByteLost /\ []WaitsOnlyIfIncomplete /\ []EventsFaithful
<1>1. Init => Inv /\ FedInv /\ EventsInv /\ TakenInv /\ Intact(rd_used)
  <2> SUFFICES ASSUME Init PROVE Inv /\ FedInv /\ EventsInv /\ TakenInv /\ Intact(rd_used)
    OBVIOUS
  <2>1. Intact(rd_used)
    BY DEF Init, Intact
  <2> QED BY <2>1, InvInit, FedInit, EventsInit, TakenInit
<1>2. Inv /\ FedInv /\ EventsInv /\ TakenInv /\ Intact(rd_used)
        /\ [Next]_vars /\ [RefillKeeps]_vars
        => Inv' /\ FedInv' /\ EventsInv' /\ TakenInv' /\ Intact(rd_used)'
  BY InvNext, FedNext, EventsNext, TakenNext, KeptIntact, KeptNext
<1>3. Inv /\ FedInv /\ EventsInv /\ TakenInv
        => NoByteLost /\ WaitsOnlyIfIncomplete /\ EventsFaithful
  BY FedSafe, TakenSafe, EventsDecoded
<1> QED BY <1>1, <1>2, <1>3, PTL DEF Spec

(* As the code is, a call loses nothing of what it reads while no read() cuts *)
(* a key or a character: every refill comes before the first byte of a parse. *)
THEOREM UncutFaithful ==
  Spec /\ [][Refill => rd_pending = 0]_vars
    => []NoByteLost /\ []WaitsOnlyIfIncomplete /\ []EventsFaithful
<1>1. [Refill => rd_pending = 0]_vars => [RefillKeeps]_vars
  BY DEF RefillKeeps
<1> QED BY <1>1, RefillAlone, PTL
-----------------------------------------------------------------------------
(* No step of a call is in vain *)

(* The first Ctrl-D is found, and it is not behind any other. *)
LEMMA FirstIs ==
  ASSUME NEW s \in Seq(Byte), NEW m \in 1..Len(s), s[m] = EOT
  PROVE  /\ FirstEOT(s) \in 1..m /\ s[FirstEOT(s)] = EOT
         /\ \A i \in 1..(FirstEOT(s) - 1) : s[i] # EOT
<1> DEFINE I == {n \in 1..Len(s) : s[n] = EOT}
<1>1. Len(s) \in Nat
  BY LenProperties
<1>2. I \in SUBSET Nat /\ m \in I
  OBVIOUS
<1>3. PICK n \in I : \A j \in I : n <= j
  BY <1>2, LeastOfSome
<1>4. ASSUME NEW i \in 1..(n - 1) PROVE s[i] # EOT
  <2>1. i \in 1..Len(s) /\ ~(n <= i)
    BY <1>1, <1>3
  <2> QED BY <1>3, <2>1
<1>5. \E j \in 1..Len(s) : s[j] = EOT /\ \A i \in 1..(j - 1) : s[i] # EOT
  BY <1>3, <1>4
<1>6. /\ FirstEOT(s) \in 1..Len(s) /\ s[FirstEOT(s)] = EOT
      /\ \A i \in 1..(FirstEOT(s) - 1) : s[i] # EOT
  BY <1>5 DEF FirstEOT
<1>7. ~(m < FirstEOT(s))
  <2> SUFFICES ASSUME m < FirstEOT(s) PROVE FALSE
    OBVIOUS
  <2>1. m \in 1..(FirstEOT(s) - 1)
    BY <1>1, <1>6
  <2> QED BY <1>6, <2>1
<1> QED BY <1>1, <1>6, <1>7

(* Two byte sequences, one after the other. *)
LEMMA JoinPoints ==
  ASSUME NEW p \in Seq(Byte), NEW q \in Seq(Byte)
  PROVE  /\ p \o q \in Seq(Byte) /\ Len(p \o q) = Len(p) + Len(q)
         /\ Len(p) \in Nat /\ Len(q) \in Nat
         /\ \A i \in 1..Len(p) : (p \o q)[i] = p[i]
         /\ \A i \in 1..Len(q) : (p \o q)[Len(p) + i] = q[i]
<1> DEFINE r == p \o q
<1>1. /\ r \in Seq(Byte) /\ Len(r) = Len(p) + Len(q)
      /\ \A i \in 1..(Len(p) + Len(q)) : r[i] = IF i <= Len(p) THEN p[i] ELSE q[i - Len(p)]
  BY ConcatProperties
<1>2. Len(p) \in Nat /\ Len(q) \in Nat
  BY LenProperties
<1> HIDE DEF r
<1>3. ASSUME NEW i \in 1..Len(p) PROVE r[i] = p[i]
  <2>1. i \in 1..(Len(p) + Len(q)) /\ i <= Len(p)
    BY <1>2
  <2> QED BY <1>1, <2>1
<1>4. ASSUME NEW i \in 1..Len(q) PROVE r[Len(p) + i] = q[i]
  <2>1. Len(p) + i \in 1..(Len(p) + Len(q)) /\ ~(Len(p) + i <= Len(p)) /\ Len(p) + i - Len(p) = i
    BY <1>2
  <2> QED BY <1>1, <2>1
<1> QED BY <1>1, <1>2, <1>3, <1>4 DEF r

(* What is ahead of a call: what it holds, what it will read, and the end. *)
LEMMA EndAhead ==
  ASSUME NEW h \in Seq(Byte), NEW r \in Seq(Byte)
  PROVE  /\ h \o (r \o <<EOT>>) \in Seq(Byte)
         /\ Len(h \o (r \o <<EOT>>)) = Len(h) + Len(r) + 1
         /\ Len(h) \in Nat /\ Len(r) \in Nat
         /\ \A i \in 1..Len(h) : (h \o (r \o <<EOT>>))[i] = h[i]
         /\ (h \o (r \o <<EOT>>))[Len(h) + Len(r) + 1] = EOT
<1> DEFINE e == <<EOT>>
           t == r \o e
<1>1. e \in Seq(Byte) /\ Len(e) = 1 /\ e[1] = EOT
  BY ReaderAssumption
<1> HIDE DEF e
<1>2. /\ t \in Seq(Byte) /\ Len(t) = Len(r) + 1 /\ Len(r) \in Nat
      /\ t[Len(r) + 1] = EOT
  <2>1. /\ t \in Seq(Byte) /\ Len(t) = Len(r) + Len(e) /\ Len(r) \in Nat
        /\ \A i \in 1..Len(e) : t[Len(r) + i] = e[i]
    BY <1>1, JoinPoints
  <2> HIDE DEF t
  <2>2. 1 \in 1..Len(e)
    BY <1>1
  <2> QED BY <1>1, <2>1, <2>2
<1> HIDE DEF t
<1>3. /\ h \o t \in Seq(Byte) /\ Len(h \o t) = Len(h) + Len(t) /\ Len(h) \in Nat
      /\ \A i \in 1..Len(h) : (h \o t)[i] = h[i]
      /\ \A i \in 1..Len(t) : (h \o t)[Len(h) + i] = t[i]
  BY <1>2, JoinPoints
<1>4. Len(r) + 1 \in 1..Len(t) /\ Len(h) + (Len(r) + 1) = Len(h) + Len(r) + 1
  BY <1>2, <1>3
<1> QED BY <1>2, <1>3, <1>4 DEF t, e

LEMMA FirstAhead ==
  ASSUME NEW h \in Seq(Byte), NEW r \in Seq(Byte)
  PROVE  LET s == h \o (r \o <<EOT>>)
         IN  /\ FirstEOT(s) \in 1..Len(s) /\ s[FirstEOT(s)] = EOT
             /\ \A i \in 1..(FirstEOT(s) - 1) : s[i] # EOT
<1> DEFINE s == h \o (r \o <<EOT>>)
           m == Len(h) + Len(r) + 1
<1>1. s \in Seq(Byte) /\ Len(s) = m /\ s[m] = EOT /\ Len(h) \in Nat /\ Len(r) \in Nat
  BY EndAhead
<1>2. m \in 1..Len(s)
  BY <1>1
<1> HIDE DEF s, m
<1> QED BY <1>1, <1>2, FirstIs DEF s

(* The Ctrl-D of a read() that brought nothing only brings the end nearer. *)
LEMMA MarkedCloser ==
  ASSUME NEW h \in Seq(Byte), NEW r \in Seq(Byte)
  PROVE  FirstEOT((h \o <<EOT>>) \o (r \o <<EOT>>)) <= FirstEOT(h \o (r \o <<EOT>>))
<1> DEFINE e == <<EOT>>
           g == h \o e
           s == h \o (r \o <<EOT>>)
           t == g \o (r \o <<EOT>>)
           n == FirstEOT(s)
<1>1. e \in Seq(Byte) /\ Len(e) = 1 /\ e[1] = EOT
  BY ReaderAssumption
<1> HIDE DEF e
<1>2. /\ g \in Seq(Byte) /\ Len(g) = Len(h) + 1 /\ Len(h) \in Nat
      /\ \A i \in 1..Len(h) : g[i] = h[i]
      /\ g[Len(h) + 1] = EOT
  <2>1. /\ g \in Seq(Byte) /\ Len(g) = Len(h) + Len(e) /\ Len(h) \in Nat
        /\ \A i \in 1..Len(h) : g[i] = h[i]
        /\ \A i \in 1..Len(e) : g[Len(h) + i] = e[i]
    BY <1>1, JoinPoints
  <2> HIDE DEF g
  <2>2. 1 \in 1..Len(e)
    BY <1>1
  <2> QED BY <1>1, <2>1, <2>2
<1>3. /\ n \in 1..Len(s) /\ s[n] = EOT /\ Len(s) = Len(h) + Len(r) + 1 /\ Len(r) \in Nat
      /\ \A i \in 1..Len(h) : s[i] = h[i]
  BY FirstAhead, EndAhead
<1> HIDE DEF g
<1>4. /\ t \in Seq(Byte) /\ Len(t) = Len(g) + Len(r) + 1
      /\ \A i \in 1..Len(g) : t[i] = g[i]
  BY <1>2, EndAhead
<1> HIDE DEF s, t, n
<1>5. CASE n <= Len(h)
  <2>1. n \in 1..Len(h) /\ n \in 1..Len(g) /\ n \in 1..Len(t)
    BY <1>2, <1>3, <1>4, <1>5
  <2>2. t[n] = EOT
    BY <1>2, <1>3, <1>4, <2>1
  <2>3. FirstEOT(t) \in 1..n
    BY <1>4, <2>1, <2>2, FirstIs
  <2> QED BY <1>3, <2>3 DEF n, t, s, g, e
<1>6. CASE ~(n <= Len(h))
  <2> DEFINE m == Len(h) + 1
  <2>1. m \in 1..Len(g) /\ m \in 1..Len(t) /\ m <= n /\ m \in Nat
    BY <1>2, <1>3, <1>4, <1>6
  <2>2. t[m] = EOT
    BY <1>2, <1>4, <2>1
  <2> HIDE DEF m
  <2>3. FirstEOT(t) \in 1..m
    BY <1>4, <2>1, <2>2, FirstIs
  <2>4. FirstEOT(t) <= n
    BY <1>3, <2>1, <2>3
  <2> QED BY <2>4 DEF n, t, s, g, e
<1> QED BY <1>5, <1>6

(* So do bytes that are taken, unless they held a Ctrl-D. *)
LEMMA TakenCloser ==
  ASSUME NEW h \in Seq(Byte), NEW r \in Seq(Byte), NEW c \in 1..Len(h),
         \A i \in 1..c : h[i] # EOT
  PROVE  FirstEOT(SubSeq(h, c + 1, Len(h)) \o (r \o <<EOT>>)) < FirstEOT(h \o (r \o <<EOT>>))
<1> DEFINE e == r \o <<EOT>>
           s == h \o e
           g == SubSeq(h, c + 1, Len(h))
           t == g \o e
           n == FirstEOT(s)
<1>1. /\ n \in 1..Len(s) /\ s[n] = EOT /\ Len(s) = Len(h) + Len(r) + 1
      /\ s \in Seq(Byte) /\ Len(h) \in Nat /\ Len(r) \in Nat
      /\ \A i \in 1..Len(h) : s[i] = h[i]
  BY FirstAhead, EndAhead
<1>2. e \in Seq(Byte)
  <2>1. <<EOT>> \in Seq(Byte)
    BY ReaderAssumption
  <2> QED BY <2>1, ConcatProperties
<1> HIDE DEF e
<1>3. t = SubSeq(s, c + 1, Len(s))
  <2>1. c \in 0..Len(h)
    BY <1>1
  <2> QED BY <1>2, <2>1, TailGrows
<1> HIDE DEF g, s, n
<1>4. c < n
  <2> SUFFICES ASSUME ~(c < n) PROVE FALSE
    OBVIOUS
  <2>1. n \in 1..c /\ n \in 1..Len(h)
    BY <1>1
  <2> QED BY <1>1, <2>1
<1>5. c + 1 \in 1..(Len(s) + 1)
  BY <1>1
<1>6. /\ t \in Seq(Byte) /\ Len(t) = Len(s) - (c + 1) + 1
      /\ \A j \in 1..(Len(s) - (c + 1) + 1) : t[j] = s[c + 1 + j - 1]
  BY <1>1, <1>3, <1>5, TailType
<1> HIDE DEF t
<1> DEFINE m == n - c
<1>7. m \in 1..Len(t) /\ m \in 1..(Len(s) - (c + 1) + 1) /\ c + 1 + m - 1 = n
  BY <1>1, <1>4, <1>6
<1>8. t[m] = EOT
  BY <1>1, <1>6, <1>7
<1> HIDE DEF m
<1>9. FirstEOT(t) \in 1..m
  BY <1>6, <1>7, <1>8, FirstIs
<1>10. FirstEOT(t) < n
  BY <1>1, <1>9 DEF m
<1> QED BY <1>10 DEF n, s, t, g, e

-----------------------------------------------------------------------------
LEMMA SameEnd ==
  ASSUME UNCHANGED <<fed, rd_count, rd_used, preload, input>>,
         pc # "done", pc' # "done"
  PROVE  ToEnd' = ToEnd
BY DEF ToEnd, Undecoded, Rest

(* How far the end is, where a call runs. *)
LEMMA EndType ==
  ASSUME Inv, FedInv, pc # "done"
  PROVE  /\ ToEnd = FirstEOT(Held \o (Rest \o <<EOT>>))
         /\ ToEnd \in Nat /\ ToEnd >= 1
<1>1. Held \in Seq(Byte) /\ Rest \in Seq(Byte) /\ Undecoded = Held
  BY HeldType, RestType DEF Inv, Undecoded, Held, Base
<1> DEFINE s == Held \o (Rest \o <<EOT>>)
<1>2. ToEnd = FirstEOT(s)
  BY <1>1 DEF ToEnd
<1>3. FirstEOT(s) \in 1..Len(s) /\ Len(s) = Len(Held) + Len(Rest) + 1
      /\ Len(Held) \in Nat /\ Len(Rest) \in Nat
  BY <1>1, FirstAhead, EndAhead
<1> HIDE DEF s
<1>4. ToEnd \in Nat /\ ToEnd >= 1
  BY <1>2, <1>3
<1> QED BY <1>2, <1>4 DEF s

LEMMA JoinedAhead ==
  ASSUME NEW h \in Seq(Byte), NEW b \in Seq(Byte), NEW r \in Seq(Byte)
  PROVE  (h \o b) \o (r \o <<EOT>>) = h \o ((b \o r) \o <<EOT>>)
<1> DEFINE e == <<EOT>>
           q == r \o e
<1>1. e \in Seq(Byte)
  BY ReaderAssumption
<1> HIDE DEF e
<1>2. q \in Seq(Byte)
  BY <1>1, ConcatProperties
<1>3. (b \o r) \o e = b \o q
  BY <1>1, Regrouped
<1> HIDE DEF q
<1>4. (h \o b) \o q = h \o (b \o q)
  BY <1>2, Regrouped
<1> QED BY <1>3, <1>4 DEF q, e

(* Reading leaves the end where it is, or brings it nearer. *)
LEMMA ReadCloser ==
  ASSUME Inv, FedInv, BytesInv', pc # "done", pc' # "done",
         NEW bytes \in Seq(Byte), fed' = fed \o bytes, Brings(bytes),
         Base' + rd_used' = Base + rd_used
  PROVE  ToEnd' <= ToEnd /\ ToEnd' \in Nat
<1>1. Held' = Held \o bytes
  <2> DEFINE a == Base + rd_used
  <2>1. fed \in Seq(Byte) /\ a \in 0..Len(fed)
    BY FedLengths, Lengths
  <2>2. Held = SubSeq(fed, a + 1, Len(fed)) /\ Held' = SubSeq(fed \o bytes, a + 1, Len(fed \o bytes))
    BY DEF Held
  <2> HIDE DEF a
  <2> QED BY <2>1, <2>2, TailGrows
<1>2. Held \in Seq(Byte) /\ Rest \in Seq(Byte)
  BY HeldType, RestType DEF Inv
<1>3. Rest' \in Seq(Byte)
  <2>1. input' \in Seq(Byte) /\ (preload' # NoPreload => preload' \in Seq(Byte))
    BY DEF BytesInv
  <2> QED BY <2>1, PreloadThenInput DEF Rest
<1>5. ToEnd' = FirstEOT((Held \o bytes) \o (Rest' \o <<EOT>>))
  <2>1. Undecoded' = Held'
    BY DEF Undecoded, Held, Base
  <2> QED BY <1>1, <2>1 DEF ToEnd
<1>6. ToEnd = FirstEOT(Held \o (Rest \o <<EOT>>)) /\ ToEnd \in Nat
  BY EndType
<1>7. ToEnd' \in Nat
  <2> DEFINE g == Held \o bytes
  <2>1. g \in Seq(Byte)
    BY <1>2, ConcatProperties
  <2> HIDE DEF g
  <2> DEFINE s == g \o (Rest' \o <<EOT>>)
  <2>2. FirstEOT(s) \in 1..Len(s)
    BY <1>3, <2>1, FirstAhead
  <2>3. Len(s) \in Nat
    BY <1>3, <2>1, EndAhead
  <2> HIDE DEF s
  <2>4. FirstEOT(s) \in Nat
    BY <2>2, <2>3
  <2> QED BY <1>5, <2>4 DEF s, g
<1>8. CASE Rest = bytes \o Rest'
  <2>4. (Held \o bytes) \o (Rest' \o <<EOT>>) = Held \o ((bytes \o Rest') \o <<EOT>>)
    BY <1>2, <1>3, JoinedAhead
  <2>5. ToEnd' = ToEnd
    BY <1>5, <1>6, <1>8, <2>4
  <2> QED BY <1>6, <2>5
<1>9. CASE bytes = EndMark /\ UNCHANGED <<input, preload>>
  <2>1. Rest' = Rest
    BY <1>9 DEF Rest
  <2>2. FirstEOT((Held \o <<EOT>>) \o (Rest \o <<EOT>>)) <= FirstEOT(Held \o (Rest \o <<EOT>>))
    BY <1>2, MarkedCloser
  <2> QED BY <1>5, <1>6, <1>7, <1>9, <2>1, <2>2 DEF EndMark
<1> QED BY <1>7, <1>8, <1>9 DEF Brings

(* A step with which nrl_io_read goes on without reading, or returns nothing. *)
LEMMA OnNearer ==
  ASSUME Inv, FedInv, UNCHANGED <<fed, rd_count, rd_used, preload, input>>,
         pc # "done", pc' # "done",
         ToEvent' < ToEvent \/ (ToEvent' = ToEvent /\ ToByte' < ToByte)
  PROVE  GetsNearer
BY SameEnd DEF GetsNearer

LEMMA ByteType ==
  ASSUME Inv
  PROVE  /\ ToByte \in Nat
         /\ Starved => ToByte \in {3 * (BufSize - rd_pending) + 1, 3 * (BufSize - rd_pending) + 2}
         /\ ~Starved => ToByte = 3 * (BufSize - rd_pending)
<1>1. /\ BufSize \in Nat /\ rd_pending \in Nat /\ rd_pending <= BufSize
  BY Lengths
<1> QED BY <1>1 DEF ToByte

(* A parse that takes one more byte has one fewer to take. *)
LEMMA PassNearer ==
  ASSUME Inv, Inv', ~Starved, rd_pending' = rd_pending + 1
  PROVE  ToByte' < ToByte
<1>1. BufSize \in Nat /\ rd_pending \in Nat /\ rd_pending' \in Nat
  BY Lengths DEF Inv, CountersInv
<1>2. ToByte = 3 * (BufSize - rd_pending)
  BY ByteType
<1>3. ToByte' <= 3 * (BufSize - rd_pending') + 2
  BY <1>1 DEF ToByte
<1>4. ToByte' \in Int
  BY <1>1 DEF ToByte
<1> QED BY <1>1, <1>2, <1>3, <1>4

LEMMA StartReadNearer == Inv /\ FedInv /\ StartRead => GetsNearer
<1> SUFFICES ASSUME Inv, FedInv, StartRead PROVE GetsNearer
  OBVIOUS
<1>1. /\ pc = "idle" /\ pc' \in {"dfa", "empty"}
      /\ UNCHANGED <<fed, rd_count, rd_used, preload, input>>
  BY DEF StartRead, source, counts
<1>2. ToEvent = 4 /\ ToEvent' \in {2, 3}
  BY <1>1 DEF ToEvent
<1> QED BY <1>1, <1>2, OnNearer

LEMMA DfaStepNearer == Inv /\ FedInv /\ DfaStep => GetsNearer
<1> SUFFICES ASSUME Inv, FedInv, DfaStep PROVE GetsNearer
  OBVIOUS
<1>1. /\ pc = "dfa" /\ pc' \in {"dfa", "empty"} /\ ~Starved /\ rd_pending' = rd_pending + 1
      /\ UNCHANGED <<fed, rd_count, rd_used, preload, input>>
  BY DEF DfaStep, source
<1>2. ToEvent = 3 /\ (pc' = "dfa" => ToEvent' = 3) /\ (pc' = "empty" => ToEvent' = 2)
  BY <1>1 DEF ToEvent
<1>3. ToByte' < ToByte
  BY <1>1, DfaStepInv, PassNearer
<1> QED BY <1>1, <1>2, <1>3, OnNearer

LEMMA StartUcharNearer == Inv /\ FedInv /\ StartUchar => GetsNearer
<1> SUFFICES ASSUME Inv, FedInv, StartUchar PROVE GetsNearer
  OBVIOUS
<1>1. /\ pc = "empty" /\ pc' = "uchar"
      /\ UNCHANGED <<fed, rd_count, rd_used, preload, input>>
  BY DEF StartUchar, source
<1>2. ToEvent = 2 /\ ToEvent' = 1
  BY <1>1 DEF ToEvent
<1> QED BY <1>1, <1>2, OnNearer

LEMMA UcharStepNearer == Inv /\ FedInv /\ UcharStep => GetsNearer
<1> SUFFICES ASSUME Inv, FedInv, UcharStep PROVE GetsNearer
  OBVIOUS
<1>1. /\ pc = "uchar" /\ pc' = "uchar" /\ ~Starved /\ rd_pending' = rd_pending + 1
      /\ UNCHANGED <<fed, rd_count, rd_used, preload, input>>
  BY DEF UcharStep, source
<1>2. ToEvent' = ToEvent
  BY <1>1 DEF ToEvent
<1>3. ToByte' < ToByte
  BY <1>1, UcharStepInv, PassNearer
<1> QED BY <1>1, <1>2, <1>3, OnNearer

(* read_wrapper brings a byte, unless the preload was empty. *)
LEMMA ReadWrapperSome ==
  ASSUME Inv, NEW buf, NEW at \in 0..(BufSize - 1), ReadWrapper(buf, at)
  PROVE  rd_count' > at \/ (preload # NoPreload /\ preload' = NoPreload)
<1> DEFINE room == BufSize - at
           n == IF Len(preload) > room THEN room ELSE Len(preload)
<1>0. at \in Nat /\ room \in Nat /\ room >= 1
  BY ReaderAssumption
<1>1. CASE /\ preload # NoPreload
           /\ Deliver(buf, at, SubSeq(preload, 1, n))
           /\ preload' = IF Len(preload) > room
                         THEN SubSeq(preload, n + 1, Len(preload)) ELSE NoPreload
  <2>1. preload \in Seq(Byte) /\ Len(preload) \in Nat
    BY <1>1, LenProperties DEF Inv, BytesInv
  <2>2. n \in 0..Len(preload)
    BY <1>0, <2>1
  <2>3. Len(SubSeq(preload, 1, n)) = n
    BY <2>1, <2>2, PartType
  <2>4. rd_count' = at + n
    BY <1>1, <2>3 DEF Deliver
  <2>5. CASE Len(preload) > room
    BY <1>0, <2>4, <2>5
  <2>6. CASE ~(Len(preload) > room)
    BY <1>1, <2>6
  <2> QED BY <2>5, <2>6
<1>2. CASE \E m \in 1..room : m <= Len(input) /\ Deliver(buf, at, SubSeq(input, 1, m))
  <2> PICK m \in 1..room : m <= Len(input) /\ Deliver(buf, at, SubSeq(input, 1, m))
    BY <1>2
  <2>1. input \in Seq(Byte) /\ Len(input) \in Nat
    BY LenProperties DEF Inv, BytesInv
  <2>2. m \in 0..Len(input) /\ m >= 1
    BY <1>0, <2>1
  <2>3. Len(SubSeq(input, 1, m)) = m
    BY <2>1, <2>2, PartType
  <2> QED BY <1>0, <2>2, <2>3 DEF Deliver
<1>3. CASE Deliver(buf, at, EndMark)
  <2>1. Len(EndMark) = 1
    BY DEF EndMark
  <2> QED BY <1>0, <1>3, <2>1 DEF Deliver
<1> QED BY <1>1, <1>2, <1>3 DEF ReadWrapper, Room

LEMMA RefillNearer == Inv /\ FedInv /\ Refill => GetsNearer
<1> SUFFICES ASSUME Inv, FedInv, Refill PROVE GetsNearer
  OBVIOUS
<1>1. Inv'
  BY RefillInv
<1>2. /\ pc \in {"dfa", "uchar"} /\ pc' = pc /\ Starved /\ rd_used + rd_pending = rd_count
      /\ rd_used' = 0 /\ rd_pending' = rd_pending
  BY DEF Refill, Starved
<1> PICK beyond \in Byte : ReadWrapper(Moved(rd_buf, beyond), rd_pending)
  BY DEF Refill
<1>3. rd_pending \in 0..(BufSize - 1) /\ BufSize \in Nat
  BY <1>2, RoomLeft, Lengths
<1> PICK bytes \in Seq(Byte) : /\ rd_pending + Len(bytes) <= BufSize
                               /\ Deliver(Moved(rd_buf, beyond), rd_pending, bytes)
                               /\ Brings(bytes)
  BY <1>3, ReadWrapperBrings
<1>4. fed' = fed \o bytes
  BY DEF Deliver
<1>5. Base' + rd_used' = Base + rd_used
  <2>1. Moved(rd_buf, beyond) \in [0..(BufSize - 1) -> Byte]
    BY MovedType
  <2>2. fed \in Seq(Byte) /\ rd_pending \in Nat /\ rd_used \in Nat
    BY Lengths, FedLengths
  <2>3. Base' = Len(fed) - rd_pending
    BY <2>1, <2>2, DeliverFed
  <2>4. Base \in Int /\ Base + rd_count = Len(fed) /\ Len(fed) \in Nat
    BY FedLengths
  <2> QED BY <1>2, <2>2, <2>3, <2>4
<1>6. ToEnd' <= ToEnd /\ ToEnd' \in Nat /\ ToEnd \in Nat
  BY <1>1, <1>2, <1>4, <1>5, ReadCloser, EndType DEF Inv
<1>7. ToEvent' = ToEvent
  BY <1>2 DEF ToEvent
<1>8. ToByte' < ToByte
  <2>1. CASE rd_count' > rd_pending
    <3>1. ~Starved'
      BY <1>2, <1>3, <2>1 DEF Starved
    <3>2. ToByte' = 3 * (BufSize - rd_pending)
      BY <1>2, <1>3, <3>1 DEF ToByte
    <3> QED BY <1>2, <1>3, <3>2, ByteType
  <2>2. CASE preload # NoPreload /\ preload' = NoPreload
    <3>1. ToByte = 3 * (BufSize - rd_pending) + 2
      BY <1>2, <2>2 DEF ToByte
    <3>2. ToByte' \in {3 * (BufSize - rd_pending), 3 * (BufSize - rd_pending) + 1}
      BY <1>2, <1>3, <2>2 DEF ToByte
    <3> QED BY <1>3, <3>1, <3>2
  <2> QED BY <1>3, <2>1, <2>2, ReadWrapperSome
<1> QED BY <1>6, <1>7, <1>8 DEF GetsNearer

LEMMA ReadPlainNearer == Inv /\ FedInv /\ ReadPlain => GetsNearer
<1> SUFFICES ASSUME Inv, FedInv, ReadPlain PROVE GetsNearer
  OBVIOUS
<1>1. Inv'
  BY ReadPlainInv
<1>2. /\ pc = "empty" /\ pc' = "uchar" /\ rd_count = rd_used /\ rd_used' = 0
      /\ ReadWrapper(rd_buf, 0)
  BY DEF ReadPlain
<1>3. 0 \in 0..(BufSize - 1)
  BY Lengths
<1> PICK bytes \in Seq(Byte) : /\ 0 + Len(bytes) <= BufSize
                               /\ Deliver(rd_buf, 0, bytes)
                               /\ Brings(bytes)
  BY <1>2, <1>3, ReadWrapperBrings
<1>4. fed' = fed \o bytes
  BY DEF Deliver
<1>5. Base' + rd_used' = Base + rd_used
  <2>1. rd_buf \in [0..(BufSize - 1) -> Byte] /\ fed \in Seq(Byte) /\ 0 \in Nat
    BY FedLengths DEF Inv, BytesInv
  <2>2. Base' = Len(fed) - 0
    BY <2>1, DeliverFed
  <2> QED BY <1>2, <2>2, FedLengths
<1>6. ToEnd' <= ToEnd /\ ToEnd' \in Nat /\ ToEnd \in Nat
  BY <1>1, <1>2, <1>4, <1>5, ReadCloser, EndType DEF Inv
<1>7. ToEvent = 2 /\ ToEvent' = 1
  BY <1>2 DEF ToEvent
<1> QED BY <1>6, <1>7 DEF GetsNearer

LEMMA LaterTail ==
  ASSUME NEW s \in Seq(Byte), NEW a \in 0..Len(s), NEW c \in 0..(Len(s) - a)
  PROVE  LET t == SubSeq(s, a + 1, Len(s))
         IN  SubSeq(s, a + c + 1, Len(s)) = SubSeq(t, c + 1, Len(t))
<1> DEFINE t == SubSeq(s, a + 1, Len(s))
           u == SubSeq(s, a + c + 1, Len(s))
           v == SubSeq(t, c + 1, Len(t))
<1>0. Len(s) \in Nat
  BY LenProperties
<1>1. a + 1 \in 1..(Len(s) + 1) /\ a + c + 1 \in 1..(Len(s) + 1)
  BY <1>0
<1>2. /\ t \in Seq(Byte) /\ Len(t) = Len(s) - (a + 1) + 1
      /\ \A j \in 1..(Len(s) - (a + 1) + 1) : t[j] = s[a + 1 + j - 1]
  BY <1>1, TailType
<1>3. /\ u \in Seq(Byte) /\ Len(u) = Len(s) - (a + c + 1) + 1
      /\ \A j \in 1..(Len(s) - (a + c + 1) + 1) : u[j] = s[a + c + 1 + j - 1]
  BY <1>1, TailType
<1> HIDE DEF t, u
<1>4. c + 1 \in 1..(Len(t) + 1)
  BY <1>0, <1>2
<1>5. /\ v \in Seq(Byte) /\ Len(v) = Len(t) - (c + 1) + 1
      /\ \A j \in 1..(Len(t) - (c + 1) + 1) : v[j] = t[c + 1 + j - 1]
  BY <1>2, <1>4, TailType
<1> HIDE DEF v
<1>6. Len(u) = Len(v)
  BY <1>0, <1>2, <1>3, <1>5
<1>7. ASSUME NEW j \in 1..Len(u) PROVE u[j] = v[j]
  <2>1. j \in 1..(Len(s) - (a + c + 1) + 1) /\ j \in 1..(Len(t) - (c + 1) + 1)
    BY <1>0, <1>2, <1>3
  <2>2. c + 1 + j - 1 \in 1..(Len(s) - (a + 1) + 1)
    BY <1>0, <1>2, <2>1
  <2>3. u[j] = s[a + c + 1 + j - 1] /\ v[j] = t[c + 1 + j - 1]
    BY <1>3, <1>5, <2>1
  <2>4. t[c + 1 + j - 1] = s[a + 1 + (c + 1 + j - 1) - 1]
    BY <1>2, <2>2
  <2>5. a + 1 + (c + 1 + j - 1) - 1 = a + c + 1 + j - 1
    BY <1>0, <2>1
  <2> QED BY <2>3, <2>4, <2>5
<1>8. u = v
  BY <1>3, <1>5, <1>6, <1>7, SeqEqual
<1> QED BY <1>8 DEF u, v, t

(* An event takes bytes, none of which is a Ctrl-D. *)
LEMMA TakenNearer ==
  ASSUME Inv, FedInv, pc # "done", pc' # "done", UNCHANGED <<source, rd_count>>,
         NEW c \in 1..Len(Held), \A i \in 1..c : Held[i] # EOT,
         rd_used' = rd_used + c
  PROVE  GetsNearer
<1> DEFINE a == Base + rd_used
<1>1. fed \in Seq(Byte) /\ a \in 0..Len(fed) /\ Len(Held) = Len(fed) - a
  <2>1. /\ fed \in Seq(Byte) /\ Len(fed) \in Nat /\ Base \in Int
        /\ Base + rd_used >= 0 /\ Base + rd_count = Len(fed)
    BY FedLengths
  <2>2. rd_used \in Nat /\ rd_count \in Nat /\ rd_used <= rd_count
    BY Lengths
  <2>3. Len(Held) = rd_count - rd_used
    BY HeldType
  <2> QED BY <2>1, <2>2, <2>3
<1>2. Held = SubSeq(fed, a + 1, Len(fed)) /\ Rest' = Rest
  BY DEF Held, source, Rest
<1>3. Undecoded' = SubSeq(fed, a + c + 1, Len(fed))
  <2>1. Undecoded' = SubSeq(fed, Len(fed) - rd_count + (rd_used + c) + 1, Len(fed))
    BY DEF Undecoded, source
  <2>2. Len(fed) - rd_count + (rd_used + c) + 1 = a + c + 1
    <3>1. Len(fed) \in Nat /\ rd_count \in Nat /\ rd_used \in Nat /\ c \in Int
      BY FedLengths, Lengths
    <3> QED BY <3>1 DEF Base
  <2> QED BY <2>1, <2>2
<1>4. c \in 0..(Len(fed) - a)
  BY <1>1
<1> HIDE DEF a
<1>5. Undecoded' = SubSeq(Held, c + 1, Len(Held))
  BY <1>1, <1>2, <1>3, <1>4, LaterTail
<1>6. FirstEOT(SubSeq(Held, c + 1, Len(Held)) \o (Rest \o <<EOT>>))
        < FirstEOT(Held \o (Rest \o <<EOT>>))
  BY HeldType, RestType, TakenCloser DEF Inv
<1>7. ToEnd' < ToEnd
  <2>1. ToEnd = FirstEOT(Held \o (Rest \o <<EOT>>))
    BY EndType
  <2>2. ToEnd' = FirstEOT(SubSeq(Held, c + 1, Len(Held)) \o (Rest \o <<EOT>>))
    BY <1>2, <1>5 DEF ToEnd
  <2> QED BY <1>6, <2>1, <2>2
<1> QED BY <1>7 DEF GetsNearer

LEMMA DfaAcceptNearer == Inv /\ FedInv /\ EndIsPlain /\ DfaAccept => GetsNearer
<1> SUFFICES ASSUME Inv, FedInv, EndIsPlain, DfaAccept PROVE GetsNearer
  OBVIOUS
<1> DEFINE p == Append(path, NextByte)
<1>1. /\ pc = "dfa" /\ pc' = "idle" /\ ~Starved /\ p \in Keys
      /\ rd_used' = rd_used + rd_pending + 1 /\ UNCHANGED <<source, rd_count>>
  BY DEF DfaAccept, Leaf
<1>2. /\ path \in Seq(Byte) /\ Len(path) = rd_pending
      /\ \A j \in 1..rd_pending : path[j] = fed[Base + rd_used + j]
  BY <1>1 DEF Inv, LookaheadInv, FedInv, PassedInv
<1>3. p \in Seq(Byte) /\ Len(p) = rd_pending + 1 /\ IsPrefix(p, Held)
  BY <1>1, <1>2, GrownHeld
<1> HIDE DEF p
<1>4. Held \in Seq(Byte) /\ Len(Held) \in Nat
  BY HeldType, LenProperties
<1>5. Len(p) <= Len(Held) /\ \A i \in 1..Len(p) : p[i] = Held[i]
  BY <1>3, <1>4, PrefixPoints
<1>6. rd_pending \in Nat /\ rd_used \in Nat
  BY Lengths
<1>7. Len(p) \in 1..Len(Held) /\ rd_used' = rd_used + Len(p)
  BY <1>1, <1>3, <1>4, <1>5, <1>6
<1>8. \A i \in 1..Len(p) : Held[i] # EOT
  BY <1>1, <1>5 DEF EndIsPlain
<1> QED BY <1>1, <1>7, <1>8, TakenNearer

LEMMA UcharDoneNearer == Inv /\ FedInv /\ EndIsPlain /\ UcharDone => GetsNearer
<1> SUFFICES ASSUME Inv, FedInv, EndIsPlain, UcharDone PROVE GetsNearer
  OBVIOUS
<1> DEFINE u == Append(uchars, NextByte)
<1>1. /\ pc = "uchar" /\ ~Starved /\ rd_used' = rd_used + Consumed(u)
      /\ pc' = IF CharEvent(u).type = "stop" THEN "done" ELSE "idle"
      /\ UNCHANGED <<source, rd_count>>
  BY DEF UcharDone
<1>2. CASE pc' = "done"
  <2>1. ToEnd' = 0
    BY <1>2 DEF ToEnd
  <2>2. ToEnd \in Nat /\ ToEnd >= 1
    BY <1>1, EndType
  <2> QED BY <2>1, <2>2 DEF GetsNearer
<1>3. CASE pc' # "done"
  <2>1. /\ uchars \in Seq(Byte) /\ Len(uchars) = rd_pending
        /\ \A j \in 1..rd_pending : uchars[j] = fed[Base + rd_used + j]
        /\ rd_pending > 0 => rd_pending < LeadLen[uchars[1]]
    BY <1>1 DEF Inv, LookaheadInv, FedInv, PassedInv
  <2>2. /\ u \in Seq(Byte) /\ Len(u) = rd_pending + 1 /\ IsPrefix(u, Held)
        /\ \A j \in 1..Len(uchars) : u[j] = uchars[j]
    BY <1>1, <2>1, GrownHeld
  <2>3. CharEvent(u).type # "stop" /\ pc' = "idle"
    BY <1>1, <1>3
  <2> HIDE DEF u
  <2>4. Held \in Seq(Byte) /\ Len(Held) \in Nat /\ rd_pending \in Nat
    BY HeldType, LenProperties, Lengths
  <2>5. Len(u) <= Len(Held) /\ \A i \in 1..Len(u) : u[i] = Held[i]
    BY <2>2, <2>4, PrefixPoints
  <2>6. u[1] # EOT
    <3> SUFFICES ASSUME u[1] = EOT PROVE FALSE
      OBVIOUS
    <3>1. rd_pending = 0
      <4> SUFFICES ASSUME rd_pending > 0 PROVE FALSE
        BY <2>4
      <4>1. 1 \in 1..Len(uchars)
        BY <2>1, <2>4
      <4>2. uchars[1] = EOT
        BY <2>2, <4>1
      <4>3. LeadLen[EOT] = 1
        BY DEF EndIsPlain
      <4> QED BY <2>1, <2>4, <4>2, <4>3
    <3>2. Len(u) = 1
      BY <2>2, <3>1
    <3>3. u = <<EOT>>
      <4> DEFINE e == <<EOT>>
      <4>1. e \in Seq(Byte) /\ Len(e) = 1 /\ e[1] = EOT
        BY ReaderAssumption
      <4> HIDE DEF e
      <4>2. \A i \in 1..Len(u) : u[i] = e[i]
        BY <3>2, <4>1
      <4>3. u = e
        BY <2>2, <3>2, <4>1, <4>2, SeqEqual
      <4> QED BY <4>3 DEF e
    <3>4. Valid(u)
      <4>1. u[1] \notin Cont /\ \A i \in 2..1 : u[i] \in Cont
        BY DEF EndIsPlain
      <4> QED BY <3>2, <4>1 DEF Valid
    <3>5. CharEvent(u) = [type |-> "stop", value |-> u]
      BY <3>3, <3>4 DEF CharEvent
    <3> QED BY <2>3, <3>5
  <2>7. Consumed(u) \in 1..Len(u)
    BY <2>2, <2>4 DEF Consumed
  <2>8. \A i \in 1..Consumed(u) : u[i] # EOT
    <3>1. CASE Valid(u)
      <4>1. \A i \in 2..Len(u) : u[i] # EOT
        BY <3>1 DEF Valid, EndIsPlain
      <4>2. \A i \in 1..Len(u) : i = 1 \/ i \in 2..Len(u)
        BY <2>2, <2>4
      <4> QED BY <2>6, <3>1, <4>1, <4>2 DEF Consumed
    <3>2. CASE ~Valid(u)
      BY <2>6, <3>2 DEF Consumed
    <3> QED BY <3>1, <3>2
  <2> DEFINE c == Consumed(u)
  <2>9. rd_used' = rd_used + c
    BY <1>1 DEF u
  <2> HIDE DEF c
  <2>10. c \in 1..Len(Held) /\ \A i \in 1..c : i \in 1..Len(u)
    BY <2>2, <2>4, <2>5, <2>7 DEF c
  <2>11. \A i \in 1..c : Held[i] # EOT
    BY <2>5, <2>8, <2>10 DEF c
  <2> QED BY <1>1, <1>3, <2>9, <2>10, <2>11, TakenNearer
<1> QED BY <1>2, <1>3

Counted == session \in Nat

LEMMA CountedStays == Counted /\ [Next]_vars => Counted'
BY DEF Counted, Next, vars, calls, StartRead, Refill, DfaStep, DfaAccept, ReadPlain, StartUchar,
       UcharStep, UcharDone, NewSession

LEMMA NextNearer ==
  ASSUME EndIsPlain, Inv, FedInv, Counted, Next
  PROVE  GetsNearer
<1>1. CASE NewSession
  BY <1>1 DEF NewSession, GetsNearer, Counted
<1>2. CASE Next /\ ~NewSession
  BY <1>2, StartReadNearer, RefillNearer, DfaStepNearer, DfaAcceptNearer, ReadPlainNearer,
     StartUcharNearer, UcharStepNearer, UcharDoneNearer DEF Next
<1> QED BY <1>1, <1>2

(* What the measure rests on holds in the three cases known so far. *)
LEMMA PlainHeld ==
  ASSUME Keys = {}, \A b \in Byte : LeadLen[b] <= 2
  PROVE  Spec => [](Inv /\ FedInv /\ Counted)
<1>1. Init => Inv /\ FedInv /\ Counted
  BY InvInit, FedInit DEF Init, Counted
<1>2. Inv /\ FedInv /\ Counted /\ [Next]_vars => Inv' /\ FedInv' /\ Counted'
  BY InvNext, FedNext, CountedStays, PlainLeavesNothing, NothingIntact
<1> QED BY <1>1, <1>2, PTL DEF Spec

LEMMA WholeHeld ==
  ASSUME WholeInput
  PROVE  Spec => [](Inv /\ FedInv /\ Counted)
<1>1. Init => Inv /\ FedInv /\ StreamInv /\ Counted
  BY InvInit, FedInit, StreamInit DEF Init, Counted
<1>2. Inv /\ FedInv /\ StreamInv /\ Counted /\ [Next]_vars
        => Inv' /\ FedInv' /\ StreamInv' /\ Counted'
  BY InvNext, FedNext, StreamNext, CountedStays, WholeLeavesNothing, NothingIntact
<1> QED BY <1>1, <1>2, PTL DEF Spec

LEMMA KeptHeld == Spec /\ [][RefillKeeps]_vars => [](Inv /\ FedInv /\ Counted)
<1>1. Init => Inv /\ FedInv /\ Intact(rd_used) /\ Counted
  <2> SUFFICES ASSUME Init PROVE Inv /\ FedInv /\ Intact(rd_used) /\ Counted
    OBVIOUS
  <2>1. Intact(rd_used) /\ Counted
    BY DEF Init, Intact, Counted
  <2> QED BY <2>1, InvInit, FedInit
<1>2. Inv /\ FedInv /\ Intact(rd_used) /\ Counted /\ [Next]_vars /\ [RefillKeeps]_vars
        => Inv' /\ FedInv' /\ Intact(rd_used)' /\ Counted'
  BY InvNext, FedNext, CountedStays, KeptIntact, KeptNext
<1> QED BY <1>1, <1>2, PTL DEF Spec

LEMMA StepsCount ==
  ASSUME EndIsPlain
  PROVE  Spec /\ [](Inv /\ FedInv /\ Counted) => EveryStepCounts
<1>1. Inv /\ FedInv /\ Counted /\ [Next]_vars => [GetsNearer]_vars
  BY NextNearer
<1> QED BY <1>1, PTL DEF Spec, EveryStepCounts

(* No step of a call is in vain, where no key is known and no character is   *)
(* longer than two bytes; reads may be interrupted at any time.              *)
THEOREM PlainStepsCount ==
  ASSUME EndIsPlain, Keys = {}, \A b \in Byte : LeadLen[b] <= 2
  PROVE  Spec => EveryStepCounts
BY PlainHeld, StepsCount, PTL

(* The same for every set of keys and characters of every length, where the  *)
(* input is whole.                                                           *)
THEOREM WholeStepsCount ==
  ASSUME EndIsPlain, WholeInput
  PROVE  Spec => EveryStepCounts
BY WholeHeld, StepsCount, PTL

(* And for every input, where a refill keeps the bytes the parse has passed. *)
THEOREM KeptStepsCount ==
  ASSUME EndIsPlain
  PROVE  Spec /\ [][RefillKeeps]_vars => EveryStepCounts
BY KeptHeld, StepsCount, PTL
=============================================================================
