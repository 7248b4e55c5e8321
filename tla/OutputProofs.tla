---------------------------- MODULE OutputProofs ----------------------------
(***************************************************************************)
(* What holds of Output for every buffer size and every mix of lengths. *)
(***************************************************************************)
EXTENDS Output, SequenceTheorems, TLAPS

ShapeInv ==
  /\ wr_buf \in Seq(Nat) /\ Len(wr_buf) <= BufSize
  /\ sent \in Seq(Nat) /\ accepted \in Seq(Nat)
  /\ asked \in Nat
  /\ config \in Configs
  /\ echo_enabled \in BOOLEAN
  /\ phase \in {"init", "edit", "print", "wiped", "out"}

(* Delivered alone is not inductive: the wipe of deinit keeps it only        *)
(* because there is nothing left to wipe, unless a flush may fail.           *)
DeliveryInv ==
  /\ Delivered
  /\ Reliable /\ phase = "edit" /\ config.echo_mode # "on" => wr_buf = <<>>

Inv == ShapeInv /\ DeliveryInv

-----------------------------------------------------------------------------
LEMMA FreshType ==
  ASSUME ShapeInv, NEW n \in Nat
  PROVE  Fresh(n) \in Seq(Nat) /\ Len(Fresh(n)) = n
<1>1. \A i \in 1..n : asked + i \in Nat
  BY DEF ShapeInv
<1> QED BY <1>1 DEF Fresh

LEMMA PartType ==
  ASSUME NEW s \in Seq(Nat), NEW n \in 0..Len(s)
  PROVE  SubSeq(s, 1, n) \in Seq(Nat) /\ Len(SubSeq(s, 1, n)) = n
<1>1. Len(s) \in Nat /\ \A j \in 1..Len(s) : s[j] \in Nat
  BY LenProperties, ElementOfSeq
<1>2. n \in Int /\ 1 \in Int /\ \A j \in 1..n : s[j] \in Nat
  BY <1>1
<1> QED BY <1>2, SubSeqProperties

(* What write() takes lies in the text, and a write that neither fails nor   *)
(* is cut short takes it whole.                                              *)
LEMMA TakenRange ==
  ASSUME NEW n \in Nat, NEW taken \in Taken(n)
  PROVE  /\ taken \in 0..n
         /\ Reliable /\ taken # n => config.fails /\ taken = 0
BY OutputAssumption DEF Taken, Reliable

LEMMA Associative == \A s, t, u \in Seq(Nat) : (s \o t) \o u = s \o (t \o u)
BY SMTT(30), ConcatAssociative

LEMMA NothingTaken == ASSUME NEW s \in Seq(Nat) PROVE SubSeq(s, 1, 0) = <<>>
BY SubSeqEmpty

-----------------------------------------------------------------------------
LEMMA InvInit == Init => Inv
<1>1. <<>> \in Seq(Nat) /\ Len(<<>>) = 0 /\ <<>> \o <<>> = <<>>
  BY EmptySeq, ConcatEmptySeq
<1> QED BY <1>1, OutputAssumption DEF Init, Inv, ShapeInv, DeliveryInv, Delivered

(* A flush keeps the bytes in order: all of them go out, or none. *)
LEMMA FlushInv ==
  ASSUME Inv, NEW taken, Flush(taken)
  PROVE  /\ wr_buf' \in Seq(Nat) /\ Len(wr_buf') <= BufSize
         /\ sent' \in Seq(Nat)
         /\ Reliable => sent' \o wr_buf' = accepted
         /\ Reliable /\ ~config.fails => wr_buf' = <<>>
<1>1. /\ wr_buf \in Seq(Nat) /\ Len(wr_buf) \in Nat /\ Len(wr_buf) <= BufSize
      /\ sent \in Seq(Nat) /\ BufSize \in Nat
  BY OutputAssumption, LenProperties DEF Inv, ShapeInv
<1>2. taken \in Taken(Len(wr_buf)) /\ sent' = sent \o SubSeq(wr_buf, 1, taken)
      /\ wr_buf' = Left(wr_buf, taken)
  BY DEF Flush
<1>3. taken \in 0..Len(wr_buf) /\ (Reliable /\ taken # Len(wr_buf) => config.fails /\ taken = 0)
  BY <1>1, <1>2, TakenRange
<1>4. sent' \in Seq(Nat)
  BY <1>1, <1>2, <1>3, PartType, ConcatProperties
<1>5. CASE taken = Len(wr_buf)
  <2>1. wr_buf' = <<>> /\ <<>> \in Seq(Nat) /\ Len(<<>>) = 0
    BY <1>2, <1>5, EmptySeq DEF Left
  <2>2. sent' = sent \o wr_buf
    BY <1>1, <1>2, <1>5, SubSeqFull
  <2>3. sent' \o wr_buf' = sent \o wr_buf
    BY <1>4, <2>1, <2>2, ConcatEmptySeq
  <2>4. Reliable => sent' \o wr_buf' = accepted
    BY <2>3 DEF Inv, DeliveryInv, Delivered
  <2> QED BY <1>1, <1>4, <2>1, <2>4
<1>6. CASE taken # Len(wr_buf)
  <2>1. wr_buf' = wr_buf
    BY <1>2, <1>6 DEF Left
  <2>2. ASSUME Reliable PROVE sent' = sent /\ config.fails
    <3>1. taken = 0 /\ config.fails
      BY <1>3, <1>6, <2>2
    <3>2. sent' = sent \o <<>>
      BY <1>1, <1>2, <3>1, NothingTaken
    <3> QED BY <1>1, <3>1, <3>2, ConcatEmptySeq
  <2>3. Reliable => sent' \o wr_buf' = accepted
    BY <2>1, <2>2 DEF Inv, DeliveryInv, Delivered
  <2>4. ~(Reliable /\ ~config.fails)
    BY <2>2
  <2> QED BY <1>1, <1>4, <2>1, <2>3, <2>4
<1> QED BY <1>5, <1>6

-----------------------------------------------------------------------------
(* The three ways of nrl_io_write, when the echo is on. *)
WriteKeeps ==
  /\ wr_buf' \in Seq(Nat) /\ Len(wr_buf') <= BufSize
  /\ sent' \in Seq(Nat) /\ accepted' \in Seq(Nat)
  /\ Reliable => sent' \o wr_buf' = accepted'

LEMMA BufferedInv ==
  ASSUME Inv, NEW n \in Nat, Buffered(n)
  PROVE  WriteKeeps
<1>1. /\ wr_buf \in Seq(Nat) /\ Len(wr_buf) \in Nat
      /\ sent \in Seq(Nat) /\ accepted \in Seq(Nat) /\ BufSize \in Nat
  BY OutputAssumption, LenProperties DEF Inv, ShapeInv
<1>2. Fresh(n) \in Seq(Nat) /\ Len(Fresh(n)) = n
  BY FreshType DEF Inv
<1>3. /\ wr_buf' \in Seq(Nat) /\ Len(wr_buf') = Len(wr_buf) + n
      /\ accepted' \in Seq(Nat)
  BY <1>1, <1>2, ConcatProperties DEF Buffered
<1>4. Len(wr_buf') <= BufSize
  BY <1>1, <1>3 DEF Buffered, Overflows
<1>5. (sent \o wr_buf) \o Fresh(n) = sent \o (wr_buf \o Fresh(n))
  BY <1>1, <1>2, Associative
<1>6. ASSUME Reliable PROVE sent' \o wr_buf' = accepted'
  <2>1. sent \o wr_buf = accepted
    BY <1>6 DEF Inv, DeliveryInv, Delivered
  <2> QED BY <1>5, <2>1 DEF Buffered
<1>7. sent' = sent
  BY DEF Buffered
<1> QED BY <1>1, <1>3, <1>4, <1>6, <1>7 DEF WriteKeeps

LEMMA FlushedInv ==
  ASSUME Inv, NEW n \in Nat, Flushed(n)
  PROVE  WriteKeeps
<1>1. /\ wr_buf \in Seq(Nat) /\ Len(wr_buf) \in Nat /\ Len(wr_buf) <= BufSize
      /\ sent \in Seq(Nat) /\ accepted \in Seq(Nat) /\ BufSize \in Nat
  BY OutputAssumption, LenProperties DEF Inv, ShapeInv
<1>2. Fresh(n) \in Seq(Nat) /\ Len(Fresh(n)) = n /\ n <= BufSize
  BY FreshType DEF Inv, Flushed
<1>3. PICK taken \in Taken(Len(wr_buf)) :
        /\ sent' = sent \o SubSeq(wr_buf, 1, taken)
        /\ wr_buf' = IF taken = Len(wr_buf) THEN Fresh(n) ELSE wr_buf
        /\ accepted' = IF taken = Len(wr_buf) THEN accepted \o Fresh(n) ELSE accepted
  BY DEF Flushed
<1>4. taken \in 0..Len(wr_buf) /\ (Reliable /\ taken # Len(wr_buf) => config.fails /\ taken = 0)
  BY <1>1, <1>3, TakenRange
<1>5. sent' \in Seq(Nat)
  BY <1>1, <1>3, <1>4, PartType, ConcatProperties
<1>6. CASE taken = Len(wr_buf)
  <2>1. sent' = sent \o wr_buf
    BY <1>1, <1>3, <1>6, SubSeqFull
  <2>2. accepted' = accepted \o Fresh(n) /\ accepted' \in Seq(Nat) /\ wr_buf' = Fresh(n)
    BY <1>1, <1>2, <1>3, <1>6, ConcatProperties
  <2>3. Reliable => sent' \o wr_buf' = accepted'
    BY <2>1, <2>2 DEF Inv, DeliveryInv, Delivered
  <2> QED BY <1>2, <1>5, <2>2, <2>3 DEF WriteKeeps
<1>7. CASE taken # Len(wr_buf)
  <2>1. wr_buf' = wr_buf /\ accepted' = accepted
    BY <1>3, <1>7
  <2>2. ASSUME Reliable PROVE sent' \o wr_buf' = accepted'
    <3>1. sent' = sent \o <<>>
      BY <1>1, <1>3, <1>4, <1>7, <2>2, NothingTaken
    <3>2. sent' = sent
      BY <1>1, <3>1, ConcatEmptySeq
    <3> QED BY <2>1, <2>2, <3>2 DEF Inv, DeliveryInv, Delivered
  <2> QED BY <1>1, <1>5, <2>1, <2>2 DEF WriteKeeps
<1> QED BY <1>6, <1>7

LEMMA PastInv ==
  ASSUME Inv, NEW n \in Nat, Past(n)
  PROVE  WriteKeeps
<1>1. /\ wr_buf \in Seq(Nat) /\ Len(wr_buf) \in Nat /\ Len(wr_buf) <= BufSize
      /\ sent \in Seq(Nat) /\ accepted \in Seq(Nat) /\ BufSize \in Nat
  BY OutputAssumption, LenProperties DEF Inv, ShapeInv
<1>2. Fresh(n) \in Seq(Nat) /\ Len(Fresh(n)) = n
  BY FreshType DEF Inv
<1>3. PICK taken \in Taken(Len(wr_buf)) :
        IF taken = Len(wr_buf)
        THEN \E straight \in Taken(n) :
               /\ wr_buf' = <<>>
               /\ sent' = sent \o wr_buf \o SubSeq(Fresh(n), 1, straight)
               /\ accepted' = accepted \o SubSeq(Fresh(n), 1, straight)
        ELSE /\ sent' = sent \o SubSeq(wr_buf, 1, taken)
             /\ UNCHANGED <<wr_buf, accepted>>
  BY DEF Past
<1>4. taken \in 0..Len(wr_buf) /\ (Reliable /\ taken # Len(wr_buf) => config.fails /\ taken = 0)
  BY <1>1, <1>3, TakenRange
<1>5. CASE taken = Len(wr_buf)
  <2>1. PICK straight \in Taken(n) :
               /\ wr_buf' = <<>>
               /\ sent' = sent \o wr_buf \o SubSeq(Fresh(n), 1, straight)
               /\ accepted' = accepted \o SubSeq(Fresh(n), 1, straight)
    BY <1>3, <1>5
  <2> DEFINE part == SubSeq(Fresh(n), 1, straight)
  <2>2. part \in Seq(Nat)
    BY <1>2, TakenRange, PartType
  <2>3. sent \o wr_buf \in Seq(Nat) /\ (sent \o wr_buf) \o part \in Seq(Nat)
        /\ accepted \o part \in Seq(Nat)
    BY <1>1, <2>2, ConcatProperties
  <2>4. <<>> \in Seq(Nat) /\ Len(<<>>) = 0
    BY EmptySeq
  <2>5. sent' \o wr_buf' = (sent \o wr_buf) \o part
    BY <2>1, <2>3, ConcatEmptySeq
  <2>6. Reliable => sent' \o wr_buf' = accepted'
    BY <2>1, <2>5 DEF Inv, DeliveryInv, Delivered
  <2>7. sent' \in Seq(Nat) /\ accepted' \in Seq(Nat)
    BY <2>1, <2>3
  <2>8. wr_buf' \in Seq(Nat) /\ Len(wr_buf') <= BufSize
    BY <1>1, <2>1, <2>4
  <2> QED BY <2>6, <2>7, <2>8 DEF WriteKeeps
<1>6. CASE taken # Len(wr_buf)
  <2>1. /\ sent' = sent \o SubSeq(wr_buf, 1, taken)
        /\ wr_buf' = wr_buf /\ accepted' = accepted
    BY <1>3, <1>6
  <2>2. sent' \in Seq(Nat)
    BY <1>1, <1>4, <2>1, PartType, ConcatProperties
  <2>3. ASSUME Reliable PROVE sent' \o wr_buf' = accepted'
    <3>1. sent' = sent \o <<>>
      BY <1>1, <1>4, <1>6, <2>1, <2>3, NothingTaken
    <3>2. sent' = sent
      BY <1>1, <3>1, ConcatEmptySeq
    <3> QED BY <2>1, <2>3, <3>2 DEF Inv, DeliveryInv, Delivered
  <2> QED BY <1>1, <2>1, <2>2, <2>3 DEF WriteKeeps
<1> QED BY <1>5, <1>6

LEMMA WriteInv ==
  ASSUME Inv, NEW n \in Lengths, Write(n)
  PROVE  Inv'
<1>1. n \in Nat
  BY OutputAssumption
<1>2. WriteKeeps
  <2>1. CASE Echoed
    BY <1>1, <2>1, BufferedInv, FlushedInv, PastInv DEF Write
  <2>2. CASE ~Echoed
    BY <2>2 DEF Write, WriteKeeps, Inv, ShapeInv, DeliveryInv, Delivered
  <2> QED BY <2>1, <2>2
<1>3. asked' \in Nat
  BY <1>1 DEF Write, Inv, ShapeInv
<1>4. phase' \in {"init", "print", "wiped", "out"}
  BY DEF Write
<1>5. ShapeInv'
  BY <1>2, <1>3, <1>4 DEF ShapeInv, WriteKeeps, Write, Inv
<1>6. DeliveryInv'
  <2>1. config' = config
    BY DEF Write
  <2> QED BY <1>2, <1>4, <2>1 DEF DeliveryInv, Delivered, WriteKeeps, Reliable
<1> QED BY <1>5, <1>6 DEF Inv

-----------------------------------------------------------------------------
LEMMA ShownInv == Inv /\ Shown => Inv'
<1> SUFFICES ASSUME Inv, Shown PROVE Inv'
  OBVIOUS
<1>1. PICK taken : Flush(taken)
  BY DEF Shown
<1>2. /\ wr_buf' \in Seq(Nat) /\ Len(wr_buf') <= BufSize
      /\ sent' \in Seq(Nat)
      /\ Reliable => sent' \o wr_buf' = accepted
      /\ Reliable /\ ~config.fails => wr_buf' = <<>>
  BY <1>1, FlushInv
<1>3. ShapeInv'
  BY <1>2 DEF Inv, ShapeInv, Shown
<1>4. DeliveryInv'
  BY <1>2 DEF DeliveryInv, Delivered, Reliable, Shown
<1> QED BY <1>3, <1>4 DEF Inv

LEMMA BeginEditInv == Inv /\ BeginEdit => Inv'
<1> SUFFICES ASSUME Inv, BeginEdit PROVE Inv'
  OBVIOUS
<1>1. PICK taken : Flush(taken)
  BY DEF BeginEdit
<1>2. /\ wr_buf' \in Seq(Nat) /\ Len(wr_buf') <= BufSize
      /\ sent' \in Seq(Nat)
      /\ Reliable => sent' \o wr_buf' = accepted
      /\ Reliable /\ ~config.fails => wr_buf' = <<>>
  BY <1>1, FlushInv
<1>3. ShapeInv'
  <2>1. phase' \in {"edit", "out"} /\ echo_enabled' \in BOOLEAN
    BY DEF BeginEdit
  <2> QED BY <1>2, <2>1 DEF Inv, ShapeInv, BeginEdit
<1>4. DeliveryInv'
  BY <1>2 DEF DeliveryInv, Delivered, Reliable, BeginEdit
<1> QED BY <1>3, <1>4 DEF Inv

(* Wiping touches the buffer only where DeliveryInv says it is empty. *)
LEMMA BeginDeinitInv == Inv /\ BeginDeinit => Inv'
<1> SUFFICES ASSUME Inv, BeginDeinit PROVE Inv'
  OBVIOUS
<1>1. wr_buf \in Seq(Nat) /\ Len(wr_buf) \in Nat /\ Len(wr_buf) <= BufSize
  BY LenProperties DEF Inv, ShapeInv
<1>2. Wiped(wr_buf) \in Seq(Nat) /\ Len(Wiped(wr_buf)) = Len(wr_buf)
  <2>1. CASE config.echo_mode = "on"
    BY <1>1, <2>1 DEF Wiped
  <2>2. CASE config.echo_mode # "on"
    <3>1. Wiped(wr_buf) = [i \in 1..Len(wr_buf) |-> 0]
      BY <2>2 DEF Wiped, Nul
    <3> QED BY <1>1, <3>1
  <2> QED BY <2>1, <2>2
<1>3. ASSUME Reliable PROVE Wiped(wr_buf) = wr_buf
  <2>1. CASE config.echo_mode = "on"
    BY <2>1 DEF Wiped
  <2>2. CASE config.echo_mode # "on"
    <3>1. wr_buf = <<>>
      BY <1>3, <2>2 DEF Inv, DeliveryInv, BeginDeinit
    <3>2. Len(Wiped(wr_buf)) = 0
      BY <1>2, <3>1, EmptySeq
    <3> QED BY <1>2, <3>1, <3>2, EmptySeq
  <2> QED BY <2>1, <2>2
<1>4. ShapeInv'
  BY <1>1, <1>2 DEF Inv, ShapeInv, BeginDeinit
<1>5. DeliveryInv'
  BY <1>3 DEF Inv, DeliveryInv, Delivered, Reliable, BeginDeinit
<1> QED BY <1>4, <1>5 DEF Inv

LEMMA ReturnInv == Inv /\ Return => Inv'
<1> SUFFICES ASSUME Inv, Return PROVE Inv'
  OBVIOUS
<1>1. PICK taken : Flush(taken)
  BY DEF Return
<1>2. /\ wr_buf' \in Seq(Nat) /\ Len(wr_buf') <= BufSize
      /\ sent' \in Seq(Nat)
      /\ Reliable => sent' \o wr_buf' = accepted
  BY <1>1, FlushInv
<1>3. ShapeInv'
  BY <1>2 DEF Inv, ShapeInv, Return
<1>4. DeliveryInv'
  BY <1>2 DEF DeliveryInv, Delivered, Reliable, Return
<1> QED BY <1>3, <1>4 DEF Inv

LEMMA NewCallInv == Inv /\ NewCall => Inv'
<1> SUFFICES ASSUME Inv, NewCall PROVE Inv'
  OBVIOUS
<1>1. wr_buf' = <<>> /\ <<>> \in Seq(Nat) /\ Len(<<>>) = 0 /\ sent' \o <<>> = sent'
  BY EmptySeq, ConcatEmptySeq DEF NewCall, Inv, ShapeInv
<1>2. BufSize \in Nat
  BY OutputAssumption
<1>3. ShapeInv'
  BY <1>1, <1>2 DEF Inv, ShapeInv, NewCall
<1>4. sent' \o wr_buf' = accepted'
  BY <1>1 DEF NewCall
<1>5. DeliveryInv'
  BY <1>1, <1>4 DEF DeliveryInv, Delivered
<1> QED BY <1>3, <1>5 DEF Inv

LEMMA InvNext == Inv /\ [Next]_vars => Inv'
<1> SUFFICES ASSUME Inv, [Next]_vars PROVE Inv'
  OBVIOUS
<1>1. ASSUME NEW n \in Lengths, Write(n) PROVE Inv'
  BY <1>1, WriteInv
<1>2. CASE UNCHANGED vars
  BY <1>2 DEF vars, Inv, ShapeInv, DeliveryInv, Delivered, Reliable
<1> QED BY <1>1, <1>2, ShownInv, BeginEditInv, BeginDeinitInv, ReturnInv, NewCallInv DEF Next

-----------------------------------------------------------------------------
(* The strengthened invariant holds of every behaviour of the output side. *)
THEOREM OutputInvariant == Spec => []Inv
<1> QED BY InvInit, InvNext, PTL DEF Spec

(* The write buffer is never filled beyond IO_BUF_SIZE, whatever is printed  *)
(* and however write() fails: the memcpy of nrl_io_write stays in bounds.    *)
THEOREM OutputTypeCorrect == Spec => []TypeOK
<1>1. Inv => TypeOK
  BY DEF Inv, ShapeInv, TypeOK
<1> QED BY OutputInvariant, <1>1, PTL

(* As long as write() is not cut short, and a failed flush is not followed   *)
(* by a wipe, every byte accepted by nrl_io_write goes out once, in order.   *)
THEOREM OutputDelivers == Spec => []Delivered
<1>1. Inv => Delivered
  BY DEF Inv, DeliveryInv
<1> QED BY OutputInvariant, <1>1, PTL

-----------------------------------------------------------------------------
(* NothingHidden is not inductive: what is buffered will be sent.  Bytes are   *)
(* numbered in the order in which callers ask for them, so none is hidden      *)
(* after it was buffered; and echo is off while the hidden ones are asked for. *)
Public == {b \in Nat : b <= asked /\ b \notin hidden}

HiddenInv ==
  /\ hidden \subseteq 1..asked
  /\ wr_buf \in Seq(Public) /\ sent \in Seq(Public)
  /\ phase \in {"edit", "print"} => echo_enabled = (config.echo_mode # "off")

LEMMA FirstOf ==
  ASSUME NEW A, NEW s \in Seq(A), NEW n \in 0..Len(s)
  PROVE  SubSeq(s, 1, n) \in Seq(A)
<1>1. Len(s) \in Nat /\ \A j \in 1..Len(s) : s[j] \in A
  BY LenProperties, ElementOfSeq
<1>2. n \in Int /\ 1 \in Int /\ \A j \in 1..n : s[j] \in A
  BY <1>1
<1> QED BY <1>2, SubSeqProperties

LEMMA HiddenInit == Init => HiddenInv
BY DEF Init, HiddenInv

LEMMA FlushHides ==
  ASSUME Inv, HiddenInv, NEW taken, Flush(taken)
  PROVE  wr_buf' \in Seq(Public) /\ sent' \in Seq(Public)
<1>1. Len(wr_buf) \in Nat
  BY LenProperties DEF Inv, ShapeInv
<1>2. taken \in 0..Len(wr_buf)
  BY <1>1, TakenRange DEF Flush
<1>3. SubSeq(wr_buf, 1, taken) \in Seq(Public)
  BY <1>2, FirstOf DEF HiddenInv
<1>4. sent' \in Seq(Public)
  BY <1>3, ConcatProperties DEF HiddenInv, Flush
<1>5. wr_buf' = <<>> \/ wr_buf' = wr_buf
  BY DEF Flush, Left
<1> QED BY <1>4, <1>5, EmptySeq DEF HiddenInv

(* What nrl_io_write buffers and sends is what was there before, and the new *)
(* bytes, if they may be seen.                                               *)
LEMMA WriteHides ==
  ASSUME Inv, NEW n \in Nat, NEW S, Fresh(n) \in Seq(S), wr_buf \in Seq(S), sent \in Seq(S),
         Buffered(n) \/ Flushed(n) \/ Past(n)
  PROVE  wr_buf' \in Seq(S) /\ sent' \in Seq(S)
<1>1. Len(wr_buf) \in Nat /\ Len(Fresh(n)) = n
  BY LenProperties, FreshType DEF Inv, ShapeInv
<1>2. \A taken \in Taken(Len(wr_buf)) : SubSeq(wr_buf, 1, taken) \in Seq(S)
  BY <1>1, TakenRange, FirstOf
<1>3. \A taken \in Taken(n) : SubSeq(Fresh(n), 1, taken) \in Seq(S)
  BY <1>1, TakenRange, FirstOf
<1>4. CASE Buffered(n)
  BY <1>4, ConcatProperties DEF Buffered
<1>5. CASE Flushed(n)
  <2>1. PICK taken \in Taken(Len(wr_buf)) :
          /\ sent' = sent \o SubSeq(wr_buf, 1, taken)
          /\ wr_buf' = Fresh(n) \/ wr_buf' = wr_buf
    BY <1>5 DEF Flushed
  <2> QED BY <1>2, <2>1, ConcatProperties
<1>6. CASE Past(n)
  <2>1. PICK taken \in Taken(Len(wr_buf)) :
          \/ /\ wr_buf' = <<>>
             /\ \E straight \in Taken(n) :
                  sent' = sent \o wr_buf \o SubSeq(Fresh(n), 1, straight)
          \/ sent' = sent \o SubSeq(wr_buf, 1, taken) /\ wr_buf' = wr_buf
    BY <1>6 DEF Past
  <2>2. CASE wr_buf' = <<>> /\ \E straight \in Taken(n) :
               sent' = sent \o wr_buf \o SubSeq(Fresh(n), 1, straight)
    <3>1. PICK straight \in Taken(n) : sent' = sent \o wr_buf \o SubSeq(Fresh(n), 1, straight)
      BY <2>2
    <3>2. sent \o wr_buf \in Seq(S) /\ SubSeq(Fresh(n), 1, straight) \in Seq(S)
      BY <1>3, ConcatProperties
    <3> QED BY <2>2, <3>1, <3>2, ConcatProperties, EmptySeq
  <2>3. CASE sent' = sent \o SubSeq(wr_buf, 1, taken) /\ wr_buf' = wr_buf
    BY <1>2, <2>3, ConcatProperties
  <2> QED BY <2>1, <2>2, <2>3
<1> QED BY <1>4, <1>5, <1>6

LEMMA WriteHiddenInv ==
  ASSUME Inv, HiddenInv, NEW n \in Lengths, Write(n)
  PROVE  HiddenInv'
<1>1. n \in Nat /\ asked \in Nat /\ asked' = asked + n
  BY OutputAssumption DEF Write, Inv, ShapeInv
<1> DEFINE veiled == config.echo_mode = "off" /\ phase \in {"edit", "print"}
<1>2. ToSet(Fresh(n)) = (asked + 1)..(asked + n)
  <2>1. DOMAIN Fresh(n) = 1..n /\ \A i \in 1..n : Fresh(n)[i] = asked + i
    BY DEF Fresh
  <2>2. ASSUME NEW b \in (asked + 1)..(asked + n) PROVE \E i \in 1..n : b = asked + i
    <3>1. b - asked \in 1..n /\ b = asked + (b - asked)
      BY <1>1
    <3> QED BY <3>1
  <2>3. \A i \in 1..n : asked + i \in (asked + 1)..(asked + n)
    BY <1>1
  <2> QED BY <2>1, <2>2, <2>3 DEF ToSet
<1>3. hidden' = IF veiled THEN hidden \cup (asked + 1)..(asked + n) ELSE hidden
  BY <1>2 DEF Write
<1>4. hidden' \subseteq 1..asked' /\ Public \subseteq Public'
  BY <1>1, <1>3 DEF HiddenInv, Public
<1>5. wr_buf \in Seq(Public') /\ sent \in Seq(Public')
  BY <1>4, SeqMonotonic DEF HiddenInv
<1>6. wr_buf' \in Seq(Public') /\ sent' \in Seq(Public')
  <2>1. CASE Echoed
    <3>1. ~veiled
      BY <2>1 DEF Echoed, HiddenInv
    <3>2. \A i \in 1..n : asked + i \in Public'
      BY <1>1, <1>3, <3>1 DEF Public, HiddenInv
    <3>3. Fresh(n) \in Seq(Public')
      BY <1>1, <3>2, IsASeq DEF Fresh
    <3> QED BY <1>1, <1>5, <2>1, <3>3, WriteHides DEF Write
  <2>2. CASE ~Echoed
    BY <1>5, <2>2 DEF Write
  <2> QED BY <2>1, <2>2
<1>7. phase' \in {"edit", "print"} => phase \in {"edit", "print"}
  BY DEF Write
<1> QED BY <1>4, <1>6, <1>7 DEF Write, HiddenInv

LEMMA HiddenNext == Inv /\ HiddenInv /\ [Next]_vars => HiddenInv'
<1> SUFFICES ASSUME Inv, HiddenInv, [Next]_vars PROVE HiddenInv'
  OBVIOUS
<1>1. ASSUME NEW n \in Lengths, Write(n) PROVE HiddenInv'
  BY <1>1, WriteHiddenInv
<1>2. CASE Shown \/ BeginEdit \/ Return
  <2>1. PICK taken : Flush(taken)
    BY <1>2 DEF Shown, BeginEdit, Return
  <2>2. wr_buf' \in Seq(Public) /\ sent' \in Seq(Public)
    BY <2>1, FlushHides
  <2>3. Public' = Public /\ hidden' = hidden /\ asked' = asked
    BY <1>2 DEF Shown, BeginEdit, Return, Public
  <2>4. phase' \in {"edit", "print"} => echo_enabled' = (config'.echo_mode # "off")
    BY <1>2 DEF Shown, BeginEdit, Return, HiddenInv
  <2> QED BY <2>2, <2>3, <2>4 DEF HiddenInv
<1>3. CASE BeginDeinit
  <2>1. 0 \in Public /\ Public' = Public
    BY <1>3 DEF BeginDeinit, HiddenInv, Public, Inv, ShapeInv
  <2>2. Wiped(wr_buf) \in Seq(Public)
    <3>1. Len(wr_buf) \in Nat
      BY LenProperties DEF Inv, ShapeInv
    <3>2. [i \in 1..Len(wr_buf) |-> 0] \in Seq(Public)
      BY <2>1, <3>1, IsASeq
    <3> QED BY <3>2 DEF Wiped, Nul, HiddenInv
  <2> QED BY <1>3, <2>1, <2>2 DEF BeginDeinit, HiddenInv
<1>4. CASE NewCall
  BY <1>4 DEF NewCall, HiddenInv, Public
<1>5. CASE UNCHANGED vars
  BY <1>5 DEF vars, HiddenInv, Public
<1> QED BY <1>1, <1>2, <1>3, <1>4, <1>5 DEF Next

(* No byte printed while the echo is off reaches the echo file, however      *)
(* writes fail or are cut short, what later calls do, and although deinit    *)
(* flushes the same buffer with the echo on again.                           *)
THEOREM NothingHiddenShows == Spec => []NothingHidden
<1>1. HiddenInv => NothingHidden
  <2> SUFFICES ASSUME HiddenInv PROVE hidden \cap ToSet(sent) = {}
    BY DEF NothingHidden
  <2>1. DOMAIN sent = 1..Len(sent) /\ \A i \in 1..Len(sent) : sent[i] \in Public
    BY LenProperties, ElementOfSeq DEF HiddenInv
  <2> QED BY <2>1 DEF ToSet, Public
<1> QED BY InvInit, InvNext, HiddenInit, HiddenNext, <1>1, PTL DEF Spec
=============================================================================
