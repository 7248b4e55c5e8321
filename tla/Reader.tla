------------------------------- MODULE Reader -------------------------------
(***************************************************************************)
(* The input side: io.c's read buffer, the escape-sequence parser of       *)
(* dfa.c and the decoding of one character, between a file descriptor that *)
(* delivers its bytes in pieces of any size and the events that the main   *)
(* loop of nanorl() handles.                                               *)
(*                                                                         *)
(* The tree of dfa.c is the set of prefixes of the known key sequences;    *)
(* bytes are members of a small set.                                       *)
(***************************************************************************)
EXTENDS Integers, Sequences, SequencesExt

CONSTANTS
  Byte,         \* input bytes
  EOT, Newline, Nul,
  Control,      \* the bytes printed as "^X", EOT and Newline among them
  LeadLen,      \* utf8_inspect: how long a character is that starts with this byte
  Cont,         \* UTF-8 continuation bytes
  Keys,         \* key sequences of the terminal; {} when TERM is unknown
  BufSize,      \* IO_BUF_SIZE
  Streams,      \* what may be typed or piped
  Preloads,     \* what may be preloaded: byte sequences, or NoPreload
  NoPreload,
  Interrupts,   \* whether a signal may interrupt a read()
  Sessions      \* bound of the model: calls of nanorl()

ASSUME ReaderAssumption ==
  /\ BufSize \in Nat /\ BufSize >= 4
  /\ LeadLen \in [Byte -> 1..4]
  /\ {EOT, Newline, Nul} \subseteq Byte
  /\ Streams \subseteq Seq(Byte)
  /\ Preloads \ {NoPreload} \subseteq Seq(Byte)
  /\ NoPreload \notin Seq(Byte)
  /\ Sessions \in Nat

(* "The sequence size is negligible relative to the buffer size", and no     *)
(* key sequence continues another.                                           *)
ASSUME KeyAssumption ==
  /\ Keys \subseteq Seq(Byte)
  /\ \A k \in Keys : Len(k) \in 1..BufSize
  /\ \A k, l \in Keys : IsPrefix(k, l) => k = l

VARIABLES
  input,        \* what read() has yet to deliver
  preload,      \* preload_data
  rd_buf, rd_count, rd_used, rd_pending,
  path,         \* the edges from the root of the tree to trav
  uchars,       \* the buffer of next_uchar
  pc,           \* "idle", or what the running nrl_io_read is doing
  session,
  fed,          \* history: the bytes read_wrapper has returned
  events,       \* history: what the reader has returned
  taken,        \* history: the bytes that these events stand for
  opened        \* history: how long these three were when the session began

source  == <<input, preload, fed>>
counts  == <<rd_count, rd_used, rd_pending>>
parsing == <<path, uchars>>
calls   == <<session, opened>>
vars    == <<source, rd_buf, counts, parsing, pc, calls, events, taken>>

-----------------------------------------------------------------------------
Init ==
  /\ input \in Streams
  /\ preload \in Preloads
  /\ rd_buf = [i \in 0..(BufSize - 1) |-> Nul]
  /\ rd_count = 0 /\ rd_used = 0 /\ rd_pending = 0
  /\ path = <<>> /\ uchars = <<>>
  /\ pc = "idle"
  /\ session = 1
  /\ fed = <<>> /\ events = <<>> /\ taken = <<>>
  /\ opened = [fed |-> 0, events |-> 0, taken |-> 0]

(* Mutant of Stored: what a refill brings overwrites what is kept. *)
StoredAtStart(buf, at, bytes) ==
  [i \in DOMAIN buf |-> IF i < Len(bytes) THEN bytes[i + 1] ELSE buf[i]]

(* bytes stored in buf from index "at" on *)
Stored(buf, at, bytes) ==
  [i \in DOMAIN buf |-> IF i \in at..(at + Len(bytes) - 1) THEN bytes[i - at + 1] ELSE buf[i]]

Deliver(buf, at, bytes) ==
  /\ rd_buf' = Stored(buf, at, bytes)
  /\ rd_count' = at + Len(bytes)
  /\ fed' = fed \o bytes

(* Mutant of EndMark: a read of zero bytes is passed on as it is. *)
NoMark == <<>>

(* What the caller gets when read() returns nothing or fails. *)
EndMark == <<EOT>>

(* Mutant of Room: a refill may bring as much as a whole buffer. *)
RoomWhole(at) == BufSize

Room(at) == BufSize - at

(* read_wrapper: the preload first, then the file; the end of the file, an   *)
(* error and an interrupted read all look like Ctrl-D.                       *)
ReadWrapper(buf, at) ==
  LET room == Room(at)
  IN  \/ /\ preload # NoPreload
         /\ LET n == IF Len(preload) > room THEN room ELSE Len(preload)
            IN  /\ Deliver(buf, at, SubSeq(preload, 1, n))
                /\ preload' = IF Len(preload) > room
                              THEN SubSeq(preload, n + 1, Len(preload)) ELSE NoPreload
         /\ UNCHANGED input
      \/ /\ preload = NoPreload
         /\ \E n \in 1..room :
              /\ n <= Len(input)
              /\ Deliver(buf, at, SubSeq(input, 1, n))
              /\ input' = SubSeq(input, n + 1, Len(input))
         /\ UNCHANGED preload
      \/ /\ preload = NoPreload
         /\ input = <<>> \/ Interrupts
         /\ Deliver(buf, at, EndMark)
         /\ UNCHANGED <<input, preload>>

(* memmove(rd_buf, rd_buf + rd_count, rd_pending): the bytes come from after *)
(* the data, and from after the buffer where it is full.                     *)
Moved(buf, beyond) ==
  [i \in DOMAIN buf |->
     IF i >= rd_pending THEN buf[i]
     ELSE IF rd_count + i < BufSize THEN buf[rd_count + i] ELSE beyond]

Starved == rd_used + rd_pending = rd_count

(* next_char with no byte left: one read, then it looks again. *)
Refill ==
  /\ pc \in {"dfa", "uchar"}
  /\ Starved
  /\ \E beyond \in Byte : ReadWrapper(Moved(rd_buf, beyond), rd_pending)
  /\ rd_used' = 0
  /\ UNCHANGED <<rd_pending, parsing, pc, calls, events, taken>>

(* Mutant of NextByte: the bytes of the running parse are not skipped. *)
NextByteAgain == rd_buf[rd_used]

NextByte == rd_buf[rd_used + rd_pending]

-----------------------------------------------------------------------------
(* nrl_dfa_parse *)

Node(p) == \E k \in Keys : IsPrefix(p, k)

(* Mutant of Leaf: a key is recognised by the byte that follows it. *)
LeafLate(p) == p # <<>> /\ Front(p) \in Keys

Leaf(p) == p \in Keys

StartRead ==
  /\ pc = "idle"
  /\ path' = <<>>
  /\ pc' = IF Keys = {} THEN "empty" ELSE "dfa"
  /\ UNCHANGED <<source, rd_buf, counts, uchars, calls, events, taken>>

(* An edge to an inner node, or none: back to where the parse began. *)
DfaStep ==
  /\ pc = "dfa" /\ ~Starved
  /\ LET p == Append(path, NextByte)
     IN  /\ ~Leaf(p)
         /\ path' = p
         /\ pc' = IF Node(p) THEN "dfa" ELSE "empty"
  /\ rd_pending' = rd_pending + 1
  /\ UNCHANGED <<source, rd_buf, rd_count, rd_used, uchars, calls, events, taken>>

DfaAccept ==
  /\ pc = "dfa" /\ ~Starved
  /\ LET p == Append(path, NextByte)
     IN  /\ Leaf(p)
         /\ path' = p
         /\ events' = Append(events, [type |-> "escape", value |-> p])
         /\ taken' = taken \o p
  /\ rd_used' = rd_used + rd_pending + 1
  /\ rd_pending' = 0
  /\ pc' = "idle"
  /\ UNCHANGED <<source, rd_buf, rd_count, uchars, calls>>

-----------------------------------------------------------------------------
(* The rest of nrl_io_read, and next_uchar *)

(* Without a tree nothing has been read yet. *)
ReadPlain ==
  /\ pc = "empty"
  /\ rd_count = rd_used
  /\ ReadWrapper(rd_buf, 0)
  /\ rd_used' = 0 /\ rd_pending' = 0
  /\ uchars' = <<>>
  /\ pc' = "uchar"
  /\ UNCHANGED <<path, calls, events, taken>>

StartUchar ==
  /\ pc = "empty"
  /\ rd_count # rd_used
  /\ rd_pending' = 0
  /\ uchars' = <<>>
  /\ pc' = "uchar"
  /\ UNCHANGED <<source, rd_buf, rd_count, rd_used, path, calls, events, taken>>

UcharStep ==
  /\ pc = "uchar" /\ ~Starved
  /\ LET u == Append(uchars, NextByte)
     IN  /\ Len(u) < LeadLen[u[1]]
         /\ uchars' = u
  /\ rd_pending' = rd_pending + 1
  /\ UNCHANGED <<source, rd_buf, rd_count, rd_used, path, pc, calls, events, taken>>

Valid(u) == u[1] \notin Cont /\ \A i \in 2..Len(u) : u[i] \in Cont

(* nrl_io_read's answer for one decoded character. *)
CharEvent(u) ==
  IF ~Valid(u)                     THEN [type |-> "text", value |-> <<"error">>]
  ELSE IF u \in {<<Newline>>, <<EOT>>} THEN [type |-> "stop", value |-> u]
  ELSE IF u[1] \in Control         THEN [type |-> "text", value |-> <<"^">> \o u]
  ELSE                                  [type |-> "text", value |-> u]

(* Mutant of Consumed: what is no character is not skipped. *)
ConsumedNone(u) == IF Valid(u) THEN Len(u) ELSE 0

(* Mutant of Consumed: one byte too many. *)
ConsumedOver(u) == Len(u) + 1

(* A byte sequence that is no character is skipped one byte at a time. *)
Consumed(u) == IF Valid(u) THEN Len(u) ELSE 1

(* The bytes that the event of u stands for. *)
Bytes(u) == IF Valid(u) THEN u ELSE <<u[1]>>

UcharDone ==
  /\ pc = "uchar" /\ ~Starved
  /\ LET u == Append(uchars, NextByte)
     IN  /\ Len(u) >= LeadLen[u[1]]
         /\ uchars' = u
         /\ rd_used' = rd_used + Consumed(u)
         /\ events' = Append(events, CharEvent(u))
         /\ taken' = taken \o Bytes(u)
         /\ pc' = IF CharEvent(u).type = "stop" THEN "done" ELSE "idle"
  /\ rd_pending' = 0
  /\ UNCHANGED <<source, rd_buf, rd_count, path, calls>>

(* Mutant of CountersReset: the next call goes on where this one stopped. *)
CountersKept == UNCHANGED counts

CountersReset == rd_count' = 0 /\ rd_used' = 0 /\ rd_pending' = 0

(* nrl_io_init for the next call of nanorl(): the counters are reset, the    *)
(* bytes stay in the buffer.                                                 *)
NewSession ==
  /\ pc = "done"
  /\ session < Sessions
  /\ session' = session + 1
  /\ opened' = [fed |-> Len(fed), events |-> Len(events), taken |-> Len(taken)]
  /\ preload' \in Preloads
  /\ CountersReset
  /\ pc' = "idle"
  /\ UNCHANGED <<input, fed, rd_buf, parsing, events, taken>>

-----------------------------------------------------------------------------
Next ==
  \/ StartRead
  \/ Refill
  \/ DfaStep
  \/ DfaAccept
  \/ ReadPlain
  \/ StartUchar
  \/ UcharStep
  \/ UcharDone
  \/ NewSession

Spec == Init /\ [][Next]_vars

(* A call runs on by itself, and a read() returns: the input is a file or a  *)
(* pipe whose writer has finished, so there is always a byte or the end.     *)
LiveSpec == Spec /\ WF_vars(Next /\ UNCHANGED session)

-----------------------------------------------------------------------------
(* What the bytes mean, however they arrive. *)

Min2(x, y) == IF x < y THEN x ELSE y

(* The piece that starts at index i and is one event: a key, a character, or *)
(* one byte of what is neither.                                              *)
PieceAt(s, i) ==
  LET rest == SubSeq(s, i, Len(s))
      keys == {k \in Keys : IsPrefix(k, rest)}
      u    == SubSeq(rest, 1, Min2(LeadLen[rest[1]], Len(rest)))
  IN  IF keys # {}
      THEN LET k == CHOOSE k \in keys : TRUE
           IN  [size |-> Len(k), event |-> [type |-> "escape", value |-> k]]
      ELSE [size |-> Consumed(u), event |-> CharEvent(u)]

(* The events that begin among the first n bytes of s. *)
Decode(s, n) ==
  LET from[i \in 1..(Len(s) + 1)] ==
        IF i > n THEN <<>>
        ELSE <<PieceAt(s, i).event>> \o from[i + PieceAt(s, i).size]
  IN  from[1]

(* The bytes of the buffer that no event stands for yet. *)
Window == [i \in 1..(rd_count - rd_used) |-> rd_buf[rd_used + i - 1]]

(* All bytes read but for as many: those of the events, and those that a     *)
(* call held when it ended and that the next one dropped.                    *)
Decoded == SubSeq(fed, 1, Len(fed) - (rd_count - rd_used))

(* The same bytes as they were read. *)
Undecoded == SubSeq(fed, Len(fed) - rd_count + rd_used + 1, Len(fed))

(* What read_wrapper has yet to deliver. *)
Rest == (IF preload = NoPreload THEN <<>> ELSE preload) \o input

(* The condition under which memmove does no harm: wherever the input is     *)
(* taken up, it goes on with a key, or with a character that begins no key   *)
(* and is valid or at most two bytes long; and nothing interrupts a read.    *)
Whole(s) ==
  s # <<>> => \/ \E k \in Keys : IsPrefix(k, s)
              \/ /\ ~Node(<<s[1]>>)
                 /\ LeadLen[s[1]] <= Len(s)
                 /\ LeadLen[s[1]] <= 2 \/ Valid(SubSeq(s, 1, LeadLen[s[1]]))

(* Ctrl-D is a character by itself, and no part of a key. *)
EndIsPlain ==
  /\ LeadLen[EOT] = 1 /\ EOT \notin Cont
  /\ \A k \in Keys : \A i \in 1..Len(k) : k[i] # EOT

Tails(s) == {SubSeq(s, i, Len(s)) : i \in 1..(Len(s) + 1)}

Inputs == UNION {Tails(s) : s \in Streams}

TakenUp == {p \o s : p \in (Preloads \ {NoPreload}) \cup {<<>>}, s \in Inputs}

WholeInput ==
  /\ ~Interrupts
  /\ \A s \in (UNION {Tails(t) : t \in TakenUp}) \cup {<<EOT>>} : Whole(s)

-----------------------------------------------------------------------------
(* The counters of the read buffer are ordered and inside it. *)
TypeOK ==
  /\ rd_used \in Nat /\ rd_pending \in Nat /\ rd_count \in 0..BufSize
  /\ pc \in {"idle", "dfa", "empty", "uchar", "done"}

(* next_char indexes rd_buf without a check and refills behind the bytes of  *)
(* an unfinished parse: it never reads past the data, and read_wrapper is    *)
(* never asked for zero bytes (its assert(count > 0)), which would look      *)
(* like the end of the file.                                                 *)
ReadsInBounds ==
  /\ rd_used + rd_pending <= rd_count
  /\ pc \in {"dfa", "uchar"} /\ Starved => rd_pending < BufSize

(* Between two calls of nrl_io_read every byte that this call of nanorl() has *)
(* read is in one of its events or still in the buffer, once and in order:    *)
(* pieces, refills in the middle of a sequence and failed parses neither      *)
(* lose, repeat nor change a byte.                                            *)
NoByteLost ==
  pc \in {"idle", "done"} =>
    SubSeq(fed, opened.fed + 1, Len(fed))
      = SubSeq(taken, opened.taken + 1, Len(taken)) \o Window

(* The same over all calls, that what is piped in arrives in one of them, is *)
(* not what the code does: nrl_io_init drops what was read ahead.            *)
NothingDropped == pc \in {"idle", "done"} => fed = taken \o Window

(* The events of one call of nanorl() depend on the bytes read during that   *)
(* call alone: not on how read() cuts them up, and not on bytes that an      *)
(* earlier call left in the static buffer.                                   *)
EventsFaithful ==
  pc \in {"idle", "done"} =>
    SubSeq(events, opened.events + 1, Len(events))
      = Decode(SubSeq(fed, opened.fed + 1, Len(fed)), Len(Decoded) - opened.fed)

(* nrl_io_read waits for input only while the bytes at hand are not yet an   *)
(* event: no key or character waits for the byte after it.                   *)
WaitsOnlyIfIncomplete ==
  pc \in {"dfa", "uchar"} /\ Starved =>
    /\ Undecoded \notin Keys
    /\ Undecoded # <<>> => \/ \E k \in Keys : IsStrictPrefix(Undecoded, k)
                           \/ Len(Undecoded) < LeadLen[Undecoded[1]]

(* How far a call is from its end: the bytes up to the Ctrl-D that ends it at *)
(* the latest, what nrl_io_read has still to go through for an event, and     *)
(* next_char for a byte.                                                      *)
FirstEOT(s) ==
  CHOOSE n \in 1..Len(s) : s[n] = EOT /\ \A i \in 1..(n - 1) : s[i] # EOT

ToEnd == IF pc = "done" THEN 0 ELSE FirstEOT(Undecoded \o (Rest \o <<EOT>>))

ToEvent == [idle |-> 4, dfa |-> 3, empty |-> 2, uchar |-> 1, done |-> 0][pc]

ToByte ==
  3 * (BufSize - rd_pending)
    + IF ~Starved THEN 0 ELSE IF preload = NoPreload THEN 1 ELSE 2

GetsNearer ==
  session' = session =>
    \/ ToEnd' < ToEnd
    \/ ToEnd' = ToEnd /\ ToEvent' < ToEvent
    \/ ToEnd' = ToEnd /\ ToEvent' = ToEvent /\ ToByte' < ToByte

(* No step of a call is in vain: each brings its end nearer, be it a refill, *)
(* a failed parse, a byte that is skipped or the Ctrl-D of an interrupted    *)
(* read.  So a call cannot go round in circles (parse, fall back, parse).    *)
EveryStepCounts == [][GetsNearer]_vars

(* Every call returns: the end of the input or an interrupted read ends it,  *)
(* also in the middle of a character, and in the call after that again.      *)
CallEnds == (pc # "done") ~> (pc = "done")
=============================================================================
