------------------------------- MODULE Output -------------------------------
(***************************************************************************)
(* The output side of io.c: the write buffer between whoever prints (init, *)
(* the renderer, deinit) and the echo file, over several calls of nanorl().*)
(*                                                                         *)
(* Every byte a caller asks to print is a number of its own, so that a     *)
(* byte printed twice, too early or never can be told.                     *)
(***************************************************************************)
EXTENDS Integers, Sequences, SequencesExt

CONSTANTS
  BufSize,      \* IO_BUF_SIZE
  Configs,      \* what nanorl() may be called with: the echo mode, and an echo file
                \* whose write() may fail (and write nothing) or be short
  Lengths,      \* lengths of what callers print
  MaxBytes, Calls   \* bounds of the model

ASSUME OutputAssumption ==
  /\ BufSize \in Nat \ {0}
  /\ Configs \subseteq [echo_mode : {"off", "on", "obscured"},
                         fails : BOOLEAN, short : BOOLEAN]
  /\ Lengths \subseteq Nat
  /\ {MaxBytes, Calls} \subseteq Nat

VARIABLES
  config,         \* the argument of the present call
  wr_buf,         \* the first wr_count bytes of it
  echo_enabled,
  phase,          \* "init", "edit", "print", "wiped" or "out"
  call,
  asked,          \* history: the number of bytes callers have asked for
  accepted,       \* history: those that were buffered or written for good
  hidden,         \* history: those asked for while nothing may be echoed
  sent            \* history: what has reached the echo file

vars == <<config, wr_buf, echo_enabled, phase, call, asked, accepted, hidden, sent>>

Nul == 0

Init ==
  /\ config \in Configs
  /\ wr_buf = <<>> /\ echo_enabled = TRUE
  /\ phase = "init" /\ call = 1
  /\ asked = 0 /\ accepted = <<>> /\ hidden = {} /\ sent = <<>>

-----------------------------------------------------------------------------
(* How many of n bytes one write() takes. *)
Taken(n) ==
  {n} \cup (IF config.fails THEN {0} ELSE {})
      \cup (IF config.short THEN 1..(n - 1) ELSE {})

(* What nrl_io_flush leaves in the buffer. *)
Left(buf, taken) == IF taken = Len(buf) THEN <<>> ELSE buf

(* Mutant of Overflows: off by one. *)
OverflowsLate(n) == Len(wr_buf) + n > BufSize + 1

(* "Will overflow buffer" *)
Overflows(n) == Len(wr_buf) + n > BufSize

Fresh(n) == [i \in 1..n |-> asked + i]

(* nrl_io_write while echo is on: the data fits; it fits once the buffer is  *)
(* flushed; it goes out past the buffer; or the flush fails and it is lost.  *)
Buffered(n) ==
  /\ ~Overflows(n)
  /\ wr_buf' = wr_buf \o Fresh(n)
  /\ accepted' = accepted \o Fresh(n)
  /\ UNCHANGED sent

Flushed(n) ==
  /\ Overflows(n) /\ n <= BufSize
  /\ \E taken \in Taken(Len(wr_buf)) :
       LET done == taken = Len(wr_buf)
       IN  /\ sent' = sent \o SubSeq(wr_buf, 1, taken)
           /\ wr_buf' = IF done THEN Fresh(n) ELSE wr_buf
           /\ accepted' = IF done THEN accepted \o Fresh(n) ELSE accepted

(* Mutant of Past: what was printed before stays behind. *)
PastUnflushed(n) ==
  /\ Overflows(n) /\ n > BufSize
  /\ sent' = sent \o Fresh(n) /\ accepted' = accepted \o Fresh(n)
  /\ UNCHANGED wr_buf

Past(n) ==
  /\ Overflows(n) /\ n > BufSize
  /\ \E taken \in Taken(Len(wr_buf)) :
       IF taken = Len(wr_buf)
       THEN \E straight \in Taken(n) :
              /\ wr_buf' = <<>>
              /\ sent' = sent \o wr_buf \o SubSeq(Fresh(n), 1, straight)
              /\ accepted' = accepted \o SubSeq(Fresh(n), 1, straight)
       ELSE /\ sent' = sent \o SubSeq(wr_buf, 1, taken)
            /\ UNCHANGED <<wr_buf, accepted>>

(* Mutant of Echoed: the state of echo_enabled is not looked at. *)
EchoedAlways == TRUE

Echoed == echo_enabled

(* Printing: by init, by the renderer in the main loop, and by deinit.  A    *)
(* refused write ends init and deinit; the renderer does not look.           *)
Write(n) ==
  /\ phase \in {"init", "edit", "print", "wiped"}
  /\ asked + n <= MaxBytes
  /\ asked' = asked + n
  /\ IF Echoed THEN Buffered(n) \/ Flushed(n) \/ Past(n)
     ELSE UNCHANGED <<wr_buf, accepted, sent>>
  /\ hidden' = IF config.echo_mode = "off" /\ phase \in {"edit", "print"}
               THEN hidden \cup ToSet(Fresh(n)) ELSE hidden
  /\ phase' = CASE phase \in {"edit", "print"} -> "print"
                [] OTHER -> IF accepted' = accepted \o Fresh(n) THEN phase ELSE "out"
  /\ UNCHANGED <<config, echo_enabled, call>>

(* nrl_io_flush, and how it went *)
Flush(taken) ==
  /\ taken \in Taken(Len(wr_buf))
  /\ sent' = sent \o SubSeq(wr_buf, 1, taken)
  /\ wr_buf' = Left(wr_buf, taken)

(* Every redraw and every cursor motion ends in a flush. *)
Shown ==
  /\ phase = "print"
  /\ \E taken \in 0..BufSize : Flush(taken)
  /\ phase' = "edit"
  /\ UNCHANGED <<config, echo_enabled, call, asked, accepted, hidden>>

(* The end of init: echo as the mode says, and a flush that must succeed. *)
BeginEdit ==
  /\ phase = "init"
  /\ echo_enabled' = (config.echo_mode # "off")
  /\ \E taken \in 0..BufSize :
       /\ Flush(taken)
       /\ phase' = IF taken = Len(wr_buf) THEN "edit" ELSE "out"
  /\ UNCHANGED <<config, call, asked, accepted, hidden>>

(* nrl_io_wipe_buffers clears the bytes, and wr_count stays. *)
Wiped(buf) == IF config.echo_mode = "on" THEN buf ELSE [i \in 1..Len(buf) |-> Nul]

(* deinit, up to its farewell *)
BeginDeinit ==
  /\ phase = "edit"
  /\ wr_buf' = Wiped(wr_buf)
  /\ echo_enabled' = TRUE
  /\ phase' = "wiped"
  /\ UNCHANGED <<config, call, asked, accepted, hidden, sent>>

Return ==
  /\ phase = "wiped"
  /\ \E taken \in 0..BufSize : Flush(taken)
  /\ phase' = "out"
  /\ UNCHANGED <<config, echo_enabled, call, asked, accepted, hidden>>

(* nrl_io_init of the next call: what is left in the buffer is dropped. *)
NewCall ==
  /\ phase = "out" /\ call < Calls
  /\ call' = call + 1
  /\ config' \in Configs
  /\ wr_buf' = <<>> /\ echo_enabled' = TRUE
  /\ accepted' = sent
  /\ phase' = "init"
  /\ UNCHANGED <<asked, hidden, sent>>

Next ==
  \/ \E n \in Lengths : Write(n)
  \/ Shown
  \/ BeginEdit
  \/ BeginDeinit
  \/ Return
  \/ NewCall

Spec == Init /\ [][Next]_vars

-----------------------------------------------------------------------------
(* The write buffer holds at most IO_BUF_SIZE bytes: nrl_io_write copies     *)
(* without any other check.                                                  *)
TypeOK ==
  /\ Len(wr_buf) <= BufSize
  /\ echo_enabled \in BOOLEAN
  /\ phase \in {"init", "edit", "print", "wiped", "out"}

(* write() takes all of what it is given or none of it, and none of it only  *)
(* where the pending output is not going to be wiped.                        *)
Reliable == ~config.short /\ (config.echo_mode = "on" \/ ~config.fails)

(* What was printed and what is still buffered are, in this order, exactly   *)
(* what callers were told is printed: long texts that go past the buffer,    *)
(* failed writes and retries lose, repeat and reorder nothing.               *)
Delivered == Reliable => sent \o wr_buf = accepted

(* With NRL_ECHO_OFF nothing the renderer prints reaches the echo file, not  *)
(* even later, when deinit switches echo on again.                           *)
NothingHidden == hidden \cap ToSet(sent) = {}
=============================================================================
