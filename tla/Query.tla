-------------------------------- MODULE Query -------------------------------
(***************************************************************************)
(* How the renderer learns where it is: query_cursor and query_size of     *)
(* render.c, called by nrl_render_init and, after a resize, by a redraw.   *)
(* The answer of the terminal comes through the channel of the keys.       *)
(*                                                                         *)
(* The library, the terminal and the user are three processes.  What is    *)
(* drawn is abstracted to the place where the drawing leaves the cursor,   *)
(* any place of the screen as the library knows it; Editor computes it.    *)
(* The terminal is smart and the echo mode is not "off".                   *)
(***************************************************************************)
EXTENDS Format

CONSTANTS
  CursorAddress, User6, User7,  \* specials of terminfo.c; User7 asks for a report
  Far,            \* 9999 of query_size
  Sizes,          \* the sizes a screen may have
  Ioctls,         \* whether TIOCGWINSZ may work
  BufSize,        \* CPR_RES_BUF_SIZE
  Garbage,        \* what an uninitialised int32_t may hold
  Pipe,           \* whether read_file is no terminal, and the contents it then has
  Contents,
  Text, Motion,   \* keys: one that makes the line dirty, one that moves the cursor
  TypeAt,         \* where the library may be ("place") when a key is typed,
  ResizeAt,       \* the terminal is resized,
  InterruptAt,    \* a signal interrupts a read
  FailAt,         \* or a write fails
  MaxKeys, MaxResizes, MaxFaults   \* bounds of the model

Places == {"init", "idle", "ahead", "redraw", "query"}

Command(pos) == FormatString(CursorAddress, pos.row, pos.col).out

ASSUME QueryAssumption ==
  /\ Far \in Nat /\ Sizes \subseteq [row : 1..Far, col : 1..Far] /\ Ioctls \subseteq BOOLEAN
  /\ BufSize \in Nat \ {0} /\ Garbage \subseteq Int
  /\ Contents \subseteq Seq({Text, Motion}) /\ (~Pipe => Contents \subseteq {<<>>})
  /\ TypeAt \cup ResizeAt \cup InterruptAt \cup FailAt \subseteq Places
  /\ FormatString(CursorAddress, 0, 0).ok /\ User6 # <<>>

VARIABLES
  cursor_pos, term_size, resize_flag,   \* statics of render.c
  asking,         \* which query_cursor: of "cursor_pos", "saved_pos" or "end_pos"
  saved_pos, res_buf,
  pc,
  buffered,       \* wr_buf: the commands of writes that failed
  output,         \* commands on their way to the terminal
  input, closed,  \* bytes on their way to read(), and whether no more can come
  at, size, ioctl,  \* the terminal: its cursor, its dimensions, whether TIOCGWINSZ works
  begun,          \* nrl_render_init is over
  typed, keys, resizes,   \* history: what was read as keys; how many of either
  crossed,                \* history: one of them came between a query and its answer
  faults                  \* history: how many writes failed and reads were interrupted

known    == <<cursor_pos, term_size, resize_flag>>
local    == <<asking, saved_pos, res_buf>>
terminal == <<at, size, ioctl>>
channel  == <<buffered, output, input, closed>>
bounds   == <<typed, keys, resizes, crossed>>
vars     == <<known, local, pc, channel, terminal, begun, bounds, faults>>

Origin == [row |-> 0, col |-> 0]
OnScreen(s) == [row : 0..(s.row - 1), col : 0..(s.col - 1)]
Min2(x, y) == IF x < y THEN x ELSE y
Clamped(p, s) == [row |-> Min2(p.row, s.row - 1), col |-> Min2(p.col, s.col - 1)]

place ==
  CASE ~begun                          -> "init"
    [] begun /\ pc = "idle"            -> IF input = <<>> THEN "idle" ELSE "ahead"
    [] begun /\ pc = "redraw"          -> "redraw"
    [] begun /\ pc \notin {"idle", "redraw"} -> "query"

Init ==
  /\ cursor_pos = Origin /\ term_size = Origin /\ resize_flag = FALSE
  /\ asking = "cursor_pos" /\ saved_pos = Origin /\ res_buf = <<>>
  /\ pc = "request"
  /\ buffered = <<>> /\ output = <<>>
  /\ input \in Contents /\ closed = Pipe
  /\ size \in Sizes /\ ioctl \in Ioctls
  /\ at \in OnScreen(size)
  /\ begun = FALSE
  /\ typed = <<>> /\ keys = 0 /\ resizes = 0 /\ crossed = FALSE /\ faults = 0

-----------------------------------------------------------------------------
(* nrl_io_write and nrl_io_flush.  A write that fails takes nothing, and what *)
(* it was given stays in wr_buf for the next flush.  Short writes are left to *)
(* Output.                                                                    *)

(* Mutant of Flushed: wr_count is not reset. *)
FlushedAgain(cmd) == output' = output \o Append(buffered, cmd) /\ buffered' = Append(buffered, cmd)

Flushed(cmd) == output' = output \o Append(buffered, cmd) /\ buffered' = <<>>

Fault(where) == place \in where /\ faults < MaxFaults /\ faults' = faults + 1

Sent(cmd) == Flushed(cmd) /\ UNCHANGED faults

Unsent(cmd) == Fault(FailAt) /\ buffered' = Append(buffered, cmd) /\ UNCHANGED output

-----------------------------------------------------------------------------
(* query_size, and the two callers *)

Ask(what) == asking' = what /\ pc' = "request"

Grow(pos) == [row |-> pos.row + 1, col |-> pos.col + 1]

Finish == pc' = (IF begun THEN "draw" ELSE "idle") /\ begun' = TRUE

(* query_size returns false: init fails, a redraw does not look. *)
GiveUp == IF begun THEN Finish ELSE pc' = "failed" /\ UNCHANGED begun

MoveCursor2d(pos) == Sent(Command(pos)) /\ cursor_pos' = pos

MoveFails(pos) == Unsent(Command(pos)) /\ UNCHANGED cursor_pos

(* The start of query_size. *)
QuerySize ==
  IF ioctl
  THEN /\ term_size' = size
       /\ Finish
       /\ UNCHANGED asking
  ELSE Ask("saved_pos") /\ UNCHANGED <<term_size, begun>>

(* query_cursor returns false.  A redraw goes on with what it has. *)
QueryFails ==
  IF begun /\ asking = "cursor_pos"
  THEN QuerySize
  ELSE GiveUp /\ UNCHANGED <<asking, term_size>>

GotCursor(pos) ==
  /\ asking = "cursor_pos"
  /\ cursor_pos' = pos
  /\ QuerySize
  /\ UNCHANGED <<saved_pos, buffered, output, faults>>

GotSaved(pos) ==
  /\ asking = "saved_pos"
  /\ saved_pos' = pos
  /\ LET end_pos == [row |-> Far, col |-> Far]
     IN  \/ MoveCursor2d(end_pos) /\ Ask("end_pos") /\ UNCHANGED begun
         \/ MoveFails(end_pos) /\ GiveUp /\ UNCHANGED asking
  /\ UNCHANGED term_size

(* The answer goes to term_size at once, and is counted from 1 at the end. *)
GotEnd(pos) ==
  /\ asking = "end_pos"
  /\ \/ MoveCursor2d(saved_pos) /\ term_size' = Grow(pos) /\ Finish
     \/ MoveFails(saved_pos) /\ term_size' = pos /\ GiveUp
  /\ UNCHANGED <<asking, saved_pos>>

-----------------------------------------------------------------------------
(* query_cursor *)

(* Mutant of Cleared: the answers pile up. *)
ClearedNever == res_buf

Cleared == <<>>

Request ==
  /\ pc = "request"
  /\ \/ /\ Sent(User7)
        /\ pc' = "await"
        /\ UNCHANGED <<asking, term_size, begun>>
     \/ Unsent(User7) /\ QueryFails
  /\ res_buf' = Cleared
  /\ UNCHANGED <<cursor_pos, resize_flag, saved_pos, input, closed, terminal, bounds>>

(* Mutants of Complete: the first byte will do; the last one never comes. *)
CompleteAtOnce(buf) == buf # <<>>
CompleteByFirst(buf) == buf # <<>> /\ Last(buf) = Head(User6)

(* res_buf[res_size - 1] == last_char *)
Complete(buf) == buf # <<>> /\ Last(buf) = Last(User6)

(* How much a read() may return: 0 is the end of the input.  The whole size  *)
(* of the buffer is offered every time.                                      *)
Readable == IF input # <<>> THEN 1..Min2(BufSize, Len(input))
            ELSE IF closed THEN {0} ELSE {}

(* After a read() that brought nothing the test is at res_buf[0xFFFFFFFF], and *)
(* a report that does not fit is written behind the buffer.  Either may come   *)
(* to anything; "lost" is where this model stops following the program.        *)
Strayed(buf) == IF buf = <<>> THEN {"parse", "lost"} ELSE IF Len(buf) < BufSize THEN {} ELSE {"lost"}

ReadReport ==
  /\ pc = "await"
  /\ \E n \in Readable :
       /\ res_buf' = res_buf \o SubSeq(input, 1, n)
       /\ input' = SubSeq(input, n + 1, Len(input))
  /\ pc' \in {IF Complete(res_buf') THEN "parse" ELSE "await"} \cup Strayed(res_buf')
  /\ UNCHANGED <<known, asking, saved_pos, buffered, output, closed, terminal, begun, bounds, faults>>

(* Mutant of Negative: the column is not asked for. *)
NegativeRow(pos) == pos.row < 0

Negative(pos) == pos.row < 0 \/ pos.col < 0

(* What the two int32_t hold after the report was parsed: what they held     *)
(* before, where it does not match.  Nobody asks whether it did.             *)
Parsed2d(row, col) ==
  LET found == Parse2(User6, res_buf)
  IN  [row |-> IF Len(found) > 0 THEN found[1] ELSE row,
       col |-> IF Len(found) > 1 THEN found[2] ELSE col]

(* The end of query_cursor.  A negative number stops a debug build; in a     *)
(* release build it becomes an unsigned one that no screen has, which is not *)
(* followed here.                                                            *)
Answered ==
  /\ pc = "parse"
  /\ \E row, col \in Garbage :
       LET pos == Parsed2d(row, col)
       IN  IF Negative(pos)
           THEN /\ pc' = "lost"
                /\ UNCHANGED <<cursor_pos, term_size, asking, saved_pos, buffered, output, begun, faults>>
           ELSE GotCursor(pos) \/ GotSaved(pos) \/ GotEnd(pos)
  /\ UNCHANGED <<resize_flag, res_buf, input, closed, terminal, bounds>>

(* read() < 0 *)
Interrupted ==
  /\ pc = "await" /\ Fault(InterruptAt)
  /\ QueryFails
  /\ UNCHANGED <<cursor_pos, resize_flag, saved_pos, res_buf, channel, terminal, bounds>>

-----------------------------------------------------------------------------
(* The main loop between two queries *)

(* A write fails, and the last nrl_io_flush, which follows every motion and  *)
(* every redraw, sends what it left or fails like it.                        *)
MoveLate(pos) == Unsent(Command(pos)) \/ (Fault(FailAt) /\ Flushed(Command(pos)))

(* One read() of the reader and all that is done with its bytes; the line is *)
(* drawn once they are used up.                                              *)
ReadKeys ==
  /\ pc = "idle"
  /\ \E n \in 1..Len(input) :
       LET got == SubSeq(input, 1, n)
       IN  /\ typed' = typed \o got
           /\ input' = SubSeq(input, n + 1, Len(input))
           /\ IF Contains(got, Motion)
              THEN \E pos \in OnScreen(term_size) :
                     MoveCursor2d(pos) \/ (MoveLate(pos) /\ UNCHANGED cursor_pos)
              ELSE UNCHANGED <<buffered, output, cursor_pos, faults>>
           /\ pc' = IF ToSet(got) \subseteq {Motion} THEN "idle" ELSE "redraw"
  /\ UNCHANGED <<term_size, resize_flag, local, closed, terminal, begun, keys, resizes, crossed>>

(* nrl_render_redraw up to the drawing *)
Redraw ==
  /\ pc = "redraw"
  /\ IF resize_flag THEN Ask("cursor_pos") ELSE pc' = "draw" /\ UNCHANGED asking
  /\ UNCHANGED <<known, saved_pos, res_buf, channel, terminal, begun, bounds, faults>>

(* The rest of it.  After a motion that failed the sums go on from the old   *)
(* position.                                                                 *)
Draw ==
  /\ pc = "draw"
  /\ \E pos \in OnScreen(term_size) :
       MoveCursor2d(pos) \/ (MoveLate(pos) /\ cursor_pos' \in OnScreen(term_size))
  /\ resize_flag' = FALSE
  /\ pc' = "idle"
  /\ UNCHANGED <<term_size, local, input, closed, terminal, begun, bounds>>

(* The sums divide by the columns; a screen without rows is not followed     *)
(* either.                                                                   *)
DrawNowhere ==
  /\ pc = "draw" /\ OnScreen(term_size) = {}
  /\ pc' = "lost"
  /\ UNCHANGED <<known, local, channel, terminal, begun, bounds, faults>>

-----------------------------------------------------------------------------
(* The terminal (external).  It counts from 1. *)

Report == <<User6[1], at.row + 1, User6[4], at.col + 1, Last(User6)>>

Obey ==
  /\ output # <<>>
  /\ output' = Tail(output)
  /\ IF Head(output) = User7
     THEN /\ input' = IF Pipe THEN input ELSE input \o Report
          /\ UNCHANGED at
     ELSE /\ at' = Clamped([row |-> Head(output)[2] - 1, col |-> Head(output)[4] - 1], size)
          /\ UNCHANGED input
  /\ UNCHANGED <<known, local, pc, buffered, closed, size, ioctl, begun, bounds, faults>>

(* sigwinch_handler runs at once. *)
Resize ==
  /\ place \in ResizeAt /\ resizes < MaxResizes
  /\ size' \in Sizes \ {size}
  /\ at' = Clamped(at, size')
  /\ resize_flag' = TRUE
  /\ resizes' = resizes + 1
  /\ crossed' = (crossed \/ place \in {"ahead", "query"})
  /\ UNCHANGED <<cursor_pos, term_size, local, pc, channel, ioctl, begun, typed, keys, faults>>

Type ==
  /\ place \in TypeAt /\ keys < MaxKeys /\ ~closed
  /\ \E key \in {Text, Motion} : input' = Append(input, key)
  /\ keys' = keys + 1
  /\ crossed' = (crossed \/ place # "idle")
  /\ UNCHANGED <<known, local, pc, buffered, output, closed, terminal, begun, typed, resizes, faults>>

-----------------------------------------------------------------------------
Library ==
  \/ Request
  \/ ReadReport
  \/ Answered
  \/ ReadKeys
  \/ Redraw
  \/ Draw
  \/ DrawNowhere

Next == Library \/ Interrupted \/ Obey \/ Resize \/ Type

(* Where the library has something to do, or a byte to read. *)
Runnable ==
  \/ pc \in {"request", "parse", "redraw", "draw"}
  \/ pc \in {"await", "idle"} /\ input # <<>>

Spec == Init /\ [][Next]_vars

(* The library runs whenever it can (weak fairness, with Runnable for        *)
(* ENABLED), and a terminal obeys at last; nobody has to type, to resize or  *)
(* to send a signal.                                                         *)
FairSpec ==
  /\ Spec
  /\ []<>~Runnable \/ []<><<Library>>_vars
  /\ WF_vars(Obey)

-----------------------------------------------------------------------------
(* The shape of xterm's strings, which the terminal of this model obeys: a    *)
(* letter ends a report that occurs nowhere else in it and is no key, and the *)
(* request and a motion end in different ones.                                *)
XtermStrings ==
  /\ CursorAddress = <<CursorAddress[1], "%i", "%p1", "%d", CursorAddress[5], "%p2", "%d", CursorAddress[8]>>
  /\ User6 = <<User6[1], "%i", "%d", User6[4], "%d", User6[6]>>
  /\ \A i \in {1, 5, 8} : CursorAddress[i] \notin Directives
  /\ \A i \in {1, 4, 6} : User6[i] \notin Directives \cup Int
  /\ User6[6] \notin {User6[1], User6[4], Text, Motion}
  /\ Last(User7) # CursorAddress[8]

RoomForReport == 5 < BufSize

-----------------------------------------------------------------------------
(* Positions are natural numbers, whatever is read as a report.  The type    *)
(* invariant.                                                                *)
TypeOK ==
  /\ {cursor_pos, saved_pos, term_size} \subseteq [row : Nat, col : Nat]
  /\ pc \in {"request", "await", "parse", "idle", "redraw", "draw", "failed", "lost"}

(* Nothing has come between a query and its answer so far: no key typed       *)
(* ahead, no resize while the library asked, no signal and no failing write.  *)
Quiet == faults = 0 /\ ~crossed

(* What is taken for a report fits res_buf with its terminator, as the       *)
(* assertion behind the loop has it, although every read is offered the      *)
(* whole of the buffer.                                                      *)
ReportFits == pc = "parse" /\ Quiet => Len(res_buf) < BufSize

(* Whenever the library waits for keys and knows of no resize, it knows      *)
(* where the terminal's cursor is and how large the screen: answers of the   *)
(* terminal, motions to the far corner and back, and resizes between them    *)
(* leave nothing stale, and queries leave the cursor where it was.           *)
PositionTrue ==
  pc = "idle" /\ ~resize_flag /\ output = <<>> /\ Quiet => cursor_pos = at /\ term_size = size

(* A report is taken off the input whole: no part of it is read as keys,     *)
(* whatever is typed or resized while the library asks.                      *)
ReportNotTyped == faults = 0 => \A i \in 1..Len(typed) : typed[i] \in {Text, Motion}

(* Only faults bring reports to the key tree, each at most one: a request    *)
(* that could not be sent and goes out with a later command, or one whose    *)
(* answer was no longer waited for.  Keys typed ahead and resizes do not.    *)
StraysAreFaults == Cardinality({i \in 1..Len(typed) : typed[i] = Last(User6)}) <= faults

(* Every query comes to an end, so that a call of nanorl() that starts on    *)
(* whatever its input is gets to read it.                                    *)
QueryReturns == (pc = "request") ~> (pc \in {"idle", "failed"} \/ ~Quiet)
=============================================================================
