# nanorl in TLA+

A specification of nanorl, the small line editing library of this repository:
what it does with keys, with the terminal, with signals and with the two files
it reads and echoes to. The modules are checked with TLC on small instances and
proved with TLAPS where that is possible. Paths are relative to the parent
directory; `src/src/io.c` is the library's `src/io.c`.

- `tlc -config Editor_lines.cfg MCEditor.tla` runs a check (the cfg's prefix names the
  MC module),
- `tlapm EditorProofs.tla` checks the proofs.

## The system

One call of `nanorl()` edits one line. All state apart from the line is static
and lives on from call to call.

| part | code | state | operations | talks to |
|---|---|---|---|---|
| session | `nanorl.c` | saved `termios`, saved signal actions, `intr_code`, `errno` | `check_args`, `init`, `deinit`, the error code | all below; signal handlers write `intr_code` and the renderer's `resize_flag` |
| main loop | `nanorl.c` | the input event (`read_buf`, `more`) | read, dispatch, redraw | reader, manipulation, renderer |
| reader | `io.c` (read side), `dfa.c` (`nrl_dfa_parse`) | `rd_buf`, `rd_count`, `rd_used`, `rd_pending`, `preload_data` | `nrl_io_read` → `nrl_dfa_parse` → `next_char` → `read_wrapper`; `next_uchar` | the read file; returns one event at a time |
| key tree | `dfa.c` | `root` | `nrl_dfa_build`, `dfa_insert` at every call | key tables of the terminal database |
| manipulation | `manip.c` | `line_data` (`buffer`, `cursor`, `render_cursor`, `dirty`), `escape_table` | text, six keys, custom handlers | renderer: `nrl_render_sync_cursors` |
| renderer | `render.c` | `cursor_pos`, `term_size`, `last_rendered_width`, `resize_flag` | `nrl_render_init`, `nrl_render_redraw`, `nrl_render_sync_cursors` | output buffer; reads the terminal's position report from the read file |
| output buffer | `io.c` (write side) | `wr_buf`, `wr_count`, `echo_enabled` | `nrl_io_write`, `nrl_io_flush`, `nrl_io_wipe_buffers` | the echo file |
| terminal database | `terminfo.c`, `fastload.c` | four string tables, loaded once; `attempted_load`, its result | load, look up, "is it smart" | key tree, renderer |
| capability strings | `format.c` | none | format `cursor_address`, parse the position report | renderer |

The terminal behind the echo file and the c-utils submodule (vectors, UTF-8,
character widths) are external.

There are no threads. What makes the code hard is

- three positions that have to agree: the logical cursor, what the library
  believes about the terminal's cursor, and where the terminal's cursor is, with
  wrapping, scrolling, erasing and characters of width 0 and 2 in between;
- `read()` cuts its input anywhere, while keys and characters span bytes, and
  the buffer is refilled in the middle of them;
- signals arrive between any two steps, and `errno`, one flag and one static
  variable carry their meaning to places far away;
- calls that fail half-way, in `init`, `deinit` and in every flush;
- static state that is there again in the next call;
- one channel for two kinds of input: keys, and the terminal's answers to
  the renderer's questions.

What each part promises:

- *manipulation*: an ideal line editor on the text before and after the cursor;
- *renderer*: the screen shows the line, and only the line, at the prompt;
- *reader*: events depend on the bytes, not on how they arrive; nothing is lost
  or repeated; it never reads beyond its data and never waits for a byte it does
  not need; the end of the input ends the call;
- *key tree*: exactly the terminal's keys, each with its meaning and kind;
- *main loop*: the line is what an ideal editor makes of the bytes, and the user
  sees it before the library waits for another key;
- *terminal database*: the first entry in the documented order, looked for once;
  a terminal is smart only if it can do what the renderer then asks of it;
- *queries*: they end, take the whole answer and nothing else off the channel,
  leave the cursor where it was, and what the renderer learns is true;
- *output*: what is printed arrives once, in order, or not at all;
- *session*: everything taken from the application is given back; a signal ends
  the call and is reported; secrets are wiped; the error code is true.

## Modules

| module | what it is |
|---|---|
| `Terminal` | external: a VT100-style screen as operators on a record (cells, cursor, pending wrap, scrolling) |
| `LineEdit` | abstract: text before and after the cursor, and the operations of a line editor |
| `Editor` | `manip.c`, `render.c` and the main loop's dispatch, over `Terminal`; refines `LineEdit` |
| `Reader` | the read side of `io.c`, `nrl_dfa_parse`, and calls in a row |
| `Nanorl` | the main loop: one call, as `Reader` and `Editor` composed (`INSTANCE`), from bytes to the line |
| `KeyTree` | `nrl_dfa_build`; gives the meaning of `Keys`, the constant with which `Reader` abstracts the tree |
| `Terminfo` | extends `KeyTree`: the cached load, the databases, the smart test, and the build of every call |
| `Format` | `format.c`: formatting and parsing of capability strings, as functions |
| `Query` | `query_cursor` and `query_size`, with the terminal and the user as processes; uses `Format` |
| `Output` | the write side of `io.c` as init, renderer and deinit use it |
| `Session` | `nanorl.c`: arguments, init, loop and deinit step by step, signals, failures, results |
| `MCEditor`, `MCReader`, `MCNanorl`, `MCTerminfo`, `MCQuery`, `MCOutput`, `MCSession` | small instances for TLC |
| `TextLemmas` | facts about cutting and joining sequences, counting up, and least and largest elements |
| `EditorProofs`, `ReaderProofs`, `NanorlProofs`, `TerminfoProofs`, `OutputProofs`, `QueryProofs`, `SessionProofs` | theorems |

Operators named "Mutant of X" are wrong variants of X, used nowhere in the
specifications: each property has one that breaks it, listed in `PROJECT.json`.

### Editor

`buffer`, `cursor`, `render_cursor`, `dirty` are `line_data`; `cursor_pos` and
`last_rendered_width` are the statics of `render.c`; `term` is the terminal;
`start` remembers it as editing began. The reader is reduced to its events: a
text, a key, a custom key, the end; each with `more`, which is true while input
is buffered and postpones the redraw. The echo mode and what kind of terminal it
is are chosen from `Setups` when editing begins. An action is one round of the loop up to
the redraw, `Redraw` is the redraw. A handler of a key and the cursor motion it
causes are one action, as in the code.

Characters are model values with a width. `ucwidth` is assumed to measure as
the terminal does. Cells are numbered on an endless tape, so that a cell keeps
its number while the screen scrolls, and `LineShown` can compare the screen with
the one that plain typing at the prompt would have given. `LineShown` says
nothing of a line whose first row has scrolled away: the code does not draw such
lines right and says so (`render.c:269`). `PromptPreserved` still holds there.
It says nothing of dumb terminals either, which cannot be brought to show a line.

A custom handler is a text and a cursor inside it (`Replies`): a handler that returns a
cursor beyond its text breaks its contract and is not modelled. A handler that counts
bytes may leave its cursor inside a character (`inside`). The ideal editor then does
what `escape.h:122-124` promises and puts the cursor at the end of that character (`Cut`
in `LineEdit`); `Landing` says what the conversion does instead. In the middle of the
text the cursor goes before the character (`Editor_handler_middle`), inside the last one
it lands behind the line, and for the first of several characters the search for a
common point leaves the buffers: the action `HandlerFault`, after which there is
nothing. `LastWhole` and `CursorsWhole` say of `Replies` that no handler does the
second, or any of it.

At a key that moves the cursor on a terminal that is not smart a debug build aborts
(`assert(term_smart)`), and a release build divides by the zero columns or, with echo
off, skips the motion and goes on: the action `Abort` ends the process, `Moving` is
the condition under which it goes on.

### Reader

Bytes are model values; UTF-8 is lead bytes, of which `LeadLen` gives the length
of the character, and continuation bytes. The buffer keeps the bytes of earlier
reads and earlier calls, as the static array does. `memmove` from behind the end
of the data is modelled with what is there, and with any byte where it would
read beyond the array. `pc` says where `nrl_io_read` is; a `Refill` is one
`read()`. `fed`, `taken` and `events` are history: what the call was given by preload
and reads, how much of it has been taken up, and what it returned. `Decode` is the
reference: it cuts the whole input into keys and characters at once.

`NoByteLost` is about one call: its events are those of the bytes it was given, up to
the ones it has read ahead. That those reach the next call is a property of its own,
`NothingDropped`, and false: as an INVARIANT of `Reader_keys.cfg` it is violated.

`EveryStepCounts` is why a call ends: each step makes a triple of naturals smaller,
in the order of a dictionary. `ToEnd` counts the bytes up to the first Ctrl-D among
those held and to come, behind which there is always another, the end of the input.
`ToEvent` counts what `nrl_io_read` still has to go through, `ToByte` the
bytes that fit behind the running parse and the reads before the next of them
(an empty preload costs one). So the loops of `next_char`, `next_uchar` and
`nrl_dfa_parse`, the way back from a failed parse, and the bytes skipped one by one
cannot go round without getting on. `EndIsPlain` says what it needs of Ctrl-D: it is
a character of one byte and no part of a key.

### Nanorl

`Nanorl` instantiates `Reader` (one call, its `pc` is `reading`) and `Editor` and
lets every event that the reader returns be, in the same step, the action of the
editor that `nanorl()` takes for it. `Meaning` is the key tree's answer for a key,
`Handler` the custom keys that have a handler; the others are ignored or
inserted as printable text, byte by byte, as `custom_ignore_default` says. `More`
is `read_buf.more`, computed from the counters, where `Editor` alone lets it be
anything.

`LineFaithful` cuts the bytes read into events (`Decode`) and folds an ideal line
editor over them. Where the input ends inside of a key (`KeyCut`) nothing is
promised, as in `Reader_unknown_key`. `ShownBeforeWait` is about waits for a
new key: a paste that ends inside of a key or character leaves the line undrawn
until its next byte, and a line pasted together with its newline is never drawn.

`EveryStepCounts` says of the whole loop what it says of the reader: a step brings the
reader's call nearer to its end, or is the one redraw after an event.

### KeyTree and Terminfo

A node is named by its path from the root, so the array of arrays is a function from
paths. The union of children and acceptor is modelled by its two misuses (`Clobbers`),
which end the process at best. An acceptor of value 0 written over a null pointer is
still a null pointer, and does no harm when the leaf gets children; `Clobbers` excepts
it. `Insert` and `Skip` are the two ways a round of the loop goes, with and without a
sequence; `wanted` keeps all rounds of all calls, for the properties.

`Terminfo` has the environment, which may change between calls, and what the
databases hold. A compiled entry is its array of strings, and one flag for
whether `parse` accepts it; the byte layout is left out. The code indexes the
array without asking for its length: past its end each index is, by itself, missing or
`Wild` (`Lookups`).
`Crash` stands for the two ways a build ends the process: a key that begins
another one, and `strstr(NULL, ...)` when `TERM` was set for the first call and is
not for a later one. The properties speak of the states before that.

### Query

The library, the terminal and the user are three processes with two channels
between them: `output`, the commands the terminal has not obeyed, and `input`,
which carries keys and reports alike. What is drawn is reduced to where it leaves
the cursor. Commands and reports are the sequences that `Format` makes of the
capability strings, with a number as one element. `place` says in which part of a
call the library is; the constants `TypeAt`, `ResizeAt` and `InterruptAt` say
where keys are typed, the window is resized and reads are interrupted, `FailAt` where
a write may fail; `MaxFaults` bounds the interrupted reads and failed writes together.
In `Query_exchange` all but interrupts may happen everywhere, and those wherever the
library reads a report. `crossed` and `faults` are history: whether a key or a resize has
come between a query and its answer, and how many faults there were; `Quiet` says that
there was none of either. The code makes no promise about its position after that, and
the table below says what goes wrong; `PositionTrue`, `ReportFits` and `QueryReturns` are
about the states before, `ReportNotTyped` about those before the first fault, and
`StraysAreFaults` and `TypeOK` about all.
`Garbage` is what an uninitialised `int32_t` may hold after a report that does not match.

What a failed flush leaves in `wr_buf` is `buffered`, and goes out with the next one.
In a redraw nobody looks at the result of a query or a motion: a request that was
refused is sent with the next output, and its report comes to the reader as keys.
`"lost"` is where the process is after a step that C does not define or an assertion
stops: the index `0xFFFFFFFF` behind a `read()` of nothing (`render.c:373`), a report
that runs over `res_buf`, numbers that are negative, a screen without rows. Short writes
are left to `Output`.

### Output

Every byte printed is a number of its own. Each call has a configuration of its
own (`Configs`): the echo mode, and an echo file whose `write()` always takes
all, may `fail` and take nothing, or may be `short` and take a part. `Delivered`
is claimed of `Reliable` calls: no short writes, and no failing ones where
`deinit` wipes the buffer. The phases are those of a call: init may
print and must flush, the renderer prints and always flushes but never looks at
the result, deinit wipes, prints its farewell and flushes.

### Session

One variable `pc` walks through `init`, the loop and `deinit`, one system call
per step. The configuration of each call is chosen from `Configs`. The line is
its length. A signal may arrive at every step in
`SignalAt` and is handled there by what the code has installed: `Interrupts` has
one disjunct for each thing it may do to the step. Besides `read()` it may interrupt
the first flush and the cursor query of `init`, a redraw's `write()`, and two steps of
`deinit`: `tcsetattr(TCSAFLUSH)`, which waits for the output to drain, and the farewell's
`write()`. After `tcsetattr` `deinit` returns with nothing given back or wiped. A first
flush or cursor query that fails comes after `nrl_manip_make_custom_table`, so the table
of handlers stays in force for the next call, even one that hides its line.

`entry`, `ended`, `hit` and `gave_up` are history. `gave_up` is the step at which a call
returned early; `Unfinished` names the three at which it does so with things of the
application still in its hands: the first flush, the cursor query, and `tcsetattr` in
`deinit`.
`RestoredOnReturn` and `SecretsWiped` except exactly these, each at the place where it
bites, and the runs let everything fail and signals come anywhere. What a redraw does is
left to `Query` and `Editor`.

## Runs that pass

| run | states | what it shows |
|---|---|---|
| `Editor_lines` | 834 000 | all properties of `Editor`, refinement of `LineEdit` included: every echo mode, smart and dumb terminals, hidden characters of width 0, 1 and 2, handlers with a cursor between characters or inside the first |
| `Reader_keys` | 295 000 | characters and whole keys in all pieces, two calls; no step is in vain |
| `Reader_no_term` | 12 400 | no key tree, broken UTF-8, interrupted reads, two calls; no step is in vain and every call ends (liveness) |
| `Nanorl_lines` | 374 000 | the line is right and shown before the next wait, whatever the pieces; no step is in vain and the call ends (liveness) |
| `Terminfo_build` | 143 000 | the first entry wins, the tables are kept, the tree is the set of keys, built twice |
| `Query_exchange` | 452 000 | keys, a resize and a fault at any time: a report comes to the key tree only through a fault, one for each, and no position is negative; until something has come between a query and its answer, queries end (liveness), the report fits its buffer, and what it says is true |
| `Output_calls` | 55 000 | delivery, and silence with echo off, two calls |
| `Session_calls` | 24 900 | every step may fail and meet a signal: restoration, wiping, error codes, interrupts, and a signal ends a waiting call (liveness) |

### Bounds, and why they are enough

- *Screen 2 × 3, line up to 4 characters, prompts of 0 to 5 cells.* Every
  alignment of the end of the prompt and of the line with the margin and with
  the last row occurs; the longest prompt and line take nine cells on a
  six-cell screen, so the first row scrolls away and `Offset` falls back to the
  top left corner. A line of 5 or more makes rows above the screen pile up
  without end (each redraw of a too tall line scrolls again), so the state space
  is not finite there.
- *Read buffer of 4 bytes.* `next_char` needs room for one character (4 bytes);
  keys of 3 bytes then straddle the end of the buffer in every way. Inputs have
  up to three pieces, preloads are shorter and longer than the buffer.
- *Write buffer of 3 bytes*, texts of 1, 3 and 4: shorter, as long, longer.
- *Two handled signals* instead of four: the four are treated alike, in order.
- *Two calls* (three in `Session`, one of which may be refused): what a call
  leaves behind meets another call, in another echo mode, or environment.
- *Inputs of three pieces* in `Nanorl`: a piece is a character, a key, a custom key
  with or without a handler, a control code or the newline, so that every two of
  them meet at every place of the 4-byte buffer, also behind a preload that is
  longer than the buffer.
- *Databases*: three standard and two custom keys, in every combination of
  missing, equal and different ones; up to two directories hold an entry, so
  each pair of places meets in either order.
- *Screens of 1 × 2 and 2 × 1* in `Query_exchange`, so that a resize changes both
  numbers and may push the cursor inwards; the far corner is 3, beyond both. The report
  buffer of 7 has room for a report, its terminator and one key, so that two keys in
  front of a report are one too many. Two keys, one resize and one fault: each may come
  before, in and after each step of a query, and any two of them in either order.
  `Query_pipe` has screens of 2 × 3 and 3 × 2.
- *Handlers' replies*: a cursor at each place between characters, and one inside the
  first of two; one inside a middle character has a run of its own.

### Fairness

`Reader`'s `LiveSpec` lets a call go on as long as it can: it is for inputs that end (a
file, a pipe whose writer has closed it), where `read()` always returns. `Session`'s
`FairSpec` is weak fairness of the library's own steps in `init`, the loop and `deinit`.
`Nanorl` asks for weak fairness of its reader's steps, seen alone
(`WF_(R!vars)(R!Next)`): the reader can always go on, so what the loop does between two
reads has to be over at some time. `Query`'s `FairSpec` says the same of its library
with the condition written out (`Runnable`) instead of `WF`, because evaluating
`ENABLED` on every command of a screen takes TLC too long; a read that has nothing to
return waits. The terminal of `Query` obeys at last (`WF`). Nobody has to type, to send
a signal or to resize.

### Deadlock

All cfgs switch the deadlock check off: a call that has returned, or a process
that has aborted, stops, and so does a model at its bound of calls.

## Runs that show a disagreement

Each of these finds a behaviour of the code that a comment, an assertion or a
document of the repository rules out. `PROJECT.json` quotes the line and says
what happens.

| run | in short |
|---|---|
| `Reader_unknown_key` | ESC and a character, read separately: the ESC is lost |
| `Editor_handler_middle` | a handler's cursor inside a character goes before it, not to its end |
| `Session_pipe_interrupt` | `isatty()` hides the interrupt |
| `Query_pipe` | a pipe and a smart `TERM`: the query eats the line and never ends |

## Where the passing runs stay clear of the code

The constants of the passing runs avoid these behaviours, or their properties except
them; each breaks the property named when it is let in, or when the exception is taken
out. They are what to look at first when the code changes.

| behaviour | code | constant | property |
|---|---|---|---|
| characters are subtracted from columns: a combining character in the line leaves the last cell of a longer text behind | `render.c:160` | `Texts` with a glyph of width 0, echo on | `LineShown` |
| a wide character that does not fit in the last column wraps whole, positions are linear | `render.c:154` | `Texts` with a glyph of width 2, echo on | `LineShown` |
| a prompt that ends in the last column: the report names that column, and the first character overwrites it | `render.c:69` | `Prompted(Cols - 1, TRUE, prompt)` in `Starts` | `LineShown` |
| two lines in one `read()`: `nrl_io_init` drops the second | `io.c:49` | none: `NoByteLost` and `EventsFaithful` are about one call | `NothingDropped`, stated in `Reader` |
| the Escape key, or any sequence that is no key, cut by `read()` | `io.c:205` | `Streams`, as in `Reader_unknown_key` | `EventsFaithful` |
| a custom key with the sequence of a standard one keeps the standard kind and takes the index of the other | `dfa.c:190` | `Disks` with one string in both halves of an entry, which `TablesApart` excludes | `KindMatches` |
| a key that begins another one overwrites the children | `dfa.c:200` | none: ends in `Crash` | |
| `TERM` is set for the first call and not for a later one | `dfa.c:82` | none: ends in `Crash` | |
| strings past the end of a short entry are whatever lies there, each by itself | `terminfo.c:375` | none: `FirstEntryWins` excepts them | |
| a key that moves the cursor on a terminal that is not smart | `render.c:113` | none: ends in `Abort`, but for a release build with echo off | |
| a UTF-8 handler's cursor inside the first of several characters | `manip.c:158` | none: ends in `HandlerFault` | |
| the same inside a middle character: the cursor goes before it | `manip.c:157` | `Replies`, as in `Editor_handler_middle` | `EditsLine` |
| the same inside the last character: the cursor goes one behind the end of the line | `manip.c:158` | `Replies` with `Reply(<<a, b>>, 1, TRUE)`, which `LastWhole` excludes | `CursorsInBounds` |
| a resize between the query of a redraw and its reset of `resize_flag` is forgotten | `render.c:108` | none: the property excepts it (`Quiet`) | `PositionTrue` |
| keys typed ahead of a query are read with its answer; a report and keys in one read do not end it, and it waits for another; enough of them run over `res_buf` | `render.c:367` | none: the properties except them (`Quiet`) | `PositionTrue`, `QueryReturns`, `ReportFits` |
| a signal during the query of a redraw: the report that still comes is read as keys | `render.c:369` | none: excepted by `faults = 0`, counted by `StraysAreFaults` | `ReportNotTyped` |
| a redraw's request or motion that a failing write keeps back: its report is read as keys, the position is not noted | `render.c:354`, `404` | none: excepted by `faults = 0` and `Quiet`, counted by `StraysAreFaults` | `ReportNotTyped`, `PositionTrue` |
| a paste that ends inside a key leaves the line before it undrawn | `nanorl.c:141` | none: `ShownBeforeWait` is about waits for a new key | |
| a short write leaves its bytes in the buffer, to be printed again | `io.c:169` | `short` with an echo | the body of `Delivered` |
| a wipe after a failed flush prints NUL bytes | `io.c:178` | `fails` in obscured mode | the body of `Delivered` |
| a failing or interrupted first flush or cursor query of `init` leaves the terminal raw and the handlers in force, against `nanorl.c:299` also for a later hidden line | `nanorl.c:95`, `306` | none: the property excepts calls that gave up there (`Unfinished`) | `RestoredOnReturn` |
| a failing or interrupted `tcsetattr` in `deinit` skips restoring and wiping | `nanorl.c:331` | none: the properties except calls that gave up there | `RestoredOnReturn`, `SecretsWiped` |
| an entry with the keypad strings and no way to ask for the position passes for smart | `terminfo.c:213`, against `terminfo.h:120` | none: no property of a run looks at `Smart` | `SmartCanMove`, stated in `Terminfo` |
| a signal outside of `read()` is stored in `intr_code`, which nothing reads | `nanorl.c:203` | none: `SignalEndsCall` is about signals that hit `read()` | |
| an interrupted empty line is reported as end of file | `nanorl.c:153` | none: `InterruptReported` is about lines with text | |
| a dumb terminal gets the whole line again at every redraw | `render.c:139` | none: `LineShown` is about smart terminals | |

One comment also disagrees with the code in words only: `nanorl.h:25-29`
describes `NRL_ECHO_ON` and `NRL_ECHO_OFF` the wrong way round.

## Proofs

All theorems hold for every value of the constants that satisfies the named
assumptions of the modules.

- `EditorProofs`. `LineInv` is the inductive invariant: the line is a text, both
  cursors are in it, `render_cursor <= cursor`, and with echo off `render_cursor`
  is 0. The order of the cursors is needed because a deletion behind `cursor` must
  not leave `render_cursor` beyond the end; with echo off nothing moves
  `render_cursor`, so a move to the left keeps the order only because it never
  left 0. `SetupInv` says that the echo mode and the terminal stay what they
  were. From these `TypeCorrect` and `CursorsStayInBounds`, if no handler puts its
  cursor inside the last character (`LastWhole`; the table shows what happens
  otherwise), and `EditorRefinesLineEdit`, if all put theirs between
  characters (`CursorsWhole`; otherwise it is false, `Editor_handler_middle`): each
  action is an operation of `LineEdit` on the text cut at the cursor, by the lemmas
  `SpliceCut` and `EraseCut`, which rest on `TextLemmas`. Handlers whose cursor is inside
  the first of several characters need no hypothesis: `HandlerFault` ends the process.
- `EditorProofs`, the renderer. The positions that `render.c` keeps are its own; what
  ties them to the terminal is `Origin`, the cell at which, by the renderer's own sums,
  the line begins. `ScreenInv` says that the origin is never before `start.at` and never
  below the screen, that no cell before `First` has changed, and that with echo off the
  terminal is as it was at the start. It is inductive for characters of every width and
  lines of every height: a move that would leave the screen at the top ends in its
  corner, which lies behind the prompt, and a redraw that scrolls moves the origin up
  with the text. `PromptIsPreserved` needs `LastWhole`, because it rests on `LineInv`,
  and `NoWrapPending`: after a prompt with a wrap pending, `start.at` is the prompt's
  own last cell (`render.c:69` in the table above). `ShownInv` adds what holds while the
  first row is in sight: the origin is exactly `start.at`, the text drawn last ends on
  the screen, nothing is behind it, and unless the line is dirty it is drawn and the
  cursor is in it (`Redrawn`). `ScreenShowsLine` follows, with the same two hypotheses,
  for `VisibleNarrow` characters, because only then characters and columns are the same
  (`render.c:154`, `render.c:160`); hidden text may be of any width, as it is drawn as
  asterisks. `MCEditor` asserts these hypotheses of its instance. The screen is any
  number of rows and columns, the line any length.
- `ReaderProofs`. `ReadsInBounds` is not inductive, as nothing in it bounds
  `rd_pending`. `Inv` adds that the running parse has looked ahead exactly as far as its
  path in the tree, or its character, is long, which is less than a whole key or four
  bytes. With `KeyAssumption` (no key longer than the buffer, the assumption of the
  comment in `next_char`) a refill always finds room: `ReadsStayInBounds`,
  `ReaderTypeCorrect`. `FedInv` says which byte of the input each cell of the buffer
  holds, that a parse has passed exactly the bytes behind `rd_used`, and that characters
  are only decoded where the bytes held neither begin with a key nor begin one
  (`Keyless`). It is inductive where every parse that ends leaves the bytes behind that
  were read (`LeavesIntact`). This is a condition on steps because `memmove` takes the
  wrong source, `rd_buf + rd_count`, so what a parse has passed may be gone when it
  falls back; `Reader_unknown_key` and the table show that `NoByteLost` is false then.
  Four hypotheses give it: no keys and characters of at most two bytes
  (`PlainBytesKept`, `PlainWaits`, `PlainEventsFaithful`; broken characters and
  interrupted reads are allowed); `WholeInput` (`WholeInputKept`, `WholeInputWaits`,
  `WholeEventsFaithful`; keys, and characters of any length), with `StreamInv`, that
  what is held and what is yet to come is at every point a rest of the input; no refill
  inside of a key or character (`UncutFaithful`); and `RefillKeeps`, that a refill moves
  the bytes the running parse has passed, which begin at `rd_buf + rd_used`. All of them
  are about one call: `TakenInv` ties `taken` to what the events were made of, and what
  a call has read ahead is not promised to anybody. The last, `RefillAlone`, says most
  about the code: it has no other hypothesis, so within a call the source of that one
  `memmove` is the only reason why a byte is lost, an event wrong or a wait too long,
  for keys that are cut off or unknown, broken characters and interrupted reads
  included. (Between calls `nrl_io_init` drops what was read ahead: `NothingDropped`,
  which no theorem is about.) As the code is, `RefillKeeps` is not a fact but a
  hypothesis on behaviours: it holds of those in which no refill comes inside of a
  piece, or in which the bytes happen to be right. `WholeInput` is a condition on
  constants, which `MCReader` asserts of `Reader_keys`. `EventsInv` adds where each
  event of the call began, and that it is what the reference decodes there, also with
  everything that came later (`Firm`). For `EveryStepCounts` each action has a lemma
  (`RefillNearer`, `UcharDoneNearer`, ...). They rest on three facts about the first
  Ctrl-D of a sequence (`FirstIs`): reading leaves it where it is (`ReadCloser`), the
  Ctrl-D of a read that brought nothing is not behind it (`MarkedCloser`), and taking
  bytes that hold none brings it nearer (`TakenCloser`). `PlainStepsCount`,
  `WholeStepsCount` and `KeptStepsCount` are the theorems, under the first, second and
  last of the hypotheses above and `EndIsPlain`, which `MCReader` and `MCNanorl` assert
  of their instances.
- `OutputProofs`. `Inv` adds to `Delivered` that the buffer is empty when the
  loop is left, unless a flush may fail: only so does the wipe keep what was
  promised. `OutputTypeCorrect` holds however `write()` fails, `OutputDelivers`
  is about `Reliable` calls, as `Delivered` is. `NothingHidden` is not inductive,
  as what is buffered will be sent: `HiddenInv` says that nothing hidden is in the
  buffer either, and that echo is off while hidden text is printed;
  `NothingHiddenShows` needs no reliable calls.
- `NanorlProofs`. `DrawnInv` says that a line that is not drawn has bytes behind it that
  are no event yet. It is inductive because every answer to an event ends in
  `Continue(More)`, asked of the counters after the event was taken off, because a
  refill inside of an event keeps the bytes of that event, and because the blocking read
  of `nrl_io_read` happens on an empty buffer. `DrawnBeforeWait` follows.
  `CallRefinesReader` and `CallRefinesEditor`: a call is a behaviour of `Reader` and one
  of `Editor`, so what `ReaderProofs` and `EditorProofs` show holds of a call fed with
  bytes (`CallShowsLine`, `CallKeepsPrompt`, and `CallRefinesLineEdit`, the whole stack
  down to the ideal editor), under the hypotheses it has there; as a call takes the
  cursors of its handlers from `Handler`, they all assume `E!CursorsWhole`. The
  instances `RP` and `EP` of those modules carry their assumptions along;
  `ReaderConstants` and `EditorConstants` discharge them from `ByteAssumption`,
  `CallAssumption` and `ScreenAssumption`, which say the same of the constants of a
  call. `EditInv` says that the halves of the line are the fold of the events so far
  (`Line`). One event more is one edit more (`LineGrows`), each key does to the line
  what it does to its halves (`KeyEdits`), and what is inserted is made of known
  characters, because `next_uchar` never holds more than one (`UcharInv`):
  `LineFollowsEvents`, with no hypothesis on the input but `E!CursorsWhole` on the
  handlers. With faithful events it gives `LineFaithful`, under the conditions of
  `ReaderProofs`: `WholeLinesFaithful`, `PlainLinesFaithful` and, for every input,
  `RefillAloneLines`. `WholeCallsCount`, `PlainCallsCount` and `KeptCallsCount` carry
  `EveryStepCounts` over to the whole loop: a step of a call is a step of its reader,
  which brings the end nearer, or a redraw, after which the loop reads. `MCNanorl`
  asserts `WholeInput` of what is typed in its instance; the inputs that are cut off are
  not whole, and there the code as it is is model-checked only. `CharAssumption` says
  that every byte, "^" and valid character is one the editor knows.
- `TerminfoProofs`. `SearchInv` says that a search belongs to the first call, and that
  every later state has the attempt noted; so no later step fills the tables:
  `CapabilitiesKept`. `TreeInv` says of every round of a build what `TreeIsKeys` and
  `LastKeyWins` say of its end: the rounds to do are the last of those asked for, the
  paths are the beginnings of the keys so far, and a key's acceptor is that of its last
  round so far. `LastKeyAnswers` follows for all tables, equal keys, keys that continue
  others and repeated builds included; `TreeHasKeys` for terminals none of whose
  sequences begins another (`PrefixFree`): a key that begins another one is no leaf, and
  `nrl_dfa_parse` never answers with it. `KeyTreeAssumption` and `TerminfoAssumption`
  only give the constants their types, and say that the compiled-in entry has every
  index, and that `Backspace` is one of the standard keys. `TerminfoTypeCorrect` has no
  other hypothesis: by `IndexInv` an acceptor is an index of one of the two tables,
  whatever sequences they share. That it is the table its flag selects is `KindsMatch`,
  which assumes `TablesApart`, that standard and custom keys share no sequence, and is
  false otherwise. `MCTerminfo` asserts `TablesApart` of its instance. `KindInv` says of
  each node which round gave it its acceptor and its kind. `FirstEntryIsUsed`:
  `FirstInv` says during the search that the places tried so far hold no entry, and that
  nothing is filled before one is found.
- `SessionProofs`. `Inv` says, step by step, what is still as the call found it,
  and of the rest, that it is saved where `deinit` will take it from; the chain
  of `sigaction()` calls needs it for each signal before and after `next_sig`.
  `CallRestores` and `CallWipes` have no hypothesis: any system call may fail and a
  signal may come at any step. What they except is named by `gave_up`, the one step a
  call gave up in (`StageInv`), and the table above shows that each exception is
  needed. `Kept` says that hidden text in the static buffers is what the call found
  there. `CodesAreHonest` holds with any failures and signals as well,
  `TerminalsReportInterrupts` where every call reads from a terminal; on a pipe it is
  false (`Session_pipe_interrupt`).
  `SessionTypeCorrect` rests on `SavedInv`: whatever `deinit` puts back, the
  same call has saved, so that no restored value is the initial `"none"`.
- `QueryProofs`. One hypothesis is common to all: `XtermStrings`, that the strings have
  the form of xterm's, with any letters; the last letter of a report occurs nowhere else
  in it, or a query would stop there. `FormatsXterm` and `ParsesXterm` follow `Format`
  through these strings, for all numbers. No theorem restricts when keys, resizes and
  faults may come: what a theorem does not promise after one of them is in its property.
  `QueryTypeCorrect` needs nothing else (`Typed`): whatever is typed, resized, interrupted
  or refused, and on pipes, a step that would leave its types ends in `"lost"`.
  The others are about terminals (`~Pipe`), as on a pipe the line itself may look like a
  report. `CountInv`: requests and reports under way are at most one more than the faults
  so far, that one being the query's own; so `ReportsNeedFaults`.
  `AheadInv` holds until the first fault and counts nothing: at most one request or
  report is under way, and only while its query is; so `ReportsAreNotTyped`.
  `ReportsFit` and `PositionIsTrue` also need room for one report and its terminator in
  `res_buf` (`RoomForReport`; the code's buffer has 512 bytes). Their invariant holds while
  `Quiet` does, shown step by step (`Undisturbed`): `ChannelInv` says that until the
  library has read the whole answer nothing but that answer is in `input`, part of it
  perhaps in `res_buf` already. `ExactInv`: `Target`, the place where the motions the
  terminal has yet to obey will leave its cursor, is `cursor_pos`, or the far corner of
  the screen while `query_size` asks for the size; the answer then names what is true as
  long as nothing has been resized since (`Steady`). `MCQuery` asserts `XtermStrings`
  and `RoomForReport` of its instances.

Recursive functions are met in these proofs in one way. That a function which is
defined by its own values exists at all is shown for each number of elements in
turn (`PutExists`, `WidthExists`), and every such count is `Counting`: a set of
numbers that holds 0 and with each number the next one has no least
counterexample. `Counting` rests on `WFMin`, that the naturals are well-founded,
because the induction rules of the library take an operator, which the
installed provers cannot instantiate. So `PutAll`, `TextWidth` and `Decode` can
be unfolded for texts of every length.

`StartAssumption` (the terminal is one, with nothing behind its cursor, when
editing begins) and `NoPreload \notin Seq(Byte)` are the other assumptions on
constants that these proofs added; TLC evaluates them on every run.

Only model-checked:

- `NoByteLost`, `EventsFaithful` and `LineFaithful` of the code as it is, for inputs that
  are neither plain nor whole (a key that is cut off, a broken character on a known
  terminal) and where a refill comes inside of one: the first two are false for
  some of them, see `Reader_unknown_key`, and all three are true wherever the refill
  keeps its bytes (`RefillAlone`, `RefillAloneLines`);
- `CallEnds`, `SignalEndsCall`, `QueryReturns`: liveness, out of the reach of the
  installed provers. Of `CallEnds` the safety half is proved, that no step is in vain;
  that there is always a next step, which needs `ENABLED`, is left to TLC.

## What is left

1. Resizing in `Terminal` and `Editor`: what happens to text on the screen, and to
   motions between the resize and the next redraw.
2. A measure like that of `EveryStepCounts` for the loops of `Query` and `Session`.
3. Calls after calls: `Nanorl` is one call, `Reader` and `Session` have several.

Not modelled: the binary format of terminfo entries (parsing of a trusted system
file), the debug dumps, the readline wrapper (one call), the example program.
