------------------------------ MODULE Session -------------------------------
(***************************************************************************)
(* The life of a call of nanorl(): what init takes over from the           *)
(* application (terminal attributes, signal dispositions, the static       *)
(* tables), the main loop as far as signals and the error code see it, and *)
(* what deinit gives back.  Signals arrive between any two steps.  The     *)
(* line is its length; Query.tla is about the size of the window.          *)
(***************************************************************************)
EXTENDS Integers, Sequences, SequencesExt

CONSTANTS
  Sigs,         \* the handled signals in the order of init: HUP, INT, TERM, QUIT
  Configs,      \* what a call may be given: whether check_args accepts it, the echo
                \* mode, whether read_file is a terminal, and nrl_term_is_smart()
  CanFail,      \* the steps whose system calls may fail
  SignalAt,     \* the steps at which signals arrive
  MaxCalls, MaxLine, MaxSignals   \* bounds of the model

ASSUME SessionAssumption ==
  /\ Sigs \in Seq(STRING) /\ IsInjective(Sigs)
  /\ Configs \subseteq [valid : BOOLEAN, echo_mode : {"off", "on", "obscured"},
                         tty : BOOLEAN, smart : BOOLEAN]
  /\ {MaxCalls, MaxLine, MaxSignals} \subseteq Nat

VARIABLES
  config,                       \* the argument of the present call
  pc, next_sig,                 \* the step, and which signal it is about
  attrs, old_attrs,             \* termios settings: of the terminal, saved
  handler, old_handler,         \* dispositions of Sigs: in force, saved
  winch, old_winch,             \* the same for SIGWINCH
  table,                        \* escape_table holds the caller's handlers
  secret,                       \* rd_buf or wr_buf hold text that must not be echoed
  errno, intr_code,
  line, eof, result,
  calls, signals,               \* counted for the bounds
  entry, ended,                 \* history: state at the call, what ended the loop
  hit,                          \* history: a signal came while read() waited
  gave_up                       \* history: the step of init or deinit that failed

tty     == <<attrs, old_attrs>>
actions == <<handler, old_handler, winch, old_winch>>
local   == <<line, eof, ended, hit>>
env     == <<config, calls, signals, entry>>
outcome == <<result, gave_up>>
vars    == <<pc, next_sig, tty, actions, table, secret, errno, intr_code, outcome,
             local, env>>

Sig == ToSet(Sigs)

Hidden == config.echo_mode # "on"
Draws  == config.smart /\ config.echo_mode # "off"

Steps == {"out", "attrs", "winch", "signals", "io", "render", "loop", "read",
          "redraw", "stop", "d_attrs", "d_signals", "d_winch", "wipe",
          "farewell", "result"}

(* What a call finds; noted for the properties. *)
Now == [attrs |-> attrs, handler |-> handler, winch |-> winch, secret |-> secret]

Init ==
  /\ config \in Configs
  /\ pc = "out" /\ next_sig = 1
  /\ attrs = "cooked" /\ old_attrs = "none"
  /\ handler = [s \in Sig |-> "app"] /\ old_handler = [s \in Sig |-> "none"]
  /\ winch = "app" /\ old_winch = "none"
  /\ table = FALSE /\ secret = FALSE
  /\ errno = "0" /\ intr_code = "none"
  /\ line = 0 /\ eof = FALSE /\ result = "none" /\ gave_up = "nothing"
  /\ calls = 0 /\ signals = 0
  /\ entry = Now
  /\ ended = "none" /\ hit = FALSE

-----------------------------------------------------------------------------
(* nanorl() up to init, and init step by step. *)

Begin ==
  /\ pc = "out" /\ calls < MaxCalls
  /\ calls' = calls + 1
  /\ config' \in Configs
  /\ errno' = "0"
  /\ line' = 0 /\ eof' = FALSE /\ ended' = "none" /\ hit' = FALSE
  /\ signals' = 0 /\ gave_up' = "nothing"
  /\ entry' = Now
  /\ UNCHANGED <<next_sig, tty, actions, table, secret, intr_code>>

Call == Begin /\ config'.valid /\ pc' = "attrs" /\ result' = "none"

(* check_args *)
Refuse == Begin /\ ~config'.valid /\ result' = "ARG" /\ UNCHANGED pc

(* Every early return of init and deinit leaves what was done so far as it   *)
(* is; the first flush comes after the handlers are installed, the prompt    *)
(* and the keypad string before.                                             *)
GiveUp(why) ==
  /\ result' = "SYSTEM" /\ gave_up' = pc
  /\ errno' = why
  /\ table' \in IF pc = "io" THEN {table, table \/ ~Hidden} ELSE {table}
  /\ old_attrs' \in IF pc = "attrs" THEN {old_attrs, attrs} ELSE {old_attrs}
  /\ pc' = "out"
  /\ UNCHANGED attrs

(* The steps that make a system call which may fail or wait; tcsetattr waits *)
(* for what is still to be printed (TCSAFLUSH).                              *)
SystemCall ==
  CASE pc \in {"attrs", "d_attrs"}  -> config.tty
    [] pc = "render"                -> Draws
    [] pc \in {"io", "farewell"}    -> TRUE
    [] OTHER                        -> FALSE

SystemError ==
  /\ pc \in CanFail /\ SystemCall
  /\ GiveUp("EIO")
  /\ UNCHANGED <<next_sig, actions, secret, intr_code, local, env>>

SetAttrs ==
  /\ pc = "attrs"
  /\ IF config.tty THEN old_attrs' = attrs /\ attrs' = "raw" /\ UNCHANGED errno
     ELSE errno' = "ENOTTY" /\ UNCHANGED tty
  /\ pc' = "winch"
  /\ UNCHANGED <<next_sig, actions, table, secret, intr_code, outcome, local, env>>

SetWinch ==
  /\ pc = "winch"
  /\ old_winch' = winch /\ winch' = "nrl"
  /\ pc' = "signals" /\ next_sig' = 1
  /\ UNCHANGED <<tty, handler, old_handler, table, secret, errno, intr_code, outcome,
                 local, env>>

(* One sigaction() of the chain; the last one ends the step. *)
Step(here, there) ==
  /\ pc = here /\ next_sig <= Len(Sigs)
  /\ next_sig' = next_sig + 1
  /\ pc' = IF next_sig = Len(Sigs) THEN there ELSE here

(* Mutant of SetSignal: the old disposition is not asked for. *)
SetSignalUnsaved ==
  /\ Step("signals", "io")
  /\ handler' = [handler EXCEPT ![Sigs[next_sig]] = "nrl"]
  /\ UNCHANGED <<tty, old_handler, winch, old_winch, table, secret, errno, intr_code,
                 outcome, local, env>>

SetSignal ==
  /\ Step("signals", "io")
  /\ LET s == Sigs[next_sig]
     IN  /\ old_handler' = [old_handler EXCEPT ![s] = handler[s]]
         /\ handler' = [handler EXCEPT ![s] = "nrl"]
  /\ UNCHANGED <<tty, winch, old_winch, table, secret, errno, intr_code, outcome,
                 local, env>>

(* nrl_io_init, the prompt, the custom handlers, the first flush *)
InitIo ==
  /\ pc = "io"
  /\ table' = (table \/ ~Hidden)
  /\ pc' = "render"
  /\ UNCHANGED <<next_sig, tty, actions, secret, errno, intr_code, outcome, local, env>>

InitRender ==
  /\ pc = "render"
  /\ pc' = "loop"
  /\ UNCHANGED <<next_sig, tty, actions, table, secret, errno, intr_code, outcome, local, env>>

-----------------------------------------------------------------------------
(* The main loop *)

EnterRead ==
  /\ pc = "loop"
  /\ pc' = "read"
  /\ UNCHANGED <<next_sig, tty, actions, table, secret, errno, intr_code, outcome,
                 local, env>>

(* A character or an erasing key; the line is dirty and is redrawn. *)
ReadEdit ==
  /\ pc = "read"
  /\ \/ line < MaxLine /\ line' = line + 1
     \/ line > 0 /\ line' = line - 1
  /\ secret' = (secret \/ Hidden)
  /\ pc' = "redraw"
  /\ UNCHANGED <<next_sig, tty, actions, table, errno, intr_code, outcome, eof, ended, hit, env>>

Stop(why, at_eof) ==
  /\ ended' = why /\ eof' = at_eof
  /\ pc' = "stop"
  /\ UNCHANGED line

ReadStop ==
  /\ pc = "read"
  /\ Stop("newline", FALSE) \/ Stop("eof", TRUE)
  /\ UNCHANGED hit
  /\ UNCHANGED <<next_sig, tty, actions, table, secret, errno, intr_code, outcome, env>>

(* What the redraw does is Query's and Editor's business. *)
Redraw ==
  /\ pc = "redraw"
  /\ pc' = "loop"
  /\ UNCHANGED <<next_sig, tty, actions, table, secret, errno, intr_code, outcome, local, env>>

-----------------------------------------------------------------------------
(* deinit and the result *)

ClearTable ==
  /\ pc = "stop"
  /\ table' = FALSE
  /\ pc' = "d_attrs"
  /\ UNCHANGED <<next_sig, tty, actions, secret, errno, intr_code, outcome, local, env>>

RestoreAttrs ==
  /\ pc = "d_attrs"
  /\ IF config.tty THEN attrs' = old_attrs /\ UNCHANGED errno
     ELSE errno' = "ENOTTY" /\ UNCHANGED attrs
  /\ pc' = "d_signals" /\ next_sig' = 1
  /\ UNCHANGED <<old_attrs, actions, table, secret, intr_code, outcome, local, env>>

RestoreSignal ==
  /\ Step("d_signals", "d_winch")
  /\ handler' = [handler EXCEPT ![Sigs[next_sig]] = old_handler[Sigs[next_sig]]]
  /\ UNCHANGED <<tty, old_handler, winch, old_winch, table, secret, errno, intr_code,
                 outcome, local, env>>

(* Mutant of RestoreWinch: the handler of SIGWINCH stays. *)
RestoreWinchForgotten ==
  /\ pc = "d_winch" /\ pc' = "wipe"
  /\ UNCHANGED <<next_sig, tty, actions, table, secret, errno, intr_code, outcome,
                 local, env>>

RestoreWinch ==
  /\ pc = "d_winch"
  /\ winch' = old_winch
  /\ pc' = "wipe"
  /\ UNCHANGED <<next_sig, tty, handler, old_handler, old_winch, table, secret, errno,
                 intr_code, outcome, local, env>>

(* Mutant of WipeBuffers: the comparison with NRL_ECHO_ON is turned round. *)
WipeBuffersVisible ==
  /\ pc = "wipe"
  /\ secret' = (secret /\ Hidden)
  /\ pc' = "farewell"
  /\ UNCHANGED <<next_sig, tty, actions, table, errno, intr_code, outcome, local, env>>

WipeBuffers ==
  /\ pc = "wipe"
  /\ secret' = (secret /\ ~Hidden)
  /\ pc' = "farewell"
  /\ UNCHANGED <<next_sig, tty, actions, table, errno, intr_code, outcome, local, env>>

Farewell ==
  /\ pc = "farewell"
  /\ pc' = "result"
  /\ UNCHANGED <<next_sig, tty, actions, table, secret, errno, intr_code, outcome,
                 local, env>>

(* Mutant of ErrorCode: the empty line is not told from the others. *)
ErrorCodeByErrno == IF errno = "EINTR" THEN "INTERRUPT" ELSE "OK"

(* Mutant of ErrorCode: errno is not looked at. *)
ErrorCodeByEof == IF eof /\ line = 0 THEN "EOF" ELSE "OK"

ErrorCode ==
  IF eof /\ line = 0        THEN "EOF"
  ELSE IF errno = "EINTR"   THEN "INTERRUPT"
  ELSE                           "OK"

Return ==
  /\ pc = "result"
  /\ result' = ErrorCode
  /\ pc' = "out"
  /\ UNCHANGED <<next_sig, tty, actions, table, secret, errno, intr_code, gave_up, local, env>>

-----------------------------------------------------------------------------
(* The environment *)

(* Mutant of Signal: sa_flags is SA_RESTART, as for SIGWINCH. *)
SignalRestarts(s) ==
  /\ pc \in SignalAt /\ signals < MaxSignals
  /\ handler[s] = "nrl"
  /\ signals' = signals + 1
  /\ intr_code' = s
  /\ hit' = (hit \/ pc = "read")
  /\ UNCHANGED <<pc, next_sig, tty, actions, table, secret, errno, outcome, line, eof,
                 ended, config, calls, entry>>

(* What a signal does to the step it arrives at: a read() that waits is      *)
(* interrupted; the system calls of init and deinit may be, which give up    *)
(* then; so may a write of a redraw, whose result nobody looks at; anything  *)
(* else goes on.                                                             *)
Interrupts ==
  \/ /\ pc = "read"
     /\ Stop("signal", TRUE) /\ hit' = TRUE
     /\ errno' = "EINTR"
     /\ UNCHANGED <<tty, table, outcome>>
  \/ /\ SystemCall
     /\ GiveUp("EINTR")
     /\ UNCHANGED local
  \/ /\ pc = "redraw"
     /\ errno' = "EINTR"
     /\ UNCHANGED <<pc, tty, table, outcome, local>>
  \/ /\ pc # "read"
     /\ UNCHANGED <<pc, tty, table, outcome, errno, local>>

(* generic_handler notes the signal; the application's own handler is none   *)
(* of nanorl's business.                                                     *)
Signal(s) ==
  /\ pc \in SignalAt /\ signals < MaxSignals
  /\ handler[s] = "nrl"
  /\ signals' = signals + 1
  /\ intr_code' = s
  /\ Interrupts
  /\ UNCHANGED <<next_sig, actions, secret, config, calls, entry>>

-----------------------------------------------------------------------------
InitSteps == SetAttrs \/ SetWinch \/ SetSignal \/ InitIo \/ InitRender

LoopSteps == EnterRead \/ Redraw

DeinitSteps ==
  \/ ClearTable
  \/ RestoreAttrs
  \/ RestoreSignal
  \/ RestoreWinch
  \/ WipeBuffers
  \/ Farewell
  \/ Return

Input == ReadEdit \/ ReadStop

Next ==
  \/ Call
  \/ Refuse
  \/ InitSteps
  \/ LoopSteps
  \/ DeinitSteps
  \/ SystemError
  \/ Input
  \/ \E s \in Sig : Signal(s)

Spec == Init /\ [][Next]_vars

(* nanorl() itself keeps running; nobody has to type or to send a signal. *)
FairSpec == Spec /\ WF_vars(InitSteps) /\ WF_vars(LoopSteps) /\ WF_vars(DeinitSteps)

-----------------------------------------------------------------------------
(* The types of the variables: in particular no disposition that was never   *)
(* saved is ever put in force.                                               *)
TypeOK ==
  /\ pc \in Steps /\ next_sig \in 1..(Len(Sigs) + 1)
  /\ attrs \in {"cooked", "raw"} /\ old_attrs \in {"cooked", "raw", "none"}
  /\ handler \in [Sig -> {"app", "nrl"}] /\ winch \in {"app", "nrl"}
  /\ old_handler \in [Sig -> {"app", "nrl", "none"}] /\ old_winch \in {"app", "nrl", "none"}
  /\ {table, secret, eof} \subseteq BOOLEAN
  /\ line \in 0..MaxLine
  /\ intr_code \in Sig \cup {"none"}
  /\ errno \in {"0", "EINTR", "ENOTTY", "EIO"}
  /\ result \in {"none", "OK", "EOF", "INTERRUPT", "SYSTEM", "ARG"}
  /\ gave_up \in Steps \cup {"nothing"}

Returned == pc = "out" /\ calls > 0

(* The steps that leave the terminal or signals taken over when they fail. *)
Unfinished == gave_up \in {"io", "render", "d_attrs"}

(* A call hands back everything it took over, the terminal's attributes and  *)
(* the dispositions of all signals, and leaves no custom handler installed   *)
(* once it has edited a line: whatever fails and wherever signals arrive, in *)
(* this call or an earlier one, unless it gave up in one of three steps.     *)
RestoredOnReturn ==
  Returned /\ ~Unfinished => /\ attrs = entry.attrs
                             /\ handler = entry.handler /\ winch = entry.winch
                             /\ ended # "none" => ~table

(* No text that was typed while it must not be shown stays in the static     *)
(* buffers once the call has returned, neither its own nor that of an        *)
(* earlier call that gave up before its wipe; only giving up at the          *)
(* terminal's attributes, which come before the wipe, leaves it there.       *)
SecretsWiped ==
  Returned /\ gave_up # "d_attrs" => /\ secret => entry.secret
                                     /\ Hidden /\ ended # "none" => ~secret

(* The error code says what happened: EOF only for an empty line, INTERRUPT  *)
(* only if a signal arrived during this call, OK never for a call that gave  *)
(* up on a system call.                                                      *)
ErrorCodeHonest ==
  Returned => /\ result = "EOF" => line = 0 /\ ended # "newline"
              /\ result = "INTERRUPT" => signals > 0
              /\ result = "OK" => \/ ended = "newline"
                                  \/ ended # "none" /\ line > 0

(* A line cut short by a signal is never passed off as one the user ended. *)
InterruptReported ==
  Returned /\ ended = "signal" /\ line > 0 => result \in {"INTERRUPT", "SYSTEM"}

(* A signal that nanorl's handler takes while read() waits ends the call:    *)
(* the library does not go back to waiting, whatever comes in between.       *)
SignalEndsCall == hit ~> pc = "out"
=============================================================================
