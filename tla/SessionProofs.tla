---------------------------- MODULE SessionProofs ---------------------------
(***************************************************************************)
(* What a call of nanorl() gives back, for any list of handled signals and *)
(* any number of calls in any echo modes, on terminals and on pipes.       *)
(***************************************************************************)
EXTENDS Session, TLAPS

Actions == {"app", "nrl"}

(* Step by step: what is still as the call found it, and otherwise what is   *)
(* saved to make it so again.                                                *)
Home == pc = "out" /\ ~Unfinished

AttrsInv ==
  /\ pc \in {"attrs", "d_signals", "d_winch", "wipe", "farewell", "result"} \/ Home =>
       attrs = entry.attrs
  /\ pc \in {"winch", "signals", "io", "render", "loop", "read", "redraw", "stop", "d_attrs"} =>
       IF config.tty THEN old_attrs = entry.attrs ELSE attrs = entry.attrs

WinchInv ==
  /\ pc \in {"attrs", "winch", "wipe", "farewell", "result"} \/ Home => winch = entry.winch
  /\ pc \in {"signals", "io", "render", "loop", "read", "redraw", "stop", "d_attrs",
             "d_signals", "d_winch"} => old_winch = entry.winch

Saved == \A i \in 1..Len(Sigs) : old_handler[Sigs[i]] = entry.handler[Sigs[i]]

SignalsInv ==
  /\ pc \in {"attrs", "winch", "d_winch", "wipe", "farewell", "result"} \/ Home =>
       handler = entry.handler
  /\ pc = "signals" =>
       \A i \in 1..Len(Sigs) :
         IF i < next_sig THEN old_handler[Sigs[i]] = entry.handler[Sigs[i]]
         ELSE handler[Sigs[i]] = entry.handler[Sigs[i]]
  /\ pc \in {"io", "render", "loop", "read", "redraw", "stop", "d_attrs", "d_signals"} => Saved
  /\ pc = "d_signals" =>
       \A i \in 1..Len(Sigs) : i < next_sig => handler[Sigs[i]] = entry.handler[Sigs[i]]

(* How far the call has got: it has given up on nothing before it returns,   *)
(* and the loop has ended once deinit runs.                                  *)
StageInv ==
  /\ pc # "out" => gave_up = "nothing"
  /\ pc \in {"attrs", "winch", "signals", "io", "render", "loop", "read", "redraw"} =>
       ended = "none"

TableInv ==
  pc \in {"d_attrs", "d_signals", "d_winch", "wipe", "farewell", "result"}
    \/ (pc = "out" /\ ended # "none") => table = FALSE

(* Hidden text of this call is there from the first key to the wipe, or      *)
(* beyond if deinit does not get so far.                                     *)
Kept ==
  /\ Hidden
  /\ \/ pc \in {"loop", "read", "redraw", "stop", "d_attrs", "d_signals", "d_winch", "wipe"}
     \/ pc = "out" /\ gave_up = "d_attrs"

SecretInv ==
  /\ secret => entry.secret \/ Kept
  /\ Hidden /\ pc \in {"farewell", "result"} => ~secret
  /\ Hidden /\ pc = "out" /\ ended # "none" /\ gave_up # "d_attrs" => ~secret

(* The places of the chain of sigaction() calls. *)
PlaceInv ==
  /\ pc \in Steps
  /\ next_sig \in 1..(Len(Sigs) + 1)
  /\ handler \in [Sig -> Actions] /\ entry.handler \in [Sig -> Actions]
  /\ DOMAIN old_handler = Sig

Inv ==
  PlaceInv /\ StageInv /\ AttrsInv /\ WinchInv /\ SignalsInv /\ TableInv /\ SecretInv

-----------------------------------------------------------------------------
LEMMA Signals ==
  /\ Len(Sigs) \in Nat
  /\ \A i \in 1..Len(Sigs) : Sigs[i] \in Sig
  /\ \A s \in Sig : \E i \in 1..Len(Sigs) : s = Sigs[i]
  /\ \A i, j \in 1..Len(Sigs) : Sigs[i] = Sigs[j] => i = j
<1>1. Len(Sigs) \in Nat /\ DOMAIN Sigs = 1..Len(Sigs)
  BY SessionAssumption
<1>2. Sig = {Sigs[i] : i \in 1..Len(Sigs)}
  BY <1>1 DEF Sig, ToSet
<1> QED BY <1>1, <1>2, SessionAssumption DEF IsInjective

LEMMA InvInit == Init => Inv
<1> SUFFICES ASSUME Init PROVE Inv
  OBVIOUS
<1>1. PlaceInv
  BY Signals DEF Init, Now, PlaceInv, Steps, Actions
<1>2. StageInv /\ AttrsInv /\ WinchInv /\ SignalsInv /\ TableInv /\ SecretInv
  BY DEF Init, Now, Home, StageInv, AttrsInv, WinchInv, SignalsInv, TableInv, SecretInv
<1> QED BY <1>1, <1>2 DEF Inv

(* One handler saved and replaced.  No signal comes twice in the list: what  *)
(* is already saved is not overwritten with nanorl's own handler.            *)
LEMMA SetSignalInv == Inv /\ SetSignal => Inv'
<1> SUFFICES ASSUME Inv, SetSignal PROVE Inv'
  OBVIOUS
<1> DEFINE s == Sigs[next_sig]
<1>1. /\ pc = "signals" /\ next_sig \in 1..Len(Sigs) /\ next_sig' = next_sig + 1
      /\ pc' = IF next_sig = Len(Sigs) THEN "io" ELSE "signals"
      /\ old_handler' = [old_handler EXCEPT ![s] = handler[s]]
      /\ handler' = [handler EXCEPT ![s] = "nrl"]
      /\ UNCHANGED <<tty, winch, old_winch, table, secret, outcome, ended, config,
                     entry>>
  BY Signals DEF SetSignal, Step, Inv, PlaceInv, env, local
<1>2. s \in Sig /\ DOMAIN old_handler = Sig /\ handler \in [Sig -> Actions]
  BY <1>1, Signals DEF Inv, PlaceInv
<1>3. PlaceInv'
  BY <1>1, <1>2, Signals DEF Inv, PlaceInv, Steps, Actions
<1>4. \A i \in 1..Len(Sigs) :
        IF i < next_sig' THEN old_handler'[Sigs[i]] = entry.handler[Sigs[i]]
        ELSE handler'[Sigs[i]] = entry.handler[Sigs[i]]
  <2> TAKE i \in 1..Len(Sigs)
  <2>1. IF i < next_sig THEN old_handler[Sigs[i]] = entry.handler[Sigs[i]]
        ELSE handler[Sigs[i]] = entry.handler[Sigs[i]]
    BY <1>1 DEF Inv, SignalsInv, Saved
  <2>2. CASE i = next_sig
    BY <1>1, <1>2, <2>1, <2>2, Signals
  <2>3. CASE i # next_sig
    <3>1. Sigs[i] \in Sig /\ Sigs[i] # s
      BY <1>1, <2>3, Signals
    <3>2. old_handler'[Sigs[i]] = old_handler[Sigs[i]] /\ handler'[Sigs[i]] = handler[Sigs[i]]
      BY <1>1, <1>2, <3>1
    <3> QED BY <1>1, <2>1, <2>3, <3>2, Signals
  <2> QED BY <2>2, <2>3
<1>5. SignalsInv'
  BY SMTT(30), <1>1, <1>4, Signals DEF SignalsInv, Saved, Home
<1>6. StageInv' /\ AttrsInv' /\ WinchInv' /\ TableInv' /\ SecretInv'
  BY <1>1 DEF Inv, StageInv, AttrsInv, WinchInv, TableInv, SecretInv, Kept, Home, tty,
              outcome, Hidden
<1> QED BY <1>3, <1>5, <1>6 DEF Inv

LEMMA RestoreSignalInv == Inv /\ RestoreSignal => Inv'
<1> SUFFICES ASSUME Inv, RestoreSignal PROVE Inv'
  OBVIOUS
<1> DEFINE s == Sigs[next_sig]
<1>1. /\ pc = "d_signals" /\ next_sig \in 1..Len(Sigs) /\ next_sig' = next_sig + 1
      /\ pc' = IF next_sig = Len(Sigs) THEN "d_winch" ELSE "d_signals"
      /\ handler' = [handler EXCEPT ![s] = old_handler[s]]
      /\ UNCHANGED <<tty, old_handler, winch, old_winch, table, secret, outcome, ended,
                     config, entry>>
  BY Signals DEF RestoreSignal, Step, Inv, PlaceInv, env, local
<1>2. /\ s \in Sig /\ handler \in [Sig -> Actions] /\ entry.handler \in [Sig -> Actions]
      /\ old_handler[s] = entry.handler[s]
  BY <1>1, Signals DEF Inv, PlaceInv, SignalsInv, Saved
<1>3. handler' \in [Sig -> Actions]
  BY <1>1, <1>2
<1>4. PlaceInv'
  BY <1>1, <1>3, Signals DEF Inv, PlaceInv, Steps
<1>5. \A i \in 1..Len(Sigs) :
        /\ old_handler[Sigs[i]] = entry.handler[Sigs[i]]
        /\ i < next_sig' => handler'[Sigs[i]] = entry.handler[Sigs[i]]
  <2> TAKE i \in 1..Len(Sigs)
  <2>1. /\ old_handler[Sigs[i]] = entry.handler[Sigs[i]]
        /\ i < next_sig => handler[Sigs[i]] = entry.handler[Sigs[i]]
    BY <1>1 DEF Inv, SignalsInv, Saved
  <2>2. handler'[Sigs[i]] = IF Sigs[i] = s THEN old_handler[s] ELSE handler[Sigs[i]]
    BY <1>1, <1>2, Signals
  <2> QED BY <1>1, <1>2, <2>1, <2>2, Signals
<1>6. SignalsInv'
  <2>1. CASE next_sig = Len(Sigs)
    <3>1. \A t \in Sig : handler'[t] = entry.handler[t]
      BY <1>1, <1>5, <2>1, Signals
    <3>2. handler' = entry.handler
      BY <1>2, <1>3, <3>1
    <3> QED BY <1>1, <2>1, <3>2 DEF SignalsInv, Home
  <2>2. CASE next_sig # Len(Sigs)
    BY <1>1, <1>5, <2>2 DEF SignalsInv, Saved, Home
  <2> QED BY <2>1, <2>2
<1>7. StageInv' /\ AttrsInv' /\ WinchInv' /\ TableInv' /\ SecretInv'
  BY <1>1 DEF Inv, StageInv, AttrsInv, WinchInv, TableInv, SecretInv, Kept, Home, tty,
              outcome, Hidden
<1> QED BY <1>4, <1>6, <1>7 DEF Inv

LEMMA BeginInv ==
  ASSUME Inv, Begin, pc' \in {"out", "attrs"}
  PROVE  Inv'
<1>1. /\ entry' = [attrs |-> attrs, handler |-> handler, winch |-> winch, secret |-> secret]
      /\ pc = "out" /\ ended' = "none" /\ gave_up' = "nothing"
      /\ UNCHANGED <<next_sig, tty, actions, table, secret>>
  BY DEF Begin, Now
<1>2. PlaceInv'
  BY <1>1 DEF Inv, PlaceInv, Steps, actions
<1>3. StageInv' /\ AttrsInv' /\ WinchInv' /\ SignalsInv' /\ TableInv' /\ SecretInv'
  BY <1>1 DEF StageInv, AttrsInv, WinchInv, SignalsInv, TableInv, SecretInv, tty, actions
<1> QED BY <1>2, <1>3 DEF Inv

(* The other steps go from one place to a fixed other one. *)
LEMMA PlaceKept ==
  ASSUME PlaceInv, pc' \in Steps, next_sig' \in {1, next_sig},
         UNCHANGED <<handler, old_handler, entry>>
  PROVE  PlaceInv'
BY Signals DEF PlaceInv

LEMMA InitStepsInv == Inv /\ InitSteps => Inv'
<1> SUFFICES ASSUME Inv, InitSteps PROVE Inv'
  OBVIOUS
<1> USE DEF Inv, Steps, StageInv, AttrsInv, WinchInv, SignalsInv, Saved, TableInv, SecretInv,
            Kept, Home, Unfinished, Hidden, tty, actions, outcome, local, env
<1>1. CASE SetAttrs
  BY <1>1, PlaceKept DEF SetAttrs
<1>2. CASE SetWinch
  BY <1>2, PlaceKept DEF SetWinch
<1>3. CASE SetSignal
  BY <1>3, SetSignalInv
<1>4. CASE InitIo
  BY <1>4, PlaceKept DEF InitIo
<1>5. CASE InitRender
  BY <1>5, PlaceKept DEF InitRender
<1> QED BY <1>1, <1>2, <1>3, <1>4, <1>5 DEF InitSteps

LEMMA LoopInv == Inv /\ (LoopSteps \/ Input) => Inv'
<1> SUFFICES ASSUME Inv, LoopSteps \/ Input PROVE Inv'
  OBVIOUS
<1> USE DEF Inv, Steps, StageInv, AttrsInv, WinchInv, SignalsInv, Saved, TableInv, SecretInv,
            Kept, Home, Unfinished, Hidden, tty, actions, outcome, local, env
<1>1. CASE EnterRead
  BY <1>1, PlaceKept DEF EnterRead
<1>2. CASE Redraw
  BY <1>2, PlaceKept DEF Redraw
<1>3. CASE ReadEdit
  BY <1>3, PlaceKept DEF ReadEdit
<1>4. CASE ReadStop
  BY <1>4, PlaceKept DEF ReadStop, Stop
<1> QED BY <1>1, <1>2, <1>3, <1>4 DEF LoopSteps, Input

LEMMA DeinitInv == Inv /\ DeinitSteps => Inv'
<1> SUFFICES ASSUME Inv, DeinitSteps PROVE Inv'
  OBVIOUS
<1> USE DEF Inv, Steps, StageInv, AttrsInv, WinchInv, SignalsInv, Saved, TableInv, SecretInv,
            Kept, Home, Unfinished, Hidden, tty, actions, outcome, local, env
<1>1. CASE ClearTable
  BY <1>1, PlaceKept DEF ClearTable
<1>2. CASE RestoreAttrs
  BY <1>2, PlaceKept DEF RestoreAttrs
<1>3. CASE RestoreSignal
  BY <1>3, RestoreSignalInv
<1>4. CASE RestoreWinch
  BY <1>4, PlaceKept DEF RestoreWinch
<1>5. CASE WipeBuffers
  BY <1>5, PlaceKept DEF WipeBuffers
<1>6. CASE Farewell
  BY <1>6, PlaceKept DEF Farewell
<1>7. CASE Return
  BY <1>7, PlaceKept DEF Return
<1> QED BY <1>1, <1>2, <1>3, <1>4, <1>5, <1>6, <1>7 DEF DeinitSteps

(* Giving up leaves everything as it is, but for the handlers at the first   *)
(* flush and the attributes already read.                                    *)
LEMMA GiveUpInv ==
  ASSUME Inv, SystemCall, NEW why, GiveUp(why),
         UNCHANGED <<next_sig, actions, secret, local, config, entry>>
  PROVE  Inv'
<1> USE DEF Inv, Steps, actions, local
<1>1. pc \in {"attrs", "d_attrs", "render", "io", "farewell"} /\ pc' = "out" /\ gave_up' = pc
  BY DEF SystemCall, GiveUp
<1>2. PlaceInv'
  BY <1>1, PlaceKept
<1>3. AttrsInv' /\ WinchInv' /\ SignalsInv' /\ StageInv'
  BY <1>1 DEF AttrsInv, WinchInv, SignalsInv, StageInv, Home, Unfinished, GiveUp
<1>4. TableInv'
  BY <1>1 DEF TableInv, StageInv, GiveUp
<1>5. SecretInv'
  BY <1>1 DEF SecretInv, StageInv, Kept, Hidden
<1> QED BY <1>2, <1>3, <1>4, <1>5

(* Failures and signals, wherever they come. *)
LEMMA EnvironmentInv == Inv /\ (SystemError \/ \E s \in Sig : Signal(s)) => Inv'
<1> SUFFICES ASSUME Inv, SystemError \/ \E s \in Sig : Signal(s) PROVE Inv'
  OBVIOUS
<1>1. CASE SystemError
  BY <1>1, GiveUpInv DEF SystemError, env
<1>2. CASE \E s \in Sig : Signal(s)
  <2>1. Interrupts /\ UNCHANGED <<next_sig, actions, secret, config, entry>>
    BY <1>2 DEF Signal
  <2>2. CASE SystemCall /\ GiveUp("EINTR") /\ UNCHANGED local
    BY <2>1, <2>2, GiveUpInv
  <2>3. CASE ~(SystemCall /\ GiveUp("EINTR") /\ UNCHANGED local)
    <3>1. /\ (pc' = pc /\ UNCHANGED local) \/ (pc = "read" /\ pc' = "stop")
          /\ UNCHANGED <<tty, table, outcome>>
      BY <2>1, <2>3 DEF Interrupts, Stop
    <3> USE DEF Inv, Steps, StageInv, AttrsInv, WinchInv, SignalsInv, Saved, TableInv,
                SecretInv, Kept, Home, Unfinished, Hidden, tty, actions, outcome, local
    <3>2. PlaceInv'
      BY <2>1, <3>1, PlaceKept DEF PlaceInv
    <3> QED BY <2>1, <3>1, <3>2
  <2> QED BY <2>2, <2>3
<1> QED BY <1>1, <1>2

LEMMA InvNext == Inv /\ [Next]_vars => Inv'
<1> SUFFICES ASSUME Inv, [Next]_vars PROVE Inv'
  OBVIOUS
<1>1. CASE Call
  BY <1>1, BeginInv DEF Call
<1>2. CASE Refuse
  BY <1>2, BeginInv DEF Refuse, Begin
<1>3. CASE InitSteps
  BY <1>3, InitStepsInv
<1>4. CASE LoopSteps \/ Input
  BY <1>4, LoopInv
<1>5. CASE DeinitSteps
  BY <1>5, DeinitInv
<1>6. CASE SystemError \/ \E s \in Sig : Signal(s)
  BY <1>6, EnvironmentInv
<1>7. CASE UNCHANGED vars
  BY <1>7 DEF vars, tty, actions, outcome, local, env, Inv, PlaceInv, StageInv, AttrsInv,
              WinchInv, SignalsInv, Saved, TableInv, SecretInv, Kept, Home, Unfinished, Hidden
<1> QED BY <1>1, <1>2, <1>3, <1>4, <1>5, <1>6, <1>7 DEF Next

-----------------------------------------------------------------------------
(* Whatever fails and wherever signals arrive, a call gives back the         *)
(* attributes and all dispositions it found, and the handler table once it   *)
(* has read, unless it gave up at the first flush, the query of init or the  *)
(* terminal's attributes in deinit.                                          *)
THEOREM CallRestores == Spec => []RestoredOnReturn
<1>1. Inv => RestoredOnReturn
  BY DEF Inv, AttrsInv, WinchInv, SignalsInv, TableInv, Home, RestoredOnReturn, Returned
<1> QED BY InvInit, InvNext, <1>1, PTL DEF Spec

(* No hidden text of a call stays in the static buffers, whatever fails and  *)
(* wherever signals arrive, unless deinit gave up at the attributes; a later *)
(* call with echo off wipes what such a call left.                           *)
THEOREM CallWipes == Spec => []SecretsWiped
<1>1. Inv => SecretsWiped
  BY DEF Inv, SecretInv, Kept, SecretsWiped, Returned
<1> QED BY InvInit, InvNext, <1>1, PTL DEF Spec

-----------------------------------------------------------------------------
(* The error code: what ended the loop, and whether a signal interrupted it, *)
(* is still to be seen in eof and errno when the code is chosen.             *)
Ended == pc \in {"stop", "d_attrs", "d_signals", "d_winch", "wipe", "farewell", "result"}

CodeInv ==
  /\ line \in Nat /\ signals \in Nat
  /\ errno = "EINTR" => signals > 0
  /\ Ended => /\ ended # "none"
              /\ eof => ended # "newline"
              /\ ~eof => ended = "newline"
  /\ pc = "out" => /\ result = "EOF" => line = 0 /\ ended # "newline"
                   /\ result = "INTERRUPT" => signals > 0
                   /\ result = "OK" => ended = "newline" \/ (ended # "none" /\ line > 0)

LEMMA CodeInit == Init => CodeInv
BY DEF Init, CodeInv, Ended

LEMMA CodeNext == CodeInv /\ [Next]_vars => CodeInv'
<1> SUFFICES ASSUME CodeInv, [Next]_vars PROVE CodeInv'
  OBVIOUS
<1> USE DEF CodeInv, Ended, outcome, local, env
<1>1. CASE Call \/ Refuse
  BY <1>1 DEF Call, Refuse, Begin
<1>2. CASE InitSteps
  BY <1>2, Signals DEF InitSteps, SetAttrs, SetWinch, SetSignal, Step, InitIo, InitRender
<1>3. CASE LoopSteps \/ Input
  BY <1>3, SessionAssumption DEF LoopSteps, EnterRead, Redraw, Input, ReadEdit, ReadStop, Stop
<1>4. CASE DeinitSteps
  <2>1. CASE ClearTable \/ RestoreAttrs \/ RestoreSignal
    BY <1>4, <2>1, Signals DEF ClearTable, RestoreAttrs, RestoreSignal, Step
  <2>2. CASE RestoreWinch \/ WipeBuffers \/ Farewell
    BY <1>4, <2>2 DEF RestoreWinch, WipeBuffers, Farewell
  <2>3. CASE Return
    BY <1>4, <2>3 DEF Return, ErrorCode
  <2> QED BY <1>4, <2>1, <2>2, <2>3 DEF DeinitSteps
<1>5. CASE SystemError
  BY <1>5 DEF SystemError, GiveUp
<1>6. CASE \E s \in Sig : Signal(s)
  BY <1>6 DEF Signal, Interrupts, GiveUp, Stop
<1>7. CASE UNCHANGED vars
  BY <1>7 DEF vars
<1> QED BY <1>1, <1>2, <1>3, <1>4, <1>5, <1>6, <1>7 DEF Next

(* The error code is honest wherever signals arrive and whatever fails. *)
THEOREM CodesAreHonest == Spec => []ErrorCodeHonest
<1>1. CodeInv => ErrorCodeHonest
  BY DEF CodeInv, ErrorCodeHonest, Returned
<1> QED BY CodeInit, CodeNext, <1>1, PTL DEF Spec

(* On a terminal EINTR survives deinit: isatty() does not fail, and nothing  *)
(* else there touches errno without making the call fail.                    *)
InterruptInv ==
  /\ config \in Configs
  /\ Ended /\ ended = "signal" => errno = "EINTR" /\ eof
  /\ pc = "out" /\ ended = "signal" /\ line > 0 => result \in {"INTERRUPT", "SYSTEM"}

LEMMA InterruptNext ==
  ASSUME \A c \in Configs : c.tty
  PROVE  InterruptInv /\ [Next]_vars => InterruptInv'
<1> SUFFICES ASSUME InterruptInv, [Next]_vars PROVE InterruptInv'
  OBVIOUS
<1> USE DEF InterruptInv, Ended, outcome, local, env
<1>1. CASE Call \/ Refuse
  BY <1>1 DEF Call, Refuse, Begin
<1>2. CASE InitSteps
  BY <1>2, Signals DEF InitSteps, SetAttrs, SetWinch, SetSignal, Step, InitIo, InitRender
<1>3. CASE LoopSteps \/ Input
  BY <1>3 DEF LoopSteps, EnterRead, Redraw, Input, ReadEdit, ReadStop, Stop
<1>4. CASE DeinitSteps
  <2>1. CASE ClearTable \/ RestoreAttrs \/ RestoreSignal
    BY <1>4, <2>1, Signals DEF ClearTable, RestoreAttrs, RestoreSignal, Step
  <2>2. CASE RestoreWinch \/ WipeBuffers \/ Farewell
    BY <1>4, <2>2 DEF RestoreWinch, WipeBuffers, Farewell
  <2>3. CASE Return
    BY <1>4, <2>3 DEF Return, ErrorCode
  <2> QED BY <1>4, <2>1, <2>2, <2>3 DEF DeinitSteps
<1>5. CASE SystemError
  BY <1>5 DEF SystemError, GiveUp
<1>6. CASE \E s \in Sig : Signal(s)
  BY <1>6 DEF Signal, Interrupts, GiveUp, Stop
<1>7. CASE UNCHANGED vars
  BY <1>7 DEF vars
<1> QED BY <1>1, <1>2, <1>3, <1>4, <1>5, <1>6, <1>7 DEF Next

(* Where read_file is always a terminal, no interrupted line is passed off as *)
(* a complete one; on a pipe one is (run Session_pipe_interrupt).             *)
THEOREM TerminalsReportInterrupts ==
  ASSUME \A c \in Configs : c.tty
  PROVE  Spec => []InterruptReported
<1>1. Init => InterruptInv
  BY DEF Init, InterruptInv, Ended
<1>2. InterruptInv => InterruptReported
  BY DEF InterruptInv, InterruptReported, Returned
<1> QED BY <1>1, InterruptNext, <1>2, PTL DEF Spec

-----------------------------------------------------------------------------
(* Whatever is put back in force was saved: what deinit takes from the saved *)
(* dispositions and attributes, the same call has put there, however earlier *)
(* calls ended.                                                              *)
SavedInv ==
  /\ pc \notin {"out", "attrs"} /\ config.tty => old_attrs \in {"cooked", "raw"}
  /\ pc \notin {"out", "attrs", "winch"} => old_winch \in Actions
  /\ pc \notin {"out", "attrs", "winch"} =>
       \A i \in 1..Len(Sigs) :
         pc # "signals" \/ i < next_sig => old_handler[Sigs[i]] \in Actions

TypeInv == TypeOK /\ SavedInv

LEMMA LineBound == MaxLine \in Nat /\ 0 \in 0..MaxLine
BY SessionAssumption

LEMMA TypeInit == Init => TypeInv
<1> SUFFICES ASSUME Init PROVE TypeInv
  OBVIOUS
<1>1. TypeOK
  <2>1. handler \in [Sig -> {"app", "nrl"}] /\ old_handler \in [Sig -> {"app", "nrl", "none"}]
    BY DEF Init
  <2>2. next_sig \in 1..(Len(Sigs) + 1) /\ line \in 0..MaxLine
    BY Signals, LineBound DEF Init
  <2>3. {table, secret, eof} \subseteq BOOLEAN
    BY DEF Init
  <2> QED BY <2>1, <2>2, <2>3 DEF Init, TypeOK, Steps
<1>2. SavedInv
  BY DEF Init, SavedInv
<1> QED BY <1>1, <1>2 DEF TypeInv

(* A step that leaves the dispositions and the saved ones alone, or ends the *)
(* call.                                                                     *)
LEMMA SavedKept ==
  ASSUME SavedInv,
         \/ pc' = "out"
         \/ /\ UNCHANGED <<config, old_attrs, old_handler, old_winch>>
            /\ \/ pc' = pc /\ next_sig' = next_sig
               \/ pc \notin {"out", "attrs", "winch", "signals"} /\ pc' # "signals"
  PROVE  SavedInv'
BY DEF SavedInv, Actions

LEMMA SetSignalType == TypeInv /\ SetSignal => TypeInv'
<1> SUFFICES ASSUME TypeInv, SetSignal PROVE TypeInv'
  OBVIOUS
<1> DEFINE s == Sigs[next_sig]
<1>1. /\ pc = "signals" /\ next_sig \in 1..Len(Sigs) /\ next_sig' = next_sig + 1
      /\ pc' = IF next_sig = Len(Sigs) THEN "io" ELSE "signals"
      /\ old_handler' = [old_handler EXCEPT ![s] = handler[s]]
      /\ handler' = [handler EXCEPT ![s] = "nrl"]
      /\ UNCHANGED <<tty, winch, old_winch, table, secret, errno, intr_code, outcome,
                     local, env>>
  BY Signals DEF SetSignal, Step, TypeInv, TypeOK
<1>2. s \in Sig /\ handler[s] \in Actions /\ old_handler \in [Sig -> Actions \cup {"none"}]
  BY <1>1, Signals DEF TypeInv, TypeOK, Actions
<1>3. TypeOK'
  BY <1>1, <1>2, Signals DEF TypeInv, TypeOK, Steps, Actions, tty, outcome, local, env
<1>4. \A i \in 1..Len(Sigs) : i < next_sig' => old_handler'[Sigs[i]] \in Actions
  <2> TAKE i \in 1..Len(Sigs)
  <2>1. Sigs[i] \in Sig /\ (i < next_sig => old_handler[Sigs[i]] \in Actions)
    BY <1>1, Signals DEF TypeInv, SavedInv
  <2>2. old_handler'[Sigs[i]] = IF Sigs[i] = s THEN handler[s] ELSE old_handler[Sigs[i]]
    BY <1>1, <1>2, <2>1
  <2> QED BY <1>1, <1>2, <2>1, <2>2
<1>5. SavedInv'
  <2>1. \A i \in 1..Len(Sigs) : pc' # "signals" => i < next_sig'
    BY <1>1, Signals
  <2>2. UNCHANGED <<config, old_attrs, old_winch>> /\ pc' \in {"io", "signals"}
    BY <1>1 DEF tty, env
  <2> QED BY <1>1, <1>4, <2>1, <2>2 DEF TypeInv, SavedInv
<1> QED BY <1>3, <1>5 DEF TypeInv

LEMMA RestoreSignalType == TypeInv /\ RestoreSignal => TypeInv'
<1> SUFFICES ASSUME TypeInv, RestoreSignal PROVE TypeInv'
  OBVIOUS
<1> DEFINE s == Sigs[next_sig]
<1>1. /\ pc = "d_signals" /\ next_sig \in 1..Len(Sigs) /\ next_sig' = next_sig + 1
      /\ pc' = IF next_sig = Len(Sigs) THEN "d_winch" ELSE "d_signals"
      /\ handler' = [handler EXCEPT ![s] = old_handler[s]]
      /\ UNCHANGED <<tty, old_handler, winch, old_winch, table, secret, errno, intr_code,
                     outcome, local, env>>
  BY Signals DEF RestoreSignal, Step, TypeInv, TypeOK
<1>2. s \in Sig /\ old_handler[s] \in Actions
  BY <1>1, Signals DEF TypeInv, SavedInv
<1>3. TypeOK'
  BY <1>1, <1>2, Signals DEF TypeInv, TypeOK, Steps, Actions, tty, outcome, local, env
<1>4. SavedInv'
  BY <1>1, SavedKept DEF TypeInv, tty, env
<1> QED BY <1>3, <1>4 DEF TypeInv

LEMMA GiveUpType ==
  ASSUME TypeInv, NEW why \in {"EIO", "EINTR"}, GiveUp(why), intr_code' \in Sig \cup {"none"},
         UNCHANGED <<next_sig, actions, secret, local>>
  PROVE  TypeInv'
<1>1. SavedInv'
  BY SavedKept DEF TypeInv, GiveUp
<1>2. table' \in BOOLEAN /\ old_attrs' \in {"cooked", "raw", "none"}
  BY DEF TypeInv, TypeOK, GiveUp
<1>3. TypeOK'
  BY <1>2 DEF TypeInv, TypeOK, GiveUp, Steps, actions, local
<1> QED BY <1>1, <1>3 DEF TypeInv

LEMMA TypeNext == TypeInv /\ [Next]_vars => TypeInv'
<1> SUFFICES ASSUME TypeInv, [Next]_vars PROVE TypeInv'
  OBVIOUS
<1> USE DEF TypeInv, TypeOK, Steps, tty, actions, outcome, local, env
<1>1. CASE Call \/ Refuse
  <2>1. TypeOK'
    BY <1>1, LineBound DEF Call, Refuse, Begin
  <2>2. pc' \in {"out", "attrs"}
    BY <1>1 DEF Call, Refuse, Begin
  <2> QED BY <2>1, <2>2 DEF SavedInv
<1>2. CASE SetAttrs
  <2>1. TypeOK'
    BY <1>2 DEF SetAttrs
  <2> QED BY <1>2, <2>1 DEF SetAttrs, SavedInv
<1>3. CASE SetWinch
  <2>1. TypeOK'
    BY <1>3, Signals DEF SetWinch
  <2>2. SavedInv'
    BY <1>3 DEF SetWinch, SavedInv, Actions
  <2> QED BY <2>1, <2>2
<1>4. CASE InitIo \/ InitRender
  <2>1. TypeOK'
    BY <1>4 DEF InitIo, InitRender
  <2> QED BY <1>4, <2>1, SavedKept DEF InitIo, InitRender
<1>5. CASE LoopSteps
  <2>1. TypeOK'
    BY <1>5 DEF LoopSteps, EnterRead, Redraw
  <2> QED BY <1>5, <2>1, SavedKept DEF LoopSteps, EnterRead, Redraw
<1>6. CASE Input
  <2>1. line' \in 0..MaxLine
    BY <1>6, LineBound DEF Input, ReadEdit, ReadStop, Stop
  <2>2. secret' \in BOOLEAN /\ eof' \in BOOLEAN
    BY <1>6 DEF Input, ReadEdit, ReadStop, Stop
  <2>3. TypeOK'
    BY <1>6, <2>1, <2>2 DEF Input, ReadEdit, ReadStop, Stop
  <2> QED BY <1>6, <2>3, SavedKept DEF Input, ReadEdit, ReadStop, Stop
<1>7. CASE ClearTable \/ WipeBuffers \/ Farewell \/ Return
  <2>1. TypeOK'
    BY ZenonT(30), <1>7 DEF ClearTable, WipeBuffers, Farewell, Return, ErrorCode
  <2> QED BY <1>7, <2>1, SavedKept DEF ClearTable, WipeBuffers, Farewell, Return
<1>8. CASE RestoreAttrs \/ RestoreWinch
  <2>1. TypeOK'
    BY <1>8, Signals DEF RestoreAttrs, RestoreWinch, SavedInv, Actions
  <2> QED BY <1>8, <2>1, SavedKept DEF RestoreAttrs, RestoreWinch
<1>9. CASE SystemError
  BY <1>9, GiveUpType DEF SystemError
<1>10. CASE \E s \in Sig : Signal(s)
  <2>1. PICK s \in Sig : Signal(s)
    BY <1>10
  <2>2. CASE SystemCall /\ GiveUp("EINTR") /\ UNCHANGED local
    BY <2>1, <2>2, GiveUpType DEF Signal
  <2>3. CASE ~(SystemCall /\ GiveUp("EINTR") /\ UNCHANGED local)
    <3>1. /\ pc' = pc \/ (pc = "read" /\ pc' = "stop")
          /\ errno' \in {errno, "EINTR"} /\ eof' \in BOOLEAN /\ line' = line
          /\ UNCHANGED <<tty, table, outcome>>
      BY <2>1, <2>3 DEF Signal, Interrupts, Stop
    <3>2. TypeOK'
      BY <2>1, <3>1 DEF Signal
    <3> QED BY <2>1, <3>1, <3>2, SavedKept DEF Signal
  <2> QED BY <2>2, <2>3
<1>11. CASE UNCHANGED vars
  <2>1. TypeOK'
    BY <1>11 DEF vars
  <2> QED BY <1>11, <2>1, SavedKept DEF vars
<1> QED BY <1>1, <1>2, <1>3, <1>4, <1>5, <1>6, <1>7, <1>8, <1>9, <1>10, <1>11,
           SetSignalType, RestoreSignalType DEF Next, InitSteps, DeinitSteps

(* Whatever fails and wherever signals arrive, no disposition and no         *)
(* attributes are ever put in force that were not saved before.              *)
THEOREM SessionTypeCorrect == Spec => []TypeOK
<1>1. TypeInv => TypeOK
  BY DEF TypeInv
<1> QED BY TypeInit, TypeNext, <1>1, PTL DEF Spec
=============================================================================
