----------------------------- MODULE MCSession ------------------------------
(* Small instances of Session for TLC. *)
EXTENDS Session

Config(mode, t, s) == [valid |-> TRUE, echo_mode |-> mode, tty |-> t, smart |-> s]

Terminals == {Config("on", TRUE, TRUE), Config("obscured", TRUE, TRUE),
              Config("off", TRUE, FALSE),
              [Config("on", TRUE, TRUE) EXCEPT !.valid = FALSE]}
Pipes == {Config("on", FALSE, FALSE)}

TwoSigs == <<"INT", "TERM">>

(* Where the signals of the pipe arrive: in a read(). *)
Waiting == {"read"}
=============================================================================
