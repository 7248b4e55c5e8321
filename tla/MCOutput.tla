------------------------------ MODULE MCOutput ------------------------------
(* Small instances of Output for TLC. *)
EXTENDS Output

(* Shorter than the buffer, as long as it, longer. *)
ThreeLengths == {1, 3, 4}

Config(mode, fails, short) == [echo_mode |-> mode, fails |-> fails, short |-> short]

(* Every echo mode, the hidden one with a file that takes what it is given,  *)
(* the others with files that may do anything.                               *)
MixedConfigs == {Config("on", TRUE, FALSE), Config("obscured", FALSE, FALSE),
                 Config("off", TRUE, TRUE)}
=============================================================================
