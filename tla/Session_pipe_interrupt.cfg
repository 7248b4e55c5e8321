SPECIFICATION Spec
CONSTANTS
  Sigs <- TwoSigs
  Configs <- Pipes
  CanFail = {}
  SignalAt <- Waiting
  MaxCalls = 1
  MaxLine = 1
  MaxSignals = 1
INVARIANT InterruptReported
CHECK_DEADLOCK FALSE
