SPECIFICATION FairSpec
CONSTANTS
  Sigs <- TwoSigs
  Configs <- Terminals
  CanFail <- Steps
  SignalAt <- Steps
  MaxCalls = 3
  MaxLine = 2
  MaxSignals = 2
INVARIANTS TypeOK RestoredOnReturn SecretsWiped ErrorCodeHonest InterruptReported
PROPERTY SignalEndsCall
CHECK_DEADLOCK FALSE
