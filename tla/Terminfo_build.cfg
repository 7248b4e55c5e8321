SPECIFICATION Spec
CONSTANTS
  esc = esc
  brk = brk
  A = A
  B = B
  bs = bs
  cap = cap
  none = none
  unset = unset
  vt = vt
  xterm = xterm
  usr = usr
  own = own
  alt = alt
  sys = sys
  lib = lib
  Edge <- MCEdge
  Strings <- MCStrings
  NoKey = none
  CtrlH <- CtrlHKey
  Backspace = 2
  Dirs <- MCDirs
  Envs <- MCEnvs
  Unset = unset
  Xterms = {xterm}
  System <- MCSystem
  Disks <- MCDisks
  NoEntry = NoEntry
  Fast <- MCFast
  InputIdx <- Inputs
  CustomIdx <- Customs
  OutputIdx <- Outputs
  SpecialIdx <- Specials
  Wild <- WildKey
  MaxCalls = 2
INVARIANTS TypeOK TreeIsKeys LastKeyWins KindMatches FirstEntryWins
PROPERTY CapsKept
CHECK_DEADLOCK FALSE
