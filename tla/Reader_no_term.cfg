SPECIFICATION LiveSpec
CONSTANTS
  esc = esc
  brk = brk
  A = A
  B = B
  x = x
  lead = lead
  cont = cont
  nl = nl
  eot = eot
  nul = nul
  Byte <- MCByte
  EOT = eot
  Newline = nl
  Nul = nul
  Control <- MCControl
  LeadLen <- MCLeadLen
  Cont = {cont}
  Keys <- NoKeys
  BufSize = 4
  Streams <- PlainOrBroken
  Preloads <- Preloaded
  NoPreload = NoPreload
  Interrupts = TRUE
  Sessions = 2
INVARIANTS EventsFaithful NoByteLost
PROPERTIES CallEnds EveryStepCounts
CHECK_DEADLOCK FALSE
