SPECIFICATION Spec
CONSTANTS
  esc = esc
  brk = brk
  A = A
  B = B
  x = x
  lead = lead
  cont = cont
  nl = nl
  eot = eot
  nul = nul
  Byte <- MCByte
  EOT = eot
  Newline = nl
  Nul = nul
  Control <- MCControl
  LeadLen <- MCLeadLen
  Cont = {cont}
  Keys <- Arrows
  BufSize = 4
  Streams <- Typed
  Preloads <- Preloaded
  NoPreload = NoPreload
  Interrupts = FALSE
  Sessions = 2
INVARIANTS TypeOK ReadsInBounds NoByteLost EventsFaithful WaitsOnlyIfIncomplete
PROPERTY EveryStepCounts
CHECK_DEADLOCK FALSE
