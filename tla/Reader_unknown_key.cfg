SPECIFICATION Spec
CONSTANTS
  esc = esc
  brk = brk
  A = A
  B = B
  x = x
  lead = lead
  cont = cont
  nl = nl
  eot = eot
  nul = nul
  Byte <- MCByte
  EOT = eot
  Newline = nl
  Nul = nul
  Control <- MCControl
  LeadLen <- MCLeadLen
  Cont = {cont}
  Keys <- Arrows
  BufSize = 4
  Streams <- Unknown
  Preloads <- NotPreloaded
  NoPreload = NoPreload
  Interrupts = FALSE
  Sessions = 1
INVARIANT EventsFaithful
CHECK_DEADLOCK FALSE
