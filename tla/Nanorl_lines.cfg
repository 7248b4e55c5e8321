SPECIFICATION Spec
CONSTANTS
  esc = esc
  brk = brk
  A = A
  B = B
  bs = bs
  x = x
  lead = lead
  cont = cont
  nl = nl
  eot = eot
  nul = nul
  star = star
  blank = blank
  prompt = prompt
  Byte <- MCByte
  EOT = eot
  Newline = nl
  Nul = nul
  Control <- MCControl
  LeadLen <- MCLeadLen
  Cont = {cont}
  BufSize = 4
  Streams <- MCStreams
  Preloads <- MCPreloads
  NoPreload = NoPreload
  Interrupts = FALSE
  Rows = 2
  Cols = 3
  Width <- MCWidth
  Blank = blank
  Char <- MCChar
  Setups <- MCSetups
  Star = star
  Starts <- MCStarts
  MaxLen = 16
  Meaning <- MCMeaning
  Handler <- MCHandler
  CustomIgnoreDefault = FALSE
INVARIANTS LineFaithful ShownBeforeWait
PROPERTIES CallEnds EveryStepCounts
CHECK_DEADLOCK FALSE
