SPECIFICATION FairSpec
CONSTANTS
  csi = csi
  semi = semi
  H = H
  R = R
  n = n
  x = x
  left = left
  CursorAddress <- Addressing
  User6 <- ReportFormat
  User7 <- Asking
  Far = 3
  Sizes <- TinySizes
  Ioctls = {TRUE, FALSE}
  BufSize = 7
  Garbage <- Maybe
  Pipe = FALSE
  Contents <- Nothing
  Text = x
  Motion = left
  TypeAt = {"init", "idle", "ahead", "redraw", "query"}
  ResizeAt = {"init", "idle", "ahead", "redraw", "query"}
  InterruptAt = {"init", "query"}
  FailAt = {"init", "idle", "ahead", "redraw", "query"}
  MaxKeys = 2
  MaxResizes = 1
  MaxFaults = 1
INVARIANTS TypeOK PositionTrue ReportFits ReportNotTyped StraysAreFaults
PROPERTY QueryReturns
CHECK_DEADLOCK FALSE
