SPECIFICATION FairSpec
CONSTANTS
  csi = csi
  semi = semi
  H = H
  R = R
  n = n
  x = x
  left = left
  CursorAddress <- Addressing
  User6 <- ReportFormat
  User7 <- Asking
  Far = 9
  Sizes <- TwoSizes
  Ioctls = {TRUE}
  BufSize = 6
  Garbage <- Uninitialised
  Pipe = TRUE
  Contents <- Line
  Text = x
  Motion = left
  TypeAt = {}
  ResizeAt = {}
  InterruptAt = {}
  FailAt = {}
  MaxKeys = 2
  MaxResizes = 2
  MaxFaults = 1
PROPERTY QueryReturns
CHECK_DEADLOCK FALSE
