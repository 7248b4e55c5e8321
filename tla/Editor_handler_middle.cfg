SPECIFICATION Spec
CONSTANTS
  a = a
  b = b
  wide = wide
  mark = mark
  star = star
  blank = blank
  prompt = prompt
  Rows = 2
  Cols = 3
  Width <- MCWidth
  Blank = blank
  Char <- Chars
  Texts <- MCTexts
  Replies <- MiddleReplies
  Setups <- MCSetups
  Star = star
  Starts <- Corners
  MaxLen = 3
PROPERTY EditsLine
CHECK_DEADLOCK FALSE
