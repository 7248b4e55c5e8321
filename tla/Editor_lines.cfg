SPECIFICATION Spec
CONSTANTS
  a = a
  b = b
  wide = wide
  mark = mark
  star = star
  blank = blank
  prompt = prompt
  Rows = 2
  Cols = 3
  Width <- MCWidth
  Blank = blank
  Char <- Chars
  Texts <- MCTexts
  Replies <- MCReplies
  Setups <- MCSetups
  Star = star
  Starts <- Corners
  MaxLen = 4
INVARIANTS TypeOK CursorsInBounds LineShown PromptPreserved
PROPERTY EditsLine
CHECK_DEADLOCK FALSE
