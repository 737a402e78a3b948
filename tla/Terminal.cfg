CONSTANTS
  Glyphs <- TwoGlyphs
  Blanks <- OneBlank
  FbLines = 3
  FbChars = 2
  MaxLines = 4
  MaxChars = 3

SPECIFICATION Spec
INVARIANTS
  TypeOK
  RowsTerminated
  TextKept
  TextShown
