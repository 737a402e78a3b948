CONSTANTS
  Glyphs <- TwoGlyphs
  Blanks <- OneBlank
  FbLines = 2
  FbChars = 2
  MaxLines = 2
  MaxChars = 2

SPECIFICATION Spec
PROPERTIES
  LinesShift
