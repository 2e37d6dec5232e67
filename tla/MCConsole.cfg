\* Two rows of three columns: a prompt of one, lines that fill the row and wrap.
CONSTANTS
  x = x
  Space = Space
  Quote = Quote
  Text = Text
  Chars <- Characters
  Typed <- OneLetter
  MaxLine = 2
  MaxArgs = 2
  VgaHeight = 2
  VgaWidth = 3
  DisplayCol = 1
  TabStop = 2
  Outputs <- TextOrClear
SPECIFICATION Spec
INVARIANTS
  TypeOK
  CursorOnScreen
  EchoMatchesLine
