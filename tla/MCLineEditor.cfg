\* Lines of two characters and a ring of two; a first line of up to six.
CONSTANTS
  x = x
  X = X
  Space = Space
  Quote = Quote
  Chars <- FourChars
  Keys <- ThreeKeys
  MaxLine = 6
  MaxArgs = 2
  TabStop = 2
  MaxHistory = 2
  Echo <- ShortEcho
SPECIFICATION Spec
CONSTRAINT ShortAfterFirst
INVARIANTS
  TypeOK
  ArgumentsAreWords
  BlankRestHidesOnlyEcho
PROPERTIES
  ImplementsHistory
