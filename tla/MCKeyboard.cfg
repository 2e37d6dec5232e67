\* Five attempts; the keyboard holds up to two bytes.
CONSTANTS
  Attempts = 5
  MaxSending = 2
  NoByte = NoByte
SPECIFICATION FairSpec
INVARIANTS
  TypeOK
  SuccessIsTrue
  NoByteIsForgotten
PROPERTIES
  EnableReturns
  KeyboardNeverStuck
