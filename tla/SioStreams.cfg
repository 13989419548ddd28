SPECIFICATION FairSpec
CONSTANTS
  Chars <- MCChars
  BufSize = 3
  MaxReaders = 1
  Strings <- PlainStrings
  Lengths = {1, 2}
INVARIANT NothingStranded
PROPERTY KeepsStreams
PROPERTY TransmitterFree
PROPERTY SequenceEnds
