SPECIFICATION Spec
CONSTANTS
  Base = 4
  Nibble = 8
  Word = 64
  Clusters = 8
  Hole = Hole
  Streams <- MCStreams
  Contents <- MCContents
  Pairs = 2
  Changes = 1
INVARIANTS MapIsExact AllOrNothing
