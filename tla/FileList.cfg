SPECIFICATION Spec
CONSTANTS
  Address <- MCAddress
  NULL = 0
INVARIANT SweptExactly
PROPERTY ImplementsSequence
PROPERTY LoopsEnd
