SPECIFICATION Spec
CONSTANTS
  Clusters = 6
  MCSizes <- OneTwo
  MCPieces = 2
  MCMaxSize = {2}
  Files <- MCFiles
  NoFile = 0
  Layouts <- MCLayouts
  Fixed = {}
  Options <- AggressiveOptions
  Slack = 1
  MaxLen = 3
  MaxChunk = 100
  WidenMoves <- MCWidenMoves
  Word = 1000
  Node <- MCNode
  Meddling = 1
  Faults = 1
  BlindScans = 1
INVARIANT FiledBySize
INVARIANT BlindIsHarmless
PROPERTY Stops
