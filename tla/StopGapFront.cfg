SPECIFICATION Spec
CONSTANTS
  Clusters = 6
  MCSizes <- OneOneTwo
  MCPieces = 1
  MCMaxSize = {2}
  Files <- MCFiles
  NoFile = 0
  Layouts <- MCLayouts
  Fixed = {}
  Options <- GapOptions
  Slack = 1
  MaxLen = 3
  MaxChunk = 100
  WidenMoves <- MCWidenMoves
  Word = 1000
  Node <- MCNode
  Meddling = 0
  Faults = 0
  BlindScans = 0
INVARIANT MovesToTheFront
