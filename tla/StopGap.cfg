SPECIFICATION Spec
CONSTANTS
  Clusters = 6
  MCSizes <- OneOneTwo
  MCPieces = 2
  MCMaxSize = {0, 2}
  Files <- MCFiles
  NoFile = 0
  Layouts <- MCLayouts
  Fixed = {}
  Options <- AllOptions
  Slack = 1
  MaxLen = 3
  MaxChunk = 100
  WidenMoves <- MCWidenMoves
  Word = 1000
  Node <- MCNode
  Meddling = 0
  Faults = 0
  BlindScans = 0
INVARIANT TableIsSound
INVARIANT MovesSucceed
INVARIANT NeverDies
INVARIANT KeepsFiles
INVARIANT KnowsTheVolume
INVARIANT NothingLeft
PROPERTY FragmentsShrink
PROPERTY Terminates
