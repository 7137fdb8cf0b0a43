SPECIFICATION Spec
CONSTANTS
  Nodes = {0, 1, 2, 3, 4}
  Root = 0
  None = None
  Dot = Dot
  DotDot = DotDot
  Handles = {1, 2, 3, 4, 5}
  Volumes <- MCVolumes
  Portion = 2
  Skipped = {3}
  Partial = FALSE
  Changes = 2
  Faults = 1
INVARIANTS Complete HandlesClosed
PROPERTY WalkEnds
