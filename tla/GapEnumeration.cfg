CONSTANTS
  Clusters = 5
  Node = {0, 1, 2, 3, 4, 5}
  Slack = 1
SPECIFICATION Spec
INVARIANTS IndexesAgree Coalesced BestFits
PROPERTY FreeSpaceSpec
VIEW LiveView
