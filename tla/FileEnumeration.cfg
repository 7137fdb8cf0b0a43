CONSTANTS
  Files = {f1, f2, f3}
  NoFile = NoFile
  Placements <- MCPlacements
SPECIFICATION Spec
INVARIANTS FiledOnce FindAtFinds
