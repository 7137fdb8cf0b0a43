SPECIFICATION Spec
CONSTANTS
  fa = fa
  fb = fb
  fc = fc
  fs = fs
  fx = fx
  NoName = NoName
  NewName = NewName
  Records = 6
  Root = 1
  Volumes <- Trees
  Hidden <- MCHidden
  Names <- MCNames
  MaxPath = 4
  Partial = FALSE
  Changes = 2
  Faults = 1
  Troubles = 2
INVARIANTS SearchFinds Complete NoMadeUpPaths PathIsALink
PROPERTY ScanEnds
