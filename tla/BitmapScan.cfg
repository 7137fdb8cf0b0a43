SPECIFICATION Spec
CONSTANTS
  Clusters = 7
  Portion = 3
  Callbacks = {0, 2}
  Changes = 1
INVARIANT ListsWhatItSaw
PROPERTY Ends
