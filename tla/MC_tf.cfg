\* The tf frame table under set_transform, clear and set_enabled; every
\* reachable table is checked for the answers lookup_transform gives.
\* MAX_GRAPH_DEPTH is the longest loop-free chain of the three named frames.
CONSTANTS
  f1 = f1
  f2 = f2
  f3 = f3
  Names <- MCNames
  NO_PARENT = NO_PARENT
  Slash = Slash
  NoData = NoData
  Xforms <- MCXforms
  MAX_GRAPH_DEPTH = 2
SPECIFICATION Spec
SYMMETRY MCSymmetry
INVARIANTS
  TypeOK
  LookupMatchesTree
  LookupAnswersConnectedFrames
