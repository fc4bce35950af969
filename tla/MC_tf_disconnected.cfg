\* lookup_transform on two frames in different trees, all caches holding
\* data: the documented ConnectivityException against what the walk throws.
CONSTANTS
  f1 = f1
  f2 = f2
  f3 = f3
  Names <- MCNames
  NO_PARENT = NO_PARENT
  Slash = Slash
  NoData = NoData
  Xforms <- MCXforms
  MAX_GRAPH_DEPTH = 2
SPECIFICATION Spec
SYMMETRY MCSymmetry
INVARIANT
  DisconnectedRaisesConnectivity
