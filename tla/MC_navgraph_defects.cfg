\* remove_node on constraints built from a vector without and with a
\* repeated node.  The model stops after a step past end(), so deadlock is
\* not checked.
CONSTANTS
  v1 = v1
  v2 = v2
  v3 = v3
  v4 = v4
  v5 = v5
  Nodes <- MCNodes
  CtorLists <- MCCtorAll
  MaxLen = 5
SPECIFICATION Spec
CHECK_DEADLOCK FALSE
PROPERTY
  RemoveNodeSound
