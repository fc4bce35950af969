\* remove_node on the last element of node_list_, with the vector built
\* empty or without repeats.
CONSTANTS
  v1 = v1
  v2 = v2
  v3 = v3
  v4 = v4
  v5 = v5
  Nodes <- MCNodes
  CtorLists <- MCCtorUnique
  MaxLen = 5
SPECIFICATION Spec
CHECK_DEADLOCK FALSE
INVARIANT
  NoStepPastEnd
