\* The constraint built from a vector that names a node twice: remove_node
\* of that node against the set of blocked nodes it should leave.
\* After remove_node steps past end() nothing is defined; deadlock is not
\* checked.
CONSTANTS
  v1 = v1
  v2 = v2
  v3 = v3
  v4 = v4
  v5 = v5
  Nodes <- MCNodes
  CtorLists <- MCCtorRepeat
  MaxLen = 5
SPECIFICATION Spec
CHECK_DEADLOCK FALSE
PROPERTY
  RemoveFiltersNode
