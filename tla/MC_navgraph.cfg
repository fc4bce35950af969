\* The constraint built empty or from a vector without repeats, under
\* add_node, add_nodes, remove_node and clear_nodes.  After remove_node
\* steps past end() nothing is defined, so the model stops there and
\* deadlock is not checked.
CONSTANTS
  v1 = v1
  v2 = v2
  v3 = v3
  v4 = v4
  v5 = v5
  Nodes <- MCNodes
  CtorLists <- MCCtorUnique
  MaxLen = 5
SPECIFICATION Spec
CHECK_DEADLOCK FALSE
PROPERTY
  RemoveFiltersNode
