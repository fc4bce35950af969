------------------- MODULE NavGraphStaticListNodeConstraint -------------------
(***************************************************************************)
(* NavGraphStaticListNodeConstraint, src/src/plugins/navgraph/constraints/ *)
(* static_list_node_constraint.cpp: a std::vector of nodes to block.       *)
(* A TopologicalMapNode is its name: remove_node compares name(), and the  *)
(* operator== has_node uses through std::find is taken to compare names    *)
(* too (its header is not in the repository).                             *)
(***************************************************************************)
EXTENDS Integers, Sequences, SequencesExt

CONSTANTS
  Nodes,       \* node names
  CtorLists,   \* vectors callers pass to the (name, node_list) constructor
  MaxLen       \* bound on the vector's length

VARIABLES
  node_list,   \* node_list_
  ub           \* remove_node stepped its iterator past end(): undefined

vars == <<node_list, ub>>

\* The constructor taking a name leaves node_list_ empty; the one taking a
\* node list copies it.
Init ==
  /\ node_list \in {<<>>} \cup CtorLists
  /\ ub = FALSE

\* std::find(node_list_.begin(), node_list_.end(), node) != end()
has_node(l, n) == \E i \in DOMAIN l : l[i] = n

\* Mutant: add_node does not ask has_node first.
add_node_noCheck(l, n) == Append(l, n)

add_node(l, n) == IF has_node(l, n) THEN l ELSE Append(l, n)

\* node_list_.erase(i)
erase(l, i) == RemoveAt(l, i)

\* The for loop of remove_node from position i: on a match erase(i), then
\* ++i either way.  Erasing the last element leaves i at end(), and ++i
\* moves it past end(), which the loop condition i != end() never stops.
RECURSIVE RemoveFrom(_, _, _)
RemoveFrom(l, i, n) ==
  IF i = Len(l) + 1 THEN [list |-> l, past_end |-> FALSE]
  ELSE IF i > Len(l) + 1 THEN [list |-> l, past_end |-> TRUE]
  ELSE IF l[i] = n THEN RemoveFrom(erase(l, i), i + 1, n)
  ELSE RemoveFrom(l, i + 1, n)

AddNode(n) ==
  /\ ~ub /\ Len(node_list) < MaxLen
  /\ node_list' = add_node(node_list, n)
  /\ UNCHANGED ub

\* add_nodes: add_node for each node in order.
AddNodes(ns) ==
  /\ ~ub /\ Len(node_list) + Len(ns) <= MaxLen
  /\ node_list' = FoldLeft(add_node, node_list, ns)
  /\ UNCHANGED ub

remove_node(n) ==
  /\ ~ub
  /\ node_list # <<>>
  /\ LET r == RemoveFrom(node_list, 1, n)
     IN  node_list' = r.list /\ ub' = r.past_end

clear_nodes ==
  /\ ~ub
  /\ node_list' = <<>>
  /\ UNCHANGED ub

Next ==
  \/ \E n \in Nodes : AddNode(n) \/ remove_node(n)
  \/ \E ns \in {<<a, b>> : a, b \in Nodes} : AddNodes(ns)
  \/ clear_nodes

Spec == Init /\ [][Next]_vars

\* remove_node(n), on every step where its loop stays inside node_list_
\* (removing the last element steps past end(), which is undefined and is
\* NoStepPastEnd's concern), unblocks n and only n: the vector afterwards
\* holds the other nodes in the order they had.
RemoveFiltersNode ==
  [][\A n \in Nodes : remove_node(n) /\ ~ub' =>
        node_list' = SelectSeq(node_list, LAMBDA x : x # n)]_vars

\* remove_node never moves its iterator past end() of node_list_.
NoStepPastEnd == ~ub

\* remove_node(n), as documented ("remove a single node from the
\* constraint list"), is a defined step that leaves node_list_ without n
\* and the other nodes in order: its erase-in-loop neither steps past
\* end() nor skips the element erase moved into place, for every vector
\* the constructor may be given.
RemoveNodeSound ==
  [][\A n \in Nodes : remove_node(n) =>
        ~ub' /\ node_list' = SelectSeq(node_list, LAMBDA x : x # n)]_vars

=============================================================================
