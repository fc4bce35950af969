--------------- MODULE MC_NavGraphStaticListNodeConstraint ---------------
(***************************************************************************)
(* The static list node constraint over five node names.                   *)
(***************************************************************************)
EXTENDS NavGraphStaticListNodeConstraint

CONSTANTS v1, v2, v3, v4, v5

MCNodes == {v1, v2, v3, v4, v5}

\* Vectors for the list constructor: one without and one with a repeat.
MCCtorUnique == {<<v1, v2>>}
MCCtorRepeat == {<<v1, v1, v2>>}

\* Both vectors: the constructor accepts any vector of nodes.
MCCtorAll == MCCtorUnique \cup MCCtorRepeat
=============================================================================
