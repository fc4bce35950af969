-------------------------- MODULE MC_TfTransformer --------------------------
(***************************************************************************)
(* TfTransformer instantiated for TLC: three frame names, the frame 0 name *)
(* and "/", and two transforms that do not commute.                        *)
(***************************************************************************)
EXTENDS TfTransformer

CONSTANTS f1, f2, f3

\* A swap and a rotation of 1..3: Compose of the two differs by order.
MCXforms == {<<2, 1, 3>>, <<2, 3, 1>>}

MCNames == {f1, f2, f3}

\* The frame names are interchangeable: no property names one of them.
MCSymmetry == Permutations(MCNames)

=============================================================================
