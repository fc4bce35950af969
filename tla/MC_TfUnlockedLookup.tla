------------------------- MODULE MC_TfUnlockedLookup -------------------------
(***************************************************************************)
(* TfUnlockedLookup with four frame names: two frames, their common parent *)
(* and a frame it can be re-parented to.  Transforms do not matter to the  *)
(* walk getLatestCommonTime takes, so there is one.                        *)
(***************************************************************************)
EXTENDS TfUnlockedLookup

CONSTANTS f1, f2, f3, f4

MCNames == {f1, f2, f3, f4}
MCXforms == {<<1, 2, 3>>}
MCSymmetry == Permutations(MCNames)

=============================================================================
