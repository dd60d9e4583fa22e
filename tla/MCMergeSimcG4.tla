---------------------------- MODULE MCMergeSimcG4 ----------------------------
(* Every pair of trees of up to MaxRows entries over three event ids.        *)
EXTENDS MergeSimcG4
MCIds == 0 .. 2
==============================================================================
