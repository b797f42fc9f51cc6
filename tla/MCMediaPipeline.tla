-------------------------- MODULE MCMediaPipeline --------------------------
(* Instances of MediaPipeline.                                             *)
EXTENDS MediaPipeline, TLC
CONSTANTS a, b
MCSymmetry == Permutations(MediaCalls) \union Permutations(Workers)
=============================================================================
