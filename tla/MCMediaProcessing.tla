-------------------------- MODULE MCMediaProcessing --------------------------
(* Small instances of MediaProcessing.  Worker slots are interchangeable.  *)
EXTENDS MediaProcessing, TLC

Symmetry == Permutations(Slots)
=============================================================================
