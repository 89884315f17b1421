---------------------------- MODULE MCEnginePool ----------------------------
(***************************************************************************)
(* EnginePool under FeatureMemory's requests, with more threads than       *)
(* engines, so that the semaphore blocks.                                  *)
(***************************************************************************)
EXTENDS FeatureMemory, TLC

Symmetry == Permutations(Threads) \cup Permutations(Pictures)
=============================================================================
