-------------------------- MODULE MCMemoryReplayLog --------------------------
(***************************************************************************)
(* MemoryReplayLog for TLC.  The constants are sets of model values, which *)
(* the specification only compares, so each of them is a symmetry set.     *)
(***************************************************************************)
EXTENDS MemoryReplayLog, TLC

Symmetry ==
  Permutations(HashPrefix) \cup Permutations(Cltv) \cup Permutations(BatchId)
    \cup Permutations(BatchObj) \cup Permutations(SeqNum)
=============================================================================
