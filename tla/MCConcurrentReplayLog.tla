------------------------ MODULE MCConcurrentReplayLog ------------------------
(***************************************************************************)
(* ConcurrentReplayLog for TLC: a batch with one entry per position, each  *)
(* with a prefix of its own, and a position that it found to be a          *)
(* duplicate.                                                              *)
(***************************************************************************)
EXTENDS ConcurrentReplayLog, TLC

CONSTANT Duplicate      \* the position that is a duplicate

MCEntries ==
  CHOOSE es \in Entries :
    /\ DistinctPrefixes(es)
    /\ ForEachDomain([entries |-> es]) = SeqNum \ {Duplicate}

MCBatchOf == [id \in BatchId |-> [entries |-> MCEntries, ReplaySet |-> {Duplicate}]]

Symmetry == Permutations(Caller)
=============================================================================
