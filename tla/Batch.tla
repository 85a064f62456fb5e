-------------------------------- MODULE Batch --------------------------------
(***************************************************************************)
(* The values the replay protection works on: batches of hash prefixes     *)
(* (batch.go) and sets of replayed sequence numbers (replay_set.go).       *)
(*                                                                         *)
(* A Go map is a total function in which Nil stands for a missing key; Nil *)
(* also stands for a nil map and a nil pointer.  A ReplaySet, a map from   *)
(* sequence numbers to empty structs, is a set of sequence numbers.        *)
(***************************************************************************)

CONSTANTS
  HashPrefix,   \* truncated hashes of shared secrets, the replay log's keys
  Cltv,         \* expiry heights stored with a hash prefix
  SeqNum,       \* sequence numbers (positions) inside a batch
  BatchId,      \* caller chosen batch identifiers
  Nil

\* A secret's hash prefix and the expiry of the onion it was derived from.
BatchEntry == [hashPrefix : HashPrefix, cltv : Cltv]

ASSUME NilAssumption ==
  /\ Nil \notin BatchEntry
  /\ Nil \notin Cltv
  /\ \A rs \in SUBSET SeqNum : rs # Nil

Entries == [SeqNum -> BatchEntry \cup {Nil}]

NewReplaySet == {}

\* ReplaySet.Add
Add(rs, idx) == rs \cup {idx}

\* Fault: a Merge that leaves its argument out.
MergeNothing(rs, rs2) == rs

\* ReplaySet.Merge: the elements of rs2, added one by one to rs.
Merge(rs, rs2) == rs \cup rs2

\* Fault: the entries map is not made.
NewBatchUnmade(id, rs) ==
  [ IsCommitted |-> FALSE, ID |-> id, ReplaySet |-> rs, entries |-> Nil,
    replayCache |-> {} ]

\* A new batch whose ReplaySet field is rs.
NewBatch(id, rs) ==
  [ IsCommitted |-> FALSE,
    ID          |-> id,
    ReplaySet   |-> rs,
    entries     |-> [s \in SeqNum |-> Nil],
    replayCache |-> {} ]

\* Fault: the batch takes entries after it was committed.
AlwaysOpen(b) == TRUE

\* Batch.Put goes on only while this holds, else it is ErrAlreadyCommitted.
IsOpen(b) == ~b.IsCommitted

\* The look-up that Batch.Put makes before it adds anything.
InReplayCache(b, h) == h \in b.replayCache

\* Fault: Batch.Put forgets to extend its cache.
AddEntryUncached(b, s, h, c) ==
  [b EXCEPT !.entries = [@ EXCEPT ![s] = [hashPrefix |-> h, cltv |-> c]]]

\* The rest of Batch.Put once h is known to be new to the batch.  An entry
\* already stored under the same sequence number is overwritten, but its hash
\* prefix stays in the cache.
AddEntry(b, s, h, c) ==
  [b EXCEPT !.entries     = [@ EXCEPT ![s] = [hashPrefix |-> h, cltv |-> c]],
            !.replayCache = @ \cup {h}]

\* The sequence numbers Batch.ForEach visits, in an order Go leaves open.
ForEachDomain(b) == {s \in SeqNum : b.entries[s] # Nil}

\* No hash prefix is stored under two sequence numbers.
DistinctPrefixes(es) ==
  \A s1, s2 \in SeqNum :
    /\ es[s1] # Nil
    /\ es[s2] # Nil
    /\ es[s1].hashPrefix = es[s2].hashPrefix
    => s1 = s2

\* The operations of a ReplayLog and the errors they return, "ok" for nil.
Ops    == {"none", "Start", "Stop", "Get", "Put", "Delete", "PutBatch"}
Errors == {"ok", "errReplayLogNotStarted", "errReplayLogAlreadyStarted",
           "ErrLogEntryNotFound", "ErrReplayedPacket"}

\* What a call on a replay log hands back: an error, and a result if it has one.
Replies == [op : Ops, err : Errors, cltv : Cltv \cup {Nil},
            replays : (SUBSET SeqNum) \cup {Nil}]

Reply(op, err)       == [op |-> op, err |-> err, cltv |-> Nil, replays |-> Nil]
CltvReply(op, c)     == [op |-> op, err |-> "ok", cltv |-> c, replays |-> Nil]
ReplaysReply(op, rs) == [op |-> op, err |-> "ok", cltv |-> Nil, replays |-> rs]
=============================================================================
