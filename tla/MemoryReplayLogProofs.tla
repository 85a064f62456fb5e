------------------------ MODULE MemoryReplayLogProofs ------------------------
(***************************************************************************)
(* Proofs about MemoryReplayLog, for any sets of prefixes, expiries,       *)
(* sequence numbers, identifiers and batch objects: its invariants, its    *)
(* action properties, and that it implements ReplayLog.                    *)
(***************************************************************************)
EXTENDS MemoryReplayLog, TLAPS

-----------------------------------------------------------------------------
(***************************************************************************)
(* The inductive invariant.                                                *)
(***************************************************************************)

\* The two maps of the log come and go together.
MapsTogether == entries = Nil <=> batches = Nil

\* Nobody else points to the ReplaySet of a batch that still takes entries.
OpenSetsAreOwned ==
  \A o \in BatchObj :
    batch[o] # Nil /\ ~batch[o].IsCommitted =>
      /\ \A u \in BatchObj \ {o} :
           batch[u] # Nil => batch[u].ReplaySet # batch[o].ReplaySet
      /\ batches # Nil => \A id \in BatchId : batches[id] # batch[o].ReplaySet

\* Nobody else points to the ReplaySet that a PutBatch is filling.
CallSetIsOwned ==
  call # Nil =>
    /\ \A o \in BatchObj : batch[o] # Nil => batch[o].ReplaySet # call.replays
    /\ \A id \in BatchId : batches[id] # call.replays

\* A PutBatch in its loop commits a batch the log does not know, and the entries
\* it is done with are in the log: the replays were there before, the others with
\* the expiry of their entry.
LoopIsSound ==
  call # Nil =>
    LET b    == batch[call.obj]
        done == ForEachDomain(b) \ call.todo
    IN  /\ IsStarted
        /\ b # Nil
        /\ batches[b.ID] = Nil
        /\ call.todo \subseteq ForEachDomain(b)
        /\ rset[call.replays] \subseteq done
        /\ \A s \in done :
             /\ entries[b.entries[s].hashPrefix] # Nil
             /\ s \notin rset[call.replays] =>
                  entries[b.entries[s].hashPrefix] = b.entries[s].cltv

Inv ==
  /\ TypeOK
  /\ MapsTogether
  /\ BatchesWellFormed
  /\ OpenSetsAreOwned
  /\ CallSetIsOwned
  /\ LoopIsSound

-----------------------------------------------------------------------------
(***************************************************************************)
(* Lemmas about the operators of the model.                                *)
(***************************************************************************)

\* The records of replies are replies.
LEMMA RepliesType ==
  /\ \A op \in Ops, err \in Errors : Reply(op, err) \in Replies
  /\ \A op \in Ops, c \in Cltv : CltvReply(op, c) \in Replies
  /\ \A op \in Ops, rs \in SUBSET SeqNum : ReplaysReply(op, rs) \in Replies
BY DEF Reply, CltvReply, ReplaysReply, Replies, Errors

\* A new ReplaySet is one that nothing points to.
LEMMA FreshIsUnused ==
  ASSUME HasRoom
  PROVE  /\ Fresh \in Ref
         /\ \A o \in BatchObj : batch[o] # Nil => batch[o].ReplaySet # Fresh
         /\ batches # Nil => \A id \in BatchId : batches[id] # Fresh
         /\ call # Nil => call.replays # Fresh
<1>1. Fresh \in Ref /\ Fresh \notin Allocated
  BY DEF HasRoom, Fresh
<1> HIDE DEF Fresh
<1>2. ASSUME NEW o \in BatchObj, batch[o] # Nil
      PROVE  batch[o].ReplaySet \in Allocated
  BY <1>2 DEF Allocated
<1>3. ASSUME batches # Nil, NEW id \in BatchId, batches[id] # Nil
      PROVE  batches[id] \in Allocated
  BY <1>3 DEF Allocated
<1>4. call # Nil => call.replays \in Allocated
  BY DEF Allocated
<1> QED
  BY <1>1, <1>2, <1>3, <1>4, RefAssumption

\* The batch d is b with an entry added.
AddShape(b, d, s, h, c) ==
  /\ d \in BatchType
  /\ d.IsCommitted = b.IsCommitted
  /\ d.ReplaySet = b.ReplaySet
  /\ d.replayCache = b.replayCache \cup {h}
  /\ d.entries = [b.entries EXCEPT ![s] = [hashPrefix |-> h, cltv |-> c]]

\* A batch with an entry added.
LEMMA AddEntryShape ==
  ASSUME NEW b \in BatchType, NEW s \in SeqNum, NEW h \in HashPrefix,
         NEW c \in Cltv
  PROVE  AddShape(b, AddEntry(b, s, h, c), s, h, c)
<1>1. [hashPrefix |-> h, cltv |-> c] \in BatchEntry
  BY DEF BatchEntry
<1>2. [b.entries EXCEPT ![s] = [hashPrefix |-> h, cltv |-> c]] \in Entries
  BY <1>1 DEF BatchType, Entries
<1> QED
  BY <1>2, Zenon DEF AddShape, AddEntry, BatchType

\* A new batch.
LEMMA NewBatchShape ==
  ASSUME NEW id \in BatchId, NEW r \in Ref
  PROVE  /\ NewBatch(id, r) \in BatchType
         /\ NewBatch(id, r).IsCommitted = FALSE
         /\ NewBatch(id, r).ReplaySet = r
         /\ \A s \in SeqNum : NewBatch(id, r).entries[s] = Nil
BY DEF NewBatch, BatchType, Entries

\* The entries of a batch have a prefix and an expiry.
LEMMA EntryTypes ==
  ASSUME NEW b \in BatchType, NEW s \in ForEachDomain(b)
  PROVE  /\ s \in SeqNum
         /\ b.entries[s] # Nil
         /\ b.entries[s].hashPrefix \in HashPrefix
         /\ b.entries[s].cltv \in Cltv
BY DEF ForEachDomain, BatchType, Entries, BatchEntry

-----------------------------------------------------------------------------
(***************************************************************************)
(* The invariant holds initially, and every action preserves it.           *)
(***************************************************************************)

\* A new log has no maps, no batch and no call.
LEMMA InitInv == Init => Inv
<1> SUFFICES ASSUME Init PROVE Inv
  OBVIOUS
<1>1. TypeOK
  BY RepliesType DEF Init, TypeOK, NewReplaySet, Ops, Errors
<1>2. /\ MapsTogether
      /\ BatchesWellFormed
      /\ OpenSetsAreOwned
      /\ CallSetIsOwned
      /\ LoopIsSound
  BY DEF Init, MapsTogether, BatchesWellFormed, OpenSetsAreOwned, CallSetIsOwned,
         LoopIsSound
<1> QED
  BY <1>1, <1>2 DEF Inv

\* While no PutBatch is in its loop, a change of the log's entries, a new reply
\* and the loss of the log's pointers to ReplaySets disturb nothing else.
LEMMA LogOnlyInv ==
  ASSUME Inv, call = Nil, UNCHANGED <<batch, rset, call>>, reply' \in Replies,
         entries' \in [HashPrefix -> Cltv \cup {Nil}] \cup {Nil},
         batches' \in {batches, [id \in BatchId |-> Nil], Nil},
         MapsTogether'
  PROVE  Inv'
<1>1. batches' \in [BatchId -> Ref \cup {Nil}] \cup {Nil}
  BY DEF Inv, TypeOK
<1>2. TypeOK'
  BY <1>1 DEF Inv, TypeOK
<1>3. BatchesWellFormed'
  BY DEF Inv, BatchesWellFormed
<1>4. OpenSetsAreOwned'
  <2>1. ASSUME NEW o \in BatchObj, batch[o] # Nil PROVE batch[o].ReplaySet # Nil
    BY <2>1, RefAssumption DEF Inv, TypeOK, BatchType
  <2> QED
    BY <2>1 DEF Inv, OpenSetsAreOwned
<1>5. CallSetIsOwned' /\ LoopIsSound'
  BY DEF CallSetIsOwned, LoopIsSound
<1> QED
  BY <1>2, <1>3, <1>4, <1>5 DEF Inv

\* The operations of the log that are not about batches.
LEMMA LogActionsInv ==
  ASSUME Inv,
         \/ Start
         \/ Stop
         \/ \E h \in HashPrefix : Get(h) \/ Delete(h)
         \/ \E h \in HashPrefix, c \in Cltv : Put(h, c)
  PROVE  Inv'
<1> USE RepliesType, ObjectAssumption DEF Ops, Errors
<1>1. call = Nil /\ UNCHANGED <<batch, rset, call>>
  BY DEF Start, Stop, Get, Delete, Put, NotStarted
<1>2. CASE Start
  <2>1. /\ entries' = [h \in HashPrefix |-> Nil]
        /\ batches' = [id \in BatchId |-> Nil]
        /\ reply' \in Replies
    BY <1>2 DEF Start
  <2>2. entries' # Nil /\ batches' # Nil
    BY Zenon, <2>1
  <2> QED
    BY <1>1, <2>1, <2>2, LogOnlyInv DEF MapsTogether
<1>3. CASE Stop
  <2>1. /\ \/ entries' = Nil /\ batches' = Nil
           \/ entries' = entries /\ batches' = batches
        /\ reply' \in Replies
    BY Zenon, <1>3 DEF Stop, NotStarted
  <2> QED
    BY <1>1, <2>1, LogOnlyInv DEF Inv, TypeOK, MapsTogether
<1>4. ASSUME NEW h \in HashPrefix, Get(h) PROVE Inv'
  <2>1. entries' = entries /\ batches' = batches
    BY Zenon, <1>4 DEF Get, NotStarted
  <2>2. reply' \in Replies
    BY <1>4 DEF Get, NotStarted, IsStarted, Inv, TypeOK
  <2> QED
    BY <1>1, <2>1, <2>2, LogOnlyInv DEF Inv, TypeOK, MapsTogether
<1>5. ASSUME NEW h \in HashPrefix, NEW c \in Cltv \cup {Nil},
             entries' = [entries EXCEPT ![h] = c], IsStarted,
             batches' = batches, reply' \in Replies
      PROVE  Inv'
  <2>1. entries' \in [HashPrefix -> Cltv \cup {Nil}]
    BY <1>5 DEF IsStarted, Inv, TypeOK
  <2>2. entries' # Nil
    BY <2>1
  <2> QED
    BY Zenon, <1>1, <1>5, <2>1, <2>2, LogOnlyInv DEF IsStarted, MapsTogether
<1>6. ASSUME NEW h \in HashPrefix, Delete(h) PROVE Inv'
  <2>1. CASE NotStarted("Delete")
    BY <1>1, <2>1, LogOnlyInv DEF NotStarted, Inv, TypeOK, MapsTogether
  <2> QED
    BY Zenon, <1>5, <1>6, <2>1 DEF Delete
<1>7. ASSUME NEW h \in HashPrefix, NEW c \in Cltv, Put(h, c) PROVE Inv'
  <2>1. CASE UNCHANGED <<entries, batches>>
    <3>1. reply' \in Replies
      BY <1>7 DEF Put, NotStarted
    <3> QED
      BY <1>1, <2>1, <3>1, LogOnlyInv DEF Inv, TypeOK, MapsTogether
  <2> QED
    BY Zenon, <1>5, <1>7, <2>1 DEF Put, NotStarted, Insert
<1> QED
  BY Zenon, <1>2, <1>3, <1>4, <1>6, <1>7

\* A new batch has a ReplaySet of its own.
LEMMA MakeBatchInv ==
  ASSUME Inv, NEW o \in BatchObj, NEW id \in BatchId, MakeBatch(o, id)
  PROVE  Inv'
<1> PICK r : r = Fresh
  OBVIOUS
<1>1. /\ r \in Ref
      /\ \A u \in BatchObj : batch[u] # Nil => batch[u].ReplaySet # r
      /\ batches # Nil => \A x \in BatchId : batches[x] # r
  BY FreshIsUnused DEF MakeBatch
<1>2. PICK b : b = NewBatch(id, r)
  OBVIOUS
<1>3. /\ b \in BatchType
      /\ b # Nil
      /\ b.ReplaySet = r
      /\ \A s \in SeqNum : b.entries[s] = Nil
  BY <1>1, <1>2, NewBatchShape, ObjectAssumption, ZenonT(60)
<1>4. /\ batch' = [batch EXCEPT ![o] = b]
      /\ rset' = [rset EXCEPT ![r] = {}]
      /\ UNCHANGED <<entries, batches, call, reply>>
      /\ call = Nil
  BY <1>2 DEF MakeBatch, NewReplaySet
<1>5. TypeOK'
  BY <1>3, <1>4, Zenon DEF Inv, TypeOK
<1>6. /\ batch'[o] = b
      /\ \A u \in BatchObj \ {o} : batch'[u] = batch[u]
  BY <1>4 DEF Inv, TypeOK
<1>7. BatchesWellFormed'
  BY <1>3, <1>6 DEF Inv, BatchesWellFormed, DistinctPrefixes, ForEachDomain
<1>8. OpenSetsAreOwned'
  BY <1>1, <1>3, <1>4, <1>6 DEF Inv, OpenSetsAreOwned
<1>9. MapsTogether' /\ CallSetIsOwned' /\ LoopIsSound'
  BY Zenon, <1>4 DEF Inv, MapsTogether, CallSetIsOwned, LoopIsSound
<1> QED
  BY <1>5, <1>7, <1>8, <1>9 DEF Inv

\* Batch.Put stores a prefix that is not in the cache, so none twice.
LEMMA BatchPutInv ==
  ASSUME Inv, NEW o \in BatchObj, NEW s \in SeqNum, NEW h \in HashPrefix,
         NEW c \in Cltv, BatchPut(o, s, h, c)
  PROVE  Inv'
<1>1. /\ batch[o] \in BatchType
      /\ call = Nil
      /\ UNCHANGED <<entries, batches, call, reply>>
  BY Zenon DEF BatchPut, Inv, TypeOK
<1>2. MapsTogether' /\ CallSetIsOwned' /\ LoopIsSound'
  BY <1>1 DEF Inv, MapsTogether, CallSetIsOwned, LoopIsSound
<1>3. CASE UNCHANGED batch
  <2>1. rset' = rset \/ rset' = [rset EXCEPT ![batch[o].ReplaySet] = Add(@, s)]
    BY <1>1, <1>3, AddEntryShape DEF AddShape, BatchPut
  <2>2. TypeOK'
    BY ZenonT(60), <1>1, <1>3, <2>1 DEF Inv, TypeOK, Add, BatchType
  <2>3. BatchesWellFormed' /\ OpenSetsAreOwned'
    BY <1>1, <1>3 DEF Inv, BatchesWellFormed, OpenSetsAreOwned
  <2> QED
    BY Zenon, <1>2, <2>2, <2>3 DEF Inv
<1>4. CASE /\ ~InReplayCache(batch[o], h)
           /\ batch' = [batch EXCEPT ![o] = AddEntry(@, s, h, c)]
           /\ UNCHANGED rset
  <2> PICK b : b = AddEntry(batch[o], s, h, c)
    OBVIOUS
  <2>1. /\ b \in BatchType
        /\ b.IsCommitted = batch[o].IsCommitted
        /\ b.ReplaySet = batch[o].ReplaySet
        /\ b.replayCache = batch[o].replayCache \cup {h}
        /\ b.entries = [batch[o].entries EXCEPT ![s] = [hashPrefix |-> h, cltv |-> c]]
    <3>1. AddShape(batch[o], b, s, h, c)
      BY <1>1, AddEntryShape, Zenon
    <3> QED
      BY <3>1, Zenon DEF AddShape
  <2>2. /\ batch'[o] = b
        /\ \A u \in BatchObj \ {o} : batch'[u] = batch[u]
        /\ batch' \in [BatchObj -> BatchType \cup {Nil}]
    BY <1>4, <2>1 DEF Inv, TypeOK
  <2>3. TypeOK'
    BY <1>1, <1>4, <2>2 DEF Inv, TypeOK
  <2>4. OpenSetsAreOwned'
    BY <1>1, <2>1, <2>2, ObjectAssumption DEF Inv, OpenSetsAreOwned
  <2>5. batch[o].entries \in Entries /\ batch[o] # Nil /\ h \notin batch[o].replayCache
    BY <1>1, <1>4, ObjectAssumption DEF BatchType, InReplayCache
  <2>6. /\ b.entries[s] = [hashPrefix |-> h, cltv |-> c]
        /\ b.entries[s].hashPrefix = h
        /\ \A t \in SeqNum \ {s} : b.entries[t] = batch[o].entries[t]
    BY <2>1, <2>5 DEF Entries
  <2>7. /\ DistinctPrefixes(batch[o].entries)
        /\ \A t \in SeqNum : batch[o].entries[t] # Nil =>
             batch[o].entries[t].hashPrefix \in batch[o].replayCache
    BY ZenonT(60), <2>5 DEF Inv, BatchesWellFormed, ForEachDomain
  <2>8. DistinctPrefixes(b.entries)
    <3> SUFFICES ASSUME NEW s1 \in SeqNum, NEW s2 \in SeqNum,
                        b.entries[s1] # Nil, b.entries[s2] # Nil,
                        b.entries[s1].hashPrefix = b.entries[s2].hashPrefix
                 PROVE  s1 = s2
      BY Zenon DEF DistinctPrefixes
    <3>1. \A t \in SeqNum \ {s} : b.entries[t] # Nil => b.entries[t].hashPrefix # h
      BY Zenon, <2>5, <2>6, <2>7
    <3>2. CASE s1 # s /\ s2 # s
      BY Zenon, <2>6, <2>7, <3>2 DEF DistinctPrefixes
    <3> QED
      BY Zenon, <2>6, <3>1, <3>2
  <2>9. \A t \in ForEachDomain(b) : b.entries[t].hashPrefix \in b.replayCache
    BY Zenon, <2>1, <2>6, <2>7 DEF ForEachDomain
  <2>10. BatchesWellFormed'
    BY <2>2, <2>8, <2>9 DEF Inv, BatchesWellFormed
  <2> QED
    BY <1>2, <2>3, <2>4, <2>10 DEF Inv
<1> QED
  BY <1>3, <1>4 DEF BatchPut

\* A batch that is committed with a set r leaves the other batches alone, and
\* need no longer own its set.
LEMMA FinishInv ==
  ASSUME Inv, NEW o \in BatchObj, batch[o] # Nil, NEW r \in Ref, Finish(o, r),
         rset' \in [Ref -> SUBSET SeqNum],
         \A u \in BatchObj \ {o} :
           batch[u] # Nil /\ ~batch[u].IsCommitted => batch[u].ReplaySet # r
  PROVE  /\ batch' \in [BatchObj -> BatchType \cup {Nil}]
         /\ reply' \in Replies
         /\ BatchesWellFormed'
         /\ batches' = batches => OpenSetsAreOwned'
         /\ \A u \in BatchObj \ {o} : batch'[u] = batch[u]
         /\ batch'[o] # Nil /\ batch'[o].IsCommitted /\ batch'[o].ReplaySet = r
         /\ batch'[o].ID = batch[o].ID /\ batch'[o].entries = batch[o].entries
<1>0. PICK b : b = [batch[o] EXCEPT !.ReplaySet = r, !.IsCommitted = TRUE]
  OBVIOUS
<1>1. batch[o] \in BatchType
  BY DEF Inv, TypeOK
<1>2. /\ b \in BatchType
      /\ b # Nil
      /\ b.ID = batch[o].ID
      /\ b.IsCommitted = TRUE
      /\ b.ReplaySet = r
      /\ b.entries = batch[o].entries
      /\ b.replayCache = batch[o].replayCache
  <2>1. PICK a : a = batch[o]
    OBVIOUS
  <2>2. b = [a EXCEPT !.ReplaySet = r, !.IsCommitted = TRUE] /\ a \in BatchType
    BY <1>0, <1>1, <2>1, Zenon
  <2>3. /\ b \in BatchType
        /\ b.ID = a.ID
        /\ b.IsCommitted = TRUE
        /\ b.ReplaySet = r
        /\ b.entries = a.entries
        /\ b.replayCache = a.replayCache
    BY <2>2, Zenon DEF BatchType
  <2> QED
    BY <2>1, <2>3, ObjectAssumption
<1>3. /\ batch' \in [BatchObj -> BatchType \cup {Nil}]
      /\ batch'[o] = b
      /\ \A u \in BatchObj \ {o} : batch'[u] = batch[u]
  BY <1>0, <1>2 DEF Finish, Inv, TypeOK
<1>4. reply' \in Replies
  BY Zenon, RepliesType DEF Finish, Ops
<1>5. BatchesWellFormed'
  BY ZenonT(60), <1>2, <1>3 DEF Inv, BatchesWellFormed, ForEachDomain
<1>6. batches' = batches => OpenSetsAreOwned'
  BY <1>2, <1>3 DEF Inv, OpenSetsAreOwned
<1> QED
  BY <1>2, <1>3, <1>4, <1>5, <1>6

\* PutBatch starts its loop with an empty ReplaySet of its own, or hands the
\* batch the set the log remembers.
LEMMA PutBatchInv ==
  ASSUME Inv, NEW o \in BatchObj, PutBatch(o)
  PROVE  Inv'
<1>0. call = Nil /\ batch[o] # Nil /\ batch[o] \in BatchType /\ batch[o].ID \in BatchId
  BY DEF PutBatch, Inv, TypeOK, BatchType
<1>1. CASE NotStarted("PutBatch")
  <2>1. reply' \in Replies
    BY <1>1, RepliesType DEF NotStarted, Ops, Errors
  <2>2. UNCHANGED <<entries, batches, batch, rset, call>>
    BY <1>1 DEF NotStarted
  <2>3. entries' \in [HashPrefix -> Cltv \cup {Nil}] \cup {Nil} /\ MapsTogether'
    BY <2>2 DEF Inv, TypeOK, MapsTogether
  <2> QED
    BY <1>0, <2>1, <2>2, <2>3, LogOnlyInv
<1>2. CASE /\ IsStarted
           /\ batches[batch[o].ID] # Nil
           /\ UNCHANGED rset
           /\ Finish(o, batches[batch[o].ID])
           /\ UNCHANGED <<entries, batches, call>>
  <2>1. PICK r : r = batches[batch[o].ID]
    OBVIOUS
  <2>2. r \in Ref
    BY Zenon, <1>0, <1>2, <2>1 DEF Inv, TypeOK, IsStarted
  <2>3. \A u \in BatchObj \ {o} :
          batch[u] # Nil /\ ~batch[u].IsCommitted => batch[u].ReplaySet # r
    BY <1>0, <1>2, <2>1 DEF Inv, OpenSetsAreOwned, IsStarted
  <2>4. rset' \in [Ref -> SUBSET SeqNum] /\ Finish(o, r) /\ batches' = batches
    BY <1>2, <2>1 DEF Inv, TypeOK
  <2>5. /\ batch' \in [BatchObj -> BatchType \cup {Nil}]
        /\ reply' \in Replies
        /\ BatchesWellFormed'
        /\ OpenSetsAreOwned'
    BY <1>0, <2>2, <2>3, <2>4, FinishInv
  <2>6. TypeOK'
    BY ZenonT(60), <1>2, <2>4, <2>5 DEF Inv, TypeOK
  <2>7. MapsTogether' /\ CallSetIsOwned' /\ LoopIsSound'
    BY <1>0, <1>2 DEF Inv, MapsTogether, CallSetIsOwned, LoopIsSound
  <2> QED
    BY <2>5, <2>6, <2>7 DEF Inv
<1>3. CASE /\ IsStarted
           /\ batches[batch[o].ID] = Nil
           /\ HasRoom
           /\ rset' = [rset EXCEPT ![Fresh] = NewReplaySet]
           /\ call' = [obj |-> o, todo |-> ForEachDomain(batch[o]),
                       replays |-> Fresh]
           /\ UNCHANGED <<entries, batches, batch, reply>>
  <2>1. PICK r : r = Fresh
    BY Zenon
  <2>2. /\ r \in Ref
        /\ \A u \in BatchObj : batch[u] # Nil => batch[u].ReplaySet # r
        /\ batches # Nil => \A id \in BatchId : batches[id] # r
    BY <1>3, <2>1, FreshIsUnused
  <2>3. /\ call' = [obj |-> o, todo |-> ForEachDomain(batch[o]), replays |-> r]
        /\ rset' \in [Ref -> SUBSET SeqNum]
        /\ rset'[r] = {}
    BY Zenon, <1>3, <2>1, <2>2 DEF Inv, TypeOK, NewReplaySet
  <2>4. /\ call' \in CallType
        /\ call'.obj = o
        /\ call'.todo = ForEachDomain(batch[o])
        /\ call'.replays = r
    BY ZenonT(60), <2>2, <2>3 DEF CallType, ForEachDomain
  <2>5. TypeOK' /\ MapsTogether' /\ BatchesWellFormed' /\ OpenSetsAreOwned'
    BY <1>3, <2>3, <2>4
    DEF Inv, TypeOK, MapsTogether, BatchesWellFormed, OpenSetsAreOwned
  <2>6. CallSetIsOwned'
    BY ZenonT(60), <1>3, <2>2, <2>4 DEF CallSetIsOwned, IsStarted
  <2>7. LoopIsSound'
    BY Zenon, <1>0, <1>3, <2>3, <2>4 DEF LoopIsSound, IsStarted
  <2> QED
    BY <2>5, <2>6, <2>7 DEF Inv
<1> QED
  BY Zenon, <1>1, <1>2, <1>3 DEF PutBatch

\* A PutBatch in its loop, unfolded.
LEMMA InLoop ==
  ASSUME Inv, call # Nil
  PROVE  /\ call \in CallType
         /\ call.obj \in BatchObj
         /\ call.replays \in Ref
         /\ batch[call.obj] # Nil
         /\ batch[call.obj] \in BatchType
         /\ batch[call.obj].ID \in BatchId
         /\ batch[call.obj].ReplaySet \in Ref
         /\ batch[call.obj].entries \in Entries
         /\ batch[call.obj].ReplaySet # call.replays
         /\ entries # Nil /\ entries \in [HashPrefix -> Cltv \cup {Nil}]
         /\ batches # Nil /\ batches \in [BatchId -> Ref \cup {Nil}]
         /\ batches[batch[call.obj].ID] = Nil
         /\ DistinctPrefixes(batch[call.obj].entries)
         /\ call.todo \subseteq ForEachDomain(batch[call.obj])
<1>1. call \in CallType /\ call.obj \in BatchObj /\ call.replays \in Ref
  BY ZenonT(60) DEF Inv, TypeOK, CallType
<1>2. /\ batch[call.obj] # Nil
      /\ batches[batch[call.obj].ID] = Nil
      /\ call.todo \subseteq ForEachDomain(batch[call.obj])
      /\ entries # Nil /\ batches # Nil
  BY DEF Inv, LoopIsSound, IsStarted
<1>3. /\ entries \in [HashPrefix -> Cltv \cup {Nil}]
      /\ batches \in [BatchId -> Ref \cup {Nil}]
      /\ batch[call.obj] \in BatchType
  BY <1>1, <1>2 DEF Inv, TypeOK
<1>4. batch[call.obj].ReplaySet # call.replays
  BY <1>1, <1>2 DEF Inv, CallSetIsOwned
<1>5. DistinctPrefixes(batch[call.obj].entries)
  BY <1>1, <1>2 DEF Inv, BatchesWellFormed
<1> QED
  BY Zenon, <1>1, <1>2, <1>3, <1>4, <1>5 DEF BatchType

\* One round of the loop: the prefix of the entry was in the log, or no other
\* entry of the batch has it and it is put there.
LEMMA PutBatchEntryInv ==
  ASSUME Inv, NEW s \in SeqNum, PutBatchEntry(s)
  PROVE  Inv'
<1>0. call # Nil /\ s \in call.todo /\ UNCHANGED <<batches, batch, reply>>
  BY DEF PutBatchEntry
<1>1. PICK b : b = batch[call.obj]
  OBVIOUS
<1>2. PICK r : r = call.replays
  OBVIOUS
<1>3. PICK c : c = call.obj
  BY Zenon
<1>4. /\ call \in CallType
      /\ c \in BatchObj /\ r \in Ref
      /\ b \in BatchType /\ b # Nil
      /\ entries # Nil /\ entries \in [HashPrefix -> Cltv \cup {Nil}]
      /\ batches # Nil
      /\ batches[b.ID] = Nil
      /\ DistinctPrefixes(b.entries)
      /\ call.todo \subseteq ForEachDomain(b)
  BY <1>0, <1>1, <1>2, <1>3, InLoop
<1>5. /\ call' \in CallType
      /\ call' # Nil
      /\ call'.obj = c
      /\ call'.replays = r
      /\ call'.todo = call.todo \ {s}
  <2>1. call' = [call EXCEPT !.todo = @ \ {s}]
    BY Zenon DEF PutBatchEntry
  <2> QED
    BY <1>2, <1>3, <1>4, <2>1, ObjectAssumption DEF CallType
<1>6. /\ batch[c] = b /\ batch'[c] = b
      /\ s \in ForEachDomain(b) /\ call.todo \subseteq ForEachDomain(b)
  BY <1>0, <1>1, <1>3, <1>4
<1>7. PICK h : h = b.entries[s].hashPrefix
  OBVIOUS
<1>8. PICK v : v = b.entries[s].cltv
  BY ZenonT(60)
<1>9. h \in HashPrefix /\ v \in Cltv /\ v # Nil
  BY <1>4, <1>6, <1>7, <1>8, EntryTypes, NilAssumption, SMTT(30)
<1>10. \/ /\ entries[h] # Nil
          /\ rset' = [rset EXCEPT ![r] = Add(@, s)]
          /\ UNCHANGED entries
       \/ /\ entries[h] = Nil
          /\ entries' = [entries EXCEPT ![h] = v]
          /\ UNCHANGED rset
  BY <1>1, <1>2, <1>7, <1>8, ZenonT(60) DEF PutBatchEntry, Exists, Insert
<1>11. /\ entries' \in [HashPrefix -> Cltv \cup {Nil}]
       /\ entries' # Nil
       /\ rset' \in [Ref -> SUBSET SeqNum]
  BY <1>4, <1>9, <1>10, ObjectAssumption DEF Inv, TypeOK, Add
<1>12. TypeOK'
  BY ZenonT(60), <1>0, <1>5, <1>11 DEF Inv, TypeOK
<1>13. MapsTogether' /\ BatchesWellFormed' /\ OpenSetsAreOwned'
  BY <1>0, <1>4, <1>11
  DEF Inv, MapsTogether, BatchesWellFormed, OpenSetsAreOwned
<1>14. CallSetIsOwned'
  BY Zenon, <1>0, <1>2, <1>5 DEF Inv, CallSetIsOwned
<1>15. /\ rset[r] \subseteq ForEachDomain(b) \ call.todo
       /\ \A t \in ForEachDomain(b) \ call.todo :
            /\ entries[b.entries[t].hashPrefix] # Nil
            /\ t \notin rset[r] =>
                 entries[b.entries[t].hashPrefix] = b.entries[t].cltv
  BY ZenonT(60), <1>0, <1>1, <1>2 DEF Inv, LoopIsSound
<1>16. /\ rset'[r] \subseteq (ForEachDomain(b) \ call.todo) \cup {s}
       /\ \A t \in (ForEachDomain(b) \ call.todo) \cup {s} :
            /\ entries'[b.entries[t].hashPrefix] # Nil
            /\ t \notin rset'[r] =>
                 entries'[b.entries[t].hashPrefix] = b.entries[t].cltv
  <2>1. CASE entries[h] # Nil /\ rset' = [rset EXCEPT ![r] = Add(@, s)]
             /\ UNCHANGED entries
    <3>1. rset'[r] = rset[r] \cup {s}
      BY ZenonT(60), <1>4, <2>1 DEF Inv, TypeOK, Add
    <3> QED
      BY <1>7, <1>15, <2>1, <3>1
  <2>2. CASE entries[h] = Nil /\ entries' = [entries EXCEPT ![h] = v]
             /\ UNCHANGED rset
    <3>1. \A t \in ForEachDomain(b) \ call.todo : b.entries[t].hashPrefix # h
      BY <1>15, <2>2
    <3>2. entries'[h] = v
      BY Zenon, <1>4, <1>9, <2>2
    <3>3. \A t \in ForEachDomain(b) \ call.todo :
            entries'[b.entries[t].hashPrefix] = entries[b.entries[t].hashPrefix]
      BY <1>4, <2>2, <3>1, EntryTypes
    <3> QED
      BY ZenonT(60), <1>7, <1>8, <1>9, <1>15, <2>2, <3>2, <3>3
  <2> QED
    BY ZenonT(60), <1>10, <2>1, <2>2
<1>17. ForEachDomain(b) \ call'.todo = (ForEachDomain(b) \ call.todo) \cup {s}
  BY Zenon, <1>0, <1>5, <1>6
<1>18. LoopIsSound'
  BY ZenonT(60), <1>0, <1>4, <1>5, <1>6, <1>11, <1>16, <1>17 DEF LoopIsSound, IsStarted
<1> QED
  BY Zenon, <1>12, <1>13, <1>14, <1>18 DEF Inv

\* The end of PutBatch: the log and the batch share the set, which the batch no
\* longer writes to.
LEMMA PutBatchEndInv ==
  ASSUME Inv, PutBatchEnd
  PROVE  Inv'
<1>0. call # Nil /\ call' = Nil /\ UNCHANGED entries
  BY DEF PutBatchEnd
<1>1. PICK b : b = batch[call.obj]
  OBVIOUS
<1>2. PICK r : r = call.replays
  OBVIOUS
<1>3. PICK o : o = call.obj
  OBVIOUS
<1>4. /\ o \in BatchObj /\ r \in Ref
      /\ b \in BatchType /\ b # Nil /\ b = batch[o]
      /\ b.ID \in BatchId /\ b.ReplaySet \in Ref
      /\ entries # Nil
      /\ batches # Nil /\ batches \in [BatchId -> Ref \cup {Nil}]
  BY Zenon, <1>0, <1>1, <1>2, <1>3, InLoop
<1>5. /\ rset' = [rset EXCEPT ![r] = Merge(@, rset[b.ReplaySet])]
      /\ batches' = [batches EXCEPT ![b.ID] = r]
      /\ Finish(o, r)
  BY Zenon, <1>1, <1>2, <1>3 DEF PutBatchEnd
<1>6. /\ rset' \in [Ref -> SUBSET SeqNum]
      /\ batches' \in [BatchId -> Ref \cup {Nil}]
      /\ batches' # Nil
      /\ \A id \in BatchId : batches'[id] = IF id = b.ID THEN r ELSE batches[id]
  BY <1>4, <1>5, ObjectAssumption DEF Inv, TypeOK, Merge
<1>7. /\ \A u \in BatchObj : batch[u] # Nil => batch[u].ReplaySet # r
      /\ \A id \in BatchId : batches[id] # r
  BY ZenonT(60), <1>0, <1>2 DEF Inv, CallSetIsOwned
<1>8. /\ batch' \in [BatchObj -> BatchType \cup {Nil}]
      /\ reply' \in Replies
      /\ BatchesWellFormed'
      /\ \A u \in BatchObj \ {o} : batch'[u] = batch[u]
      /\ batch'[o] # Nil /\ batch'[o].IsCommitted /\ batch'[o].ReplaySet = r
  BY <1>4, <1>5, <1>6, <1>7, FinishInv
<1>9. OpenSetsAreOwned'
  BY <1>4, <1>6, <1>7, <1>8 DEF Inv, OpenSetsAreOwned
<1>10. TypeOK'
  BY ZenonT(60), <1>0, <1>6, <1>8 DEF Inv, TypeOK
<1>11. MapsTogether' /\ CallSetIsOwned' /\ LoopIsSound'
  BY <1>0, <1>4, <1>6 DEF MapsTogether, CallSetIsOwned, LoopIsSound
<1> QED
  BY <1>8, <1>9, <1>10, <1>11 DEF Inv

\* Every step keeps the invariant.
LEMMA NextInv == Inv /\ [Next]_vars => Inv'
<1> SUFFICES ASSUME Inv, [Next]_vars
             PROVE  Inv'
  BY SMTT(30)
<1>1. CASE UNCHANGED vars
  BY <1>1, ZenonT(60) DEF vars, Inv, TypeOK, MapsTogether, BatchesWellFormed,
              OpenSetsAreOwned, CallSetIsOwned, LoopIsSound, IsStarted
<1> QED
  BY <1>1, LogActionsInv, MakeBatchInv, BatchPutInv, PutBatchInv,
     PutBatchEntryInv, PutBatchEndInv DEF Next

\* The inductive invariant holds in every reachable state.
THEOREM InvariantHolds == Spec => []Inv
BY InitInv, NextInv, PTL DEF Spec

\* The log, the batches, the ReplaySets and the replies keep their types.
THEOREM TypeCorrect == Spec => []TypeOK
<1>1. Inv => TypeOK
  BY DEF Inv
<1> QED
  BY <1>1, InvariantHolds, PTL

\* Whatever is put in a batch and whenever it is committed, no prefix is stored
\* in it twice and Batch.Put knows every prefix that is.
THEOREM WellFormedBatches == Spec => []BatchesWellFormed
<1>1. Inv => BatchesWellFormed
  BY DEF Inv
<1> QED
  BY <1>1, InvariantHolds, PTL

-----------------------------------------------------------------------------
(***************************************************************************)
(* What a step may never do.                                               *)
(***************************************************************************)

\* The ReplaySet of a committed batch, and every set the log remembers.
IsFinal(r) ==
  \/ \E o \in BatchObj : /\ batch[o] # Nil
                         /\ batch[o].IsCommitted
                         /\ batch[o].ReplaySet = r
  \/ /\ batches # Nil
     /\ \E id \in BatchId : batches[id] = r

\* A step writes only to a ReplaySet that it has just allocated, that a PutBatch
\* is filling, or that belongs to a batch which still takes entries: to no final
\* one.
LEMMA FinalSetsStay ==
  ASSUME Inv, Next, NEW r \in Ref, IsFinal(r)
  PROVE  rset'[r] = rset[r]
<1>1. ASSUME HasRoom PROVE r # Fresh
  BY ZenonT(60), <1>1, FreshIsUnused DEF IsFinal
<1>2. ASSUME call # Nil PROVE r # call.replays
  BY <1>2, InLoop DEF Inv, CallSetIsOwned, IsFinal
<1>3. ASSUME NEW u \in BatchObj, batch[u] # Nil, IsOpen(batch[u])
      PROVE  r # batch[u].ReplaySet
  BY Zenon, <1>3 DEF Inv, OpenSetsAreOwned, IsFinal, IsOpen
<1>4. rset \in [Ref -> SUBSET SeqNum]
  BY DEF Inv, TypeOK
<1>5. ASSUME NEW q \in Ref, NEW x, rset' = [rset EXCEPT ![q] = x], r # q
      PROVE  rset'[r] = rset[r]
  BY <1>4, <1>5
<1>6. CASE rset' = rset
  BY <1>6
<1>7. ASSUME NEW o \in BatchObj, NEW id \in BatchId, MakeBatch(o, id)
      PROVE  rset'[r] = rset[r]
  BY Zenon, <1>1, <1>5, <1>7, FreshIsUnused DEF MakeBatch
<1>8. ASSUME NEW o \in BatchObj, NEW s \in SeqNum, NEW h \in HashPrefix,
             NEW c \in Cltv, BatchPut(o, s, h, c)
      PROVE  rset'[r] = rset[r]
  <2>1. batch[o] # Nil /\ batch[o].ReplaySet \in Ref
    BY <1>8 DEF BatchPut, Inv, TypeOK, BatchType
  <2>2. CASE IsOpen(batch[o])
             /\ rset' = [rset EXCEPT ![batch[o].ReplaySet] = Add(@, s)]
    BY Zenon, <1>3, <1>4, <2>1, <2>2
  <2> QED
    BY ZenonT(60), <1>6, <1>8, <2>2 DEF BatchPut
<1>9. ASSUME NEW o \in BatchObj, PutBatch(o)
      PROVE  rset'[r] = rset[r]
  <2>1. CASE HasRoom /\ rset' = [rset EXCEPT ![Fresh] = NewReplaySet]
    BY <1>1, <1>5, <2>1, FreshIsUnused
  <2> QED
    BY Zenon, <1>6, <1>9, <2>1 DEF PutBatch, NotStarted
<1>10. ASSUME NEW s \in SeqNum, PutBatchEntry(s)
       PROVE  rset'[r] = rset[r]
  <2>1. call # Nil /\ call.replays \in Ref
    BY <1>10, InLoop DEF PutBatchEntry
  <2>2. CASE rset' = [rset EXCEPT ![call.replays] = Add(@, s)]
    BY <1>2, <1>4, <2>1, <2>2
  <2> QED
    BY Zenon, <1>6, <1>10, <2>2 DEF PutBatchEntry
<1>11. CASE PutBatchEnd
  <2>1. call # Nil /\ call.replays \in Ref
    BY <1>11, InLoop DEF PutBatchEnd
  <2>2. rset' = [rset EXCEPT ![call.replays] =
                   Merge(@, rset[batch[call.obj].ReplaySet])]
    BY ZenonT(60), <1>11 DEF PutBatchEnd
  <2> QED
    BY ZenonT(60), <1>2, <1>4, <2>1, <2>2
<1>12. ASSUME \/ Start \/ Stop
              \/ \E h \in HashPrefix : Get(h) \/ Delete(h)
              \/ \E h \in HashPrefix, c \in Cltv : Put(h, c)
       PROVE  rset' = rset
  BY <1>12 DEF Start, Stop, Get, Delete, Put, NotStarted
<1> QED
  BY <1>6, <1>7, <1>8, <1>9, <1>10, <1>11, <1>12 DEF Next

\* Once a batch is committed nothing changes the ReplaySet it points to: not the
\* log, not a later batch with the same identifier, not Batch.Put.
THEOREM ReplaySetsAreFinal == Spec => ReplaySetFinal
<1>1. ASSUME Inv, [Next]_vars, NEW o \in BatchObj,
             batch[o] # Nil, batch[o].IsCommitted
      PROVE  rset'[batch[o].ReplaySet] = rset[batch[o].ReplaySet]
  <2>1. CASE UNCHANGED vars
    BY <2>1 DEF vars
  <2>2. CASE Next
    <3>1. batch[o].ReplaySet \in Ref
      BY <1>1 DEF Inv, TypeOK, BatchType
    <3>2. IsFinal(batch[o].ReplaySet)
      BY <1>1 DEF IsFinal
    <3> QED
      BY Zenon, <1>1, <2>2, <3>1, <3>2, FinalSetsStay
  <2> QED
    BY Zenon, <1>1, <2>1, <2>2
<1>2. Inv /\ [Next]_vars =>
        [\A o \in BatchObj :
           /\ batch[o] # Nil /\ batch[o].IsCommitted
           /\ batch'[o].IsCommitted
           /\ batch'[o].ReplaySet = batch[o].ReplaySet
           => rset'[batch[o].ReplaySet] = rset[batch[o].ReplaySet]]_vars
  BY Zenon, <1>1
<1> QED
  BY <1>2, InvariantHolds, PTL DEF Spec, ReplaySetFinal

-----------------------------------------------------------------------------
(***************************************************************************)
(* MemoryReplayLog implements ReplayLog: every step is a step of the       *)
(* abstract log or leaves it alone.                                        *)
(***************************************************************************)

\* Between two calls the abstract log holds what the map holds.
LEMMA IdleSeen ==
  ASSUME TypeOK, call = Nil
  PROVE  /\ entries # Nil => seenBar = entries
         /\ entries = Nil => seenBar = [h \in HashPrefix |-> Nil]
BY Zenon DEF TypeOK, seenBar, InsertedByCall

\* The same after a step that ends outside a call.
LEMMA IdleSeenNext ==
  ASSUME TypeOK', call' = Nil
  PROVE  /\ entries' # Nil => seenBar' = entries'
         /\ entries' = Nil => seenBar' = [h \in HashPrefix |-> Nil]
BY DEF TypeOK, seenBar, InsertedByCall

\* The remembered answers stay as long as the map of batches does.
LEMMA ResultsStay ==
  ASSUME Inv, Next, batches' = batches
  PROVE  resultsBar' = resultsBar
<1>1. ASSUME batches # Nil, NEW id \in BatchId, batches[id] # Nil
      PROVE  rset'[batches[id]] = rset[batches[id]]
  <2>1. batches[id] \in Ref
    BY <1>1 DEF Inv, TypeOK
  <2>2. IsFinal(batches[id])
    BY <1>1 DEF IsFinal
  <2> QED
    BY Zenon, <2>1, <2>2, FinalSetsStay
<1> QED
  BY <1>1 DEF resultsBar

\* The calls that involve no batch are the calls of the abstract log.
LEMMA LogActionsRefine ==
  ASSUME Inv, Inv', Next,
         \/ Start \/ Stop
         \/ \E h \in HashPrefix : Get(h) \/ Delete(h)
         \/ \E h \in HashPrefix, c \in Cltv : Put(h, c)
  PROVE  Abs!LogNext
<1>0. call = Nil /\ call' = Nil
  BY Zenon DEF Start, Stop, Get, Delete, Put, NotStarted
<1>1. /\ entries # Nil => seenBar = entries
      /\ entries = Nil => seenBar = [h \in HashPrefix |-> Nil]
      /\ entries' # Nil => seenBar' = entries'
      /\ entries' = Nil => seenBar' = [h \in HashPrefix |-> Nil]
  BY <1>0, IdleSeen, IdleSeenNext DEF Inv
<1>2. batches' = batches => resultsBar' = resultsBar
  BY ResultsStay
<1>3. /\ IsStarted <=> entries # Nil
      /\ IsStarted' <=> entries' # Nil
  BY DEF Inv, MapsTogether, IsStarted
<1>4. ASSUME NEW op, NotStarted(op)
      PROVE  Abs!NotStarted(op)
  <2>1. ~IsStarted /\ UNCHANGED <<entries, batches>>
        /\ reply' = Reply(op, "errReplayLogNotStarted")
    BY <1>4 DEF NotStarted
  <2>2. seenBar' = seenBar /\ resultsBar' = resultsBar /\ IsStarted' = IsStarted
    BY Zenon, <1>1, <1>2, <2>1 DEF IsStarted
  <2>3. reply' = Abs!Reply(op, "errReplayLogNotStarted")
    BY <2>1 DEF Abs!Reply, Reply
  <2> QED
    BY <2>1, <2>2, <2>3 DEF Abs!NotStarted
<1>5. CASE Start
  <2>1. entries' # Nil
    BY <1>5, ObjectAssumption DEF Start
  <2>2. resultsBar' = [id \in BatchId |-> Nil]
    BY ZenonT(60), <1>5 DEF Start, resultsBar
  <2>3. Abs!Start
    BY <1>1, <1>3, <1>5, <2>1, <2>2
    DEF Start, Abs!Start, Abs!KeepOrForget, Abs!NoEntries, Abs!NoResults,
        Abs!Reply, Reply
  <2> QED
    BY <2>3 DEF Abs!LogNext
<1>6. CASE Stop
  <2>1. CASE NotStarted("Stop")
    BY <1>4, <2>1 DEF Abs!NotStarted, Abs!Stop, Abs!LogNext
  <2>2. CASE /\ IsStarted
             /\ entries' = Nil
             /\ batches' = Nil
             /\ reply' = Reply("Stop", "ok")
    <3>1. resultsBar' = [id \in BatchId |-> Nil]
      BY Zenon, <2>2 DEF resultsBar
    <3>2. Abs!Stop
      BY <1>1, <1>3, <2>2, <3>1
      DEF Abs!Stop, Abs!KeepOrForget, Abs!NoEntries, Abs!NoResults,
          Abs!Reply, Reply
    <3> QED
      BY <3>2 DEF Abs!LogNext
  <2> QED
    BY Zenon, <1>6, <2>1, <2>2 DEF Stop
<1>7. ASSUME NEW h \in HashPrefix, Get(h)
      PROVE  Abs!Get(h)
  <2>1. CASE NotStarted("Get")
    BY <1>4, <2>1 DEF Abs!Get
  <2>2. CASE IsStarted /\ UNCHANGED <<entries, batches>>
             /\ reply' = IF entries[h] = Nil
                         THEN Reply("Get", "ErrLogEntryNotFound")
                         ELSE CltvReply("Get", entries[h])
    BY <1>1, <1>2, <1>3, <2>2, Zenon
    DEF Abs!Get, Abs!Reply, Reply, Abs!CltvReply, CltvReply
  <2> QED
    BY <1>7, <2>1, <2>2 DEF Get
<1>8. ASSUME NEW h \in HashPrefix, Delete(h)
      PROVE  Abs!Delete(h)
  <2>1. CASE NotStarted("Delete")
    BY <1>4, <2>1 DEF Abs!Delete
  <2>2. CASE IsStarted /\ UNCHANGED batches /\ reply' = Reply("Delete", "ok")
             /\ entries' = [entries EXCEPT ![h] = Nil]
    <3>1. entries' # Nil
      BY ZenonT(60), <1>3, <2>2 DEF Inv, MapsTogether, IsStarted
    <3> QED
      BY <1>1, <1>2, <1>3, <2>2, <3>1, Zenon DEF Abs!Delete, Abs!Reply, Reply
  <2> QED
    BY <1>8, <2>1, <2>2 DEF Delete
<1>9. ASSUME NEW h \in HashPrefix, NEW c \in Cltv, Put(h, c)
      PROVE  Abs!Put(h, c)
  <2>1. CASE NotStarted("Put")
    BY <1>4, <2>1 DEF Abs!Put
  <2>2. CASE /\ IsStarted
             /\ Exists(h)
             /\ reply' = Reply("Put", "ErrReplayedPacket")
             /\ UNCHANGED <<entries, batches>>
    BY <1>1, <1>2, <1>3, <2>2, Zenon DEF Abs!Put, Abs!Reply, Reply, Exists
  <2>3. CASE /\ IsStarted
             /\ ~Exists(h)
             /\ Insert(h, c)
             /\ reply' = Reply("Put", "ok")
             /\ UNCHANGED batches
    <3>1. entries' # Nil
      BY Zenon, <1>3, <2>3 DEF Inv, MapsTogether, IsStarted
    <3> QED
      BY <1>1, <1>2, <1>3, <2>3, <3>1, Zenon
      DEF Abs!Put, Abs!Reply, Reply, Exists, Insert
  <2> QED
    BY <1>9, <2>1, <2>2, <2>3 DEF Put
<1> QED
  BY ZenonT(60), <1>5, <1>6, <1>7, <1>8, <1>9 DEF Abs!LogNext

\* Making and filling batches, and a PutBatch up to its last step, leave the
\* abstract log alone.
LEMMA BatchActionsStutter ==
  ASSUME Inv, Inv', Next,
         \/ \E o \in BatchObj, id \in BatchId : MakeBatch(o, id)
         \/ \E o \in BatchObj, s \in SeqNum, h \in HashPrefix, c \in Cltv :
              BatchPut(o, s, h, c)
         \/ \E o \in BatchObj :
              /\ PutBatch(o) /\ UNCHANGED <<entries, batches, batch, reply>>
              /\ call' = [obj |-> o, todo |-> ForEachDomain(batch[o]),
                          replays |-> Fresh]
         \/ \E s \in SeqNum : PutBatchEntry(s)
  PROVE  UNCHANGED Abs!logVars
<1>1. batches' = batches /\ reply' = reply
  BY Zenon DEF MakeBatch, BatchPut, PutBatchEntry
<1>2. resultsBar' = resultsBar
  BY Zenon, <1>1, ResultsStay
<1>3. IsStarted' = IsStarted
  BY <1>1, SMTT(30) DEF Inv, MapsTogether, IsStarted
<1>4. seenBar' = seenBar
  <2>1. CASE call = Nil /\ call' = Nil /\ entries' = entries
    BY <2>1, Zenon DEF seenBar, InsertedByCall
  <2>2. ASSUME NEW o \in BatchObj, PutBatch(o), UNCHANGED <<entries, batch>>,
               call' = [obj |-> o, todo |-> ForEachDomain(batch[o]),
                        replays |-> Fresh]
        PROVE  seenBar' = seenBar
    <3>1. call = Nil
      BY <2>2, Zenon DEF PutBatch
    <3>2. ForEachDomain(batch'[call'.obj]) \ call'.todo = {}
      BY Zenon, <2>2
    <3>3. InsertedByCall = {}
      BY <3>1, ZenonT(30) DEF InsertedByCall
    <3>4. InsertedByCall' = {}
      BY <3>2, ZenonT(30) DEF InsertedByCall
    <3>5. entries' = entries /\ InsertedByCall' = InsertedByCall
      BY <2>2, <3>3, <3>4, Zenon
    <3> QED
      BY <3>5, Zenon DEF seenBar
  <2>3. ASSUME NEW s \in SeqNum, PutBatchEntry(s)
        PROVE  seenBar' = seenBar
    <3>0. call # Nil /\ s \in call.todo /\ UNCHANGED batch
      BY <2>3, ZenonT(30) DEF PutBatchEntry
    <3>1. PICK b : b = batch[call.obj]
      BY Zenon
    <3>2. PICK r : r = call.replays
      BY Zenon
    <3>3. /\ call \in CallType /\ r \in Ref
          /\ b \in BatchType /\ b.entries \in Entries
          /\ entries # Nil /\ entries \in [HashPrefix -> Cltv \cup {Nil}]
          /\ call.todo \subseteq ForEachDomain(b)
      BY <3>0, <3>1, <3>2, InLoop, Zenon
    <3>4. /\ call'.obj = call.obj
          /\ call'.replays = r
          /\ call'.todo = call.todo \ {s}
          /\ call' # Nil
      <4>1. call' = [call EXCEPT !.todo = @ \ {s}]
        BY <2>3, Zenon DEF PutBatchEntry
      <4> QED
        BY <3>2, <3>3, <4>1, ObjectAssumption, SMTT(30) DEF CallType
    <3>5. PICK h : h = b.entries[s].hashPrefix
      BY Zenon
    <3>6. h \in HashPrefix
      BY <3>0, <3>3, <3>5, EntryTypes
    <3>7. PICK D : D = ForEachDomain(b) \ call.todo
      BY Zenon
    <3>8. /\ InsertedByCall = {b.entries[t].hashPrefix : t \in D \ rset[r]}
          /\ InsertedByCall'
               = {b.entries[t].hashPrefix : t \in (D \cup {s}) \ rset'[r]}
          /\ s \notin D
      <4>1. ForEachDomain(b) \ (call.todo \ {s}) = D \cup {s} /\ s \notin D
        BY Zenon, <3>0, <3>3, <3>7
      <4>2. batch'[call'.obj] = b
        BY <3>0, <3>1, <3>4, SMTT(30)
      <4> QED
        BY <3>0, <3>1, <3>2, <3>4, <3>7, <4>1, <4>2, ZenonT(60) DEF InsertedByCall
    <3>9. rset[r] \subseteq D /\ rset \in [Ref -> SUBSET SeqNum]
      BY <3>0, <3>1, <3>2, <3>7, ZenonT(30) DEF Inv, LoopIsSound, TypeOK
    <3>10. CASE entries' = entries /\ rset' = [rset EXCEPT ![r] = Add(@, s)]
      <4>1. rset'[r] = rset[r] \cup {s}
        BY Zenon, <3>3, <3>9, <3>10 DEF Add
      <4>2. (D \cup {s}) \ rset'[r] = D \ rset[r]
        BY ZenonT(60), <3>8, <4>1
      <4> QED
        BY <3>8, <3>10, <4>2, Zenon DEF seenBar
    <3>11. CASE /\ entries[h] = Nil
                /\ entries' = [entries EXCEPT ![h] = b.entries[s].cltv]
                /\ rset' = rset
      <4>1. s \notin rset[r]
        BY <3>8, <3>9, ZenonT(30)
      <4>2. \A x : x \in InsertedByCall' <=> x \in InsertedByCall \/ x = h
        BY Zenon, <3>5, <3>8, <3>11, <4>1
      <4>3. entries' # Nil
        BY Zenon, <3>3, <3>0, InLoop, <1>3 DEF IsStarted
      <4>4. \A x \in HashPrefix \ {h} : entries'[x] = entries[x]
        BY <3>3, <3>11
      <4> QED
        BY <3>3, <3>11, <4>2, <4>3, <4>4, SMTT(30) DEF seenBar
    <3> QED
      BY <2>3, <3>1, <3>2, <3>5, <3>10, <3>11, ZenonT(30)
      DEF PutBatchEntry, Exists, Insert
  <2> QED
    BY <2>1, <2>2, <2>3, ZenonT(30) DEF MakeBatch, BatchPut
<1> QED
  BY Zenon, <1>1, <1>2, <1>3, <1>4 DEF Abs!logVars

\* The last step of PutBatch is the whole of the abstract one: the replays of the
\* loop are the entries the abstract log holds, and what it inserted are the
\* others.
LEMMA PutBatchEndRefines ==
  ASSUME Inv, Inv', Next, PutBatchEnd
  PROVE  Abs!PutBatch(batch[call.obj].ID, batch[call.obj].entries,
                      rset[batch[call.obj].ReplaySet])
<1>0. call # Nil /\ call' = Nil /\ UNCHANGED entries /\ call.todo = {}
  BY DEF PutBatchEnd
<1>1. PICK b : b = batch[call.obj]
  OBVIOUS
<1>2. PICK r : r = call.replays
  OBVIOUS
<1>3. PICK es : es = b.entries
  OBVIOUS
<1>4. PICK R : R = rset[r]
  BY ZenonT(60)
<1>5. /\ r \in Ref
      /\ b \in BatchType /\ b.ID \in BatchId /\ b.ReplaySet \in Ref
      /\ es \in Entries
      /\ b.ReplaySet # r
      /\ entries # Nil /\ entries \in [HashPrefix -> Cltv \cup {Nil}]
      /\ batches # Nil /\ batches \in [BatchId -> Ref \cup {Nil}]
      /\ batches[b.ID] = Nil
      /\ DistinctPrefixes(es)
  BY ZenonT(60), <1>0, <1>1, <1>2, <1>3, InLoop
<1>6. /\ rset' = [rset EXCEPT ![r] = Merge(@, rset[b.ReplaySet])]
      /\ batches' = [batches EXCEPT ![b.ID] = r]
      /\ reply' = ReplaysReply("PutBatch", rset'[r])
  BY ZenonT(60), <1>1, <1>2 DEF PutBatchEnd, Finish
<1>7. rset'[r] = R \cup rset[b.ReplaySet] /\ R \in SUBSET SeqNum
  BY <1>4, <1>5, <1>6, SMTT(30) DEF Inv, TypeOK, Merge
<1>8. /\ R \subseteq ForEachDomain(b)
      /\ \A s \in ForEachDomain(b) :
           /\ entries[es[s].hashPrefix] # Nil
           /\ s \notin R => entries[es[s].hashPrefix] = es[s].cltv
  BY <1>0, <1>1, <1>2, <1>3, <1>4, Zenon DEF Inv, LoopIsSound
<1>9. \A s \in ForEachDomain(b) : s \in SeqNum /\ es[s] # Nil
                                  /\ es[s].hashPrefix \in HashPrefix
  BY <1>3, <1>5, EntryTypes
<1>10. \A s \in SeqNum : es[s] # Nil => s \in ForEachDomain(b)
  BY <1>3 DEF ForEachDomain
<1>11. InsertedByCall = {es[s].hashPrefix : s \in ForEachDomain(b) \ R}
  BY Zenon, <1>0, <1>1, <1>2, <1>3, <1>4 DEF InsertedByCall
<1>12. ASSUME NEW s \in SeqNum, es[s] # Nil
       PROVE  seenBar[es[s].hashPrefix] = Nil <=> s \notin R
  <2>1. s \in ForEachDomain(b) /\ es[s].hashPrefix \in HashPrefix
    BY Zenon, <1>9, <1>10, <1>12
  <2>2. es[s].hashPrefix \in InsertedByCall <=> s \notin R
    BY ZenonT(60), <1>5, <1>9, <1>11, <1>12, <2>1 DEF DistinctPrefixes
  <2>3. seenBar[es[s].hashPrefix]
          = IF es[s].hashPrefix \in InsertedByCall THEN Nil
            ELSE entries[es[s].hashPrefix]
    BY Zenon, <1>5, <2>1 DEF seenBar
  <2> QED
    BY <1>8, <2>1, <2>2, <2>3
<1>13. Abs!Replayed(es) = R
  BY <1>7, <1>8, <1>9, <1>12 DEF Abs!Replayed
<1>14. seenBar' = entries
  BY ZenonT(60), <1>0, <1>5, IdleSeenNext DEF Inv
<1>15. ASSUME NEW h \in HashPrefix
       PROVE  entries[h]
                = IF seenBar[h] = Nil
                     /\ \E s \in SeqNum : es[s] # Nil /\ es[s].hashPrefix = h
                  THEN es[CHOOSE s \in SeqNum :
                            es[s] # Nil /\ es[s].hashPrefix = h].cltv
                  ELSE seenBar[h]
  <2>1. CASE seenBar[h] = Nil
             /\ \E s \in SeqNum : es[s] # Nil /\ es[s].hashPrefix = h
    <3>1. PICK c : c = CHOOSE s \in SeqNum : es[s] # Nil /\ es[s].hashPrefix = h
      OBVIOUS
    <3>2. c \in SeqNum /\ es[c] # Nil /\ es[c].hashPrefix = h
      BY <2>1, <3>1, ZenonT(60)
    <3>3. entries[h] = es[c].cltv
      BY Zenon, <1>8, <1>10, <1>12, <2>1, <3>2
    <3> QED
      BY <2>1, <3>1, <3>3
  <2>2. CASE ~ \E s \in SeqNum : es[s] # Nil /\ es[s].hashPrefix = h
    <3>1. h \notin InsertedByCall
      BY Zenon, <1>9, <1>11, <2>2
    <3>2. seenBar[h] = entries[h]
      BY Zenon, <1>5, <3>1 DEF seenBar
    <3> QED
      BY <2>2, <3>2
  <2>3. CASE seenBar[h] # Nil
    BY ZenonT(60), <1>5, <2>3 DEF seenBar
  <2> QED
    BY Zenon, <2>1, <2>2, <2>3
<1>16. seenBar' = Abs!AddAll(es)
  BY <1>5, <1>14, <1>15 DEF Abs!AddAll
<1>17. resultsBar' = [resultsBar EXCEPT ![b.ID] = R \cup rset[b.ReplaySet]]
  <2>1. batches' # Nil /\ \A id \in BatchId :
          batches'[id] = IF id = b.ID THEN r ELSE batches[id]
    BY Zenon, <1>0, <1>5, <1>6 DEF Inv, MapsTogether
  <2>2. ASSUME NEW id \in BatchId, batches[id] # Nil
        PROVE  rset'[batches[id]] = rset[batches[id]]
    BY <1>5, <2>2, FinalSetsStay DEF IsFinal
  <2>3. r # Nil
    BY Zenon, <1>5, RefAssumption
  <2>4. ASSUME NEW id \in BatchId
        PROVE  resultsBar'[id] = IF id = b.ID THEN R \cup rset[b.ReplaySet]
                                 ELSE resultsBar[id]
    <3>1. CASE id = b.ID
      BY ZenonT(60), <1>5, <1>7, <2>1, <2>3, <3>1 DEF resultsBar
    <3>2. CASE id # b.ID
      BY Zenon, <1>5, <2>1, <2>2, <3>2 DEF resultsBar
    <3> QED
      BY Zenon, <3>1, <3>2
  <2> QED
    BY <1>5, <2>4, Zenon DEF resultsBar
<1>18. resultsBar[b.ID] = Nil
  BY Zenon, <1>5 DEF resultsBar
<1>19. IsStarted /\ IsStarted'
  BY <1>0, <1>5, SMTT(30) DEF IsStarted, Inv, MapsTogether
<1>20. reply' = Abs!ReplaysReply("PutBatch", R \cup rset[b.ReplaySet])
  BY <1>6, <1>7, ZenonT(60) DEF ReplaysReply, Abs!ReplaysReply
<1>21. Abs!PutBatch(b.ID, es, rset[b.ReplaySet])
  BY <1>13, <1>16, <1>17, <1>18, <1>19, <1>20, SMTT(30) DEF Abs!PutBatch
<1> QED
  BY Zenon, <1>1, <1>3, <1>21

\* A PutBatch of a known identifier, or on a log that is not started.
LEMMA PutBatchRefines ==
  ASSUME Inv, Inv', Next, NEW o \in BatchObj, PutBatch(o),
         call' = call
  PROVE  Abs!PutBatch(batch[o].ID, batch[o].entries, rset[batch[o].ReplaySet])
<1>0. /\ call = Nil /\ batch[o] # Nil
      /\ entries' = entries /\ batches' = batches
  BY Zenon DEF PutBatch, NotStarted
<1>1. seenBar' = seenBar /\ resultsBar' = resultsBar /\ IsStarted' = IsStarted
  BY ZenonT(60), <1>0, ResultsStay DEF seenBar, InsertedByCall, IsStarted
<1>2. CASE NotStarted("PutBatch")
  <2>1. Abs!NotStarted("PutBatch")
    BY Zenon, <1>1, <1>2 DEF NotStarted, Abs!NotStarted, Reply, Abs!Reply
  <2> QED
    BY <2>1 DEF Abs!PutBatch
<1>3. CASE /\ IsStarted
           /\ batches[batch[o].ID] # Nil
           /\ UNCHANGED rset
           /\ Finish(o, batches[batch[o].ID])
  <2>1. batch[o].ID \in BatchId
    BY Zenon, <1>0 DEF Inv, TypeOK, BatchType
  <2>2. resultsBar[batch[o].ID] = rset[batches[batch[o].ID]]
        /\ batches[batch[o].ID] \in Ref
    BY Zenon, <1>3, <2>1 DEF resultsBar, IsStarted, Inv, TypeOK
  <2>3. resultsBar[batch[o].ID] # Nil
    BY <2>2, NilAssumption DEF Inv, TypeOK
  <2>4. reply' = Abs!ReplaysReply("PutBatch", resultsBar[batch[o].ID])
    BY <1>3, <2>2 DEF Finish, ReplaysReply, Abs!ReplaysReply
  <2> QED
    BY Zenon, <1>1, <1>3, <2>3, <2>4 DEF Abs!PutBatch
<1>4. ~ (HasRoom /\ call' = [obj |-> o, todo |-> ForEachDomain(batch[o]),
                            replays |-> Fresh])
  <2>1. SUFFICES ASSUME HasRoom PROVE Nil # [obj |-> o, todo |-> ForEachDomain(batch[o]),
                                             replays |-> Fresh]
    BY <1>0, Zenon
  <2>2. PICK r : r = Fresh
    OBVIOUS
  <2>3. PICK d : d = ForEachDomain(batch[o])
    OBVIOUS
  <2>4. r \in Ref
    BY <2>1, <2>2, FreshIsUnused, Zenon
  <2>5. d \in SUBSET SeqNum
    BY <2>3 DEF ForEachDomain
  <2>6. [obj |-> o, todo |-> d, replays |-> r] \in CallType
    BY ZenonT(60), <2>4, <2>5 DEF CallType
  <2> QED
    BY <2>2, <2>3, <2>6, ObjectAssumption, Zenon
<1> QED
  BY <1>2, <1>3, <1>4, Zenon DEF PutBatch

\* A batch is committed by a PutBatch of a known identifier or by the last step
\* of one that went through its loop, and by nothing else.
LEMMA WhoCommits ==
  ASSUME Inv, Next, NEW o \in BatchObj, batch[o] # Nil, ~batch[o].IsCommitted,
         batch'[o] # Nil, batch'[o].IsCommitted
  PROVE  (PutBatch(o) /\ call' = call) \/ (PutBatchEnd /\ call.obj = o)
<1>1. ~ UNCHANGED batch
  BY Zenon
<1>2. ASSUME NEW u \in BatchObj, NEW id \in BatchId, MakeBatch(u, id)
      PROVE  FALSE
  <2>1. NewBatch(id, Fresh).IsCommitted = FALSE
    BY Zenon DEF NewBatch
  <2> QED
    BY Zenon, <1>2, <2>1 DEF MakeBatch, Inv, TypeOK
<1>3. ASSUME NEW u \in BatchObj, NEW s \in SeqNum, NEW h \in HashPrefix,
             NEW c \in Cltv, BatchPut(u, s, h, c)
      PROVE  FALSE
  <2>1. batch' = [batch EXCEPT ![u] = AddEntry(@, s, h, c)]
    BY ZenonT(60), <1>1, <1>3 DEF BatchPut
  <2>2. batch[u] \in BatchType
    BY ZenonT(60), <1>3 DEF BatchPut, Inv, TypeOK
  <2>3. PICK a : a = AddEntry(batch[u], s, h, c)
    OBVIOUS
  <2>4. a.IsCommitted = batch[u].IsCommitted
    BY <2>2, <2>3 DEF AddEntry, BatchType
  <2> QED
    BY Zenon, <2>1, <2>3, <2>4 DEF Inv, TypeOK
<1>4. ASSUME NEW u \in BatchObj, NEW r, Finish(u, r)
      PROVE  u = o
  BY <1>4, SMTT(30) DEF Finish, Inv, TypeOK
<1>5. ASSUME NEW u \in BatchObj, PutBatch(u)
      PROVE  PutBatch(o) /\ call' = call
  BY <1>1, <1>4, <1>5, ZenonT(30) DEF PutBatch, NotStarted
<1>6. CASE PutBatchEnd
  BY <1>4, <1>6, InLoop, ZenonT(60) DEF PutBatchEnd
<1>7. ASSUME \/ Start \/ Stop
             \/ \E h \in HashPrefix : Get(h) \/ Delete(h)
             \/ \E h \in HashPrefix, c \in Cltv : Put(h, c)
             \/ \E s \in SeqNum : PutBatchEntry(s)
      PROVE  FALSE
  BY <1>1, <1>7 DEF Start, Stop, Get, Delete, Put, NotStarted, PutBatchEntry
<1> QED
  BY Zenon, <1>2, <1>3, <1>5, <1>6, <1>7 DEF Next

\* Committing a batch is one step of the abstract log with all the entries and
\* replays the batch has collected.
THEOREM CommitsAreWhole == Spec => CommitTakesTheWholeBatch
<1>1. ASSUME Inv, Inv', Next, NEW o \in BatchObj,
             batch[o] # Nil, ~batch[o].IsCommitted,
             batch'[o] # Nil, batch'[o].IsCommitted
      PROVE  Abs!PutBatch(batch[o].ID, batch[o].entries,
                          rset[batch[o].ReplaySet])
  BY Zenon, <1>1, WhoCommits, PutBatchRefines, PutBatchEndRefines
<1>2. Inv /\ Inv' /\ [Next]_vars =>
        [\A o \in BatchObj :
           /\ batch[o] # Nil /\ ~batch[o].IsCommitted
           /\ batch'[o] # Nil /\ batch'[o].IsCommitted
           => Abs!PutBatch(batch[o].ID, batch[o].entries,
                           rset[batch[o].ReplaySet])]_vars
  BY Zenon, <1>1
<1> QED
  BY <1>2, InvariantHolds, PTL DEF Spec, CommitTakesTheWholeBatch

\* Every PutBatch that ends is an abstract one, with entries of the right type
\* and no prefix twice.
LEMMA PutBatchIsLogNext ==
  ASSUME Inv, NEW o \in BatchObj, batch[o] # Nil,
         Abs!PutBatch(batch[o].ID, batch[o].entries, rset[batch[o].ReplaySet])
  PROVE  Abs!LogNext
<1>1. batch[o] \in BatchType
  BY Zenon DEF Inv, TypeOK
<1>2. batch[o].ID \in BatchId /\ batch[o].ReplaySet \in Ref
      /\ batch[o].entries \in Abs!Entries
  BY Zenon, <1>1 DEF BatchType, Entries, Abs!Entries, BatchEntry, Abs!BatchEntry
<1>3. rset[batch[o].ReplaySet] \in SUBSET SeqNum
  BY Zenon, <1>2 DEF Inv, TypeOK
<1>4. Abs!DistinctPrefixes(batch[o].entries)
  BY Zenon DEF Inv, BatchesWellFormed, DistinctPrefixes, Abs!DistinctPrefixes
<1> QED
  BY Zenon, <1>2, <1>3, <1>4 DEF Abs!LogNext

\* MemoryReplayLog, with its nil maps, its loop in any order and its shared
\* ReplaySets, is the atomic log of the ReplayLog interface.
THEOREM Refinement == Spec => ImplementsReplayLog
<1>1. Init => Abs!LogInit
  BY DEF Init, Abs!LogInit, IsStarted, seenBar, InsertedByCall, resultsBar,
         Abs!NoEntries, Abs!NoResults, Reply, Abs!Reply
<1>2. Inv /\ Inv' /\ [Next]_vars => [Abs!LogNext]_(Abs!logVars)
  <2> SUFFICES ASSUME Inv, Inv', [Next]_vars
               PROVE  [Abs!LogNext]_(Abs!logVars)
    OBVIOUS
  <2>1. CASE UNCHANGED vars
    <3>1. UNCHANGED <<entries, batches, batch, rset, call, reply>>
      BY Zenon, <2>1 DEF vars
    <3>2. InsertedByCall' = InsertedByCall
      BY Zenon, <3>1 DEF InsertedByCall
    <3>3. IsStarted' = IsStarted /\ seenBar' = seenBar /\ resultsBar' = resultsBar
      BY ZenonT(60), <3>1, <3>2 DEF IsStarted, seenBar, resultsBar
    <3> QED
      BY <3>1, <3>3 DEF Abs!logVars
  <2>2. CASE Next
    <3>1. ASSUME NEW o \in BatchObj, PutBatch(o)
          PROVE  [Abs!LogNext]_(Abs!logVars)
      <4>1. CASE call' = call
        BY <2>2, <3>1, <4>1, PutBatchRefines, PutBatchIsLogNext, ZenonT(30) DEF PutBatch
      <4>2. CASE call' # call
        BY <2>2, <3>1, <4>2, BatchActionsStutter, Zenon DEF PutBatch, NotStarted
      <4> QED
        BY <4>1, <4>2, SMTT(30)
    <3>2. CASE PutBatchEnd
      <4>1. call.obj \in BatchObj /\ batch[call.obj] # Nil
        BY <3>2, InLoop, Zenon DEF PutBatchEnd
      <4> QED
        BY <2>2, <3>2, <4>1, PutBatchEndRefines, PutBatchIsLogNext, SMTT(30)
    <3> QED
      BY <2>2, <3>1, <3>2, LogActionsRefine, BatchActionsStutter DEF Next
  <2> QED
    BY <2>1, <2>2
<1> QED
  BY <1>1, <1>2, InvariantHolds, PTL DEF Spec, ImplementsReplayLog, Abs!LogSpec
=============================================================================
