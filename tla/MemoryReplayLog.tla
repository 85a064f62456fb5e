--------------------------- MODULE MemoryReplayLog ---------------------------
(***************************************************************************)
(* MemoryReplayLog (replaylog.go), used by one caller at a time, with the  *)
(* Batch objects (batch.go) it commits.                                    *)
(*                                                                         *)
(* PutBatch walks over a Go map, so its loop is one step per entry, in any *)
(* order.  ReplaySets are heap objects: PutBatch leaves the log and the    *)
(* batch pointing to the same set, so what Batch.Put later writes through  *)
(* its pointer would change the log's memory of the batch.                 *)
(***************************************************************************)
EXTENDS Batch

CONSTANTS
  BatchObj,     \* Batch objects a caller holds
  Ref           \* addresses of ReplaySet objects

ASSUME RefAssumption == Nil \notin Ref

BatchType == [IsCommitted : BOOLEAN, ID : BatchId, ReplaySet : Ref,
              entries : Entries, replayCache : SUBSET HashPrefix]

CallType == [obj : BatchObj, todo : SUBSET SeqNum, replays : Ref]

ASSUME ObjectAssumption ==
  /\ Nil \notin BatchType
  /\ Nil \notin CallType
  /\ Nil \notin [HashPrefix -> Cltv \cup {Nil}]
  /\ Nil \notin [BatchId -> Ref \cup {Nil}]

VARIABLES
  entries,    \* rl.entries: hash prefix -> cltv, or a nil map
  batches,    \* rl.batches: batch ID -> address of its ReplaySet, or a nil map
  batch,      \* the Batch objects
  rset,       \* the ReplaySet objects
  call,       \* the locals of a PutBatch that is inside ForEach, or Nil
  reply       \* what the last call returned

vars == <<entries, batches, batch, rset, call, reply>>

\* The test every method but Start begins with.
IsStarted == entries # Nil /\ batches # Nil

\* The ReplaySets something still points to.
Allocated ==
  {batch[o].ReplaySet : o \in {b \in BatchObj : batch[b] # Nil}}
    \cup (IF batches = Nil THEN {} ELSE {batches[id] : id \in BatchId} \ {Nil})
    \cup (IF call = Nil THEN {} ELSE {call.replays})

\* Where the next ReplaySet is allocated, if there is room for one.
HasRoom == Ref \ Allocated # {}
Fresh   == CHOOSE r \in Ref : r \notin Allocated

TypeOK ==
  /\ entries \in [HashPrefix -> Cltv \cup {Nil}] \cup {Nil}
  /\ batches \in [BatchId -> Ref \cup {Nil}] \cup {Nil}
  /\ batch \in [BatchObj -> BatchType \cup {Nil}]
  /\ rset \in [Ref -> SUBSET SeqNum]
  /\ call \in CallType \cup {Nil}
  /\ reply \in Replies

Init ==
  /\ entries = Nil
  /\ batches = Nil
  /\ batch = [o \in BatchObj |-> Nil]
  /\ rset = [r \in Ref |-> NewReplaySet]
  /\ call = Nil
  /\ reply = Reply("none", "ok")

-----------------------------------------------------------------------------
(***************************************************************************)
(* The log.                                                                *)
(***************************************************************************)

\* A started log is wiped all the same.
Start ==
  /\ call = Nil
  /\ entries' = [h \in HashPrefix |-> Nil]
  /\ batches' = [id \in BatchId |-> Nil]
  /\ reply' = Reply("Start", "ok")
  /\ UNCHANGED <<batch, rset, call>>

NotStarted(op) ==
  /\ ~IsStarted
  /\ reply' = Reply(op, "errReplayLogNotStarted")
  /\ UNCHANGED <<entries, batches, batch, rset, call>>

Stop ==
  /\ call = Nil
  /\ \/ NotStarted("Stop")
     \/ /\ IsStarted
        /\ entries' = Nil
        /\ batches' = Nil
        /\ reply' = Reply("Stop", "ok")
        /\ UNCHANGED <<batch, rset, call>>

Get(h) ==
  /\ call = Nil
  /\ \/ NotStarted("Get")
     \/ /\ IsStarted
        /\ reply' = IF entries[h] = Nil
                    THEN Reply("Get", "ErrLogEntryNotFound")
                    ELSE CltvReply("Get", entries[h])
        /\ UNCHANGED <<entries, batches, batch, rset, call>>

\* Fault: the look-up is left out.
ExistsNever(h) == FALSE

\* The look-up and the insertion of Put; PutBatch calls Put for every entry.
Exists(h) == entries[h] # Nil

Insert(h, c) == entries' = [entries EXCEPT ![h] = c]

Put(h, c) ==
  /\ call = Nil
  /\ \/ NotStarted("Put")
     \/ /\ IsStarted
        /\ Exists(h)
        /\ reply' = Reply("Put", "ErrReplayedPacket")
        /\ UNCHANGED <<entries, batches, batch, rset, call>>
     \/ /\ IsStarted
        /\ ~Exists(h)
        /\ Insert(h, c)
        /\ reply' = Reply("Put", "ok")
        /\ UNCHANGED <<batches, batch, rset, call>>

Delete(h) ==
  /\ call = Nil
  /\ \/ NotStarted("Delete")
     \/ /\ IsStarted
        /\ entries' = [entries EXCEPT ![h] = Nil]
        /\ reply' = Reply("Delete", "ok")
        /\ UNCHANGED <<batches, batch, rset, call>>

-----------------------------------------------------------------------------
(***************************************************************************)
(* Batches.                                                                *)
(***************************************************************************)

\* The caller makes a batch; the object it held before is garbage.
MakeBatch(o, id) ==
  /\ call = Nil
  /\ HasRoom
  /\ batch' = [batch EXCEPT ![o] = NewBatch(id, Fresh)]
  /\ rset' = [rset EXCEPT ![Fresh] = NewReplaySet]
  /\ UNCHANGED <<entries, batches, call, reply>>

\* Batch.Put: ErrAlreadyCommitted, a duplicate inside the batch, or a new entry.
BatchPut(o, s, h, c) ==
  /\ call = Nil
  /\ batch[o] # Nil
  /\ \/ /\ ~IsOpen(batch[o])
        /\ UNCHANGED <<batch, rset>>
     \/ /\ IsOpen(batch[o])
        /\ InReplayCache(batch[o], h)
        /\ rset' = [rset EXCEPT ![batch[o].ReplaySet] = Add(@, s)]
        /\ UNCHANGED batch
     \/ /\ IsOpen(batch[o])
        /\ ~InReplayCache(batch[o], h)
        /\ batch' = [batch EXCEPT ![o] = AddEntry(@, s, h, c)]
        /\ UNCHANGED rset
  /\ UNCHANGED <<entries, batches, call, reply>>

\* The last two assignments of PutBatch and its return.
Finish(o, r) ==
  /\ batch' = [batch EXCEPT ![o] = [@ EXCEPT !.ReplaySet = r,
                                             !.IsCommitted = TRUE]]
  /\ reply' = ReplaysReply("PutBatch", rset'[r])

\* PutBatch up to its loop, or all of it when the batch ID is known.
PutBatch(o) ==
  /\ call = Nil
  /\ batch[o] # Nil
  /\ \/ NotStarted("PutBatch")
     \/ /\ IsStarted
        /\ batches[batch[o].ID] # Nil
        /\ UNCHANGED rset
        /\ Finish(o, batches[batch[o].ID])
        /\ UNCHANGED <<entries, batches, call>>
     \/ /\ IsStarted
        /\ batches[batch[o].ID] = Nil
        /\ HasRoom
        /\ rset' = [rset EXCEPT ![Fresh] = NewReplaySet]
        /\ call' = [obj |-> o, todo |-> ForEachDomain(batch[o]),
                    replays |-> Fresh]
        /\ UNCHANGED <<entries, batches, batch, reply>>

\* One round of ForEach: Put, and Add when Put says ErrReplayedPacket.
PutBatchEntry(s) ==
  /\ call # Nil
  /\ s \in call.todo
  /\ call' = [call EXCEPT !.todo = @ \ {s}]
  /\ LET e == batch[call.obj].entries[s]
     IN  \/ /\ Exists(e.hashPrefix)
            /\ rset' = [rset EXCEPT ![call.replays] = Add(@, s)]
            /\ UNCHANGED entries
         \/ /\ ~Exists(e.hashPrefix)
            /\ Insert(e.hashPrefix, e.cltv)
            /\ UNCHANGED rset
  /\ UNCHANGED <<batches, batch, reply>>

\* PutBatch after its loop.
PutBatchEnd ==
  /\ call # Nil
  /\ call.todo = {}
  /\ LET b == batch[call.obj]
     IN  /\ rset' = [rset EXCEPT ![call.replays] = Merge(@, rset[b.ReplaySet])]
         /\ batches' = [batches EXCEPT ![b.ID] = call.replays]
  /\ Finish(call.obj, call.replays)
  /\ call' = Nil
  /\ UNCHANGED entries

Next ==
  \/ Start
  \/ Stop
  \/ \E h \in HashPrefix : Get(h) \/ Delete(h)
  \/ \E h \in HashPrefix, c \in Cltv : Put(h, c)
  \/ \E o \in BatchObj, id \in BatchId : MakeBatch(o, id)
  \/ \E o \in BatchObj, s \in SeqNum, h \in HashPrefix, c \in Cltv :
       BatchPut(o, s, h, c)
  \/ \E o \in BatchObj : PutBatch(o)
  \/ \E s \in SeqNum : PutBatchEntry(s)
  \/ PutBatchEnd

Spec == Init /\ [][Next]_vars

-----------------------------------------------------------------------------
(***************************************************************************)
(* MemoryReplayLog implements ReplayLog.  The entries a PutBatch in its    *)
(* loop has inserted so far do not count: the abstract log takes them all  *)
(* in one step, when PutBatch returns.                                     *)
(***************************************************************************)

InsertedByCall ==
  IF call = Nil THEN {}
  ELSE {batch[call.obj].entries[s].hashPrefix :
          s \in (ForEachDomain(batch[call.obj]) \ call.todo)
                  \ rset[call.replays]}

seenBar ==
  [h \in HashPrefix |->
     IF entries = Nil \/ h \in InsertedByCall THEN Nil ELSE entries[h]]

resultsBar ==
  [id \in BatchId |->
     IF batches = Nil \/ batches[id] = Nil THEN Nil ELSE rset[batches[id]]]

Abs == INSTANCE ReplayLog WITH
         Durable <- FALSE, running <- IsStarted,
         seen <- seenBar, results <- resultsBar

\* MemoryReplayLog behaves like the atomic ReplayLog of its interface comment,
\* whatever order Go visits the entries of a batch in and however its
\* ReplaySets are shared.
ImplementsReplayLog == Abs!LogSpec

\* The commit of a batch amounts to one step of the abstract log with the entries
\* and the replays that Batch.Put collected: the loop of PutBatch drops no entry,
\* invents none, and takes none of its own insertions for a replay.
CommitTakesTheWholeBatch ==
  [][\A o \in BatchObj :
       /\ batch[o] # Nil /\ ~batch[o].IsCommitted
       /\ batch'[o] # Nil /\ batch'[o].IsCommitted
       => Abs!PutBatch(batch[o].ID, batch[o].entries,
                       rset[batch[o].ReplaySet])]_vars

\* Within a batch no hash prefix is stored twice, and every stored prefix is in
\* the cache that Batch.Put consults.
BatchesWellFormed ==
  \A o \in {b \in BatchObj : batch[b] # Nil} :
    /\ DistinctPrefixes(batch[o].entries)
    /\ \A s \in ForEachDomain(batch[o]) :
         batch[o].entries[s].hashPrefix \in batch[o].replayCache

\* "The set is finalized upon writing the batch to disk" (batch.go): as long as
\* a committed batch keeps its ReplaySet, nothing any call does changes it.
ReplaySetFinal ==
  [][\A o \in BatchObj :
       /\ batch[o] # Nil /\ batch[o].IsCommitted
       /\ batch'[o].IsCommitted
       /\ batch'[o].ReplaySet = batch[o].ReplaySet
       => rset'[batch[o].ReplaySet] = rset[batch[o].ReplaySet]]_vars

\* errReplayLogAlreadyStarted "is an error returned when Start() is called on a
\* ReplayLog after it is started and before it is stopped" (replaylog.go).
StartTwiceIsRefused ==
  [][IsStarted /\ reply'.op = "Start" /\ reply' # reply
       => reply'.err = "errReplayLogAlreadyStarted"]_vars
=============================================================================
