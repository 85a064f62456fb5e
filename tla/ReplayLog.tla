------------------------------ MODULE ReplayLog ------------------------------
(***************************************************************************)
(* What a ReplayLog promises its callers (the interface of replaylog.go):  *)
(* a set of hash prefixes with atomic operations, in which a batch is one  *)
(* step however its entries are visited, and in which the answer to a      *)
(* batch is remembered by its identifier.                                  *)
(*                                                                         *)
(* Durable tells the two kinds of log apart.  MemoryReplayLog, the log of  *)
(* this repository, forgets everything when it is stopped or started.  A   *)
(* log backed by a database (Router.Start speaks of "the ReplayLog's       *)
(* channeldb") lives outside the repository and keeps its contents.        *)
(***************************************************************************)
EXTENDS Batch

CONSTANT Durable

ASSUME DurableAssumption == Durable \in BOOLEAN

VARIABLES
  running,    \* between Start and Stop
  seen,       \* hash prefix -> the expiry it was logged with, or Nil
  results,    \* batch identifier -> the replay set of its first commit, or Nil
  reply       \* what the last call returned

logVars == <<running, seen, results, reply>>

NoEntries == [h \in HashPrefix |-> Nil]
NoResults == [id \in BatchId |-> Nil]

LogTypeOK ==
  /\ running \in BOOLEAN
  /\ seen \in [HashPrefix -> Cltv \cup {Nil}]
  /\ results \in [BatchId -> (SUBSET SeqNum) \cup {Nil}]
  /\ reply \in Replies

LogInit ==
  /\ running = FALSE
  /\ seen = NoEntries
  /\ results = NoResults
  /\ reply = Reply("none", "ok")

\* What opening, closing or losing the log leaves of its contents.
KeepOrForget ==
  /\ seen' = IF Durable THEN seen ELSE NoEntries
  /\ results' = IF Durable THEN results ELSE NoResults

Start ==
  /\ running' = TRUE
  /\ KeepOrForget
  /\ reply' = Reply("Start", "ok")

Stop ==
  \/ /\ running
     /\ running' = FALSE
     /\ KeepOrForget
     /\ reply' = Reply("Stop", "ok")
  \/ /\ ~running
     /\ reply' = Reply("Stop", "errReplayLogNotStarted")
     /\ UNCHANGED <<running, seen, results>>

\* A call to op on a log that is not started only returns an error.
NotStarted(op) ==
  /\ ~running
  /\ reply' = Reply(op, "errReplayLogNotStarted")
  /\ UNCHANGED <<running, seen, results>>

Get(h) ==
  \/ NotStarted("Get")
  \/ /\ running
     /\ reply' = IF seen[h] = Nil THEN Reply("Get", "ErrLogEntryNotFound")
                                  ELSE CltvReply("Get", seen[h])
     /\ UNCHANGED <<running, seen, results>>

Put(h, c) ==
  \/ NotStarted("Put")
  \/ /\ running
     /\ seen[h] # Nil
     /\ reply' = Reply("Put", "ErrReplayedPacket")
     /\ UNCHANGED <<running, seen, results>>
  \/ /\ running
     /\ seen[h] = Nil
     /\ seen' = [seen EXCEPT ![h] = c]
     /\ reply' = Reply("Put", "ok")
     /\ UNCHANGED <<running, results>>

Delete(h) ==
  \/ NotStarted("Delete")
  \/ /\ running
     /\ seen' = [seen EXCEPT ![h] = Nil]
     /\ reply' = Reply("Delete", "ok")
     /\ UNCHANGED <<running, results>>

\* Fault: the log is looked up after the batch was inserted.
ReplayedLate(es) == {s \in SeqNum : es[s] # Nil}

\* The entries of a batch whose hash prefix the log already holds.
Replayed(es) == {s \in SeqNum : es[s] # Nil /\ seen[es[s].hashPrefix] # Nil}

\* The log with the other entries of the batch added to it.
AddAll(es) ==
  [h \in HashPrefix |->
     IF seen[h] = Nil /\ \E s \in SeqNum : es[s] # Nil /\ es[s].hashPrefix = h
     THEN es[CHOOSE s \in SeqNum : es[s] # Nil /\ es[s].hashPrefix = h].cltv
     ELSE seen[h]]

\* Fault: the answer of an earlier commit is not looked up, so that a batch which
\* is committed again finds its own prefixes in the log.
PutBatchAnew(id, es, rs) ==
  \/ NotStarted("PutBatch")
  \/ /\ running
     /\ seen' = AddAll(es)
     /\ results' = [results EXCEPT ![id] = Replayed(es) \cup rs]
     /\ reply' = ReplaysReply("PutBatch", Replayed(es) \cup rs)
     /\ UNCHANGED running

\* A batch with identifier id, entries es and intra-batch replays rs.  Only its
\* first commit looks at es and rs.
PutBatch(id, es, rs) ==
  \/ NotStarted("PutBatch")
  \/ /\ running
     /\ results[id] # Nil
     /\ reply' = ReplaysReply("PutBatch", results[id])
     /\ UNCHANGED <<running, seen, results>>
  \/ /\ running
     /\ results[id] = Nil
     /\ seen' = AddAll(es)
     /\ results' = [results EXCEPT ![id] = Replayed(es) \cup rs]
     /\ reply' = ReplaysReply("PutBatch", Replayed(es) \cup rs)
     /\ UNCHANGED running

LogNext ==
  \/ Start
  \/ Stop
  \/ \E h \in HashPrefix : Get(h) \/ Delete(h)
  \/ \E h \in HashPrefix, c \in Cltv : Put(h, c)
  \/ \E id \in BatchId, es \in Entries, rs \in SUBSET SeqNum :
       DistinctPrefixes(es) /\ PutBatch(id, es, rs)

LogSpec == LogInit /\ [][LogNext]_logVars
=============================================================================
