-------------------------------- MODULE Router --------------------------------
(***************************************************************************)
(* A sphinx Router and its transactions (sphinx.go) on top of a ReplayLog, *)
(* for any number of callers, with crashes and restarts of the process.    *)
(*                                                                         *)
(* A packet stands for an onion packet together with the associated data   *)
(* it arrived with; what the cryptography makes of it (module Sphinx) is   *)
(* its shared secret's hash prefix and a verdict.  The log's operations    *)
(* are atomic, as its interface demands; a caller sees the outcome of a    *)
(* call in a later step, and the process may crash in between.             *)
(***************************************************************************)
EXTENDS ReplayLog, Naturals

CONSTANTS
  Packet,       \* incoming onion packets
  HashOf,       \* packet -> hashSharedSecret of its shared secret
  Verdict,      \* packet -> what processOnionPacket says of it, before replays
  Htlc,         \* callers of Router.ProcessOnionPacket, one incoming HTLC each
  Tx,           \* handles of transactions
  Nels,         \* values callers pass to BeginTxn as nels
  Contents      \* contents callers may give to their batches

ASSUME PacketAssumption ==
  /\ HashOf \in [Packet -> HashPrefix]
  /\ Verdict \in [Packet -> {"ok", "ErrInvalidOnionKey", "ErrInvalidOnionHMAC"}]
  /\ Nil \notin Packet

ASSUME SeqNumAssumption == SeqNum \subseteq Nat /\ Nels \subseteq Nat

ASSUME ContentsAssumption ==
  Contents \subseteq [BatchId -> [SeqNum -> Packet \cup {Nil}]]

\* Whoever is allowed to act on a packet: an HTLC, or a position of a batch.
Origin == Htlc \cup (BatchId \X SeqNum)

ASSUME HtlcAssumption == Htlc \cap (BatchId \X SeqNum) = {}

\* The positions of make([]ProcessedPacket, nels).
Indexes(nels) == {s \in SeqNum : s < nels}

\* A batch that holds its ReplaySet by value: ReplayLog, unlike
\* MemoryReplayLog, is specified without sharing.
RouterBatch == [IsCommitted : BOOLEAN, ID : BatchId, ReplaySet : SUBSET SeqNum,
                entries : Entries, replayCache : SUBSET HashPrefix]

TxType ==
  UNION {[batch : RouterBatch, packets : [Indexes(n) -> Packet \cup {Nil}]] :
           n \in Nels}

ASSUME TxAssumption == Nil \notin TxType

VARIABLES
  tx,         \* the transactions callers hold
  pending,    \* HTLC -> packet the log accepted for it, not yet returned
  content,    \* what callers put into the batch of each identifier
  granted,    \* history: <<h, o>> when the log inserted h on behalf of o
  acted,      \* history: <<h, o>> when o was handed the packet to act on
  told,       \* history: <<id, R>> when a commit of batch id reported R as replays
  forgotten   \* history: hash prefixes the log once held and lost

routerVars == <<tx, pending, content, granted, acted, told, forgotten>>
vars == <<running, seen, results, reply, routerVars>>

TypeOK ==
  /\ LogTypeOK
  /\ tx \in [Tx -> TxType \cup {Nil}]
  /\ pending \in [Htlc -> Packet \cup {Nil}]
  /\ content \in Contents
  /\ granted \subseteq HashPrefix \X Origin
  /\ acted \subseteq HashPrefix \X Origin
  /\ told \subseteq BatchId \X SUBSET SeqNum
  /\ forgotten \subseteq HashPrefix

NoTx      == [t \in Tx |-> Nil]
NoPending == [x \in Htlc |-> Nil]

Init ==
  /\ LogInit
  /\ tx = NoTx
  /\ pending = NoPending
  /\ content \in Contents
  /\ granted = {}
  /\ acted = {}
  /\ told = {}
  /\ forgotten = {}

\* The log loses its entries for the prefixes in hs.
Forget(hs) == forgotten' = forgotten \cup {h \in hs : seen[h] # Nil}

ForgetUnlessDurable == Forget(IF Durable THEN {} ELSE HashPrefix)

-----------------------------------------------------------------------------
(***************************************************************************)
(* The router.                                                             *)
(***************************************************************************)

RouterStart ==
  /\ Start
  /\ ForgetUnlessDurable
  /\ UNCHANGED <<tx, pending, content, granted, acted, told>>

\* The error of the log's Stop is dropped.
RouterStop ==
  /\ Stop
  /\ IF running THEN ForgetUnlessDurable ELSE Forget({})
  /\ UNCHANGED <<tx, pending, content, granted, acted, told>>

\* Fault: packets are logged whether or not their MAC is right.
AnyPacket(p) == Verdict[p] # "ErrInvalidOnionKey"

\* generateSharedSecret and processOnionPacket return no error.
Processes(p) == Verdict[p] = "ok"

\* Router.ProcessOnionPacket up to its return: the packet reaches the log only
\* after its key and its MAC have been checked.
ProcessOnionPacket(x, p, c) ==
  /\ pending[x] = Nil
  /\ \/ /\ ~Processes(p)
        /\ UNCHANGED vars
     \/ /\ Processes(p)
        /\ Put(HashOf[p], c)
        /\ IF reply'.err = "ok"
           THEN /\ pending' = [pending EXCEPT ![x] = p]
                /\ granted' = granted \cup {<<HashOf[p], x>>}
           ELSE UNCHANGED <<pending, granted>>
        /\ UNCHANGED <<tx, content, acted, told, forgotten>>

\* Its return: the caller gets the processed packet.
ProcessReturn(x) ==
  /\ pending[x] # Nil
  /\ acted' = acted \cup {<<HashOf[pending[x]], x>>}
  /\ pending' = [pending EXCEPT ![x] = Nil]
  /\ UNCHANGED <<running, seen, results, reply, tx, content, granted, told,
                 forgotten>>

\* The log's garbage collector removes an entry.
Expire(h) ==
  /\ Delete(h)
  /\ Forget(IF running THEN {h} ELSE {})
  /\ UNCHANGED <<tx, pending, content, granted, acted, told>>

\* The process dies: the transactions and the calls in flight are gone.
Crash ==
  /\ running' = FALSE
  /\ KeepOrForget
  /\ ForgetUnlessDurable
  /\ tx' = NoTx
  /\ pending' = NoPending
  /\ UNCHANGED <<reply, content, granted, acted, told>>

-----------------------------------------------------------------------------
(***************************************************************************)
(* Transactions.                                                           *)
(***************************************************************************)

\* Router.BeginTxn.  A caller that begins anew drops the transaction it held.
BeginTxn(t, id, nels) ==
  /\ tx' = [tx EXCEPT ![t] =
              [batch   |-> NewBatch(id, NewReplaySet),
               packets |-> [s \in Indexes(nels) |-> Nil]]]
  /\ UNCHANGED <<running, seen, results, reply, pending, content, granted,
                 acted, told, forgotten>>

\* Fault: a duplicate inside the batch is skipped but not reported.
IgnoreDuplicate(b, s, h, c) ==
  IF InReplayCache(b, h) THEN b ELSE AddEntry(b, s, h, c)

\* What Batch.Put makes of an open batch.
BatchAfterPut(b, s, h, c) ==
  IF InReplayCache(b, h) THEN [b EXCEPT !.ReplaySet = Add(@, s)]
                         ELSE AddEntry(b, s, h, c)

\* Tx.ProcessOnionPacket.  A sequence number that is not below nels panics in
\* the assignment to packets, after the batch was changed; nothing recovers.
TxProcessOnionPacket(t, s, p, c) ==
  /\ tx[t] # Nil
  /\ \/ /\ ~Processes(p) \/ ~IsOpen(tx[t].batch)
        /\ UNCHANGED vars
     \/ /\ Processes(p)
        /\ IsOpen(tx[t].batch)
        /\ s \in DOMAIN tx[t].packets
        /\ tx' = [tx EXCEPT ![t] =
                    [batch   |-> BatchAfterPut(@.batch, s, HashOf[p], c),
                     packets |-> [@.packets EXCEPT ![s] = p]]]
        /\ UNCHANGED <<running, seen, results, reply, pending, content,
                       granted, acted, told, forgotten>>
     \/ /\ Processes(p)
        /\ IsOpen(tx[t].batch)
        /\ s \notin DOMAIN tx[t].packets
        /\ Crash

\* The pairs the log inserts when it commits b for the first time.
Inserts(b) ==
  {<<b.entries[s].hashPrefix, <<b.ID, s>>>> :
     s \in {r \in SeqNum : b.entries[r] # Nil
                             /\ seen[b.entries[r].hashPrefix] = Nil}}

\* PutBatch marks the batch committed and hands it the replay set R.
Committed(T, R) ==
  [T EXCEPT !.batch = [@ EXCEPT !.ReplaySet = R, !.IsCommitted = TRUE]]

\* Tx.Commit up to its return.
TxCommit(t) ==
  /\ tx[t] # Nil
  /\ ~tx[t].batch.IsCommitted
  /\ LET b == tx[t].batch
     IN  /\ PutBatch(b.ID, b.entries, b.ReplaySet)
         /\ IF reply'.err = "ok"
            THEN tx' = [tx EXCEPT ![t] = Committed(@, reply'.replays)]
            ELSE UNCHANGED tx
         /\ granted' = IF running /\ results[b.ID] = Nil
                       THEN granted \cup Inserts(b) ELSE granted
  /\ UNCHANGED <<pending, content, acted, told, forgotten>>

\* Fault: the caller gets every processed packet.
AllProcessed(T) == {s \in DOMAIN T.packets : T.packets[s] # Nil}

\* The positions of a committed transaction that may be acted on: processed,
\* and not in the replay set.
Usable(T) ==
  {s \in DOMAIN T.packets : T.packets[s] # Nil /\ s \notin T.batch.ReplaySet}

\* The return of Tx.Commit.  Calling it again on a committed batch takes the
\* early return and hands out the same packets and the same replay set.
CommitReturn(t) ==
  /\ tx[t] # Nil
  /\ tx[t].batch.IsCommitted
  /\ acted' = acted \cup {<<HashOf[tx[t].packets[s]], <<tx[t].batch.ID, s>>>> :
                            s \in Usable(tx[t])}
  /\ told' = told \cup {<<tx[t].batch.ID, tx[t].batch.ReplaySet>>}
  /\ UNCHANGED <<running, seen, results, reply, tx, pending, content, granted,
                 forgotten>>

-----------------------------------------------------------------------------
(***************************************************************************)
(* What callers must respect for the identifier of a batch to make it      *)
(* idempotent: every transaction begun with an identifier is given the     *)
(* same packets, each once, and is committed when all of them were tried.  *)
(***************************************************************************)

\* t may be given sequence number s.
MayProcess(t, s) ==
  /\ tx[t] # Nil
  /\ content[tx[t].batch.ID][s] # Nil
  /\ s \in DOMAIN tx[t].packets => tx[t].packets[s] = Nil

\* t was given all the packets of its batch.
MayCommit(t) ==
  /\ tx[t] # Nil
  /\ \A s \in SeqNum :
       /\ content[tx[t].batch.ID][s] # Nil
       /\ Processes(content[tx[t].batch.ID][s])
       => s \in DOMAIN tx[t].packets /\ tx[t].packets[s] # Nil

Next ==
  \/ RouterStart
  \/ RouterStop
  \/ Crash
  \/ \E h \in HashPrefix : Expire(h)
  \/ \E x \in Htlc, p \in Packet, c \in Cltv : ProcessOnionPacket(x, p, c)
  \/ \E x \in Htlc : ProcessReturn(x)
  \/ \E t \in Tx, id \in BatchId, nels \in Nels : BeginTxn(t, id, nels)
  \/ \E t \in Tx, s \in SeqNum, c \in Cltv :
       /\ MayProcess(t, s)
       /\ TxProcessOnionPacket(t, s, content[tx[t].batch.ID][s], c)
  \/ \E t \in Tx : MayCommit(t) /\ TxCommit(t)
  \/ \E t \in Tx : CommitReturn(t)

Spec == Init /\ [][Next]_vars

-----------------------------------------------------------------------------
\* At most one HTLC or batch position is ever handed a packet with a given hash
\* prefix, through single calls, batches, retries of a batch and restarts,
\* unless the log has forgotten the prefix (Delete, or a log in memory).
OneUsePerPrefix ==
  \A h \in HashPrefix \ forgotten, o1, o2 \in Origin :
    <<h, o1>> \in acted /\ <<h, o2>> \in acted => o1 = o2

\* A caller is handed a packet only if the log at some time inserted its hash
\* prefix on behalf of that very caller.
ActedWereGranted == acted \subseteq granted

\* A batch position whose prefix the log inserted is not reported as a replay by
\* any commit of that batch: its packet is not lost, even if the process crashed
\* before the first Commit returned.
WinnersAreTold ==
  \A h \in HashPrefix \ forgotten, id \in BatchId, s \in SeqNum :
    <<h, <<id, s>>>> \in granted => results[id] # Nil /\ s \notin results[id]

\* A batch position is acted on only with the packet the caller gave for that
\* position, and only if its key and MAC were right: an invalid packet that
\* Tx.ProcessOnionPacket refused never surfaces from Commit.
PositionsGetTheirPacket ==
  \A h \in HashPrefix, id \in BatchId, s \in SeqNum :
    <<h, <<id, s>>>> \in acted =>
      /\ content[id][s] # Nil
      /\ Verdict[content[id][s]] = "ok"
      /\ HashOf[content[id][s]] = h

\* Whatever happens between them, a restart or the deletion of an entry included,
\* two commits of batches with the same identifier never report different replay
\* sets, if the log is durable.
CommitIsIdempotent ==
  Durable => \A u, v \in told : u[1] = v[1] => u[2] = v[2]
=============================================================================
