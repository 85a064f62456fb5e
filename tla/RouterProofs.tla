----------------------------- MODULE RouterProofs -----------------------------
(***************************************************************************)
(* Proofs of the safety properties of Router, for any sets of packets,     *)
(* prefixes, HTLCs, batches and transactions, and for both kinds of log.   *)
(***************************************************************************)
EXTENDS Router, TLAPS

-----------------------------------------------------------------------------
(***************************************************************************)
(* The inductive invariant.                                                *)
(***************************************************************************)

\* The prefix of a grant stays in the log until it is forgotten, so the log
\* refuses everybody else.
GrantsAreLogged ==
  \A h \in HashPrefix \ forgotten, o \in Origin :
    <<h, o>> \in granted => seen[h] # Nil

\* Hence nobody else is granted it.
OneGrantPerPrefix ==
  \A h \in HashPrefix \ forgotten, o1, o2 \in Origin :
    <<h, o1>> \in granted /\ <<h, o2>> \in granted => o1 = o2

\* A packet about to be returned was granted to its HTLC.
PendingWereGranted ==
  \A x \in Htlc :
    pending[x] # Nil => <<HashOf[pending[x]], x>> \in granted

\* A transaction holds packets of the content of its batch, and they are good.
HoldsContent(T) ==
  \A s \in DOMAIN T.packets :
    T.packets[s] # Nil => /\ T.packets[s] = content[T.batch.ID][s]
                          /\ Processes(T.packets[s])

\* A batch stores no prefix twice, and its cache has those it stores.
CacheCovers(b) ==
  /\ DistinctPrefixes(b.entries)
  /\ \A s \in SeqNum :
       b.entries[s] # Nil => b.entries[s].hashPrefix \in b.replayCache

\* Before it is committed, a transaction's processed packet is either stored in
\* the batch under its position, or reported as a replay, and never both; and a
\* position without a processed packet is neither.
StoredOrReplayed(T) ==
  \A s \in SeqNum :
    LET processed == s \in DOMAIN T.packets /\ T.packets[s] # Nil
        stored    == T.batch.entries[s] # Nil
    IN  /\ processed <=> stored \/ s \in T.batch.ReplaySet
        /\ stored => /\ s \notin T.batch.ReplaySet
                     /\ T.batch.entries[s].hashPrefix = HashOf[T.packets[s]]

\* After it is committed, its usable packets were granted to its positions.
UsableWereGranted(T) ==
  \A s \in Usable(T) :
    <<HashOf[T.packets[s]], <<T.batch.ID, s>>>> \in granted

TxInv ==
  \A t \in Tx :
    tx[t] # Nil => /\ HoldsContent(tx[t])
                   /\ CacheCovers(tx[t].batch)
                   /\ ~tx[t].batch.IsCommitted => StoredOrReplayed(tx[t])
                   /\ tx[t].batch.IsCommitted => UsableWereGranted(tx[t])

\* What the log remembers of a batch: whatever of its content is not reported as
\* a replay was granted.  This is what makes a retry of the batch safe.
ResultsWereGranted ==
  \A id \in BatchId, s \in SeqNum :
    /\ results[id] # Nil
    /\ content[id][s] # Nil
    /\ Processes(content[id][s])
    /\ s \notin results[id]
    => <<HashOf[content[id][s]], <<id, s>>>> \in granted

\* A durable log remembers the batches that were committed.
CommittedAreRemembered ==
  Durable =>
    \A t \in Tx :
      tx[t] # Nil /\ tx[t].batch.IsCommitted
      => /\ results[tx[t].batch.ID] # Nil
         /\ tx[t].batch.ReplaySet = results[tx[t].batch.ID]

\* Hence what a commit reported is what it still remembers.
ToldAreRemembered ==
  Durable => \A u \in told : results[u[1]] = u[2]

Inv ==
  /\ TypeOK
  /\ GrantsAreLogged
  /\ OneGrantPerPrefix
  /\ ActedWereGranted
  /\ PendingWereGranted
  /\ TxInv
  /\ ResultsWereGranted
  /\ WinnersAreTold
  /\ CommittedAreRemembered

-----------------------------------------------------------------------------
(***************************************************************************)
(* Lemmas about the operators of the model.                                *)
(***************************************************************************)

USE DEF routerVars

\* The records of replies are replies.
LEMMA RepliesType ==
  /\ \A op \in Ops, err \in Errors :
       Reply(op, err) \in Replies /\ Reply(op, err).err = err
  /\ \A op \in Ops, rs \in SUBSET SeqNum :
       /\ ReplaysReply(op, rs) \in Replies
       /\ ReplaysReply(op, rs).err = "ok"
       /\ ReplaysReply(op, rs).replays = rs
BY DEF Reply, ReplaysReply, Replies, Errors

\* Committing a batch adds its prefixes to the log and changes nothing that was
\* there.
LEMMA AddAllType ==
  ASSUME seen \in [HashPrefix -> Cltv \cup {Nil}], NEW es \in Entries
  PROVE  /\ AddAll(es) \in [HashPrefix -> Cltv \cup {Nil}]
         /\ \A h \in HashPrefix : seen[h] # Nil => AddAll(es)[h] = seen[h]
         /\ \A s \in SeqNum : es[s] # Nil => AddAll(es)[es[s].hashPrefix] # Nil
<1>1. \A s \in SeqNum : es[s] # Nil => es[s].hashPrefix \in HashPrefix
                                        /\ es[s].cltv \in Cltv
  BY DEF Entries, BatchEntry
<1>2. ASSUME NEW h \in HashPrefix
      PROVE  /\ AddAll(es)[h] \in Cltv \cup {Nil}
             /\ seen[h] # Nil => AddAll(es)[h] = seen[h]
             /\ (\E s \in SeqNum : es[s] # Nil /\ es[s].hashPrefix = h)
                  => AddAll(es)[h] # Nil
  <2> DEFINE c == CHOOSE s \in SeqNum : es[s] # Nil /\ es[s].hashPrefix = h
  <2>1. CASE seen[h] = Nil /\ \E s \in SeqNum : es[s] # Nil /\ es[s].hashPrefix = h
    <3>1. c \in SeqNum /\ es[c] # Nil
      BY <2>1
    <3>2. AddAll(es)[h] = es[c].cltv
      BY <2>1 DEF AddAll
    <3> QED
      BY <1>1, <2>1, <3>1, <3>2, NilAssumption
  <2>2. CASE ~(seen[h] = Nil /\ \E s \in SeqNum : es[s] # Nil /\ es[s].hashPrefix = h)
    <3>1. AddAll(es)[h] = seen[h]
      BY <2>2 DEF AddAll
    <3> QED
      BY <2>2, <3>1
  <2> QED
    BY Zenon, <2>1, <2>2
<1>3. AddAll(es) = [h \in HashPrefix |-> AddAll(es)[h]]
  BY DEF AddAll
<1> QED
  BY <1>1, <1>2, <1>3, Zenon

\* Every operation of the log leaves it well typed.
LEMMA LogTypes ==
  ASSUME LogTypeOK
  PROVE  /\ Start => LogTypeOK'
         /\ Stop => LogTypeOK'
         /\ \A h \in HashPrefix : Delete(h) => LogTypeOK'
         /\ \A h \in HashPrefix, c \in Cltv : Put(h, c) => LogTypeOK'
         /\ \A id \in BatchId, es \in Entries, rs \in SUBSET SeqNum :
              PutBatch(id, es, rs) => LogTypeOK'
<1> USE RepliesType DEF LogTypeOK, KeepOrForget, NoEntries, NoResults, NotStarted
<1>1. Start => LogTypeOK'
  BY DEF Start, Ops, Errors
<1>2. ASSUME Stop PROVE LogTypeOK'
  <2>1. reply' \in Replies
    BY <1>2 DEF Stop, Ops, Errors
  <2>2. running' \in BOOLEAN
    BY Zenon, <1>2 DEF Stop
  <2>3. /\ seen' \in [HashPrefix -> Cltv \cup {Nil}]
        /\ results' \in [BatchId -> (SUBSET SeqNum) \cup {Nil}]
    BY <1>2 DEF Stop
  <2> QED
    BY <2>1, <2>2, <2>3
<1>3. ASSUME NEW h \in HashPrefix, Delete(h) PROVE LogTypeOK'
  BY <1>3 DEF Delete, Ops, Errors
<1>4. ASSUME NEW h \in HashPrefix, NEW c \in Cltv, Put(h, c) PROVE LogTypeOK'
  BY <1>4 DEF Put, Ops, Errors
<1>5. ASSUME NEW id \in BatchId, NEW es \in Entries, NEW rs \in SUBSET SeqNum,
             PutBatch(id, es, rs)
      PROVE  LogTypeOK'
  <2>1. Replayed(es) \cup rs \in SUBSET SeqNum
    BY DEF Replayed
  <2>2. CASE NotStarted("PutBatch")
    BY <2>2 DEF Ops, Errors
  <2>3. CASE running /\ results[id] # Nil
    <3>1. results[id] \in SUBSET SeqNum
      BY <2>3
    <3>2. /\ reply' = ReplaysReply("PutBatch", results[id])
          /\ UNCHANGED <<running, seen, results>>
      BY Zenon, <1>5, <2>3 DEF PutBatch
    <3>3. reply' \in Replies
      BY <3>1, <3>2 DEF Ops
    <3> QED
      BY <3>2, <3>3
  <2>4. CASE running /\ results[id] = Nil
    BY <1>5, <2>1, <2>4, AddAllType DEF PutBatch, Ops
  <2> QED
    BY <1>5, <2>2, <2>3, <2>4 DEF PutBatch
<1> QED
  BY <1>1, <1>2, <1>3, <1>4, <1>5

-----------------------------------------------------------------------------
(***************************************************************************)
(* The invariant holds initially, and every action preserves it.           *)
(***************************************************************************)

\* Nothing is granted and nothing is logged in the initial states.
LEMMA InitInv == Init => Inv
<1> SUFFICES ASSUME Init PROVE Inv
  OBVIOUS
<1> USE DEF Init, LogInit, NoEntries, NoResults, NoTx, NoPending
<1>1. LogTypeOK
  BY ZenonT(60), RepliesType DEF LogTypeOK, Ops, Errors
<1>2. TypeOK
  BY <1>1 DEF TypeOK
<1>3. /\ GrantsAreLogged
      /\ OneGrantPerPrefix
      /\ ActedWereGranted
      /\ PendingWereGranted
  BY DEF GrantsAreLogged, OneGrantPerPrefix, ActedWereGranted, PendingWereGranted
<1>4. TxInv /\ CommittedAreRemembered
  BY DEF TxInv, CommittedAreRemembered
<1>5. ResultsWereGranted /\ WinnersAreTold
  BY DEF ResultsWereGranted, WinnersAreTold
<1> QED
  BY <1>2, <1>3, <1>4, <1>5 DEF Inv

\* Transactions that do not change stay consistent while grants are only added.
LEMMA TxInvStable ==
  ASSUME TxInv, UNCHANGED <<tx, content>>, granted \subseteq granted'
  PROVE  TxInv'
<1>1. ASSUME NEW t \in Tx, tx[t] # Nil, HoldsContent(tx[t])
      PROVE  HoldsContent(tx[t])'
  BY <1>1 DEF HoldsContent, Processes
<1>2. ASSUME NEW t \in Tx, CacheCovers(tx[t].batch)
      PROVE  CacheCovers(tx[t].batch)'
  BY Zenon, <1>2 DEF CacheCovers, DistinctPrefixes
<1>3. ASSUME NEW t \in Tx, StoredOrReplayed(tx[t])
      PROVE  StoredOrReplayed(tx[t])'
  BY <1>3 DEF StoredOrReplayed
<1>4. ASSUME NEW t \in Tx, UsableWereGranted(tx[t])
      PROVE  UsableWereGranted(tx[t])'
  BY <1>4 DEF UsableWereGranted, Usable
<1> QED
  BY <1>1, <1>2, <1>3, <1>4 DEF TxInv

\* A log that is opened, closed or lost keeps everything, or forgets everything
\* it holds; no grant is left behind in a log that forgets.
LEMMA KeepOrForgetInv ==
  ASSUME Inv, KeepOrForget, ForgetUnlessDurable,
         UNCHANGED <<content, granted, acted>>
  PROVE  /\ GrantsAreLogged'
         /\ OneGrantPerPrefix'
         /\ ActedWereGranted'
         /\ ResultsWereGranted'
         /\ WinnersAreTold'
         /\ forgotten' \subseteq HashPrefix
         /\ Durable => results' = results
<1> USE DEF Inv, KeepOrForget, ForgetUnlessDurable, Forget
<1>1. forgotten \subseteq forgotten' /\ forgotten' \subseteq HashPrefix
  BY DEF TypeOK
<1>2. ~Durable => \A h \in HashPrefix : seen[h] # Nil => h \in forgotten'
  OBVIOUS
<1>3. ~Durable => \A h \in HashPrefix \ forgotten', o \in Origin :
                    <<h, o>> \notin granted
  BY <1>1, <1>2, Zenon DEF GrantsAreLogged
<1>4. GrantsAreLogged'
  BY <1>1, <1>3 DEF GrantsAreLogged
<1>5. OneGrantPerPrefix'
  BY <1>1 DEF OneGrantPerPrefix
<1>6. ActedWereGranted'
  BY DEF ActedWereGranted
<1>7. ResultsWereGranted'
  BY DEF ResultsWereGranted, NoResults, Processes
<1>8. WinnersAreTold'
  BY <1>1, <1>3 DEF WinnersAreTold, Origin
<1> QED
  BY <1>1, <1>4, <1>5, <1>6, <1>7, <1>8

\* A second Start of a log in memory forgets everything, and is safe.
LEMMA StartInv == Inv /\ RouterStart => Inv'
<1> SUFFICES ASSUME Inv, RouterStart PROVE Inv'
  OBVIOUS
<1> USE DEF Inv, RouterStart
<1>1. KeepOrForget
  BY DEF Start
<1>2. TypeOK'
  BY <1>1, LogTypes, KeepOrForgetInv DEF TypeOK
<1>3. TxInv'
  BY TxInvStable
<1>4. PendingWereGranted'
  BY ZenonT(60) DEF PendingWereGranted
<1>5. CommittedAreRemembered'
  BY <1>1, KeepOrForgetInv DEF CommittedAreRemembered
<1> QED
  BY <1>1, <1>2, <1>3, <1>4, <1>5, KeepOrForgetInv

\* Stop either only reports an error or closes the log.
LEMMA StopInv == Inv /\ RouterStop => Inv'
<1> SUFFICES ASSUME Inv, RouterStop PROVE Inv'
  OBVIOUS
<1> USE DEF Inv, RouterStop
<1>1. LogTypeOK'
  BY LogTypes DEF TypeOK
<1>2. TxInv'
  BY TxInvStable
<1>3. PendingWereGranted'
  BY DEF PendingWereGranted
<1>4. CASE running
  <2>1. KeepOrForget /\ ForgetUnlessDurable
    BY <1>4 DEF Stop
  <2>2. TypeOK'
    BY <1>1, <2>1, KeepOrForgetInv DEF TypeOK
  <2>3. CommittedAreRemembered'
    BY ZenonT(60), <2>1, KeepOrForgetInv DEF CommittedAreRemembered
  <2> QED
    BY <1>2, <1>3, <2>1, <2>2, <2>3, KeepOrForgetInv
<1>5. CASE ~running
  <2>1. UNCHANGED <<seen, results, forgotten>>
    BY <1>5 DEF Stop, Forget
  <2>2. TypeOK'
    BY <1>1, <2>1 DEF TypeOK
  <2> QED
    BY <1>2, <1>3, <2>1, <2>2
    DEF GrantsAreLogged, OneGrantPerPrefix, ActedWereGranted, ResultsWereGranted,
        WinnersAreTold, CommittedAreRemembered, Processes
<1> QED
  BY <1>4, <1>5

\* A crash loses transactions and calls in flight, which promise nothing.
LEMMA CrashInv == Inv /\ Crash => Inv'
<1> SUFFICES ASSUME Inv, Crash PROVE Inv'
  OBVIOUS
<1> USE DEF Inv, Crash, NoTx, NoPending
<1>1. LogTypeOK'
  BY Zenon DEF TypeOK, LogTypeOK, KeepOrForget, NoEntries, NoResults
<1>2. TypeOK'
  BY ZenonT(60), <1>1, KeepOrForgetInv DEF TypeOK
<1>3. TxInv' /\ CommittedAreRemembered'
  BY Zenon DEF TxInv, CommittedAreRemembered
<1>4. PendingWereGranted'
  BY ZenonT(60) DEF PendingWereGranted
<1> QED
  BY <1>2, <1>3, <1>4, KeepOrForgetInv

\* The garbage collector forgets one prefix.
LEMMA ExpireInv ==
  ASSUME Inv, NEW h \in HashPrefix, Expire(h)
  PROVE  Inv'
<1> USE DEF Inv, Expire
<1>1. LogTypeOK'
  BY Zenon, LogTypes DEF TypeOK
<1>2. /\ results' = results
      /\ forgotten \subseteq forgotten'
      /\ forgotten' \subseteq HashPrefix
      /\ \A g \in HashPrefix \ forgotten' : seen[g] # Nil => seen'[g] # Nil
  BY Zenon DEF Delete, NotStarted, Forget, TypeOK, LogTypeOK
<1>3. TypeOK'
  BY <1>1, <1>2 DEF TypeOK
<1>4. TxInv'
  BY TxInvStable
<1> QED
  BY Zenon, <1>2, <1>3, <1>4
  DEF GrantsAreLogged, OneGrantPerPrefix, ActedWereGranted, PendingWereGranted,
      ResultsWereGranted, WinnersAreTold, CommittedAreRemembered, Processes

\* The log accepts the packet of an HTLC only if it does not hold its prefix.
LEMMA ProcessOnionPacketInv ==
  ASSUME Inv, NEW x \in Htlc, NEW p \in Packet, NEW c \in Cltv,
         ProcessOnionPacket(x, p, c)
  PROVE  Inv'
<1> USE DEF Inv
<1>1. CASE UNCHANGED vars
  BY ZenonT(60), <1>1, TxInvStable
  DEF vars, TypeOK, LogTypeOK, GrantsAreLogged, OneGrantPerPrefix,
      ActedWereGranted, PendingWereGranted, ResultsWereGranted, WinnersAreTold,
      CommittedAreRemembered, Processes
<1>2. CASE /\ Put(HashOf[p], c)
           /\ IF reply'.err = "ok"
              THEN /\ pending' = [pending EXCEPT ![x] = p]
                   /\ granted' = granted \cup {<<HashOf[p], x>>}
              ELSE UNCHANGED <<pending, granted>>
           /\ UNCHANGED <<tx, content, acted, told, forgotten>>
  <2> DEFINE h == HashOf[p]
  <2>1. h \in HashPrefix
    BY ZenonT(60), PacketAssumption
  <2>2. LogTypeOK' /\ results' = results
    BY <1>2, <2>1, LogTypes DEF TypeOK, Put, NotStarted
  <2>3. x \in Origin
    BY DEF Origin
  <2>4. CASE reply'.err = "ok"
    <3>1. seen[h] = Nil /\ seen' = [seen EXCEPT ![h] = c]
      BY ZenonT(60), <1>2, <2>4, RepliesType DEF Put, NotStarted, Ops, Errors
    <3>2. /\ granted' = granted \cup {<<h, x>>}
          /\ pending' = [pending EXCEPT ![x] = p]
      BY <1>2, <2>4
    <3>3. TypeOK'
      BY <1>2, <2>1, <2>2, <2>3, <3>2 DEF TypeOK
    <3>4. \A g \in HashPrefix : seen'[g] # Nil <=> seen[g] # Nil \/ g = h
      BY <2>1, <3>1, NilAssumption DEF TypeOK, LogTypeOK
    <3>5. \A g \in HashPrefix \ forgotten, o \in Origin :
            <<g, o>> \in granted' => <<g, o>> \in granted \/ (g = h /\ o = x)
      BY ZenonT(60), <3>2
    <3>6. h \notin forgotten => \A o \in Origin : <<h, o>> \notin granted
      BY <2>1, <3>1 DEF GrantsAreLogged
    <3>7. GrantsAreLogged' /\ OneGrantPerPrefix'
      BY ZenonT(60), <1>2, <3>4, <3>5, <3>6 DEF GrantsAreLogged, OneGrantPerPrefix
    <3>8. ActedWereGranted' /\ ResultsWereGranted'
      BY ZenonT(60), <1>2, <2>2, <3>2 DEF ActedWereGranted, ResultsWereGranted, Processes
    <3>9. PendingWereGranted'
      BY <3>2 DEF PendingWereGranted, TypeOK
    <3>10. TxInv'
      BY ZenonT(60), <1>2, <3>2, TxInvStable
    <3>11. WinnersAreTold'
      <4>1. \A id \in BatchId, s \in SeqNum : <<id, s>> # x
        BY HtlcAssumption
      <4> QED
        BY <1>2, <2>2, <3>5, <4>1 DEF WinnersAreTold, Origin
    <3>12. CommittedAreRemembered'
      BY Zenon, <1>2, <2>2 DEF CommittedAreRemembered
    <3> QED
      BY ZenonT(60), <3>3, <3>7, <3>8, <3>9, <3>10, <3>11, <3>12
  <2>5. CASE reply'.err # "ok"
    <3>1. UNCHANGED <<seen, pending, granted>>
      BY <1>2, <2>5, RepliesType DEF Put, NotStarted, Ops, Errors
    <3>2. TypeOK'
      BY <1>2, <2>2, <3>1 DEF TypeOK
    <3>3. TxInv'
      BY ZenonT(60), <1>2, <3>1, TxInvStable
    <3> QED
      BY ZenonT(60), <1>2, <2>2, <3>1, <3>2, <3>3
      DEF GrantsAreLogged, OneGrantPerPrefix, ActedWereGranted,
          PendingWereGranted, ResultsWereGranted, WinnersAreTold,
          CommittedAreRemembered, Processes
  <2> QED
    BY <2>4, <2>5
<1> QED
  BY ZenonT(60), <1>1, <1>2 DEF ProcessOnionPacket

\* A call in flight was granted its packet.
LEMMA ProcessReturnInv ==
  ASSUME Inv, NEW x \in Htlc, ProcessReturn(x)
  PROVE  Inv'
<1> USE DEF Inv, ProcessReturn
<1>1. <<HashOf[pending[x]], x>> \in granted
  BY DEF PendingWereGranted
<1>2. ActedWereGranted' /\ PendingWereGranted'
  BY Zenon, <1>1 DEF ActedWereGranted, PendingWereGranted, TypeOK
<1>3. TypeOK'
  BY Zenon, <1>1, <1>2 DEF TypeOK, LogTypeOK, ActedWereGranted
<1>4. TxInv'
  BY ZenonT(60), TxInvStable
<1> QED
  BY Zenon, <1>2, <1>3, <1>4
  DEF GrantsAreLogged, OneGrantPerPrefix, ResultsWereGranted, WinnersAreTold,
      CommittedAreRemembered, Processes

\* A step that changes one transaction only has that one to look at.
LEMMA TxInvUpdate ==
  ASSUME TxInv, NEW t \in Tx, \A u \in Tx \ {t} : tx'[u] = tx[u],
         UNCHANGED content, granted \subseteq granted',
         (tx[t] # Nil => /\ HoldsContent(tx[t])
                         /\ CacheCovers(tx[t].batch)
                         /\ ~tx[t].batch.IsCommitted => StoredOrReplayed(tx[t])
                         /\ tx[t].batch.IsCommitted => UsableWereGranted(tx[t]))'
  PROVE  TxInv'
<1> SUFFICES ASSUME NEW u \in Tx, tx'[u] # Nil
             PROVE  /\ HoldsContent(tx[u])'
                    /\ CacheCovers(tx[u].batch)'
                    /\ (~tx[u].batch.IsCommitted => StoredOrReplayed(tx[u]))'
                    /\ (tx[u].batch.IsCommitted => UsableWereGranted(tx[u]))'
  BY Zenon DEF TxInv
<1>1. CASE u = t
  BY ZenonT(60), <1>1
<1>2. CASE u # t
  <2>1. tx'[u] = tx[u] /\ tx[u] # Nil
    BY Zenon, <1>2
  <2>2. /\ HoldsContent(tx[u])
        /\ CacheCovers(tx[u].batch)
        /\ ~tx[u].batch.IsCommitted => StoredOrReplayed(tx[u])
        /\ tx[u].batch.IsCommitted => UsableWereGranted(tx[u])
    BY Zenon, <2>1 DEF TxInv
  <2>3. HoldsContent(tx[u])'
    BY ZenonT(60), <2>1, <2>2 DEF HoldsContent, Processes
  <2>4. CacheCovers(tx[u].batch)'
    <3>1. PICK b : b = tx[u].batch
      BY Zenon
    <3>2. CacheCovers(b)
      BY <2>2, <3>1, Zenon
    <3>3. tx'[u].batch = b
      BY <2>1, <3>1, Zenon
    <3>4. CacheCovers(b)'
      BY <3>2, Zenon DEF CacheCovers, DistinctPrefixes
    <3> QED
      BY <3>3, <3>4, Zenon DEF CacheCovers, DistinctPrefixes
  <2>5. (~tx[u].batch.IsCommitted => StoredOrReplayed(tx[u]))'
    BY Zenon, <2>1, <2>2 DEF StoredOrReplayed
  <2>6. (tx[u].batch.IsCommitted => UsableWereGranted(tx[u]))'
    BY Zenon, <2>1, <2>2 DEF UsableWereGranted, Usable
  <2> QED
    BY <2>3, <2>4, <2>5, <2>6
<1> QED
  BY Zenon, <1>1, <1>2

\* The shape of a transaction.
LEMMA TxShape ==
  ASSUME NEW T \in TxType
  PROVE  /\ T.batch \in RouterBatch
         /\ DOMAIN T.packets \subseteq SeqNum
         /\ \A s \in DOMAIN T.packets : T.packets[s] \in Packet \cup {Nil}
         /\ T = [batch |-> T.batch, packets |-> T.packets]
         /\ T # Nil
<1>1. PICK n \in Nels :
        T \in [batch : RouterBatch, packets : [Indexes(n) -> Packet \cup {Nil}]]
  BY Zenon DEF TxType
<1> QED
  BY Zenon, <1>1, TxAssumption DEF Indexes

\* A transaction stays one when its batch and its packets are replaced.
LEMMA TxRebuild ==
  ASSUME NEW T \in TxType, NEW b \in RouterBatch, NEW f,
         f \in [DOMAIN T.packets -> Packet \cup {Nil}]
  PROVE  [batch |-> b, packets |-> f] \in TxType
<1>1. PICK n \in Nels :
        T \in [batch : RouterBatch, packets : [Indexes(n) -> Packet \cup {Nil}]]
  BY DEF TxType
<1>2. DOMAIN T.packets = Indexes(n)
  BY <1>1
<1>3. [batch |-> b, packets |-> f]
        \in [batch : RouterBatch, packets : [Indexes(n) -> Packet \cup {Nil}]]
  BY Zenon, <1>2
<1> QED
  BY <1>3 DEF TxType

\* A new transaction is empty.
LEMMA BeginTxnInv ==
  ASSUME Inv, NEW t \in Tx, NEW id \in BatchId, NEW nels \in Nels,
         BeginTxn(t, id, nels)
  PROVE  Inv'
<1> USE DEF Inv, BeginTxn
<1> DEFINE b == NewBatch(id, NewReplaySet)
           f == [s \in Indexes(nels) |-> Nil]
<1>1. /\ b \in RouterBatch
      /\ b.IsCommitted = FALSE
      /\ b.ID = id
      /\ b.entries = [s \in SeqNum |-> Nil]
      /\ b.ReplaySet = {}
  BY Zenon DEF NewBatch, NewReplaySet, RouterBatch, Entries
<1>2. [batch |-> b, packets |-> f] \in TxType
  <2>1. f \in [Indexes(nels) -> Packet \cup {Nil}]
    BY ZenonT(60)
  <2>2. [batch |-> b, packets |-> f]
          \in [batch : RouterBatch, packets : [Indexes(nels) -> Packet \cup {Nil}]]
    BY Zenon, <1>1, <2>1
  <2> QED
    BY <2>2 DEF TxType
<1>3. /\ tx'[t] = [batch |-> b, packets |-> f]
      /\ \A u \in Tx \ {t} : tx'[u] = tx[u]
      /\ tx' \in [Tx -> TxType \cup {Nil}]
  <2> HIDE DEF b, f
  <2>1. tx' = [tx EXCEPT ![t] = [batch |-> b, packets |-> f]]
    BY DEF b, f
  <2> QED
    BY <1>2, <2>1 DEF TypeOK
<1>4. TypeOK'
  BY Zenon, <1>3 DEF TypeOK, LogTypeOK
<1>5. /\ tx'[t].batch = b
      /\ tx'[t].packets = f
  BY Zenon, <1>3
<1>6. HoldsContent(tx[t])'
  BY ZenonT(60), <1>5 DEF HoldsContent
<1>7. CacheCovers(tx[t].batch)'
  BY ZenonT(60), <1>1, <1>5 DEF CacheCovers, DistinctPrefixes
<1>8. StoredOrReplayed(tx[t])'
  BY <1>1, <1>5 DEF StoredOrReplayed
<1>9. TxInv'
  BY <1>1, <1>3, <1>5, <1>6, <1>7, <1>8, TxInvUpdate
<1>10. CommittedAreRemembered'
  BY ZenonT(60), <1>1, <1>3, <1>5 DEF CommittedAreRemembered
<1> QED
  BY ZenonT(60), <1>4, <1>9, <1>10
  DEF GrantsAreLogged, OneGrantPerPrefix, ActedWereGranted, PendingWereGranted,
      ResultsWereGranted, WinnersAreTold, Processes

\* Batch.Put leaves a batch of the same identifier, as committed as before.
LEMMA BatchPutType ==
  ASSUME NEW b \in RouterBatch, NEW s \in SeqNum, NEW h \in HashPrefix,
         NEW c \in Cltv
  PROVE  /\ BatchAfterPut(b, s, h, c) \in RouterBatch
         /\ BatchAfterPut(b, s, h, c).ID = b.ID
         /\ BatchAfterPut(b, s, h, c).IsCommitted = b.IsCommitted
<1>1. [hashPrefix |-> h, cltv |-> c] \in BatchEntry
  BY DEF BatchEntry
<1>2. CASE h \in b.replayCache
  BY <1>2 DEF BatchAfterPut, InReplayCache, Add, RouterBatch
<1>3. CASE h \notin b.replayCache
  BY ZenonT(60), <1>1, <1>3
     DEF BatchAfterPut, InReplayCache, AddEntry, RouterBatch, Entries
<1> QED
  BY <1>2, <1>3

\* What Batch.Put, given the position s and the hash h, makes of the batch b.
PutShape(b, d, s, h, e) ==
  /\ h \in b.replayCache =>
       /\ d.entries = b.entries
       /\ d.replayCache = b.replayCache
       /\ d.ReplaySet = b.ReplaySet \cup {s}
  /\ h \notin b.replayCache =>
       /\ d.entries = [b.entries EXCEPT ![s] = e]
       /\ d.replayCache = b.replayCache \cup {h}
       /\ d.ReplaySet = b.ReplaySet

\* What Batch.Put does to the entries, the cache and the replays of a batch.
LEMMA BatchPutShape ==
  ASSUME NEW b \in RouterBatch, NEW s \in SeqNum, NEW h \in HashPrefix,
         NEW c \in Cltv
  PROVE  PutShape(b, BatchAfterPut(b, s, h, c), s, h, [hashPrefix |-> h, cltv |-> c])
<1>1. CASE h \in b.replayCache
  BY <1>1 DEF PutShape, BatchAfterPut, InReplayCache, Add, RouterBatch
<1>2. CASE h \notin b.replayCache
  BY ZenonT(60), <1>2 DEF PutShape, BatchAfterPut, InReplayCache, AddEntry, RouterBatch
<1> QED
  BY Zenon, <1>1, <1>2

\* Batch.Put stores no prefix twice.
LEMMA BatchPutCacheCovers ==
  ASSUME NEW b \in RouterBatch, NEW s \in SeqNum, NEW h \in HashPrefix,
         NEW c \in Cltv, CacheCovers(b)
  PROVE  CacheCovers(BatchAfterPut(b, s, h, c))
<1> DEFINE e == [hashPrefix |-> h, cltv |-> c]
           d == BatchAfterPut(b, s, h, c)
<1>1. /\ h \in b.replayCache =>
           d.entries = b.entries /\ d.replayCache = b.replayCache
      /\ h \notin b.replayCache =>
           /\ d.entries = [b.entries EXCEPT ![s] = e]
           /\ d.replayCache = b.replayCache \cup {h}
  <2>1. PutShape(b, d, s, h, e)
    BY BatchPutShape, Zenon
  <2> QED
    BY <2>1, Zenon DEF PutShape
<1>2. e.hashPrefix = h
  OBVIOUS
<1> SUFFICES CacheCovers(d)
  BY Zenon
<1> HIDE DEF d, e
<1>3. CASE h \in b.replayCache
  BY Zenon, <1>1, <1>3 DEF CacheCovers
<1>4. CASE h \notin b.replayCache
  <2>1. /\ d.entries[s] = e
        /\ \A r \in SeqNum \ {s} : d.entries[r] = b.entries[r]
    BY Zenon, <1>1, <1>4 DEF RouterBatch, Entries
  <2>2. \A r \in SeqNum : b.entries[r] # Nil => b.entries[r].hashPrefix # h
    BY Zenon, <1>4 DEF CacheCovers
  <2>3. DistinctPrefixes(d.entries)
    BY <1>2, <2>1, <2>2 DEF CacheCovers, DistinctPrefixes
  <2>4. \A r \in SeqNum :
          d.entries[r] # Nil => d.entries[r].hashPrefix \in d.replayCache
    BY ZenonT(60), <1>1, <1>2, <1>4, <2>1 DEF CacheCovers
  <2> QED
    BY Zenon, <2>3, <2>4 DEF CacheCovers
<1> QED
  BY ZenonT(60), <1>3, <1>4

\* Tx.ProcessOnionPacket stores the packet in the batch or reports its position.
LEMMA TxProcessStores ==
  ASSUME NEW T \in TxType, StoredOrReplayed(T), NEW s \in DOMAIN T.packets,
         T.packets[s] = Nil, NEW p \in Packet, NEW c \in Cltv
  PROVE  StoredOrReplayed([batch   |-> BatchAfterPut(T.batch, s, HashOf[p], c),
                           packets |-> [T.packets EXCEPT ![s] = p]])
<1> DEFINE h == HashOf[p]
           e == [hashPrefix |-> h, cltv |-> c]
           b == BatchAfterPut(T.batch, s, h, c)
           f == [T.packets EXCEPT ![s] = p]
           U == [batch |-> b, packets |-> f]
<1>1. s \in SeqNum /\ T.batch \in RouterBatch /\ h \in HashPrefix
  BY Zenon, TxShape, PacketAssumption
<1>2. p # Nil /\ e # Nil /\ e.hashPrefix = h
  BY <1>1, PacketAssumption, NilAssumption DEF BatchEntry
<1>3. T.batch.entries[s] = Nil /\ s \notin T.batch.ReplaySet
  BY Zenon, <1>1 DEF StoredOrReplayed
<1>4. /\ DOMAIN f = DOMAIN T.packets
      /\ f[s] = p
      /\ \A r \in DOMAIN T.packets \ {s} : f[r] = T.packets[r]
  OBVIOUS
<1>5. U.batch = b /\ U.packets = f
  BY ZenonT(60)
<1>6. /\ h \in T.batch.replayCache =>
           /\ b.entries = T.batch.entries
           /\ b.ReplaySet = T.batch.ReplaySet \cup {s}
      /\ h \notin T.batch.replayCache =>
           /\ b.entries = [T.batch.entries EXCEPT ![s] = e]
           /\ b.ReplaySet = T.batch.ReplaySet
  <2>1. PutShape(T.batch, b, s, h, e)
    BY <1>1, BatchPutShape, Zenon
  <2> HIDE DEF b, e, h
  <2> QED
    BY <2>1, Zenon DEF PutShape
<1> HIDE DEF b, e, f
<1>7. /\ \A r \in SeqNum \ {s} : b.entries[r] = T.batch.entries[r]
      /\ b.entries[s] \in {Nil, e}
      /\ b.entries[s] = Nil <=> s \in b.ReplaySet
      /\ \A r \in SeqNum \ {s} : r \in b.ReplaySet <=> r \in T.batch.ReplaySet
  BY Zenon, <1>1, <1>2, <1>3, <1>6 DEF RouterBatch, Entries
<1> HIDE DEF U
<1> SUFFICES ASSUME NEW r \in SeqNum
             PROVE  /\ (r \in DOMAIN f /\ f[r] # Nil)
                         <=> (b.entries[r] # Nil \/ r \in b.ReplaySet)
                    /\ b.entries[r] # Nil
                         => /\ r \notin b.ReplaySet
                            /\ b.entries[r].hashPrefix = HashOf[f[r]]
  <2>1. StoredOrReplayed(U)
    BY <1>5 DEF StoredOrReplayed
  <2> QED
    BY ZenonT(60), <2>1 DEF U, b, f
<1>8. CASE r = s
  BY ZenonT(60), <1>2, <1>4, <1>7, <1>8
<1>9. CASE r # s
  BY <1>4, <1>7, <1>9 DEF StoredOrReplayed
<1> QED
  BY <1>8, <1>9

\* Processing a packet in a transaction: its prefix is new to the batch and gets
\* stored, or it is known and the position is reported as a replay.
LEMMA TxProcessInv ==
  ASSUME Inv, NEW t \in Tx, NEW s \in SeqNum, NEW c \in Cltv,
         MayProcess(t, s),
         TxProcessOnionPacket(t, s, content[tx[t].batch.ID][s], c)
  PROVE  Inv'
<1> USE DEF Inv
<1>1. CASE UNCHANGED vars
  BY Zenon, <1>1, TxInvStable
  DEF vars, TypeOK, LogTypeOK, GrantsAreLogged, OneGrantPerPrefix,
      ActedWereGranted, PendingWereGranted, ResultsWereGranted, WinnersAreTold,
      CommittedAreRemembered, Processes
<1>2. CASE Crash
  BY Zenon, <1>2, CrashInv
<1>3. CASE /\ Processes(content[tx[t].batch.ID][s])
           /\ IsOpen(tx[t].batch)
           /\ s \in DOMAIN tx[t].packets
           /\ tx' = [tx EXCEPT ![t] =
                [batch   |-> BatchAfterPut(@.batch, s,
                               HashOf[content[tx[t].batch.ID][s]], c),
                 packets |-> [@.packets EXCEPT
                                ![s] = content[tx[t].batch.ID][s]]]]
           /\ UNCHANGED <<running, seen, results, reply, pending, content,
                          granted, acted, told, forgotten>>
  <2> DEFINE T == tx[t]
             p == content[T.batch.ID][s]
             b == BatchAfterPut(T.batch, s, HashOf[p], c)
             f == [T.packets EXCEPT ![s] = p]
             U == [batch |-> b, packets |-> f]
  <2>0. /\ Processes(p)
        /\ s \in DOMAIN T.packets
        /\ tx' = [tx EXCEPT ![t] = U]
        /\ ~T.batch.IsCommitted
    BY Zenon, <1>3 DEF IsOpen
  <2>u. UNCHANGED <<running, seen, results, reply, pending, content, granted,
                    acted, told, forgotten>>
    BY Zenon, <1>3
  <2>1. T # Nil /\ T.packets[s] = Nil /\ p # Nil
    BY ZenonT(60), <2>0 DEF MayProcess
  <2>2. T \in TxType
    BY <2>1 DEF TypeOK
  <2>3. T.batch \in RouterBatch /\ T.batch.ID \in BatchId
    BY ZenonT(60), <2>2, TxShape DEF RouterBatch
  <2>4. p \in Packet /\ HashOf[p] \in HashPrefix
    <3>1. content \in [BatchId -> [SeqNum -> Packet \cup {Nil}]]
      BY ContentsAssumption, Zenon DEF TypeOK
    <3>2. p \in Packet \cup {Nil}
      BY <2>3, <3>1, Zenon
    <3>3. p \in Packet
      BY <2>1, <3>2, Zenon
    <3> QED
      BY <3>3, PacketAssumption, Zenon
  <2>5. /\ HoldsContent(T)
        /\ CacheCovers(T.batch)
        /\ StoredOrReplayed(T)
    BY Zenon, <2>0, <2>1 DEF TxInv
  <2>6. /\ b \in RouterBatch
        /\ b.ID = T.batch.ID
        /\ b.IsCommitted = T.batch.IsCommitted
    <3> HIDE DEF p, T
    <3> QED
      BY ZenonT(60), <2>3, <2>4, BatchPutType
  <2>7. CacheCovers(b)
    <3> HIDE DEF p, T
    <3> QED
      BY <2>3, <2>4, <2>5, BatchPutCacheCovers
  <2>8. StoredOrReplayed(U)
    <3> HIDE DEF p, T
    <3> QED
      BY Zenon, <2>0, <2>1, <2>2, <2>4, <2>5, TxProcessStores
  <2>9. /\ U.batch = b
        /\ U.packets = f
        /\ DOMAIN f = DOMAIN T.packets
        /\ f[s] = p
        /\ \A r \in DOMAIN T.packets \ {s} : f[r] = T.packets[r]
    BY Zenon, <2>0
  <2>10. U \in TxType
    <3>1. PICK n \in Nels :
            T \in [batch : RouterBatch,
                   packets : [Indexes(n) -> Packet \cup {Nil}]]
      BY <2>2 DEF TxType
    <3>2. f \in [DOMAIN T.packets -> Packet \cup {Nil}]
      BY Zenon, <2>4, <3>1
    <3> HIDE DEF b, f
    <3> QED
      BY ZenonT(60), <2>2, <2>6, <3>2, TxRebuild
  <2> HIDE DEF b, f, U, p, T
  <2>11. HoldsContent(U)
    BY Zenon, <2>0, <2>5, <2>6, <2>9 DEF HoldsContent, p
  <2>12. /\ tx'[t] = U
         /\ \A u \in Tx \ {t} : tx'[u] = tx[u]
         /\ tx' \in [Tx -> TxType \cup {Nil}]
    BY Zenon, <2>0, <2>10 DEF TypeOK
  <2>13. TypeOK'
    BY Zenon, <2>u, <2>12 DEF TypeOK, LogTypeOK
  <2>14. TxInv'
    <3>1. HoldsContent(tx[t])'
      BY ZenonT(60), <2>u, <2>11, <2>12 DEF HoldsContent, Processes
    <3>2. CacheCovers(tx[t].batch)'
      BY Zenon, <2>7, <2>9, <2>12 DEF CacheCovers, DistinctPrefixes
    <3>3. StoredOrReplayed(tx[t])'
      BY <2>8, <2>12, ZenonT(60) DEF StoredOrReplayed
    <3>4. (~tx[t].batch.IsCommitted)'
      BY <2>0, <2>6, <2>9, <2>12, SMTT(30)
    <3> QED
      BY Zenon, <2>u, <2>12, <3>1, <3>2, <3>3, <3>4, TxInvUpdate
  <2>15. CommittedAreRemembered'
    BY <2>0, <2>u, <2>6, <2>9, <2>12, Zenon DEF CommittedAreRemembered
  <2> QED
    BY Zenon, <2>u, <2>13, <2>14, <2>15
    DEF GrantsAreLogged, OneGrantPerPrefix, ActedWereGranted,
        PendingWereGranted, ResultsWereGranted, WinnersAreTold, Processes
<1> QED
  BY Zenon, <1>1, <1>2, <1>3 DEF TxProcessOnionPacket

\* C is the transaction T committed with the replay set R.
CommitShape(T, C, R) ==
  /\ C.packets = T.packets
  /\ C.batch.IsCommitted = TRUE
  /\ C.batch.ReplaySet = R
  /\ C.batch.ID = T.batch.ID
  /\ C.batch.entries = T.batch.entries
  /\ C.batch.replayCache = T.batch.replayCache

\* What a commit does to a transaction, and what it leaves alone.
LEMMA CommittedShape ==
  ASSUME NEW T \in TxType, NEW R \in SUBSET SeqNum
  PROVE  /\ Committed(T, R) \in TxType
         /\ Committed(T, R).packets = T.packets
         /\ Committed(T, R).batch \in RouterBatch
         /\ Committed(T, R).batch.IsCommitted = TRUE
         /\ Committed(T, R).batch.ReplaySet = R
         /\ Committed(T, R).batch.ID = T.batch.ID
         /\ Committed(T, R).batch.entries = T.batch.entries
         /\ Committed(T, R).batch.replayCache = T.batch.replayCache
<1> DEFINE b == [T.batch EXCEPT !.ReplaySet = R, !.IsCommitted = TRUE]
<1>1. PICK n \in Nels :
        T \in [batch : RouterBatch, packets : [Indexes(n) -> Packet \cup {Nil}]]
  BY DEF TxType
<1>2. /\ b \in RouterBatch
      /\ b.IsCommitted = TRUE
      /\ b.ReplaySet = R
      /\ b.ID = T.batch.ID
      /\ b.entries = T.batch.entries
      /\ b.replayCache = T.batch.replayCache
  BY Zenon, <1>1 DEF RouterBatch
<1>3. Committed(T, R) = [batch |-> b, packets |-> T.packets]
  BY <1>1 DEF Committed
<1>4. [batch |-> b, packets |-> T.packets] \in TxType
  BY ZenonT(60), <1>1, <1>2 DEF TxType
<1> HIDE DEF b
<1> QED
  BY <1>2, <1>3, <1>4

\* A commit, of whatever outcome, that marks t committed with the replay set R:
\* the transactions stay consistent if the usable packets of t are granted.
LEMMA CommittedTxInv ==
  ASSUME Inv, NEW t \in Tx, tx[t] # Nil, NEW R \in SUBSET SeqNum,
         tx' = [tx EXCEPT ![t] = Committed(tx[t], R)],
         UNCHANGED content, granted \subseteq granted',
         \A s \in DOMAIN tx[t].packets :
           tx[t].packets[s] # Nil /\ s \notin R
           => <<HashOf[tx[t].packets[s]], <<tx[t].batch.ID, s>>>> \in granted'
  PROVE  /\ TxInv'
         /\ tx' \in [Tx -> TxType \cup {Nil}]
<1> USE DEF Inv
<1>1. tx[t] \in TxType
  BY DEF TypeOK
<1>2. /\ tx'[t] = Committed(tx[t], R)
      /\ \A u \in Tx \ {t} : tx'[u] = tx[u]
      /\ tx' \in [Tx -> TxType \cup {Nil}]
  BY ZenonT(60), <1>1, CommittedShape DEF TypeOK
<1> HIDE DEF Inv
<1>3. /\ tx'[t].packets = tx[t].packets
      /\ tx'[t].batch.IsCommitted = TRUE
      /\ tx'[t].batch.ReplaySet = R
      /\ tx'[t].batch.ID = tx[t].batch.ID
      /\ tx'[t].batch.entries = tx[t].batch.entries
      /\ tx'[t].batch.replayCache = tx[t].batch.replayCache
  <2>1. CommitShape(tx[t], Committed(tx[t], R), R)
    BY ZenonT(60), <1>1, CommittedShape DEF CommitShape
  <2>2. CommitShape(tx[t], tx'[t], R)
    BY Zenon, <1>2, <2>1
  <2> QED
    BY Zenon, <2>2 DEF CommitShape
<1>4. HoldsContent(tx[t]) /\ CacheCovers(tx[t].batch)
  BY Zenon DEF Inv, TxInv
<1>5. HoldsContent(tx[t])'
  <2> SUFFICES ASSUME NEW s \in DOMAIN tx[t].packets, tx[t].packets[s] # Nil
               PROVE  /\ tx[t].packets[s] = content[tx[t].batch.ID][s]
                      /\ Processes(tx[t].packets[s])
    BY ZenonT(60), <1>3 DEF HoldsContent, Processes
  <2> QED
    BY ZenonT(60), <1>4 DEF HoldsContent
<1>6. CacheCovers(tx[t].batch)'
  <2>1. /\ (tx[t].batch.entries)' = tx[t].batch.entries
        /\ (tx[t].batch.replayCache)' = tx[t].batch.replayCache
    BY Zenon, <1>3
  <2> QED
    BY ZenonT(60), <1>4, <2>1 DEF CacheCovers, DistinctPrefixes
<1>7. UsableWereGranted(tx[t])'
  BY <1>3 DEF UsableWereGranted, Usable
<1> QED
  BY Zenon, <1>2, <1>3, <1>5, <1>6, <1>7, TxInvUpdate DEF Inv

\* A batch the log knows: its remembered replay set excludes every packet of the
\* content that was not granted to its position.
LEMMA RecommitInv ==
  ASSUME Inv, NEW t \in Tx, TxCommit(t), running,
         results[tx[t].batch.ID] # Nil
  PROVE  Inv'
<1> DEFINE id == tx[t].batch.ID
           R  == results[id]
<1> USE DEF Inv
<1>1. /\ tx[t] # Nil
      /\ tx[t] \in TxType
      /\ tx[t].batch \in RouterBatch
      /\ DOMAIN tx[t].packets \subseteq SeqNum
      /\ id \in BatchId
      /\ R \in SUBSET SeqNum
  BY TxShape DEF TxCommit, TypeOK, LogTypeOK, RouterBatch
<1>2. /\ reply' = ReplaysReply("PutBatch", R)
      /\ UNCHANGED <<running, seen, results>>
      /\ UNCHANGED <<pending, content, granted, acted, told, forgotten>>
  BY Zenon DEF TxCommit, PutBatch, NotStarted
<1>3. reply' \in Replies /\ reply'.err = "ok" /\ reply'.replays = R
  BY ZenonT(60), <1>1, <1>2, RepliesType DEF Ops
<1>4. tx' = [tx EXCEPT ![t] = Committed(tx[t], R)]
  BY Zenon, <1>3 DEF TxCommit
<1>5. \A s \in DOMAIN tx[t].packets :
        tx[t].packets[s] # Nil /\ s \notin R
        => <<HashOf[tx[t].packets[s]], <<id, s>>>> \in granted
  <2>1. HoldsContent(tx[t])
    BY ZenonT(60), <1>1 DEF TxInv
  <2> QED
    BY <1>1, <2>1, Zenon DEF HoldsContent, ResultsWereGranted
<1>6. TxInv' /\ tx' \in [Tx -> TxType \cup {Nil}]
  <2> HIDE DEF R
  <2> QED
    BY Zenon, <1>1, <1>2, <1>4, <1>5, CommittedTxInv
<1>7. TypeOK'
  BY Zenon, <1>2, <1>3, <1>6 DEF TypeOK, LogTypeOK
<1>8. CommittedAreRemembered'
  <2>1. /\ tx'[t].batch.ReplaySet = R
        /\ tx'[t].batch.ID = id
        /\ \A u \in Tx \ {t} : tx'[u] = tx[u]
    <3> HIDE DEF R
    <3> QED
      BY ZenonT(60), <1>1, <1>4, CommittedShape DEF TypeOK
  <2> QED
    BY ZenonT(60), <1>2, <2>1 DEF CommittedAreRemembered
<1> QED
  BY ZenonT(60), <1>2, <1>6, <1>7, <1>8
  DEF GrantsAreLogged, OneGrantPerPrefix, ActedWereGranted, PendingWereGranted,
      ResultsWereGranted, WinnersAreTold, Processes

\* The first commit of a batch: the positions it does not report are exactly the
\* ones whose prefixes the log inserts.
LEMMA FirstCommitInv ==
  ASSUME Inv, NEW t \in Tx, MayCommit(t), TxCommit(t), running,
         results[tx[t].batch.ID] = Nil
  PROVE  Inv'
<1> DEFINE b  == tx[t].batch
           id == b.ID
           es == b.entries
           R  == Replayed(es) \cup b.ReplaySet
<1>1. /\ tx[t] # Nil
      /\ tx[t] \in TxType
      /\ b \in RouterBatch
      /\ b.IsCommitted = FALSE
      /\ DOMAIN tx[t].packets \subseteq SeqNum
      /\ id \in BatchId
      /\ es \in Entries
      /\ R \in SUBSET SeqNum
  BY ZenonT(60), TxShape DEF Inv, TxCommit, TypeOK, RouterBatch, Replayed
<1>2. /\ HoldsContent(tx[t])
      /\ DistinctPrefixes(es)
      /\ StoredOrReplayed(tx[t])
  BY Zenon, <1>1 DEF Inv, TxInv, CacheCovers
<1>3. /\ seen' = AddAll(es)
      /\ results' = [results EXCEPT ![id] = R]
      /\ reply' = ReplaysReply("PutBatch", R)
      /\ granted' = granted \cup Inserts(b)
      /\ UNCHANGED <<pending, content, acted, told, forgotten>>
  BY Zenon DEF TxCommit, PutBatch, NotStarted
<1>4. reply'.err = "ok" /\ reply'.replays = R
  BY Zenon, <1>1, <1>3, RepliesType DEF Ops
<1>5. tx' = [tx EXCEPT ![t] = Committed(tx[t], R)]
  BY Zenon, <1>4 DEF TxCommit
<1>6. LogTypeOK'
  BY ZenonT(60), <1>1, LogTypes DEF Inv, TypeOK, TxCommit, RouterBatch
<1>7. /\ \A g \in HashPrefix : seen[g] # Nil => seen'[g] # Nil
      /\ \A s \in SeqNum : es[s] # Nil => /\ es[s].hashPrefix \in HashPrefix
                                          /\ seen'[es[s].hashPrefix] # Nil
  <2>1. seen \in [HashPrefix -> Cltv \cup {Nil}]
    BY Zenon DEF Inv, TypeOK, LogTypeOK
  <2>2. \A s \in SeqNum : es[s] # Nil => es[s].hashPrefix \in HashPrefix
    BY Zenon, <1>1 DEF Entries, BatchEntry
  <2> HIDE DEF es
  <2>3. /\ \A g \in HashPrefix : seen[g] # Nil => AddAll(es)[g] = seen[g]
        /\ \A s \in SeqNum : es[s] # Nil => AddAll(es)[es[s].hashPrefix] # Nil
    BY <1>1, <2>1, AddAllType
  <2> QED
    BY <1>3, <2>2, <2>3, Zenon
<1>8. /\ \A s \in SeqNum : es[s] # Nil /\ seen[es[s].hashPrefix] = Nil
                            => <<es[s].hashPrefix, <<id, s>>>> \in Inserts(b)
      /\ \A g, o : <<g, o>> \in Inserts(b)
                    => \E s \in SeqNum : /\ es[s] # Nil
                                         /\ es[s].hashPrefix = g
                                         /\ seen[g] = Nil
                                         /\ o = <<id, s>>
  BY ZenonT(60) DEF Inserts
<1>9. Inserts(b) \subseteq HashPrefix \X Origin
  <2>1. \A r \in SeqNum : <<id, r>> \in Origin
    BY <1>1, Zenon DEF Origin
  <2> SUFFICES ASSUME NEW x \in Inserts(b)
               PROVE  x \in HashPrefix \X Origin
    BY Zenon
  <2>2. PICK r \in SeqNum : es[r] # Nil /\ x = <<es[r].hashPrefix, <<id, r>>>>
    BY Zenon DEF Inserts
  <2> QED
    BY <1>7, <2>1, <2>2, Zenon
<1>10. \A g \in HashPrefix, o \in Origin :
         /\ <<g, o>> \in granted => <<g, o>> \in granted'
         /\ <<g, o>> \in granted' /\ <<g, o>> \notin granted
            => <<g, o>> \in Inserts(b)
  BY Zenon, <1>3
<1> HIDE DEF b, R
<1>11. GrantsAreLogged'
  <2> SUFFICES ASSUME NEW g \in HashPrefix \ forgotten, NEW o \in Origin,
                      <<g, o>> \in granted'
               PROVE  seen'[g] # Nil
    BY <1>3, Zenon DEF GrantsAreLogged
  <2>1. CASE <<g, o>> \in granted
    BY <1>7, <2>1, Zenon DEF Inv, GrantsAreLogged
  <2>2. CASE <<g, o>> \notin granted
    <3>1. <<g, o>> \in Inserts(b)
      BY <1>10, <2>2, Zenon
    <3>2. PICK r \in SeqNum : es[r] # Nil /\ es[r].hashPrefix = g
      BY <1>8, <3>1, Zenon
    <3> QED
      BY <1>7, <3>2, Zenon
  <2> QED
    BY <2>1, <2>2, Zenon
<1>12. OneGrantPerPrefix'
  <2> SUFFICES ASSUME NEW g \in HashPrefix \ forgotten,
                      NEW o1 \in Origin, NEW o2 \in Origin,
                      <<g, o1>> \in granted', <<g, o2>> \in granted'
               PROVE  o1 = o2
    BY Zenon, <1>3 DEF OneGrantPerPrefix
  <2>1. CASE <<g, o1>> \in granted /\ <<g, o2>> \in granted
    BY Zenon, <2>1 DEF Inv, OneGrantPerPrefix
  <2>2. CASE <<g, o1>> \in Inserts(b) /\ <<g, o2>> \in Inserts(b)
    <3>1. PICK s1 \in SeqNum : es[s1] # Nil /\ es[s1].hashPrefix = g /\ o1 = <<id, s1>>
      BY <1>8, <2>2
    <3>2. PICK s2 \in SeqNum : es[s2] # Nil /\ es[s2].hashPrefix = g /\ o2 = <<id, s2>>
      BY <1>8, <2>2
    <3>3. s1 = s2
      BY Zenon, <1>2, <3>1, <3>2 DEF DistinctPrefixes
    <3> QED
      BY Zenon, <3>1, <3>2, <3>3
  <2>3. \A o \in Origin : <<g, o>> \in granted => seen[g] # Nil
    BY DEF Inv, GrantsAreLogged
  <2> QED
    BY Zenon, <1>8, <1>10, <2>1, <2>2, <2>3
<1>13. \A s \in DOMAIN tx[t].packets :
         tx[t].packets[s] # Nil /\ s \notin R
         => <<HashOf[tx[t].packets[s]], <<id, s>>>> \in granted'
  <2> SUFFICES ASSUME NEW s \in DOMAIN tx[t].packets,
                      tx[t].packets[s] # Nil, s \notin R
               PROVE  <<HashOf[tx[t].packets[s]], <<id, s>>>> \in granted'
    BY Zenon
  <2>1. s \in SeqNum /\ s \notin b.ReplaySet /\ s \notin Replayed(es)
    BY Zenon, <1>1 DEF R
  <2>2. es[s] # Nil /\ es[s].hashPrefix = HashOf[tx[t].packets[s]]
    BY Zenon, <1>2, <2>1 DEF StoredOrReplayed, b
  <2>3. seen[es[s].hashPrefix] = Nil
    BY <2>1, <2>2 DEF Replayed
  <2> QED
    BY Zenon, <1>3, <1>8, <2>1, <2>2, <2>3
<1>14. TxInv' /\ tx' \in [Tx -> TxType \cup {Nil}]
  BY Zenon, <1>1, <1>3, <1>5, <1>13, CommittedTxInv DEF b
<1>15. TypeOK'
  BY Zenon, <1>3, <1>6, <1>9, <1>14 DEF Inv, TypeOK
<1>16. results'[id] = R /\ \A i \in BatchId \ {id} : results'[i] = results[i]
  BY ZenonT(60), <1>1, <1>3 DEF Inv, TypeOK, LogTypeOK
<1>17. ResultsWereGranted'
  <2> SUFFICES ASSUME NEW i \in BatchId, NEW s \in SeqNum,
                      results'[i] # Nil, content[i][s] # Nil,
                      Processes(content[i][s]), s \notin results'[i]
               PROVE  <<HashOf[content[i][s]], <<i, s>>>> \in granted'
    BY Zenon, <1>3 DEF ResultsWereGranted, Processes
  <2>1. CASE i = id
    <3>1. s \in DOMAIN tx[t].packets /\ tx[t].packets[s] # Nil
      BY Zenon, <2>1 DEF MayCommit, b
    <3>2. tx[t].packets[s] = content[i][s]
      BY Zenon, <1>2, <2>1, <3>1 DEF HoldsContent, b
    <3> QED
      BY ZenonT(60), <1>13, <1>16, <2>1, <3>1, <3>2
  <2>2. CASE i # id
    BY Zenon, <1>3, <1>16, <2>2 DEF Inv, ResultsWereGranted
  <2> QED
    BY Zenon, <2>1, <2>2
<1>18. WinnersAreTold'
  <2> SUFFICES ASSUME NEW g \in HashPrefix \ forgotten,
                      NEW i \in BatchId, NEW s \in SeqNum,
                      <<g, <<i, s>>>> \in granted'
               PROVE  results'[i] # Nil /\ s \notin results'[i]
    BY Zenon, <1>3 DEF WinnersAreTold
  <2>1. CASE <<g, <<i, s>>>> \in granted
    BY Zenon, <1>16, <2>1 DEF Inv, WinnersAreTold, b
  <2>2. CASE <<g, <<i, s>>>> \in Inserts(b)
    <3>1. i = id /\ es[s] # Nil /\ seen[es[s].hashPrefix] = Nil
      BY <1>8, <2>2, SMTT(30)
    <3>2. s \notin b.ReplaySet
      BY Zenon, <1>2, <3>1 DEF StoredOrReplayed, b
    <3>3. s \notin R
      BY <3>1, <3>2 DEF R, Replayed
    <3>4. R # Nil
      BY Zenon, <1>1, NilAssumption
    <3> QED
      BY Zenon, <1>16, <3>1, <3>3, <3>4
  <2> QED
    BY Zenon, <1>3, <2>1, <2>2
<1>19. CommittedAreRemembered'
  <2>1. /\ tx'[t].batch.ReplaySet = R
        /\ tx'[t].batch.ID = id
        /\ \A u \in Tx \ {t} : tx'[u] = tx[u]
    BY ZenonT(60), <1>1, <1>5, CommittedShape DEF Inv, TypeOK, b
  <2>2. R # Nil
    BY <1>1, NilAssumption
  <2> SUFFICES ASSUME Durable, NEW u \in Tx, tx'[u] # Nil,
                      tx'[u].batch.IsCommitted
               PROVE  /\ results'[tx'[u].batch.ID] # Nil
                      /\ tx'[u].batch.ReplaySet = results'[tx'[u].batch.ID]
    BY Zenon DEF CommittedAreRemembered
  <2>3. CASE u = t
    BY Zenon, <1>16, <2>1, <2>2, <2>3
  <2>4. CASE u # t
    <3>1. tx[u] # Nil /\ tx[u].batch.IsCommitted
      BY Zenon, <2>1, <2>4
    <3>2. /\ results[tx[u].batch.ID] # Nil
          /\ tx[u].batch.ReplaySet = results[tx[u].batch.ID]
      BY <3>1 DEF Inv, CommittedAreRemembered
    <3>3. tx[u].batch.ID \in BatchId
      BY ZenonT(60), <3>1, TxShape DEF Inv, TypeOK, RouterBatch
    <3>4. tx[u].batch.ID # id
      BY Zenon, <3>2 DEF b
    <3> QED
      BY <1>16, <2>1, <2>4, <3>2, <3>3, <3>4
  <2> QED
    BY <2>3, <2>4
<1>20. ActedWereGranted' /\ PendingWereGranted'
  BY ZenonT(60), <1>3 DEF Inv, ActedWereGranted, PendingWereGranted
<1> QED
  BY Zenon, <1>11, <1>12, <1>14, <1>15, <1>17, <1>18, <1>19, <1>20 DEF Inv

\* A Commit on a log that is not running changes nothing.
LEMMA FailedCommitInv ==
  ASSUME Inv, NEW t \in Tx, TxCommit(t), ~running
  PROVE  Inv'
<1> USE DEF Inv
<1>1. /\ reply' = Reply("PutBatch", "errReplayLogNotStarted")
      /\ UNCHANGED <<running, seen, results>>
      /\ UNCHANGED <<pending, content, granted, acted, told, forgotten>>
  BY Zenon DEF TxCommit, PutBatch, NotStarted
<1>2. reply' \in Replies /\ reply'.err # "ok"
  BY <1>1, RepliesType DEF Ops, Errors
<1>3. tx' = tx
  BY Zenon, <1>2 DEF TxCommit
<1>4. TypeOK'
  BY <1>1, <1>2, <1>3 DEF TypeOK, LogTypeOK
<1>5. TxInv'
  BY <1>1, <1>3, TxInvStable
<1> QED
  BY Zenon, <1>1, <1>3, <1>4, <1>5
  DEF GrantsAreLogged, OneGrantPerPrefix, ActedWereGranted, PendingWereGranted,
      ResultsWereGranted, WinnersAreTold, CommittedAreRemembered, Processes

\* A transaction's usable packets were granted to its positions.
LEMMA CommitReturnInv ==
  ASSUME Inv, NEW t \in Tx, CommitReturn(t)
  PROVE  Inv'
<1> USE DEF Inv, CommitReturn
<1>1. \A s \in Usable(tx[t]) :
        <<HashOf[tx[t].packets[s]], <<tx[t].batch.ID, s>>>> \in granted
  BY Zenon DEF TxInv, UsableWereGranted
<1>2. ActedWereGranted'
  BY Zenon, <1>1 DEF ActedWereGranted
<1>3. TypeOK'
  <2>1. tx[t].batch.ID \in BatchId /\ tx[t].batch.ReplaySet \in SUBSET SeqNum
    <3>1. tx[t] \in TxType
      BY DEF TypeOK
    <3>2. tx[t].batch \in RouterBatch
      BY Zenon, <3>1, TxShape
    <3> HIDE DEF Inv, CommitReturn
    <3> QED
      BY <3>2 DEF RouterBatch
  <2>2. told' \subseteq BatchId \X SUBSET SeqNum
    BY <2>1 DEF TypeOK
  <2> QED
    BY Zenon, <1>2, <2>2 DEF TypeOK, LogTypeOK, ActedWereGranted
<1>4. TxInv'
  BY Zenon, TxInvStable
<1> QED
  BY ZenonT(60), <1>2, <1>3, <1>4
  DEF GrantsAreLogged, OneGrantPerPrefix, PendingWereGranted,
      ResultsWereGranted, WinnersAreTold, CommittedAreRemembered, Processes

\* Every step preserves the invariant.
LEMMA NextInv == Inv /\ [Next]_vars => Inv'
<1> SUFFICES ASSUME Inv, [Next]_vars PROVE Inv'
  OBVIOUS
<1>1. CASE RouterStart
  BY <1>1, StartInv
<1>2. CASE RouterStop
  BY <1>2, StopInv
<1>3. CASE Crash
  BY <1>3, CrashInv
<1>4. CASE \E h \in HashPrefix : Expire(h)
  BY <1>4, ExpireInv
<1>5. CASE \E x \in Htlc, p \in Packet, c \in Cltv : ProcessOnionPacket(x, p, c)
  BY <1>5, ProcessOnionPacketInv
<1>6. CASE \E x \in Htlc : ProcessReturn(x)
  BY <1>6, ProcessReturnInv
<1>7. CASE \E t \in Tx, id \in BatchId, nels \in Nels : BeginTxn(t, id, nels)
  BY Zenon, <1>7, BeginTxnInv
<1>8. CASE \E t \in Tx, s \in SeqNum, c \in Cltv :
             /\ MayProcess(t, s)
             /\ TxProcessOnionPacket(t, s, content[tx[t].batch.ID][s], c)
  BY Zenon, <1>8, TxProcessInv
<1>9. CASE \E t \in Tx : MayCommit(t) /\ TxCommit(t)
  BY <1>9, RecommitInv, FirstCommitInv, FailedCommitInv
<1>10. CASE \E t \in Tx : CommitReturn(t)
  BY <1>10, CommitReturnInv
<1>11. CASE UNCHANGED vars
  BY Zenon, <1>11, TxInvStable
  DEF vars, Inv, TypeOK, LogTypeOK, GrantsAreLogged, OneGrantPerPrefix,
      ActedWereGranted, PendingWereGranted, ResultsWereGranted, WinnersAreTold,
      CommittedAreRemembered, Processes
<1> QED
  BY Zenon, <1>1, <1>2, <1>3, <1>4, <1>5, <1>6, <1>7, <1>8, <1>9, <1>10, <1>11 DEF Next

-----------------------------------------------------------------------------
(***************************************************************************)
(* The theorems.                                                           *)
(***************************************************************************)

\* The invariant holds in every reachable state.
THEOREM InvariantHolds == Spec => []Inv
BY InitInv, NextInv, PTL DEF Spec

\* The variables keep their types.
THEOREM TypeCorrect == Spec => []TypeOK
<1>1. Inv => TypeOK
  BY DEF Inv
<1> QED
  BY <1>1, InvariantHolds, PTL

\* No two HTLCs or batch positions are ever handed packets with the same hash
\* prefix while the log remembers it, across Router.ProcessOnionPacket, Commit,
\* retries with the same batch identifier, crashes and restarts.
THEOREM ReplayProtection == Spec => []OneUsePerPrefix
<1>1. Inv => OneUsePerPrefix
  BY DEF Inv, OneGrantPerPrefix, ActedWereGranted, OneUsePerPrefix
<1> QED
  BY <1>1, InvariantHolds, PTL

\* Whoever is handed a packet is the one the log inserted its prefix for, even
\* when a batch is answered from the log's memory of an earlier commit.
THEOREM OnlyGrantedAreHandedOut == Spec => []ActedWereGranted
<1>1. Inv => ActedWereGranted
  BY DEF Inv
<1> QED
  BY <1>1, InvariantHolds, PTL

\* A position the log inserted a prefix for is never reported as a replay.
THEOREM NoWinnerIsLost == Spec => []WinnersAreTold
<1>1. Inv => WinnersAreTold
  BY DEF Inv
<1> QED
  BY <1>1, InvariantHolds, PTL

\* What a durable log remembers of a batch, no step changes.
LEMMA ResultsStay ==
  ASSUME Inv, [Next]_vars, Durable, NEW id \in BatchId, results[id] # Nil
  PROVE  results'[id] = results[id]
<1>1. CASE results' = results
  BY <1>1
<1>2. ASSUME NEW t \in Tx, TxCommit(t), results' # results
      PROVE  results'[id] = results[id]
  <2> DEFINE b == tx[t].batch
  <2>1. /\ results[b.ID] = Nil
        /\ results' = [results EXCEPT ![b.ID] = Replayed(b.entries) \cup b.ReplaySet]
    BY Zenon, <1>2 DEF TxCommit, PutBatch, NotStarted
  <2>2. results \in [BatchId -> (SUBSET SeqNum) \cup {Nil}]
    BY Zenon DEF Inv, TypeOK, LogTypeOK
  <2> QED
    BY <2>1, <2>2
<1>3. RouterStart \/ RouterStop \/ Crash => results' = results
  BY Zenon DEF RouterStart, Start, RouterStop, Stop, Crash, KeepOrForget, NotStarted
<1>4. \A h \in HashPrefix : Expire(h) => results' = results
  BY Zenon DEF Expire, Delete, NotStarted
<1>5. \A x \in Htlc, p \in Packet, c \in Cltv :
        ProcessOnionPacket(x, p, c) => results' = results
  BY Zenon DEF ProcessOnionPacket, Put, NotStarted, vars, logVars
<1>6. results' = results \/ \E t \in Tx : TxCommit(t)
  BY ZenonT(60), <1>3, <1>4, <1>5
  DEF Next, vars, logVars, ProcessReturn, BeginTxn, TxProcessOnionPacket, CommitReturn
<1> QED
  BY Zenon, <1>1, <1>2, <1>6

\* With a durable log, whatever two commits with the same identifier report, they
\* report the same: what was reported is what the log remembers, for ever.
THEOREM IdempotentCommit == Spec => []CommitIsIdempotent
<1>1. Init => ToldAreRemembered
  BY DEF Init, ToldAreRemembered
<1>2. Inv /\ ToldAreRemembered /\ [Next]_vars => ToldAreRemembered'
  <2> SUFFICES ASSUME Inv, ToldAreRemembered, [Next]_vars, Durable,
                      NEW u \in told'
               PROVE  results'[u[1]] = u[2]
    BY DEF ToldAreRemembered
  <2>1. CASE u \in told
    <3>1. u[1] \in BatchId /\ u[2] \in SUBSET SeqNum
      BY <2>1 DEF Inv, TypeOK
    <3>2. results[u[1]] = u[2]
      BY <2>1 DEF ToldAreRemembered
    <3>3. results[u[1]] # Nil
      BY <3>1, <3>2, NilAssumption
    <3> QED
      BY <3>1, <3>2, <3>3, ResultsStay
  <2>2. CASE u \notin told
    <3>1. PICK t \in Tx : CommitReturn(t)
      BY ZenonT(60), <2>2 DEF Next, vars, RouterStart, RouterStop, Crash, Expire,
         ProcessOnionPacket, ProcessReturn, BeginTxn, TxProcessOnionPacket, TxCommit
    <3>2. /\ tx[t] # Nil /\ tx[t].batch.IsCommitted
          /\ u = <<tx[t].batch.ID, tx[t].batch.ReplaySet>>
          /\ results' = results
      BY Zenon, <2>2, <3>1 DEF CommitReturn
    <3>3. tx[t].batch.ReplaySet = results[tx[t].batch.ID]
      BY Zenon, <3>2 DEF Inv, CommittedAreRemembered
    <3> QED
      BY <3>2, <3>3
  <2> QED
    BY <2>1, <2>2
<1>3. ToldAreRemembered => CommitIsIdempotent
  BY DEF ToldAreRemembered, CommitIsIdempotent
<1> QED
  BY <1>1, <1>2, <1>3, InvariantHolds, PTL DEF Spec

\* What Commit hands out at a position is the packet the caller gave for it, and
\* its MAC was right.
THEOREM OwnPackets == Spec => []PositionsGetTheirPacket
<1>1. Init => PositionsGetTheirPacket
  BY DEF Init, PositionsGetTheirPacket
<1>2. Inv /\ PositionsGetTheirPacket /\ [Next]_vars => PositionsGetTheirPacket'
  <2> SUFFICES ASSUME Inv, PositionsGetTheirPacket, [Next]_vars
               PROVE  PositionsGetTheirPacket'
    OBVIOUS
  <2>1. content' = content
    BY ZenonT(60) DEF Next, vars, RouterStart, RouterStop, Crash, Expire,
       ProcessOnionPacket, ProcessReturn, BeginTxn, TxProcessOnionPacket,
       TxCommit, CommitReturn
  <2>2. CASE acted' = acted
    BY <2>1, <2>2 DEF PositionsGetTheirPacket
  <2>3. ASSUME NEW x \in Htlc, ProcessReturn(x)
        PROVE  PositionsGetTheirPacket'
    <3>1. \A h \in HashPrefix, id \in BatchId, s \in SeqNum :
            <<h, <<id, s>>>> \in acted' => <<h, <<id, s>>>> \in acted
      BY <2>3, HtlcAssumption DEF ProcessReturn
    <3> QED
      BY <2>1, <3>1 DEF PositionsGetTheirPacket
  <2>4. ASSUME NEW t \in Tx, CommitReturn(t)
        PROVE  PositionsGetTheirPacket'
    <3>1. HoldsContent(tx[t])
      BY <2>4, Zenon DEF Inv, TxInv, CommitReturn
    <3>2. ASSUME NEW h \in HashPrefix, NEW id \in BatchId, NEW s \in SeqNum,
                 <<h, <<id, s>>>> \in acted', <<h, <<id, s>>>> \notin acted
          PROVE  /\ s \in Usable(tx[t])
                 /\ h = HashOf[tx[t].packets[s]]
                 /\ id = tx[t].batch.ID
      BY ZenonT(60), <2>4, <3>2 DEF CommitReturn
    <3> QED
      BY <2>1, <3>1, <3>2, SMTT(30)
      DEF PositionsGetTheirPacket, HoldsContent, Usable, Processes
  <2>5. \/ acted' = acted
        \/ \E x \in Htlc : ProcessReturn(x)
        \/ \E t \in Tx : CommitReturn(t)
    BY Zenon DEF Next, vars, RouterStart, RouterStop, Crash, Expire,
       ProcessOnionPacket, BeginTxn, TxProcessOnionPacket, TxCommit
  <2> QED
    BY <2>2, <2>3, <2>4, <2>5
<1> QED
  BY <1>1, <1>2, InvariantHolds, PTL DEF Spec
=============================================================================
