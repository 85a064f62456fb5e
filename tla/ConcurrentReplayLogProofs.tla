---------------------- MODULE ConcurrentReplayLogProofs ----------------------
(***************************************************************************)
(* Proofs about ConcurrentReplayLog, for any number of callers, prefixes   *)
(* and batches: what the races of its callers cannot spoil.                *)
(***************************************************************************)
EXTENDS ConcurrentReplayLog, TLAPS

-----------------------------------------------------------------------------
(***************************************************************************)
(* The inductive invariant.                                                *)
(***************************************************************************)

Places == {"idle", "dead", "make batches", "make entries", "check",
           "drop batches", "drop entries", "get", "delete", "lookup", "insert",
           "lookup batch", "next", "store"}

Locals == [op : Ops, h : HashPrefix \cup {Nil}, cltv : Cltv \cup {Nil},
           id : BatchId \cup {Nil}, seq : SeqNum \cup {Nil},
           todo : SUBSET SeqNum, replays : SUBSET SeqNum, err : Errors]

\* The arguments of a call are there.
HasArguments(v) ==
  /\ v.op \in {"Get", "Delete", "Put"} => v.h \in HashPrefix
  /\ v.op = "Put" => v.cltv \in Cltv
  /\ v.op = "PutBatch" => v.id \in BatchId

\* A PutBatch walks over entries of its batch.
WalksItsBatch(v) ==
  v.op = "PutBatch" => v.todo \subseteq ForEachDomain(BatchOf[v.id])

\* A Put inside of PutBatch is about the entry that ForEach has come to.
AtItsEntry(v) ==
  v.op = "PutBatch" =>
    /\ v.seq \in ForEachDomain(BatchOf[v.id])
    /\ v.h = BatchOf[v.id].entries[v.seq].hashPrefix
    /\ v.cltv = BatchOf[v.id].entries[v.seq].cltv

\* The locals a method has at place l.
FitsPlace(l, v) ==
  /\ l = "check" => v.op \in {"Stop", "Get", "Delete", "Put", "PutBatch"}
  /\ l = "get" => v.op = "Get"
  /\ l = "delete" => v.op = "Delete"
  /\ l \in {"lookup", "insert"} => v.op \in {"Put", "PutBatch"} /\ AtItsEntry(v)
  /\ l \in {"lookup batch", "next", "store"} => v.op = "PutBatch"

\* The replays a set rs adds to those of batch id itself were inserted.
ReplaysWereInserted(id, rs) ==
  \A s \in rs \ BatchOf[id].ReplaySet :
    BatchOf[id].entries[s].hashPrefix \in inserted

\* What a call has found out so far is true.
FindingsAreTrue(v) ==
  /\ v.op = "Put" /\ v.err = "ErrReplayedPacket" => v.h \in inserted
  /\ v.op = "PutBatch" => ReplaysWereInserted(v.id, v.replays)

CallerOK(l, v) ==
  /\ l \in Places
  /\ v \in Locals
  /\ HasArguments(v)
  /\ WalksItsBatch(v)
  /\ FitsPlace(l, v)
  /\ FindingsAreTrue(v)

CallersOK ==
  /\ pc \in [Caller -> Places]
  /\ loc \in [Caller -> Locals]
  /\ \A c \in Caller : CallerOK(pc[c], loc[c])

\* Whatever the log holds was inserted, and so were the replays it remembers.
LogOK ==
  /\ entries \in [HashPrefix -> Cltv \cup {Nil}] \cup {Nil}
  /\ batches \in [BatchId -> (SUBSET SeqNum) \cup {Nil}] \cup {Nil}
  /\ entries # Nil =>
       \A h \in HashPrefix : entries[h] # Nil => h \in inserted
  /\ batches # Nil =>
       \A id \in BatchId :
         batches[id] # Nil => ReplaysWereInserted(id, batches[id])

Inv == CallersOK /\ LogOK

-----------------------------------------------------------------------------
(***************************************************************************)
(* Lemmas about the operators of the model.                                *)
(***************************************************************************)

\* The entries of a batch have a prefix and an expiry.
LEMMA EntryTypes ==
  ASSUME NEW id \in BatchId, NEW s \in ForEachDomain(BatchOf[id])
  PROVE  /\ s \in SeqNum
         /\ BatchOf[id].entries[s].hashPrefix \in HashPrefix
         /\ BatchOf[id].entries[s].cltv \in Cltv
<1>1. BatchOf[id].entries \in Entries
  BY CallerAssumption
<1> QED
  BY <1>1 DEF ForEachDomain, Entries, BatchEntry

\* A caller that goes on with fitting locals leaves the others as they are,
\* because inserted only grows.
LEMMA GotoInv ==
  ASSUME CallersOK, NEW c \in Caller, NEW l, NEW v, Goto(c, l, v),
         CallerOK(l, v)', inserted \subseteq inserted'
  PROVE  CallersOK'
<1>1. /\ pc' \in [Caller -> Places]
      /\ loc' \in [Caller -> Locals]
  BY DEF CallersOK, Goto, CallerOK
<1>2. ASSUME NEW d \in Caller, d # c PROVE CallerOK(pc[d], loc[d])'
  <2>1. pc'[d] = pc[d] /\ loc'[d] = loc[d]
    BY <1>2 DEF CallersOK, Goto
  <2>2. CallerOK(pc[d], loc[d])
    BY ZenonT(60) DEF CallersOK
  <2>3. FindingsAreTrue(loc[d])'
    BY <2>1, <2>2 DEF CallerOK, FindingsAreTrue, ReplaysWereInserted
  <2> QED
    BY <2>1, <2>2, <2>3 DEF CallerOK
<1>3. pc'[c] = l /\ loc'[c] = v
  BY DEF CallersOK, Goto
<1> QED
  BY <1>1, <1>2, <1>3 DEF CallersOK

\* What was inserted stays so.
LEMMA InsertedGrows ==
  ASSUME NEW id, NEW rs, ReplaysWereInserted(id, rs), inserted \subseteq inserted'
  PROVE  ReplaysWereInserted(id, rs)'
BY DEF ReplaysWereInserted

\* A log that is not written to stays as it was, because inserted only grows.
LEMMA LogUnchanged ==
  ASSUME LogOK, UNCHANGED <<entries, batches>>, inserted \subseteq inserted'
  PROVE  LogOK'
BY DEF LogOK, ReplaysWereInserted

\* Callers that do not move stay as they were.
LEMMA CallersUnchanged ==
  ASSUME CallersOK, UNCHANGED <<pc, loc, inserted>>
  PROVE  CallersOK'
<1>1. ASSUME NEW c \in Caller PROVE FindingsAreTrue(loc[c])'
  BY DEF CallersOK, CallerOK, FindingsAreTrue, ReplaysWereInserted
<1> QED
  BY Zenon, <1>1 DEF CallersOK, CallerOK

\* A return with an error e other than ErrReplayedPacket reveals nothing.
LEMMA ReturnInv ==
  ASSUME CallersOK, NEW c \in Caller, NEW e \in Errors \ {"ErrReplayedPacket"},
         Return(c, e), inserted \subseteq inserted'
  PROVE  CallersOK'
<1> PICK v : v = [loc[c] EXCEPT !.err = e]
  BY Zenon
<1>1. CallerOK(pc[c], loc[c]) /\ loc[c] \in Locals
  BY DEF CallersOK
<1>2. /\ v \in Locals
      /\ v.op = loc[c].op /\ v.h = loc[c].h /\ v.cltv = loc[c].cltv
      /\ v.id = loc[c].id /\ v.todo = loc[c].todo /\ v.replays = loc[c].replays
      /\ v.err = e
  BY <1>1 DEF Locals
<1>3. CallerOK("idle", v)'
  <2>1. HasArguments(v) /\ WalksItsBatch(v)
    BY ZenonT(60), <1>1, <1>2 DEF CallerOK, HasArguments, WalksItsBatch
  <2>2. FindingsAreTrue(v)'
    BY <1>1, <1>2 DEF CallerOK, FindingsAreTrue, ReplaysWereInserted
  <2>3. FitsPlace("idle", v)
    BY DEF FitsPlace
  <2> QED
    BY <1>2, <2>1, <2>2, <2>3 DEF CallerOK, Places
<1> QED
  BY <1>3, GotoInv DEF Return

\* When the process ends, nobody learns anything.
LEMMA DieInv == Inv /\ Die => Inv'
<1> SUFFICES ASSUME Inv, Die PROVE Inv'
  OBVIOUS
<1>1. ASSUME NEW c \in Caller PROVE CallerOK("dead", loc[c])'
  <2>1. CallerOK(pc[c], loc[c])
    BY ZenonT(60) DEF Inv, CallersOK
  <2>2. FindingsAreTrue(loc[c])'
    BY <2>1 DEF CallerOK, FindingsAreTrue, ReplaysWereInserted, Die
  <2> QED
    BY <2>1, <2>2, Zenon DEF CallerOK, FitsPlace, Places, Die
<1>2. /\ pc' \in [Caller -> Places]
      /\ loc' \in [Caller -> Locals]
      /\ \A c \in Caller : pc'[c] = "dead"
  BY Zenon DEF Inv, CallersOK, Die, Places
<1>3. CallersOK'
  BY <1>1, <1>2 DEF CallersOK
<1>4. LogOK'
  BY LogUnchanged DEF Inv, Die
<1> QED
  BY <1>3, <1>4 DEF Inv

-----------------------------------------------------------------------------
(***************************************************************************)
(* The invariant holds initially, and every action preserves it.           *)
(***************************************************************************)

\* The locals of a thread that is in no method of the log.
LEMMA NoCallOK ==
  /\ NoCall \in Locals
  /\ NoCall.op = "none" /\ NoCall.err = "ok"
  /\ NoCall.todo = {} /\ NoCall.replays = {}
BY DEF NoCall, Locals, Ops, Errors

\* Nobody has been told anything in the initial states.
LEMMA InitInv == Init => Inv
<1> SUFFICES ASSUME Init PROVE Inv
  OBVIOUS
<1>1. CallerOK("idle", NoCall)
  BY NoCallOK
  DEF CallerOK, Places, HasArguments, WalksItsBatch, FitsPlace, FindingsAreTrue
<1>2. CallersOK
  BY <1>1, NoCallOK DEF Init, CallersOK, Places
<1>3. LogOK
  BY DEF Init, LogOK
<1> QED
  BY <1>2, <1>3 DEF Inv

\* A call begins with its arguments and without findings.
LEMMA CallInv ==
  ASSUME Inv, NEW c \in Caller, NEW v \in Calls, Call(c, v)
  PROVE  Inv'
<1>1. /\ v \in Locals
      /\ v.op \in {"Start", "Stop", "Get", "Delete", "Put", "PutBatch"}
      /\ HasArguments(v)
      /\ v.todo = {} /\ v.replays = {} /\ v.err = "ok"
  <2>1. PICK o \in Ops, h \in HashPrefix \cup {Nil}, t \in Cltv \cup {Nil},
             id \in BatchId \cup {Nil} :
          /\ v = Calling(o, h, t, id)
          /\ o \in {"Start", "Stop", "Get", "Delete", "Put", "PutBatch"}
          /\ o \in {"Get", "Delete", "Put"} => h \in HashPrefix
          /\ o = "Put" => t \in Cltv
          /\ o = "PutBatch" => id \in BatchId
    BY DEF Calls, Ops
  <2>2. v = [op |-> o, h |-> h, cltv |-> t, id |-> id, seq |-> Nil,
             todo |-> {}, replays |-> {}, err |-> "ok"]
    BY <2>1, Zenon DEF Calling, NoCall
  <2> QED
    BY <2>1, <2>2 DEF Locals, Errors, HasArguments
<1>2. PICK l : l = IF v.op = "Start" THEN "make batches" ELSE "check"
  BY Zenon
<1>3. CallerOK(l, v)'
  BY <1>1, <1>2, Zenon
  DEF CallerOK, Places, WalksItsBatch, FitsPlace, FindingsAreTrue,
      ReplaysWereInserted
<1>4. Goto(c, l, v)
  BY <1>2, Zenon DEF Call
<1> QED
  BY <1>3, <1>4, GotoInv, LogUnchanged, Zenon DEF Inv, Call

\* A caller at place l with locals v goes on with the same locals.
LEMMA SameLocals ==
  ASSUME CallersOK, NEW c \in Caller, NEW l \in Places, Goto(c, l, loc[c]),
         FitsPlace(l, loc[c]), inserted \subseteq inserted'
  PROVE  CallersOK'
<1> PICK v : v = loc[c]
  OBVIOUS
<1>1. CallerOK(pc[c], v)
  BY ZenonT(60) DEF CallersOK
<1>2. FindingsAreTrue(v)'
  BY <1>1 DEF CallerOK, FindingsAreTrue, ReplaysWereInserted
<1>3. CallerOK(l, v)'
  BY <1>1, <1>2 DEF CallerOK
<1> QED
  BY <1>3, GotoInv

\* Start and Stop: new maps are empty, and a nil map holds nothing.
LEMMA StartStopInv ==
  ASSUME Inv, NEW c \in Caller,
         \/ MakeBatches(c) \/ MakeEntries(c)
         \/ DropBatches(c) \/ DropEntries(c)
  PROVE  Inv'
<1>1. CallersOK'
  <2>1. ASSUME MakeBatches(c) PROVE CallersOK'
    BY <2>1, SameLocals, Zenon DEF Inv, MakeBatches, Places, FitsPlace
  <2>2. ASSUME DropBatches(c) PROVE CallersOK'
    BY <2>2, SameLocals, Zenon DEF Inv, DropBatches, Places, FitsPlace
  <2>3. ASSUME MakeEntries(c) \/ DropEntries(c) PROVE CallersOK'
    BY <2>3, ReturnInv, Zenon DEF Inv, MakeEntries, DropEntries, Errors
  <2> QED
    BY <2>1, <2>2, <2>3
<1>2. inserted' = inserted
  BY Zenon DEF MakeBatches, MakeEntries, DropBatches, DropEntries
<1>3. \/ entries' = entries
      \/ entries' = Nil
      \/ entries' = [h \in HashPrefix |-> Nil]
  BY Zenon DEF MakeBatches, MakeEntries, DropBatches, DropEntries
<1>4. \/ batches' = batches
      \/ batches' = Nil
      \/ batches' = [id \in BatchId |-> Nil]
  BY Zenon DEF MakeBatches, MakeEntries, DropBatches, DropEntries
<1>5. LogOK'
  BY <1>2, <1>3, <1>4 DEF Inv, LogOK, ReplaysWereInserted
<1> QED
  BY <1>1, <1>5 DEF Inv

\* The test for nil maps sends every method where it belongs.
LEMMA CheckInv ==
  ASSUME Inv, NEW c \in Caller, Check(c)
  PROVE  Inv'
<1>1. CallerOK("check", loc[c])
  BY DEF Inv, CallersOK, Check
<1>2. CASE entries = Nil \/ batches = Nil
  BY <1>2, ReturnInv, LogUnchanged DEF Inv, Check, Errors
<1>3. CASE ~(entries = Nil \/ batches = Nil)
  <2> PICK l : l = AfterCheck(loc[c].op)
    OBVIOUS
  <2>1. /\ loc[c].op = "Stop" => l = "drop batches"
        /\ loc[c].op = "Get" => l = "get"
        /\ loc[c].op = "Put" => l = "lookup"
        /\ loc[c].op = "Delete" => l = "delete"
        /\ loc[c].op = "PutBatch" => l = "lookup batch"
    BY Zenon DEF AfterCheck
  <2>2. loc[c].op \in {"Stop", "Get", "Delete", "Put", "PutBatch"}
    BY <1>1 DEF CallerOK, FitsPlace
  <2>3. l \in Places /\ FitsPlace(l, loc[c])
    BY <2>1, <2>2, Zenon DEF Places, FitsPlace, AtItsEntry
  <2> QED
    BY <1>3, <2>3, SameLocals, LogUnchanged DEF Inv, Check
<1> QED
  BY <1>2, <1>3

\* Get finds out nothing that matters.
LEMMA GetInv ==
  ASSUME Inv, NEW c \in Caller, Get(c)
  PROVE  Inv'
<1>1. PICK e \in {"ok", "ErrLogEntryNotFound"} : Return(c, e)
  BY DEF Get
<1> QED
  BY <1>1, ReturnInv, LogUnchanged DEF Inv, Get, Errors

\* Delete, whether or not its write is lost, only takes prefixes out.
LEMMA DeleteInv ==
  ASSUME Inv, NEW c \in Caller, Delete(c)
  PROVE  Inv'
<1>1. CallersOK'
  BY ReturnInv DEF Inv, Delete, Errors
<1>2. LogOK'
  BY DEF Inv, Delete, LogOK, ReplaysWereInserted
<1> QED
  BY <1>1, <1>2 DEF Inv

\* A prefix that a look-up found was inserted; a look-up that a race makes miss
\* it reports nothing.
LEMMA LookupInv ==
  ASSUME Inv, NEW c \in Caller, Lookup(c)
  PROVE  Inv'
<1>1. CallerOK("lookup", loc[c])
  BY ZenonT(60) DEF Inv, CallersOK, Lookup
<1>2. /\ loc[c] \in Locals
      /\ loc[c].op = "PutBatch" => /\ loc[c].id \in BatchId
                                   /\ loc[c].seq \in ForEachDomain(BatchOf[loc[c].id])
      /\ loc[c].h \in HashPrefix
  BY Zenon, <1>1, EntryTypes
  DEF CallerOK, FitsPlace, AtItsEntry, HasArguments
<1>3. ASSUME Found(loc[c].h) PROVE loc[c].h \in inserted
  BY <1>2, <1>3 DEF Found, Inv, LogOK
<1>4. LogOK' /\ inserted' = inserted
  BY LogUnchanged DEF Inv, Lookup
<1>5. PICK exists \in BOOLEAN :
        /\ exists => Found(loc[c].h)
        /\ \/ ~exists /\ Goto(c, "insert", loc[c])
           \/ /\ exists /\ loc[c].op = "Put"
              /\ Return(c, "ErrReplayedPacket")
           \/ /\ exists /\ loc[c].op = "PutBatch"
              /\ Goto(c, "next", [loc[c] EXCEPT !.replays = Add(@, loc[c].seq)])
  BY Zenon DEF Lookup, Seen, Found
<1>6. CASE Goto(c, "insert", loc[c])
  BY <1>1, <1>4, <1>6, SameLocals, Zenon DEF Inv, CallerOK, FitsPlace, Places
<1>7. CASE /\ exists /\ loc[c].op = "Put"
           /\ Return(c, "ErrReplayedPacket")
  <2> PICK v : v = [loc[c] EXCEPT !.err = "ErrReplayedPacket"]
    BY Zenon
  <2>1. /\ v \in Locals
        /\ v.op = "Put" /\ v.h = loc[c].h /\ v.cltv = loc[c].cltv
    BY <1>2, <1>7 DEF Locals, Errors
  <2>2. FindingsAreTrue(v)'
    BY <1>3, <1>4, <1>5, <1>7, <2>1 DEF FindingsAreTrue
  <2>3. CallerOK("idle", v)'
    BY <1>1, <1>2, <1>7, <2>1, <2>2
    DEF CallerOK, Places, HasArguments, WalksItsBatch, FitsPlace
  <2> QED
    BY <1>4, <1>7, <2>3, GotoInv DEF Inv, Return
<1>8. CASE /\ exists /\ loc[c].op = "PutBatch"
           /\ Goto(c, "next", [loc[c] EXCEPT !.replays = Add(@, loc[c].seq)])
  <2> PICK v : v = [loc[c] EXCEPT !.replays = Add(@, loc[c].seq)]
    BY Zenon
  <2>1. /\ v \in Locals
        /\ v.op = "PutBatch" /\ v.id = loc[c].id /\ v.todo = loc[c].todo
        /\ v.replays = loc[c].replays \cup {loc[c].seq}
    BY ZenonT(60), <1>2, <1>8 DEF Locals, Add, ForEachDomain
  <2>2. loc[c].h = BatchOf[loc[c].id].entries[loc[c].seq].hashPrefix
    BY Zenon, <1>1, <1>8 DEF CallerOK, FitsPlace, AtItsEntry
  <2>3. ReplaysWereInserted(v.id, v.replays)'
    <3>1. ReplaysWereInserted(loc[c].id, loc[c].replays)
      BY <1>1, <1>8 DEF CallerOK, FindingsAreTrue
    <3>2. BatchOf[loc[c].id].entries[loc[c].seq].hashPrefix \in inserted
      BY <1>3, <1>5, <1>8, <2>2, ZenonT(60)
    <3>3. ReplaysWereInserted(v.id, v.replays)
      BY Zenon, <2>1, <3>1, <3>2 DEF ReplaysWereInserted
    <3> QED
      BY <1>4, <3>3, InsertedGrows
  <2>4. CallerOK("next", v)'
    BY <1>1, <1>2, <1>8, <2>1, <2>3
    DEF CallerOK, Places, HasArguments, WalksItsBatch, FitsPlace, FindingsAreTrue
  <2> QED
    BY <1>4, <1>8, <2>4, GotoInv DEF Inv
<1> QED
  BY <1>5, <1>6, <1>7, <1>8

\* Insert records its prefix, also when a race loses the write itself.
LEMMA InsertInv ==
  ASSUME Inv, NEW c \in Caller, Insert(c)
  PROVE  Inv'
<1>1. CallerOK("insert", loc[c])
  BY ZenonT(60) DEF Inv, CallersOK, Insert
<1>2. loc[c].h \in HashPrefix /\ loc[c].cltv \in Cltv
  BY Zenon, <1>1, EntryTypes DEF CallerOK, FitsPlace, AtItsEntry, HasArguments
<1>3. CASE entries = Nil
  BY <1>3, DieInv DEF Insert
<1>4. CASE entries # Nil
  <2>1. /\ inserted' = inserted \cup {loc[c].h}
        /\ batches' = batches
        /\ \/ entries' = [entries EXCEPT ![loc[c].h] = loc[c].cltv]
           \/ entries' = entries
    BY <1>4 DEF Insert
  <2>2. LogOK'
    <3>1. ASSUME NEW id \in BatchId, batches # Nil, batches[id] # Nil
          PROVE  ReplaysWereInserted(id, batches[id])'
      BY <2>1, <3>1, InsertedGrows DEF Inv, LogOK
    <3>2. /\ entries' \in [HashPrefix -> Cltv \cup {Nil}] \cup {Nil}
          /\ entries' # Nil =>
               \A h \in HashPrefix : entries'[h] # Nil => h \in inserted'
      BY <1>2, <1>4, <2>1 DEF Inv, LogOK
    <3> QED
      BY <2>1, <3>1, <3>2 DEF Inv, LogOK
  <2>3. CASE loc[c].op = "Put"
    BY <1>4, <2>1, <2>2, <2>3, ReturnInv DEF Inv, Insert, Errors
  <2>4. CASE loc[c].op # "Put"
    BY <1>1, <1>4, <2>1, <2>2, <2>4, SameLocals, Zenon
    DEF Inv, Insert, CallerOK, FitsPlace, Places
  <2> QED
    BY <2>3, <2>4
<1> QED
  BY <1>3, <1>4

\* PutBatch answers with replays the log remembers, which were inserted, or sets
\* out to walk over its batch.
LEMMA LookupBatchInv ==
  ASSUME Inv, NEW c \in Caller, LookupBatch(c)
  PROVE  Inv'
<1> PICK id : id = loc[c].id
  OBVIOUS
<1>1. CallerOK("lookup batch", loc[c])
  BY Zenon DEF Inv, CallersOK, LookupBatch
<1>2. loc[c] \in Locals /\ loc[c].op = "PutBatch" /\ id \in BatchId
  BY <1>1, Zenon DEF CallerOK, FitsPlace, HasArguments
<1>3. LogOK' /\ inserted' = inserted
  BY LogUnchanged, Zenon DEF Inv, LookupBatch
<1>4. \/ /\ batches # Nil /\ batches[id] # Nil
         /\ Goto(c, "idle", [loc[c] EXCEPT !.replays = batches[id]])
      \/ Goto(c, "next", [loc[c] EXCEPT !.todo = ForEachDomain(BatchOf[id])])
  BY Zenon DEF LookupBatch, Seen
<1>5. CASE /\ batches # Nil /\ batches[id] # Nil
           /\ Goto(c, "idle", [loc[c] EXCEPT !.replays = batches[id]])
  <2> PICK v : v = [loc[c] EXCEPT !.replays = batches[id]]
    BY Zenon
  <2>1. batches[id] \in SUBSET SeqNum /\ ReplaysWereInserted(id, batches[id])
    BY <1>2, <1>5 DEF Inv, LogOK
  <2>2. /\ v \in Locals
        /\ v.op = "PutBatch" /\ v.id = id /\ v.todo = loc[c].todo
        /\ v.replays = batches[id]
    BY ZenonT(60), <1>2, <2>1 DEF Locals
  <2>3. ReplaysWereInserted(v.id, v.replays)'
    BY <1>3, <2>1, <2>2 DEF ReplaysWereInserted
  <2>4. CallerOK("idle", v)'
    BY <1>1, <1>2, <2>2, <2>3
    DEF CallerOK, Places, HasArguments, WalksItsBatch, FitsPlace, FindingsAreTrue
  <2> QED
    BY <1>3, <1>5, <2>4, GotoInv DEF Inv
<1>6. CASE Goto(c, "next", [loc[c] EXCEPT !.todo = ForEachDomain(BatchOf[id])])
  <2> PICK v : v = [loc[c] EXCEPT !.todo = ForEachDomain(BatchOf[id])]
    BY ZenonT(60)
  <2>1. /\ v \in Locals
        /\ v.op = "PutBatch" /\ v.id = id /\ v.replays = loc[c].replays
        /\ v.todo = ForEachDomain(BatchOf[id])
    BY Zenon, <1>2 DEF Locals, ForEachDomain
  <2>2. ReplaysWereInserted(v.id, v.replays)'
    <3>1. ReplaysWereInserted(v.id, v.replays)
      BY <1>1, <1>2, <2>1, Zenon DEF CallerOK, FindingsAreTrue
    <3> QED
      BY <1>3, <3>1, InsertedGrows
  <2>3. CallerOK("next", v)'
    BY <1>1, <1>2, <2>1, <2>2
    DEF CallerOK, Places, HasArguments, WalksItsBatch, FitsPlace, FindingsAreTrue
  <2> QED
    BY <1>3, <1>6, <2>3, GotoInv DEF Inv
<1> QED
  BY <1>4, <1>5, <1>6

\* ForEach comes to one of the entries of its batch.
LEMMA NextEntryInv ==
  ASSUME Inv, NEW c \in Caller, NEW s \in SeqNum, NextEntry(c, s)
  PROVE  Inv'
<1> PICK id : id = loc[c].id
  BY Zenon
<1> DEFINE e == BatchOf[id].entries[s]
<1>1. CallerOK("next", loc[c]) /\ s \in loc[c].todo
  BY DEF Inv, CallersOK, NextEntry
<1>2. loc[c] \in Locals /\ loc[c].op = "PutBatch" /\ id \in BatchId
  BY <1>1 DEF CallerOK, FitsPlace, HasArguments
<1>3. s \in ForEachDomain(BatchOf[id])
  BY ZenonT(60), <1>1, <1>2 DEF CallerOK, WalksItsBatch
<1>4. LogOK' /\ inserted' = inserted
  BY ZenonT(60), LogUnchanged DEF Inv, NextEntry
<1>5. e.hashPrefix \in HashPrefix /\ e.cltv \in Cltv
  BY <1>2, <1>3, EntryTypes
<1>6. PICK v : v = [loc[c] EXCEPT !.todo = @ \ {s}, !.seq = s,
                                  !.h = e.hashPrefix, !.cltv = e.cltv]
  BY SMTT(30)
<1>7. PICK w : /\ w = v \/ w = [v EXCEPT !.err = "errReplayLogNotStarted"]
               /\ Goto(c, "idle", w) \/ Goto(c, "lookup", w)
  BY <1>6, ZenonT(60) DEF NextEntry
<1>8. /\ w \in Locals
      /\ w.op = "PutBatch" /\ w.id = id /\ w.replays = loc[c].replays
      /\ w.todo = loc[c].todo \ {s} /\ w.seq = s
      /\ w.h = e.hashPrefix /\ w.cltv = e.cltv
  <2>1. /\ v \in Locals
        /\ v.op = "PutBatch" /\ v.id = id /\ v.replays = loc[c].replays
        /\ v.todo = loc[c].todo \ {s} /\ v.seq = s
        /\ v.h = e.hashPrefix /\ v.cltv = e.cltv
    BY <1>2, <1>5, <1>6, ZenonT(60) DEF Locals
  <2> QED
    BY Zenon, <1>7, <2>1 DEF Locals, Errors
<1>9. ReplaysWereInserted(w.id, w.replays)'
  <2>1. ReplaysWereInserted(w.id, w.replays)
    BY Zenon, <1>1, <1>2, <1>8 DEF CallerOK, FindingsAreTrue
  <2> QED
    BY <1>4, <2>1, InsertedGrows
<1>10. w.todo \subseteq ForEachDomain(BatchOf[id])
  BY Zenon, <1>1, <1>2, <1>8 DEF CallerOK, WalksItsBatch
<1>11. CallerOK("idle", w)' /\ CallerOK("lookup", w)'
  BY Zenon, <1>2, <1>3, <1>8, <1>9, <1>10
  DEF CallerOK, Places, HasArguments, WalksItsBatch, FitsPlace, FindingsAreTrue,
      AtItsEntry
<1> QED
  BY <1>4, <1>7, <1>11, GotoInv DEF Inv

\* The replays of the batch itself are merged into what is stored.
LEMMA EndForEachInv ==
  ASSUME Inv, NEW c \in Caller, EndForEach(c)
  PROVE  Inv'
<1> PICK id : id = loc[c].id
  OBVIOUS
<1>1. CallerOK("next", loc[c])
  BY DEF Inv, CallersOK, EndForEach
<1>2. loc[c] \in Locals /\ loc[c].op = "PutBatch" /\ id \in BatchId
  BY <1>1 DEF CallerOK, FitsPlace, HasArguments
<1>3. LogOK' /\ inserted' = inserted
  BY LogUnchanged DEF Inv, EndForEach
<1>4. PICK v : v = [loc[c] EXCEPT !.replays = Merge(@, BatchOf[id].ReplaySet)]
  BY Zenon
<1>5. BatchOf[id].ReplaySet \in SUBSET SeqNum
  BY Zenon, <1>2, CallerAssumption
<1>6. /\ v \in Locals
      /\ v.op = "PutBatch" /\ v.id = id /\ v.todo = loc[c].todo
      /\ v.replays = loc[c].replays \cup BatchOf[id].ReplaySet
  BY <1>2, <1>4, <1>5 DEF Locals, Merge
<1>7. ReplaysWereInserted(v.id, v.replays)'
  <2>1. ReplaysWereInserted(v.id, loc[c].replays)
    BY Zenon, <1>1, <1>2, <1>6 DEF CallerOK, FindingsAreTrue
  <2>2. ReplaysWereInserted(v.id, v.replays)
    BY ZenonT(60), <1>6, <2>1 DEF ReplaysWereInserted
  <2> QED
    BY <1>3, <2>2, InsertedGrows
<1>8. CallerOK("store", v)'
  BY <1>1, <1>2, <1>6, <1>7
  DEF CallerOK, Places, HasArguments, WalksItsBatch, FitsPlace, FindingsAreTrue
<1> QED
  BY <1>3, <1>4, <1>8, GotoInv DEF Inv, EndForEach

\* What the log comes to remember of a batch is what its PutBatch found out.
LEMMA StoreInv ==
  ASSUME Inv, NEW c \in Caller, Store(c)
  PROVE  Inv'
<1>1. CallerOK("store", loc[c])
  BY Zenon DEF Inv, CallersOK, Store
<1>2. /\ loc[c].id \in BatchId
      /\ loc[c].replays \in SUBSET SeqNum
      /\ ReplaysWereInserted(loc[c].id, loc[c].replays)
  BY <1>1 DEF CallerOK, FitsPlace, HasArguments, FindingsAreTrue, Locals
<1>3. CASE batches = Nil
  BY <1>3, DieInv DEF Store
<1>4. CASE batches # Nil
  <2>1. /\ entries' = entries /\ inserted' = inserted
        /\ \/ batches' = [batches EXCEPT ![loc[c].id] = loc[c].replays]
           \/ batches' = batches
    BY <1>4 DEF Store
  <2>2. CallersOK'
    BY ZenonT(60), <1>4, <2>1, ReturnInv DEF Inv, Store, Errors
  <2>3. LogOK'
    BY <1>2, <1>4, <2>1 DEF Inv, LogOK, ReplaysWereInserted
  <2> QED
    BY <2>2, <2>3 DEF Inv
<1> QED
  BY <1>3, <1>4

\* Every step preserves the invariant.
LEMMA NextInv == Inv /\ [Next]_vars => Inv'
<1> SUFFICES ASSUME Inv, [Next]_vars PROVE Inv'
  OBVIOUS
<1>1. ASSUME NEW c \in Caller, Step(c) PROVE Inv'
  <2>1. CASE \/ MakeBatches(c) \/ MakeEntries(c)
             \/ DropBatches(c) \/ DropEntries(c)
    BY <2>1, StartStopInv
  <2>2. CASE Check(c)
    BY <2>2, CheckInv
  <2>3. CASE Get(c)
    BY <2>3, GetInv
  <2>4. CASE Delete(c)
    BY <2>4, DeleteInv
  <2>5. CASE Lookup(c)
    BY <2>5, LookupInv
  <2>6. CASE Insert(c)
    BY <2>6, InsertInv
  <2>7. CASE LookupBatch(c)
    BY <2>7, LookupBatchInv
  <2>8. CASE EndForEach(c)
    BY <2>8, EndForEachInv
  <2>9. CASE Store(c)
    BY <2>9, StoreInv
  <2>10. CASE \E s \in SeqNum : NextEntry(c, s)
    BY <2>10, NextEntryInv
  <2>11. CASE Abort(c)
    BY <2>11, DieInv DEF Abort
  <2> QED
    BY <1>1, <2>1, <2>2, <2>3, <2>4, <2>5, <2>6, <2>7, <2>8, <2>9, <2>10, <2>11
    DEF Step
<1>2. ASSUME NEW c \in Caller, NEW v \in Calls, Call(c, v) PROVE Inv'
  BY <1>2, CallInv
<1>3. CASE UNCHANGED vars
  BY <1>3, CallersUnchanged, LogUnchanged DEF Inv, vars
<1> QED
  BY <1>1, <1>2, <1>3 DEF Next

-----------------------------------------------------------------------------
(***************************************************************************)
(* The theorems.                                                           *)
(***************************************************************************)

\* The invariant holds in every reachable state.
THEOREM InvariantHolds == Spec => []Inv
BY InitInv, NextInv, PTL DEF Spec

\* Callers are where a method may be, with the locals it has there, whatever
\* races they run into.
THEOREM TypeCorrect == Spec => []TypeOK
<1>1. Inv => TypeOK
  <2> SUFFICES ASSUME Inv PROVE TypeOK
    BY Zenon
  <2>1. ASSUME NEW c \in Caller
        PROVE  /\ loc[c].todo \subseteq SeqNum
               /\ loc[c].replays \subseteq SeqNum
               /\ loc[c].err \in Errors
               /\ pc[c] \in {"lookup", "insert"} => loc[c].h \in HashPrefix
    <3>1. CallerOK(pc[c], loc[c])
      BY DEF Inv, CallersOK
    <3>2. pc[c] \in {"lookup", "insert"} => loc[c].h \in HashPrefix
      BY <3>1, EntryTypes, ZenonT(60) DEF CallerOK, FitsPlace, AtItsEntry, HasArguments
    <3> QED
      BY <3>1, <3>2 DEF CallerOK, Locals
  <2> QED
    BY <2>1 DEF Inv, LogOK, TypeOK
<1> QED
  BY <1>1, InvariantHolds, PTL

\* However many callers race, a prefix is reported as a replay only if it was
\* inserted before: no race makes the log refuse a packet that is new.
THEOREM NoFalseReplays == Spec => []RefusalsAreTrue
<1>1. Inv => RefusalsAreTrue
  BY DEF Inv, CallersOK, CallerOK, FindingsAreTrue, ReplaysWereInserted,
         RefusalsAreTrue
<1> QED
  BY <1>1, InvariantHolds, PTL
=============================================================================
