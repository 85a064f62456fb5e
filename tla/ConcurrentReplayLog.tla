------------------------- MODULE ConcurrentReplayLog -------------------------
(***************************************************************************)
(* MemoryReplayLog (replaylog.go) with several callers at once, one step   *)
(* per access to its two maps.  It has no lock, so the steps of its        *)
(* callers interleave; and where two of them are about to access the same  *)
(* map, one of them to write, Go leaves the outcome open: the runtime may  *)
(* abort the process, a look-up may miss what is there, one of two writes  *)
(* may be lost, or all may go well.                                        *)
(*                                                                         *)
(* A batch is what Batch.Put made of it: its entries, and the positions it *)
(* found to be duplicates.                                                 *)
(***************************************************************************)
EXTENDS Batch, FiniteSets

CONSTANTS
  Caller,       \* goroutines
  BatchOf       \* identifier -> the batch that callers commit under it

ASSUME CallerAssumption ==
  /\ Nil \notin Caller
  /\ \A id \in BatchId :
       /\ BatchOf[id] \in [entries : Entries, ReplaySet : SUBSET SeqNum]
       /\ DistinctPrefixes(BatchOf[id].entries)

VARIABLES
  entries,      \* rl.entries: hash prefix -> cltv, or a nil map
  batches,      \* rl.batches: batch ID -> replay set, or a nil map
  pc,           \* caller -> the access it is about to make, or "dead"
  loc,          \* caller -> the locals of its call
  won,          \* history: <<h, o>> when caller or batch o was told h is new
  inserted      \* history: prefixes whose insertion was done

vars == <<entries, batches, pc, loc, won, inserted>>

NoCall == [op |-> "none", h |-> Nil, cltv |-> Nil, id |-> Nil, seq |-> Nil,
           todo |-> {}, replays |-> {}, err |-> "ok"]

Init ==
  /\ entries = Nil
  /\ batches = Nil
  /\ pc = [c \in Caller |-> "idle"]
  /\ loc = [c \in Caller |-> NoCall]
  /\ won = {}
  /\ inserted = {}

\* Caller c goes on to access l, with locals v.
Goto(c, l, v) ==
  /\ pc' = [pc EXCEPT ![c] = l]
  /\ loc' = [loc EXCEPT ![c] = v]

\* The call of c is over, with error e.
Return(c, e) == Goto(c, "idle", [loc[c] EXCEPT !.err = e])

\* A call to op with its arguments.
Calling(op, h, t, id) ==
  [NoCall EXCEPT !.op = op, !.h = h, !.cltv = t, !.id = id]

\* What a caller may call.
Calls ==
  {Calling(o, Nil, Nil, Nil) : o \in {"Start", "Stop"}}
    \cup {Calling(o, h, Nil, Nil) : o \in {"Get", "Delete"}, h \in HashPrefix}
    \cup {Calling("Put", h, t, Nil) : h \in HashPrefix, t \in Cltv}
    \cup {Calling("PutBatch", Nil, Nil, id) : id \in BatchId}

\* Start goes to its first assignment, the others to the test for nil maps.
Call(c, v) ==
  /\ pc[c] = "idle"
  /\ Goto(c, IF v.op = "Start" THEN "make batches" ELSE "check", v)
  /\ UNCHANGED <<entries, batches, won, inserted>>

\* The accesses that read and write each of the maps.
Reads(m)  == IF m = "entries" THEN {"lookup", "get"} ELSE {"lookup batch"}
Writes(m) == IF m = "entries" THEN {"insert", "delete"} ELSE {"store"}

\* c and another caller are about to access map m, one of them to write.
Races(c, m) ==
  \E d \in Caller \ {c} :
    \/ pc[c] \in Writes(m) /\ pc[d] \in Reads(m) \cup Writes(m)
    \/ pc[c] \in Reads(m) /\ pc[d] \in Writes(m)

\* c and another caller are both about to write map m.
WritesRace(c, m) ==
  pc[c] \in Writes(m) /\ \E d \in Caller \ {c} : pc[d] \in Writes(m)

\* The process ends, and all callers with it.
Die ==
  /\ pc' = [c \in Caller |-> "dead"]
  /\ UNCHANGED <<entries, batches, loc, won, inserted>>

\* "fatal error: concurrent map writes", or "concurrent map read and map write".
Abort(c) == (Races(c, "entries") \/ Races(c, "batches")) /\ Die

-----------------------------------------------------------------------------
MakeBatches(c) ==
  /\ pc[c] = "make batches"
  /\ batches' = [id \in BatchId |-> Nil]
  /\ Goto(c, "make entries", loc[c])
  /\ UNCHANGED <<entries, won, inserted>>

MakeEntries(c) ==
  /\ pc[c] = "make entries"
  /\ entries' = [h \in HashPrefix |-> Nil]
  /\ won' = {}
  /\ Return(c, "ok")
  /\ UNCHANGED <<batches, inserted>>

\* Fault: PutBatch goes straight to Put.
BatchLikePut(op) ==
  CASE op = "Stop"              -> "drop batches"
    [] op = "Get"               -> "get"
    [] op = "Delete"            -> "delete"
    [] op \in {"Put", "PutBatch"} -> "lookup"

\* Where each method goes once the maps were found to be there.
AfterCheck(op) ==
  CASE op = "Stop"     -> "drop batches"
    [] op = "Get"      -> "get"
    [] op = "Put"      -> "lookup"
    [] op = "Delete"   -> "delete"
    [] op = "PutBatch" -> "lookup batch"

Check(c) ==
  /\ pc[c] = "check"
  /\ IF entries = Nil \/ batches = Nil
     THEN Return(c, "errReplayLogNotStarted")
     ELSE Goto(c, AfterCheck(loc[c].op), loc[c])
  /\ UNCHANGED <<entries, batches, won, inserted>>

DropBatches(c) ==
  /\ pc[c] = "drop batches"
  /\ batches' = Nil
  /\ Goto(c, "drop entries", loc[c])
  /\ UNCHANGED <<entries, won, inserted>>

DropEntries(c) ==
  /\ pc[c] = "drop entries"
  /\ entries' = Nil
  /\ won' = {}
  /\ Return(c, "ok")
  /\ UNCHANGED <<batches, inserted>>

\* What a look-up in map m that should yield v may yield.
Seen(c, m, v) == {v} \cup (IF Races(c, m) THEN {FALSE} ELSE {})

\* Fault: any entry is taken for the one looked up.
FoundAny(h) == entries # Nil /\ \E x \in HashPrefix : entries[x] # Nil

\* A look-up in a nil map finds nothing.
Found(h) == entries # Nil /\ entries[h] # Nil

Get(c) ==
  /\ pc[c] = "get"
  /\ \E found \in Seen(c, "entries", Found(loc[c].h)) :
       Return(c, IF found THEN "ok" ELSE "ErrLogEntryNotFound")
  /\ UNCHANGED <<entries, batches, won, inserted>>

\* A deletion from a nil map does nothing.
Delete(c) ==
  /\ pc[c] = "delete"
  /\ \/ entries' = IF entries = Nil THEN Nil
                   ELSE [entries EXCEPT ![loc[c].h] = Nil]
     \/ WritesRace(c, "entries") /\ UNCHANGED entries
  /\ won' = {w \in won : w[1] # loc[c].h}
  /\ Return(c, "ok")
  /\ UNCHANGED <<batches, inserted>>

\* The look-up of Put: ErrReplayedPacket ends Put, and makes PutBatch add the
\* position to its replays.
Lookup(c) ==
  /\ pc[c] = "lookup"
  /\ \E exists \in Seen(c, "entries", Found(loc[c].h)) :
       \/ /\ ~exists
          /\ Goto(c, "insert", loc[c])
       \/ /\ exists /\ loc[c].op = "Put"
          /\ Return(c, "ErrReplayedPacket")
       \/ /\ exists /\ loc[c].op = "PutBatch"
          /\ Goto(c, "next", [loc[c] EXCEPT !.replays = Add(@, loc[c].seq)])
  /\ UNCHANGED <<entries, batches, won, inserted>>

\* The insertion of Put, which panics on a nil map.
Insert(c) ==
  /\ pc[c] = "insert"
  /\ \/ /\ entries = Nil
        /\ Die
     \/ /\ entries # Nil
        /\ \/ entries' = [entries EXCEPT ![loc[c].h] = loc[c].cltv]
           \/ WritesRace(c, "entries") /\ UNCHANGED entries
        /\ inserted' = inserted \cup {loc[c].h}
        /\ IF loc[c].op = "Put"
           THEN Return(c, "ok") /\ won' = won \cup {<<loc[c].h, c>>}
           ELSE Goto(c, "next", loc[c]) /\ UNCHANGED won
        /\ UNCHANGED batches

\* PutBatch looks its identifier up, and answers from memory or enters ForEach.
LookupBatch(c) ==
  /\ pc[c] = "lookup batch"
  /\ LET id == loc[c].id
     IN  \E exists \in Seen(c, "batches", batches # Nil /\ batches[id] # Nil) :
           \/ /\ exists
              /\ Goto(c, "idle", [loc[c] EXCEPT !.replays = batches[id]])
           \/ /\ ~exists
              /\ Goto(c, "next",
                      [loc[c] EXCEPT !.todo = ForEachDomain(BatchOf[id])])
  /\ UNCHANGED <<entries, batches, won, inserted>>

\* ForEach comes to an entry and calls Put, which begins with its own test; an
\* error other than ErrReplayedPacket ends PutBatch.
NextEntry(c, s) ==
  /\ pc[c] = "next"
  /\ s \in loc[c].todo
  /\ LET e == BatchOf[loc[c].id].entries[s]
         v == [loc[c] EXCEPT !.todo = @ \ {s}, !.seq = s,
                             !.h = e.hashPrefix, !.cltv = e.cltv]
     IN  IF entries = Nil \/ batches = Nil
         THEN Goto(c, "idle", [v EXCEPT !.err = "errReplayLogNotStarted"])
         ELSE Goto(c, "lookup", v)
  /\ UNCHANGED <<entries, batches, won, inserted>>

\* ForEach is over, and the replays of the batch itself are merged in.
EndForEach(c) ==
  /\ pc[c] = "next"
  /\ loc[c].todo = {}
  /\ Goto(c, "store", [loc[c] EXCEPT !.replays =
                         Merge(@, BatchOf[loc[c].id].ReplaySet)])
  /\ UNCHANGED <<entries, batches, won, inserted>>

\* The positions of batch id that are not in rs are told that they are new.
Told(id, rs) ==
  {<<BatchOf[id].entries[s].hashPrefix, id>> : s \in ForEachDomain(BatchOf[id]) \ rs}

\* The answer is stored, which panics on a nil map, and PutBatch returns.
Store(c) ==
  /\ pc[c] = "store"
  /\ \/ /\ batches = Nil
        /\ Die
     \/ /\ batches # Nil
        /\ \/ batches' = [batches EXCEPT ![loc[c].id] = loc[c].replays]
           \/ WritesRace(c, "batches") /\ UNCHANGED batches
        /\ won' = won \cup Told(loc[c].id, loc[c].replays)
        /\ Return(c, "ok")
        /\ UNCHANGED <<entries, inserted>>

Step(c) ==
  \/ MakeBatches(c) \/ MakeEntries(c)
  \/ Check(c)
  \/ DropBatches(c) \/ DropEntries(c)
  \/ Get(c) \/ Delete(c)
  \/ Lookup(c) \/ Insert(c)
  \/ LookupBatch(c) \/ EndForEach(c) \/ Store(c)
  \/ \E s \in SeqNum : NextEntry(c, s)
  \/ Abort(c)

Next == \E c \in Caller : Step(c) \/ \E v \in Calls : Call(c, v)

Spec == Init /\ [][Next]_vars

-----------------------------------------------------------------------------
\* Callers are where a method may be, with the locals it has there.
TypeOK ==
  /\ entries \in [HashPrefix -> Cltv \cup {Nil}] \cup {Nil}
  /\ batches \in [BatchId -> (SUBSET SeqNum) \cup {Nil}] \cup {Nil}
  /\ \A c \in Caller :
       /\ loc[c].todo \subseteq SeqNum
       /\ loc[c].replays \subseteq SeqNum
       /\ loc[c].err \in Errors
       /\ pc[c] \in {"lookup", "insert"} => loc[c].h \in HashPrefix

\* "All methods must be safe for concurrent access" (ReplayLog, replaylog.go):
\* no two callers or batches are told that one prefix is new, as long as the log
\* was not made to forget it.
SafeForConcurrentAccess ==
  \A w1, w2 \in won : w1[1] = w2[1] => w1[2] = w2[2]

\* Whatever the interleaving, a prefix is reported as a replay only if it was
\* inserted before: races let replays through, but refuse no new packet.
RefusalsAreTrue ==
  \A c \in Caller :
    /\ loc[c].op = "Put" /\ loc[c].err = "ErrReplayedPacket"
         => loc[c].h \in inserted
    /\ loc[c].op = "PutBatch" =>
         \A s \in loc[c].replays \ BatchOf[loc[c].id].ReplaySet :
           BatchOf[loc[c].id].entries[s].hashPrefix \in inserted
=============================================================================
