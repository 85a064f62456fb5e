# A verification project for lightning-onion

lightning-onion is the Go package that makes and processes the onion packets of
the Lightning Network (the Sphinx construction) and protects the routers against
replays. This directory holds TLA+ models of it, TLC configurations that check
them on small instances, and theorems proved with TLAPS. Every operator that
models code is listed in `PROJECT.json` ("map") with the lines it stands for.

## 1. The system

| Component | Files | State | Operations |
|---|---|---|---|
| Replay set | `replay_set.go` | a map of sequence numbers | `Add`, `Contains`, `Size`, `Merge`, `Encode`, `Decode` |
| Batch | `batch.go` | `IsCommitted`, `ID`, `ReplaySet` (a pointer), `entries`, `replayCache` | `NewBatch`, `Put`, `ForEach` |
| Replay log | `replaylog.go` | interface; `MemoryReplayLog`: two maps, nil when not started | `Start`, `Stop`, `Get`, `Put`, `Delete`, `PutBatch` |
| Router | `sphinx.go` | its keys and its log | `Start`, `Stop`, `ProcessOnionPacket`, `ReconstructOnionPacket`, `BeginTxn` |
| Transaction | `sphinx.go` | a batch, a slice of processed packets | `ProcessOnionPacket`, `Commit` |
| Onion construction | `sphinx.go`, `path.go`, `crypto.go` | locals of `NewOnionPacket` | shared secrets, filler, header loop |
| Onion processing | `sphinx.go`, `crypto.go` | none | `generateSharedSecret`, `unwrapPacket`, `processOnionPacket` |
| Error path | `crypto.go`, `obfuscation.go` | a shared secret; a circuit | `EncryptError`, `DecryptError`, `Encode`, `Decode` |
| Wire format | `sphinx.go` | none | `OnionPacket` and `HopData` `Encode`, `Decode` |
| Command line | `cmd/main.go` | none | `generate`, `decode` |
| Rest | `hornet.go`, `log.go`, `error.go` | none | unused type stubs, logging, error values |

How they interact. A sender calls `NewOnionPacket`. Each router on the path gets
the packet with an HTLC and processes it, alone or as one position of a
transaction; it derives the shared secret, unwraps one layer, and asks the
replay log about the secret's hash prefix. `Router.ProcessOnionPacket` does so at
once; `Tx.ProcessOnionPacket` collects prefixes in a `Batch`, and `Commit` gives
the batch to `ReplayLog.PutBatch`, which says which positions are replays. The
caller acts on the others. A hop that fails sends an error back: it wraps a
message with the secret it shares with the sender, the hops before it add a layer
each, and the sender, which kept the circuit, finds out whose message it is.

What is hard:

- the callers of a router are concurrent, and packets are unwrapped before the
  log is asked;
- the process may die between the write to the log and the return to the caller.
  A batch may then be processed again under the same identifier, and must
  neither lose packets (taking its own prefixes for replays) nor accept replays;
- a batch detects duplicates twice, in its own cache and in the log, and the
  answers are merged;
- `PutBatch` walks over a Go map (no order), and leaves log and batch pointing to
  one `ReplaySet`;
- the three loops of `NewOnionPacket` must mirror, cell by cell, what every
  router will do later, so that all the MACs match; offsets depend on the number
  of hops, and on `NumMaxHops`;
- a damaged copy of a packet has the replay prefix of the packet, and a node may
  occur several times in a path; nodes crash and send again;
- the sender of an onion must take off the layers of an error with secrets it
  derives anew, without knowing which hop failed;
- `MemoryReplayLog` has no lock, while its interface asks for concurrent callers;
- readers may hand out less than they are asked for, and inputs may end anywhere.

The properties that make each component correct:

- batch: no prefix stored twice, the cache covers what is stored;
- replay log: the operations are atomic, a batch is answered once and for all;
- router: a packet is used at most once while the log remembers it; what was
  accepted is never lost to a retry; retries agree;
- onion: every hop gets exactly the data, the position and the next packet the
  sender made for it, and accepts nothing else;
- network: every hop acts on its packet once, unless a crash took it;
- error path: the sender blames the node that failed, with its message, or nobody;
  it comes to a verdict on every error that hops make with `EncryptError`;
- codecs: what is decoded without an error is what was encoded;
- command line: `decode` processes what `generate` printed, given the right key.

The list of hazards, with the line where each bites, is in `PROJECT.json`.

## 2. The modules

| Module | Models | Extends |
|---|---|---|
| `Batch` | values: batches, replay sets, replies of a log | |
| `ReplayLog` | the contract of a replay log, atomic; durable or forgetful | `Batch` |
| `MemoryReplayLog` | `MemoryReplayLog` and `Batch` objects with their pointers | `Batch`, instance of `ReplayLog` |
| `Router` | `Router` and `Tx` on top of a `ReplayLog`, with crashes | `ReplayLog` |
| `Crypto` | the primitives of `crypto.go`, symbolically | |
| `Sphinx` | `NewOnionPacket`, the network, processing at every hop | `Crypto` |
| `Network` | an onion on its way through routers with replay logs that crash | `Sphinx` |
| `FailureReport` | what the error path promises the sender | |
| `OnionError` | `NewOnionErrorEncrypter`, `EncryptError`, `DecryptError` | `Crypto`, instance of `FailureReport` |
| `ConcurrentReplayLog` | `MemoryReplayLog` with concurrent callers | `Batch` |
| `Codec` | the `Encode` and `Decode` methods | |
| `Cli` | `cmd/main.go` | |
| `RouterProofs`, `MemoryReplayLogProofs`, `ConcurrentReplayLogProofs`, `SphinxProofs` | theorems about the module they are named after | that module, `TLAPS` |
| `NetworkProofs` | theorems about `Network` | `Network`, `SphinxProofs` |
| `OnionErrorFacts`, `OnionErrorProofs` | theorems about `OnionError`: the invariant with the facts about secrets and layers and how a hop begins, and the way back to the sender with the theorems | `OnionError`, `WellFoundedInduction`, `TLAPS`; the second the first |
| `CodecProofs` | theorems about `Codec` | `Codec`, `SequenceTheorems`, `WellFoundedInduction`, `TLAPS` |
| `MCMemoryReplayLog`, `MCConcurrentReplayLog`, `MCRouter`, `MCSphinx`, `MCNetwork`, `MCOnionError` | instances for TLC | |

Operators introduced by a comment `Fault: ...` are deliberately wrong versions of
the definition that follows them. No specification uses them; each shows, when
put in the place of its definition, that some property notices ("mutants" in
`PROJECT.json`).

### Batch, ReplayLog, MemoryReplayLog

A Go map is a total function with `Nil` for a missing key. `ReplayLog` has one
action per method, each atomic; `reply` is what the last call returned, errors
included. `PutBatch(id, es, rs)` takes a batch's identifier, its entries and the
replays its cache found. `Durable` distinguishes a log on disk, which lives
outside this repository (the comment of `Router.Start` speaks of it), from
`MemoryReplayLog`, which forgets everything when stopped or started.

`MemoryReplayLog` has the two maps, the `Batch` objects (`batch`), the `ReplaySet`
objects on a small heap (`rset`), and the locals of a `PutBatch` inside its loop
(`call`). `PutBatchEntry` is one round of `ForEach`, in any order. Objects that
nothing points to any more may be reused. There is one caller at a time; for
several see `ConcurrentReplayLog`. The refinement mapping hides the entries that an unfinished
`PutBatch` has inserted, so the abstract batch happens when the call returns.

### Router

A packet is a model value with a hash prefix and a verdict (`HashOf`, `Verdict`:
what `generateSharedSecret` and `processOnionPacket` make of it, the subject of
`Sphinx`). `ProcessOnionPacket(x, p, c)` is the call for HTLC `x` up to the answer
of the log; `ProcessReturn(x)` is its return, so that another call, a stop or a
crash may come in between. `TxProcessOnionPacket`, `TxCommit` and `CommitReturn`
do the same for transactions; `CommitReturn` may be repeated, as a committed
transaction answers from its own fields. A sequence number that is not below
`nels` brings the process down, as an index out of range does in Go. `Crash`
loses transactions and calls in flight, and the log unless it is durable.
`Expire` is the log's garbage collector.

History variables: `granted` holds `<<h, o>>` when the log inserted prefix `h` on
behalf of `o`, an HTLC or a position of a batch; `acted` holds it when `o` was told
to go on; `told` holds `<<id, R>>` when a commit of batch `id` returned the replay
set `R`, and survives crashes, so that the answers to retries can be compared with
the first one; `forgotten` collects prefixes the log has lost.

Two things are asked of the callers (`MayProcess`, `MayCommit`), because batch
identifiers make sense only with them: all transactions with one identifier are
given the same packet for the same position, once, and are committed when all
positions were tried. Without this, `Commit` answers for packets it has not seen:
`PutBatch` does not compare the entries of a known batch. The callers also look
at a position only if it was processed and is not in the replay set (`Usable`), as
the comment of `Tx.packets` demands.

### Crypto, Sphinx

Cryptography is symbolic. A cell is `HopDataSize` bytes, written as the set of the
key-stream cells and plaintexts that were xor'ed into it, so that xor is symmetric
difference and cancels. A group element is the set of scalars the generator was
multiplied by. Hashes and MACs are tuples of their arguments: equal only when
computed alike. This leaves out collisions and everything about secrecy.

`Sphinx` keeps the offsets: `NumMaxHops` cells in a header, `NumMaxHops + 1` cells of
key stream, slices as ranges of cells. Each iteration of the loops of
`generateSharedSecrets`, `generateHeaderPadding` and `NewOnionPacket` is a step.
`made[k]`, a history variable, is the packet as the sender had it in iteration `k`
of the header loop, with the ephemeral key of hop `k`. After `Send`, any node may
process any copy of any packet in the network with any associated data, any
number of times; copies may get damaged in a cell, the MAC or the key. Rejection
(`ErrInvalidOnionKey`, `ErrInvalidOnionHMAC`) changes nothing.

### Network

`Network` replaces the bare processing of `Sphinx` by `Router.ProcessOnionPacket`
at nodes with a durable log each (`log`): `ProcessOnionPacket` is the call up to
the answer of the log, `ProcessReturn` its return to the caller. A node's caller
keeps on disk what was returned (`kept`) and forwards it any number of times with
`ReconstructOnionPacket`, which does not ask the log. `Crash` loses the calls
between log and return (`pending`); `lost` remembers their hops. The router's model
has packets without contents; here they are onions, so prefixes, damaged copies
and repeated nodes are what the construction makes of them.

### FailureReport, OnionError

`FailureReport` is the promise: of a failure the sender learns the node and the
message, or that it cannot tell, the latter only for messages of a wrong length
and for spoiled errors. `OnionError` builds the encrypters hop by hop from the
ephemeral key that travels with the onion, lets any hop fail, adds a layer at
every hop on the way back, and runs `DecryptError` one round per step over
`NumMaxHops` rounds, for several payments at a time. An error is a sequence of
cells, the MAC first. A fault damages a cell, cuts off or appends one, makes the
sender use another payment's circuit, or replaces the error by one that no
`EncryptError` makes (`Foreign`).

The last of these is there because of the rounds past the end of the path. They
use a dummy secret that is a constant of the code, and `DecryptError` does not
exclude that a MAC matches in them; `PaymentPath[i]` is then out of range and the
call panics (`Panicked`). No secret of a hop is the dummy secret, so errors that
hops make with `EncryptError`, damaged or not, never lead there: `FailureReport`
allows the panic for payments in `foreign` and for no others. It ends this call;
what becomes of the sender's other calls depends on its caller.

### ConcurrentReplayLog

One step per access to `entries` or `batches`; the test at the head of a method,
the look-up and the insertion of `Put` are steps of their own. Go leaves the
outcome of unsynchronised map accesses open. The model lets the runtime abort the
process (`Abort`), lets a look-up that races with a write miss its entry, and lets
one of two racing writes get lost. Writing to a nil map panics (`Insert`, `Store`).
`won` holds who was told that a prefix is new, until a deletion, a stop or a start
makes the log forget it; `inserted` only grows.

### Codec

An encoding is a sequence of fields, each a sequence of bytes with scaled-down
sizes; bytes are symbolic but for versions and lengths. `Read` is one call of the
reader, which hands out any part of what it was asked for if the type is in
`ShortReads`; the inputs of the types in `Cuts` end anywhere.
`io.ReadFull` (and `binary.Read`) goes on until the field is full; the `Read` of
`Circuit.Decode` is done after one call, and the rest of its buffer is zero. Bytes
that are not a key as a whole may or may not parse as one, and a byte that is
read for a length and is none may have any value.

### Cli

A shell session that runs `generate` and `decode` in any order. A packet is the
sequence of nodes it has yet to visit, which is what `HopsGetTheirData` and
`OnlyGenuineProcessed` of `Sphinx` justify. A bad key or one too many ends
`generate` with an error or a panic, as does an empty path.

## 3. The runs

| Run | Instance | Shows |
|---|---|---|
| `memory_log` | 1 batch object, 2 identifiers, 2 positions, 2 prefixes | the log implements `ReplayLog`; a commit takes the batch as it is; batches stay well formed |
| `memory_log_shared` | 2 batch objects, 1 identifier, 1 position, 2 prefixes | the same when batches share the log's `ReplaySet`; a final `ReplaySet` stays final |
| `router` | durable log, 2 batches, 1 transaction at a time, 1 HTLC, `nels` 1 or 2 | replay protection, no lost winners, right packets; all commits of a batch that ever return, perhaps with crashes between them, give the same answer |
| `sphinx` | paths of 1 to 4 hops over 2 nodes, `NumMaxHops` 4, 1 damaged copy | every hop gets its layer, and only that; it is reached |
| `network` | paths of 1 to 3 hops over 2 nodes, 1 damaged copy, 2 crashes | a hop acts once, and does so unless a crash took its packet; the log holds only packets that passed |
| `onion_error` | 2 payments, paths of 1 to 3 hops over 2 nodes, 1 fault | `OnionError` implements `FailureReport`; sender and hops agree on secrets; every failure gets a verdict, or the panic of `Foreign` errors |
| `concurrent_log` | 2 callers, 2 prefixes, 1 batch of 2 entries and a duplicate | races refuse no new packet |
| `codec` | five formats; every cut and all short reads but for circuits, those of 1 to 8 hops | decoded exactly or refused |

Four runs end in a violation. Each documents a disagreement between a comment and
the code ("findings"):

| Run | The comment | The code |
|---|---|---|
| `memory_log_restart` | a second `Start` is an error | it returns none |
| `concurrent_log_safe` | methods are safe for concurrent access | two `Put`s of one prefix both succeed |
| `codec_short_reads` | `Circuit.Decode` reads the stream | a short read yields another circuit, no error |
| `cli_decode` | `decode` processes a packet | its log is never started, so it always fails |

Three more that the models show and no run is spent on: the comments of
`ProcessedPacket.NextPacket` and of `ProcessedPacket.ForwardingInstructions` say that
they are set only with `MoreHops`, and `processOnionPacket` sets both always
(`ProcessedPacket` of `Sphinx`). `HopsGetTheirData` states of the payload what the
code does and what `sphinx_test.go` checks, that the exit hop gets its own as well,
and says nothing of the exit hop's `NextPacket`. Finally, a comment in
`PutBatch` says that its loop meets no error but `ErrReplayedPacket`, and a
concurrent `Stop` causes `errReplayLogNotStarted` there (`NextEntry` of
`ConcurrentReplayLog`).

There is no run for a forgetful log under `Router`, or for several transactions at
a time: the theorems of section 4 are about both.

Why the bounds are enough to be interesting. Two prefixes and two positions give
duplicates inside a batch, across batches, and between a batch and a single call.
The contents in `MCRouter` include a packet twice in a batch, the same packet in
two batches in different positions, and an invalid copy before the intact one.
Three `ReplaySet` addresses let two batches and the log hold different sets, and
force reuse. Four cells have routes shorter than, and as long as, the header,
with up to three cells of filler; two nodes give routes that visit a node again,
and misdelivery to a node that is on the route. One damaged copy is enough
because copies do not affect each other. Three hops in `network` and `onion_error`
have a first, an inner and a last hop, paths shorter than the rounds of
`DecryptError`, and a node visited twice; two crashes hit two hops, or one hop
before and after its resend. Two callers suffice for every race of two accesses,
and the batch has two entries so that a call can be stopped between them. Fields
of two and three bytes can be cut and read in several ways. The expiry is a
single value in the runs, since no code branches on it.

Fairness. `EveryHopIsReached` and `EveryHopActsUnlessLost` assume that the sender's
loops go on (they never wait), that the network delivers every undamaged packet
to the node it is for, with the sender's associated data, and, for the second,
that calls return and callers forward what they keep; the parts about network and
callers are assumptions about the package's users. There is no fairness for
crashes, damage and misdelivery. `EveryFailureIsReported` assumes that hops pass
errors on and that the sender's loop runs. All the other properties are safety
properties, and the specifications of the log and the router have no fairness:
their calls return at once or with an error.

Deadlock is checked in all runs but those of `ConcurrentReplayLog` (the process may
die), `OnionError` (all failures may have been reported) and `Codec` (`Decode`
returns).

## 4. The proofs

Every safety property of the passing runs is a theorem.
A theorem holds for all values of the constants that satisfy the assumptions of
the modules: the constants have their types, and `Nil` is no value of the other
kinds. Two assumptions say more. `ConcurrentReplayLog` takes batches as given and
assumes `DistinctPrefixes` of them, which `WellFormedBatches` proves of the batches
that `Batch.Put` makes. `Codec` assumes that the lengths in a circuit fit a byte,
which they do with keys of 32 bytes and at most 20 hops.

| Module | Theorem | Property |
|---|---|---|
| `RouterProofs` | `TypeCorrect` | `TypeOK` |
| | `ReplayProtection` | `OneUsePerPrefix` |
| | `OnlyGrantedAreHandedOut` | `ActedWereGranted` |
| | `NoWinnerIsLost` | `WinnersAreTold` |
| | `IdempotentCommit` | `CommitIsIdempotent` |
| | `OwnPackets` | `PositionsGetTheirPacket` |
| `MemoryReplayLogProofs` | `TypeCorrect` | `TypeOK` |
| | `WellFormedBatches` | `BatchesWellFormed` |
| | `ReplaySetsAreFinal` | `ReplaySetFinal` (an action property) |
| | `CommitsAreWhole` | `CommitTakesTheWholeBatch` (an action property) |
| | `Refinement` | `ImplementsReplayLog` |
| `ConcurrentReplayLogProofs` | `TypeCorrect` | `TypeOK` |
| | `NoFalseReplays` | `RefusalsAreTrue` |
| `SphinxProofs` | `SphinxTypes` | `TypeOK` |
| | `OnlyGenuine` | `OnlyGenuineProcessed` |
| | `HopsGetData` | `HopsGetTheirData` |
| `NetworkProofs` | `AtMostOnce` | `ActsOnce` |
| | `LogsAreTrue` | `LoggedWereAccepted` |
| | `NetworkDelivers` | `OnlyGenuineProcessed` and `HopsGetTheirData`, in `Network` |
| `OnionErrorProofs` | `ErrorTypes` | `TypeOK` |
| | `SecretsAreShared` | `SecretsAgree` |
| | `Refinement` | `ImplementsFailureReport` |
| `CodecProofs` | `OkIsExact` | `OkMeansExact`, if `Reliable` |
| | `WholeIsOk` | `WholeIsDecoded`, if `Reliable` |

Each module first proves that an inductive invariant holds (`InvariantHolds`,
`SphinxInvariant`, `NetInvariant`, `ErrorInvariant`, `DecodeInvariant`), with one lemma
per action. TLC has checked all of these invariants on the instances of section 3.

**Router.** `OneUsePerPrefix` speaks only of what callers were told, and is far from
inductive. The argument of `Inv`: the log holds the prefix of every grant until it
forgets it (`GrantsAreLogged`), so a prefix is granted once (`OneGrantPerPrefix`).
It remains that whoever acts was granted the prefix. For a single call this is
`PendingWereGranted`. For a transaction it goes through the batch: before the
commit, a processed position is either stored under its own prefix or in the
replay set (`StoredOrReplayed`), and stored prefixes are distinct (`CacheCovers`), so
at the first commit the positions outside of the answer are those the log
inserts. At a later commit with the same identifier the answer comes from
`results`, computed for another batch object; `ResultsWereGranted` says of it that
whatever the content of the batch has outside of the answer was granted, and
`HoldsContent` that the new transaction holds that same content. `TxCommit` has
three lemmas: log stopped, first commit, later commit. The theorems hold for a
durable and for a forgetful log. `CommitIsIdempotent` is about a durable one: what
was ever told about a batch is what the log remembers of it (`ToldAreRemembered`),
as a committed transaction has the log's answer (`CommittedAreRemembered`) and no
step changes an answer once it is there (`ResultsStay`).

**MemoryReplayLog.** Two things are needed besides the types. Pointers: nobody but
its owner points to the `ReplaySet` of a batch that still takes entries, or to the
one a `PutBatch` is filling (`OpenSetsAreOwned`, `CallSetIsOwned`); hence no call
changes a set that the log or a committed batch has (`ReplaySetsAreFinal`). The
loop: the entries that `PutBatch` is done with are in the log, as replays or with
their own expiry (`LoopIsSound`). With distinct prefixes in a batch, the entries
hidden by the refinement mapping are then exactly the insertions of this call, so
the last step of the call is one abstract `PutBatch` and the rounds before it are
stuttering steps. `Refinement` is
why `Router` may be specified on `ReplayLog`, as long as one caller at a time uses
the log; `ConcurrentReplayLog` is about the other case.

**ConcurrentReplayLog.** `inserted` only grows; whatever the maps hold, and whatever a
call has concluded, is about prefixes in it (`LogOK`, `FindingsAreTrue`), and a `Put`
inside of `PutBatch` is about the entry that `ForEach` has come to (`AtItsEntry`).

**Sphinx.** The invariant follows the sender's loops. `KeysOK`: an ephemeral key is
the one before it with one more blinding factor, which is new because no hash is
part of its own argument; so the keys, hence the secrets, of any two hops differ,
also when a node is visited twice. `FillerOK`: after every round, each cell of the
filler is the set of key-stream cells that the hops so far leave there (`Padding`).
`HeadersOK`: the packet of hop `k` is the hop's data, the header of hop `k + 1` and
the padding of the hops before it, under one key stream. That a hop which takes
off its stream finds the packet of the next hop (`Unwrap`) is then cell-by-cell
reasoning about xor, for every number of hops and every `NumMaxHops`. Of the
network, `NetOK` says that a packet is one the sender made or one nobody accepts.

**Network.** The invariant of `Sphinx`, and `OnceOK`: a node's log knows a packet
before the call for it returns, and a call that has not returned is the first.
Different hops have different secrets, hence prefixes, so that the log never
takes one visit to a node for another.

**OnionError.** `SecretsAreShared` needs that the key which hop `k` gets is the sender's
`a_k` (`HopsOK`). The sender computes its secrets with a recursive function;
`TripletsExist` and `TripletsHold` show that the function exists and satisfies its
equation, from the principle that a set of numbers has a least element
(`LeastNumber`), for want of induction (see below). For the refinement,
`DifferentSecrets` says that no two hops of any payments share a secret;
`ErrorOK` that an error which nothing spoiled is the message under the layers of
the hops it has passed (`Wrapped`), and that every error, spoiled or not, holds no
MAC but the one the failing hop computed or, if it was replaced, the one under the
dummy secret (`MacOK`). `LoopOK` says the same of the error inside the loop of
`DecryptError`, one layer less per round. So a MAC that matches (`MatchingMac`) is
the true one (`MatchIsTrue`) and blames the right hop with the right message, or
it is that of a replaced error and matches past the end of the path
(`ForeignMatch`), which is the panic. A round with a secret that does not match
takes off one layer (`LayerOff`), and an unspoiled error of the right length does
match in some round (`VerdictIsTrue`).

**Codec.** `Reliable` says that a circuit is read from a reader which is not cut off
and hands out what it is asked for; it is the other types' readers that may do as
they please. Without it `OkMeansExact` is false of circuits, as `codec_short_reads`
shows, since `Circuit.Decode` goes on after any `Read` that returns something. The
invariant, `CodecInv`: the fields decoded so far are the first ones of the encoding
(`DataOK`); their bytes, the buffer and the bytes not yet read are, one behind the
other, the input (`BytesOK`); the buffer is not longer than the next field
(`BufferOK`); and `todo` lists the fields of the encoding from there on, as far as
`Decode` knows of them (`StatusOK`). The input agrees with the encoding as far as
both go (`InputFacts`), so a full buffer is the next field (`NextDecoded`). That is
why the length bytes of a circuit are the lengths it was encoded with
(`CheckedLength`), and why `Decode` meets the end of the input inside or in front of
a field only if the encoding was cut off (`ReadEndInv`). The encoding is a
concatenation of any number of fields, by a recursive function; what it contains
(`FlattenAppend`, `FlattenPrefix`) is shown, as for `OnionError`, from the least
counterexample (`LeastNumber`, `UpTo`), with a set in the place of the predicate that
an induction would be about. `Codec` defines `FlattenSeq` itself, and takes its
injections from `Functions`: the definitions that come with `SequencesExt` slow every
step of the proof down.

The proof attempt corrected the model once: `TypeOK` of `OnionError` bounded the
length of an error by a constant that is wrong when there are no messages; it now
bounds it by the length of the message in flight and the number of faults.

Model-checked only, and why:

- liveness (`EveryHopIsReached`, `EveryHopActsUnlessLost`, `EveryFailureIsReported`):
  fairness and `ENABLED` are beyond the prover;
- the runs that end in a violation, which are counterexamples.

## 5. Not modelled

- `Version` outside of `Codec`: `NewOnionPacket` writes 0 and the routers copy it.
- Hops that share their secrets. A hop that drops the error of a later hop and
  reports a failure of its own is, in `OnionError`, the hop that fails.
- Of the outcomes of racing map accesses, that a look-up finds an entry which is
  not there: in `ConcurrentReplayLog` it can only miss one (`Seen`), and
  `RefusalsAreTrue` rests on that.
- Readers that return bytes together with `io.EOF`: in `Codec` the end of the input
  is a call of its own, after the last bytes.
- Errors of writers: the `Encode` methods pass them on.
- Circuits of more than 255 hops, whose length `Circuit.Encode` would truncate;
  paths have at most 20.
- The logs of `Network` are durable and atomic; a composition of onions with
  `MemoryReplayLog` would add nothing to `Router` with a forgetful log.
- `NewRouter`'s node identifier and address, which only the tests read.
- An empty path, on which `NewOnionPacket` panics, outside of `Cli`.
- `hornet.go` and `log.go`, which have no behaviour.
- Secrecy, timing and the strength of the primitives.

## 6. Plan

- `Router`: the composition with `MemoryReplayLog` as a theorem of its own.
