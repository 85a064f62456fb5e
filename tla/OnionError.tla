------------------------------ MODULE OnionError ------------------------------
(***************************************************************************)
(* A failure on its way from the hop that reports it to the sender         *)
(* (EncryptError and DecryptError of crypto.go, obfuscation.go), for       *)
(* several payments at once.                                               *)
(*                                                                         *)
(* The onion goes out hop by hop, and every hop makes an encrypter from    *)
(* the ephemeral key it got.  The hop that fails wraps a message, the hops *)
(* before it add a layer each, and the sender peels the layers off with    *)
(* the secrets it derives from its circuit, one step per round of the loop *)
(* of DecryptError.  On the way back an error may be damaged, cut short or *)
(* extended, a hop may send other bytes in its place, and the sender may   *)
(* take it for another payment's.                                          *)
(*                                                                         *)
(* Hops and rounds are numbered from 1.  An error is a sequence of cells   *)
(* of the size of a MAC, the MAC first.                                    *)
(***************************************************************************)
EXTENDS Crypto, Integers, Sequences

CONSTANTS
  NumMaxHops,   \* rounds of DecryptError, and the longest path
  Node,         \* routers
  Payment,      \* payments of one sender
  PathsOf,      \* payment -> the paths it may take
  Message,      \* failure messages
  SizeOf,       \* message -> its size in cells
  DataCells,    \* size in cells of the messages on the wire
  MaxFaults     \* bound on the faults on the way back

Path == UNION {[1 .. n -> Node] : n \in 1 .. NumMaxHops}

ASSUME OnionErrorAssumption ==
  /\ NumMaxHops \in Nat \ {0}
  /\ PathsOf \in [Payment -> SUBSET Path]
  /\ SizeOf \in [Message -> Nat]
  /\ DataCells \in Nat \ {0}
  /\ MaxFaults \in Nat

\* The bytes of a message.
Plaintext(e) == [k \in 1 .. SizeOf[e] |-> {<<"msg", e, k>>}]

VARIABLES
  path,         \* payment -> PaymentPath of its circuit
  ephemeral,    \* payment -> the ephemeral key of the onion where it is now
  encrypter,    \* payment -> the secrets of its hops' encrypters, so far
  blob,         \* payment -> the error in flight
  at,           \* payment -> the hop that encrypted it last, 0 before a failure
  dec,          \* payment -> the locals of DecryptError
  failure,      \* payment -> history: the failure a hop reported
  report,       \* payment -> what DecryptError returned
  spoiled,      \* history: payments whose error met a fault
  foreign,      \* history: those whose error a hop replaced by other bytes
  faults        \* number of faults so far

vars == <<path, ephemeral, encrypter, blob, at, dec, failure, report, spoiled,
          foreign, faults>>

\* The promise to the sender.
Abs == INSTANCE FailureReport WITH
         Message <- {Plaintext(e) : e \in Message},
         Fitting <- {Plaintext(e) : e \in {f \in Message : SizeOf[f] = DataCells}}

\* NewOnionErrorDecrypter, for a circuit.
Idle(p) == [state |-> "idle", circuit |-> p]

Init ==
  /\ path \in {f \in [Payment -> Path] : \A p \in Payment : f[p] \in PathsOf[p]}
  /\ ephemeral = [p \in Payment |-> BlindBaseElement({SessionKey(p)})]
  /\ encrypter = [p \in Payment |-> <<>>]
  /\ blob = [p \in Payment |-> <<>>]
  /\ at = [p \in Payment |-> 0]
  /\ dec = [p \in Payment |-> Idle(p)]
  /\ Abs!ReportInit
  /\ faults = 0

-----------------------------------------------------------------------------
(***************************************************************************)
(* The hops.                                                               *)
(***************************************************************************)

\* NewOnionErrorEncrypter at the next hop, for the ephemeral key P that it got
\* with the onion: Router.generateSharedSecret, or ErrInvalidOnionKey.  The
\* onion goes on with the key that the hop has blinded (unwrapPacket).
NewOnionErrorEncrypter(p, P) ==
  /\ failure[p] = Abs!NoFailure
  /\ Len(encrypter[p]) < Len(path[p])
  /\ \/ /\ ~IsOnCurve(P)
        /\ UNCHANGED vars
     \/ /\ IsOnCurve(P)
        /\ LET m == path[p][Len(encrypter[p]) + 1]
               s == SharedSecret(BlindGroupElement(P, {OnionKey(m)}))
           IN  /\ encrypter' = [encrypter EXCEPT ![p] = Append(@, s)]
               /\ ephemeral' = [ephemeral EXCEPT ![p] =
                                  BlindGroupElement(P, {BlindingFactor(P, s)})]
        /\ UNCHANGED <<path, blob, at, dec, failure, report, spoiled, foreign,
                       faults>>

\* onionEncrypt: xor with the stream of the "ammag" key.
OnionEncrypt(secret, data) ==
  [k \in DOMAIN data |-> Xor(data[k], {<<"ammag", secret, k>>})]

\* The MAC of a message, under the "um" key.
UmMac(secret, data) == {<<"um", secret, data>>}

\* Fault: forwarding hops prepend a MAC as well.
AlwaysInitial(secret, initial, data) ==
  OnionEncrypt(secret, <<UmMac(secret, data)>> \o data)

\* OnionErrorEncrypter.EncryptError
EncryptError(secret, initial, data) ==
  OnionEncrypt(secret, IF initial THEN <<UmMac(secret, data)>> \o data ELSE data)

\* The hop that has the onion reports failure e.
Fail(p, e) ==
  LET k == Len(encrypter[p])
  IN  /\ k > 0
      /\ Abs!Fails(p, path[p][k], Plaintext(e))
      /\ blob' = [blob EXCEPT ![p] =
                    EncryptError(encrypter[p][k], TRUE, Plaintext(e))]
      /\ at' = [at EXCEPT ![p] = k]
      /\ UNCHANGED <<path, ephemeral, encrypter, dec, faults>>

\* The hop before passes the error on.
Backward(p) ==
  /\ at[p] > 1
  /\ blob' = [blob EXCEPT ![p] =
                EncryptError(encrypter[p][at[p] - 1], FALSE, @)]
  /\ at' = [at EXCEPT ![p] = @ - 1]
  /\ UNCHANGED <<path, ephemeral, encrypter, dec, failure, report, spoiled,
                 foreign, faults>>

Noise == {<<"noise">>}

\* The error is damaged between two nodes, loses its last cell or gains one.
Damage(p) ==
  /\ at[p] > 0
  /\ dec[p].state = "idle"
  /\ faults < MaxFaults
  /\ \/ \E k \in DOMAIN blob[p] : blob' = [blob EXCEPT ![p][k] = Xor(@, Noise)]
     \/ blob' = [blob EXCEPT ![p] = Append(@, Noise)]
     \/ /\ Len(blob[p]) > 1
        /\ blob' = [blob EXCEPT ![p] = SubSeq(@, 1, Len(@) - 1)]
  /\ Abs!Spoil(p)
  /\ faults' = faults + 1
  /\ UNCHANGED <<path, ephemeral, encrypter, at, dec>>

\* The secret of the rounds in which DecryptError has no hop's to use.
DummySecret == <<"dummy">>

\* A hop sends bytes in place of the error that EncryptError did not make, with
\* a MAC under the one secret of DecryptError's rounds that is no hop's.
Foreign(p) ==
  /\ at[p] > 0
  /\ dec[p].state = "idle"
  /\ faults < MaxFaults
  /\ blob' = [blob EXCEPT ![p] =
       OnionEncrypt(encrypter[p][at[p]],
                    EncryptError(DummySecret, TRUE, failure[p].msg))]
  /\ Abs!Replace(p)
  /\ faults' = faults + 1
  /\ UNCHANGED <<path, ephemeral, encrypter, at, dec>>

\* The sender takes the error for that of payment q.
Mistake(p, q) ==
  /\ dec[p].state = "idle"
  /\ faults < MaxFaults
  /\ dec' = [dec EXCEPT ![p].circuit = q]
  /\ Abs!Spoil(p)
  /\ faults' = faults + 1
  /\ UNCHANGED <<path, ephemeral, encrypter, blob, at>>

-----------------------------------------------------------------------------
(***************************************************************************)
(* The sender.                                                             *)
(***************************************************************************)

\* generateSharedSecrets: the triplets c_i, a_i and s_i of all hops.
Triplets(nodes, sessionKey) ==
  LET triplet[k \in DOMAIN nodes] ==
        LET prev == triplet[k - 1]
            c == IF k = 1 THEN {sessionKey}
                 ELSE prev.c \cup {BlindingFactor(prev.a, prev.s)}
        IN  [c |-> c, a |-> BlindBaseElement(c),
             s |-> SharedSecret(BlindGroupElement({OnionKey(nodes[k])}, c))]
  IN  triplet

\* Fault: the session key is not blinded.
UnblindedSecrets(nodes, sessionKey) ==
  [k \in DOMAIN nodes |->
     SharedSecret(BlindGroupElement({OnionKey(nodes[k])}, {sessionKey}))]

\* What generateSharedSecrets returns of them.
GenerateSharedSecrets(nodes, sessionKey) ==
  [k \in DOMAIN nodes |-> Triplets(nodes, sessionKey)[k].s]

OnionErrorLength == 1 + DataCells

Finish(p, result) ==
  /\ report' = [report EXCEPT ![p] = result]
  /\ dec' = [dec EXCEPT ![p] = [state |-> "done", circuit |-> @.circuit]]

\* DecryptError up to its loop.
DecryptError(p) ==
  /\ at[p] = 1
  /\ dec[p].state = "idle"
  /\ \/ /\ Len(blob[p]) # OnionErrorLength
        /\ Finish(p, Abs!Unknown)
     \/ /\ Len(blob[p]) = OnionErrorLength
        /\ dec' = [dec EXCEPT ![p] =
             [state   |-> "loop",
              circuit |-> @.circuit,
              secrets |-> GenerateSharedSecrets(path[@.circuit],
                                                SessionKey(@.circuit)),
              i       |-> 1,
              data    |-> blob[p],
              found   |-> Abs!Pending]]
        /\ UNCHANGED report
  /\ UNCHANGED <<path, ephemeral, encrypter, blob, at, failure, spoiled, foreign,
                 faults>>

\* Fault: the dummy secret comes one round early.
DummyEarly(d) ==
  IF d.found # Abs!Pending \/ d.i > Len(d.secrets) - 1 THEN DummySecret
                                                      ELSE d.secrets[d.i]

\* The secret of a round: the hop's, until the sender of the error is found or
\* the path ends.
SecretInRound(d) ==
  IF d.found # Abs!Pending \/ d.i > Len(d.secrets) THEN DummySecret
                                                  ELSE d.secrets[d.i]

\* The MAC in front is the MAC of the rest.
MacMatches(secret, data) == data[1] = UmMac(secret, Tail(data))

\* One round of the loop.  The node is looked up by the number of the round,
\* which panics if the MAC matches past the end of the path.
DecryptRound(p) ==
  LET d       == dec[p]
      secret  == SecretInRound(d)
      data    == OnionEncrypt(secret, d.data)
      matches == MacMatches(secret, data) /\ d.found = Abs!Pending
      nodes   == path[d.circuit]
  IN  /\ d.state = "loop"
      /\ d.i <= NumMaxHops
      /\ \/ /\ matches
            /\ d.i > Len(nodes)
            /\ Finish(p, Abs!Panicked)
         \/ /\ ~matches \/ d.i <= Len(nodes)
            /\ dec' = [dec EXCEPT ![p].i = @ + 1, ![p].data = data,
                 ![p].found = IF matches THEN Abs!Failed(nodes[d.i], Tail(data))
                              ELSE @]
            /\ UNCHANGED report
      /\ UNCHANGED <<path, ephemeral, encrypter, blob, at, failure, spoiled,
                     foreign, faults>>

\* Fault: an error that cannot be attributed is dropped.
ReturnIfFound(p) ==
  /\ dec[p].state = "loop"
  /\ dec[p].i > NumMaxHops
  /\ dec[p].found # Abs!Pending
  /\ Finish(p, dec[p].found)
  /\ UNCHANGED <<path, ephemeral, encrypter, blob, at, failure, spoiled, foreign,
                 faults>>

\* DecryptError after its loop: the failure, or "unable to retrieve onion failure".
DecryptReturn(p) ==
  /\ dec[p].state = "loop"
  /\ dec[p].i > NumMaxHops
  /\ Finish(p, IF dec[p].found = Abs!Pending THEN Abs!Unknown ELSE dec[p].found)
  /\ UNCHANGED <<path, ephemeral, encrypter, blob, at, failure, spoiled, foreign,
                 faults>>

-----------------------------------------------------------------------------
\* What happens to an error without anybody's choice.
Return(p) ==
  \/ Backward(p)
  \/ DecryptError(p)
  \/ DecryptRound(p)
  \/ DecryptReturn(p)

Next ==
  \E p \in Payment :
    \/ \E P \in {ephemeral[p], OffCurve} : NewOnionErrorEncrypter(p, P)
    \/ \E e \in Message : Fail(p, e)
    \/ Damage(p)
    \/ Foreign(p)
    \/ \E q \in Payment \ {p} : Mistake(p, q)
    \/ Return(p)

Spec == Init /\ [][Next]_vars

\* Hops pass errors on, and the sender's loop runs.
FairSpec == Spec /\ \A p \in Payment : WF_vars(Return(p))

-----------------------------------------------------------------------------
\* Encrypters, errors and the sender's loop stay within the path, the sizes and
\* the rounds the code allows.
TypeOK ==
  /\ faults \in 0 .. MaxFaults
  /\ \A p \in Payment :
       /\ path[p] \in PathsOf[p]
       /\ Len(encrypter[p]) \in 0 .. Len(path[p])
       /\ at[p] \in 0 .. Len(encrypter[p])
       /\ Len(blob[p]) <= IF failure[p] = Abs!NoFailure THEN 0
                          ELSE 1 + Len(failure[p].msg) + faults
       /\ dec[p].state = "loop" =>
            /\ dec[p].i \in 1 .. NumMaxHops + 1
            /\ Len(dec[p].data) = OnionErrorLength

\* DecryptError blames the node that reported the failure, with the very message
\* it reported, or nobody; and nobody only if the message has a wrong length or
\* the error was spoiled.  It looks up a node past the end of the path, and
\* panics, only if a hop sent bytes with a MAC under the dummy secret.
ImplementsFailureReport == Abs!ReportSpec

\* Hop k and the sender agree on the secret of hop k, so that every layer a hop
\* adds is one the sender knows how to take off, also when a node has several
\* places in the path.
SecretsAgree ==
  \A p \in Payment :
    dec[p].state = "loop" /\ dec[p].circuit = p =>
      encrypter[p] = SubSeq(dec[p].secrets, 1, Len(encrypter[p]))

\* Every failure that a hop reports reaches the sender, whose DecryptError comes
\* to an end: with a verdict, or in the panic that ImplementsFailureReport allows.
EveryFailureIsReported ==
  \A p \in Payment : failure[p] # Abs!NoFailure ~> report[p] # Abs!Pending
=============================================================================
