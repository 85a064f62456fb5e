--------------------------- MODULE OnionErrorFacts ---------------------------
(***************************************************************************)
(* The inductive invariant of OnionError, and the facts about its          *)
(* operators and about the states that the invariant describes, on which   *)
(* OnionErrorProofs rests.  The steps of the forward path, and of the hop  *)
(* that fails, are shown here to keep it.                                  *)
(*                                                                         *)
(* The secrets of a payment are those its circuit determines, and no two   *)
(* of them, of one payment or of two, are equal.  An error that nothing    *)
(* spoiled is the reported message under the layers of the hops it has     *)
(* passed, and the rounds of DecryptError take them off one by one.  An    *)
(* error that was spoiled, but not replaced, holds no MAC but the one that *)
(* the failing hop computed, so that only the secret of that hop and the   *)
(* very message can match it.  One that was replaced holds a MAC that only *)
(* the dummy secret can match, hence no round of a hop.                    *)
(***************************************************************************)
EXTENDS OnionError, WellFoundedInduction, TLAPS

-----------------------------------------------------------------------------
(***************************************************************************)
(* Facts about numbers, and about sequences of values that belong to no    *)
(* set in particular, such as shared secrets and cells.                    *)
(***************************************************************************)

\* A sequence, whatever its elements.
IsSeq(s) == Len(s) \in Nat /\ s = [k \in 1 .. Len(s) |-> s[k]]

\* Every set of natural numbers that is not empty has a least element.
LEMMA LeastNumber ==
  ASSUME NEW A \in SUBSET Nat, A # {}
  PROVE  \E n \in A : \A m \in A : n <= m
<1> DEFINE R == {ss \in Nat \X Nat : ss[1] < ss[2]}
<1>1. IsWellFoundedOn(R, Nat)
  BY NatLessThanWellFounded DEF OpToRel
<1> HIDE DEF R
<1>2. PICK n \in A : \A m \in A : ~ (<<m, n>> \in R)
  BY <1>1, WFMin, Zenon
<1>3. ASSUME NEW m \in A, m < n
      PROVE  FALSE
  BY <1>2, <1>3, Zenon DEF R
<1> QED
  BY <1>3

\* A function on the first numbers is a sequence.
LEMMA FcnIsSeq ==
  ASSUME NEW n \in Nat, NEW f, f = [k \in 1 .. n |-> f[k]]
  PROVE  /\ IsSeq(f)
         /\ Len(f) = n
<1>1. f \in Seq({f[k] : k \in 1 .. n})
  OBVIOUS
<1>2. Len(f) = n
  BY <1>1
<1> QED
  BY <1>2 DEF IsSeq

\* A sequence is one over its own elements.
LEMMA SeqOver ==
  ASSUME NEW s, IsSeq(s)
  PROVE  /\ s \in Seq({s[k] : k \in 1 .. Len(s)})
         /\ DOMAIN s = 1 .. Len(s)
BY DEF IsSeq

\* Sequences with the same elements are equal.
LEMMA SeqEqual ==
  ASSUME NEW s, NEW t, IsSeq(s), IsSeq(t), Len(s) = Len(t),
         \A k \in 1 .. Len(s) : s[k] = t[k]
  PROVE  s = t
<1>1. PICK n : n = Len(s)
  OBVIOUS
<1>2. s = [k \in 1 .. n |-> s[k]] /\ t = [k \in 1 .. n |-> t[k]]
  BY <1>1, Zenon DEF IsSeq
<1>3. [k \in 1 .. n |-> s[k]] = [k \in 1 .. n |-> t[k]]
  BY <1>1, Zenon
<1> QED
  BY <1>2, <1>3, Zenon

\* What Append does to a sequence.
LEMMA AppendSeq ==
  ASSUME NEW s, IsSeq(s), NEW x
  PROVE  /\ IsSeq(Append(s, x))
         /\ Len(Append(s, x)) = Len(s) + 1
         /\ \A k \in 1 .. Len(s) : Append(s, x)[k] = s[k]
         /\ Append(s, x)[Len(s) + 1] = x
<1> DEFINE S == {s[k] : k \in 1 .. Len(s)} \cup {x}
<1>1. s \in Seq(S) /\ x \in S
  <2>1. \A k \in 1 .. Len(s) : s[k] \in S
    OBVIOUS
  <2> QED
    BY <2>1 DEF IsSeq
<1> HIDE DEF S
<1>2. Append(s, x) \in Seq(S)
  BY <1>1
<1>3. /\ Len(Append(s, x)) = Len(s) + 1
      /\ \A k \in 1 .. Len(s) : Append(s, x)[k] = s[k]
      /\ Append(s, x)[Len(s) + 1] = x
  BY <1>1
<1>4. PICK a : a = Append(s, x)
  BY Zenon
<1>5. a \in Seq(S)
  BY <1>2, <1>4
<1>6. IsSeq(a)
  BY <1>5 DEF IsSeq
<1> QED
  BY <1>3, <1>4, <1>6

\* What cutting off the last element does to a sequence.
LEMMA FrontSeq ==
  ASSUME NEW s, IsSeq(s), Len(s) > 1
  PROVE  /\ IsSeq(SubSeq(s, 1, Len(s) - 1))
         /\ Len(SubSeq(s, 1, Len(s) - 1)) = Len(s) - 1
         /\ SubSeq(s, 1, Len(s) - 1)[1] = s[1]
<1> DEFINE S == {s[k] : k \in 1 .. Len(s)}
<1>1. s \in Seq(S)
  BY SeqOver
<1> HIDE DEF S
<1>2. PICK n : n = Len(s) - 1
  OBVIOUS
<1>3. n \in Nat /\ n >= 1 /\ n <= Len(s)
  BY <1>1, <1>2
<1>4. /\ SubSeq(s, 1, n) \in Seq(S)
      /\ Len(SubSeq(s, 1, n)) = n
      /\ SubSeq(s, 1, n)[1] = s[1]
  BY <1>1, <1>3
<1> QED
  BY <1>2, <1>4 DEF IsSeq

\* The first cell and the rest of an error with a MAC in front.
LEMMA ConsSeq ==
  ASSUME NEW s, IsSeq(s), NEW x
  PROVE  /\ IsSeq(<<x>> \o s)
         /\ Len(<<x>> \o s) = 1 + Len(s)
         /\ (<<x>> \o s)[1] = x
         /\ \A k \in 2 .. 1 + Len(s) : (<<x>> \o s)[k] = s[k - 1]
         /\ Tail(<<x>> \o s) = s
<1> DEFINE S == {s[k] : k \in 1 .. Len(s)} \cup {x}
<1>1. s \in Seq(S) /\ x \in S
  <2>1. \A k \in 1 .. Len(s) : s[k] \in S
    OBVIOUS
  <2> QED
    BY <2>1 DEF IsSeq
<1> HIDE DEF S
<1>2. PICK c : c = <<x>> \o s
  BY Zenon
<1>3. <<x>> \in Seq(S)
  BY <1>1
<1>4. /\ c \in Seq(S)
      /\ Len(c) = 1 + Len(s)
      /\ c[1] = x
      /\ \A k \in 2 .. 1 + Len(s) : c[k] = s[k - 1]
  BY <1>1, <1>2, <1>3
<1>5. /\ Tail(c) \in Seq(S)
      /\ Len(Tail(c)) = Len(s)
      /\ \A k \in 1 .. Len(s) : Tail(c)[k] = c[k + 1]
  BY <1>1, <1>4
<1>6. ASSUME NEW k \in 1 .. Len(s)
      PROVE  Tail(c)[k] = s[k]
  <2>1. k + 1 \in 2 .. 1 + Len(s) /\ (k + 1) - 1 = k
    BY <1>1
  <2> QED
    BY <2>1, <1>4, <1>5
<1>7. Tail(c) = s
  BY <1>1, <1>5, <1>6
<1> QED
  BY <1>2, <1>4, <1>7 DEF IsSeq

-----------------------------------------------------------------------------
(***************************************************************************)
(* The invariant.                                                          *)
(***************************************************************************)

\* The triplets of a payment, and its last hop so far.
T(p)    == Triplets(path[p], SessionKey(p))
Last(p) == Len(encrypter[p])

\* The MACs among what was xor'ed into a cell.
UmPart(cell) == {x \in cell : x[1] = "um"}

\* The MAC that the failing hop computed, and the error before encryption.
TrueMac(p)  == UmMac(encrypter[p][Last(p)], failure[p].msg)
Original(p) == <<TrueMac(p)>> \o failure[p].msg

\* The MAC in a cell: the failing hop's, or one under the dummy secret if the error
\* was replaced.
MacOK(p, cell) ==
  /\ p \notin foreign => UmPart(cell) = TrueMac(p)
  /\ p \in foreign => UmPart(cell) = UmMac(DummySecret, failure[p].msg)

\* An error under the layers of hops a to the last of those with secrets enc.
Layers(orig, enc, a) ==
  [k \in 1 .. Len(orig) |->
     orig[k] \cup {<<"ammag", enc[j], k>> : j \in a .. Len(enc)}]

Wrapped(p, a) == Layers(Original(p), encrypter[p], a)

\* The hops have the secrets of the triplets, and the next one gets its key.
HopsOK(p) ==
  /\ path[p] \in PathsOf[p]
  /\ IsSeq(encrypter[p])
  /\ Last(p) <= Len(path[p])
  /\ \A k \in 1 .. Last(p) : encrypter[p][k] = T(p)[k].s
  /\ Last(p) < Len(path[p]) => ephemeral[p] = T(p)[Last(p) + 1].c

\* The error in flight.
ErrorOK(p) ==
  /\ at[p] \in 0 .. Last(p)
  /\ p \in foreign => p \in spoiled
  /\ at[p] = 0 => failure[p] = Abs!NoFailure /\ blob[p] = <<>> /\ p \notin spoiled
  /\ at[p] > 0 =>
       /\ \E e \in Message : failure[p] = Abs!Failed(path[p][Last(p)], Plaintext(e))
       /\ IsSeq(blob[p])
       /\ Len(blob[p]) \in 1 .. 1 + Len(failure[p].msg) + faults
       /\ MacOK(p, blob[p][1])
       /\ p \notin spoiled => blob[p] = Wrapped(p, at[p])

\* The locals of DecryptError, outside of its loop.
Outside(d) == d = [state |-> d.state, circuit |-> d.circuit]

\* The same within its loop.
Inside(d) ==
  d = [state |-> "loop", circuit |-> d.circuit, secrets |-> d.secrets,
       i |-> d.i, data |-> d.data, found |-> d.found]

\* A round starts with such a MAC in the first cell, and if nothing was
\* spoiled, with the layers of the hops from this round on, or the failing hop
\* is found.
LoopOK(p) ==
  LET d == dec[p]
  IN  /\ d.secrets = GenerateSharedSecrets(path[d.circuit], SessionKey(d.circuit))
      /\ d.i \in 1 .. NumMaxHops + 1
      /\ IsSeq(d.data)
      /\ Len(d.data) = OnionErrorLength
      /\ MacOK(p, d.data[1])
      /\ d.found \in {Abs!Pending, failure[p]}
      /\ p \notin spoiled /\ d.found = Abs!Pending =>
           d.i <= Last(p) /\ d.data = Wrapped(p, d.i)

\* The sender.
SenderOK(p) ==
  /\ dec[p].state \in {"idle", "loop", "done"}
  /\ dec[p].circuit \in Payment
  /\ p \notin spoiled => dec[p].circuit = p
  /\ report[p] = Abs!Pending <=> dec[p].state # "done"
  /\ dec[p].state # "idle" => at[p] = 1
  /\ IF dec[p].state = "loop" THEN Inside(dec[p]) /\ LoopOK(p)
                              ELSE Outside(dec[p])

\* The functions on payments.
ShapesOK ==
  /\ path = [p \in Payment |-> path[p]]
  /\ ephemeral = [p \in Payment |-> ephemeral[p]]
  /\ encrypter = [p \in Payment |-> encrypter[p]]
  /\ blob = [p \in Payment |-> blob[p]]
  /\ at = [p \in Payment |-> at[p]]
  /\ dec = [p \in Payment |-> dec[p]]
  /\ failure = [p \in Payment |-> failure[p]]
  /\ report = [p \in Payment |-> report[p]]

\* The inductive invariant.
ErrorInv ==
  /\ ShapesOK
  /\ faults \in 0 .. MaxFaults
  /\ \A p \in Payment : HopsOK(p) /\ ErrorOK(p) /\ SenderOK(p)

-----------------------------------------------------------------------------
(***************************************************************************)
(* The triplets of generateSharedSecrets.                                  *)
(***************************************************************************)

\* The triplet of hop k, computed from the one before it in f.
TripletIn(f, nodes, sessionKey, k) ==
  LET prev == f[k - 1]
      c == IF k = 1 THEN {sessionKey}
           ELSE prev.c \cup {BlindingFactor(prev.a, prev.s)}
  IN  [c |-> c, a |-> BlindBaseElement(c),
       s |-> SharedSecret(BlindGroupElement({OnionKey(nodes[k])}, c))]

\* f holds the triplets of the first n hops.
HoldsTriplets(f, nodes, sessionKey, n) ==
  f = [k \in 1 .. n |-> TripletIn(f, nodes, sessionKey, k)]

\* A triplet depends on the triplet before it, and on no other.
LEMMA TripletInSame ==
  ASSUME NEW f, NEW g, NEW nodes, NEW key, NEW k, k # 1 => f[k - 1] = g[k - 1]
  PROVE  TripletIn(f, nodes, key, k) = TripletIn(g, nodes, key, k)
BY Zenon DEF TripletIn

\* The loop of generateSharedSecrets has a result, for a path of any length.
LEMMA TripletsExist ==
  ASSUME NEW nodes, NEW key, NEW n \in Nat
  PROVE  \E f : HoldsTriplets(f, nodes, key, n)
<1> DEFINE A == {m \in Nat : ~ \E f : HoldsTriplets(f, nodes, key, m)}
<1>1. 0 \notin A
  <2>1. PICK f : f = [k \in 1 .. 0 |-> 0]
    OBVIOUS
  <2>2. HoldsTriplets(f, nodes, key, 0)
    BY <2>1 DEF HoldsTriplets
  <2> QED
    BY <2>2
<1>2. ASSUME NEW m \in Nat, m \notin A
      PROVE  m + 1 \notin A
  <2>1. PICK f : HoldsTriplets(f, nodes, key, m)
    BY <1>2
  <2>2. PICK g : g = [k \in 1 .. m + 1 |-> TripletIn(f, nodes, key, k)]
    BY Zenon
  <2>3. ASSUME NEW k \in 1 .. m + 1
        PROVE  g[k] = TripletIn(g, nodes, key, k)
    <3>1. ASSUME k # 1
          PROVE  f[k - 1] = g[k - 1]
      <4>1. PICK j : j = k - 1
        OBVIOUS
      <4>2. j \in 1 .. m /\ j \in 1 .. m + 1
        BY <3>1, <4>1
      <4>3. f[j] = TripletIn(f, nodes, key, j)
        BY Zenon, <2>1, <4>2 DEF HoldsTriplets
      <4>4. g[j] = TripletIn(f, nodes, key, j)
        BY <2>2, <4>2
      <4> QED
        BY <4>1, <4>3, <4>4
    <3>2. TripletIn(f, nodes, key, k) = TripletIn(g, nodes, key, k)
      BY <3>1, TripletInSame
    <3> QED
      BY <2>2, <3>2
  <2>4. HoldsTriplets(g, nodes, key, m + 1)
    BY <2>2, <2>3, Zenon DEF HoldsTriplets
  <2> QED
    BY <2>4
<1> HIDE DEF A
<1>3. A = {}
  <2>1. SUFFICES ASSUME A # {}
                 PROVE  FALSE
    OBVIOUS
  <2>2. A \in SUBSET Nat
    BY DEF A
  <2>3. PICK m \in A : \A l \in A : m <= l
    BY <2>1, <2>2, LeastNumber
  <2>4. m \in Nat /\ m # 0
    BY <2>2, <2>3, <1>1
  <2>5. PICK l : l = m - 1
    OBVIOUS
  <2>6. l \in Nat /\ l + 1 = m /\ ~(m <= l)
    BY <2>4, <2>5
  <2>7. l \notin A
    BY <2>3, <2>6
  <2> QED
    BY <1>2, <2>6, <2>7
<1> QED
  BY <1>3 DEF A

\* Triplets computes them.
LEMMA TripletsHold ==
  ASSUME NEW nodes, NEW key, NEW n \in Nat, DOMAIN nodes = 1 .. n
  PROVE  HoldsTriplets(Triplets(nodes, key), nodes, key, n)
<1> DEFINE P(f) == f = [k \in DOMAIN nodes |-> TripletIn(f, nodes, key, k)]
<1>1. Triplets(nodes, key) = CHOOSE f : P(f)
  BY Zenon DEF Triplets, TripletIn
<1>2. \E f : P(f)
  <2>1. PICK f : HoldsTriplets(f, nodes, key, n)
    BY Zenon, TripletsExist
  <2>2. P(f)
    BY <2>1, Zenon DEF HoldsTriplets
  <2> QED
    BY <2>2
<1> HIDE DEF P
<1>3. P(Triplets(nodes, key))
  BY <1>1, <1>2, Zenon
<1> QED
  BY <1>3, Zenon DEF P, HoldsTriplets

\* Of the triplets R of n nodes, the first key is the session's, every further one
\* is the key before it, blinded once more, and a hop's secret comes from its keys.
ChainOK(R, nodes, key, n) ==
  /\ n > 0 => R[1].c = {key}
  /\ \A k \in 1 .. n - 1 :
       R[k + 1].c = R[k].c \cup {BlindingFactor(R[k].c, R[k].s)}
  /\ \A k \in 1 .. n : R[k].s = SharedSecret({OnionKey(nodes[k])} \cup R[k].c)

\* The triplets of generateSharedSecrets are such.
LEMMA TripletFacts ==
  ASSUME NEW nodes, NEW key, NEW n \in Nat, DOMAIN nodes = 1 .. n,
         NEW R, R = Triplets(nodes, key)
  PROVE  ChainOK(R, nodes, key, n)
<1>1. \A k \in 1 .. n : R[k] = TripletIn(R, nodes, key, k)
  BY TripletsHold DEF HoldsTriplets
<1>2. \A k \in 1 .. n :
        /\ k = 1 => R[k].c = {key}
        /\ k # 1 => R[k].c = R[k - 1].c \cup {BlindingFactor(R[k - 1].a, R[k - 1].s)}
        /\ R[k].a = R[k].c
        /\ R[k].s = SharedSecret({OnionKey(nodes[k])} \cup R[k].c)
  <2>1. TAKE k \in 1 .. n
  <2>2. PICK c : c = IF k = 1 THEN {key}
                     ELSE R[k - 1].c \cup {BlindingFactor(R[k - 1].a, R[k - 1].s)}
    BY Zenon
  <2>3. R[k] = [c |-> c, a |-> {} \cup c,
                s |-> SharedSecret({OnionKey(nodes[k])} \cup c)]
    BY <1>1, <2>2, ZenonT(60) DEF TripletIn, BlindBaseElement, BlindGroupElement
  <2>4. {} \cup c = c
    OBVIOUS
  <2> QED
    BY <2>2, <2>3, <2>4
<1>3. ASSUME NEW k \in 1 .. n - 1
      PROVE  R[k + 1].c = R[k].c \cup {BlindingFactor(R[k].c, R[k].s)}
  <2>1. PICK j : j = k + 1
    OBVIOUS
  <2>2. j \in 1 .. n /\ j # 1 /\ j - 1 = k /\ k \in 1 .. n
    BY <2>1
  <2>3. R[j].c = R[k].c \cup {BlindingFactor(R[k].a, R[k].s)}
    BY <1>2, <2>2, Zenon
  <2>4. R[k].a = R[k].c
    BY <1>2, <2>2, Zenon
  <2> QED
    BY <2>1, <2>3, <2>4, Zenon
<1>4. n > 0 => R[1].c = {key}
  <2>1. n > 0 => 1 \in 1 .. n
    OBVIOUS
  <2> QED
    BY <1>2, <2>1, Zenon
<1> QED
  BY <1>2, <1>3, <1>4 DEF ChainOK

\* The same, without a name for the triplets.
LEMMA TripletChain ==
  ASSUME NEW nodes, NEW key, NEW n \in Nat, DOMAIN nodes = 1 .. n
  PROVE  ChainOK(Triplets(nodes, key), nodes, key, n)
<1>1. PICK R : R = Triplets(nodes, key)
  OBVIOUS
<1>2. ChainOK(R, nodes, key, n)
  BY <1>1, TripletFacts
<1> QED
  BY <1>1, <1>2, Zenon

\* Different hashes and keys differ.
LEMMA KeyTags ==
  /\ \A p, q : SessionKey(p) = SessionKey(q) => p = q
  /\ \A p, P, s : SessionKey(p) # BlindingFactor(P, s)
  /\ \A p, m : SessionKey(p) # OnionKey(m)
  /\ \A P, s, m : BlindingFactor(P, s) # OnionKey(m)
  /\ \A P, s, Q, t : BlindingFactor(P, s) = BlindingFactor(Q, t) => P = Q
  /\ \A P, Q : SharedSecret(P) = SharedSecret(Q) => P = Q
  /\ \A P : SharedSecret(P) # DummySecret
BY DEF SessionKey, BlindingFactor, OnionKey, SharedSecret, DummySecret

\* The key of a hop has the session key and the blinding factors of the hops
\* before it, and no hop before it has the same.
KeyOK(R, p, k) ==
  /\ SessionKey(p) \in R[k].c
  /\ \A x \in R[k].c :
       x = SessionKey(p) \/ \E j \in 1 .. k - 1 : x = BlindingFactor(R[j].c, R[j].s)
  /\ \A j \in 1 .. k - 1 : R[j].c \subseteq R[k].c /\ R[j].c # R[k].c

\* That is so for every hop.
LEMMA KeyChain ==
  ASSUME NEW nodes, NEW p, NEW n \in Nat, DOMAIN nodes = 1 .. n,
         NEW R, R = Triplets(nodes, SessionKey(p))
  PROVE  \A k \in 1 .. n : KeyOK(R, p, k)
<1> DEFINE A == {k \in 1 .. n : ~KeyOK(R, p, k)}
<1>1. 1 \notin A
  <2>1. SUFFICES ASSUME n > 0
                 PROVE  KeyOK(R, p, 1)
    OBVIOUS
  <2>2. R[1].c = {SessionKey(p)}
    <3>1. ChainOK(R, nodes, SessionKey(p), n)
      BY TripletFacts
    <3> QED
      BY <2>1, <3>1, Zenon DEF ChainOK
  <2> QED
    BY <2>2 DEF KeyOK
<1>2. ASSUME NEW k \in 1 .. n - 1, k \notin A
      PROVE  k + 1 \notin A
  <2>1. PICK l : l = k + 1
    OBVIOUS
  <2>2. k \in 1 .. n /\ l \in 1 .. n
    BY <2>1
  <2>3. KeyOK(R, p, k)
    BY <1>2, <2>2
  <2>4. PICK b : b = BlindingFactor(R[k].c, R[k].s)
    OBVIOUS
  <2>5. R[l].c = R[k].c \cup {b}
    <3>1. ChainOK(R, nodes, SessionKey(p), n)
      BY TripletFacts
    <3> QED
      BY <2>1, <2>4, <3>1, Zenon DEF ChainOK
  <2>6. b \notin R[k].c
    <3>1. SUFFICES ASSUME b \in R[k].c
                   PROVE  FALSE
      OBVIOUS
    <3>2. b # SessionKey(p)
      BY Zenon, <2>4, KeyTags
    <3>3. PICK j \in 1 .. k - 1 : b = BlindingFactor(R[j].c, R[j].s)
      BY <2>3, <3>1, <3>2 DEF KeyOK
    <3>4. BlindingFactor(R[j].c, R[j].s) = BlindingFactor(R[k].c, R[k].s)
      BY Zenon, <2>4, <3>3
    <3>5. R[j].c = R[k].c
      BY <3>4, KeyTags
    <3> QED
      BY <2>3, <3>5 DEF KeyOK
  <2>7. SessionKey(p) \in R[l].c
    BY <2>3, <2>5 DEF KeyOK
  <2>8. ASSUME NEW x \in R[l].c, x # SessionKey(p)
        PROVE  \E j \in 1 .. l - 1 : x = BlindingFactor(R[j].c, R[j].s)
    <3>1. CASE x = b
      <4>1. k \in 1 .. l - 1
        BY <2>1
      <4> QED
        BY <2>4, <3>1, <4>1
    <3>2. CASE x \in R[k].c
      <4>1. PICK j \in 1 .. k - 1 : x = BlindingFactor(R[j].c, R[j].s)
        BY <2>3, <2>8, <3>2 DEF KeyOK
      <4>2. j \in 1 .. l - 1
        BY <2>1
      <4> QED
        BY Zenon, <4>1, <4>2
    <3> QED
      BY Zenon, <2>5, <3>1, <3>2
  <2>9. ASSUME NEW j \in 1 .. l - 1
        PROVE  R[j].c \subseteq R[l].c /\ R[j].c # R[l].c
    <3>1. j = k \/ j \in 1 .. k - 1
      BY <2>1
    <3>2. R[j].c \subseteq R[k].c
      BY Zenon, <2>3, <3>1 DEF KeyOK
    <3> QED
      BY <2>5, <2>6, <3>2
  <2>10. KeyOK(R, p, l)
    BY <2>7, <2>8, <2>9 DEF KeyOK
  <2> QED
    BY <2>1, <2>10
<1> HIDE DEF A
<1>3. A = {}
  <2>1. SUFFICES ASSUME A # {}
                 PROVE  FALSE
    OBVIOUS
  <2>2. A \in SUBSET Nat
    BY DEF A
  <2>3. PICK m \in A : \A l \in A : m <= l
    BY <2>1, <2>2, LeastNumber
  <2>4. m \in 1 .. n /\ m # 1
    BY <2>3, <1>1 DEF A
  <2>5. PICK l : l = m - 1
    OBVIOUS
  <2>6. l \in 1 .. n - 1 /\ l + 1 = m /\ ~(m <= l)
    BY <2>4, <2>5
  <2>7. l \notin A
    BY <2>3, <2>6
  <2> QED
    BY <1>2, <2>3, <2>6, <2>7
<1> QED
  BY <1>3 DEF A

\* Two hops, of one payment or of two, never have the same secret, also where a
\* node has several places in a path.
LEMMA SecretsDiffer ==
  ASSUME NEW f, NEW p, NEW n \in Nat, DOMAIN f = 1 .. n,
         NEW R, R = Triplets(f, SessionKey(p)), NEW i \in 1 .. n,
         NEW g, NEW q, NEW o \in Nat, DOMAIN g = 1 .. o,
         NEW S, S = Triplets(g, SessionKey(q)), NEW j \in 1 .. o,
         R[i].s = S[j].s
  PROVE  p = q /\ (f = g => i = j)
<1>1. KeyOK(R, p, i)
  BY KeyChain
<1>2. KeyOK(S, q, j)
  BY KeyChain
<1>0. ChainOK(R, f, SessionKey(p), n) /\ ChainOK(S, g, SessionKey(q), o)
  <2>1. ChainOK(Triplets(f, SessionKey(p)), f, SessionKey(p), n)
    BY TripletChain
  <2>2. ChainOK(Triplets(g, SessionKey(q)), g, SessionKey(q), o)
    BY TripletChain
  <2> QED
    BY <2>1, <2>2, Zenon
<1>3. R[i].s = SharedSecret({OnionKey(f[i])} \cup R[i].c)
  BY <1>0, Zenon DEF ChainOK
<1>4. S[j].s = SharedSecret({OnionKey(g[j])} \cup S[j].c)
  BY <1>0, Zenon DEF ChainOK
<1>5. {OnionKey(f[i])} \cup R[i].c = {OnionKey(g[j])} \cup S[j].c
  BY <1>3, <1>4, KeyTags, ZenonT(60)
<1>6. \A x \in R[i].c : \A m : x # OnionKey(m)
  BY <1>1, KeyTags DEF KeyOK
<1>7. \A x \in S[j].c : \A m : x # OnionKey(m)
  BY <1>2, KeyTags DEF KeyOK
<1>8. R[i].c = S[j].c
  BY <1>5, <1>6, <1>7, ZenonT(60)
<1>9. p = q
  <2>1. SessionKey(p) \in S[j].c
    BY <1>1, <1>8 DEF KeyOK
  <2> QED
    BY <1>2, <2>1, KeyTags DEF KeyOK
<1>10. ASSUME f = g
       PROVE  i = j
  <2>1. n = o
    BY <1>10
  <2>2. R = S
    BY <1>9, <1>10
  <2>3. i \in 1 .. j - 1 \/ j \in 1 .. i - 1 \/ i = j
    OBVIOUS
  <2> QED
    BY <1>1, <1>2, <1>8, <2>2, <2>3 DEF KeyOK
<1> QED
  BY <1>9, <1>10

-----------------------------------------------------------------------------
(***************************************************************************)
(* Errors and their layers.                                                *)
(***************************************************************************)

\* A path that a payment may take has as many nodes as DecryptError has rounds,
\* or fewer.
LEMMA PathFacts ==
  ASSUME NEW p \in Payment, NEW f \in PathsOf[p]
  PROVE  /\ Len(f) \in 1 .. NumMaxHops
         /\ DOMAIN f = 1 .. Len(f)
         /\ \A k \in 1 .. Len(f) : f[k] \in Node
<1>1. f \in Path
  BY OnionErrorAssumption
<1>2. PICK n \in 1 .. NumMaxHops : f \in [1 .. n -> Node]
  BY <1>1 DEF Path
<1>3. n \in Nat /\ f = [k \in 1 .. n |-> f[k]]
  BY <1>2, OnionErrorAssumption
<1>4. Len(f) = n
  BY <1>3, FcnIsSeq
<1> QED
  BY <1>2, <1>4

\* A message is a sequence of cells of plaintext.
LEMMA PlaintextFacts ==
  ASSUME NEW e \in Message
  PROVE  /\ IsSeq(Plaintext(e))
         /\ Len(Plaintext(e)) = SizeOf[e]
         /\ \A k \in 1 .. SizeOf[e] : Plaintext(e)[k] = {<<"msg", e, k>>}
<1>1. SizeOf[e] \in Nat
  BY OnionErrorAssumption
<1>2. PICK f : f = Plaintext(e)
  OBVIOUS
<1>3. f = [k \in 1 .. SizeOf[e] |-> {<<"msg", e, k>>}]
  BY <1>2 DEF Plaintext
<1>4. f = [k \in 1 .. SizeOf[e] |-> f[k]]
  BY <1>3
<1>5. IsSeq(f) /\ Len(f) = SizeOf[e]
  BY <1>1, <1>4, FcnIsSeq
<1> QED
  BY <1>2, <1>3, <1>5, Zenon

\* Neither a layer nor noise adds a MAC to a cell or takes one away.
LEMMA UmParts ==
  /\ \A cell, s, k : UmPart(Xor(cell, {<<"ammag", s, k>>})) = UmPart(cell)
  /\ \A cell : UmPart(Xor(cell, Noise)) = UmPart(cell)
  /\ \A s, d : UmPart(UmMac(s, d)) = UmMac(s, d)
BY DEF UmPart, Xor, Noise, UmMac

\* Xor with a value puts it into a cell or takes it out.
LEMMA XorOne ==
  \A cell, x : x \notin cell => /\ Xor(cell, {x}) = cell \cup {x}
                               /\ Xor(cell \cup {x}, {x}) = cell
BY DEF Xor

\* onionEncrypt keeps the length of an error, and its MAC.
LEMMA OnionEncryptFacts ==
  ASSUME NEW s, NEW data, IsSeq(data)
  PROVE  /\ IsSeq(OnionEncrypt(s, data))
         /\ Len(OnionEncrypt(s, data)) = Len(data)
         /\ \A k \in 1 .. Len(data) :
              OnionEncrypt(s, data)[k] = Xor(data[k], {<<"ammag", s, k>>})
         /\ Len(data) > 0 => UmPart(OnionEncrypt(s, data)[1]) = UmPart(data[1])
<1>0. PICK r : r = OnionEncrypt(s, data)
  OBVIOUS
<1>1. Len(data) \in Nat /\ DOMAIN data = 1 .. Len(data)
  BY SeqOver DEF IsSeq
<1>2. r = [k \in 1 .. Len(data) |-> Xor(data[k], {<<"ammag", s, k>>})]
  BY <1>0, <1>1 DEF OnionEncrypt
<1>3. r = [k \in 1 .. Len(data) |-> r[k]]
  BY <1>2
<1>4. IsSeq(r) /\ Len(r) = Len(data)
  BY <1>1, <1>3, FcnIsSeq
<1>5. \A k \in 1 .. Len(data) : r[k] = Xor(data[k], {<<"ammag", s, k>>})
  BY <1>2
<1>6. Len(data) > 0 => UmPart(r[1]) = UmPart(data[1])
  <2>1. SUFFICES ASSUME Len(data) > 0
                 PROVE  UmPart(r[1]) = UmPart(data[1])
    OBVIOUS
  <2>2. 1 \in 1 .. Len(data)
    BY <1>1, <2>1
  <2>3. r[1] = Xor(data[1], {<<"ammag", s, 1>>})
    BY <1>5, <2>2, Zenon
  <2>4. UmPart(Xor(data[1], {<<"ammag", s, 1>>})) = UmPart(data[1])
    BY UmParts, ZenonT(60)
  <2> QED
    BY <2>3, <2>4
<1> QED
  BY <1>0, <1>4, <1>5, <1>6, Zenon

\* Layers keep the length of an error.
LEMMA LayersSeq ==
  ASSUME NEW orig, IsSeq(orig), NEW enc, NEW a, NEW r, r = Layers(orig, enc, a)
  PROVE  /\ IsSeq(r)
         /\ Len(r) = Len(orig)
         /\ \A k \in 1 .. Len(orig) :
              r[k] = orig[k] \cup {<<"ammag", enc[j], k>> : j \in a .. Len(enc)}
<1>1. Len(orig) \in Nat
  BY DEF IsSeq
<1>2. r = [k \in 1 .. Len(orig) |-> r[k]]
  BY DEF Layers
<1>3. IsSeq(r) /\ Len(r) = Len(orig)
  BY Zenon, <1>1, <1>2, FcnIsSeq
<1> QED
  BY <1>3 DEF Layers

\* A hop adds its layer to those of the hops after it, and a round of the sender
\* takes it off.
LEMMA AddLayer ==
  ASSUME NEW orig, IsSeq(orig), \A k \in 1 .. Len(orig) : \A s : <<"ammag", s, k>> \notin orig[k],
         NEW enc, Len(enc) \in Nat, NEW a \in 1 .. Len(enc),
         \A i, j \in 1 .. Len(enc) : enc[i] = enc[j] => i = j
  PROVE  /\ OnionEncrypt(enc[a], Layers(orig, enc, a + 1)) = Layers(orig, enc, a)
         /\ OnionEncrypt(enc[a], Layers(orig, enc, a)) = Layers(orig, enc, a + 1)
<1>1. PICK u : u = Layers(orig, enc, a)
  OBVIOUS
<1>2. PICK v : v = Layers(orig, enc, a + 1)
  OBVIOUS
<1>3. PICK x : x = OnionEncrypt(enc[a], v)
  OBVIOUS
<1>4. PICK y : y = OnionEncrypt(enc[a], u)
  OBVIOUS
<1>5. ASSUME NEW k \in 1 .. Len(orig)
      PROVE  /\ <<"ammag", enc[a], k>> \notin v[k]
             /\ u[k] = v[k] \cup {<<"ammag", enc[a], k>>}
  <2>1. u[k] = orig[k] \cup {<<"ammag", enc[j], k>> : j \in a .. Len(enc)}
    BY <1>1, LayersSeq
  <2>2. v[k] = orig[k] \cup {<<"ammag", enc[j], k>> : j \in a + 1 .. Len(enc)}
    BY <1>2, LayersSeq
  <2>3. ASSUME NEW j \in a + 1 .. Len(enc)
        PROVE  <<"ammag", enc[j], k>> # <<"ammag", enc[a], k>>
    <3>1. j \in 1 .. Len(enc) /\ j # a
      OBVIOUS
    <3> QED
      BY <3>1
  <2>4. <<"ammag", enc[a], k>> \notin v[k]
    BY <2>2, <2>3
  <2>5. a .. Len(enc) = (a + 1 .. Len(enc)) \cup {a}
    OBVIOUS
  <2>6. {<<"ammag", enc[j], k>> : j \in a .. Len(enc)}
          = {<<"ammag", enc[j], k>> : j \in a + 1 .. Len(enc)} \cup {<<"ammag", enc[a], k>>}
    BY <2>5, Zenon
  <2> QED
    BY <2>1, <2>2, <2>4, <2>6, ZenonT(60)
<1>6. IsSeq(u) /\ Len(u) = Len(orig) /\ IsSeq(v) /\ Len(v) = Len(orig)
  BY <1>1, <1>2, LayersSeq
<1>7. /\ IsSeq(x) /\ Len(x) = Len(orig)
      /\ \A k \in 1 .. Len(orig) : x[k] = Xor(v[k], {<<"ammag", enc[a], k>>})
  BY <1>3, <1>6, OnionEncryptFacts, ZenonT(60)
<1>8. /\ IsSeq(y) /\ Len(y) = Len(orig)
      /\ \A k \in 1 .. Len(orig) : y[k] = Xor(u[k], {<<"ammag", enc[a], k>>})
  BY <1>4, <1>6, OnionEncryptFacts, ZenonT(60)
<1>9. ASSUME NEW k \in 1 .. Len(orig)
      PROVE  x[k] = u[k] /\ y[k] = v[k]
  <2>1. PICK z : z = <<"ammag", enc[a], k>>
    BY Zenon
  <2>2. z \notin v[k] /\ u[k] = v[k] \cup {z}
    BY <1>5, <2>1, Zenon
  <2>3. x[k] = Xor(v[k], {z}) /\ y[k] = Xor(u[k], {z})
    BY <1>7, <1>8, <2>1, Zenon
  <2> QED
    BY ZenonT(60), <2>2, <2>3, XorOne
<1>10. x = u
  BY Zenon, <1>6, <1>7, <1>9, SeqEqual
<1>11. y = v
  BY <1>6, <1>8, <1>9, SeqEqual
<1> QED
  BY Zenon, <1>1, <1>2, <1>3, <1>4, <1>10, <1>11

\* No layers.
LEMMA NoLayers ==
  ASSUME NEW orig, IsSeq(orig), NEW enc, Len(enc) \in Nat
  PROVE  Layers(orig, enc, Len(enc) + 1) = orig
<1>1. Len(enc) + 1 .. Len(enc) = {}
  OBVIOUS
<1>2. PICK r : r = Layers(orig, enc, Len(enc) + 1)
  OBVIOUS
<1>3. IsSeq(r) /\ Len(r) = Len(orig) /\ \A k \in 1 .. Len(orig) : r[k] = orig[k]
  <2>1. PICK a : a = Len(enc) + 1
    OBVIOUS
  <2>2. /\ IsSeq(r) /\ Len(r) = Len(orig)
        /\ \A k \in 1 .. Len(orig) :
             r[k] = orig[k] \cup {<<"ammag", enc[j], k>> : j \in a .. Len(enc)}
    BY <1>2, <2>1, LayersSeq
  <2> QED
    BY <1>1, <2>1, <2>2, ZenonT(60)
<1>4. r = orig
  BY <1>3, SeqEqual
<1> QED
  BY <1>2, <1>4

-----------------------------------------------------------------------------
(***************************************************************************)
(* The invariant holds initially, and what it says of one payment stays    *)
(* true when nothing of that payment changes.                              *)
(***************************************************************************)

\* The invariant holds initially.
LEMMA InitInv == Init => ErrorInv
<1> SUFFICES ASSUME Init
             PROVE  ErrorInv
  BY Zenon
<1>1. ShapesOK
  BY DEF Init, ShapesOK, Abs!ReportInit
<1>2. faults \in 0 .. MaxFaults
  BY OnionErrorAssumption DEF Init
<1>3. ASSUME NEW p \in Payment
      PROVE  HopsOK(p) /\ ErrorOK(p) /\ SenderOK(p)
  <2>1. path[p] \in PathsOf[p]
    BY DEF Init
  <2>2. Len(path[p]) \in 1 .. NumMaxHops /\ DOMAIN path[p] = 1 .. Len(path[p])
    BY <2>1, PathFacts
  <2>3. encrypter[p] = <<>> /\ Last(p) = 0
    BY DEF Init, Last
  <2>4. ephemeral[p] = {SessionKey(p)}
    <3>1. ephemeral[p] = {} \cup {SessionKey(p)}
      BY DEF Init, BlindBaseElement, BlindGroupElement
    <3> QED
      BY <3>1
  <2>5. T(p)[1].c = {SessionKey(p)}
    <3>1. PICK n : n = Len(path[p])
      BY Zenon
    <3>2. n \in Nat /\ n > 0 /\ DOMAIN path[p] = 1 .. n
      BY <2>2, <3>1, OnionErrorAssumption
    <3> QED
      <4>1. ChainOK(Triplets(path[p], SessionKey(p)), path[p], SessionKey(p), n)
        BY <3>2, TripletChain
      <4> QED
        BY <3>2, <4>1, Zenon DEF T, ChainOK
  <2>6. IsSeq(encrypter[p])
    BY <2>3 DEF IsSeq
  <2>7. HopsOK(p)
    <3>1. Last(p) <= Len(path[p]) /\ 1 .. Last(p) = {} /\ Last(p) + 1 = 1
      BY <2>2, <2>3
    <3> QED
      BY <2>1, <2>4, <2>5, <2>6, <3>1, Zenon DEF HopsOK
  <2>8. ErrorOK(p)
    BY <2>3 DEF ErrorOK, Init, Abs!ReportInit
  <2>9. dec[p] = [state |-> "idle", circuit |-> p] /\ report[p] = Abs!Pending
    BY Zenon DEF Init, Idle, Abs!ReportInit
  <2>10. SenderOK(p)
    BY <2>9 DEF SenderOK, Outside
  <2> QED
    BY <2>7, <2>8, <2>10
<1> QED
  BY <1>1, <1>2, <1>3 DEF ErrorInv

\* The faults counted are a number.
LEMMA FaultsInNat == \A n \in 0 .. MaxFaults : n \in Nat
BY OnionErrorAssumption

\* So are the lengths of messages.
LEMMA LengthInNat == \A e \in Message : Len(Plaintext(e)) \in Nat
BY PlaintextFacts, OnionErrorAssumption

\* So are the lengths of paths.
LEMMA PathsInNat == \A n \in 1 .. NumMaxHops : n \in Nat
BY OnionErrorAssumption

\* And those of parts of paths.
LEMMA HopsInNat ==
  ASSUME NEW n \in 1 .. NumMaxHops, NEW k \in 0 .. n
  PROVE  n \in Nat /\ k \in Nat
BY OnionErrorAssumption

\* A number up to another one.
LEMMA NatBelow == \A n \in Nat : \A k \in 0 .. n : k \in Nat
OBVIOUS

\* The message of a failure.
LEMMA FailedMsg == \A f, n, m : f = Abs!Failed(n, m) => f.msg = m
BY DEF Abs!Failed

\* The length of that message.
LEMMA FailureLength ==
  ASSUME NEW p \in Payment, ErrorOK(p), at[p] > 0
  PROVE  Len(failure[p].msg) \in Nat
<1>1. PICK e \in Message : failure[p] = Abs!Failed(path[p][Last(p)], Plaintext(e))
  BY Zenon DEF ErrorOK
<1>2. failure[p].msg = Plaintext(e)
  BY <1>1, FailedMsg
<1> QED
  BY <1>2, LengthInNat

\* A failure is not the lack of one.
LEMMA FailedIsFailure == \A n, m : Abs!Failed(n, m) # Abs!NoFailure
<1>1. \A n, m : Abs!Failed(n, m).state = "failed" /\ Abs!NoFailure.state = "none"
  BY DEF Abs!Failed, Abs!NoFailure
<1> QED
  BY <1>1

\* One more fault leaves room for one more cell.
LEMMA LongerByOne ==
  ASSUME NEW m \in Nat, NEW f \in Nat, NEW l \in 1 .. 1 + m + f, NEW n \in 1 .. l + 1
  PROVE  n \in 1 .. 1 + m + (f + 1)
OBVIOUS

\* More faults leave room for longer errors.
LEMMA LongerStill ==
  ASSUME NEW m \in Nat, NEW f \in Nat, NEW g \in Nat, f <= g,
         NEW l \in 1 .. 1 + m + f
  PROVE  l \in 1 .. 1 + m + g
OBVIOUS

\* A number of hops is none or more.
LEMMA NoneOrMore ==
  ASSUME NEW n \in Nat, NEW k \in 0 .. n
  PROVE  (k > 0 \/ k = 0) /\ ~(k > 0 /\ k = 0)
OBVIOUS

\* None is not one.
LEMMA NoneIsNotOne == 0 # 1 /\ ~(0 > 0) /\ \A n \in Nat : 0 \in 0 .. n
OBVIOUS

\* The number of a hop.
LEMMA HopNumber ==
  ASSUME NEW n \in Nat, NEW k \in 1 .. n
  PROVE  k \in Nat /\ k > 0 /\ k # 0 /\ k \in 0 .. n
OBVIOUS

\* The number of the hop before.
LEMMA HopBefore ==
  ASSUME NEW n \in Nat, NEW k \in 0 .. n, k > 1, NEW a, a = k - 1
  PROVE  a + 1 = k /\ a \in 1 .. n /\ k > 0 /\ k # 1 /\ a > 0
OBVIOUS

\* The keys and secrets of a payment stay as they are.
LEMMA HopsStay ==
  ASSUME NEW p \in Payment, HopsOK(p), path' = path,
         encrypter'[p] = encrypter[p], ephemeral'[p] = ephemeral[p]
  PROVE  HopsOK(p)'
BY Zenon DEF HopsOK, T, Last

\* An error in flight stays as it is.
LEMMA ErrorStays ==
  ASSUME NEW p \in Payment, ErrorOK(p), path' = path,
         encrypter'[p] = encrypter[p], at'[p] = at[p], blob'[p] = blob[p],
         failure'[p] = failure[p], p \in spoiled' => p \in spoiled \/ at[p] > 0,
         p \in spoiled => p \in spoiled', p \in foreign <=> p \in foreign',
         faults \in Nat, faults' \in Nat, faults <= faults'
  PROVE  ErrorOK(p)'
<1>1. Last(p)' = Last(p)
  BY ZenonT(60) DEF Last
<1>2. CASE at[p] > 0
  <2>1. PICK e \in Message : failure[p] = Abs!Failed(path[p][Last(p)], Plaintext(e))
    BY Zenon, <1>2 DEF ErrorOK
  <2>2. Len(failure[p].msg) \in Nat
    BY <1>2, FailureLength, Zenon
  <2>3. /\ IsSeq(blob[p])
        /\ Len(blob[p]) \in 1 .. 1 + Len(failure[p].msg) + faults
        /\ MacOK(p, blob[p][1])
        /\ p \in foreign => p \in spoiled
        /\ p \notin spoiled => blob[p] = Wrapped(p, at[p])
        /\ at[p] \in 0 .. Last(p)
    BY <1>2, Zenon DEF ErrorOK
  <2>4. TrueMac(p)' = TrueMac(p)
    BY <1>1, Zenon DEF TrueMac
  <2>5. Wrapped(p, at[p])' = Wrapped(p, at[p])
    <3>1. Original(p)' = Original(p)
      BY <2>4, Zenon DEF Original
    <3> QED
      BY <3>1, Zenon DEF Wrapped
  <2>6. Len(blob'[p]) \in 1 .. 1 + Len(failure'[p].msg) + faults'
    <3>1. Len(blob[p]) \in 1 .. 1 + Len(failure[p].msg) + faults'
      BY <2>2, <2>3, LongerStill, Zenon
    <3> QED
      BY <3>1, Zenon
  <2>7. failure'[p] = Abs!Failed(path'[p][Last(p)'], Plaintext(e))
    BY <1>1, <2>1, Zenon
  <2>8. at'[p] \in 0 .. Last(p)'
    BY <1>1, <2>3, Zenon
  <2>9. IsSeq(blob'[p]) /\ MacOK(p, blob[p][1])' /\ (p \in foreign' => p \in spoiled')
    BY <2>3, <2>4, ZenonT(60) DEF MacOK
  <2>10. p \notin spoiled' => blob'[p] = Wrapped(p, at[p])'
    BY <2>3, <2>5, Zenon
  <2>11. at'[p] # 0
    BY <1>2
  <2> QED
    BY <2>6, <2>7, <2>8, <2>9, <2>10, <2>11, Zenon DEF ErrorOK
<1>3. CASE at[p] = 0
  <2>1. /\ at[p] \in 0 .. Last(p)
        /\ failure[p] = Abs!NoFailure /\ blob[p] = <<>> /\ p \notin spoiled
        /\ p \notin foreign'
    BY <1>3, Zenon DEF ErrorOK
  <2>2. ~(at'[p] > 0)
    BY <1>3
  <2>3. p \notin spoiled'
    BY <2>1, <2>2, Zenon
  <2> QED
    BY <1>1, <1>3, <2>1, <2>2, <2>3, Zenon DEF ErrorOK
<1>4. at[p] > 0 \/ at[p] = 0
  <2>1. at[p] \in 0 .. Last(p)
    BY ZenonT(60) DEF ErrorOK
  <2> QED
    BY <2>1
<1> QED
  BY <1>2, <1>3, <1>4

\* The sender's state stays as it is.
LEMMA SenderStays ==
  ASSUME NEW p \in Payment, SenderOK(p), path' = path,
         encrypter'[p] = encrypter[p], at'[p] = at[p], dec'[p] = dec[p],
         failure'[p] = failure[p], report'[p] = report[p],
         p \in spoiled => p \in spoiled', p \in foreign <=> p \in foreign'
  PROVE  SenderOK(p)'
<1>1. Last(p)' = Last(p) /\ TrueMac(p)' = TrueMac(p)
  BY ZenonT(60) DEF Last, TrueMac
<1>2. LoopOK(p) => LoopOK(p)'
  <2>1. Original(p)' = Original(p)
    BY <1>1, Zenon DEF Original
  <2>2. Wrapped(p, dec[p].i)' = Wrapped(p, dec[p].i)
    BY <2>1, Zenon DEF Wrapped
  <2> QED
    BY ZenonT(60), <1>1, <2>2 DEF LoopOK, MacOK
<1> QED
  BY <1>2 DEF SenderOK

\* Nothing of payment p changes in a step that concerns another one.
LEMMA OthersStay ==
  ASSUME NEW p \in Payment, HopsOK(p), ErrorOK(p), SenderOK(p), path' = path,
         encrypter'[p] = encrypter[p], ephemeral'[p] = ephemeral[p],
         at'[p] = at[p], blob'[p] = blob[p], dec'[p] = dec[p],
         failure'[p] = failure[p], report'[p] = report[p],
         p \in spoiled <=> p \in spoiled', p \in foreign <=> p \in foreign',
         faults \in Nat, faults' \in Nat, faults <= faults'
  PROVE  HopsOK(p)' /\ ErrorOK(p)' /\ SenderOK(p)'
BY HopsStay, ErrorStays, SenderStays, ZenonT(30)

-----------------------------------------------------------------------------
(***************************************************************************)
(* What the invariant says of a payment.                                   *)
(***************************************************************************)

\* The path and the triplets of a payment.
LEMMA HopFacts ==
  ASSUME NEW p \in Payment, HopsOK(p)
  PROVE  /\ Len(path[p]) \in 1 .. NumMaxHops
         /\ DOMAIN path[p] = 1 .. Len(path[p])
         /\ \A k \in 1 .. Len(path[p]) : path[p][k] \in Node
         /\ Last(p) \in 0 .. Len(path[p])
         /\ \A k \in 1 .. Len(path[p]) - 1 :
              T(p)[k + 1].c = T(p)[k].c \cup {BlindingFactor(T(p)[k].c, T(p)[k].s)}
         /\ \A k \in 1 .. Len(path[p]) :
              T(p)[k].s = SharedSecret({OnionKey(path[p][k])} \cup T(p)[k].c)
<1>1. path[p] \in PathsOf[p]
  BY Zenon DEF HopsOK
<1>2. /\ Len(path[p]) \in 1 .. NumMaxHops
      /\ DOMAIN path[p] = 1 .. Len(path[p])
      /\ \A k \in 1 .. Len(path[p]) : path[p][k] \in Node
  BY Zenon, <1>1, PathFacts
<1>3. Last(p) \in 0 .. Len(path[p])
  BY <1>2 DEF HopsOK, Last, IsSeq
<1>4. PICK n : n = Len(path[p])
  BY Zenon
<1>5. PICK f : f = path[p]
  OBVIOUS
<1>6. PICK R : R = T(p)
  OBVIOUS
<1>7. PICK key : key = SessionKey(p)
  OBVIOUS
<1>8. n \in Nat /\ DOMAIN f = 1 .. n
  BY <1>2, <1>4, <1>5, OnionErrorAssumption
<1>9. R = Triplets(f, key)
  BY Zenon, <1>5, <1>6, <1>7 DEF T
<1>10. /\ \A k \in 1 .. n - 1 :
            R[k + 1].c = R[k].c \cup {BlindingFactor(R[k].c, R[k].s)}
       /\ \A k \in 1 .. n : R[k].s = SharedSecret({OnionKey(f[k])} \cup R[k].c)
  <2>1. ChainOK(Triplets(f, key), f, key, n)
    BY <1>8, TripletChain
  <2>2. ChainOK(R, f, key, n)
    BY <1>9, <2>1, Zenon
  <2> QED
    BY <2>2, Zenon DEF ChainOK
<1> QED
  BY <1>2, <1>3, <1>4, <1>5, <1>6, <1>10, Zenon

\* No two hops have the same secret.
LEMMA DifferentSecrets ==
  ASSUME NEW p \in Payment, HopsOK(p), NEW i \in 1 .. Len(path[p]),
         NEW q \in Payment, HopsOK(q), NEW j \in 1 .. Len(path[q]),
         T(p)[i].s = T(q)[j].s
  PROVE  p = q /\ i = j
<1>1. PICK f : f = path[p]
  OBVIOUS
<1>2. PICK g : g = path[q]
  OBVIOUS
<1>3. PICK n : n = Len(path[p])
  OBVIOUS
<1>4. PICK o : o = Len(path[q])
  OBVIOUS
<1>5. PICK R : R = T(p)
  OBVIOUS
<1>6. PICK S : S = T(q)
  BY ZenonT(60)
<1>7. n \in Nat /\ DOMAIN f = 1 .. n /\ R = Triplets(f, SessionKey(p)) /\ i \in 1 .. n
  <2>1. n \in 1 .. NumMaxHops /\ DOMAIN f = 1 .. n
    BY <1>1, <1>3, HopFacts, Zenon
  <2>2. n \in Nat
    BY <2>1, PathsInNat, Zenon
  <2> QED
    BY <1>1, <1>3, <1>5, <2>1, <2>2, Zenon DEF T
<1>8. o \in Nat /\ DOMAIN g = 1 .. o /\ S = Triplets(g, SessionKey(q)) /\ j \in 1 .. o
  <2>1. o \in 1 .. NumMaxHops /\ DOMAIN g = 1 .. o
    BY <1>2, <1>4, HopFacts, Zenon
  <2>2. o \in Nat
    BY <2>1, PathsInNat, Zenon
  <2> QED
    BY <1>2, <1>4, <1>6, <2>1, <2>2, Zenon DEF T
<1>9. R[i].s = S[j].s
  BY Zenon, <1>5, <1>6
<1>10. p = q /\ (f = g => i = j)
  BY <1>7, <1>8, <1>9, SecretsDiffer
<1> QED
  BY <1>1, <1>2, <1>10

\* The secrets of a payment's hops differ.
LEMMA EncryptersDiffer ==
  ASSUME NEW p \in Payment, HopsOK(p)
  PROVE  /\ Len(encrypter[p]) \in Nat
         /\ \A i, j \in 1 .. Len(encrypter[p]) :
              encrypter[p][i] = encrypter[p][j] => i = j
<1>1. Len(encrypter[p]) \in 0 .. Len(path[p]) /\ Len(path[p]) \in Nat
  BY HopFacts, HopsInNat, Zenon DEF Last
<1>2. ASSUME NEW i \in 1 .. Len(encrypter[p]), NEW j \in 1 .. Len(encrypter[p]),
             encrypter[p][i] = encrypter[p][j]
      PROVE  i = j
  <2>1. i \in 1 .. Len(path[p]) /\ j \in 1 .. Len(path[p])
    BY <1>1
  <2>2. T(p)[i].s = T(p)[j].s
    BY <1>2 DEF HopsOK, Last
  <2> QED
    BY <2>1, <2>2, DifferentSecrets
<1>3. Len(encrypter[p]) \in Nat
  BY <1>1, NatBelow, ZenonT(60)
<1> QED
  BY <1>2, <1>3, Zenon

\* The error that the failing hop encrypted.
LEMMA OriginalFacts ==
  ASSUME NEW e \in Message, NEW s, NEW o,
         o = <<UmMac(s, Plaintext(e))>> \o Plaintext(e)
  PROVE  /\ IsSeq(o)
         /\ Len(o) = 1 + SizeOf[e]
         /\ o[1] = UmMac(s, Plaintext(e))
         /\ Tail(o) = Plaintext(e)
         /\ \A k \in 1 .. Len(o) : \A t : <<"ammag", t, k>> \notin o[k]
<1>1. SizeOf[e] \in Nat
  BY OnionErrorAssumption
<1>2. /\ IsSeq(Plaintext(e))
      /\ Len(Plaintext(e)) = SizeOf[e]
      /\ \A k \in 1 .. SizeOf[e] : Plaintext(e)[k] = {<<"msg", e, k>>}
  BY PlaintextFacts
<1>3. PICK x : x = UmMac(s, Plaintext(e))
  OBVIOUS
<1>4. PICK m : m = Plaintext(e)
  OBVIOUS
<1>5. /\ IsSeq(o)
      /\ Len(o) = 1 + SizeOf[e]
      /\ o[1] = x
      /\ \A k \in 2 .. 1 + SizeOf[e] : o[k] = Plaintext(e)[k - 1]
      /\ Tail(o) = Plaintext(e)
  <2>1. IsSeq(m) /\ Len(m) = SizeOf[e]
    BY <1>2, <1>4
  <2>2. /\ IsSeq(<<x>> \o m)
        /\ Len(<<x>> \o m) = 1 + SizeOf[e]
        /\ (<<x>> \o m)[1] = x
        /\ \A k \in 2 .. 1 + SizeOf[e] : (<<x>> \o m)[k] = m[k - 1]
        /\ Tail(<<x>> \o m) = m
    <3>1. /\ IsSeq(<<x>> \o m)
          /\ Len(<<x>> \o m) = 1 + Len(m)
          /\ (<<x>> \o m)[1] = x
          /\ \A k \in 2 .. 1 + Len(m) : (<<x>> \o m)[k] = m[k - 1]
          /\ Tail(<<x>> \o m) = m
      BY <2>1, ConsSeq, Zenon
    <3> QED
      BY <2>1, <3>1, Zenon
  <2>3. o = <<x>> \o m
    BY <1>3, <1>4
  <2> QED
    BY <1>4, <2>2, <2>3, Zenon
<1>6. ASSUME NEW k \in 1 .. Len(o), NEW t
      PROVE  <<"ammag", t, k>> \notin o[k]
  <2>1. CASE k = 1
    BY <1>3, <1>5, <2>1 DEF UmMac
  <2>2. CASE k # 1
    <3>1. PICK j : j = k - 1
      OBVIOUS
    <3>2. k \in 2 .. 1 + SizeOf[e] /\ j \in 1 .. SizeOf[e]
      BY <1>1, <1>5, <2>2, <3>1
    <3>3. o[k] = {<<"msg", e, j>>}
      BY <1>2, <1>5, <3>1, <3>2
    <3> QED
      BY <3>3
  <2> QED
    BY Zenon, <2>1, <2>2
<1> QED
  BY Zenon, <1>3, <1>5, <1>6

\* There is an error in flight exactly if a hop has reported a failure.
LEMMA FailureFacts ==
  ASSUME NEW p \in Payment, HopsOK(p), ErrorOK(p)
  PROVE  /\ at[p] \in 0 .. Last(p)
         /\ Last(p) \in Nat
         /\ failure[p] = Abs!NoFailure <=> at[p] = 0
<1>1. at[p] \in 0 .. Last(p) /\ Last(p) \in Nat
  BY HopFacts, HopsInNat, Zenon DEF ErrorOK
<1>2. at[p] = 0 => failure[p] = Abs!NoFailure
  BY Zenon DEF ErrorOK
<1>3. at[p] > 0 => failure[p] # Abs!NoFailure
  BY FailedIsFailure, Zenon DEF ErrorOK
<1>4. (at[p] > 0 \/ at[p] = 0) /\ ~(at[p] > 0 /\ at[p] = 0)
  BY <1>1, NoneOrMore, Zenon
<1> QED
  BY <1>1, <1>2, <1>3, <1>4, Zenon

\* A reported failure has the node and the message of the last hop so far.
LEMMA ReportedFailure ==
  ASSUME NEW p \in Payment, HopsOK(p), ErrorOK(p), at[p] > 0
  PROVE  \E e \in Message :
           /\ failure[p] = Abs!Failed(path[p][Last(p)], Plaintext(e))
           /\ failure[p].msg = Plaintext(e)
           /\ IsSeq(Original(p))
           /\ Len(Original(p)) = 1 + SizeOf[e]
           /\ Len(failure[p].msg) = SizeOf[e]
           /\ Original(p)[1] = TrueMac(p)
           /\ Tail(Original(p)) = failure[p].msg
           /\ \A k \in 1 .. Len(Original(p)) :
                \A t : <<"ammag", t, k>> \notin Original(p)[k]
<1>1. PICK e \in Message : failure[p] = Abs!Failed(path[p][Last(p)], Plaintext(e))
  BY Zenon DEF ErrorOK
<1>2. failure[p].msg = Plaintext(e)
  BY <1>1 DEF Abs!Failed
<1>3. PICK s : s = encrypter[p][Last(p)]
  OBVIOUS
<1>4. PICK o : o = Original(p)
  OBVIOUS
<1>5. o = <<UmMac(s, Plaintext(e))>> \o Plaintext(e)
  BY Zenon, <1>2, <1>3, <1>4 DEF Original, TrueMac
<1>6. TrueMac(p) = UmMac(s, Plaintext(e))
  BY <1>2, <1>3 DEF TrueMac
<1>7. /\ IsSeq(o)
      /\ Len(o) = 1 + SizeOf[e]
      /\ o[1] = UmMac(s, Plaintext(e))
      /\ Tail(o) = Plaintext(e)
      /\ \A k \in 1 .. Len(o) : \A t : <<"ammag", t, k>> \notin o[k]
  BY <1>5, OriginalFacts, Zenon
<1>8. Len(failure[p].msg) = SizeOf[e]
  BY <1>2, PlaintextFacts
<1> QED
  BY <1>1, <1>2, <1>4, <1>6, <1>7, <1>8, ZenonT(60)

\* The layer of hop a, put on or taken off.
LEMMA OneLayer ==
  ASSUME NEW p \in Payment, HopsOK(p), ErrorOK(p), at[p] > 0, NEW a \in 1 .. Last(p)
  PROVE  /\ OnionEncrypt(encrypter[p][a], Wrapped(p, a + 1)) = Wrapped(p, a)
         /\ OnionEncrypt(encrypter[p][a], Wrapped(p, a)) = Wrapped(p, a + 1)
         /\ Wrapped(p, Last(p) + 1) = Original(p)
<1>1. PICK enc : enc = encrypter[p]
  OBVIOUS
<1>2. PICK o : o = Original(p)
  OBVIOUS
<1>3. /\ Len(enc) \in Nat
      /\ \A i, j \in 1 .. Len(enc) : enc[i] = enc[j] => i = j
  BY ZenonT(60), <1>1, EncryptersDiffer
<1>4. /\ IsSeq(o)
      /\ \A k \in 1 .. Len(o) : \A t : <<"ammag", t, k>> \notin o[k]
  BY Zenon, <1>2, ReportedFailure
<1>5. a \in 1 .. Len(enc)
  BY <1>1 DEF Last
<1>6. /\ OnionEncrypt(enc[a], Layers(o, enc, a + 1)) = Layers(o, enc, a)
      /\ OnionEncrypt(enc[a], Layers(o, enc, a)) = Layers(o, enc, a + 1)
  BY <1>3, <1>4, <1>5, AddLayer, Zenon
<1>7. Layers(o, enc, Len(enc) + 1) = o
  BY <1>3, <1>4, NoLayers, Zenon
<1> QED
  BY <1>1, <1>2, <1>6, <1>7, Zenon DEF Wrapped, Last

\* A step concerns one payment.
LEMMA OnePayment ==
  ASSUME ErrorInv, ShapesOK', path' = path, faults' \in 0 .. MaxFaults,
         faults <= faults', NEW p \in Payment,
         \A q \in Payment \ {p} :
           /\ encrypter'[q] = encrypter[q] /\ ephemeral'[q] = ephemeral[q]
           /\ at'[q] = at[q] /\ blob'[q] = blob[q] /\ dec'[q] = dec[q]
           /\ failure'[q] = failure[q] /\ report'[q] = report[q]
           /\ q \in spoiled <=> q \in spoiled'
           /\ q \in foreign <=> q \in foreign',
         HopsOK(p)', ErrorOK(p)', SenderOK(p)'
  PROVE  ErrorInv'
<1>1. ASSUME NEW q \in Payment \ {p}
      PROVE  HopsOK(q)' /\ ErrorOK(q)' /\ SenderOK(q)'
  <2>1. HopsOK(q) /\ ErrorOK(q) /\ SenderOK(q)
    BY Zenon DEF ErrorInv
  <2>2. faults \in Nat /\ faults' \in Nat
    BY FaultsInNat, Zenon DEF ErrorInv
  <2> QED
    BY <2>1, <2>2, OthersStay, Zenon
<1>2. ASSUME NEW q \in Payment
      PROVE  HopsOK(q)' /\ ErrorOK(q)' /\ SenderOK(q)'
  BY Zenon, <1>1
<1> QED
  BY Zenon, <1>2 DEF ErrorInv

-----------------------------------------------------------------------------
(***************************************************************************)
(* A hop that makes its encrypter, or fails, keeps the invariant.          *)
(***************************************************************************)

\* A hop makes an encrypter, with the secret that the sender has for it.
LEMMA NewOnionErrorEncrypterInv ==
  ASSUME ErrorInv, NEW p \in Payment, NEW P \in {ephemeral[p], OffCurve},
         NewOnionErrorEncrypter(p, P), ~UNCHANGED vars
  PROVE  ErrorInv'
<1> DEFINE k == Last(p) + 1
           s == SharedSecret(BlindGroupElement(P, {OnionKey(path[p][k])}))
<1>1. /\ failure[p] = Abs!NoFailure
      /\ Last(p) < Len(path[p])
      /\ IsOnCurve(P)
      /\ encrypter' = [encrypter EXCEPT ![p] = Append(@, s)]
      /\ ephemeral' = [ephemeral EXCEPT ![p] =
                         BlindGroupElement(P, {BlindingFactor(P, s)})]
      /\ UNCHANGED <<path, blob, at, dec, failure, report, spoiled, foreign, faults>>
  BY DEF NewOnionErrorEncrypter, Last
<1>2. HopsOK(p) /\ ErrorOK(p) /\ SenderOK(p) /\ ShapesOK /\ faults \in 0 .. MaxFaults
  BY DEF ErrorInv
<1>3. P = ephemeral[p]
  BY <1>1, Zenon DEF IsOnCurve, OffCurve
<1>4. /\ k \in 1 .. Len(path[p])
      /\ k - 1 = Last(p)
      /\ Len(path[p]) \in Nat
      /\ Last(p) \in Nat
  <2>1. Len(path[p]) \in 1 .. NumMaxHops /\ Last(p) \in 0 .. Len(path[p])
    BY <1>2, HopFacts, Zenon
  <2>2. Len(path[p]) \in Nat /\ Last(p) \in Nat
    BY <2>1, HopsInNat, Zenon
  <2> QED
    BY <1>1, <2>2
<1>5. P = T(p)[k].c
  BY Zenon, <1>1, <1>2, <1>3 DEF HopsOK
<1>6. s = T(p)[k].s
  <2>1. P \cup {OnionKey(path[p][k])} = {OnionKey(path[p][k])} \cup T(p)[k].c
    BY Zenon, <1>5
  <2>2. T(p)[k].s = SharedSecret({OnionKey(path[p][k])} \cup T(p)[k].c)
    BY <1>2, <1>4, HopFacts, ZenonT(60)
  <2> QED
    BY Zenon, <2>1, <2>2 DEF BlindGroupElement
<1>7. /\ encrypter'[p] = Append(encrypter[p], s)
      /\ ephemeral'[p] = P \cup {BlindingFactor(P, s)}
      /\ \A q \in Payment \ {p} : /\ encrypter'[q] = encrypter[q]
                                  /\ ephemeral'[q] = ephemeral[q]
  BY <1>1, <1>2 DEF ShapesOK, BlindGroupElement
<1>8. ShapesOK'
  BY <1>1, <1>2, Zenon DEF ShapesOK
<1> HIDE DEF s
<1>9. /\ IsSeq(encrypter'[p])
      /\ Last(p)' = k
      /\ \A j \in 1 .. k - 1 : encrypter'[p][j] = encrypter[p][j]
      /\ encrypter'[p][k] = s
  <2>1. PICK e : e = encrypter[p]
    OBVIOUS
  <2>2. PICK t : t = s
    OBVIOUS
  <2>3. IsSeq(e) /\ Len(e) = Last(p)
    BY <1>2, <2>1 DEF HopsOK, Last
  <2>4. /\ IsSeq(Append(e, t))
        /\ Len(Append(e, t)) = Len(e) + 1
        /\ \A j \in 1 .. Len(e) : Append(e, t)[j] = e[j]
        /\ Append(e, t)[Len(e) + 1] = t
    BY Zenon, <2>3, AppendSeq
  <2>5. encrypter'[p] = Append(e, t)
    BY Zenon, <1>7, <2>1, <2>2
  <2>6. Last(p)' = Len(encrypter'[p])
    BY DEF Last
  <2> QED
    BY <1>4, <2>1, <2>2, <2>3, <2>4, <2>5, <2>6, ZenonT(60)
<1>10. T(p)' = T(p)
  BY <1>1 DEF T
<1>11. \A j \in 1 .. k : encrypter'[p][j] = T(p)[j].s
  <2>1. SUFFICES ASSUME NEW j \in 1 .. k
                 PROVE  encrypter'[p][j] = T(p)[j].s
    OBVIOUS
  <2>2. CASE j = k
    BY ZenonT(60), <1>6, <1>9, <2>2
  <2>3. CASE j # k
    <3>1. j \in 1 .. k - 1
      BY <1>4, <2>3
    <3> QED
      BY ZenonT(60), <1>2, <1>4, <1>9, <3>1 DEF HopsOK
  <2> QED
    BY Zenon, <2>2, <2>3
<1>12. k < Len(path[p]) => ephemeral'[p] = T(p)[k + 1].c
  <2>1. SUFFICES ASSUME k < Len(path[p])
                 PROVE  ephemeral'[p] = T(p)[k + 1].c
    OBVIOUS
  <2>2. k \in 1 .. Len(path[p]) - 1
    BY <1>4, <2>1
  <2>3. T(p)[k + 1].c = T(p)[k].c \cup {BlindingFactor(T(p)[k].c, T(p)[k].s)}
    BY <1>2, <2>2, HopFacts, ZenonT(60)
  <2> QED
    BY ZenonT(60), <1>5, <1>6, <1>7, <2>3
<1> HIDE DEF k
<1>13. HopsOK(p)'
  <2>1. path' = path
    BY <1>1
  <2>2. path'[p] \in PathsOf[p]
    BY ZenonT(60), <1>2, <2>1 DEF HopsOK
  <2>3. Last(p)' <= Len(path'[p])
    BY <1>4, <1>9, <2>1
  <2>4. \A j \in 1 .. Last(p)' : encrypter'[p][j] = T(p)'[j].s
    BY ZenonT(60), <1>9, <1>10, <1>11
  <2>5. Last(p)' < Len(path'[p]) => ephemeral'[p] = T(p)'[Last(p)' + 1].c
    BY ZenonT(60), <1>9, <1>10, <1>12, <2>1
  <2> QED
    BY ZenonT(60), <1>9, <2>2, <2>3, <2>4, <2>5 DEF HopsOK
<1>14. at[p] = 0 /\ dec[p].state # "loop"
  <2>1. at[p] = 0
    BY <1>1, <1>2, FailureFacts, Zenon
  <2> QED
    BY <1>2, <2>1, NoneIsNotOne, Zenon DEF SenderOK
<1>15. ErrorOK(p)'
  <2>1. Last(p)' \in Nat
    BY <1>4, <1>9, HopNumber, Zenon
  <2>2. at'[p] = 0 /\ at'[p] \in 0 .. Last(p)' /\ ~(at'[p] > 0)
    BY <1>1, <1>14, <2>1, NoneIsNotOne, ZenonT(60)
  <2>3. /\ failure'[p] = Abs!NoFailure /\ blob'[p] = <<>>
        /\ p \notin spoiled' /\ p \notin foreign'
    BY <1>1, <1>2, <1>14, ZenonT(60) DEF ErrorOK
  <2> QED
    BY <2>2, <2>3, Zenon DEF ErrorOK
<1>16. SenderOK(p)'
  BY Zenon, <1>1, <1>2, <1>14 DEF SenderOK
<1>17. path' = path /\ faults' \in 0 .. MaxFaults /\ faults <= faults'
  <2>1. path' = path /\ faults' = faults
    BY <1>1
  <2>2. MaxFaults \in Nat
    BY ZenonT(60), OnionErrorAssumption
  <2> QED
    BY <1>2, <2>1, <2>2
<1>18. \A q \in Payment \ {p} :
         /\ encrypter'[q] = encrypter[q] /\ ephemeral'[q] = ephemeral[q]
         /\ at'[q] = at[q] /\ blob'[q] = blob[q] /\ dec'[q] = dec[q]
         /\ failure'[q] = failure[q] /\ report'[q] = report[q]
         /\ q \in spoiled <=> q \in spoiled'
         /\ q \in foreign <=> q \in foreign'
  BY Zenon, <1>1, <1>7
<1> QED
  BY ZenonT(60), <1>8, <1>13, <1>15, <1>16, <1>17, <1>18, OnePayment

\* A hop reports a failure.
LEMMA FailInv ==
  ASSUME ErrorInv, NEW p \in Payment, NEW e \in Message, Fail(p, e)
  PROVE  ErrorInv'
<1>1. /\ Last(p) > 0
      /\ failure[p] = Abs!NoFailure
      /\ failure' = [failure EXCEPT ![p] = Abs!Failed(path[p][Last(p)], Plaintext(e))]
      /\ blob' = [blob EXCEPT ![p] =
                    EncryptError(encrypter[p][Last(p)], TRUE, Plaintext(e))]
      /\ at' = [at EXCEPT ![p] = Last(p)]
      /\ UNCHANGED <<path, ephemeral, encrypter, dec, faults, spoiled, foreign, report>>
  BY DEF Fail, Last, Abs!Fails
<1>2. HopsOK(p) /\ ErrorOK(p) /\ SenderOK(p) /\ ShapesOK /\ faults \in 0 .. MaxFaults
  BY ZenonT(60) DEF ErrorInv
<1>3. /\ at[p] = 0 /\ dec[p].state # "loop" /\ Last(p) \in Nat
      /\ p \notin spoiled /\ p \notin foreign
  <2>1. at[p] = 0 /\ Last(p) \in Nat
    BY <1>1, <1>2, FailureFacts, Zenon
  <2>2. p \notin spoiled /\ p \notin foreign
    BY <1>2, <2>1, Zenon DEF ErrorOK
  <2>3. 0 # 1 /\ "loop" # "idle"
    OBVIOUS
  <2>4. dec[p].state # "loop"
    BY <1>2, <2>1, <2>3, Zenon DEF SenderOK
  <2> QED
    BY <2>1, <2>2, <2>4, Zenon
<1>4. /\ failure'[p] = Abs!Failed(path[p][Last(p)], Plaintext(e))
      /\ blob'[p] = EncryptError(encrypter[p][Last(p)], TRUE, Plaintext(e))
      /\ at'[p] = Last(p)
      /\ \A q \in Payment \ {p} : /\ failure'[q] = failure[q]
                                  /\ blob'[q] = blob[q]
                                  /\ at'[q] = at[q]
  BY <1>1, <1>2 DEF ShapesOK
<1>5. ShapesOK'
  BY <1>1, <1>2, Zenon DEF ShapesOK
<1>6. /\ path' = path /\ encrypter' = encrypter /\ faults' = faults
      /\ spoiled' = spoiled /\ foreign' = foreign
  BY <1>1
<1>7. PICK s : s = encrypter[p][Last(p)]
  OBVIOUS
<1>8. PICK o : o = <<UmMac(s, Plaintext(e))>> \o Plaintext(e)
  BY Zenon
<1>9. PICK enc : enc = encrypter[p]
  OBVIOUS
<1>10. PICK k : k = Last(p)
  OBVIOUS
<1>11. /\ IsSeq(o)
       /\ Len(o) = 1 + SizeOf[e]
       /\ o[1] = UmMac(s, Plaintext(e))
       /\ \A l \in 1 .. Len(o) : \A t : <<"ammag", t, l>> \notin o[l]
  BY <1>8, OriginalFacts, ZenonT(60)
<1>12. failure'[p].msg = Plaintext(e)
  BY <1>4 DEF Abs!Failed
<1>13. Last(p)' = Last(p) /\ TrueMac(p)' = UmMac(s, Plaintext(e)) /\ Original(p)' = o
  BY ZenonT(60), <1>6, <1>7, <1>8, <1>12 DEF Last, TrueMac, Original
<1>14. blob'[p] = OnionEncrypt(s, o)
  BY ZenonT(60), <1>4, <1>7, <1>8 DEF EncryptError
<1>15. /\ IsSeq(OnionEncrypt(s, o))
       /\ Len(OnionEncrypt(s, o)) = Len(o)
       /\ UmPart(OnionEncrypt(s, o)[1]) = UmPart(o[1])
  <2>1. Len(o) > 0
    BY <1>11, OnionErrorAssumption
  <2> QED
    BY ZenonT(60), <1>11, <2>1, OnionEncryptFacts
<1>16. OnionEncrypt(s, o) = Layers(o, enc, k)
  <2>1. /\ Len(enc) \in Nat /\ k \in 1 .. Len(enc) /\ k = Len(enc) /\ s = enc[k]
        /\ \A i, j \in 1 .. Len(enc) : enc[i] = enc[j] => i = j
    <3>1. /\ Len(enc) \in Nat
          /\ \A i, j \in 1 .. Len(enc) : enc[i] = enc[j] => i = j
      BY <1>2, <1>9, EncryptersDiffer, Zenon
    <3>2. k = Len(enc) /\ s = enc[k]
      BY <1>7, <1>9, <1>10, ZenonT(60) DEF Last
    <3>3. k \in 1 .. Len(enc)
      BY <1>1, <1>10, <3>1, <3>2
    <3> QED
      BY <3>1, <3>2, <3>3, Zenon
  <2>2. OnionEncrypt(enc[k], Layers(o, enc, k + 1)) = Layers(o, enc, k)
    BY <1>11, <2>1, AddLayer, ZenonT(60)
  <2>3. Layers(o, enc, Len(enc) + 1) = o
    BY <1>11, <2>1, NoLayers, Zenon
  <2> QED
    BY <2>1, <2>2, <2>3, ZenonT(60)
<1>17. Len(blob'[p]) \in 1 .. 1 + Len(failure'[p].msg) + faults'
  <2>1. Len(failure'[p].msg) = SizeOf[e] /\ SizeOf[e] \in Nat
    BY Zenon, <1>12, PlaintextFacts, OnionErrorAssumption
  <2>2. Len(blob'[p]) = 1 + SizeOf[e]
    BY Zenon, <1>11, <1>14, <1>15
  <2>3. faults' \in Nat
    BY <1>2, <1>6, OnionErrorAssumption
  <2> QED
    BY <2>1, <2>2, <2>3
<1>18. MacOK(p, blob[p][1])' /\ p \notin foreign'
  <2>1. UmPart(UmMac(s, Plaintext(e))) = UmMac(s, Plaintext(e))
    BY Zenon, UmParts
  <2>2. UmPart(blob'[p][1]) = TrueMac(p)'
    BY ZenonT(60), <1>11, <1>13, <1>14, <1>15, <2>1
  <2> QED
    BY <1>3, <1>6, <2>2, Zenon DEF MacOK
<1>19. ErrorOK(p)'
  <2>1. at'[p] > 0 /\ at'[p] \in 0 .. Last(p)' /\ at'[p] = k /\ at'[p] # 0
    <3>1. at'[p] = k /\ Last(p)' = k
      BY <1>4, <1>10, <1>13, ZenonT(60)
    <3>2. k > 0 /\ k \in 0 .. k /\ k # 0
      BY <1>1, <1>3, <1>10
    <3> QED
      BY <3>1, <3>2, Zenon
  <2>2. failure'[p] = Abs!Failed(path'[p][Last(p)'], Plaintext(e))
    BY Zenon, <1>4, <1>6, <1>13
  <2>3. blob'[p] = Wrapped(p, at[p])'
    <3>1. Wrapped(p, at[p])' = Layers(o, enc, k)
      BY ZenonT(60), <1>6, <1>9, <1>13, <2>1 DEF Wrapped
    <3> QED
      BY ZenonT(60), <1>14, <1>16, <3>1
  <2>4. IsSeq(blob'[p])
    BY <1>14, <1>15
  <2> QED
    BY <1>17, <1>18, <2>1, <2>2, <2>3, <2>4, ZenonT(60) DEF ErrorOK
<1>20. HopsOK(p)'
  BY Zenon, <1>1, <1>2, HopsStay
<1>21. SenderOK(p)'
  <2>1. dec' = dec /\ report' = report /\ spoiled' = spoiled
    BY ZenonT(60), <1>1
  <2>2. dec[p].state = "idle"
    BY <1>2, <1>3 DEF SenderOK
  <2> QED
    BY ZenonT(60), <1>2, <2>1, <2>2 DEF SenderOK
<1>22. path' = path /\ faults' \in 0 .. MaxFaults /\ faults <= faults'
  <2>1. MaxFaults \in Nat
    BY ZenonT(60), OnionErrorAssumption
  <2> QED
    BY <1>2, <1>6, <2>1
<1>23. \A q \in Payment \ {p} :
         /\ encrypter'[q] = encrypter[q] /\ ephemeral'[q] = ephemeral[q]
         /\ at'[q] = at[q] /\ blob'[q] = blob[q] /\ dec'[q] = dec[q]
         /\ failure'[q] = failure[q] /\ report'[q] = report[q]
         /\ q \in spoiled <=> q \in spoiled'
         /\ q \in foreign <=> q \in foreign'
  BY Zenon, <1>1, <1>4
<1> QED
  BY ZenonT(60), <1>5, <1>19, <1>20, <1>21, <1>22, <1>23, OnePayment

\* An error, or the data of a round, still has the MAC it had.
LEMMA MacStays ==
  ASSUME NEW p, NEW c, MacOK(p, c), NEW d, UmPart(d) = UmPart(c),
         TrueMac(p)' = TrueMac(p), failure' = failure, foreign' = foreign
  PROVE  /\ p \notin foreign' => UmPart(d) = TrueMac(p)'
         /\ p \in foreign' => UmPart(d) = UmMac(DummySecret, failure'[p].msg)
BY Zenon DEF MacOK

\* The layers are put on and taken off one by one: what stands behind an error
\* or behind the data of a round stays the same.
LEMMA LayersStay ==
  ASSUME NEW p \in Payment, encrypter' = encrypter, failure' = failure
  PROVE  /\ Last(p)' = Last(p)
         /\ TrueMac(p)' = TrueMac(p)
         /\ \A a : Wrapped(p, a)' = Wrapped(p, a)
<1>1. Last(p)' = Last(p)
  BY DEF Last
<1>2. TrueMac(p)' = TrueMac(p)
  BY <1>1 DEF TrueMac
<1>3. Original(p)' = Original(p)
  BY <1>2 DEF Original
<1> QED
  BY Zenon, <1>1, <1>2, <1>3 DEF Wrapped
=============================================================================
