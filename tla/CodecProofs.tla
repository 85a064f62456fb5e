----------------------------- MODULE CodecProofs -----------------------------
(***************************************************************************)
(* Decode returns the fields that were encoded, for sizes, circuits and    *)
(* replay sets of any length, wherever the input ends and however the      *)
(* reader doles it out.                                                    *)
(*                                                                         *)
(* The fields decoded so far are the first ones of the encoding, and their *)
(* bytes, those of the current buffer and those not read yet are the input *)
(* of Decode.  So a buffer that is full holds the very next field, and the *)
(* lengths a circuit is decoded by are those of the circuit.               *)
(***************************************************************************)
EXTENDS Codec, SequenceTheorems, WellFoundedInduction, TLAPS

-----------------------------------------------------------------------------
(***************************************************************************)
(* The invariant.                                                          *)
(***************************************************************************)

\* The fields whose bytes are told apart, and their bytes.
Kinds ==
  {"version", "key", "off curve", "RoutingInfo", "HeaderMAC", "Realm", "NextAddress",
   "ForwardAmount", "OutgoingCltv", "ExtraBytes", "HMAC", "sharedSecret", "length",
   "SessionKey", "seqNum", "other"}

Octets == Kinds \X Nat \X Nat

\* Circuit.Decode takes whatever Read hands out for a field: its reader must
\* hand out what it is asked for.
Reliable == format = "Circuit" => format \notin ShortReads \cup Cuts

\* Field j of an encoding, as Decode reads it.
FieldAt(f, j) ==
  CASE f = "Circuit" ->
         IF j = 1 THEN Once("keyLength", 1)
         ELSE IF j = 2 THEN Once("data", SecretSize)
         ELSE IF j = 3 THEN Once("pathLength", 1) ELSE Once("key", KeySize)
    [] f = "ReplaySet" -> Full("seqNum", 2)
    [] OTHER -> Layout(f)[j]

\* How many of the n fields Decode knows of when it has decoded i of them.
Known(f, n, i) ==
  CASE f = "Circuit"   -> IF i = 0 THEN 1 ELSE IF i < 3 THEN 3 ELSE n
    [] f = "ReplaySet" -> i + 1
    [] OTHER           -> n

\* The fields from i + 1 to m.
FieldsTo(f, i, m) == [j \in 1 .. m - i |-> FieldAt(f, i + j)]

\* The fields that were encoded, and what Decode has made of them.
DataOK ==
  /\ format \in Formats
  /\ fields \in Encodings(format)
  /\ given \in Inputs(format, fields)
  /\ Len(value) \in 0 .. Len(fields)
  /\ value = SubSeq(fields, 1, Len(value))

\* Nothing is lost on the way from the input to the value.
BytesOK ==
  /\ buf \in Seq(Octets)
  /\ input \in Seq(Octets)
  /\ (FlattenSeq(value) \o buf) \o input = given

\* The buffer belongs to the next field.
BufferOK ==
  /\ Len(value) = Len(fields) => buf = <<>>
  /\ Len(value) < Len(fields) =>
       /\ Len(buf) <= Len(fields[Len(value) + 1])
       /\ format = "Circuit" => Len(buf) \in {0, Len(fields[Len(value) + 1])}

\* Of a packet, the version and the key have been accepted if they were decoded.
AcceptedOK(i) ==
  format = "OnionPacket" =>
    /\ i >= 1 => fields[1] = Byte("version", baseVersion)
    /\ i >= 2 => fields[2] # NoKey

\* Where Decode is, and why it has returned.
StatusOK ==
  \/ /\ status = "reading"
     /\ AcceptedOK(Len(value))
     /\ todo = FieldsTo(format, Len(value), Known(format, Len(fields), Len(value)))
     /\ format # "ReplaySet" => Len(value) < Len(fields)
  \/ /\ status = "ok"
     /\ AcceptedOK(Len(value))
     /\ buf = <<>>
     /\ format # "ReplaySet" => Len(value) = Len(fields)
  \/ /\ status \in {"EOF", "ErrUnexpectedEOF"}
     /\ Len(given) < Len(FlattenSeq(fields))
  \/ /\ status = "ErrInvalidOnionVersion"
     /\ format = "OnionPacket" /\ fields[1] # Byte("version", baseVersion)
  \/ /\ status = "ErrInvalidOnionKey"
     /\ format = "OnionPacket" /\ fields[2] = NoKey

CodecInv == Reliable => DataOK /\ BytesOK /\ BufferOK /\ StatusOK

-----------------------------------------------------------------------------
(***************************************************************************)
(* FlattenSeq, which the encoding of a sequence of fields is.              *)
(***************************************************************************)

\* A set of numbers that is not empty has a least element.
LEMMA LeastNumber ==
  ASSUME NEW A \in SUBSET Nat, A # {}
  PROVE  \E m \in A : \A k \in A : m <= k
<1>1. IsWellFoundedOn(OpToRel(<, Nat), Nat)
  BY NatLessThanWellFounded, Zenon
<1>2. PICK m \in A : \A y \in A : ~(<<y, m>> \in OpToRel(<, Nat))
  BY <1>1, WFMin, Zenon
<1>3. \A k \in A : ~(k < m)
  BY <1>2, Zenon DEF OpToRel
<1> QED
  BY <1>3

\* Induction on the numbers up to n, for a set instead of a predicate.
LEMMA UpTo ==
  ASSUME NEW n \in Nat, NEW A, 0 \in A,
         \A m \in Nat : m < n /\ m \in A => m + 1 \in A
  PROVE  \A m \in 0 .. n : m \in A
<1> DEFINE B == {m \in 0 .. n : m \notin A}
<1> SUFFICES ASSUME B # {}
             PROVE  FALSE
  OBVIOUS
<1>1. PICK m \in B : \A k \in B : m <= k
  <2>1. B \in SUBSET Nat
    OBVIOUS
  <2> HIDE DEF B
  <2> QED
    BY <2>1, LeastNumber
<1>2. m \in Nat /\ m # 0 /\ m <= n /\ m \notin A
  BY <1>1
<1>3. PICK k : k = m - 1
  OBVIOUS
<1>4. k \in Nat /\ k < n /\ k + 1 = m /\ ~(m <= k) /\ k \in 0 .. n
  BY <1>2, <1>3
<1>5. k \in A
  BY <1>1, <1>4
<1> QED
  BY <1>2, <1>4, <1>5

\* f[i] is the concatenation of the first i members of s, for i up to n.
Concatenates(f, s, n) ==
  f = [i \in 0 .. n |-> IF i = 0 THEN <<>> ELSE f[i - 1] \o s[i]]

\* There is such a function.
LEMMA ConcatenationExists ==
  ASSUME NEW s, NEW n \in Nat
  PROVE  \E f : Concatenates(f, s, n)
<1> DEFINE A == {m \in Nat : \E f : Concatenates(f, s, m)}
<1>1. 0 \in A
  <2>1. PICK f : f = [i \in 0 .. 0 |-> <<>>]
    BY Zenon
  <2>2. \A i \in 0 .. 0 : i = 0
    OBVIOUS
  <2>3. Concatenates(f, s, 0)
    BY <2>1, <2>2, Zenon DEF Concatenates
  <2> QED
    BY <2>3
<1>2. ASSUME NEW m \in Nat, m \in A
      PROVE  m + 1 \in A
  <2>1. PICK f : Concatenates(f, s, m)
    BY <1>2
  <2>2. PICK g : g = [i \in 0 .. m + 1 |-> IF i = 0 THEN <<>> ELSE f[i - 1] \o s[i]]
    BY Zenon
  <2>3. ASSUME NEW i \in 0 .. m + 1, i # 0
        PROVE  f[i - 1] = g[i - 1]
    <3>1. PICK j : j = i - 1
      OBVIOUS
    <3>2. j \in 0 .. m /\ j \in 0 .. m + 1
      BY <2>3, <3>1
    <3>3. f[j] = IF j = 0 THEN <<>> ELSE f[j - 1] \o s[j]
      BY Zenon, <2>1, <3>2 DEF Concatenates
    <3>4. g[j] = IF j = 0 THEN <<>> ELSE f[j - 1] \o s[j]
      BY Zenon, <2>2, <3>2
    <3> QED
      BY Zenon, <3>1, <3>3, <3>4
  <2>4. Concatenates(g, s, m + 1)
    BY Zenon, <2>2, <2>3 DEF Concatenates
  <2> QED
    BY <2>4
<1> HIDE DEF A
<1>3. n \in A
  BY <1>1, <1>2, UpTo
<1> QED
  BY <1>3 DEF A

\* FlattenSeq computes it.
LEMMA FlattenIs ==
  ASSUME NEW s, Len(s) \in Nat
  PROVE  \E f : Concatenates(f, s, Len(s)) /\ FlattenSeq(s) = f[Len(s)]
<1> DEFINE P(f) == f = [i \in 0 .. Len(s) |-> IF i = 0 THEN <<>> ELSE f[i - 1] \o s[i]]
<1>1. FlattenSeq(s) = (CHOOSE f : P(f))[Len(s)]
  BY Zenon DEF FlattenSeq
<1>2. \E f : P(f)
  <2>1. PICK f : Concatenates(f, s, Len(s))
    BY ConcatenationExists
  <2>2. P(f)
    BY <2>1, Zenon DEF Concatenates
  <2> QED
    BY <2>2, Zenon
<1> HIDE DEF P
<1>3. P(CHOOSE f : P(f))
  BY <1>2, Zenon
<1>4. PICK f : f = CHOOSE g : P(g)
  BY Zenon
<1>5. P(f) /\ FlattenSeq(s) = f[Len(s)]
  BY <1>1, <1>3, <1>4, Zenon
<1> QED
  BY <1>5, Zenon DEF P, Concatenates

\* The encoding of no fields.
LEMMA FlattenEmpty == FlattenSeq(<<>>) = <<>>
<1>1. Len(<<>>) = 0 /\ 0 \in Nat /\ 0 \in 0 .. 0
  OBVIOUS
<1>2. PICK f : Concatenates(f, <<>>, 0) /\ FlattenSeq(<<>>) = f[0]
  BY <1>1, FlattenIs, Zenon
<1> QED
  BY <1>1, <1>2, Zenon DEF Concatenates

\* Another field comes behind the others.
LEMMA FlattenAppend ==
  ASSUME NEW B, NEW s \in Seq(Seq(B)), NEW x \in Seq(B)
  PROVE  FlattenSeq(Append(s, x)) = FlattenSeq(s) \o x
<1>1. PICK t : t = Append(s, x)
  BY Zenon
<1>2. /\ Len(s) \in Nat
      /\ Len(t) = Len(s) + 1
      /\ t[Len(s) + 1] = x
      /\ \A i \in 1 .. Len(s) : t[i] = s[i]
  BY <1>1
<1>3. PICK g : Concatenates(g, t, Len(s) + 1) /\ FlattenSeq(t) = g[Len(s) + 1]
  <2>1. Len(t) \in Nat
    BY <1>2
  <2> QED
    BY <1>2, <2>1, FlattenIs, Zenon
<1>4. PICK f : Concatenates(f, s, Len(s)) /\ FlattenSeq(s) = f[Len(s)]
  BY <1>2, FlattenIs, Zenon
<1>5. \A i \in 0 .. Len(s) : f[i] = IF i = 0 THEN <<>> ELSE f[i - 1] \o s[i]
  BY <1>4, Zenon DEF Concatenates
<1>6. \A i \in 0 .. Len(s) + 1 : g[i] = IF i = 0 THEN <<>> ELSE g[i - 1] \o t[i]
  BY <1>3, Zenon DEF Concatenates
<1> DEFINE A == {i \in Nat : i <= Len(s) => f[i] = g[i]}
<1>7. 0 \in A
  <2>1. 0 \in 0 .. Len(s) /\ 0 \in 0 .. Len(s) + 1 /\ 0 \in Nat
    BY <1>2
  <2> QED
    BY <1>5, <1>6, <2>1, Zenon
<1>8. ASSUME NEW i \in Nat, i < Len(s), i \in A
      PROVE  i + 1 \in A
  <2>1. PICK j : j = i + 1
    BY Zenon
  <2>2. /\ j \in 0 .. Len(s) /\ j \in 0 .. Len(s) + 1 /\ j \in 1 .. Len(s)
        /\ j \in Nat /\ j - 1 = i /\ j # 0 /\ i <= Len(s)
    BY <1>2, <1>8, <2>1
  <2>3. f[j] = f[i] \o s[j] /\ g[j] = g[i] \o t[j] /\ f[i] = g[i] /\ t[j] = s[j]
    BY <1>2, <1>5, <1>6, <1>8, <2>2, Zenon
  <2> QED
    BY <2>1, <2>2, <2>3, Zenon
<1>9. f[Len(s)] = g[Len(s)]
  <2> HIDE DEF A
  <2>1. \A i \in Nat : i < Len(s) /\ i \in A => i + 1 \in A
    BY <1>8, Zenon
  <2>2. \A i \in 0 .. Len(s) : i \in A
    BY <1>2, <1>7, <2>1, UpTo, Zenon
  <2>3. Len(s) \in 0 .. Len(s) /\ Len(s) <= Len(s)
    BY <1>2
  <2> QED
    BY <2>2, <2>3, Zenon DEF A
<1>10. g[Len(s) + 1] = g[Len(s)] \o x
  <2>1. PICK j : j = Len(s) + 1
    BY Zenon
  <2>2. j \in 0 .. Len(s) + 1 /\ j # 0 /\ j - 1 = Len(s)
    BY <1>2, <2>1
  <2>3. g[j] = g[j - 1] \o t[j]
    BY <1>6, <2>2, Zenon
  <2> QED
    BY <1>2, <2>1, <2>2, <2>3, Zenon
<1> QED
  BY <1>1, <1>3, <1>4, <1>9, <1>10, Zenon

\* F[k] is the concatenation of the first k members of s.
Accumulates(F, s) ==
  F[0] = <<>> /\ \A k \in Nat : k < Len(s) => F[k + 1] = F[k] \o s[k + 1]

\* Each of them is a prefix of the last one.
ArePrefixes(F, n, B) ==
  \A k \in 0 .. n : F[k] \in Seq(B) /\ \E r \in Seq(B) : F[n] = F[k] \o r

\* Concatenations are prefixes of longer ones.
LEMMA ConcatenationGrows ==
  ASSUME NEW B, NEW s \in Seq(Seq(B)), NEW F, Accumulates(F, s)
  PROVE  ArePrefixes(F, Len(s), B)
<1>0. F[0] = <<>> /\ \A k \in Nat : k < Len(s) => F[k + 1] = F[k] \o s[k + 1]
  BY Zenon DEF Accumulates
<1>1. Len(s) \in Nat /\ \A k \in Nat : k < Len(s) => s[k + 1] \in Seq(B)
  BY ElementOfSeq
<1>2. \A k \in 0 .. Len(s) : F[k] \in Seq(B)
  <2> DEFINE A == {k \in Nat : F[k] \in Seq(B)}
  <2>1. 0 \in A
    BY <1>0, EmptySeq, Zenon
  <2>2. ASSUME NEW k \in Nat, k < Len(s), k \in A
        PROVE  k + 1 \in A
    <3>1. F[k + 1] = F[k] \o s[k + 1] /\ F[k] \in Seq(B) /\ s[k + 1] \in Seq(B)
      BY <1>0, <1>1, <2>2, Zenon
    <3>2. F[k + 1] \in Seq(B)
      BY <3>1, ConcatProperties, Zenon
    <3> QED
      BY <3>2
  <2> HIDE DEF A
  <2>3. \A k \in Nat : k < Len(s) /\ k \in A => k + 1 \in A
    BY <2>2, Zenon
  <2>4. \A k \in 0 .. Len(s) : k \in A
    BY <1>1, <2>1, <2>3, UpTo, Zenon
  <2> QED
    BY <2>4, Zenon DEF A
<1> SUFFICES ASSUME NEW n \in 0 .. Len(s)
             PROVE  \E r \in Seq(B) : F[Len(s)] = F[n] \o r
  BY <1>2, Zenon DEF ArePrefixes
<1> DEFINE E(k) == \E r \in Seq(B) : F[k] = F[n] \o r
           A == {k \in Nat : n <= k => E(k)}
<1>3. n \in Nat /\ n <= Len(s) /\ F[n] \in Seq(B)
  BY <1>1, <1>2
<1>4. E(n)
  BY <1>3, ConcatEmptySeq, EmptySeq, Zenon
<1>5. ASSUME NEW k \in Nat, k < Len(s), E(k)
      PROVE  E(k + 1)
  <2>1. PICK r \in Seq(B) : F[k] = F[n] \o r
    BY <1>5, Zenon
  <2>2. PICK q : q = r \o s[k + 1]
    BY Zenon
  <2>3. F[k + 1] = (F[n] \o r) \o s[k + 1] /\ s[k + 1] \in Seq(B)
    BY <1>0, <1>1, <1>5, <2>1, Zenon
  <2>4. q \in Seq(B)
    BY <2>2, <2>3, ConcatProperties, Zenon
  <2>5. F[k + 1] = F[n] \o q
    <3>1. PICK a, x : a = F[n] /\ x = s[k + 1]
      BY Zenon
    <3>2. a \in Seq(B) /\ x \in Seq(B)
      BY <1>3, <2>3, <3>1, Zenon
    <3>3. (a \o r) \o x = a \o (r \o x)
      BY <3>2, ConcatAssociative, SMTT(30)
    <3> QED
      BY <2>2, <2>3, <3>1, <3>3, Zenon
  <2> QED
    BY <2>4, <2>5, Zenon
<1> HIDE DEF E
<1>6. 0 \in A
  <2>1. n <= 0 => n = 0
    BY <1>3
  <2> QED
    BY <1>4, <2>1
<1>7. ASSUME NEW k \in Nat, k < Len(s), k \in A
      PROVE  k + 1 \in A
  <2>1. n <= k + 1 => n = k + 1 \/ n <= k
    BY <1>3
  <2>2. E(k + 1) \/ ~(n <= k + 1)
    <3>1. n <= k => E(k)
      BY <1>7
    <3>2. n = k + 1 => E(k + 1)
      BY <1>4, Zenon
    <3> QED
      BY <1>5, <1>7, <2>1, <3>1, <3>2, Zenon
  <2> QED
    BY <2>2
<1> HIDE DEF A
<1>8. \A k \in Nat : k < Len(s) /\ k \in A => k + 1 \in A
  BY <1>7, Zenon
<1>9. \A k \in 0 .. Len(s) : k \in A
  BY <1>1, <1>6, <1>8, UpTo, Zenon
<1>10. Len(s) \in 0 .. Len(s)
  BY <1>1
<1> QED
  BY <1>3, <1>9, <1>10, Zenon DEF A, E

\* The first fields are encoded first.
LEMMA FlattenPrefix ==
  ASSUME NEW B, NEW s \in Seq(Seq(B)), NEW n \in 0 .. Len(s)
  PROVE  /\ FlattenSeq(SubSeq(s, 1, n)) \in Seq(B)
         /\ \E r \in Seq(B) : FlattenSeq(s) = FlattenSeq(SubSeq(s, 1, n)) \o r
<1>1. Len(s) \in Nat
  OBVIOUS
<1>2. PICK F : F = [k \in 0 .. Len(s) |-> FlattenSeq(SubSeq(s, 1, k))]
  BY Zenon
<1>3. F[0] = <<>>
  <2>1. SubSeq(s, 1, 0) = <<>> /\ 0 \in 0 .. Len(s)
    BY <1>1, SubSeqEmpty
  <2> QED
    BY <1>2, <2>1, FlattenEmpty, Zenon
<1>4. ASSUME NEW k \in Nat, k < Len(s)
      PROVE  F[k + 1] = F[k] \o s[k + 1]
  <2>1. s[k + 1] \in Seq(B)
    BY <1>1, <1>4, ElementOfSeq
  <2>2. SubSeq(s, 1, k) \in Seq(Seq(B))
    BY <1>4
  <2>3. SubSeq(s, 1, k + 1) = Append(SubSeq(s, 1, k), s[k + 1])
    BY <1>1, <1>4, <2>1, <2>2, SMTT(30)
  <2>4. k \in 0 .. Len(s) /\ k + 1 \in 0 .. Len(s)
    BY <1>1, <1>4
  <2> QED
    BY <1>2, <2>1, <2>2, <2>3, <2>4, FlattenAppend, Zenon
<1>5. F[n] \in Seq(B) /\ \E r \in Seq(B) : F[Len(s)] = F[n] \o r
  <2>1. Accumulates(F, s)
    BY <1>3, <1>4, Zenon DEF Accumulates
  <2>2. ArePrefixes(F, Len(s), B)
    BY <2>1, ConcatenationGrows, Zenon
  <2> QED
    BY <2>2, Zenon DEF ArePrefixes
<1>6. F[Len(s)] = FlattenSeq(s)
  <2>1. SubSeq(s, 1, Len(s)) = s /\ Len(s) \in 0 .. Len(s)
    BY <1>1, SubSeqFull
  <2> QED
    BY <1>2, <2>1, Zenon
<1> QED
  BY <1>2, <1>5, <1>6, Zenon

-----------------------------------------------------------------------------
(***************************************************************************)
(* The fields Decode reads, and those that were encoded.                   *)
(***************************************************************************)

\* A function on the numbers from 1 to n is a sequence.
LEMMA FunctionIsSeq ==
  ASSUME NEW S, NEW n \in Nat, NEW g, g \in [1 .. n -> S]
  PROVE  g \in Seq(S) /\ Len(g) = n
OBVIOUS

\* The fields still to read, and what is left of them after the first one.
LEMMA FieldsToFacts ==
  ASSUME NEW f, NEW i \in Nat, NEW m \in Nat, i < m
  PROVE  /\ FieldsTo(f, i, m) # <<>>
         /\ Head(FieldsTo(f, i, m)) = FieldAt(f, i + 1)
         /\ Tail(FieldsTo(f, i, m)) = FieldsTo(f, i + 1, m)
<1> DEFINE S == {FieldAt(f, j) : j \in Nat}
<1>1. \A j \in Nat : FieldAt(f, j) \in S
  BY Zenon
<1> HIDE DEF S
<1>2. PICK s, t : s = FieldsTo(f, i, m) /\ t = FieldsTo(f, i + 1, m)
  BY Zenon
<1>3. /\ s \in [1 .. m - i -> S]
      /\ \A j \in 1 .. m - i : s[j] = FieldAt(f, i + j)
  BY <1>1, <1>2 DEF FieldsTo
<1>4. /\ t \in [1 .. m - i - 1 -> S]
      /\ \A j \in 1 .. m - i - 1 : t[j] = FieldAt(f, i + 1 + j)
  <2>1. m - (i + 1) = m - i - 1
    OBVIOUS
  <2> QED
    BY <1>1, <1>2, <2>1 DEF FieldsTo
<1>5. m - i \in Nat /\ m - i - 1 \in Nat /\ 1 \in 1 .. m - i
  OBVIOUS
<1>6. s \in Seq(S) /\ Len(s) = m - i
  BY <1>3, <1>5, FunctionIsSeq, Zenon
<1>7. t \in Seq(S) /\ Len(t) = m - i - 1
  BY <1>4, <1>5, FunctionIsSeq, Zenon
<1>8. s # <<>> /\ Head(s) = s[1]
  BY <1>5, <1>6
<1>9. Tail(s) \in Seq(S) /\ Len(Tail(s)) = m - i - 1
      /\ \A j \in 1 .. m - i - 1 : Tail(s)[j] = s[j + 1]
  BY <1>6, <1>8, HeadTailProperties
<1>10. ASSUME NEW j \in 1 .. m - i - 1
       PROVE  Tail(s)[j] = t[j]
  <2>1. j + 1 \in 1 .. m - i /\ i + (j + 1) = i + 1 + j
    BY <1>5
  <2> QED
    BY <1>3, <1>4, <1>9, <2>1, Zenon
<1>11. Tail(s) = t
  BY <1>7, <1>9, <1>10, SeqEqual
<1> QED
  BY <1>2, <1>3, <1>5, <1>8, <1>11, Zenon

\* No field is left behind the last one.
LEMMA FieldsToEnd ==
  ASSUME NEW f, NEW m \in Nat
  PROVE  FieldsTo(f, m, m) = <<>>
<1>1. m - m = 0
  OBVIOUS
<1>2. FieldsTo(f, m, m) = [j \in 1 .. 0 |-> FieldAt(f, m + j)]
  BY <1>1, Zenon DEF FieldsTo
<1> QED
  BY <1>2

\* A place in a field.
LEMMA UpwardNat == \A n : \A k \in 1 .. n : k \in Nat
OBVIOUS

\* The field b has n bytes.
Sized(b, n) == b \in Seq(Octets) /\ Len(b) = n

\* The bytes of a field.
LEMMA BytesFacts ==
  ASSUME NEW kind \in Kinds, NEW owner \in Nat, NEW size \in Nat
  PROVE  Sized(Bytes(kind, owner, size), size)
<1>1. \A k \in 1 .. size : <<kind, owner, k>> \in Octets
  BY Zenon, UpwardNat DEF Octets
<1>2. Bytes(kind, owner, size) \in [1 .. size -> Octets]
  BY <1>1, Zenon DEF Bytes
<1> QED
  BY <1>2, FunctionIsSeq, Zenon DEF Sized

\* A byte that is a field.
LEMMA ByteFacts ==
  ASSUME NEW kind \in Kinds, NEW v \in Nat
  PROVE  Sized(Byte(kind, v), 1)
<1>1. 1 \in Nat
  OBVIOUS
<1>2. <<kind, v, 1>> \in Octets
  BY <1>1, Zenon DEF Octets
<1>3. PICK b : b = <<kind, v, 1>>
  BY Zenon
<1>4. <<b>> \in Seq(Octets) /\ Len(<<b>>) = 1
  BY <1>2, <1>3
<1> QED
  BY <1>3, <1>4, Zenon DEF Byte, Sized

\* The sizes that the constants give.
LEMMA Sizes ==
  /\ NumMaxHops \in Nat /\ NumReplays \in Nat /\ KeySize \in Nat \ {0}
  /\ SecretSize \in Nat \ {0} /\ 2 * SecretSize \in Nat \ {0} /\ ByteRange \in Nat \ {0}
  /\ NumMaxHops < ByteRange /\ SecretSize < ByteRange
BY CodecAssumption

\* The numbers and the kinds that fields are made with.
LEMMA KindFacts ==
  /\ 0 \in Nat /\ 1 \in Nat \ {0} /\ 2 \in Nat \ {0} /\ 3 \in Nat \ {0}
  /\ "version" \in Kinds /\ "key" \in Kinds /\ "off curve" \in Kinds
  /\ "RoutingInfo" \in Kinds /\ "HeaderMAC" \in Kinds /\ "Realm" \in Kinds
  /\ "NextAddress" \in Kinds /\ "ForwardAmount" \in Kinds /\ "OutgoingCltv" \in Kinds
  /\ "ExtraBytes" \in Kinds /\ "HMAC" \in Kinds /\ "sharedSecret" \in Kinds
  /\ "length" \in Kinds /\ "SessionKey" \in Kinds /\ "seqNum" \in Kinds
  /\ "other" \in Kinds
BY DEF Kinds

\* The keys of a circuit and of a packet, and the bytes that are none.
LEMMA KeyFacts ==
  /\ \A o \in Nat : Sized(Key(o), KeySize) /\ Key(o) # NoKey
  /\ Sized(NoKey, KeySize)
<1>1. \A o \in Nat : Sized(Key(o), KeySize)
  BY Sizes, KindFacts, BytesFacts, Zenon DEF Key
<1>2. Sized(NoKey, KeySize)
  BY Sizes, KindFacts, BytesFacts, Zenon DEF NoKey
<1>3. ASSUME NEW o \in Nat
      PROVE  Key(o) # NoKey
  <2>1. 1 \in 1 .. KeySize
    BY Sizes
  <2>2. Key(o)[1] = <<"key", o, 1>> /\ NoKey[1] = <<"off curve", 0, 1>>
    BY <2>1 DEF Key, NoKey, Bytes
  <2>3. <<"key", o, 1>> # <<"off curve", 0, 1>>
    OBVIOUS
  <2> QED
    BY <2>2, <2>3, Zenon
<1> QED
  BY <1>1, <1>2, <1>3, Zenon

\* Decode reads the bytes b as the field j of format f.
FieldFits(f, j, b) ==
  /\ FieldAt(f, j).size \in Nat \ {0}
  /\ Len(b) = FieldAt(f, j).size
  /\ f # "Circuit" => FieldAt(f, j).via = "full"

\* The fields fs are those that Decode reads in format f.
Encodes(f, fs) ==
  /\ fs \in Seq(Seq(Octets))
  /\ \A j \in 1 .. Len(fs) : FieldFits(f, j, fs[j])

\* What a way of reading says of a field.
LEMMA ReadingFacts ==
  ASSUME NEW kind, NEW size
  PROVE  /\ Full(kind, size).kind = kind /\ Full(kind, size).size = size
         /\ Full(kind, size).via = "full"
         /\ Once(kind, size).kind = kind /\ Once(kind, size).size = size
         /\ Once(kind, size).via = "once"
BY DEF Full, Once

\* Bytes that are as many as those Decode reads.
LEMMA Fits ==
  ASSUME NEW f, NEW j, NEW b, NEW kind, NEW size \in Nat \ {0}, Len(b) = size,
         \/ FieldAt(f, j) = Full(kind, size)
         \/ f = "Circuit" /\ FieldAt(f, j) = Once(kind, size)
  PROVE  FieldFits(f, j, b)
BY ReadingFacts DEF FieldFits

\* A field of such a size.
LEMMA SizedFits ==
  ASSUME NEW f, NEW j, NEW b, NEW kind, NEW size \in Nat \ {0}, Sized(b, size),
         \/ FieldAt(f, j) = Full(kind, size)
         \/ f = "Circuit" /\ FieldAt(f, j) = Once(kind, size)
  PROVE  FieldFits(f, j, b)
BY Fits, Zenon DEF Sized

\* The fields of a packet.
LEMMA PacketLayout ==
  /\ FieldAt("OnionPacket", 1) = Full("version", 1)
  /\ FieldAt("OnionPacket", 2) = Full("key", KeySize)
  /\ FieldAt("OnionPacket", 3) = Full("data", 2 * SecretSize)
  /\ FieldAt("OnionPacket", 4) = Full("data", SecretSize)
<1>1. \A j : FieldAt("OnionPacket", j) = OnionPacketLayout[j]
  BY DEF FieldAt, Layout
<1> QED
  BY <1>1 DEF OnionPacketLayout

\* The fields of the payload of a hop.
LEMMA HopDataFieldsAt ==
  /\ FieldAt("HopData", 1) = Full("data", 1)
  /\ FieldAt("HopData", 2) = Full("data", 2)
  /\ FieldAt("HopData", 3) = Full("data", 2)
  /\ FieldAt("HopData", 4) = Full("data", 1)
  /\ FieldAt("HopData", 5) = Full("data", 3)
  /\ FieldAt("HopData", 6) = Full("data", SecretSize)
<1>1. \A j : FieldAt("HopData", j) = HopDataLayout[j]
  BY DEF FieldAt, Layout
<1> QED
  BY <1>1 DEF HopDataLayout

\* The field of an encrypter.
LEMMA EncrypterFieldAt ==
  FieldAt("OnionErrorEncrypter", 1) = Full("data", SecretSize)
<1>1. \A j : FieldAt("OnionErrorEncrypter", j) = EncrypterLayout[j]
  BY DEF FieldAt, Layout
<1> QED
  BY <1>1 DEF EncrypterLayout

\* The fields of a circuit, and the numbers of a replay set.
LEMMA OtherFieldsAt ==
  /\ FieldAt("Circuit", 1) = Once("keyLength", 1)
  /\ FieldAt("Circuit", 2) = Once("data", SecretSize)
  /\ FieldAt("Circuit", 3) = Once("pathLength", 1)
  /\ \A j \in Nat : j > 3 => FieldAt("Circuit", j) = Once("key", KeySize)
  /\ \A j : FieldAt("ReplaySet", j) = Full("seqNum", 2)
<1>1. \A j : FieldAt("Circuit", j) =
               IF j = 1 THEN Once("keyLength", 1)
               ELSE IF j = 2 THEN Once("data", SecretSize)
               ELSE IF j = 3 THEN Once("pathLength", 1) ELSE Once("key", KeySize)
  BY Zenon DEF FieldAt
<1>2. \A j : FieldAt("ReplaySet", j) = Full("seqNum", 2)
  BY DEF FieldAt
<1> QED
  BY <1>1, <1>2

\* Sequences of a few sequences.
LEMMA FewSequences ==
  ASSUME NEW B, NEW a \in Seq(B), NEW b \in Seq(B), NEW c \in Seq(B),
         NEW d \in Seq(B), NEW e \in Seq(B), NEW g \in Seq(B)
  PROVE  /\ <<a>> \in Seq(Seq(B)) /\ Len(<<a>>) = 1
         /\ <<a, b, c>> \in Seq(Seq(B)) /\ Len(<<a, b, c>>) = 3
         /\ <<a, b, c, d>> \in Seq(Seq(B)) /\ Len(<<a, b, c, d>>) = 4
         /\ <<a, b, c, d, e, g>> \in Seq(Seq(B)) /\ Len(<<a, b, c, d, e, g>>) = 6
OBVIOUS

\* A packet of any version, with or without a key.
LEMMA PacketEncodes ==
  ASSUME NEW v \in {baseVersion, 1}, NEW k \in {Key(0), NoKey}
  PROVE  /\ Encodes("OnionPacket", OnionPacketFields(v, k))
         /\ Len(OnionPacketFields(v, k)) = 4
         /\ OnionPacketFields(v, k)[1] = Byte("version", v)
         /\ OnionPacketFields(v, k)[2] = k
<1>1. PICK a, c, d : /\ a = Byte("version", v)
                     /\ c = Bytes("RoutingInfo", 0, 2 * SecretSize)
                     /\ d = Bytes("HeaderMAC", 0, SecretSize)
  BY Zenon
<1>2. Sized(a, 1)
  <2>1. v \in Nat
    BY DEF baseVersion
  <2> QED
    BY <1>1, <2>1, ByteFacts, KindFacts, Zenon
<1>3. Sized(k, KeySize)
  <2>1. k = Key(0) \/ k = NoKey
    BY Zenon
  <2>2. Sized(Key(0), KeySize)
    BY KeyFacts, KindFacts, Zenon
  <2>3. Sized(NoKey, KeySize)
    BY KeyFacts, Zenon
  <2> QED
    BY <2>1, <2>2, <2>3, Zenon
<1>4. /\ Sized(c, 2 * SecretSize)
      /\ Sized(d, SecretSize)
  <2>1. 2 * SecretSize \in Nat /\ SecretSize \in Nat
    BY Sizes
  <2> QED
    BY <1>1, <2>1, BytesFacts, KindFacts, Zenon
<1>5. PICK fs : fs = <<a, k, c, d>>
  BY Zenon
<1>6. /\ fs \in Seq(Seq(Octets)) /\ Len(fs) = 4
      /\ fs[1] = a /\ fs[2] = k /\ fs[3] = c /\ fs[4] = d
  BY <1>2, <1>3, <1>4, <1>5, FewSequences DEF Sized
<1>7. OnionPacketFields(v, k) = fs
  BY <1>1, <1>5, Zenon DEF OnionPacketFields
<1>8. /\ FieldFits("OnionPacket", 1, a) /\ FieldFits("OnionPacket", 2, k)
      /\ FieldFits("OnionPacket", 3, c) /\ FieldFits("OnionPacket", 4, d)
  BY <1>2, <1>3, <1>4, SizedFits, PacketLayout, Sizes, KindFacts, Zenon
<1>9. \A j \in 1 .. 4 : j = 1 \/ j = 2 \/ j = 3 \/ j = 4
  OBVIOUS
<1> QED
  BY <1>1, <1>6, <1>7, <1>8, <1>9, Zenon DEF Encodes

\* The payload of a hop.
LEMMA HopDataEncodes == Encodes("HopData", HopDataFields) /\ Len(HopDataFields) = 6
<1>1. PICK a, b, c, d, e, g :
        /\ a = Bytes("Realm", 0, 1) /\ b = Bytes("NextAddress", 0, 2)
        /\ c = Bytes("ForwardAmount", 0, 2) /\ d = Bytes("OutgoingCltv", 0, 1)
        /\ e = Bytes("ExtraBytes", 0, 3) /\ g = Bytes("HMAC", 0, SecretSize)
  BY Zenon
<1>2. 1 \in Nat /\ 2 \in Nat /\ 3 \in Nat /\ SecretSize \in Nat
  BY Sizes
<1>3. /\ Sized(a, 1) /\ Sized(b, 2)
      /\ Sized(c, 2) /\ Sized(d, 1)
      /\ Sized(e, 3) /\ Sized(g, SecretSize)
  BY <1>1, <1>2, BytesFacts, KindFacts, Zenon
<1>4. PICK fs : fs = <<a, b, c, d, e, g>>
  BY Zenon
<1>5. /\ fs \in Seq(Seq(Octets)) /\ Len(fs) = 6
      /\ fs[1] = a /\ fs[2] = b /\ fs[3] = c /\ fs[4] = d /\ fs[5] = e /\ fs[6] = g
  BY <1>3, <1>4, FewSequences DEF Sized
<1>6. HopDataFields = fs
  BY <1>1, <1>4, Zenon DEF HopDataFields
<1>7. /\ FieldFits("HopData", 1, a) /\ FieldFits("HopData", 2, b)
      /\ FieldFits("HopData", 3, c) /\ FieldFits("HopData", 4, d)
      /\ FieldFits("HopData", 5, e) /\ FieldFits("HopData", 6, g)
  BY <1>3, SizedFits, HopDataFieldsAt, Sizes, KindFacts, Zenon
<1>8. \A j \in 1 .. 6 : j = 1 \/ j = 2 \/ j = 3 \/ j = 4 \/ j = 5 \/ j = 6
  OBVIOUS
<1> QED
  BY <1>5, <1>6, <1>7, <1>8, Zenon DEF Encodes

\* An encrypter.
LEMMA EncrypterEncodes ==
  Encodes("OnionErrorEncrypter", EncrypterFields) /\ Len(EncrypterFields) = 1
<1>1. PICK a : a = Bytes("sharedSecret", 0, SecretSize)
  BY Zenon
<1>2. Sized(a, SecretSize)
  <2>1. SecretSize \in Nat
    BY Sizes
  <2> QED
    BY <1>1, <2>1, BytesFacts, KindFacts, Zenon
<1>3. PICK fs : fs = <<a>>
  BY Zenon
<1>4. fs \in Seq(Seq(Octets)) /\ Len(fs) = 1 /\ fs[1] = a
  BY <1>2, <1>3, FewSequences DEF Sized
<1>5. EncrypterFields = fs
  BY <1>1, <1>3, Zenon DEF EncrypterFields
<1>6. FieldFits("OnionErrorEncrypter", 1, a)
  BY <1>2, SizedFits, EncrypterFieldAt, Sizes, Zenon
<1>7. \A j \in 1 .. 1 : j = 1
  OBVIOUS
<1> QED
  BY <1>4, <1>5, <1>6, <1>7, Zenon DEF Encodes

\* A length below the range of a byte is kept by the conversion to uint8.
LEMMA Uint8Keeps == \A n \in Nat : n < ByteRange => Uint8(n) = n
BY Sizes DEF Uint8

\* A circuit of n hops.
LEMMA CircuitEncodes ==
  ASSUME NEW n \in 1 .. NumMaxHops
  PROVE  /\ Encodes("Circuit", CircuitFields(n)) /\ Len(CircuitFields(n)) = n + 3
         /\ CircuitFields(n)[1] = Byte("length", SecretSize)
         /\ CircuitFields(n)[3] = Byte("length", n)
         /\ \A k \in 1 .. n : CircuitFields(n)[k + 3] = Key(k)
<1>0. n \in Nat /\ n < ByteRange /\ SecretSize \in Nat
  BY Sizes
<1>1. PICK a, b, c, t : /\ a = Byte("length", Uint8(SecretSize))
                        /\ b = Bytes("SessionKey", 0, SecretSize)
                        /\ c = Byte("length", Uint8(n))
                        /\ t = [k \in 1 .. n |-> Key(k)]
  BY Zenon
<1>2. a = Byte("length", SecretSize) /\ c = Byte("length", n)
  BY <1>0, <1>1, Uint8Keeps, Sizes, Zenon
<1>3. /\ Sized(a, 1) /\ Sized(c, 1)
      /\ Sized(b, SecretSize)
  BY <1>0, <1>1, <1>2, ByteFacts, BytesFacts, KindFacts, Zenon
<1>4. t \in Seq(Seq(Octets)) /\ Len(t) = n /\ \A k \in 1 .. n : t[k] = Key(k)
  <2>1. \A k \in 1 .. n : k \in Nat
    BY UpwardNat
  <2>2. \A k \in 1 .. n : t[k] = Key(k) /\ Sized(Key(k), KeySize)
    BY <1>1, <2>1, KeyFacts, Zenon
  <2>3. t \in [1 .. n -> Seq(Octets)]
    BY <1>1, <2>2, Zenon DEF Sized
  <2> QED
    BY <1>0, <2>2, <2>3, FunctionIsSeq, Zenon
<1>5. PICK h : h = <<a, b, c>>
  BY Zenon
<1>6. h \in Seq(Seq(Octets)) /\ Len(h) = 3 /\ h[1] = a /\ h[2] = b /\ h[3] = c
  BY <1>3, <1>5, FewSequences DEF Sized
<1>7. PICK fs : fs = h \o t
  BY Zenon
<1>8. /\ fs \in Seq(Seq(Octets)) /\ Len(fs) = n + 3
      /\ fs[1] = a /\ fs[2] = b /\ fs[3] = c
      /\ \A k \in 1 .. n : fs[k + 3] = Key(k)
  <2>1. /\ fs \in Seq(Seq(Octets)) /\ Len(fs) = 3 + n
        /\ \A i \in 1 .. 3 + n : fs[i] = IF i <= 3 THEN h[i] ELSE t[i - 3]
    <3>1. /\ h \o t \in Seq(Seq(Octets)) /\ Len(h \o t) = Len(h) + Len(t)
          /\ \A i \in 1 .. Len(h) + Len(t) :
               (h \o t)[i] = IF i <= Len(h) THEN h[i] ELSE t[i - Len(h)]
      BY <1>4, <1>6, ConcatProperties, Zenon
    <3> QED
      BY <1>4, <1>6, <1>7, <3>1, Zenon
  <2>2. fs[1] = h[1] /\ fs[2] = h[2] /\ fs[3] = h[3] /\ 3 + n = n + 3
    BY <1>0, <2>1
  <2>3. ASSUME NEW k \in 1 .. n
        PROVE  fs[k + 3] = Key(k)
    <3>1. PICK i : i = k + 3
      BY Zenon
    <3>2. i \in 1 .. 3 + n /\ ~(i <= 3) /\ i - 3 = k
      BY <1>0, <3>1
    <3>3. fs[i] = t[i - 3]
      BY <2>1, <3>2, Zenon
    <3> QED
      BY <1>4, <3>1, <3>2, <3>3, Zenon
  <2> QED
    BY <1>6, <2>1, <2>2, <2>3, Zenon
<1>9. CircuitFields(n) = fs
  BY <1>1, <1>5, <1>7, Zenon DEF CircuitFields
<1>10. /\ FieldFits("Circuit", 1, a) /\ FieldFits("Circuit", 2, b)
       /\ FieldFits("Circuit", 3, c)
  BY <1>3, SizedFits, OtherFieldsAt, Sizes, KindFacts, Zenon
<1>11. ASSUME NEW j \in 1 .. n + 3
       PROVE  FieldFits("Circuit", j, fs[j])
  <2>1. CASE j = 1 \/ j = 2 \/ j = 3
    BY <1>8, <1>10, <2>1, Zenon
  <2>2. CASE j # 1 /\ j # 2 /\ j # 3
    <3>1. PICK k : k = j - 3
      BY Zenon
    <3>2. k \in 1 .. n /\ k + 3 = j /\ j \in Nat /\ j > 3 /\ k \in Nat
      BY <1>0, <2>2, <3>1
    <3>3. fs[j] = Key(k)
      BY <1>8, <3>2, Zenon
    <3>4. Sized(fs[j], KeySize)
      BY <3>2, <3>3, KeyFacts, Zenon
    <3> QED
      BY <3>2, <3>4, SizedFits, OtherFieldsAt, Sizes, Zenon
  <2> QED
    BY <2>1, <2>2, Zenon
<1> QED
  BY <1>2, <1>8, <1>9, <1>11, Zenon DEF Encodes

\* The elements of a replay set, in some order.
LEMMA OrderIsSequence ==
  ASSUME NEW p \in Visits
  PROVE  \E n \in Nat : DOMAIN p = 1 .. n /\ \A j \in 1 .. n : p[j] \in Nat
<1>1. PICK n \in 0 .. NumReplays : p \in [1 .. n -> 1 .. NumReplays]
  BY Zenon DEF Visits, Injection
<1>2. n \in Nat
  BY Sizes
<1> QED
  BY <1>1, <1>2, UpwardNat, Zenon

\* A replay set.
LEMMA ReplaySetEncodes ==
  ASSUME NEW p \in Visits
  PROVE  Encodes("ReplaySet", ReplaySetFields(p))
<1>1. PICK n \in Nat : DOMAIN p = 1 .. n /\ \A j \in 1 .. n : p[j] \in Nat
  BY OrderIsSequence, Zenon
<1>2. PICK fs : fs = ReplaySetFields(p)
  BY Zenon
<1>3. fs = [j \in 1 .. n |-> Bytes("seqNum", p[j], 2)]
  BY <1>1, <1>2, Zenon DEF ReplaySetFields
<1>4. \A j \in 1 .. n : fs[j] = Bytes("seqNum", p[j], 2)
  BY <1>3, Zenon
<1>5. 2 \in Nat
  OBVIOUS
<1>6. \A j \in 1 .. n : Sized(fs[j], 2)
  <2> TAKE j \in 1 .. n
  <2>1. fs[j] = Bytes("seqNum", p[j], 2) /\ p[j] \in Nat /\ "seqNum" \in Kinds
    BY <1>1, <1>4, KindFacts, Zenon
  <2>2. Sized(Bytes("seqNum", p[j], 2), 2)
    BY <1>5, <2>1, BytesFacts, Zenon
  <2> QED
    BY <2>1, <2>2, Zenon
<1>7. fs \in [1 .. n -> Seq(Octets)]
  BY <1>3, <1>4, <1>6, Zenon DEF Sized
<1>8. fs \in Seq(Seq(Octets)) /\ Len(fs) = n
  BY <1>7, FunctionIsSeq, Zenon
<1>9. \A j \in 1 .. n : FieldFits("ReplaySet", j, fs[j])
  BY <1>6, SizedFits, OtherFieldsAt, KindFacts, Zenon
<1> QED
  BY <1>2, <1>8, <1>9, Zenon DEF Encodes

\* The types that are encoded.
LEMMA FormatCases ==
  ASSUME NEW f \in Formats
  PROVE  \/ f = "OnionPacket" \/ f = "HopData" \/ f = "OnionErrorEncrypter"
         \/ f = "Circuit" \/ f = "ReplaySet"
BY CodecAssumption

\* What Encode makes of a packet.
LEMMA PacketCase ==
  ASSUME NEW fs \in Encodings("OnionPacket")
  PROVE  \E v \in {baseVersion, 1}, k \in {Key(0), NoKey} : fs = OnionPacketFields(v, k)
BY DEF Encodings

\* What Encode makes of a circuit.
LEMMA CircuitCase ==
  ASSUME NEW fs \in Encodings("Circuit")
  PROVE  \E n \in 1 .. NumMaxHops : fs = CircuitFields(n)
BY DEF Encodings

\* What Encode makes of a replay set.
LEMMA ReplaySetCase ==
  ASSUME NEW fs \in Encodings("ReplaySet")
  PROVE  \E p \in Visits : fs = ReplaySetFields(p)
BY DEF Encodings

\* What Encode makes of the others.
LEMMA PlainCases ==
  /\ Encodings("HopData") = {HopDataFields}
  /\ Encodings("OnionErrorEncrypter") = {EncrypterFields}
BY DEF Encodings

\* Every encoding has the fields that Decode reads.
LEMMA EncodingFacts ==
  ASSUME NEW f \in Formats, NEW fs \in Encodings(f)
  PROVE  Encodes(f, fs)
<1>1. CASE f = "OnionPacket"
  BY <1>1, PacketCase, PacketEncodes, Zenon
<1>2. CASE f = "HopData"
  BY <1>2, PlainCases, HopDataEncodes, Zenon
<1>3. CASE f = "OnionErrorEncrypter"
  BY <1>3, PlainCases, EncrypterEncodes, Zenon
<1>4. CASE f = "Circuit"
  BY <1>4, CircuitCase, CircuitEncodes, Zenon
<1>5. CASE f = "ReplaySet"
  BY <1>5, ReplaySetCase, ReplaySetEncodes, Zenon
<1> QED
  BY <1>1, <1>2, <1>3, <1>4, <1>5, FormatCases, Zenon

-----------------------------------------------------------------------------
(***************************************************************************)
(* The input of Decode.                                                    *)
(***************************************************************************)

\* One of g and a is a prefix of the other.
Agree(g, a) ==
  /\ g \in Seq(Octets) /\ a \in Seq(Octets)
  /\ \A i \in 1 .. Len(g) : i <= Len(a) => g[i] = a[i]

\* An input agrees with the encoding it is made from, as far as both go.
LEMMA InputFacts ==
  ASSUME NEW f, NEW fs, FlattenSeq(fs) \in Seq(Octets), NEW g \in Inputs(f, fs)
  PROVE  /\ Agree(g, FlattenSeq(fs))
         /\ f = "ReplaySet" => Len(g) <= Len(FlattenSeq(fs))
         /\ f \notin Cuts => Len(g) >= Len(FlattenSeq(fs))
<1>1. PICK a : a = FlattenSeq(fs)
  BY Zenon
<1>2. a \in Seq(Octets) /\ Len(a) \in Nat
  BY <1>1
<1>3. \/ g = a
      \/ f # "ReplaySet" /\ g = a \o Trailer
      \/ f \in Cuts /\ \E n \in 0 .. Len(a) : g = SubSeq(a, 1, n)
  BY <1>1, Zenon DEF Inputs
<1>4. CASE g = a
  BY <1>1, <1>2, <1>4 DEF Agree
<1>5. CASE f # "ReplaySet" /\ g = a \o Trailer
  <2>1. Sized(Trailer, 1)
    BY BytesFacts, KindFacts, Zenon DEF Trailer
  <2>2. Trailer \in Seq(Octets) /\ Len(Trailer) = 1
    BY <2>1, Zenon DEF Sized
  <2>3. /\ g \in Seq(Octets) /\ Len(g) = Len(a) + 1
        /\ \A i \in 1 .. Len(g) : i <= Len(a) => g[i] = a[i]
    <3>1. PICK t : t = Trailer
      BY Zenon
    <3>2. /\ a \o t \in Seq(Octets) /\ Len(a \o t) = Len(a) + Len(t)
          /\ \A i \in 1 .. Len(a) + Len(t) :
               (a \o t)[i] = IF i <= Len(a) THEN a[i] ELSE t[i - Len(a)]
      BY <1>2, <2>2, <3>1, ConcatProperties, Zenon
    <3> QED
      BY <1>5, <2>2, <3>1, <3>2, Zenon
  <2>4. Len(g) >= Len(a)
    BY <1>2, <2>3
  <2> QED
    BY <1>1, <1>2, <1>5, <2>3, <2>4, Zenon DEF Agree
<1>6. CASE f \in Cuts /\ \E n \in 0 .. Len(a) : g = SubSeq(a, 1, n)
  <2>1. PICK n \in 0 .. Len(a) : g = SubSeq(a, 1, n)
    BY <1>6
  <2>2. /\ g \in Seq(Octets) /\ Len(g) = n
        /\ \A i \in 1 .. Len(g) : i <= Len(a) => g[i] = a[i]
    <3>1. n \in Nat /\ \A i \in 1 .. n : a[i] \in Octets
      BY <1>2, ElementOfSeq
    <3>2. /\ g \in Seq(Octets) /\ Len(g) = n
          /\ \A i \in 1 .. n : g[i] = a[i]
      BY <1>2, <2>1, <3>1
    <3> QED
      BY <3>2, Zenon
  <2>3. Len(g) <= Len(a)
    BY <1>2, <2>2
  <2> QED
    BY <1>1, <1>2, <1>6, <2>2, <2>3, Zenon DEF Agree
<1> QED
  BY <1>3, <1>4, <1>5, <1>6, Zenon

\* The bytes v, b and rest of an input, and the bytes v, x and more of an
\* encoding: b begins where x does, so that it is x when it is as long.
Aligned(v, b, rest, x, more) ==
  /\ Len((v \o b) \o rest) = Len(v) + Len(b) + Len(rest)
  /\ Len((v \o x) \o more) = Len(v) + Len(x) + Len(more)
  /\ Len(b) = Len(x) => b = x

\* So it is when the input agrees with the encoding.
LEMMA SamePlace ==
  ASSUME NEW v \in Seq(Octets), NEW b \in Seq(Octets), NEW rest \in Seq(Octets),
         NEW x \in Seq(Octets), NEW more \in Seq(Octets),
         Agree((v \o b) \o rest, (v \o x) \o more)
  PROVE  Aligned(v, b, rest, x, more)
<1>0. PICK g, a : g = (v \o b) \o rest /\ a = (v \o x) \o more
  BY Zenon
<1>1. /\ Len(v) \in Nat /\ Len(b) \in Nat /\ Len(rest) \in Nat
      /\ Len(x) \in Nat /\ Len(more) \in Nat
  OBVIOUS
<1>2. PICK c, d : c = v \o b /\ d = v \o x
  BY Zenon
<1>3. /\ c \in Seq(Octets) /\ Len(c) = Len(v) + Len(b)
      /\ d \in Seq(Octets) /\ Len(d) = Len(v) + Len(x)
  BY <1>2
<1>4. Len(g) = Len(c) + Len(rest) /\ Len(a) = Len(d) + Len(more)
  BY <1>0, <1>2, <1>3
<1>5. ASSUME Len(b) = Len(x), NEW i \in 1 .. Len(b)
      PROVE  b[i] = x[i]
  <2>1. PICK j : j = Len(v) + i
    BY Zenon
  <2>2. /\ j \in 1 .. Len(c) /\ j \in 1 .. Len(d) /\ j \in 1 .. Len(g) /\ j <= Len(a)
        /\ j \in 1 .. Len(v) + Len(b) /\ j \in 1 .. Len(v) + Len(x)
        /\ ~(j <= Len(v)) /\ j - Len(v) = i
    BY <1>1, <1>3, <1>4, <1>5, <2>1
  <2>3. c[j] = b[i] /\ d[j] = x[i]
    BY <1>2, <2>2, ConcatProperties
  <2>4. g[j] = c[j] /\ a[j] = d[j]
    BY <1>0, <1>1, <1>2, <1>3, <2>2, SMTT(30)
  <2>5. g[j] = a[j]
    BY <1>0, <2>2, Zenon DEF Agree
  <2> QED
    BY <2>3, <2>4, <2>5, Zenon
<1>6. Len(b) = Len(x) => b = x
  BY <1>5, SeqEqual
<1>7. /\ Len(g) = Len(v) + Len(b) + Len(rest)
      /\ Len(a) = Len(v) + Len(x) + Len(more)
  BY <1>1, <1>3, <1>4
<1> QED
  BY <1>0, <1>6, <1>7, Zenon DEF Aligned

\* The order in which s, t and u are put together does not matter.
Associate(s, t, u) == (s \o t) \o u = s \o (t \o u)

\* It does not, for sequences of bytes.
LEMMA Associative ==
  ASSUME NEW s \in Seq(Octets), NEW t \in Seq(Octets), NEW u \in Seq(Octets)
  PROVE  Associate(s, t, u)
BY ConcatAssociative, SMTT(30) DEF Associate

\* The first n bytes of rest are added to b, and nothing is lost.
HandedOut(v, b, rest, n) ==
  /\ b \o SubSeq(rest, 1, n) \in Seq(Octets)
  /\ Len(b \o SubSeq(rest, 1, n)) = Len(b) + n
  /\ SubSeq(rest, n + 1, Len(rest)) \in Seq(Octets)
  /\ (v \o (b \o SubSeq(rest, 1, n))) \o SubSeq(rest, n + 1, Len(rest))
       = (v \o b) \o rest

\* The reader hands out the first n bytes.
LEMMA HandOut ==
  ASSUME NEW v \in Seq(Octets), NEW b \in Seq(Octets), NEW rest \in Seq(Octets),
         NEW n \in 0 .. Len(rest)
  PROVE  HandedOut(v, b, rest, n)
<1>0. PICK c, d : c = b \o SubSeq(rest, 1, n) /\ d = SubSeq(rest, n + 1, Len(rest))
  BY Zenon
<1>1. PICK h : h = SubSeq(rest, 1, n)
  BY Zenon
<1>2. h \in Seq(Octets) /\ Len(h) = n /\ d \in Seq(Octets)
  BY <1>0, <1>1
<1>3. h \o d = rest
  <2>1. Len(rest) \in Nat
    OBVIOUS
  <2>2. /\ 1 \in 1 .. Len(rest) + 1 /\ n \in 1 - 1 .. Len(rest)
        /\ Len(rest) \in n .. Len(rest)
    BY <2>1
  <2>3. h \o d = SubSeq(rest, 1, Len(rest))
    BY <1>0, <1>1, <2>2, ConcatAdjacentSubSeq, Zenon
  <2> QED
    BY <2>3, SubSeqFull, Zenon
<1>4. c = b \o h
  BY <1>0, <1>1, Zenon
<1>5. c \in Seq(Octets) /\ Len(c) = Len(b) + n
  BY <1>2, <1>4
<1>6. Associate(v, c, d) /\ Associate(v, b, rest) /\ Associate(b, h, d)
  BY <1>2, <1>5, Associative, Zenon
<1>7. (v \o c) \o d = v \o (c \o d) /\ (v \o b) \o rest = v \o (b \o rest)
  BY <1>6, Zenon DEF Associate
<1>8. (b \o h) \o d = b \o (h \o d)
  BY <1>6, Zenon DEF Associate
<1>9. (v \o c) \o d = (v \o b) \o rest
  BY <1>3, <1>4, <1>7, <1>8, Zenon
<1> QED
  BY <1>0, <1>2, <1>5, <1>9, Zenon DEF HandedOut

\* What the bytes read so far say of the next field, and of the end of the input.
BytesFit ==
  /\ Len(value) < Len(fields) =>
       /\ Len(buf) = Len(fields[Len(value) + 1]) => buf = fields[Len(value) + 1]
       /\ input = <<>> /\ Len(buf) < Len(fields[Len(value) + 1])
          => Len(given) < Len(FlattenSeq(fields))
       /\ format \notin Cuts => Len(input) >= Len(fields[Len(value) + 1]) - Len(buf)
  /\ Len(value) = Len(fields) /\ format = "ReplaySet" => input = <<>>

\* The fields that were decoded, and those that were encoded, are made of bytes.
LEMMA DataFacts ==
  ASSUME DataOK
  PROVE  /\ Encodes(format, fields)
         /\ fields \in Seq(Seq(Octets))
         /\ Len(fields) \in Nat /\ Len(value) \in Nat /\ Len(value) <= Len(fields)
         /\ value \in Seq(Seq(Octets))
         /\ FlattenSeq(value) \in Seq(Octets)
         /\ FlattenSeq(fields) \in Seq(Octets)
<1>1. Encodes(format, fields)
  BY EncodingFacts, Zenon DEF DataOK
<1>2. fields \in Seq(Seq(Octets))
  BY <1>1, Zenon DEF Encodes
<1>3. PICK i : i = Len(value)
  BY Zenon
<1>4. i \in 0 .. Len(fields) /\ value = SubSeq(fields, 1, i)
  BY <1>3, Zenon DEF DataOK
<1>5. Len(fields) \in Nat
  BY <1>2
<1>6. i \in Nat /\ i <= Len(fields)
  BY <1>4, <1>5
<1>7. value \in Seq(Seq(Octets))
  BY <1>2, <1>4, <1>6
<1>8. FlattenSeq(value) \in Seq(Octets)
  BY <1>2, <1>4, FlattenPrefix, Zenon
<1>9. FlattenSeq(fields) \in Seq(Octets)
  <2>1. Len(fields) \in 0 .. Len(fields)
    BY <1>5
  <2>2. FlattenSeq(SubSeq(fields, 1, Len(fields))) \in Seq(Octets)
    BY <1>2, <2>1, FlattenPrefix, Zenon
  <2>3. SubSeq(fields, 1, Len(fields)) = fields
    BY <1>2, SubSeqFull, Zenon
  <2> QED
    BY <2>2, <2>3, Zenon
<1> QED
  BY <1>1, <1>2, <1>3, <1>5, <1>6, <1>7, <1>8, <1>9, Zenon

\* The next field, behind those that were decoded.
LEMMA NextDecoded ==
  ASSUME DataOK, Len(value) < Len(fields)
  PROVE  /\ fields[Len(value) + 1] \in Seq(Octets)
         /\ Append(value, fields[Len(value) + 1]) = SubSeq(fields, 1, Len(value) + 1)
         /\ FlattenSeq(Append(value, fields[Len(value) + 1]))
              = FlattenSeq(value) \o fields[Len(value) + 1]
<1>1. PICK i : i = Len(value)
  BY Zenon
<1>2. /\ fields \in Seq(Seq(Octets)) /\ value \in Seq(Seq(Octets))
      /\ Len(fields) \in Nat /\ i \in Nat /\ i < Len(fields)
      /\ value = SubSeq(fields, 1, i)
  BY <1>1, DataFacts, Zenon DEF DataOK
<1>3. i + 1 \in 1 .. Len(fields)
  BY <1>2
<1>4. fields[i + 1] \in Seq(Octets)
  BY <1>2, <1>3, ElementOfSeq, Zenon
<1>5. Append(value, fields[i + 1]) = SubSeq(fields, 1, i + 1)
  BY <1>2, <1>3, <1>4
<1>6. FlattenSeq(Append(value, fields[i + 1])) = FlattenSeq(value) \o fields[i + 1]
  BY <1>2, <1>4, FlattenAppend, Zenon
<1> QED
  BY <1>1, <1>4, <1>5, <1>6, Zenon

\* They fit the encoding.
LEMMA BytesFitData ==
  ASSUME DataOK, BytesOK
  PROVE  BytesFit
<1>1. PICK i, v, a : i = Len(value) /\ v = FlattenSeq(value) /\ a = FlattenSeq(fields)
  BY Zenon
<1>2. /\ Len(fields) \in Nat /\ i \in Nat /\ i <= Len(fields)
      /\ fields \in Seq(Seq(Octets)) /\ v \in Seq(Octets) /\ a \in Seq(Octets)
  BY <1>1, DataFacts, Zenon
<1>3. buf \in Seq(Octets) /\ input \in Seq(Octets) /\ given = (v \o buf) \o input
  BY <1>1, Zenon DEF BytesOK
<1>4. /\ Agree(given, a)
      /\ format = "ReplaySet" => Len(given) <= Len(a)
      /\ format \notin Cuts => Len(given) >= Len(a)
  BY <1>1, <1>2, InputFacts, Zenon DEF DataOK
<1>5. ASSUME i < Len(fields)
      PROVE  /\ Len(buf) = Len(fields[i + 1]) => buf = fields[i + 1]
             /\ input = <<>> /\ Len(buf) < Len(fields[i + 1]) => Len(given) < Len(a)
             /\ format \notin Cuts => Len(input) >= Len(fields[i + 1]) - Len(buf)
  <2>1. PICK x : x = fields[i + 1]
    BY Zenon
  <2>2. /\ x \in Seq(Octets)
        /\ SubSeq(fields, 1, i + 1) = Append(value, x)
        /\ FlattenSeq(Append(value, x)) = v \o x
    BY <1>1, <1>5, <2>1, NextDecoded, Zenon
  <2>3. PICK more \in Seq(Octets) : a = (v \o x) \o more
    <3>1. i + 1 \in 0 .. Len(fields)
      BY <1>2, <1>5
    <3>2. \E r \in Seq(Octets) : a = FlattenSeq(SubSeq(fields, 1, i + 1)) \o r
      BY <1>1, <1>2, <3>1, FlattenPrefix, Zenon
    <3> QED
      BY <2>2, <3>2, Zenon
  <2>4. /\ Len(given) = Len(v) + Len(buf) + Len(input)
        /\ Len(a) = Len(v) + Len(x) + Len(more)
        /\ Len(buf) = Len(x) => buf = x
    <3>1. Aligned(v, buf, input, x, more)
      BY <1>2, <1>3, <1>4, <2>2, <2>3, SamePlace, Zenon
    <3> QED
      BY <1>3, <2>3, <3>1, Zenon DEF Aligned
  <2>5. /\ Len(v) \in Nat /\ Len(buf) \in Nat /\ Len(input) \in Nat
        /\ Len(x) \in Nat /\ Len(more) \in Nat /\ (input = <<>> => Len(input) = 0)
    BY <1>2, <1>3, <2>2, SMTT(30)
  <2>6. Len(input) = 0 /\ Len(buf) < Len(x) => Len(given) < Len(a)
    BY <2>4, <2>5
  <2>7. Len(given) >= Len(a) => Len(input) >= Len(x) - Len(buf)
    BY <2>4, <2>5
  <2> QED
    BY <1>4, <2>1, <2>4, <2>5, <2>6, <2>7, Zenon
<1>6. ASSUME i = Len(fields), format = "ReplaySet"
      PROVE  input = <<>>
  <2>1. v = a
    <3>1. value = fields
      BY <1>1, <1>2, <1>6, SubSeqFull, Zenon DEF DataOK
    <3> QED
      BY <1>1, <3>1, Zenon
  <2>2. PICK c : c = v \o buf
    BY Zenon
  <2>3. c \in Seq(Octets) /\ Len(c) = Len(v) + Len(buf)
    BY <1>2, <1>3, <2>2
  <2>4. Len(given) = Len(c) + Len(input)
    BY <1>3, <2>2, <2>3
  <2>5. /\ Len(v) \in Nat /\ Len(buf) \in Nat /\ Len(input) \in Nat
        /\ Len(given) <= Len(v)
    BY <1>2, <1>3, <1>4, <1>6, <2>1
  <2>6. Len(input) = 0
    BY <2>3, <2>4, <2>5
  <2> QED
    BY <1>3, <2>6
<1> QED
  BY <1>1, <1>5, <1>6, Zenon DEF BytesFit

-----------------------------------------------------------------------------
(***************************************************************************)
(* The steps of Decode keep the invariant.                                 *)
(***************************************************************************)

\* What holds of an encoding whose readers are reliable.
Decoding == DataOK /\ BytesOK /\ BufferOK /\ StatusOK

\* Decode knows of the next field.
LEMMA KnownFacts ==
  ASSUME NEW f, NEW n \in Nat, NEW i \in Nat, i < n \/ f = "ReplaySet"
  PROVE  Known(f, n, i) \in Nat /\ i < Known(f, n, i)
<1>1. CASE f = "Circuit"
  <2>1. Known(f, n, i) = IF i = 0 THEN 1 ELSE IF i < 3 THEN 3 ELSE n
    BY <1>1, Zenon DEF Known
  <2> QED
    BY <1>1, <2>1
<1>2. CASE f = "ReplaySet"
  BY <1>2 DEF Known
<1>3. CASE f # "Circuit" /\ f # "ReplaySet"
  <2>1. Known(f, n, i) = n
    BY <1>3, Zenon DEF Known
  <2> QED
    BY <1>3, <2>1
<1> QED
  BY <1>1, <1>2, <1>3

\* The field that is being read.
LEMMA CurrentField ==
  ASSUME Decoding, status = "reading"
  PROVE  /\ field = FieldAt(format, Len(value) + 1)
         /\ todo = FieldsTo(format, Len(value), Known(format, Len(fields), Len(value)))
         /\ AcceptedOK(Len(value))
         /\ format # "ReplaySet" => Len(value) < Len(fields)
         /\ Len(value) < Len(fields) =>
              /\ field.size \in Nat \ {0}
              /\ field.size = Len(fields[Len(value) + 1])
              /\ format # "Circuit" => field.via = "full"
<1>1. /\ todo = FieldsTo(format, Len(value), Known(format, Len(fields), Len(value)))
      /\ AcceptedOK(Len(value))
      /\ format # "ReplaySet" => Len(value) < Len(fields)
  BY DEF Decoding, StatusOK
<1>2. Encodes(format, fields) /\ Len(fields) \in Nat /\ Len(value) \in Nat
  BY DataFacts, Zenon DEF Decoding
<1>3. PICK i, m : i = Len(value) /\ m = Known(format, Len(fields), i)
  BY Zenon
<1>4. i < Len(fields) \/ format = "ReplaySet"
  BY <1>1, <1>3, Zenon
<1>5. i \in Nat /\ m \in Nat /\ i < m
  BY <1>2, <1>3, <1>4, KnownFacts, Zenon
<1>6. field = FieldAt(format, i + 1)
  BY <1>1, <1>3, <1>5, FieldsToFacts, Zenon DEF field
<1>7. ASSUME i < Len(fields)
      PROVE  FieldFits(format, i + 1, fields[i + 1])
  <2>1. i + 1 \in 1 .. Len(fields)
    BY <1>2, <1>5, <1>7
  <2> QED
    BY <1>2, <2>1, Zenon DEF Encodes
<1> QED
  BY <1>1, <1>3, <1>6, <1>7, Zenon DEF FieldFits

\* A replay set of which every number was read.
LEMMA AllRead ==
  ASSUME Decoding, status = "reading", ~(Len(value) < Len(fields))
  PROVE  /\ format = "ReplaySet" /\ buf = <<>> /\ input = <<>>
         /\ field = Full("seqNum", 2)
         /\ ~Enough(field, buf)
<1>1. format = "ReplaySet"
  BY CurrentField, Zenon
<1>2. Len(value) = Len(fields)
  <2>1. Len(fields) \in Nat /\ Len(value) \in Nat /\ Len(value) <= Len(fields)
    BY DataFacts, Zenon DEF Decoding
  <2> QED
    BY <2>1
<1>3. buf = <<>>
  BY <1>2, Zenon DEF Decoding, BufferOK
<1>4. input = <<>>
  BY <1>1, <1>2, BytesFitData, Zenon DEF Decoding, BytesFit
<1>5. field = Full("seqNum", 2)
  BY <1>1, CurrentField, OtherFieldsAt, Zenon
<1>6. field.size = 2 /\ field.via = "full" /\ Len(buf) = 0
  <2>1. field.size = 2 /\ field.via = "full"
    BY <1>5, ReadingFacts
  <2>2. Len(buf) = 0
    BY <1>3
  <2> QED
    BY <2>1, <2>2, Zenon
<1>7. 0 # 2 /\ "full" # "once"
  OBVIOUS
<1>8. ~Enough(field, buf)
  BY <1>6, <1>7, Zenon DEF Enough
<1> QED
  BY <1>1, <1>3, <1>4, <1>5, <1>8, Zenon

\* The reader hands out bytes of the next field.
LEMMA ReadInv ==
  ASSUME Decoding, Reliable, NEW n \in Nat, Read(n)
  PROVE  Decoding'
<1>1. /\ status = "reading" /\ ~Enough(field, buf)
      /\ buf' = buf \o SubSeq(input, 1, n)
      /\ input' = SubSeq(input, n + 1, Len(input))
      /\ UNCHANGED <<format, fields, given, todo, value, status>>
  BY Zenon DEF Read
<1>2. PICK most : /\ most = IF Len(input) < field.size - Len(buf) THEN Len(input)
                            ELSE field.size - Len(buf)
                  /\ n \in IF format \in ShortReads THEN 1 .. most ELSE {most} \ {0}
  BY Zenon DEF Read
<1>3. PICK i, x : i = Len(value) /\ x = fields[Len(value) + 1]
  BY Zenon
<1>4. buf \in Seq(Octets) /\ input \in Seq(Octets) /\ Len(buf) \in Nat /\ Len(input) \in Nat
  BY DEF Decoding, BytesOK
<1>5. i < Len(fields)
  <2> SUFFICES ASSUME ~(i < Len(fields))
               PROVE  FALSE
    BY Zenon
  <2>1. input = <<>> /\ buf = <<>> /\ field = Full("seqNum", 2)
    BY <1>1, <1>3, AllRead, Zenon
  <2>2. field.size = 2 /\ Len(input) = 0 /\ Len(buf) = 0
    BY <2>1, ReadingFacts
  <2>3. most = 0
    BY <1>2, <2>2
  <2> QED
    BY <1>2, <2>3
<1>6. /\ field.size \in Nat \ {0} /\ field.size = Len(x)
      /\ format # "Circuit" => field.via = "full"
  BY <1>1, <1>3, <1>5, CurrentField, Zenon
<1>7. Len(buf) <= Len(x) /\ (format = "Circuit" => Len(buf) \in {0, Len(x)})
  BY <1>3, <1>5, Zenon DEF Decoding, BufferOK
<1>8. n <= most /\ most <= Len(input) /\ most <= Len(x) - Len(buf) /\ most \in Nat
  BY <1>2, <1>4, <1>6, <1>7
<1>9. BytesOK' /\ Len(buf') = Len(buf) + n
  <2>1. PICK v : v = FlattenSeq(value)
    BY Zenon
  <2>2. v \in Seq(Octets)
    BY <2>1, DataFacts, Zenon DEF Decoding
  <2>3. n \in 0 .. Len(input)
    BY <1>4, <1>8
  <2>4. HandedOut(v, buf, input, n)
    BY <1>4, <2>2, <2>3, HandOut, Zenon
  <2>5. /\ buf' \in Seq(Octets) /\ Len(buf') = Len(buf) + n /\ input' \in Seq(Octets)
        /\ (v \o buf') \o input' = (v \o buf) \o input
    BY <1>1, <2>4, Zenon DEF HandedOut
  <2>6. (v \o buf) \o input = given
    BY <2>1, Zenon DEF Decoding, BytesOK
  <2> QED
    BY <1>1, <2>1, <2>5, <2>6, Zenon DEF BytesOK
<1>10. Len(buf') <= Len(x) /\ (format = "Circuit" => Len(buf') = Len(x))
  <2>1. Len(buf') <= Len(x)
    BY <1>4, <1>6, <1>8, <1>9
  <2>2. ASSUME format = "Circuit"
        PROVE  Len(buf') = Len(x)
    <3>1. Len(buf) # Len(x)
      BY <1>1, <1>6, Zenon DEF Enough
    <3>2. Len(buf) = 0
      BY <1>7, <2>2, <3>1, Zenon
    <3>3. format \notin ShortReads /\ format \notin Cuts
      BY <2>2, Zenon DEF Reliable
    <3>4. Len(input) >= Len(x) - Len(buf)
      BY <1>3, <1>5, <3>3, BytesFitData, Zenon DEF Decoding, BytesFit
    <3>5. n = most
      BY <1>2, <3>3, Zenon
    <3> QED
      BY <1>2, <1>4, <1>6, <1>9, <3>2, <3>4, <3>5
  <2> QED
    BY <2>1, <2>2, Zenon
<1>11. BufferOK'
  <2>1. Len(value) # Len(fields)
    <3>1. Len(value) \in Nat /\ Len(fields) \in Nat
      BY DataFacts, Zenon DEF Decoding
    <3> QED
      BY <1>3, <1>5, <3>1
  <2> QED
    BY <1>1, <1>3, <1>10, <2>1, Zenon DEF BufferOK
<1>12. DataOK'
  BY <1>1, Zenon DEF Decoding, DataOK
<1>13. StatusOK'
  <2>1. /\ todo = FieldsTo(format, Len(value), Known(format, Len(fields), Len(value)))
        /\ AcceptedOK(Len(value))
        /\ format # "ReplaySet" => Len(value) < Len(fields)
    BY <1>1, CurrentField, Zenon
  <2>2. AcceptedOK(Len(value))'
    BY <1>1, <2>1, Zenon DEF AcceptedOK
  <2> QED
    BY <1>1, <2>1, <2>2, Zenon DEF StatusOK
<1> QED
  BY <1>9, <1>11, <1>12, <1>13, Zenon DEF Decoding

\* Only a replay set has numbers.
LEMMA OnlyNumbers ==
  ASSUME NEW f \in Formats, NEW fs \in Encodings(f), NEW i \in Nat, i < Len(fs),
         FieldAt(f, i + 1).kind = "seqNum"
  PROVE  f = "ReplaySet"
<1>0. PICK j : j = i + 1
  BY Zenon
<1>1. CASE f = "OnionPacket"
  <2>1. Len(fs) = 4
    BY <1>1, PacketCase, PacketEncodes, Zenon
  <2>2. j = 1 \/ j = 2 \/ j = 3 \/ j = 4
    BY <1>0, <2>1
  <2>3. FieldAt("OnionPacket", j).kind \in {"version", "key", "data"}
    BY <2>2, PacketLayout, ReadingFacts
  <2> QED
    BY <1>0, <1>1, <2>3
<1>2. CASE f = "HopData"
  <2>1. Len(fs) = 6
    BY <1>2, PlainCases, HopDataEncodes, Zenon
  <2>2. j = 1 \/ j = 2 \/ j = 3 \/ j = 4 \/ j = 5 \/ j = 6
    BY <1>0, <2>1
  <2>3. FieldAt("HopData", j).kind = "data"
    BY <2>2, HopDataFieldsAt, ReadingFacts
  <2> QED
    BY <1>0, <1>2, <2>3
<1>3. CASE f = "OnionErrorEncrypter"
  <2>1. Len(fs) = 1
    BY <1>3, PlainCases, EncrypterEncodes, Zenon
  <2>2. j = 1
    BY <1>0, <2>1
  <2> QED
    BY <1>0, <1>3, <2>2, EncrypterFieldAt, ReadingFacts
<1>4. CASE f = "Circuit"
  <2>1. j = 1 \/ j = 2 \/ j = 3 \/ (j \in Nat /\ j > 3)
    BY <1>0
  <2>2. FieldAt("Circuit", j).kind \in {"keyLength", "data", "pathLength", "key"}
    BY <2>1, OtherFieldsAt, ReadingFacts
  <2> QED
    BY <1>0, <1>4, <2>2
<1> QED
  BY <1>1, <1>2, <1>3, <1>4, FormatCases, Zenon

\* The input ends.
LEMMA ReadEndInv ==
  ASSUME Decoding, ReadEnd
  PROVE  Decoding'
<1>1. /\ status = "reading" /\ ~Enough(field, buf) /\ input = <<>>
      /\ status' = ErrorAtEnd(field, buf)
      /\ UNCHANGED <<format, fields, given, input, todo, buf, value>>
  BY Zenon DEF ReadEnd
<1>2. DataOK' /\ BytesOK' /\ BufferOK'
  BY <1>1, Zenon DEF Decoding, DataOK, BytesOK, BufferOK
<1>3. \/ status' = "ErrUnexpectedEOF" /\ Len(buf) > 0
      \/ status' = "ok" /\ ~(Len(buf) > 0) /\ field.kind = "seqNum"
      \/ status' = "EOF" /\ ~(Len(buf) > 0) /\ field.kind # "seqNum"
  BY <1>1, Zenon DEF ErrorAtEnd
<1>4. buf \in Seq(Octets) /\ Len(buf) \in Nat
  BY DEF Decoding, BytesOK
<1>5. AcceptedOK(Len(value)) /\ field = FieldAt(format, Len(value) + 1)
  BY <1>1, CurrentField, Zenon
<1>6. AcceptedOK(Len(value))'
  BY <1>1, <1>5, Zenon DEF AcceptedOK
<1>7. CASE ~(Len(value) < Len(fields))
  <2>1. format = "ReplaySet" /\ buf = <<>> /\ field = Full("seqNum", 2)
    BY <1>1, <1>7, AllRead, Zenon
  <2>2. field.kind = "seqNum" /\ Len(buf) = 0
    BY <2>1, ReadingFacts
  <2>3. status' = "ok"
    BY <1>3, <2>2
  <2>4. StatusOK'
    BY <1>1, <1>6, <2>1, <2>3, Zenon DEF StatusOK
  <2> QED
    BY <1>2, <2>4, Zenon DEF Decoding
<1>8. CASE Len(value) < Len(fields)
  <2>1. PICK x : x = fields[Len(value) + 1]
    BY Zenon
  <2>2. field.size \in Nat \ {0} /\ field.size = Len(x)
    BY <1>1, <1>8, <2>1, CurrentField, Zenon
  <2>3. Len(buf) <= Len(x) /\ Len(buf) # Len(x)
    BY <1>1, <1>8, <2>1, <2>2, Zenon DEF Decoding, BufferOK, Enough
  <2>4. Len(buf) < Len(x)
    BY <1>4, <2>2, <2>3
  <2>5. Len(given) < Len(FlattenSeq(fields))
    BY <1>1, <1>8, <2>1, <2>4, BytesFitData, Zenon DEF Decoding, BytesFit
  <2>6. CASE status' \in {"EOF", "ErrUnexpectedEOF"}
    <3>1. StatusOK'
      BY <1>1, <2>5, <2>6, Zenon DEF StatusOK
    <3> QED
      BY <1>2, <3>1, Zenon DEF Decoding
  <2>7. CASE status' = "ok" /\ ~(Len(buf) > 0) /\ field.kind = "seqNum"
    <3>1. buf = <<>>
      BY <1>4, <2>7
    <3>2. format = "ReplaySet"
      BY <1>5, <1>8, <2>7, OnlyNumbers, DataFacts, Zenon DEF Decoding, DataOK
    <3>3. StatusOK'
      BY <1>1, <1>6, <2>7, <3>1, <3>2, Zenon DEF StatusOK
    <3> QED
      BY <1>2, <3>3, Zenon DEF Decoding
  <2> QED
    BY <1>3, <2>6, <2>7, Zenon
<1> QED
  BY <1>7, <1>8, Zenon

\* Decode went on to field m, or has returned because of what it decoded.
StepsTo(m) ==
  \/ /\ status' = "reading"
     /\ AcceptedOK(m)
     /\ todo' = FieldsTo(format, m, Known(format, Len(fields), m))
     /\ format # "ReplaySet" => m < Len(fields)
  \/ /\ status' = "ok"
     /\ AcceptedOK(m)
     /\ format # "ReplaySet" => m = Len(fields)
  \/ /\ status' = "ErrInvalidOnionVersion"
     /\ format = "OnionPacket" /\ fields[1] # Byte("version", baseVersion)
  \/ /\ status' = "ErrInvalidOnionKey"
     /\ format = "OnionPacket" /\ fields[2] = NoKey

\* Decode has n fields to read, and knows of all of them.
LEMMA GoOnTail ==
  ASSUME NEW n \in Nat, NEW i \in Nat, i < n, n = Len(fields), format # "ReplaySet",
         todo = FieldsTo(format, i, n), GoOn(Tail(todo)),
         Known(format, n, i + 1) = n, AcceptedOK(i + 1)
  PROVE  StepsTo(i + 1)
<1>1. PICK t : t = Tail(todo)
  BY Zenon
<1>2. t = FieldsTo(format, i + 1, n)
  BY <1>1, FieldsToFacts, Zenon
<1>3. todo' = t /\ status' = IF t = <<>> THEN "ok" ELSE "reading"
  BY <1>1, Zenon DEF GoOn
<1>4. i + 1 \in Nat /\ (i + 1 = n \/ i + 1 < n)
  OBVIOUS
<1>5. CASE i + 1 = n
  <2>1. t = <<>>
    BY <1>2, <1>5, FieldsToEnd, Zenon
  <2> QED
    BY <1>3, <1>5, <2>1, Zenon DEF StepsTo
<1>6. CASE i + 1 < n
  <2>1. t # <<>>
    BY <1>2, <1>4, <1>6, FieldsToFacts, Zenon
  <2> QED
    BY <1>2, <1>3, <1>6, <2>1, Zenon DEF StepsTo
<1> QED
  BY <1>4, <1>5, <1>6, Zenon

\* A field that is read, and not looked at.
LEMMA CheckedData ==
  ASSUME NEW b, field.kind = "data", Checked(b)
  PROVE  GoOn(Tail(todo))
BY DEF Checked

\* The version of a packet.
LEMMA CheckedVersion ==
  ASSUME NEW b, field.kind = "version", Checked(b)
  PROVE  \/ b = Byte("version", baseVersion) /\ GoOn(Tail(todo))
         \/ b # Byte("version", baseVersion) /\ status' = "ErrInvalidOnionVersion"
<1>1. IF KnownVersion(b) THEN GoOn(Tail(todo)) ELSE Refuse("ErrInvalidOnionVersion")
  BY Zenon DEF Checked
<1> QED
  BY <1>1, Zenon DEF KnownVersion, Refuse

\* A key, which ParsePubKey accepts if it is one.
LEMMA CheckedKey ==
  ASSUME NEW b, field.kind = "key", Checked(b),
         b = NoKey \/ \E o \in 0 .. NumMaxHops : b = Key(o)
  PROVE  \/ b # NoKey /\ GoOn(Tail(todo))
         \/ b = NoKey /\ status' = "ErrInvalidOnionKey"
<1>1. PICK valid \in ParsePubKey(b) :
        IF valid THEN GoOn(Tail(todo)) ELSE Refuse("ErrInvalidOnionKey")
  BY DEF Checked
<1>2. \A o \in 0 .. NumMaxHops : Key(o) # NoKey
  <2>1. \A o \in 0 .. NumMaxHops : o \in Nat
    BY Sizes
  <2> QED
    BY <2>1, KeyFacts, Zenon
<1>3. CASE b = NoKey
  <2>1. ParsePubKey(b) = {FALSE}
    BY <1>2, <1>3, Zenon DEF ParsePubKey
  <2>2. status' = "ErrInvalidOnionKey"
    BY <1>1, <2>1, Zenon DEF Refuse
  <2> QED
    BY <1>3, <2>2, Zenon
<1>4. CASE \E o \in 0 .. NumMaxHops : b = Key(o)
  <2>1. ParsePubKey(b) = {TRUE}
    BY <1>4, Zenon DEF ParsePubKey
  <2>2. GoOn(Tail(todo))
    BY <1>1, <2>1, Zenon
  <2>3. b # NoKey
    BY <1>2, <1>4, Zenon
  <2> QED
    BY <2>2, <2>3, Zenon
<1> QED
  BY <1>3, <1>4, Zenon

\* A field of a packet.
LEMMA PacketStep ==
  ASSUME format = "OnionPacket", fields \in Encodings(format),
         NEW i \in Nat, i < Len(fields), AcceptedOK(i),
         field = FieldAt(format, i + 1),
         todo = FieldsTo(format, i, Known(format, Len(fields), i)),
         Checked(fields[i + 1])
  PROVE  StepsTo(i + 1)
<1>1. PICK v \in {baseVersion, 1}, k \in {Key(0), NoKey} : fields = OnionPacketFields(v, k)
  BY PacketCase, Zenon
<1>2. Len(fields) = 4 /\ fields[2] = k
  BY <1>1, PacketEncodes, Zenon
<1>3. \A n, j : Known(format, n, j) = n
  BY DEF Known
<1>4. todo = FieldsTo(format, i, 4)
  BY <1>2, <1>3, Zenon
<1>5. ASSUME AcceptedOK(i + 1), GoOn(Tail(todo))
      PROVE  StepsTo(i + 1)
  <2>1. 4 \in Nat /\ i < 4 /\ format # "ReplaySet" /\ Known(format, 4, i + 1) = 4
    BY <1>2, <1>3
  <2> QED
    BY <1>2, <1>4, <1>5, <2>1, GoOnTail, Zenon
<1>6. CASE i = 0
  <2>1. field.kind = "version" /\ i + 1 = 1
    BY <1>6, PacketLayout, ReadingFacts
  <2>2. CASE fields[1] = Byte("version", baseVersion) /\ GoOn(Tail(todo))
    <3>1. AcceptedOK(i + 1)
      BY <2>1, <2>2 DEF AcceptedOK
    <3> QED
      BY <1>5, <2>2, <3>1, Zenon
  <2>3. CASE /\ fields[1] # Byte("version", baseVersion)
             /\ status' = "ErrInvalidOnionVersion"
    BY <2>3, Zenon DEF StepsTo
  <2> QED
    BY <2>1, <2>2, <2>3, CheckedVersion, Zenon
<1>7. CASE i = 1
  <2>1. field.kind = "key" /\ i + 1 = 2
    BY <1>7, PacketLayout, ReadingFacts
  <2>2. fields[2] = NoKey \/ \E o \in 0 .. NumMaxHops : fields[2] = Key(o)
    <3>1. 0 \in 0 .. NumMaxHops
      BY Sizes
    <3>2. k = Key(0) \/ k = NoKey
      BY Zenon
    <3> QED
      BY <1>2, <3>1, <3>2, Zenon
  <2>3. CASE fields[2] # NoKey /\ GoOn(Tail(todo))
    <3>1. AcceptedOK(i + 1)
      BY <1>7, <2>1, <2>3 DEF AcceptedOK
    <3> QED
      BY <1>5, <2>3, <3>1, Zenon
  <2>4. CASE fields[2] = NoKey /\ status' = "ErrInvalidOnionKey"
    BY <2>4, Zenon DEF StepsTo
  <2> QED
    BY <2>1, <2>2, <2>3, <2>4, CheckedKey, Zenon
<1>8. CASE i = 2 \/ i = 3
  <2>1. field.kind = "data"
    BY <1>8, PacketLayout, ReadingFacts
  <2>2. AcceptedOK(i + 1)
    BY <1>8 DEF AcceptedOK
  <2> QED
    BY <1>5, <2>1, <2>2, CheckedData, Zenon
<1>9. i = 0 \/ i = 1 \/ i = 2 \/ i = 3
  BY <1>2
<1> QED
  BY <1>6, <1>7, <1>8, <1>9, Zenon

\* A field of the payload of a hop, or of an encrypter.
LEMMA PlainStep ==
  ASSUME format = "HopData" \/ format = "OnionErrorEncrypter",
         fields \in Encodings(format),
         NEW i \in Nat, i < Len(fields), AcceptedOK(i),
         field = FieldAt(format, i + 1),
         todo = FieldsTo(format, i, Known(format, Len(fields), i)),
         Checked(fields[i + 1])
  PROVE  StepsTo(i + 1)
<1>1. \A n, j : Known(format, n, j) = n
  BY DEF Known
<1>2. AcceptedOK(i + 1)
  BY DEF AcceptedOK
<1>3. field.kind = "data" /\ Len(fields) \in Nat
  <2>1. CASE format = "HopData"
    <3>1. Len(fields) = 6
      BY <2>1, PlainCases, HopDataEncodes, Zenon
    <3>2. PICK j : j = i + 1
      BY Zenon
    <3>3. j = 1 \/ j = 2 \/ j = 3 \/ j = 4 \/ j = 5 \/ j = 6
      BY <3>1, <3>2
    <3> QED
      BY <2>1, <3>1, <3>2, <3>3, HopDataFieldsAt, ReadingFacts
  <2>2. CASE format = "OnionErrorEncrypter"
    <3>1. Len(fields) = 1
      BY <2>2, PlainCases, EncrypterEncodes, Zenon
    <3>2. i + 1 = 1
      BY <3>1
    <3> QED
      BY <2>2, <3>1, <3>2, EncrypterFieldAt, ReadingFacts
  <2> QED
    BY <2>1, <2>2, Zenon
<1>4. GoOn(Tail(todo))
  BY <1>3, CheckedData, Zenon
<1>5. format # "ReplaySet" /\ todo = FieldsTo(format, i, Len(fields))
      /\ Known(format, Len(fields), i + 1) = Len(fields)
  BY <1>1
<1> QED
  BY <1>2, <1>3, <1>4, <1>5, GoOnTail, Zenon

\* A length, which is the one that was encoded.
LEMMA CheckedLength ==
  ASSUME NEW m
  PROVE  LengthIn(Byte("length", m)[1]) = {m}
<1>1. PICK b : b = <<"length", m, 1>>
  BY Zenon
<1>2. Byte("length", m)[1] = b /\ b[1] = "length" /\ b[2] = m
  BY <1>1 DEF Byte
<1> QED
  BY <1>2, Zenon DEF LengthIn

\* What a circuit still has to be read for when a length has been decoded.
LEMMA CircuitFieldsTo ==
  /\ FieldsTo("Circuit", 1, 3) = <<Once("data", SecretSize), Once("pathLength", 1)>>
  /\ \A n \in Nat :
       FieldsTo("Circuit", 3, n + 3) = [k \in 1 .. n |-> Once("key", KeySize)]
<1>1. FieldsTo("Circuit", 1, 3) = <<Once("data", SecretSize), Once("pathLength", 1)>>
  <2>1. PICK a, b : a = Once("data", SecretSize) /\ b = Once("pathLength", 1)
    BY Zenon
  <2>2. FieldAt("Circuit", 1 + 1) = a /\ FieldAt("Circuit", 1 + 2) = b
    BY <2>1, OtherFieldsAt
  <2>3. 3 - 1 = 2
    OBVIOUS
  <2>4. PICK s : s = [j \in 1 .. 2 |-> FieldAt("Circuit", 1 + j)]
    BY Zenon
  <2>5. s = [j \in 1 .. 2 |-> s[j]] /\ s[1] = a /\ s[2] = b
    BY <2>2, <2>4
  <2>6. s = <<a, b>>
    BY <2>5
  <2> QED
    BY <2>1, <2>3, <2>4, <2>6, Zenon DEF FieldsTo
<1>2. ASSUME NEW n \in Nat
      PROVE  FieldsTo("Circuit", 3, n + 3) = [k \in 1 .. n |-> Once("key", KeySize)]
  <2>1. n + 3 - 3 = n
    OBVIOUS
  <2>2. \A j \in 1 .. n : 3 + j \in Nat /\ 3 + j > 3
    OBVIOUS
  <2>3. \A j \in 1 .. n : FieldAt("Circuit", 3 + j) = Once("key", KeySize)
    BY <2>2, OtherFieldsAt, Zenon
  <2>4. FieldsTo("Circuit", 3, n + 3) = [j \in 1 .. n |-> FieldAt("Circuit", 3 + j)]
    BY <2>1 DEF FieldsTo
  <2> QED
    BY <2>3, <2>4, Zenon
<1> QED
  BY <1>1, <1>2, Zenon

\* A field of a circuit.
LEMMA CircuitStep ==
  ASSUME format = "Circuit", fields \in Encodings(format),
         NEW i \in Nat, i < Len(fields), AcceptedOK(i),
         field = FieldAt(format, i + 1),
         todo = FieldsTo(format, i, Known(format, Len(fields), i)),
         Checked(fields[i + 1])
  PROVE  StepsTo(i + 1)
<1>1. PICK n \in 1 .. NumMaxHops : fields = CircuitFields(n)
  BY CircuitCase, Zenon
<1>2. /\ Len(fields) = n + 3
      /\ fields[1] = Byte("length", SecretSize) /\ fields[3] = Byte("length", n)
      /\ \A k \in 1 .. n : fields[k + 3] = Key(k)
  BY <1>1, CircuitEncodes, Zenon
<1>3. \A j : Known(format, n + 3, j) = IF j = 0 THEN 1 ELSE IF j < 3 THEN 3 ELSE n + 3
  BY Zenon DEF Known
<1>4. AcceptedOK(i + 1) /\ format # "ReplaySet"
  BY DEF AcceptedOK
<1>5. n \in Nat /\ 1 <= n /\ n <= NumMaxHops /\ NumMaxHops \in Nat
  BY Sizes
<1>6. ASSUME NEW t, GoOn(t), t # <<>>, i + 1 < n + 3,
             t = FieldsTo("Circuit", i + 1, Known("Circuit", n + 3, i + 1))
      PROVE  StepsTo(i + 1)
  BY <1>2, <1>4, <1>6, Zenon DEF StepsTo, GoOn
<1>7. CASE i = 0
  <2>1. field.kind = "keyLength" /\ i + 1 = 1 /\ 1 < n + 3
    BY <1>5, <1>7, OtherFieldsAt, ReadingFacts
  <2>2. PICK t : t = <<Once("data", SecretSize), Once("pathLength", 1)>>
    BY Zenon
  <2>3. \E m \in LengthIn(fields[1][1]) : GoOn(<<Once("data", m), Once("pathLength", 1)>>)
    BY <2>1, Zenon DEF Checked
  <2>4. GoOn(t)
    BY <1>2, <2>2, <2>3, CheckedLength, Zenon
  <2>5. Known("Circuit", n + 3, 1) = 3 /\ t # <<>>
    BY <1>3, <2>2
  <2>6. t = FieldsTo("Circuit", 1, 3)
    BY <2>2, CircuitFieldsTo, Zenon
  <2> QED
    BY <1>6, <2>1, <2>4, <2>5, <2>6, Zenon
<1>8. CASE i = 1
  <2>1. field.kind = "data" /\ i + 1 = 2 /\ 2 < n + 3
    BY <1>5, <1>8, OtherFieldsAt, ReadingFacts
  <2>2. GoOn(Tail(todo))
    BY <2>1, CheckedData, Zenon
  <2>3. Known("Circuit", n + 3, 1) = 3 /\ Known("Circuit", n + 3, 2) = 3
    BY <1>3
  <2>4. todo = FieldsTo("Circuit", 1, 3)
    BY <1>2, <1>8, <2>3, Zenon
  <2>5. 1 \in Nat /\ 2 \in Nat /\ 3 \in Nat /\ 1 < 3 /\ 2 < 3 /\ 1 + 1 = 2
    OBVIOUS
  <2>6. Tail(todo) = FieldsTo("Circuit", 2, 3) /\ FieldsTo("Circuit", 2, 3) # <<>>
    <3>1. Tail(FieldsTo("Circuit", 1, 3)) = FieldsTo("Circuit", 1 + 1, 3)
      BY <2>5, FieldsToFacts, Zenon
    <3>2. FieldsTo("Circuit", 2, 3) # <<>>
      BY <2>5, FieldsToFacts, Zenon
    <3> QED
      BY <2>4, <2>5, <3>1, <3>2, Zenon
  <2> QED
    BY <1>6, <2>1, <2>2, <2>3, <2>6, Zenon
<1>9. CASE i = 2
  <2>1. field.kind = "pathLength" /\ i + 1 = 3 /\ 3 < n + 3
    BY <1>5, <1>9, OtherFieldsAt, ReadingFacts
  <2>2. PICK t : t = [k \in 1 .. n |-> Once("key", KeySize)]
    BY Zenon
  <2>3. \E m \in LengthIn(fields[3][1]) : GoOn([k \in 1 .. m |-> Once("key", KeySize)])
    BY <2>1, Zenon DEF Checked
  <2>4. GoOn(t)
    BY <1>2, <2>2, <2>3, CheckedLength, Zenon
  <2>5. Known("Circuit", n + 3, 3) = n + 3
    BY <1>3
  <2>6. t = FieldsTo("Circuit", 3, n + 3)
    BY <1>5, <2>2, CircuitFieldsTo, Zenon
  <2>7. t # <<>>
    <3>1. 3 \in Nat /\ n + 3 \in Nat /\ 3 < n + 3
      BY <1>5
    <3> QED
      BY <2>6, <3>1, FieldsToFacts, Zenon
  <2> QED
    BY <1>6, <2>1, <2>4, <2>5, <2>6, <2>7, Zenon
<1>10. CASE i > 2
  <2>1. PICK k, m : k = i - 2 /\ m = n + 3
    BY Zenon
  <2>2. /\ k \in 1 .. n /\ k + 3 = i + 1 /\ k \in 0 .. NumMaxHops /\ m \in Nat /\ i < m
        /\ i + 1 \in Nat /\ i + 1 > 3
    BY <1>2, <1>5, <1>10, <2>1
  <2>3. field.kind = "key"
    BY <2>2, OtherFieldsAt, ReadingFacts
  <2>4. fields[i + 1] = Key(k)
    BY <1>2, <2>2, Zenon
  <2>5. GoOn(Tail(todo))
    <3>1. Key(k) # NoKey
      <4>1. k \in Nat
        BY <2>2
      <4> QED
        BY <4>1, KeyFacts, Zenon
    <3> QED
      BY <2>2, <2>3, <2>4, <3>1, CheckedKey, Zenon
  <2>6. Known(format, m, i) = m /\ Known(format, m, i + 1) = m
    BY <1>3, <1>10, <2>1
  <2>7. todo = FieldsTo(format, i, m) /\ m = Len(fields)
    BY <1>2, <2>1, <2>6, Zenon
  <2> QED
    BY <1>4, <2>2, <2>5, <2>6, <2>7, GoOnTail, Zenon
<1>11. i = 0 \/ i = 1 \/ i = 2 \/ i > 2
  OBVIOUS
<1> QED
  BY <1>7, <1>8, <1>9, <1>10, <1>11, Zenon

\* Decode of a replay set always reads a number next.
LEMMA ReplaySetFieldsTo ==
  \A i \in Nat : FieldsTo("ReplaySet", i, i + 1) = ReplaySetLayout
<1> SUFFICES ASSUME NEW i \in Nat
             PROVE  FieldsTo("ReplaySet", i, i + 1) = ReplaySetLayout
  BY Zenon
<1>1. PICK a : a = Full("seqNum", 2)
  BY Zenon
<1>2. i + 1 - i = 1
  OBVIOUS
<1>3. FieldsTo("ReplaySet", i, i + 1) = [j \in 1 .. 1 |-> FieldAt("ReplaySet", i + j)]
  BY <1>2 DEF FieldsTo
<1>4. \A j \in 1 .. 1 : FieldAt("ReplaySet", i + j) = a
  BY <1>1, OtherFieldsAt, Zenon
<1>5. FieldsTo("ReplaySet", i, i + 1) = [j \in 1 .. 1 |-> a]
  BY <1>3, <1>4, Zenon
<1>6. [j \in 1 .. 1 |-> a] = <<a>>
  OBVIOUS
<1> QED
  BY <1>1, <1>5, <1>6, Zenon DEF ReplaySetLayout

\* A number of a replay set.
LEMMA ReplaySetStep ==
  ASSUME format = "ReplaySet", NEW i \in Nat,
         field = FieldAt(format, i + 1),
         todo = FieldsTo(format, i, Known(format, Len(fields), i)),
         Checked(fields[i + 1])
  PROVE  StepsTo(i + 1)
<1>1. \A n, j : Known(format, n, j) = j + 1
  BY DEF Known
<1>2. field.kind = "seqNum"
  <2>1. field = Full("seqNum", 2)
    BY OtherFieldsAt, Zenon
  <2> QED
    BY <2>1, ReadingFacts
<1>3. GoOn(todo)
  BY <1>2, Zenon DEF Checked
<1>4. todo = ReplaySetLayout
  BY <1>1, ReplaySetFieldsTo, Zenon
<1>5. todo = FieldsTo(format, i + 1, Known(format, Len(fields), i + 1))
  <2>1. i + 1 \in Nat
    OBVIOUS
  <2> QED
    BY <1>1, <1>4, <2>1, ReplaySetFieldsTo, Zenon
<1>6. todo # <<>>
  <2>1. \A a : <<a>> # <<>>
    OBVIOUS
  <2> QED
    BY <1>4, <2>1, Zenon DEF ReplaySetLayout
<1>7. AcceptedOK(i + 1)
  BY DEF AcceptedOK
<1> QED
  BY <1>3, <1>5, <1>6, <1>7, Zenon DEF StepsTo, GoOn

\* A field of whatever type.
LEMMA CheckedStep ==
  ASSUME Decoding, status = "reading", Len(value) < Len(fields),
         Checked(fields[Len(value) + 1])
  PROVE  StepsTo(Len(value) + 1)
<1>1. PICK i : i = Len(value)
  BY Zenon
<1>2. i \in Nat /\ i < Len(fields) /\ format \in Formats /\ fields \in Encodings(format)
  BY <1>1, DataFacts, Zenon DEF Decoding, DataOK
<1>3. /\ field = FieldAt(format, i + 1) /\ AcceptedOK(i)
      /\ todo = FieldsTo(format, i, Known(format, Len(fields), i))
  BY <1>1, CurrentField, Zenon
<1>4. Checked(fields[i + 1])
  BY <1>1, Zenon
<1>5. CASE format = "OnionPacket"
  BY <1>1, <1>2, <1>3, <1>4, <1>5, PacketStep, Zenon
<1>6. CASE format = "HopData" \/ format = "OnionErrorEncrypter"
  BY <1>1, <1>2, <1>3, <1>4, <1>6, PlainStep, Zenon
<1>7. CASE format = "Circuit"
  BY <1>1, <1>2, <1>3, <1>4, <1>7, CircuitStep, Zenon
<1>8. CASE format = "ReplaySet"
  BY <1>1, <1>2, <1>3, <1>4, <1>8, ReplaySetStep, Zenon
<1> QED
  BY <1>2, <1>5, <1>6, <1>7, <1>8, FormatCases, Zenon

\* A buffer that is full is the field.
LEMMA PaddedIs ==
  ASSUME NEW f, NEW b \in Seq(Octets), f.size = Len(b)
  PROVE  Padded(f, b) = b
<1>1. PICK c : c = Padded(f, b)
  BY Zenon
<1>2. c = [k \in 1 .. Len(b) |-> IF k <= Len(b) THEN b[k] ELSE Zero]
  BY <1>1, Zenon DEF Padded
<1>3. \A k \in 1 .. Len(b) : k <= Len(b)
  OBVIOUS
<1>4. c = [k \in 1 .. Len(b) |-> b[k]]
  BY <1>2, <1>3, Zenon
<1>5. b = [k \in 1 .. Len(b) |-> b[k]]
  BY LenProperties
<1> QED
  BY <1>1, <1>4, <1>5, Zenon

\* A field has been read.
LEMMA StoreInv ==
  ASSUME Decoding, Store
  PROVE  Decoding'
<1>1. /\ status = "reading" /\ Enough(field, buf)
      /\ Checked(Padded(field, buf)) /\ value' = Append(value, Padded(field, buf))
      /\ buf' = <<>>
      /\ UNCHANGED <<format, fields, given, input>>
  BY Zenon DEF Store
<1>2. Len(value) < Len(fields)
  BY <1>1, AllRead, Zenon
<1>3. PICK i, x, v : i = Len(value) /\ x = fields[i + 1] /\ v = FlattenSeq(value)
  BY Zenon
<1>4. /\ i \in Nat /\ Len(fields) \in Nat /\ i < Len(fields)
      /\ fields \in Seq(Seq(Octets)) /\ value \in Seq(Seq(Octets)) /\ v \in Seq(Octets)
  BY <1>2, <1>3, DataFacts, Zenon DEF Decoding
<1>5. /\ buf \in Seq(Octets) /\ input \in Seq(Octets) /\ Len(buf) \in Nat
      /\ (v \o buf) \o input = given
  BY <1>3 DEF Decoding, BytesOK
<1>6. buf = x /\ field.size = Len(buf)
  <2>1. /\ field.size \in Nat \ {0} /\ field.size = Len(x)
        /\ format # "Circuit" => field.via = "full"
    BY <1>1, <1>2, <1>3, CurrentField, Zenon
  <2>2. format = "Circuit" => Len(buf) = 0 \/ Len(buf) = Len(x)
    BY <1>2, <1>3, Zenon DEF Decoding, BufferOK
  <2>3. Len(buf) = field.size \/ (field.via = "once" /\ Len(buf) > 0)
    BY <1>1, Zenon DEF Enough
  <2>4. Len(buf) = Len(x)
    <3>1. "full" # "once" /\ ~(0 > 0)
      OBVIOUS
    <3> QED
      BY <2>1, <2>2, <2>3, <3>1, Zenon
  <2> QED
    BY <1>2, <1>3, <2>1, <2>4, BytesFitData, Zenon DEF Decoding, BytesFit
<1>7. Checked(x) /\ value' = Append(value, x)
  BY <1>1, <1>5, <1>6, PaddedIs, Zenon
<1>8. /\ value' = SubSeq(fields, 1, i + 1)
      /\ FlattenSeq(value') = v \o x
  BY <1>2, <1>3, <1>7, NextDecoded, Zenon DEF Decoding
<1>9. Len(value') = i + 1 /\ i + 1 \in 0 .. Len(fields)
  <2>1. x \in Seq(Octets)
    BY <1>5, <1>6, Zenon
  <2> QED
    BY <1>3, <1>4, <1>7, <2>1
<1>10. DataOK'
  BY <1>1, <1>8, <1>9, Zenon DEF Decoding, DataOK
<1>11. BytesOK'
  <2>1. PICK c : c = v \o x
    BY Zenon
  <2>2. c \in Seq(Octets)
    BY <1>4, <1>5, <1>6, <2>1, ConcatProperties, Zenon
  <2>3. c \o <<>> = c /\ <<>> \in Seq(Octets)
    BY <2>2, ConcatEmptySeq, EmptySeq, Zenon
  <2>4. (FlattenSeq(value') \o buf') \o input' = given'
    BY <1>1, <1>5, <1>6, <1>8, <2>1, <2>3, Zenon
  <2> QED
    BY <1>1, <1>5, <2>3, <2>4, Zenon DEF BytesOK
<1>12. BufferOK'
  <2>1. ASSUME i + 1 < Len(fields)
        PROVE  0 <= Len(fields[i + 1 + 1])
    <3>1. i + 1 + 1 \in 1 .. Len(fields)
      BY <1>4, <2>1
    <3>2. fields[i + 1 + 1] \in Seq(Octets)
      BY <1>4, <3>1, ElementOfSeq, Zenon
    <3> QED
      BY <3>2
  <2>2. Len(buf') = 0
    BY <1>1
  <2> QED
    BY <1>1, <1>9, <2>1, <2>2, Zenon DEF BufferOK
<1>13. StepsTo(i + 1)
  BY <1>1, <1>2, <1>3, <1>7, CheckedStep, Zenon
<1>14. AcceptedOK(i + 1) => AcceptedOK(Len(value))'
  BY <1>1, <1>9, Zenon DEF AcceptedOK
<1>15. StatusOK'
  BY <1>1, <1>9, <1>13, <1>14, ZenonT(60) DEF StepsTo, StatusOK
<1> QED
  BY <1>10, <1>11, <1>12, <1>15, Zenon DEF Decoding

\* Decode begins with the first field.
LEMMA FirstFields ==
  ASSUME NEW f \in Formats, NEW fs \in Encodings(f)
  PROVE  /\ Layout(f) = FieldsTo(f, 0, Known(f, Len(fs), 0))
         /\ f # "ReplaySet" => 0 < Len(fs)
<1>1. CASE f = "OnionPacket"
  <2>1. Len(fs) = 4
    BY <1>1, PacketCase, PacketEncodes, Zenon
  <2>2. Known(f, Len(fs), 0) = 4 /\ Layout(f) = OnionPacketLayout
    BY <1>1, <2>1 DEF Known, Layout
  <2>3. OnionPacketLayout = FieldsTo("OnionPacket", 0, 4)
    <3>1. PICK s : s = FieldsTo("OnionPacket", 0, 4)
      BY Zenon
    <3>2. s = [j \in 1 .. 4 |-> s[j]]
          /\ \A j \in 1 .. 4 : s[j] = FieldAt("OnionPacket", j)
      BY <3>1 DEF FieldsTo
    <3>3. PICK a, b, c, d : /\ a = Full("version", 1) /\ b = Full("key", KeySize)
                            /\ c = Full("data", 2 * SecretSize)
                            /\ d = Full("data", SecretSize)
      BY Zenon
    <3>4. s[1] = a /\ s[2] = b /\ s[3] = c /\ s[4] = d
      BY <3>2, <3>3, PacketLayout
    <3>5. s = <<a, b, c, d>>
      BY <3>2, <3>4
    <3> QED
      BY <3>1, <3>3, <3>5, Zenon DEF OnionPacketLayout
  <2>4. 0 < Len(fs)
    BY <2>1
  <2> QED
    BY <1>1, <2>2, <2>3, <2>4, Zenon
<1>2. CASE f = "HopData"
  <2>1. Len(fs) = 6
    BY <1>2, PlainCases, HopDataEncodes, Zenon
  <2>2. Known(f, Len(fs), 0) = 6 /\ Layout(f) = HopDataLayout
    BY <1>2, <2>1 DEF Known, Layout
  <2>3. HopDataLayout = FieldsTo("HopData", 0, 6)
    <3>1. PICK s : s = FieldsTo("HopData", 0, 6)
      BY Zenon
    <3>2. s = [j \in 1 .. 6 |-> s[j]]
          /\ \A j \in 1 .. 6 : s[j] = FieldAt("HopData", j)
      BY <3>1 DEF FieldsTo
    <3>3. PICK a, b, c, d : /\ a = Full("data", 1) /\ b = Full("data", 2)
                            /\ c = Full("data", 3) /\ d = Full("data", SecretSize)
      BY Zenon
    <3>4. s[1] = a /\ s[2] = b /\ s[3] = b /\ s[4] = a /\ s[5] = c /\ s[6] = d
      BY <3>2, <3>3, HopDataFieldsAt
    <3>5. s = <<a, b, b, a, c, d>>
      BY <3>2, <3>4
    <3> QED
      BY <3>1, <3>3, <3>5, Zenon DEF HopDataLayout
  <2>4. 0 < Len(fs)
    BY <2>1
  <2> QED
    BY <1>2, <2>2, <2>3, <2>4, Zenon
<1>3. CASE f = "OnionErrorEncrypter"
  <2>1. Len(fs) = 1
    BY <1>3, PlainCases, EncrypterEncodes, Zenon
  <2>2. Known(f, Len(fs), 0) = 1 /\ Layout(f) = EncrypterLayout
    BY <1>3, <2>1 DEF Known, Layout
  <2>3. EncrypterLayout = FieldsTo("OnionErrorEncrypter", 0, 1)
    <3>1. PICK s : s = FieldsTo("OnionErrorEncrypter", 0, 1)
      BY Zenon
    <3>2. s = [j \in 1 .. 1 |-> s[j]] /\ s[1] = FieldAt("OnionErrorEncrypter", 1)
      BY <3>1 DEF FieldsTo
    <3>3. PICK a : a = Full("data", SecretSize)
      BY Zenon
    <3>4. s = <<a>>
      BY <3>2, <3>3, EncrypterFieldAt
    <3> QED
      BY <3>1, <3>3, <3>4, Zenon DEF EncrypterLayout
  <2>4. 0 < Len(fs)
    BY <2>1
  <2> QED
    BY <1>3, <2>2, <2>3, <2>4, Zenon
<1>4. CASE f = "Circuit"
  <2>1. 0 < Len(fs)
    <3>1. PICK n \in 1 .. NumMaxHops : Len(fs) = n + 3
      BY <1>4, CircuitCase, CircuitEncodes, Zenon
    <3> QED
      BY <3>1
  <2>2. Known(f, Len(fs), 0) = 1 /\ Layout(f) = CircuitLayout
    BY <1>4 DEF Known, Layout
  <2>3. CircuitLayout = FieldsTo("Circuit", 0, 1)
    <3>1. PICK s : s = FieldsTo("Circuit", 0, 1)
      BY Zenon
    <3>2. s = [j \in 1 .. 1 |-> s[j]] /\ s[1] = FieldAt("Circuit", 1)
      BY <3>1 DEF FieldsTo
    <3>3. PICK a : a = Once("keyLength", 1)
      BY Zenon
    <3>4. s = <<a>>
      BY <3>2, <3>3, OtherFieldsAt
    <3> QED
      BY <3>1, <3>3, <3>4, Zenon DEF CircuitLayout
  <2> QED
    BY <1>4, <2>1, <2>2, <2>3, Zenon
<1>5. CASE f = "ReplaySet"
  <2>1. Known(f, Len(fs), 0) = 0 + 1 /\ Layout(f) = ReplaySetLayout /\ 0 \in Nat
    BY <1>5 DEF Known, Layout
  <2> QED
    BY <1>5, <2>1, ReplaySetFieldsTo, Zenon
<1> QED
  BY <1>1, <1>2, <1>3, <1>4, <1>5, FormatCases, Zenon

\* Decode begins in a state that the invariant describes.
LEMMA InitDecodes == Init => Decoding
<1> SUFFICES ASSUME Init
             PROVE  Decoding
  OBVIOUS
<1>1. /\ format \in Formats /\ fields \in Encodings(format)
      /\ given \in Inputs(format, fields) /\ input = given
      /\ todo = Layout(format) /\ buf = <<>> /\ value = <<>> /\ status = "reading"
  BY Zenon DEF Init
<1>2. fields \in Seq(Seq(Octets)) /\ Encodes(format, fields)
  BY <1>1, EncodingFacts, Zenon DEF Encodes
<1>3. Len(fields) \in Nat /\ Len(value) = 0 /\ Len(buf) = 0
  BY <1>1, <1>2
<1>4. DataOK
  <2>1. 0 \in 0 .. Len(fields) /\ SubSeq(fields, 1, 0) = <<>>
    BY <1>3, SubSeqEmpty
  <2> QED
    BY <1>1, <1>3, <2>1, Zenon DEF DataOK
<1>5. BytesOK
  <2>1. given \in Seq(Octets)
    BY <1>1, <1>4, DataFacts, InputFacts, Zenon DEF Agree
  <2>2. <<>> \in Seq(Octets)
    OBVIOUS
  <2>3. <<>> \o <<>> = <<>> /\ <<>> \o given = given
    BY <2>1, <2>2, ConcatEmptySeq, Zenon
  <2> QED
    BY <1>1, <2>1, <2>2, <2>3, FlattenEmpty, Zenon DEF BytesOK
<1>6. BufferOK
  <2>1. ASSUME 0 < Len(fields)
        PROVE  0 <= Len(fields[0 + 1])
    <3>1. 0 + 1 \in 1 .. Len(fields)
      BY <1>3, <2>1
    <3>2. fields[0 + 1] \in Seq(Octets)
      BY <1>2, <3>1, ElementOfSeq, Zenon
    <3> QED
      BY <3>2
  <2> QED
    BY <1>1, <1>3, <2>1, Zenon DEF BufferOK
<1>7. StatusOK
  <2>1. AcceptedOK(Len(value))
    BY <1>3 DEF AcceptedOK
  <2>2. /\ Layout(format) = FieldsTo(format, 0, Known(format, Len(fields), 0))
        /\ format # "ReplaySet" => 0 < Len(fields)
    BY <1>1, FirstFields, Zenon
  <2> QED
    BY <1>1, <1>3, <2>1, <2>2, Zenon DEF StatusOK
<1> QED
  BY <1>4, <1>5, <1>6, <1>7, Zenon DEF Decoding

\* A step of Decode, or none.
LEMMA NextDecodes == Decoding /\ Reliable /\ [Next]_vars => Decoding'
<1> SUFFICES ASSUME Decoding, Reliable, [Next]_vars
             PROVE  Decoding'
  OBVIOUS
<1>1. ASSUME NEW n \in 1 .. 2 * SecretSize + KeySize, Read(n)
      PROVE  Decoding'
  <2>1. n \in Nat
    BY UpwardNat, Zenon
  <2> QED
    BY <1>1, <2>1, ReadInv, Zenon
<1>2. CASE ReadEnd
  BY <1>2, ReadEndInv, Zenon
<1>3. CASE Store
  BY <1>3, StoreInv, Zenon
<1>4. CASE UNCHANGED vars
  BY <1>4, Zenon
  DEF vars, Decoding, DataOK, BytesOK, BufferOK, StatusOK, AcceptedOK
<1> QED
  BY <1>1, <1>2, <1>3, <1>4, Zenon DEF Next

\* No step changes the type that is decoded.
LEMMA FormatStays == [Next]_vars => format' = format
BY Zenon DEF Next, vars, Read, ReadEnd, Store

-----------------------------------------------------------------------------
(***************************************************************************)
(* The theorems.                                                           *)
(***************************************************************************)

\* The inductive invariant holds of every Decode whose reader, if it decodes a
\* circuit, hands out what it is asked for.
THEOREM DecodeInvariant == Spec => []CodecInv
<1>1. CodecInv <=> (Reliable => Decoding)
  BY Zenon DEF CodecInv, Decoding
<1>2. Init => CodecInv
  BY InitDecodes, Zenon DEF CodecInv, Decoding
<1>3. CodecInv /\ [Next]_vars => CodecInv'
  <2> SUFFICES ASSUME CodecInv, [Next]_vars, Reliable'
               PROVE  Decoding'
    BY Zenon DEF CodecInv, Decoding
  <2>1. Reliable
    BY FormatStays, Zenon DEF Reliable
  <2>2. Decoding
    BY <1>1, <2>1, Zenon
  <2> QED
    BY <2>1, <2>2, NextDecodes, Zenon
<1> QED
  BY <1>2, <1>3, PTL DEF Spec

\* What Decode returns are the fields that were encoded.
LEMMA DecodingIsExact == Decoding => OkMeansExact
<1> SUFFICES ASSUME Decoding, status = "ok"
             PROVE  /\ FlattenSeq(value) \o input = given
                    /\ IF format = "ReplaySet"
                       THEN \E n \in 0 .. Len(fields) : value = SubSeq(fields, 1, n)
                       ELSE value = fields
  BY Zenon DEF OkMeansExact
<1>1. buf = <<>> /\ (format # "ReplaySet" => Len(value) = Len(fields))
  BY ZenonT(60) DEF Decoding, StatusOK
<1>2. PICK v, i : v = FlattenSeq(value) /\ i = Len(value)
  BY Zenon
<1>3. /\ v \in Seq(Octets) /\ fields \in Seq(Seq(Octets)) /\ value \in Seq(Seq(Octets))
      /\ Len(fields) \in Nat /\ i \in Nat /\ i <= Len(fields)
  BY <1>2, DataFacts, Zenon DEF Decoding
<1>4. FlattenSeq(value) \o input = given
  <2>1. v \o <<>> = v
    BY <1>3, ConcatEmptySeq, Zenon
  <2> QED
    BY <1>1, <1>2, <2>1, Zenon DEF Decoding, BytesOK
<1>5. value = SubSeq(fields, 1, i)
  BY <1>2, Zenon DEF Decoding, DataOK
<1>6. i \in 0 .. Len(fields)
  BY <1>3
<1>7. ASSUME format # "ReplaySet"
      PROVE  value = fields
  BY <1>1, <1>2, <1>3, <1>5, <1>7, SubSeqFull, Zenon
<1> QED
  BY <1>4, <1>5, <1>6, <1>7, Zenon

\* What is there in full is decoded, or refused for a reason.
LEMMA DecodingIsComplete == Decoding => WholeIsDecoded
<1> SUFFICES ASSUME Decoding, Len(given) >= Len(FlattenSeq(fields)), status # "reading"
             PROVE  status = "ok" <=>
                      (format = "OnionPacket" => /\ fields[1] = Byte("version", baseVersion)
                                                 /\ fields[2] # NoKey)
  BY Zenon DEF WholeIsDecoded
<1>1. ~(Len(given) < Len(FlattenSeq(fields)))
  <2>1. FlattenSeq(fields) \in Seq(Octets) /\ given \in Seq(Octets)
    BY DataFacts, InputFacts, Zenon DEF Decoding, DataOK, Agree
  <2>2. Len(FlattenSeq(fields)) \in Nat /\ Len(given) \in Nat
    BY <2>1, LenProperties, Zenon
  <2> QED
    BY <2>2
<1>2. \/ /\ status = "ok" /\ AcceptedOK(Len(value))
         /\ format # "ReplaySet" => Len(value) = Len(fields)
      \/ /\ status = "ErrInvalidOnionVersion"
         /\ format = "OnionPacket" /\ fields[1] # Byte("version", baseVersion)
      \/ /\ status = "ErrInvalidOnionKey"
         /\ format = "OnionPacket" /\ fields[2] = NoKey
  BY <1>1, Zenon DEF Decoding, StatusOK
<1>3. ASSUME status = "ok", format = "OnionPacket"
      PROVE  fields[1] = Byte("version", baseVersion) /\ fields[2] # NoKey
  <2>1. Len(fields) = 4
    BY <1>3, PacketCase, PacketEncodes, Zenon DEF Decoding, DataOK
  <2>2. Len(value) = 4 /\ AcceptedOK(Len(value))
    BY <1>2, <1>3, <2>1
  <2> QED
    BY <1>3, <2>2 DEF AcceptedOK
<1>4. "ErrInvalidOnionVersion" # "ok" /\ "ErrInvalidOnionKey" # "ok"
  OBVIOUS
<1> QED
  BY <1>2, <1>3, <1>4, Zenon

\* Decode succeeds only with the fields that were encoded, whatever their sizes
\* and numbers: OnionPacket, HopData, OnionErrorEncrypter and ReplaySet from any
\* input and any reader, Circuit from a reader that hands out what it is asked for.
THEOREM OkIsExact == Spec => [](Reliable => OkMeansExact)
<1>1. CodecInv => (Reliable => OkMeansExact)
  BY DecodingIsExact, Zenon DEF CodecInv, Decoding
<1> QED
  BY <1>1, DecodeInvariant, PTL

\* An input with all of an encoding is decoded, unless it is a packet of another
\* version or without a key.
THEOREM WholeIsOk == Spec => [](Reliable => WholeIsDecoded)
<1>1. CodecInv => (Reliable => WholeIsDecoded)
  BY DecodingIsComplete, Zenon DEF CodecInv, Decoding
<1> QED
  BY <1>1, DecodeInvariant, PTL
=============================================================================
