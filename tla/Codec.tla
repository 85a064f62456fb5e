-------------------------------- MODULE Codec --------------------------------
(***************************************************************************)
(* What the Encode methods write, read back by the Decode methods:         *)
(* OnionPacket and HopData (sphinx.go), OnionErrorEncrypter and Circuit    *)
(* (obfuscation.go), ReplaySet (replay_set.go).                            *)
(*                                                                         *)
(* The input of Decode is cut off anywhere, or followed by other data, and *)
(* a reader may hand out fewer bytes than it was asked for, as io.Reader   *)
(* allows.  A step is one call to the reader.  The sizes are scaled down,  *)
(* and a byte is a triple: the kind of its field, which field of the kind  *)
(* it is (or the value of the byte, where that matters), its place there.  *)
(***************************************************************************)
EXTENDS Integers, Sequences, Functions

CONSTANTS
  Formats,      \* the types that are encoded
  NumMaxHops,   \* hops of the longest circuit
  NumReplays,   \* elements of the largest replay set
  KeySize,      \* bytes of a compressed public key
  SecretSize,   \* bytes of a secret, a private key, a MAC
  ByteRange,    \* values of a byte
  ShortReads,   \* the types whose readers hand out less than they could
  Cuts          \* the types whose inputs are cut off

ASSUME CodecAssumption ==
  /\ Formats \subseteq {"OnionPacket", "HopData", "OnionErrorEncrypter",
                        "Circuit", "ReplaySet"}
  /\ {NumMaxHops, NumReplays, KeySize, SecretSize, ByteRange} \subseteq Nat \ {0}
  /\ NumMaxHops < ByteRange /\ SecretSize < ByteRange
  /\ {ShortReads, Cuts} \subseteq SUBSET Formats

-----------------------------------------------------------------------------
(***************************************************************************)
(* The encodings, as sequences of fields, each a sequence of bytes.        *)
(***************************************************************************)

\* size bytes of a field; owner tells fields of one kind apart.
Bytes(kind, owner, size) == [k \in 1 .. size |-> <<kind, owner, k>>]

\* A byte whose value matters.
Byte(kind, value) == <<<<kind, value, 1>>>>

\* A byte of a buffer that was not written to.
Zero == <<"zero", 0, 0>>

\* SerializeCompressed of a public key, and as many bytes that are none.
Key(owner) == Bytes("key", owner, KeySize)
NoKey      == Bytes("off curve", 0, KeySize)

baseVersion == 0

\* OnionPacket.Encode, of a packet of version v whose key has the bytes k.
OnionPacketFields(v, k) ==
  <<Byte("version", v), k, Bytes("RoutingInfo", 0, 2 * SecretSize),
    Bytes("HeaderMAC", 0, SecretSize)>>

\* HopData.Encode
HopDataFields ==
  <<Bytes("Realm", 0, 1), Bytes("NextAddress", 0, 2), Bytes("ForwardAmount", 0, 2),
    Bytes("OutgoingCltv", 0, 1), Bytes("ExtraBytes", 0, 3),
    Bytes("HMAC", 0, SecretSize)>>

\* OnionErrorEncrypter.Encode
EncrypterFields == <<Bytes("sharedSecret", 0, SecretSize)>>

\* A length, converted to uint8.
Uint8(n) == n % ByteRange

\* Circuit.Encode, of a path of n hops.
CircuitFields(n) ==
  <<Byte("length", Uint8(SecretSize)), Bytes("SessionKey", 0, SecretSize),
    Byte("length", Uint8(n))>> \o [k \in 1 .. n |-> Key(k)]

\* ReplaySet.Encode, visiting the elements of the set in the order p.
ReplaySetFields(p) == [j \in DOMAIN p |-> Bytes("seqNum", p[j], 2)]

\* The orders in which a replay set of some of the numbers may be visited.
Visits == UNION {Injection(1 .. n, 1 .. NumReplays) : n \in 0 .. NumReplays}

\* What may have been encoded.
Encodings(f) ==
  CASE f = "OnionPacket" ->
         {OnionPacketFields(v, k) : v \in {baseVersion, 1}, k \in {Key(0), NoKey}}
    [] f = "HopData"             -> {HopDataFields}
    [] f = "OnionErrorEncrypter" -> {EncrypterFields}
    [] f = "Circuit"             -> {CircuitFields(n) : n \in 1 .. NumMaxHops}
    [] f = "ReplaySet"           -> {ReplaySetFields(p) : p \in Visits}

\* The bytes of the fields fs, one field behind the other.
FlattenSeq(fs) ==
  LET first[i \in 0 .. Len(fs)] == IF i = 0 THEN <<>> ELSE first[i - 1] \o fs[i]
  IN  first[Len(fs)]

\* Other data behind the encoding.
Trailer == Bytes("other", 0, 1)

-----------------------------------------------------------------------------
(***************************************************************************)
(* Decode.  A field to read has a size and a way of reading it: "full" for *)
(* io.ReadFull, and binary.Read which calls it, "once" for Read.           *)
(***************************************************************************)

Full(kind, size) == [kind |-> kind, size |-> size, via |-> "full"]
Once(kind, size) == [kind |-> kind, size |-> size, via |-> "once"]

\* OnionPacket.Decode
OnionPacketLayout ==
  <<Full("version", 1), Full("key", KeySize), Full("data", 2 * SecretSize),
    Full("data", SecretSize)>>

\* HopData.Decode
HopDataLayout ==
  <<Full("data", 1), Full("data", 2), Full("data", 2), Full("data", 1),
    Full("data", 3), Full("data", SecretSize)>>

\* OnionErrorEncrypter.Decode
EncrypterLayout == <<Full("data", SecretSize)>>

\* Circuit.Decode begins with a length, and learns there what follows.
CircuitLayout == <<Once("keyLength", 1)>>

\* ReplaySet.Decode reads number after number.
ReplaySetLayout == <<Full("seqNum", 2)>>

Layout(f) ==
  CASE f = "OnionPacket"         -> OnionPacketLayout
    [] f = "HopData"             -> HopDataLayout
    [] f = "OnionErrorEncrypter" -> EncrypterLayout
    [] f = "Circuit"             -> CircuitLayout
    [] f = "ReplaySet"           -> ReplaySetLayout

VARIABLES
  format,     \* the type that is decoded
  fields,     \* what was encoded
  given,      \* the input of Decode
  input,      \* bytes the reader has not handed out yet
  todo,       \* fields still to read, the current one first
  buf,        \* bytes of the current field
  value,      \* the fields decoded so far
  status      \* "reading", "ok" or the error returned

vars == <<format, fields, given, input, todo, buf, value, status>>

\* The inputs for an encoding: all of it and other data, or part of it.  What
\* follows a replay set would be taken for a part of it.
Inputs(f, fs) ==
  LET all == FlattenSeq(fs)
  IN  {all}
        \cup (IF f = "ReplaySet" THEN {} ELSE {all \o Trailer})
        \cup (IF f \in Cuts THEN {SubSeq(all, 1, n) : n \in 0 .. Len(all)} ELSE {})

Init ==
  /\ format \in Formats
  /\ fields \in Encodings(format)
  /\ given \in Inputs(format, fields)
  /\ input = given
  /\ todo = Layout(format)
  /\ buf = <<>>
  /\ value = <<>>
  /\ status = "reading"

field == Head(todo)

\* Fault: whatever the reader hands out is enough.
EnoughOnce(f, b) == Len(b) = f.size \/ Len(b) > 0

\* No more calls to the reader for this field.
Enough(f, b) == Len(b) = f.size \/ (f.via = "once" /\ Len(b) > 0)

\* The reader hands out n bytes, at most as many as the field still lacks.
Read(n) ==
  /\ status = "reading"
  /\ ~Enough(field, buf)
  /\ LET most == IF Len(input) < field.size - Len(buf) THEN Len(input)
                                                      ELSE field.size - Len(buf)
     IN  n \in IF format \in ShortReads THEN 1 .. most ELSE {most} \ {0}
  /\ buf' = buf \o SubSeq(input, 1, n)
  /\ input' = SubSeq(input, n + 1, Len(input))
  /\ UNCHANGED <<format, fields, given, todo, value, status>>

\* Fault: an input that ends inside of a number is taken for the end of the set.
EndOfSet(f, b) == IF f.kind = "seqNum" THEN "ok" ELSE "EOF"

\* What becomes of Decode when the input ends after the bytes b of field f.
\* ReplaySet.Decode expects to meet it at the end of a number.
ErrorAtEnd(f, b) ==
  IF Len(b) > 0 THEN "ErrUnexpectedEOF"
  ELSE IF f.kind = "seqNum" THEN "ok" ELSE "EOF"

\* The reader has nothing left.
ReadEnd ==
  /\ status = "reading"
  /\ ~Enough(field, buf)
  /\ input = <<>>
  /\ status' = ErrorAtEnd(field, buf)
  /\ UNCHANGED <<format, fields, given, input, todo, buf, value>>

\* The buffer of a field of which only the bytes b were read.
Padded(f, b) == [k \in 1 .. f.size |-> IF k <= Len(b) THEN b[k] ELSE Zero]

\* Whether ParsePubKey may succeed; mangled bytes may be a key by chance.
ParsePubKey(b) ==
  IF \E o \in 0 .. NumMaxHops : b = Key(o) THEN {TRUE}
  ELSE IF b = NoKey THEN {FALSE} ELSE BOOLEAN

\* The values a length byte may have; any, if it is another byte.
LengthIn(b) == IF b[1] = "length" THEN {b[2]} ELSE 0 .. ByteRange - 1

\* Decode goes on with the fields fs.
GoOn(fs) == todo' = fs /\ status' = IF fs = <<>> THEN "ok" ELSE "reading"

Refuse(err) == status' = err /\ UNCHANGED todo

\* The version of the packet is the supported one.
KnownVersion(b) == b = Byte("version", baseVersion)

\* The current field has been read; b is its buffer.
Checked(b) ==
  CASE field.kind = "version" ->
         IF KnownVersion(b) THEN GoOn(Tail(todo)) ELSE Refuse("ErrInvalidOnionVersion")
    [] field.kind = "key" ->
         \E valid \in ParsePubKey(b) :
           IF valid THEN GoOn(Tail(todo)) ELSE Refuse("ErrInvalidOnionKey")
    [] field.kind = "keyLength" ->
         \E n \in LengthIn(b[1]) : GoOn(<<Once("data", n), Once("pathLength", 1)>>)
    [] field.kind = "pathLength" ->
         \E n \in LengthIn(b[1]) : GoOn([k \in 1 .. n |-> Once("key", KeySize)])
    [] field.kind = "seqNum" -> GoOn(todo)
    [] field.kind = "data"   -> GoOn(Tail(todo))

Store ==
  /\ status = "reading"
  /\ Enough(field, buf)
  /\ LET b == Padded(field, buf)
     IN  Checked(b) /\ value' = Append(value, b)
  /\ buf' = <<>>
  /\ UNCHANGED <<format, fields, given, input>>

Next ==
  \/ \E n \in 1 .. 2 * SecretSize + KeySize : Read(n)
  \/ ReadEnd
  \/ Store

Spec == Init /\ [][Next]_vars

-----------------------------------------------------------------------------
\* Decode succeeds only with the very fields that were encoded, having consumed
\* their bytes and no others, however the reader doles them out and wherever the
\* input ends.  Only a replay set cut off between two numbers passes for a
\* smaller one.
OkMeansExact ==
  status = "ok" =>
    /\ FlattenSeq(value) \o input = given
    /\ IF format = "ReplaySet"
       THEN \E n \in 0 .. Len(fields) : value = SubSeq(fields, 1, n)
       ELSE value = fields

\* An input with all of the encoding is decoded without an error, unless it is a
\* packet of another version or without a key, which is refused.
WholeIsDecoded ==
  Len(given) >= Len(FlattenSeq(fields)) /\ status # "reading" =>
    (status = "ok" <=>
       (format = "OnionPacket" => /\ fields[1] = Byte("version", baseVersion)
                                  /\ fields[2] # NoKey))

\* "Decode initializes the circuit from the byte stream" (obfuscation.go).
CircuitFromStream == format = "Circuit" /\ status = "ok" => value = fields
=============================================================================
