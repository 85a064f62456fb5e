----------------------------- MODULE SphinxProofs -----------------------------
(***************************************************************************)
(* Proofs about Sphinx, for a header of any size and routes of any length, *)
(* over any nodes, payloads and associated data: the packets a sender      *)
(* makes fit into each other, and no other packet is ever accepted.        *)
(***************************************************************************)
EXTENDS Sphinx, TLAPS

-----------------------------------------------------------------------------
(***************************************************************************)
(* The inductive invariant.                                                *)
(***************************************************************************)

\* How many shared secrets the sender has computed.
Known == IF pc = "secrets" THEN i ELSE numHops

\* Where the sender is, and the shapes of its arrays.
LoopsOK ==
  /\ route \in Routes
  /\ pc \in {"secrets", "padding", "header", "sent"}
  /\ i \in Int
  /\ pc = "secrets" => i \in 0 .. numHops
  /\ pc = "padding" => i \in 1 .. numHops
  /\ pc = "header" => i \in -1 .. numHops - 1
  /\ pc = "sent" => i = -1
  /\ keys = [k \in Cells |-> keys[k]]
  /\ secrets = [k \in Cells |-> secrets[k]]
  /\ filler = [k \in Cells |-> filler[k]]
  /\ mixHeader = [k \in Cells |-> mixHeader[k]]
  /\ made = [k \in Cells |-> made[k]]

\* The product of generateSharedSecrets is the ephemeral key of the last hop done.
FactorsOK ==
  pc = "secrets" =>
    /\ i = 0 => cached = {SessionKey("x")}
    /\ i > 0 => cached = keys[i - 1]
    /\ i > 0 /\ i < numHops => blinding = BlindingFactor(keys[i - 1], secrets[i - 1])

\* The ephemeral keys: each is the one before it, multiplied by a blinding factor
\* that is in none of them, and the shared secrets are those of the route's nodes.
KeysOK ==
  /\ Known > 0 => keys[0] = {SessionKey("x")}
  /\ \A k \in 0 .. Known - 1 :
       /\ secrets[k] = SharedSecret({OnionKey(route.node[k])} \cup keys[k])
       /\ SessionKey("x") \in keys[k]
       /\ \A a \in keys[k] :
            \/ a = SessionKey("x")
            \/ \E j \in 0 .. k - 1 : a = BlindingFactor(keys[j], secrets[j])
       /\ \A j \in 0 .. k - 1 : keys[j] \subseteq keys[k] /\ keys[j] # keys[k]
       /\ k > 0 => keys[k] = keys[k - 1] \cup
                               {BlindingFactor(keys[k - 1], secrets[k - 1])}

\* What the hops before hop u leave in the cell that was j cells behind the end of
\* the header of hop j + 1.
Padding(j, u) == {<<"rho", secrets[t], (NumMaxHops - t) + j>> : t \in j .. u - 1}

\* The filler is what the hops up to the one before the last leave.
FillerOK ==
  \A j \in Cells :
    /\ pc = "secrets" => filler[j] = ZeroCell
    /\ pc = "padding" => filler[j] = Padding(j, i - 1)
    /\ pc \in {"header", "sent"} => filler[j] = Padding(j, numHops - 1)

\* The data of a hop: its payload, and the MAC of the packet after its own.
HopDataOf(k) ==
  [payload |-> route.payload[k],
   HMAC    |-> IF k = numHops - 1 THEN ZeroHMAC ELSE made[k + 1].HeaderMAC]

\* The packet of hop k: its header is the hop's data, the header of the next hop
\* and the padding that the hops before it leave, all under its key stream.
PacketOK(k) ==
  LET header == made[k].RoutingInfo
  IN  /\ made[k] = [EphemeralKey |-> keys[k], RoutingInfo |-> header,
                    HeaderMAC |-> Mac(secrets[k], header, route.assocData)]
      /\ header = [c \in Cells |-> header[c]]
      /\ header[0] = Xor(Encode(HopDataOf(k)), Stream(secrets[k], 0))
      /\ k < numHops - 1 =>
           \A c \in 1 .. NumMaxHops - 1 :
             header[c] = Xor(made[k + 1].RoutingInfo[c - 1], Stream(secrets[k], c))
      /\ \A q \in 0 .. k - 1 : header[(NumMaxHops - k) + q] = Padding(q, k)

HeadersOK ==
  /\ pc \in {"secrets", "padding"} => nextHmac = ZeroHMAC
  /\ pc \in {"header", "sent"} =>
       /\ \A k \in i + 1 .. numHops - 1 : PacketOK(k)
       /\ i = numHops - 1 => nextHmac = ZeroHMAC
       /\ i < numHops - 1 => /\ mixHeader = made[i + 1].RoutingInfo
                             /\ nextHmac = made[i + 1].HeaderMAC

SenderInv == LoopsOK /\ FactorsOK /\ KeysOK /\ FillerOK /\ HeadersOK

\* A packet in the network is one the sender made, or no node accepts it.
NetOK ==
  /\ pc # "sent" => net = {}
  /\ \A pkt \in net :
       /\ DOMAIN pkt.RoutingInfo = Cells
       /\ pkt \in Genuine \/ \A m \in Node, d \in AssocData : ~Accepts(m, pkt, d)

\* A packet was processed by a node it was made for, with the outcome of the code.
ProcessedOK ==
  /\ pc # "sent" => processed = {}
  /\ \A r \in processed :
       /\ r.assocData = route.assocData
       /\ r.out = ProcessedPacket(r.node, r.pkt)
       /\ \E k \in Hops : r.pkt = made[k] /\ r.node = route.node[k]

SphinxInv == SenderInv /\ NetOK /\ ProcessedOK

-----------------------------------------------------------------------------
(***************************************************************************)
(* Lemmas about the primitives.                                            *)
(***************************************************************************)

\* Encrypting twice with the same stream gives the plaintext back.
LEMMA XorTwice == \A a, b : Xor(Xor(a, b), b) = a
BY DEF Xor

\* The cell of zeroes under a stream is the stream.
LEMMA XorZero == \A b : Xor(ZeroCell, b) = b
BY DEF Xor, ZeroCell

\* A flipped bit changes a cell.
LEMMA XorChanges == \A a, x : Xor(a, {x}) # a
BY DEF Xor

\* HopData.Decode is the inverse of HopData.Encode.
LEMMA DecodeEncode == \A d : Decode(Encode(d)) = d
<1> TAKE d
<1> PICK a : a = <<"hop data", d>>
  BY Zenon
<1>1. Encode(d) = {a} /\ a[1] = "hop data" /\ a[2] = d
  BY Zenon DEF Encode
<1>2. (CHOOSE y \in {a} : TRUE) = a
  BY Zenon
<1>3. \E y \in Encode(d) : Encode(d) = {y} /\ y[1] = "hop data"
  BY <1>1, Zenon
<1>4. (CHOOSE y \in Encode(d) : TRUE) = a
  BY <1>1, <1>2, Zenon
<1> QED
  BY <1>1, <1>3, <1>4, Zenon DEF Decode

\* Values computed in different ways differ.
LEMMA Tags ==
  /\ \A x, y : SessionKey(x) # OnionKey(y)
  /\ \A x, y : SessionKey(x) = SessionKey(y) => x = y
  /\ \A x, y : OnionKey(x) = OnionKey(y) => x = y
  /\ \A P, s, y : BlindingFactor(P, s) # OnionKey(y)
  /\ \A P, s, y : BlindingFactor(P, s) # SessionKey(y)
  /\ \A P, s, Q, t : BlindingFactor(P, s) = BlindingFactor(Q, t) => P = Q /\ s = t
  /\ \A P, s : BlindingFactor(P, s) # <<"off curve">>
  /\ \A x : SessionKey(x) # <<"off curve">>
  /\ \A P, Q : SharedSecret(P) = SharedSecret(Q) => P = Q
BY DEF SessionKey, OnionKey, BlindingFactor, SharedSecret

\* A blinding factor determines the key it was computed from.
LEMMA FactorsDiffer ==
  \A P, s, Q, t : BlindingFactor(P, s) = BlindingFactor(Q, t) => P = Q
BY ZenonT(60), Tags

\* A MAC determines what it was computed from, and is neither zero nor noise.
LEMMA MacIsInjective ==
  /\ \A s, h, d, s2, h2, d2 :
       Mac(s, h, d) = Mac(s2, h2, d2) => s = s2 /\ h = h2 /\ d = d2
  /\ \A s, h, d : Mac(s, h, d) # ZeroHMAC
  /\ \A s, h, d : Mac(s, h, d) # Noise
BY DEF Mac, ZeroHMAC, Noise

\* The route's length fits the header, and its hops are nodes.
LEMMA RouteFacts ==
  ASSUME route \in Routes
  PROVE  /\ NumMaxHops \in Nat /\ NumMaxHops > 0
         /\ numHops \in Nat /\ numHops > 0 /\ numHops <= NumMaxHops
         /\ Hops \subseteq Cells
         /\ \A k \in Hops : route.node[k] \in Node
         /\ route.assocData \in AssocData
<1>1. route \in Route /\ NumMaxHops \in Nat /\ NumMaxHops > 0
  BY SphinxAssumption
<1>2. /\ route.numHops \in 1 .. NumMaxHops
      /\ route.node \in [Cells -> Node \cup {NoNode}]
      /\ route.assocData \in AssocData
      /\ \A k \in 0 .. route.numHops - 1 : route.node[k] # NoNode
  BY <1>1 DEF Route, IsTrueRouteLength
<1>3. numHops \in Nat /\ numHops > 0 /\ numHops <= NumMaxHops
  BY <1>1, <1>2 DEF numHops
<1>4. Hops \subseteq Cells
  BY <1>1, <1>3 DEF Hops, Cells
<1>5. \A k \in Hops : route.node[k] \in Node
  BY <1>2, <1>4 DEF Hops, numHops
<1> QED
  BY <1>1, <1>2, <1>3, <1>4, <1>5

\* One more hop adds its cell of the stream to the padding.
LEMMA PaddingGrows ==
  ASSUME NumMaxHops \in Nat, NEW j \in Nat, NEW u \in Nat, j <= u
  PROVE  /\ Xor(Padding(j, u), Stream(secrets[u], (NumMaxHops - u) + j))
              = Padding(j, u + 1)
         /\ Xor(Padding(j, u + 1), Stream(secrets[u], (NumMaxHops - u) + j))
              = Padding(j, u)
<1>1. PICK x : x = <<"rho", secrets[u], (NumMaxHops - u) + j>>
  BY Zenon
<1>2. x \notin Padding(j, u)
  BY <1>1 DEF Padding
<1>3. Padding(j, u + 1) = Padding(j, u) \cup {x}
  <2>1. \A t : t \in j .. (u + 1) - 1 <=> t \in j .. u - 1 \/ t = u
    OBVIOUS
  <2> QED
    BY <1>1, <2>1 DEF Padding
<1>4. Stream(secrets[u], (NumMaxHops - u) + j) = {x}
  BY <1>1 DEF Stream
<1> QED
  BY <1>2, <1>3, <1>4 DEF Xor

\* No hop, no padding.
LEMMA PaddingEmpty ==
  ASSUME NEW j \in Nat, NEW u \in Int, u <= j
  PROVE  Padding(j, u) = {}
BY DEF Padding

\* The first cell of padding is a cell of the stream of the hop before.
LEMMA PaddingFirst ==
  ASSUME NumMaxHops \in Nat, NEW j \in Nat
  PROVE  Padding(j, j + 1) = Stream(secrets[j], NumMaxHops)
<1>1. \A t : t \in j .. (j + 1) - 1 <=> t = j
  OBVIOUS
<1>2. (NumMaxHops - j) + j = NumMaxHops
  OBVIOUS
<1> QED
  BY <1>1, <1>2 DEF Padding, Stream

-----------------------------------------------------------------------------
(***************************************************************************)
(* The sender's loops.                                                     *)
(***************************************************************************)

\* The invariant of the sender holds before its first loop.
LEMMA InitSender == Init => SenderInv
<1> SUFFICES ASSUME Init PROVE SenderInv
  OBVIOUS
<1>0. numHops \in Nat /\ numHops > 0
  BY RouteFacts DEF Init
<1>1. LoopsOK
  BY <1>0 DEF Init, LoopsOK
<1>2. FactorsOK /\ HeadersOK
  BY DEF Init, FactorsOK, HeadersOK
<1>3. KeysOK
  BY DEF Init, KeysOK, Known
<1>4. FillerOK
  BY DEF Init, FillerOK
<1> QED
  BY <1>1, <1>2, <1>3, <1>4 DEF SenderInv

\* One iteration of generateSharedSecrets: the new key holds a blinding factor
\* that no key held before.
LEMMA GenerateSharedSecretInv ==
  ASSUME SenderInv, GenerateSharedSecret
  PROVE  SenderInv'
<1>0. /\ pc = "secrets" /\ pc' = "secrets" /\ i < numHops /\ i' = i + 1
      /\ UNCHANGED <<route, filler, mixHeader, nextHmac, made>>
      /\ numHops' = numHops
  BY DEF GenerateSharedSecret, numHops
<1>1. /\ NumMaxHops \in Nat /\ numHops \in Nat /\ i \in Nat /\ i \in Cells
      /\ numHops <= NumMaxHops
  BY <1>0, RouteFacts DEF SenderInv, LoopsOK, Cells
<1>2. PICK a : a = UpdatedFactors
  OBVIOUS
<1>3. PICK s : s = SharedSecret({OnionKey(route.node[i])} \cup a)
  OBVIOUS
<1>4. /\ cached' = a
      /\ keys' = [keys EXCEPT ![i] = a]
      /\ secrets' = [secrets EXCEPT ![i] = s]
      /\ i = 0 \/ i < numHops - 1 => blinding' = BlindingFactor(a, s)
  BY <1>2, <1>3 DEF GenerateSharedSecret, BlindBaseElement, BlindGroupElement
<1>5. /\ keys'[i] = a /\ secrets'[i] = s
      /\ \A k \in Cells \ {i} : keys'[k] = keys[k] /\ secrets'[k] = secrets[k]
  BY <1>1, <1>4 DEF SenderInv, LoopsOK
<1>6. LoopsOK'
  <2>1. keys' = [k \in Cells |-> keys'[k]] /\ secrets' = [k \in Cells |-> secrets'[k]]
    BY <1>4, Zenon DEF SenderInv, LoopsOK
  <2>2. i' \in Int /\ i' \in 0 .. numHops'
    BY <1>0, <1>1
  <2> QED
    BY <1>0, <2>1, <2>2 DEF SenderInv, LoopsOK
<1>7. FactorsOK'
  BY <1>0, <1>1, <1>4, <1>5 DEF FactorsOK
<1>8. FillerOK' /\ HeadersOK'
  BY <1>0 DEF SenderInv, FillerOK, HeadersOK
<1>9. /\ i = 0 => a = {SessionKey("x")}
      /\ i > 0 => a = keys[i - 1] \cup {BlindingFactor(keys[i - 1], secrets[i - 1])}
  BY <1>0, <1>1, <1>2 DEF UpdatedFactors, SenderInv, FactorsOK
<1>10. \A k \in 0 .. i - 1 : k \in Cells \ {i}
  BY <1>1 DEF Cells
<1>11. \A k \in 0 .. i - 1 :
         /\ secrets[k] = SharedSecret({OnionKey(route.node[k])} \cup keys[k])
         /\ SessionKey("x") \in keys[k]
         /\ \A y \in keys[k] :
              \/ y = SessionKey("x")
              \/ \E j \in 0 .. k - 1 : y = BlindingFactor(keys[j], secrets[j])
         /\ \A j \in 0 .. k - 1 : keys[j] \subseteq keys[k] /\ keys[j] # keys[k]
         /\ k > 0 => keys[k] = keys[k - 1] \cup
                                 {BlindingFactor(keys[k - 1], secrets[k - 1])}
  BY <1>0, <1>1, Zenon DEF SenderInv, KeysOK, Known
<1>12. i > 0 => keys[0] = {SessionKey("x")}
  BY <1>0, <1>1 DEF SenderInv, KeysOK, Known
<1>13. ASSUME i > 0
       PROVE  BlindingFactor(keys[i - 1], secrets[i - 1]) \notin keys[i - 1]
  <2>1. PICK k : k = i - 1
    OBVIOUS
  <2>2. k \in 0 .. i - 1
    BY <1>1, <1>13, <2>1
  <2>3. /\ \A y \in keys[k] :
             \/ y = SessionKey("x")
             \/ \E j \in 0 .. k - 1 : y = BlindingFactor(keys[j], secrets[j])
        /\ \A j \in 0 .. k - 1 : keys[j] # keys[k]
    BY <1>11, <2>2, Zenon
  <2>4. BlindingFactor(keys[k], secrets[k]) \notin keys[k]
    <3> SUFFICES ASSUME BlindingFactor(keys[k], secrets[k]) \in keys[k]
                 PROVE  FALSE
      OBVIOUS
    <3>1. BlindingFactor(keys[k], secrets[k]) # SessionKey("x")
      BY Tags, Zenon
    <3>2. PICK j \in 0 .. k - 1 : BlindingFactor(keys[k], secrets[k])
                                  = BlindingFactor(keys[j], secrets[j])
      BY <2>3, <3>1
    <3>3. keys[k] = keys[j]
      BY <3>2, FactorsDiffer, Zenon
    <3> QED
      BY <2>3, <3>3
  <2> QED
    BY <2>1, <2>4
<1>14. \A j \in 0 .. i - 1 : keys[j] \subseteq a /\ keys[j] # a
  <2> SUFFICES ASSUME NEW j \in 0 .. i - 1
               PROVE  keys[j] \subseteq a /\ keys[j] # a
    OBVIOUS
  <2>1. i > 0 /\ i - 1 \in 0 .. i - 1 /\ (j = i - 1 \/ j \in 0 .. (i - 1) - 1)
    BY <1>1
  <2>2. keys[j] \subseteq keys[i - 1]
    BY <1>11, <2>1, Zenon
  <2>3. BlindingFactor(keys[i - 1], secrets[i - 1]) \notin keys[j]
    BY <1>13, <2>1, <2>2
  <2> QED
    BY <1>9, <2>1, <2>2, <2>3
<1>15. \A y \in a : \/ y = SessionKey("x")
                    \/ \E j \in 0 .. i - 1 : y = BlindingFactor(keys[j], secrets[j])
  <2>1. CASE i = 0
    BY <1>9, <2>1
  <2>2. CASE i > 0
    <3>1. PICK k : k = i - 1
      OBVIOUS
    <3>2. k \in 0 .. i - 1 /\ \A j \in 0 .. k - 1 : j \in 0 .. i - 1
      BY <1>1, <2>2, <3>1
    <3>3. \A y \in keys[k] :
            \/ y = SessionKey("x")
            \/ \E j \in 0 .. k - 1 : y = BlindingFactor(keys[j], secrets[j])
      BY <1>11, <3>2, Zenon
    <3>4. a = keys[k] \cup {BlindingFactor(keys[k], secrets[k])}
      BY <1>9, <2>2, <3>1
    <3> QED
      BY <3>2, <3>3, <3>4
  <2> QED
    BY <1>1, <2>1, <2>2
<1>16. SessionKey("x") \in a
  <2>1. CASE i = 0
    BY <1>9, <2>1
  <2>2. CASE i > 0
    <3>1. i - 1 \in 0 .. i - 1
      BY <1>1, <2>2
    <3> QED
      BY <1>9, <1>11, <2>2, <3>1, Zenon
  <2> QED
    BY <1>1, <2>1, <2>2
<1>17. KeysOK'
  <2>1. Known' = i + 1
    BY <1>0 DEF Known
  <2>2. keys'[0] = {SessionKey("x")}
    <3>1. i > 0 => 0 \in Cells \ {i}
      BY <1>1 DEF Cells
    <3> QED
      BY <1>1, <1>5, <1>9, <1>12, <3>1
  <2>3. ASSUME NEW k \in 0 .. i - 1
        PROVE  /\ keys'[k] = keys[k] /\ secrets'[k] = secrets[k]
               /\ \A j \in 0 .. k - 1 : keys'[j] = keys[j] /\ secrets'[j] = secrets[j]
               /\ k > 0 => k - 1 \in 0 .. k - 1
    BY <1>1, <1>5, <1>10
  <2> DEFINE KeyOK(k) ==
               /\ secrets'[k] = SharedSecret({OnionKey(route.node[k])} \cup keys'[k])
               /\ SessionKey("x") \in keys'[k]
               /\ \A y \in keys'[k] :
                    \/ y = SessionKey("x")
                    \/ \E j \in 0 .. k - 1 : y = BlindingFactor(keys'[j], secrets'[j])
               /\ \A j \in 0 .. k - 1 : keys'[j] \subseteq keys'[k] /\ keys'[j] # keys'[k]
               /\ k > 0 => keys'[k] = keys'[k - 1] \cup
                                 {BlindingFactor(keys'[k - 1], secrets'[k - 1])}
  <2>4. ASSUME NEW k \in 0 .. i - 1
        PROVE  KeyOK(k)
    <3>1. /\ secrets[k] = SharedSecret({OnionKey(route.node[k])} \cup keys[k])
          /\ SessionKey("x") \in keys[k]
          /\ \A y \in keys[k] :
               \/ y = SessionKey("x")
               \/ \E j \in 0 .. k - 1 : y = BlindingFactor(keys[j], secrets[j])
          /\ \A j \in 0 .. k - 1 : keys[j] \subseteq keys[k] /\ keys[j] # keys[k]
          /\ k > 0 => keys[k] = keys[k - 1] \cup
                                  {BlindingFactor(keys[k - 1], secrets[k - 1])}
      BY <1>11, Zenon
    <3>2. /\ keys'[k] = keys[k] /\ secrets'[k] = secrets[k]
          /\ \A j \in 0 .. k - 1 : keys'[j] = keys[j] /\ secrets'[j] = secrets[j]
          /\ k > 0 => k - 1 \in 0 .. k - 1
      BY <2>3
    <3>3. ASSUME NEW y \in keys'[k], y # SessionKey("x")
          PROVE  \E j \in 0 .. k - 1 : y = BlindingFactor(keys'[j], secrets'[j])
      <4>1. PICK j \in 0 .. k - 1 : y = BlindingFactor(keys[j], secrets[j])
        BY <3>1, <3>2, <3>3, Zenon
      <4>2. keys'[j] = keys[j] /\ secrets'[j] = secrets[j]
        BY <3>2
      <4> QED
        BY <4>1, <4>2, Zenon
    <3>4. ASSUME NEW j \in 0 .. k - 1
          PROVE  keys'[j] \subseteq keys'[k] /\ keys'[j] # keys'[k]
      BY <3>1, <3>2
    <3>5. k > 0 => keys'[k] = keys'[k - 1] \cup
                                {BlindingFactor(keys'[k - 1], secrets'[k - 1])}
      BY <3>1, <3>2, ZenonT(60)
    <3> QED
      BY <3>1, <3>2, <3>3, <3>4, <3>5, Zenon
  <2>5. KeyOK(i)
    <3>1. i > 0 => keys'[i - 1] = keys[i - 1] /\ secrets'[i - 1] = secrets[i - 1]
      BY <1>1, <2>3
    <3> QED
      BY <1>3, <1>5, <1>9, <1>14, <1>15, <1>16, <2>3, <3>1
  <2>6. \A k \in 0 .. Known' - 1 : k \in 0 .. i - 1 \/ k = i
    BY <1>1, <2>1
  <2>7. \A k \in 0 .. Known' - 1 : KeyOK(k)
    <3> HIDE DEF KeyOK
    <3> QED
      BY <2>4, <2>5, <2>6, Zenon
  <2>8. route' = route
    BY Zenon, <1>0
  <2> QED
    BY <2>2, <2>7, <2>8, Zenon DEF KeysOK
<1> QED
  BY <1>6, <1>7, <1>8, <1>17 DEF SenderInv

\* The keys stay as they are once they are computed.
LEMMA KeysStay ==
  ASSUME KeysOK, Known' = Known, UNCHANGED <<route, keys, secrets>>
  PROVE  KeysOK'
BY DEF KeysOK

\* So does the padding, which is made from the secrets.
LEMMA PaddingStays ==
  ASSUME UNCHANGED secrets, NEW j, NEW u
  PROVE  Padding(j, u)' = Padding(j, u)
BY DEF Padding

\* And so does a packet, unless it or the next one is made again.
LEMMA PacketStays ==
  ASSUME UNCHANGED <<route, keys, secrets>>, numHops \in Nat,
         NEW k \in 0 .. numHops - 1, PacketOK(k), made'[k] = made[k],
         k < numHops - 1 => made'[k + 1] = made[k + 1]
  PROVE  PacketOK(k)'
<1>1. numHops' = numHops
  BY DEF numHops
<1>2. HopDataOf(k)' = HopDataOf(k)
  <2>1. CASE k < numHops - 1
    BY <1>1, <2>1 DEF HopDataOf
  <2>2. CASE k = numHops - 1
    BY <1>1, <2>2 DEF HopDataOf
  <2> QED
    BY <2>1, <2>2
<1>3. \A q \in 0 .. k - 1 : Padding(q, k)' = Padding(q, k)
  BY PaddingStays
<1> QED
  BY <1>1, <1>2, <1>3, Zenon DEF PacketOK

\* The steps between the loops.
LEMMA BeginLoopsInv ==
  ASSUME SenderInv, BeginPadding \/ BeginHeader
  PROVE  SenderInv'
<1>0. /\ UNCHANGED <<route, keys, secrets, filler, mixHeader, nextHmac, made>>
      /\ numHops' = numHops
  BY DEF BeginPadding, BeginHeader, numHops
<1>1. NumMaxHops \in Nat /\ numHops \in Nat /\ numHops > 0
  BY RouteFacts DEF SenderInv, LoopsOK
<1>2. Known' = Known
  BY <1>0 DEF BeginPadding, BeginHeader, Known
<1>3. KeysOK'
  BY <1>0, <1>2, KeysStay DEF SenderInv
<1>4. CASE BeginPadding
  <2>1. LoopsOK' /\ FactorsOK' /\ HeadersOK'
    BY <1>0, <1>1, <1>4 DEF BeginPadding, SenderInv, LoopsOK, FactorsOK, HeadersOK
  <2>2. ASSUME NEW j \in Cells
        PROVE  filler'[j] = Padding(j, 0)'
    <3>1. Padding(j, 0) = {}
      BY PaddingEmpty DEF Cells
    <3> QED
      BY <1>0, <1>4, <3>1, PaddingStays
      DEF BeginPadding, SenderInv, FillerOK, ZeroCell
  <2>3. FillerOK'
    BY <1>4, <2>2 DEF BeginPadding, FillerOK
  <2> QED
    BY ZenonT(60), <1>3, <2>1, <2>3 DEF SenderInv
<1>5. CASE BeginHeader
  <2>1. LoopsOK' /\ FactorsOK'
    BY <1>0, <1>1, <1>5 DEF BeginHeader, SenderInv, LoopsOK, FactorsOK
  <2>2. nextHmac = ZeroHMAC
    BY <1>5 DEF BeginHeader, SenderInv, HeadersOK
  <2>3. HeadersOK'
    BY <1>0, <1>1, <1>5, <2>2 DEF BeginHeader, HeadersOK
  <2>4. PICK u : u = numHops - 1
    OBVIOUS
  <2>5. \A j \in Cells : filler'[j] = Padding(j, u)'
    BY <1>0, <1>5, <2>4, PaddingStays DEF BeginHeader, SenderInv, FillerOK
  <2>6. FillerOK'
    BY <1>0, <1>5, <2>4, <2>5 DEF BeginHeader, FillerOK
  <2> QED
    BY Zenon, <1>3, <2>1, <2>3, <2>6 DEF SenderInv
<1> QED
  BY <1>4, <1>5

\* One iteration of generateHeaderPadding adds the stream of one more hop to the
\* cells of the filler that it reaches.
LEMMA GenerateHeaderPaddingInv ==
  ASSUME SenderInv, GenerateHeaderPadding
  PROVE  SenderInv'
<1>0. /\ pc = "padding" /\ pc' = "padding" /\ i < numHops /\ i' = i + 1
      /\ UNCHANGED <<route, keys, secrets, mixHeader, nextHmac, made>>
      /\ numHops' = numHops
  BY DEF GenerateHeaderPadding, numHops
<1>1. NumMaxHops \in Nat /\ numHops \in Nat /\ i \in Nat /\ i >= 1
  BY <1>0, RouteFacts DEF SenderInv, LoopsOK
<1>2. filler' = [j \in Cells |->
                   IF j < i
                   THEN Xor(filler[j], Stream(secrets[i - 1], TotalFillerSize(i) + j))
                   ELSE filler[j]]
  BY DEF GenerateHeaderPadding
<1>3. LoopsOK'
  <2>1. i' \in 1 .. numHops' /\ i' \in Int
    BY <1>0, <1>1
  <2>2. filler' = [k \in Cells |-> filler'[k]]
    BY Zenon, <1>2
  <2> QED
    BY <1>0, <2>1, <2>2 DEF SenderInv, LoopsOK
<1>4. FactorsOK' /\ HeadersOK'
  BY <1>0 DEF SenderInv, FactorsOK, HeadersOK
<1>5. KeysOK'
  BY <1>0, KeysStay DEF SenderInv, Known
<1>6. PICK u : u = i - 1
  OBVIOUS
<1>7. u \in Nat /\ i = u + 1
  BY <1>1, <1>6
<1>8. ASSUME NEW j \in Cells
      PROVE  filler'[j] = Padding(j, u + 1)'
  <2>1. j \in Nat /\ filler[j] = Padding(j, u)
    BY <1>0, <1>6 DEF SenderInv, FillerOK, Cells
  <2>2. CASE j < i
    <3>1. filler'[j] = Xor(Padding(j, u), Stream(secrets[u], TotalFillerSize(i) + j))
      BY <1>2, <1>6, <2>1, <2>2
    <3>2. TotalFillerSize(i) + j = (NumMaxHops - u) + j
      BY <1>1, <1>7, <2>1 DEF TotalFillerSize
    <3>3. j <= u
      BY <1>7, <2>1, <2>2
    <3>4. filler'[j] = Padding(j, u + 1)
      BY <1>1, <1>7, <2>1, <3>1, <3>2, <3>3, PaddingGrows
    <3> QED
      BY <1>0, <3>4, PaddingStays
  <2>3. CASE ~(j < i)
    <3>1. Padding(j, u) = {} /\ Padding(j, u + 1) = {}
      BY <1>7, <2>1, <2>3, PaddingEmpty
    <3> QED
      BY <1>0, <1>2, <2>1, <2>3, <3>1, PaddingStays, Zenon
  <2> QED
    BY <2>2, <2>3
<1>9. FillerOK'
  <2>1. i' - 1 = u + 1
    BY <1>0, <1>7
  <2> QED
    BY <1>0, <1>8, <2>1 DEF FillerOK
<1> QED
  BY <1>3, <1>4, <1>5, <1>9 DEF SenderInv

\* One iteration of the header loop makes the packet of one hop.
LEMMA BuildHeaderInv ==
  ASSUME SenderInv, BuildHeader
  PROVE  SenderInv'
<1>0. /\ pc = "header" /\ pc' = "header" /\ i >= 0 /\ i' = i - 1
      /\ UNCHANGED <<route, keys, secrets, filler>>
      /\ numHops' = numHops
  BY Zenon DEF BuildHeader, numHops
<1>1. PICK k : k = i
  OBVIOUS
<1>2. /\ NumMaxHops \in Nat /\ numHops \in Nat /\ numHops > 0
      /\ numHops <= NumMaxHops
      /\ k \in 0 .. numHops - 1 /\ k \in Nat /\ k \in Cells
      /\ 0 \in Cells
  BY <1>0, <1>1, RouteFacts DEF SenderInv, LoopsOK, Cells
<1>3. PICK hd : hd = [payload |-> route.payload[k], HMAC |-> nextHmac]
  BY Zenon
<1>4. PICK xored : xored = [c \in Cells |-> Xor(Shifted(hd)[c], Stream(secrets[k], c))]
  BY Zenon
<1>5. PICK header : header = IF k = numHops - 1 THEN WithFillerTail(xored) ELSE xored
  OBVIOUS
<1>6. PICK mac : mac = Mac(secrets[k], header, route.assocData)
  OBVIOUS
<1>7. PICK pkt : pkt = [EphemeralKey |-> keys[k], RoutingInfo |-> header,
                        HeaderMAC |-> mac]
  BY ZenonT(60)
<1>8. mixHeader' = header /\ nextHmac' = mac /\ made' = [made EXCEPT ![k] = pkt]
  BY Zenon, <1>1, <1>3, <1>4, <1>5, <1>6, <1>7 DEF BuildHeader
<1>9. /\ made'[k] = pkt
      /\ \A l \in Cells \ {k} : made'[l] = made[l]
      /\ made' = [c \in Cells |-> made'[c]]
  BY <1>2, <1>8 DEF SenderInv, LoopsOK
<1>10. /\ header = [c \in Cells |-> header[c]]
       /\ header[0] = xored[0]
       /\ k < numHops - 1 => header = xored
       /\ k = numHops - 1 => \A q \in 0 .. k - 1 : header[(NumMaxHops - k) + q] = filler[q]
  <2>1. CASE k = numHops - 1
    <3>1. header = [c \in Cells |-> IF c < NumMaxHops - k
                                    THEN xored[c] ELSE filler[c - (NumMaxHops - k)]]
      BY <1>5, <2>1 DEF WithFillerTail
    <3>2. header = [c \in Cells |-> header[c]] /\ header[0] = xored[0]
      BY <1>2, <2>1, <3>1
    <3>3. ASSUME NEW q \in 0 .. k - 1
          PROVE  header[(NumMaxHops - k) + q] = filler[q]
      <4>1. (NumMaxHops - k) + q \in Cells /\ ~((NumMaxHops - k) + q < NumMaxHops - k)
            /\ ((NumMaxHops - k) + q) - (NumMaxHops - k) = q
        BY <1>2 DEF Cells
      <4> QED
        BY <3>1, <4>1
    <3>4. ~(k < numHops - 1)
      BY <1>2, <2>1
    <3> QED
      BY <2>1, <3>2, <3>3, <3>4, Zenon
  <2>2. CASE k # numHops - 1
    BY <1>4, <1>5, <2>2
  <2> QED
    BY <2>1, <2>2
<1>11. xored[0] = Xor(Encode(hd), Stream(secrets[k], 0))
  BY <1>2, <1>4 DEF Shifted
<1>12. \A c \in 1 .. NumMaxHops - 1 :
         xored[c] = Xor(mixHeader[c - 1], Stream(secrets[k], c))
  BY <1>2, <1>4 DEF Shifted, Cells
<1>13. ASSUME k < numHops - 1
       PROVE  /\ k + 1 \in Cells \ {k} /\ k + 1 \in i + 1 .. numHops - 1
              /\ PacketOK(k + 1)
              /\ mixHeader = made[k + 1].RoutingInfo
              /\ nextHmac = made[k + 1].HeaderMAC
              /\ made'[k + 1] = made[k + 1]
  <2>1. k + 1 \in Cells \ {k} /\ k + 1 \in i + 1 .. numHops - 1
    BY <1>1, <1>2, <1>13 DEF Cells
  <2> QED
    BY <1>0, <1>1, <1>9, <1>13, <2>1 DEF SenderInv, HeadersOK
<1>14. k = numHops - 1 => nextHmac = ZeroHMAC
  BY <1>0, <1>1 DEF SenderInv, HeadersOK
<1>15. HopDataOf(k)' = hd
  <2>1. CASE k = numHops - 1
    BY ZenonT(60), <1>0, <1>3, <1>14, <2>1 DEF HopDataOf
  <2>2. CASE k < numHops - 1
    BY <1>0, <1>2, <1>3, <1>13, <2>2 DEF HopDataOf
  <2> QED
    BY <1>2, <2>1, <2>2
<1>16. ASSUME NEW q \in 0 .. k - 1
       PROVE  header[(NumMaxHops - k) + q] = Padding(q, k)'
  <2>0. q \in Nat /\ q \in Cells /\ q <= k
    BY <1>2 DEF Cells
  <2>1. CASE k = numHops - 1
    <3>1. filler[q] = Padding(q, k)
      BY <1>0, <2>0, <2>1 DEF SenderInv, FillerOK
    <3>2. Padding(q, k)' = Padding(q, k)
      BY <1>0, PaddingStays
    <3> QED
      BY <1>10, <2>1, <3>1, <3>2
  <2>2. CASE k < numHops - 1
    <3>1. PICK c : c = (NumMaxHops - k) + q
      OBVIOUS
    <3>2. c \in 1 .. NumMaxHops - 1 /\ c - 1 = (NumMaxHops - (k + 1)) + q
          /\ q \in 0 .. (k + 1) - 1
      BY <1>2, <3>1
    <3>3. header[c] = Xor(mixHeader[c - 1], Stream(secrets[k], c))
      BY Zenon, <1>10, <1>12, <2>2, <3>2
    <3>4. mixHeader[c - 1] = Padding(q, k + 1)
      BY Zenon, <1>13, <2>2, <3>2 DEF PacketOK
    <3>5. header[c] = Padding(q, k)
      BY ZenonT(60), <1>2, <2>0, <3>1, <3>3, <3>4, PaddingGrows
    <3> QED
      BY <1>0, <3>1, <3>5, PaddingStays
  <2> QED
    BY <1>2, <2>1, <2>2
<1>17. PacketOK(k)'
  <2>1. made'[k].RoutingInfo = header
    BY <1>7, <1>9
  <2>2. k < numHops - 1 =>
          \A c \in 1 .. NumMaxHops - 1 :
            header[c] = Xor(made'[k + 1].RoutingInfo[c - 1], Stream(secrets[k], c))
    BY <1>10, <1>12, <1>13
  <2>3. header[0] = Xor(Encode(hd), Stream(secrets[k], 0))
    BY Zenon, <1>10, <1>11
  <2> QED
    BY Zenon, <1>0, <1>6, <1>7, <1>9, <1>10, <1>15, <1>16, <2>1, <2>2, <2>3 DEF PacketOK
<1>18. ASSUME NEW l \in k + 1 .. numHops - 1
       PROVE  PacketOK(l)'
  <2>1. l \in 0 .. numHops - 1 /\ l \in Cells \ {k}
        /\ (l < numHops - 1 => l + 1 \in Cells \ {k})
    BY <1>2 DEF Cells
  <2>2. PacketOK(l)
    BY ZenonT(60), <1>0, <1>1 DEF SenderInv, HeadersOK
  <2> QED
    BY <1>0, <1>2, <1>9, <2>1, <2>2, PacketStays
<1>19. HeadersOK'
  <2>1. i' + 1 = k /\ i' < numHops' - 1 /\ i' # numHops' - 1
    BY <1>0, <1>1, <1>2
  <2>2. \A l \in i' + 1 .. numHops' - 1 : l = k \/ l \in k + 1 .. numHops - 1
    BY <1>0, <1>2, <2>1
  <2>3. made'[k].RoutingInfo = header /\ made'[k].HeaderMAC = mac
    BY <1>7, <1>9
  <2> QED
    BY Zenon, <1>0, <1>8, <1>17, <1>18, <2>1, <2>2, <2>3 DEF HeadersOK
<1>20. LoopsOK'
  <2>1. i' \in Int /\ i' \in -1 .. numHops' - 1
    BY <1>0, <1>1, <1>2
  <2>2. mixHeader' = [c \in Cells |-> mixHeader'[c]]
    BY Zenon, <1>8, <1>10
  <2> QED
    BY <1>0, <1>9, <2>1, <2>2 DEF SenderInv, LoopsOK
<1>21. FactorsOK' /\ KeysOK'
  BY <1>0, KeysStay DEF SenderInv, FactorsOK, Known
<1>22. FillerOK'
  <2>1. PICK u : u = numHops - 1
    OBVIOUS
  <2>2. \A j \in Cells : filler'[j] = Padding(j, u)'
    BY <1>0, <2>1, PaddingStays DEF SenderInv, FillerOK
  <2> QED
    BY <1>0, <2>1, <2>2 DEF FillerOK
<1> QED
  BY ZenonT(60), <1>19, <1>20, <1>21, <1>22 DEF SenderInv

\* The end of NewOnionPacket: what it returns is the packet of the first hop.
LEMMA SendInv ==
  ASSUME SenderInv, Send
  PROVE  SenderInv' /\ net' = {made[0]} /\ pc' = "sent"
<1>0. /\ pc = "header" /\ pc' = "sent" /\ i = -1
      /\ UNCHANGED <<route, i, cached, blinding, keys, secrets, filler, mixHeader,
                     nextHmac, made>>
      /\ numHops' = numHops
  BY DEF Send, senderVars, numHops
<1>1. numHops \in Nat /\ numHops > 0
  BY Zenon, RouteFacts DEF SenderInv, LoopsOK
<1>2. LoopsOK' /\ FactorsOK'
  BY <1>0, <1>1 DEF SenderInv, LoopsOK, FactorsOK
<1>3. KeysOK'
  BY <1>0, KeysStay DEF SenderInv, Known
<1>4. FillerOK'
  <2>1. PICK u : u = numHops - 1
    OBVIOUS
  <2>2. \A j \in Cells : filler'[j] = Padding(j, u)'
    BY <1>0, <2>1, PaddingStays DEF SenderInv, FillerOK
  <2> QED
    BY <1>0, <2>1, <2>2 DEF FillerOK
<1>5. \A k \in 0 .. numHops - 1 : PacketOK(k) /\ PacketOK(k)'
  <2> TAKE k \in 0 .. numHops - 1
  <2>1. PacketOK(k)
    BY <1>0, <1>1 DEF SenderInv, HeadersOK
  <2> QED
    BY <1>0, <1>1, <2>1, PacketStays
<1>6. HeadersOK'
  BY <1>0, <1>1, <1>5 DEF SenderInv, HeadersOK
<1>7. net' = {made[0]}
  <2>1. PacketOK(0) /\ mixHeader = made[0].RoutingInfo
        /\ nextHmac = made[0].HeaderMAC
    BY <1>0, <1>1, <1>5 DEF SenderInv, HeadersOK
  <2>2. keys[0] = {SessionKey("x")}
    BY <1>0, <1>1 DEF SenderInv, KeysOK, Known
  <2>3. BlindBaseElement({SessionKey("x")}) = keys[0]
    BY ZenonT(60), <2>2 DEF BlindBaseElement, BlindGroupElement
  <2>4. made[0] = [EphemeralKey |-> keys[0], RoutingInfo |-> mixHeader,
                   HeaderMAC |-> nextHmac]
    <3>1. PICK header, mac : made[0] = [EphemeralKey |-> keys[0], RoutingInfo |-> header,
                                        HeaderMAC |-> mac]
      BY Zenon, <2>1 DEF PacketOK
    <3>2. made[0].RoutingInfo = header /\ made[0].HeaderMAC = mac
      BY <3>1
    <3> QED
      BY Zenon, <2>1, <3>1, <3>2
  <2> QED
    BY <2>3, <2>4 DEF Send
<1> QED
  BY Zenon, <1>0, <1>2, <1>3, <1>4, <1>6, <1>7 DEF SenderInv

\* Nothing else the model does touches the sender.
LEMMA SenderStays ==
  ASSUME SenderInv, UNCHANGED <<route, pc, senderVars>>
  PROVE  SenderInv'
<1>0. /\ UNCHANGED <<route, pc, i, cached, blinding, keys, secrets, filler,
                     mixHeader, nextHmac, made>>
      /\ numHops' = numHops
  BY DEF senderVars, numHops
<1>1. numHops \in Nat /\ numHops > 0
  BY Zenon, RouteFacts DEF SenderInv, LoopsOK
<1>2. LoopsOK' /\ FactorsOK'
  BY <1>0 DEF SenderInv, LoopsOK, FactorsOK
<1>3. KeysOK'
  BY ZenonT(60), <1>0, KeysStay DEF SenderInv, Known
<1>4. FillerOK'
  BY <1>0 DEF SenderInv, FillerOK, Padding
<1>5. HeadersOK'
  <2>1. ASSUME pc \in {"header", "sent"}, NEW k \in i + 1 .. numHops - 1
        PROVE  PacketOK(k)'
    <3>1. PacketOK(k) /\ k \in 0 .. numHops - 1
      BY <1>1, <2>1 DEF SenderInv, LoopsOK, HeadersOK
    <3> QED
      BY Zenon, <1>0, <1>1, <3>1, PacketStays
  <2> QED
    BY <1>0, <2>1 DEF SenderInv, HeadersOK
<1> QED
  BY <1>2, <1>3, <1>4, <1>5 DEF SenderInv

\* NewOnionPacket keeps the sender's part of the invariant.
LEMMA NewOnionPacketInv ==
  ASSUME SenderInv, NewOnionPacket
  PROVE  SenderInv'
BY Zenon, GenerateSharedSecretInv, BeginLoopsInv, GenerateHeaderPaddingInv,
   BuildHeaderInv, SendInv DEF NewOnionPacket

-----------------------------------------------------------------------------
(***************************************************************************)
(* The packets in the network.                                             *)
(***************************************************************************)

\* The packet of a hop, once NewOnionPacket has returned.
LEMMA SentPackets ==
  ASSUME SenderInv, pc = "sent", NEW k \in Hops
  PROVE  /\ PacketOK(k)
         /\ made[k].EphemeralKey = keys[k]
         /\ made[k].HeaderMAC = Mac(secrets[k], made[k].RoutingInfo, route.assocData)
         /\ DOMAIN made[k].RoutingInfo = Cells
         /\ secrets[k] = SharedSecret({OnionKey(route.node[k])} \cup keys[k])
         /\ SessionKey("x") \in keys[k]
         /\ \A m : OnionKey(m) \notin keys[k]
         /\ k < numHops - 1 =>
              /\ k + 1 \in Hops
              /\ keys[k + 1] = keys[k] \cup {BlindingFactor(keys[k], secrets[k])}
<1>0. numHops \in Nat /\ numHops > 0 /\ i = -1 /\ Known = numHops
  BY RouteFacts DEF SenderInv, LoopsOK, Known
<1>1. PacketOK(k)
  BY <1>0 DEF SenderInv, HeadersOK, Hops
<1>2. /\ made[k].EphemeralKey = keys[k]
      /\ made[k].HeaderMAC = Mac(secrets[k], made[k].RoutingInfo, route.assocData)
      /\ DOMAIN made[k].RoutingInfo = Cells
  <2>1. PICK h : h = made[k].RoutingInfo
    BY ZenonT(60)
  <2>2. made[k] = [EphemeralKey |-> keys[k], RoutingInfo |-> h,
                   HeaderMAC |-> Mac(secrets[k], h, route.assocData)]
        /\ h = [c \in Cells |-> h[c]]
    BY Zenon, <1>1, <2>1 DEF PacketOK
  <2>3. made[k].EphemeralKey = keys[k]
        /\ made[k].HeaderMAC = Mac(secrets[k], h, route.assocData)
    BY <2>2
  <2>4. DOMAIN h = Cells
    BY <2>2
  <2> QED
    BY <2>1, <2>3, <2>4
<1>3. k \in 0 .. Known - 1
  BY <1>0 DEF Hops
<1>4. /\ secrets[k] = SharedSecret({OnionKey(route.node[k])} \cup keys[k])
      /\ SessionKey("x") \in keys[k]
      /\ \A a \in keys[k] :
           \/ a = SessionKey("x")
           \/ \E j \in 0 .. k - 1 : a = BlindingFactor(keys[j], secrets[j])
  BY <1>3, Zenon DEF SenderInv, KeysOK
<1>5. \A m : OnionKey(m) \notin keys[k]
  <2> SUFFICES ASSUME NEW m, OnionKey(m) \in keys[k] PROVE FALSE
    OBVIOUS
  <2>1. OnionKey(m) # SessionKey("x")
    BY Tags, Zenon
  <2>2. \A j : OnionKey(m) # BlindingFactor(keys[j], secrets[j])
    BY Tags, Zenon
  <2> QED
    BY <1>4, <2>1, <2>2
<1>6. ASSUME k < numHops - 1
      PROVE  /\ k + 1 \in Hops
             /\ keys[k + 1] = keys[k] \cup {BlindingFactor(keys[k], secrets[k])}
  <2>1. PICK l : l = k + 1
    OBVIOUS
  <2>2. l \in Hops /\ l \in 0 .. Known - 1 /\ l > 0 /\ l - 1 = k
    BY <1>0, <1>3, <1>6, <2>1 DEF Hops
  <2>3. keys[l] = keys[l - 1] \cup {BlindingFactor(keys[l - 1], secrets[l - 1])}
    BY <2>2, Zenon DEF SenderInv, KeysOK
  <2> QED
    BY <2>1, <2>2, <2>3
<1> QED
  BY Zenon, <1>1, <1>2, <1>4, <1>5, <1>6

\* A packet that the sender made passes the checks of the node that it was made
\* for only, and only with the sender's associated data.
LEMMA WhoAccepts ==
  ASSUME SenderInv, pc = "sent", NEW k \in Hops, NEW m, NEW d,
         Accepts(m, made[k], d)
  PROVE  /\ m = route.node[k]
         /\ d = route.assocData
         /\ NodeSecret(m, made[k]) = secrets[k]
<1>1. Mac(secrets[k], made[k].RoutingInfo, route.assocData)
        = Mac(NodeSecret(m, made[k]), made[k].RoutingInfo, d)
  BY SentPackets, ZenonT(60) DEF Accepts
<1>2. NodeSecret(m, made[k]) = secrets[k] /\ d = route.assocData
  BY <1>1, MacIsInjective
<1>3. NodeSecret(m, made[k]) = SharedSecret(keys[k] \cup {OnionKey(m)})
  BY SentPackets, ZenonT(60) DEF NodeSecret, BlindGroupElement
<1>4. secrets[k] = SharedSecret({OnionKey(route.node[k])} \cup keys[k])
  BY Zenon, SentPackets
<1>5. keys[k] \cup {OnionKey(m)} = {OnionKey(route.node[k])} \cup keys[k]
  BY <1>2, <1>3, <1>4, Tags, Zenon
<1>6. OnionKey(m) \notin keys[k]
  BY SentPackets, Zenon
<1>7. OnionKey(m) = OnionKey(route.node[k])
  BY ZenonT(60), <1>5, <1>6
<1> QED
  BY <1>2, <1>7, Tags, Zenon

\* A hop that decrypts its packet gets the data the sender wrote for it, and the
\* packet the sender made for the next hop, down to the last cell of padding.
LEMMA Unwrap ==
  ASSUME SenderInv, pc = "sent", NEW k \in Hops, NEW m,
         NodeSecret(m, made[k]) = secrets[k]
  PROVE  /\ ProcessedPacket(m, made[k]).ForwardingInstructions.payload
              = route.payload[k]
         /\ ProcessedPacket(m, made[k]).Action
              = IF k = numHops - 1 THEN "ExitNode" ELSE "MoreHops"
         /\ k < numHops - 1 =>
              ProcessedPacket(m, made[k]).NextPacket = made[k + 1]
<1>0. /\ NumMaxHops \in Nat /\ NumMaxHops > 0 /\ numHops \in Nat
      /\ numHops <= NumMaxHops /\ k \in 0 .. numHops - 1
  BY ZenonT(60), RouteFacts DEF SenderInv, LoopsOK, Hops
<1>1. PICK s : s = secrets[k]
  OBVIOUS
<1>2. PICK header : header = made[k].RoutingInfo
  OBVIOUS
<1>3. PICK info : info = HopInfo(s, made[k])
  BY Zenon
<1>4. \A c \in 0 .. NumMaxHops :
        info[c] = Xor(IF c < NumMaxHops THEN header[c] ELSE ZeroCell, Stream(s, c))
  BY <1>2, <1>3, SMTT(30) DEF HopInfo
<1>5. /\ header[0] = Xor(Encode(HopDataOf(k)), Stream(s, 0))
      /\ k < numHops - 1 =>
           \A c \in 1 .. NumMaxHops - 1 :
             header[c] = Xor(made[k + 1].RoutingInfo[c - 1], Stream(s, c))
  BY <1>1, <1>2, SentPackets, ZenonT(60) DEF PacketOK
<1>6. Decode(info[0]) = HopDataOf(k)
  <2>1. info[0] = Xor(header[0], Stream(s, 0))
    BY <1>0, <1>4
  <2>2. info[0] = Encode(HopDataOf(k))
    BY <1>5, <2>1, XorTwice, SMTT(30)
  <2> QED
    BY <2>2, DecodeEncode
<1>7. /\ ProcessedPacket(m, made[k]).ForwardingInstructions = HopDataOf(k)
      /\ ProcessedPacket(m, made[k]).Action = ActionOf(HopDataOf(k))
      /\ ProcessedPacket(m, made[k]).NextPacket = InnerPacket(s, made[k])
  BY <1>1, <1>3, <1>6, ZenonT(60) DEF ProcessedPacket
<1>8. HopDataOf(k).payload = route.payload[k]
  BY DEF HopDataOf
<1>9. ActionOf(HopDataOf(k)) = IF k = numHops - 1 THEN "ExitNode" ELSE "MoreHops"
  <2>1. CASE k = numHops - 1
    BY <2>1 DEF ActionOf, HopDataOf
  <2>2. CASE k # numHops - 1
    <3>1. k + 1 \in Hops
      BY <1>0, <2>2 DEF Hops
    <3>2. made[k + 1].HeaderMAC # ZeroHMAC
      <4>1. made[k + 1].HeaderMAC
              = Mac(secrets[k + 1], made[k + 1].RoutingInfo, route.assocData)
        BY <3>1, SentPackets, Zenon
      <4> QED
        BY <4>1, MacIsInjective
    <3>3. HopDataOf(k).HMAC = made[k + 1].HeaderMAC
      BY <2>2 DEF HopDataOf
    <3> QED
      BY <2>2, <3>2, <3>3 DEF ActionOf
  <2> QED
    BY Zenon, <2>1, <2>2
<1>10. ASSUME k < numHops - 1
       PROVE  InnerPacket(s, made[k]) = made[k + 1]
  <2>1. PICK l : l = k + 1
    OBVIOUS
  <2>2. PICK next : next = made[l].RoutingInfo
    OBVIOUS
  <2>3. l \in Hops /\ PacketOK(l) /\ keys[l] = keys[k] \cup {BlindingFactor(keys[k], s)}
    BY <1>1, <1>10, <2>1, SentPackets, ZenonT(30)
  <2>4. /\ made[l] = [EphemeralKey |-> keys[l], RoutingInfo |-> next,
                      HeaderMAC |-> made[l].HeaderMAC]
        /\ next = [c \in Cells |-> next[c]]
        /\ k \in 0 .. l - 1 =>
             next[(NumMaxHops - l) + k] = Padding(k, l)
    <3>1. made[l].HeaderMAC = Mac(secrets[l], next, route.assocData)
      BY <2>2, <2>3, SentPackets, Zenon
    <3> QED
      BY <2>2, <2>3, <3>1, Zenon DEF PacketOK
  <2>5. next[NumMaxHops - 1] = Stream(s, NumMaxHops)
    <3>1. k \in 0 .. l - 1 /\ (NumMaxHops - l) + k = NumMaxHops - 1
      BY <1>0, <2>1
    <3>2. Padding(k, k + 1) = Stream(s, NumMaxHops)
      BY <1>0, <1>1, PaddingFirst
    <3> QED
      BY <2>1, <2>4, <3>1, <3>2
  <2>6. ASSUME NEW c \in Cells
        PROVE  info[c + 1] = next[c]
    <3>1. CASE c < NumMaxHops - 1
      <4>1. PICK e : e = c + 1
        OBVIOUS
      <4>2. e \in 1 .. NumMaxHops - 1 /\ e < NumMaxHops /\ e \in 0 .. NumMaxHops
            /\ e - 1 = c
        BY <1>0, <3>1, <4>1 DEF Cells
      <4>3. header[e] = Xor(next[e - 1], Stream(s, e))
        BY Zenon, <1>5, <1>10, <2>1, <2>2, <4>2
      <4>4. info[e] = Xor(header[e], Stream(s, e))
        BY Zenon, <1>4, <4>2
      <4>5. info[e] = next[e - 1]
        BY Zenon, <4>3, <4>4, XorTwice
      <4> QED
        BY <4>1, <4>2, <4>5
    <3>2. CASE c = NumMaxHops - 1
      <4>1. c + 1 = NumMaxHops /\ NumMaxHops \in 0 .. NumMaxHops
        BY <1>0, <3>2
      <4>2. info[NumMaxHops] = Xor(ZeroCell, Stream(s, NumMaxHops))
        BY <1>0, <1>4, <4>1
      <4> QED
        BY <2>5, <3>2, <4>1, <4>2, XorZero
    <3> QED
      BY <1>0, <3>1, <3>2 DEF Cells
  <2>7. [c \in Cells |-> info[c + 1]] = next
    BY <2>4, <2>6
  <2>8. BlindGroupElement(made[k].EphemeralKey,
                          {BlindingFactor(made[k].EphemeralKey, s)}) = keys[l]
    BY <2>3, SentPackets, Zenon DEF BlindGroupElement
  <2>9. Decode(info[0]).HMAC = made[l].HeaderMAC
    <3>1. k # numHops - 1
      BY <1>0, <1>10
    <3> QED
      BY <1>6, <2>1, <3>1 DEF HopDataOf
  <2>10. InnerPacket(s, made[k]) = [EphemeralKey |-> keys[l], RoutingInfo |-> next,
                                    HeaderMAC |-> made[l].HeaderMAC]
    BY <1>3, <2>7, <2>8, <2>9, Zenon DEF InnerPacket
  <2> QED
    BY <2>1, <2>4, <2>10
<1> QED
  BY Zenon, <1>7, <1>8, <1>9, <1>10

\* A damaged copy is accepted by nobody: its MAC does not fit its header, its key
\* is not on the curve, or its key leads to another secret.
LEMMA DamagedIsRejected ==
  ASSUME SenderInv, pc = "sent", NEW pkt \in net \cap Genuine, Damage(pkt),
         NEW p \in net' \ net
  PROVE  /\ DOMAIN p.RoutingInfo = Cells
         /\ \A m \in Node, d \in AssocData : ~Accepts(m, p, d)
<1>1. PICK k \in Hops : pkt = made[k]
  BY DEF Genuine
<1>2. PICK key : key = keys[k]
  OBVIOUS
<1>3. PICK header : header = made[k].RoutingInfo
  OBVIOUS
<1>4. PICK mac : mac = Mac(secrets[k], header, route.assocData)
  BY SMTT(30)
<1>5. /\ pkt = [EphemeralKey |-> key, RoutingInfo |-> header, HeaderMAC |-> mac]
      /\ header = [c \in Cells |-> header[c]]
  BY <1>1, <1>2, <1>3, <1>4, SentPackets, ZenonT(30) DEF PacketOK
<1>6. /\ secrets[k] = SharedSecret({OnionKey(route.node[k])} \cup key)
      /\ SessionKey("x") \in key
  BY <1>2, SentPackets, ZenonT(60)
<1>7. ASSUME NEW c \in Cells, p = [pkt EXCEPT !.RoutingInfo[c] = Xor(@, {Noise})]
      PROVE  /\ DOMAIN p.RoutingInfo = Cells
             /\ \A m \in Node, d \in AssocData : ~Accepts(m, p, d)
  <2>1. PICK h : h = [header EXCEPT ![c] = Xor(@, {Noise})]
    BY Zenon
  <2>2. p = [EphemeralKey |-> key, RoutingInfo |-> h, HeaderMAC |-> mac]
    BY Zenon, <1>5, <1>7, <2>1
  <2>3. DOMAIN h = Cells /\ h[c] = Xor(header[c], {Noise})
    BY <1>5, <2>1
  <2>4. h # header
    BY <2>3, XorChanges, Zenon
  <2>5. \A s, d : mac # Mac(s, h, d)
    BY <1>4, <2>4, MacIsInjective
  <2>6. p.RoutingInfo = h /\ p.HeaderMAC = mac
    BY <2>2
  <2> QED
    BY <2>3, <2>5, <2>6 DEF Accepts
<1>8. ASSUME p = [pkt EXCEPT !.HeaderMAC = Noise]
      PROVE  /\ DOMAIN p.RoutingInfo = Cells
             /\ \A m \in Node, d \in AssocData : ~Accepts(m, p, d)
  <2>1. p = [EphemeralKey |-> key, RoutingInfo |-> header, HeaderMAC |-> Noise]
    BY <1>5, <1>8
  <2>2. p.RoutingInfo = header /\ p.HeaderMAC = Noise
    BY <2>1
  <2>3. DOMAIN header = Cells
    BY <1>5
  <2>4. \A s, h, d : Noise # Mac(s, h, d)
    BY MacIsInjective
  <2> QED
    BY <2>2, <2>3, <2>4 DEF Accepts
<1>9. ASSUME NEW P \in {OffCurve, BlindBaseElement({SessionKey("other")})},
             p = [pkt EXCEPT !.EphemeralKey = P]
      PROVE  /\ DOMAIN p.RoutingInfo = Cells
             /\ \A m \in Node, d \in AssocData : ~Accepts(m, p, d)
  <2>1. p = [EphemeralKey |-> P, RoutingInfo |-> header, HeaderMAC |-> mac]
    BY Zenon, <1>5, <1>9
  <2>2. p.EphemeralKey = P /\ p.RoutingInfo = header /\ p.HeaderMAC = mac
    BY <2>1
  <2>3. DOMAIN header = Cells
    BY <1>5
  <2>4. CASE P = OffCurve
    BY <2>2, <2>3, <2>4, Zenon DEF Accepts, IsOnCurve, OffCurve
  <2>5. CASE P = BlindBaseElement({SessionKey("other")})
    <3>1. P = {SessionKey("other")}
      BY Zenon, <2>5 DEF BlindBaseElement, BlindGroupElement
    <3>2. ASSUME NEW m, NEW d, Accepts(m, p, d) PROVE FALSE
      <4>1. Mac(secrets[k], header, route.assocData)
              = Mac(NodeSecret(m, p), header, d)
        BY Zenon, <1>4, <2>2, <3>2 DEF Accepts
      <4>2. NodeSecret(m, p) = secrets[k]
        BY <4>1, MacIsInjective
      <4>3. NodeSecret(m, p) = SharedSecret({SessionKey("other")} \cup {OnionKey(m)})
        BY <2>2, <3>1, SMTT(30) DEF NodeSecret, BlindGroupElement
      <4>4. {SessionKey("other")} \cup {OnionKey(m)}
              = {OnionKey(route.node[k])} \cup key
        BY <1>6, <4>2, <4>3, Tags, Zenon
      <4>5. SessionKey("x") # SessionKey("other") /\ SessionKey("x") # OnionKey(m)
        BY DEF SessionKey, OnionKey
      <4> QED
        BY <1>6, <4>4, <4>5
    <3> QED
      BY <2>2, <2>3, <3>2
  <2> QED
    BY <2>4, <2>5
<1> QED
  BY <1>7, <1>8, <1>9 DEF Damage

\* A node that accepts a packet of the network was made for it.
LEMMA AcceptedIsGenuine ==
  ASSUME SenderInv, NetOK, NEW pkt \in net, NEW m \in Node, NEW d \in AssocData,
         Accepts(m, pkt, d)
  PROVE  /\ pc = "sent"
         /\ d = route.assocData
         /\ \E k \in Hops : /\ pkt = made[k]
                            /\ m = route.node[k]
                            /\ NodeSecret(m, pkt) = secrets[k]
<1>1. pc = "sent" /\ pkt \in Genuine
  BY DEF NetOK
<1>2. PICK k \in Hops : pkt = made[k]
  BY Zenon, <1>1 DEF Genuine
<1> QED
  BY Zenon, <1>1, <1>2, WhoAccepts

-----------------------------------------------------------------------------
(***************************************************************************)
(* The invariant and the theorems.                                         *)
(***************************************************************************)

\* The invariant holds at the start, when nothing was sent.
LEMMA InitInv == Init => SphinxInv
BY Zenon, InitSender DEF Init, SphinxInv, NetOK, ProcessedOK

\* Only Send puts a packet of the sender into the network.
LEMMA NewOnionPacketNet ==
  ASSUME SenderInv, NetOK, NewOnionPacket
  PROVE  NetOK' /\ UNCHANGED processed /\ pc # "sent"
<1>1. CASE Send
  <2>1. net' = {made[0]} /\ pc' = "sent" /\ SenderInv'
    BY Zenon, <1>1, SendInv
  <2>2. UNCHANGED <<route, made, processed>>
    BY Zenon, <1>1 DEF Send, senderVars
  <2>3. 0 \in Hops /\ 0 \in Hops'
    BY <2>2, RouteFacts, SMTT(30) DEF SenderInv, LoopsOK, Hops, numHops
  <2>4. PacketOK(0) /\ DOMAIN made[0].RoutingInfo = Cells
    <3>1. i = -1 /\ pc = "header"
      BY <1>1 DEF Send
    <3>2. PacketOK(0)
      BY <2>3, <3>1 DEF SenderInv, HeadersOK, Hops
    <3> QED
      BY <3>2, Zenon DEF PacketOK
  <2>5. made[0] \in Genuine'
    BY <2>2, <2>3 DEF Genuine
  <2>6. pc # "sent"
    BY <1>1 DEF Send
  <2> QED
    BY <2>1, <2>2, <2>4, <2>5, <2>6 DEF NetOK
<1>2. CASE ~Send
  <2>1. UNCHANGED <<net, processed>> /\ pc' # "sent" /\ pc # "sent"
    BY <1>2, Zenon DEF NewOnionPacket, GenerateSharedSecret, BeginPadding,
                GenerateHeaderPadding, BeginHeader, BuildHeader
  <2> QED
    BY <2>1, SMTT(30) DEF NetOK
<1> QED
  BY <1>1, <1>2

\* Damage adds packets that nobody accepts.
LEMMA DamageNet ==
  ASSUME SenderInv, NetOK, NEW pkt \in net, Damage(pkt)
  PROVE  NetOK' /\ UNCHANGED <<route, pc, senderVars, processed>>
<1>1. UNCHANGED <<route, pc, senderVars, processed>> /\ pkt \in net \cap Genuine
  BY Zenon DEF Damage
<1>2. pc = "sent" /\ pc' = "sent" /\ Genuine' = Genuine
  BY <1>1 DEF NetOK, Genuine, Hops, numHops, senderVars
<1>3. ASSUME NEW p \in net'
      PROVE  /\ DOMAIN p.RoutingInfo = Cells
             /\ p \in Genuine \/ \A m \in Node, d \in AssocData : ~Accepts(m, p, d)
  <2>1. CASE p \in net
    BY <2>1 DEF NetOK
  <2>2. CASE p \notin net
    BY Zenon, <1>1, <1>2, <2>2, DamagedIsRejected
  <2> QED
    BY <2>1, <2>2
<1> QED
  BY <1>1, <1>2, <1>3 DEF NetOK

\* What a node forwards is the packet the sender made for the next hop.
LEMMA ForwardedIsGenuine ==
  ASSUME SenderInv, pc = "sent", NEW k \in Hops,
         NEW m, NodeSecret(m, made[k]) = secrets[k],
         ProcessedPacket(m, made[k]).Action = "MoreHops"
  PROVE  /\ ProcessedPacket(m, made[k]).NextPacket \in Genuine
         /\ DOMAIN (ProcessedPacket(m, made[k]).NextPacket).RoutingInfo = Cells
<1>1. k # numHops - 1
  BY Zenon, Unwrap
<1>2. k < numHops - 1 /\ k + 1 \in Hops
  BY <1>1, RouteFacts DEF SenderInv, LoopsOK, Hops
<1>3. ProcessedPacket(m, made[k]).NextPacket = made[k + 1]
  BY <1>2, Unwrap, SMTT(30)
<1>4. DOMAIN made[k + 1].RoutingInfo = Cells
  BY <1>2, SentPackets, ZenonT(60)
<1> QED
  BY ZenonT(60), <1>2, <1>3, <1>4 DEF Genuine

\* Processing a packet adds genuine packets and true records only.
LEMMA ProcessInv ==
  ASSUME SphinxInv, NEW m \in Node, NEW pkt \in net, NEW d \in AssocData,
         Process(m, pkt, d)
  PROVE  NetOK' /\ ProcessedOK' /\ UNCHANGED <<route, pc, senderVars>>
<1>1. CASE UNCHANGED vars
  <2>1. UNCHANGED <<route, pc, senderVars, net, processed>>
    BY <1>1 DEF vars
  <2>2. UNCHANGED <<route, made>>
    BY <2>1 DEF senderVars
  <2>3. NetOK'
    <3>1. Genuine' = Genuine
      BY <2>2, Zenon DEF Genuine, Hops, numHops
    <3>2. pc' = pc /\ net' = net
      BY <2>1, Zenon
    <3> QED
      BY <3>1, <3>2, Zenon DEF SphinxInv, NetOK
  <2>4. ProcessedOK'
    BY <2>1, <2>2, ZenonT(60) DEF SphinxInv, ProcessedOK, Hops, numHops
  <2> QED
    BY <2>1, <2>3, <2>4
<1>2. CASE /\ Accepts(m, pkt, d)
           /\ LET out == ProcessedPacket(m, pkt)
              IN  /\ processed' = processed \cup
                       {[node |-> m, pkt |-> pkt, assocData |-> d, out |-> out]}
                  /\ net' = IF out.Action = "MoreHops"
                            THEN net \cup {out.NextPacket} ELSE net
           /\ UNCHANGED <<route, pc, senderVars>>
  <2>1. PICK out : out = ProcessedPacket(m, pkt)
    OBVIOUS
  <2>2. PICK r : r = [node |-> m, pkt |-> pkt, assocData |-> d, out |-> out]
    BY Zenon
  <2>3. /\ processed' = processed \cup {r}
        /\ net' = IF out.Action = "MoreHops" THEN net \cup {out.NextPacket} ELSE net
    BY <1>2, <2>1, <2>2
  <2>4. UNCHANGED <<route, pc, made>>
    BY Zenon, <1>2 DEF senderVars
  <2>5. PICK k \in Hops : /\ pkt = made[k]
                          /\ m = route.node[k]
                          /\ NodeSecret(m, pkt) = secrets[k]
    BY ZenonT(60), <1>2, AcceptedIsGenuine DEF SphinxInv
  <2>6. pc = "sent" /\ d = route.assocData
    BY <1>2, AcceptedIsGenuine DEF SphinxInv
  <2>7. out.Action = "MoreHops" =>
          out.NextPacket \in Genuine /\ DOMAIN (out.NextPacket).RoutingInfo = Cells
    BY Zenon, <2>1, <2>5, <2>6, ForwardedIsGenuine DEF SphinxInv
  <2>8. NetOK'
    BY Zenon, <2>3, <2>4, <2>6, <2>7 DEF SphinxInv, NetOK, Genuine, Hops, numHops
  <2>9. /\ r.assocData = route.assocData /\ r.node = m /\ r.pkt = made[k]
        /\ r.out = ProcessedPacket(r.node, r.pkt)
    BY ZenonT(60), <2>1, <2>2, <2>5, <2>6
  <2>10. ProcessedOK'
    BY ZenonT(60), <2>3, <2>4, <2>5, <2>6, <2>9
    DEF SphinxInv, ProcessedOK, Hops, numHops
  <2> QED
    BY <1>2, <2>8, <2>10
<1> QED
  BY <1>1, <1>2 DEF Process

\* Every step keeps the invariant.
LEMMA NextInv == SphinxInv /\ [Next]_vars => SphinxInv'
<1> SUFFICES ASSUME SphinxInv, [Next]_vars
             PROVE  SphinxInv'
  BY ZenonT(60)
<1>1. CASE NewOnionPacket
  <2>1. SenderInv' /\ NetOK' /\ processed = {} /\ processed' = {}
    BY <1>1, NewOnionPacketInv, NewOnionPacketNet DEF SphinxInv, ProcessedOK
  <2> QED
    BY <2>1 DEF SphinxInv, ProcessedOK
<1>2. ASSUME NEW m \in Node, NEW pkt \in net, NEW d \in AssocData,
             Process(m, pkt, d)
      PROVE  SphinxInv'
  BY <1>2, ProcessInv, SenderStays DEF SphinxInv
<1>3. ASSUME NEW pkt \in net, Damage(pkt)
      PROVE  SphinxInv'
  <2>1. NetOK' /\ UNCHANGED <<route, pc, senderVars, processed>>
    BY <1>3, DamageNet DEF SphinxInv
  <2>2. UNCHANGED <<route, pc, made, processed>>
    BY <2>1 DEF senderVars
  <2>3. ProcessedOK'
    BY <2>2 DEF SphinxInv, ProcessedOK, Hops, numHops
  <2> QED
    BY <2>1, <2>3, SenderStays DEF SphinxInv
<1>4. CASE UNCHANGED vars
  <2>1. UNCHANGED <<route, pc, senderVars, net, processed>>
    BY <1>4 DEF vars
  <2>2. UNCHANGED <<route, made>>
    BY Zenon, <2>1 DEF senderVars
  <2>3. NetOK' /\ ProcessedOK'
    BY <2>1, <2>2 DEF SphinxInv, NetOK, ProcessedOK, Genuine, Hops, numHops
  <2> QED
    BY <2>1, <2>3, SenderStays DEF SphinxInv
<1> QED
  BY <1>1, <1>2, <1>3, <1>4 DEF Next

\* The inductive invariant holds in every reachable state.
THEOREM SphinxInvariant == Spec => []SphinxInv
BY InitInv, NextInv, PTL DEF Spec

\* The sender stays within its loops' bounds, for every route that fits, and only
\* packets with a full header travel.
THEOREM SphinxTypes == Spec => []TypeOK
<1>1. SphinxInv => TypeOK
  <2> SUFFICES ASSUME SphinxInv PROVE TypeOK
    OBVIOUS
  <2>1. NumMaxHops \in Nat /\ numHops \in Nat /\ numHops <= NumMaxHops
    BY RouteFacts DEF SphinxInv, SenderInv, LoopsOK
  <2>2. i \in -1 .. NumMaxHops
    BY <2>1 DEF SphinxInv, SenderInv, LoopsOK
  <2>3. DOMAIN mixHeader = Cells
    BY DEF SphinxInv, SenderInv, LoopsOK
  <2> QED
    BY <2>2, <2>3 DEF SphinxInv, SenderInv, LoopsOK, NetOK, TypeOK
<1> QED
  BY <1>1, SphinxInvariant, PTL

\* However packets are copied, damaged and misdelivered, a node processes without
\* error only a packet the sender made, for that node, and with the sender's
\* associated data.
THEOREM OnlyGenuine == Spec => []OnlyGenuineProcessed
<1>1. SphinxInv => OnlyGenuineProcessed
  BY Zenon DEF SphinxInv, ProcessedOK, OnlyGenuineProcessed
<1> QED
  BY <1>1, SphinxInvariant, PTL

\* The state facts behind HopsGetTheirData, for one record of what was processed.
LEMMA HopData ==
  ASSUME SenderInv, ProcessedOK, NEW r \in processed, NEW k \in Hops, r.pkt = made[k]
  PROVE  /\ r.out.ForwardingInstructions.payload = route.payload[k]
         /\ r.out.Action = IF k = numHops - 1 THEN "ExitNode" ELSE "MoreHops"
         /\ k < numHops - 1 => r.out.NextPacket = made[k + 1]
<1>1. pc = "sent" /\ r.out = ProcessedPacket(r.node, made[k])
  BY DEF ProcessedOK
<1>2. PICK l \in Hops : made[l] = made[k] /\ r.node = route.node[l]
  BY SMTT(30) DEF ProcessedOK
<1>3. secrets[l] = secrets[k] /\ made[l].EphemeralKey = keys[l]
      /\ secrets[l] = SharedSecret({OnionKey(route.node[l])} \cup keys[l])
  <2>1. Mac(secrets[l], made[l].RoutingInfo, route.assocData)
          = Mac(secrets[k], made[k].RoutingInfo, route.assocData)
    BY <1>1, <1>2, SentPackets, ZenonT(60)
  <2>2. secrets[l] = secrets[k]
    BY <2>1, MacIsInjective
  <2> QED
    BY <1>1, <2>2, SentPackets, ZenonT(30)
<1>4. NodeSecret(r.node, made[k]) = secrets[k]
  <2>1. keys[l] \cup {OnionKey(route.node[l])} = {OnionKey(route.node[l])} \cup keys[l]
    OBVIOUS
  <2> QED
    BY <1>2, <1>3, <2>1, Zenon DEF NodeSecret, BlindGroupElement
<1> QED
  BY <1>1, <1>4, Unwrap

\* For a route of any length every hop finds its own payload and the next hop's
\* packet, and the last hop, no other, learns that it is the last.
THEOREM HopsGetData == Spec => []HopsGetTheirData
<1>1. SphinxInv => HopsGetTheirData
  BY HopData DEF SphinxInv, HopsGetTheirData
<1> QED
  BY <1>1, SphinxInvariant, PTL
=============================================================================
