-------------------------------- MODULE Sphinx --------------------------------
(***************************************************************************)
(* An onion packet from NewOnionPacket to its last hop (sphinx.go).        *)
(*                                                                         *)
(* The sender's three loops (shared secrets, filler, header) are one step  *)
(* per iteration.  Then the packet travels: the network holds copies, may  *)
(* deliver any of them to any node, any number of times, with any          *)
(* associated data, and may damage them.  Every node processes what it     *)
(* gets; replays are the business of module Router.                        *)
(***************************************************************************)
EXTENDS Crypto, Integers, FiniteSets

CONSTANTS
  NumMaxHops,    \* cells in a header
  Node,          \* routers
  NoNode,        \* an empty OnionHop
  Payload,       \* the part of a HopData the sender chooses
  AssocData,     \* associated data callers may pass
  Routes,        \* payment paths
  MaxDamaged     \* bound on the damaged copies in the network

Cells == 0 .. NumMaxHops - 1

\* PaymentPath.TrueRouteLength: the first empty hop ends the route, whatever
\* comes after it.
IsTrueRouteLength(n, node) ==
  /\ \A k \in 0 .. n - 1 : node[k] # NoNode
  /\ n < NumMaxHops => node[n] = NoNode

\* A PaymentPath, with its true length, and the associated data.  An empty path
\* is not for NewOnionPacket, which indexes its first hop.
Route == {rt \in [numHops   : 1 .. NumMaxHops,
                  node      : [Cells -> Node \cup {NoNode}],
                  payload   : [Cells -> Payload],
                  assocData : AssocData] :
            IsTrueRouteLength(rt.numHops, rt.node)}

ASSUME SphinxAssumption ==
  /\ NumMaxHops \in Nat \ {0}
  /\ NoNode \notin Node
  /\ Routes \subseteq Route
  /\ MaxDamaged \in Nat

VARIABLES
  route,       \* paymentPath and assocData
  pc,          \* which loop the sender is in
  i,           \* its index
  cached,      \* cachedBlindingFactor, as the set of its factors
  blinding,    \* lastBlindingFactor
  keys,        \* history: lastEphemeralPubKey of every iteration
  secrets,     \* hopSharedSecrets
  filler,      \* filler
  mixHeader,   \* mixHeader
  nextHmac,    \* nextHmac
  made,        \* history: the packet the sender made for every hop
  net,         \* packets in the network
  processed    \* history: what was processed without error, and the outcome

senderVars == <<i, cached, blinding, keys, secrets, filler, mixHeader, nextHmac,
                made>>
vars == <<route, pc, senderVars, net, processed>>

numHops == route.numHops
Hops    == 0 .. numHops - 1

NoSecret == <<"none">>
NoPacket == [EphemeralKey |-> {}, RoutingInfo |-> <<>>, HeaderMAC |-> ZeroHMAC]

Init ==
  /\ route \in Routes
  /\ pc = "secrets"
  /\ i = 0
  /\ cached = {SessionKey("x")}
  /\ blinding = NoSecret
  /\ keys = [k \in Cells |-> {}]
  /\ secrets = [k \in Cells |-> NoSecret]
  /\ filler = [k \in Cells |-> ZeroCell]
  /\ mixHeader = [k \in Cells |-> ZeroCell]
  /\ nextHmac = ZeroHMAC
  /\ made = [k \in Cells |-> NoPacket]
  /\ net = {}
  /\ processed = {}

-----------------------------------------------------------------------------
(***************************************************************************)
(* NewOnionPacket.                                                         *)
(***************************************************************************)

\* Fault: every hop's secret is blinded with the session key only.
KeepFactors == cached

\* The running product c_i at the start of iteration i of generateSharedSecrets;
\* the first triplet is computed outside of the loop, from the session key.
UpdatedFactors == IF i = 0 THEN cached ELSE cached \cup {blinding}

\* Iteration i of generateSharedSecrets: a_i, s_i, and b_i if it is needed.
GenerateSharedSecret ==
  /\ pc = "secrets"
  /\ i < numHops
  /\ LET c == UpdatedFactors
         a == BlindBaseElement(c)
         s == SharedSecret(BlindGroupElement({OnionKey(route.node[i])}, c))
     IN  /\ cached' = c
         /\ keys' = [keys EXCEPT ![i] = a]
         /\ secrets' = [secrets EXCEPT ![i] = s]
         /\ blinding' = IF i = 0 \/ i < numHops - 1 THEN BlindingFactor(a, s)
                                                    ELSE blinding
  /\ i' = i + 1
  /\ UNCHANGED <<route, pc, filler, mixHeader, nextHmac, made, net, processed>>

\* generateHeaderPadding begins: a filler of numHops - 1 zero cells.
BeginPadding ==
  /\ pc = "secrets"
  /\ i = numHops
  /\ pc' = "padding"
  /\ i' = 1
  /\ UNCHANGED <<route, cached, blinding, keys, secrets, filler, mixHeader,
                 nextHmac, made, net, processed>>

\* Fault: the slice of the key stream begins one cell early.
EarlyFillerSize(k) == NumMaxHops - k

\* totalFillerSize of iteration k, in cells.
TotalFillerSize(k) == (NumMaxHops - k) + 1

\* Iteration i of generateHeaderPadding.
GenerateHeaderPadding ==
  /\ pc = "padding"
  /\ i < numHops
  /\ filler' = [j \in Cells |->
                  IF j < i
                  THEN Xor(filler[j], Stream(secrets[i - 1], TotalFillerSize(i) + j))
                  ELSE filler[j]]
  /\ i' = i + 1
  /\ UNCHANGED <<route, pc, cached, blinding, keys, secrets, mixHeader,
                 nextHmac, made, net, processed>>

\* The header loop begins, with the last hop.
BeginHeader ==
  /\ pc = "padding"
  /\ i = numHops
  /\ pc' = "header"
  /\ i' = numHops - 1
  /\ UNCHANGED <<route, cached, blinding, keys, secrets, filler, mixHeader,
                 nextHmac, made, net, processed>>

\* rightShift by one cell, with the hop's data copied into the gap.
Shifted(hopData) ==
  [k \in Cells |-> IF k = 0 THEN Encode(hopData) ELSE mixHeader[k - 1]]

\* The header of the last hop ends in the filler.
WithFillerTail(header) ==
  [k \in Cells |-> IF k < NumMaxHops - (numHops - 1)
                   THEN header[k] ELSE filler[k - (NumMaxHops - (numHops - 1))]]

\* Iteration i of the header loop of NewOnionPacket.
BuildHeader ==
  /\ pc = "header"
  /\ i >= 0
  /\ LET shifted == Shifted([payload |-> route.payload[i], HMAC |-> nextHmac])
         xored   == [k \in Cells |-> Xor(shifted[k], Stream(secrets[i], k))]
         header  == IF i = numHops - 1 THEN WithFillerTail(xored) ELSE xored
         mac     == Mac(secrets[i], header, route.assocData)
     IN  /\ mixHeader' = header
         /\ nextHmac' = mac
         /\ made' = [made EXCEPT ![i] = [EphemeralKey |-> keys[i],
                                         RoutingInfo  |-> header,
                                         HeaderMAC    |-> mac]]
  /\ i' = i - 1
  /\ UNCHANGED <<route, pc, cached, blinding, keys, secrets, filler, net,
                 processed>>

\* NewOnionPacket returns, and the packet is sent.
Send ==
  /\ pc = "header"
  /\ i = -1
  /\ pc' = "sent"
  /\ net' = {[EphemeralKey |-> BlindBaseElement({SessionKey("x")}),
              RoutingInfo  |-> mixHeader,
              HeaderMAC    |-> nextHmac]}
  /\ UNCHANGED <<route, senderVars, processed>>

-----------------------------------------------------------------------------
(***************************************************************************)
(* The routers and the network.                                            *)
(***************************************************************************)

\* Router.generateSharedSecret at node m.
NodeSecret(m, pkt) ==
  SharedSecret(BlindGroupElement(pkt.EphemeralKey, {OnionKey(m)}))

\* Neither ErrInvalidOnionKey nor ErrInvalidOnionHMAC.
Accepts(m, pkt, assocData) ==
  /\ IsOnCurve(pkt.EphemeralKey)
  /\ pkt.HeaderMAC = Mac(NodeSecret(m, pkt), pkt.RoutingInfo, assocData)

\* unwrapPacket: the header, padded with a zero cell, decrypted.
HopInfo(secret, pkt) ==
  [k \in 0 .. NumMaxHops |->
     Xor(IF k < NumMaxHops THEN pkt.RoutingInfo[k] ELSE ZeroCell,
         Stream(secret, k))]

\* Fault: the extra cell is not cut off.
InnerPacketUncut(secret, pkt) ==
  LET hopInfo == HopInfo(secret, pkt)
  IN  [EphemeralKey |-> BlindGroupElement(pkt.EphemeralKey,
                          {BlindingFactor(pkt.EphemeralKey, secret)}),
       RoutingInfo  |-> hopInfo,
       HeaderMAC    |-> Decode(hopInfo[0]).HMAC]

\* unwrapPacket: the packet for the next hop.
InnerPacket(secret, pkt) ==
  LET hopInfo == HopInfo(secret, pkt)
  IN  [EphemeralKey |-> BlindGroupElement(pkt.EphemeralKey,
                          {BlindingFactor(pkt.EphemeralKey, secret)}),
       RoutingInfo  |-> [k \in Cells |-> hopInfo[k + 1]],
       HeaderMAC    |-> Decode(hopInfo[0]).HMAC]

\* processOnionPacket: the last hop finds an HMAC of zeroes.
ActionOf(hopData) == IF hopData.HMAC = ZeroHMAC THEN "ExitNode" ELSE "MoreHops"

\* processOnionPacket: both fields are set, whatever the action.
ProcessedPacket(m, pkt) ==
  LET secret  == NodeSecret(m, pkt)
      hopData == Decode(HopInfo(secret, pkt)[0])
  IN  [Action                 |-> ActionOf(hopData),
       ForwardingInstructions |-> hopData,
       NextPacket             |-> InnerPacket(secret, pkt)]

\* Node m processes a packet; if there are more hops, its caller forwards it.
Process(m, pkt, assocData) ==
  /\ pkt \in net
  /\ \/ /\ ~Accepts(m, pkt, assocData)
        /\ UNCHANGED vars
     \/ /\ Accepts(m, pkt, assocData)
        /\ LET out == ProcessedPacket(m, pkt)
           IN  /\ processed' = processed \cup
                    {[node |-> m, pkt |-> pkt, assocData |-> assocData,
                      out  |-> out]}
               /\ net' = IF out.Action = "MoreHops"
                         THEN net \cup {out.NextPacket} ELSE net
        /\ UNCHANGED <<route, pc, senderVars>>

\* The packets of this onion, as the sender made them.
Genuine == {made[k] : k \in Hops}

Noise == <<"noise">>

\* A copy of a packet gets damaged on its way: in a cell of the header, in the
\* MAC, or in the key, which may or may not stay on the curve.
Damage(pkt) ==
  /\ pkt \in net \cap Genuine
  /\ Cardinality(net \ Genuine) < MaxDamaged
  /\ \/ \E k \in Cells :
          net' = net \cup {[pkt EXCEPT !.RoutingInfo[k] = Xor(@, {Noise})]}
     \/ net' = net \cup {[pkt EXCEPT !.HeaderMAC = Noise]}
     \/ \E P \in {OffCurve, BlindBaseElement({SessionKey("other")})} :
          net' = net \cup {[pkt EXCEPT !.EphemeralKey = P]}
  /\ UNCHANGED <<route, pc, senderVars, processed>>

NewOnionPacket ==
  \/ GenerateSharedSecret
  \/ BeginPadding
  \/ GenerateHeaderPadding
  \/ BeginHeader
  \/ BuildHeader
  \/ Send

Next ==
  \/ NewOnionPacket
  \/ \E m \in Node, pkt \in net, d \in AssocData : Process(m, pkt, d)
  \/ \E pkt \in net : Damage(pkt)

Spec == Init /\ [][Next]_vars

\* The sender's loops run, and the network delivers every undamaged packet to
\* the node it is for, with the sender's associated data.
Fairness ==
  /\ WF_vars(NewOnionPacket)
  /\ \A k \in Cells :
       WF_vars(k \in Hops /\ Process(route.node[k], made[k], route.assocData))

FairSpec == Spec /\ Fairness

-----------------------------------------------------------------------------
\* The sender works through its loops within their bounds, and only packets
\* with a full header travel.
TypeOK ==
  /\ route \in Routes
  /\ pc \in {"secrets", "padding", "header", "sent"}
  /\ i \in -1 .. NumMaxHops
  /\ \A pkt \in net : DOMAIN pkt.RoutingInfo = Cells
  /\ DOMAIN mixHeader = Cells

\* A packet is processed without error only if it is one the sender made, by the
\* node the sender made it for, and with the sender's associated data.
OnlyGenuineProcessed ==
  \A r \in processed :
    /\ r.assocData = route.assocData
    /\ \E k \in Hops : r.pkt = made[k] /\ r.node = route.node[k]

\* A hop that processes its packet finds the payload the sender chose for it, the
\* packet the sender made for the next hop, with the padding of the header in
\* place, and learns that it is the last hop exactly when it is.
\* The last hop's payload is included: processOnionPacket hands it out, and
\* TestSphinxCorrectness compares it, although the comment of the field
\* ForwardingInstructions says that it is populated for MoreHops only.
HopsGetTheirData ==
  \A r \in processed, k \in Hops :
    r.pkt = made[k] =>
      /\ r.out.ForwardingInstructions.payload = route.payload[k]
      /\ r.out.Action = IF k = numHops - 1 THEN "ExitNode" ELSE "MoreHops"
      /\ k < numHops - 1 => r.out.NextPacket = made[k + 1]

\* Every hop of the route eventually processes its packet.
EveryHopIsReached ==
  \A k \in Cells :
    <>(k \in Hops => \E r \in processed : pc = "sent" /\ r.pkt = made[k])
=============================================================================
