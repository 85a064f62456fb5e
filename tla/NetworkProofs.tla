----------------------------- MODULE NetworkProofs -----------------------------
(***************************************************************************)
(* Proofs about Network, for any nodes and routes and any number of        *)
(* crashes and damaged copies: a packet is acted on at most once, and only *)
(* the packets that were accepted take a place in a replay log.            *)
(***************************************************************************)
EXTENDS Network, SphinxProofs

-----------------------------------------------------------------------------
(***************************************************************************)
(* The inductive invariant.                                                *)
(***************************************************************************)

\* The packet a node handles is one the sender made for that node.
Handles(m, r) ==
  /\ r = [pkt |-> r.pkt, assocData |-> route.assocData]
  /\ \E k \in Hops : r.pkt = made[k] /\ m = route.node[k]

\* A call for the packet of hop k is yet to return.
IsPending(k) == \E r \in pending[route.node[k]] : r.pkt = made[k]

\* The replay log of hop k's node knows the packet of hop k.
IsLogged(k) == HashSharedSecret(secrets[k]) \in log[route.node[k]]

\* The nodes' variables have their shapes, and are empty until the onion is sent.
NodesOK ==
  /\ log = [m \in Node |-> log[m]]
  /\ pending = [m \in Node |-> pending[m]]
  /\ kept = [m \in Node |-> kept[m]]
  /\ acts \in [Cells -> Nat]
  /\ \A m \in Node : \A r \in pending[m] \cup kept[m] : Handles(m, r)
  /\ pc # "sent" =>
       /\ \A m \in Node : log[m] = {} /\ pending[m] = {} /\ kept[m] = {}
       /\ \A k \in Cells : acts[k] = 0

\* The log knows a packet before its caller does, and the caller gets it once: a
\* call that is yet to return is the first for its hop.
OnceOK ==
  /\ \A k \in Cells : acts[k] > 0 => k \in Hops
  /\ pc = "sent" =>
       \A k \in Hops :
         /\ acts[k] <= 1
         /\ acts[k] = 1 => IsLogged(k)
         /\ IsPending(k) => IsLogged(k) /\ acts[k] = 0

NetInv ==
  /\ SenderInv
  /\ NetOK
  /\ ProcessedOK
  /\ NodesOK
  /\ OnceOK
  /\ LoggedWereAccepted

-----------------------------------------------------------------------------
(***************************************************************************)
(* Lemmas.                                                                 *)
(***************************************************************************)

\* No two hops have the same ephemeral key, even when they are the same node.
LEMMA KeysDiffer ==
  ASSUME SenderInv, pc = "sent", NEW k \in Hops, NEW l \in Hops, keys[k] = keys[l]
  PROVE  k = l
<1>1. numHops \in Nat /\ Known = numHops
  BY RouteFacts DEF SenderInv, LoopsOK, Known
<1>2. ASSUME NEW a \in Hops, NEW b \in Hops, a < b
      PROVE  keys[a] # keys[b]
  <2>1. b \in 0 .. Known - 1 /\ a \in 0 .. b - 1
    BY <1>1, <1>2 DEF Hops
  <2> QED
    BY <2>1, Zenon DEF SenderInv, KeysOK
<1>3. k < l \/ l < k \/ k = l
  BY <1>1 DEF Hops
<1> QED
  BY <1>2, <1>3

\* So neither their shared secrets, nor the prefixes of these, nor their packets
\* are the same.
LEMMA SecretsDiffer ==
  ASSUME SenderInv, pc = "sent", NEW k \in Hops, NEW l \in Hops,
         secrets[k] = secrets[l] \/ made[k] = made[l]
         \/ HashSharedSecret(secrets[k]) = HashSharedSecret(secrets[l])
  PROVE  k = l
<1>1. CASE made[k] = made[l]
  <2>1. made[k].EphemeralKey = keys[k] /\ made[l].EphemeralKey = keys[l]
    BY SentPackets, Zenon
  <2> QED
    BY <1>1, <2>1, KeysDiffer
<1>2. CASE secrets[k] = secrets[l]
  <2>1. SharedSecret({OnionKey(route.node[k])} \cup keys[k])
          = SharedSecret({OnionKey(route.node[l])} \cup keys[l])
    BY Zenon, <1>2, SentPackets
  <2>2. {OnionKey(route.node[k])} \cup keys[k] = {OnionKey(route.node[l])} \cup keys[l]
    BY <2>1, Tags, Zenon
  <2>3. /\ \A m : OnionKey(m) \notin keys[k]
        /\ \A m : OnionKey(m) \notin keys[l]
    BY SentPackets, Zenon
  <2>4. keys[k] = keys[l]
    BY <2>2, <2>3
  <2> QED
    BY <2>4, KeysDiffer
<1>3. CASE HashSharedSecret(secrets[k]) = HashSharedSecret(secrets[l])
  BY <1>2, <1>3 DEF HashSharedSecret
<1> QED
  BY <1>1, <1>2, <1>3

\* A packet is the packet of one hop.
LEMMA HopsOfMade ==
  ASSUME SenderInv, pc = "sent", NEW k \in Hops
  PROVE  HopsOf(made[k]) = {k}
BY SecretsDiffer DEF HopsOf

\* A node has the key stream of a packet that it handles.
LEMMA HandledSecret ==
  ASSUME SenderInv, pc = "sent", NEW k \in Hops
  PROVE  NodeSecret(route.node[k], made[k]) = secrets[k]
<1>1. keys[k] \cup {OnionKey(route.node[k])} = {OnionKey(route.node[k])} \cup keys[k]
  OBVIOUS
<1> QED
  BY <1>1, SentPackets, Zenon DEF NodeSecret, BlindGroupElement

-----------------------------------------------------------------------------
(***************************************************************************)
(* The steps.                                                              *)
(***************************************************************************)

\* The invariant holds at the start, when all logs are empty.
LEMMA NetInitInv == NetInit => NetInv
<1> SUFFICES ASSUME NetInit PROVE NetInv
  OBVIOUS
<1>1. SphinxInv
  BY InitInv DEF NetInit
<1>2. NodesOK
  BY DEF NetInit, Init, NodesOK
<1>3. OnceOK /\ LoggedWereAccepted
  BY DEF NetInit, Init, OnceOK, LoggedWereAccepted
<1> QED
  BY <1>1, <1>2, <1>3 DEF SphinxInv, NetInv

\* The sender works while the nodes are idle.
LEMMA BuildInv ==
  ASSUME NetInv, Build
  PROVE  NetInv'
<1>1. NewOnionPacket /\ UNCHANGED <<log, pending, kept, acts, lost, crashes>>
  BY DEF Build, nodeVars
<1>2. SenderInv' /\ NetOK' /\ UNCHANGED processed /\ pc # "sent"
  BY <1>1, NewOnionPacketInv, NewOnionPacketNet DEF NetInv
<1>3. processed = {} /\ ProcessedOK'
  BY <1>2 DEF NetInv, ProcessedOK
<1>4. /\ \A m \in Node : log[m] = {} /\ pending[m] = {} /\ kept[m] = {}
      /\ \A k \in Cells : acts[k] = 0
  BY <1>2 DEF NetInv, NodesOK
<1>5. NodesOK'
  BY <1>1, <1>4 DEF NetInv, NodesOK
<1>6. route' \in Routes
  BY <1>2 DEF SenderInv, LoopsOK
<1>7. \A k \in Hops' : route'.node[k] \in Node /\ k \in Cells
  <2>1. UNCHANGED route
    BY Zenon, <1>1 DEF NewOnionPacket, GenerateSharedSecret, BeginPadding,
                GenerateHeaderPadding, BeginHeader, BuildHeader, Send
  <2> QED
    BY ZenonT(60), <1>6, <2>1, RouteFacts DEF Hops, numHops
<1>8. OnceOK'
  BY <1>1, <1>4, <1>7 DEF OnceOK, IsPending, IsLogged
<1>9. LoggedWereAccepted'
  BY <1>1, <1>4, <1>7 DEF LoggedWereAccepted
<1> QED
  BY Zenon, <1>2, <1>3, <1>5, <1>8, <1>9 DEF NetInv

\* Damage and forwarding change the network only.
LEMMA NetOnlyInv ==
  ASSUME NetInv, UNCHANGED <<route, pc, senderVars, processed, nodeVars>>, NetOK'
  PROVE  NetInv'
<1>1. UNCHANGED <<route, pc, made, secrets, processed, log, pending, kept, acts,
                  lost, crashes>>
  BY DEF senderVars, nodeVars
<1>2. SenderInv'
  BY SenderStays DEF NetInv
<1>3. ProcessedOK'
  BY <1>1 DEF NetInv, ProcessedOK, Hops, numHops
<1>4. NodesOK'
  BY <1>1 DEF NetInv, NodesOK, Handles, Hops, numHops
<1>5. OnceOK'
  BY <1>1 DEF NetInv, OnceOK, IsLogged, IsPending, Hops, numHops
<1>6. LoggedWereAccepted'
  BY ZenonT(60), <1>1 DEF NetInv, LoggedWereAccepted, Hops, numHops
<1> QED
  BY <1>2, <1>3, <1>4, <1>5, <1>6 DEF NetInv

\* The steps of a node leave the sender, and so the hops, as they are.
LEMMA NodeStepFacts ==
  ASSUME NetInv, UNCHANGED <<route, pc, senderVars>>
  PROVE  /\ SenderInv'
         /\ UNCHANGED <<route, pc, made, secrets>>
         /\ Hops' = Hops
         /\ Hops \subseteq Cells
         /\ \A k \in Hops : route.node[k] \in Node
BY Zenon, SenderStays, RouteFacts DEF NetInv, SenderInv, LoopsOK, senderVars, Hops, numHops

\* The numbers the count of a hop's successes takes.
LEMMA ActCounts == (\A n : n = 0 => n + 1 = 1) /\ 1 <= 1 /\ 1 > 0 /\ 1 # 0
OBVIOUS

\* A packet that is accepted and new is logged, and its call is yet to return.
LEMMA ProcessOnionPacketInv ==
  ASSUME NetInv, NEW m \in Node, NEW pkt \in net, NEW d \in AssocData,
         ProcessOnionPacket(m, pkt, d), ~ UNCHANGED netVars
  PROVE  NetInv'
<1>1. PICK h : h = HashSharedSecret(NodeSecret(m, pkt))
  OBVIOUS
<1>2. PICK r : r = [pkt |-> pkt, assocData |-> d]
  BY Zenon
<1>3. /\ Accepts(m, pkt, d)
      /\ h \notin log[m]
      /\ log' = [log EXCEPT ![m] = @ \cup {h}]
      /\ pending' = [pending EXCEPT ![m] = @ \cup {r}]
      /\ UNCHANGED <<vars, kept, acts, lost, crashes>>
  BY <1>1, <1>2 DEF ProcessOnionPacket, ReachesLog, IsNew
<1>4. UNCHANGED <<route, pc, senderVars, net, processed>>
  BY Zenon, <1>3 DEF vars
<1>5. PICK l \in Hops : /\ pkt = made[l]
                        /\ m = route.node[l]
                        /\ NodeSecret(m, pkt) = secrets[l]
  BY Zenon, <1>3, AcceptedIsGenuine DEF NetInv
<1>6. pc = "sent" /\ d = route.assocData
  BY ZenonT(60), <1>3, AcceptedIsGenuine DEF NetInv
<1>7. h = HashSharedSecret(secrets[l]) /\ r.pkt = made[l]
      /\ r = [pkt |-> r.pkt, assocData |-> route.assocData]
  BY <1>1, <1>2, <1>5, <1>6
<1>8. /\ SenderInv'
      /\ UNCHANGED <<route, pc, made, secrets>>
      /\ Hops' = Hops /\ Hops \subseteq Cells
      /\ \A k \in Hops : route.node[k] \in Node
  BY <1>4, NodeStepFacts
<1>9. /\ log' = [n \in Node |-> log'[n]]
      /\ pending' = [n \in Node |-> pending'[n]]
      /\ \A n \in Node : log'[n] = IF n = m THEN log[n] \cup {h} ELSE log[n]
      /\ \A n \in Node : pending'[n] = IF n = m THEN pending[n] \cup {r} ELSE pending[n]
  BY <1>3, Zenon DEF NetInv, NodesOK
<1>10. NetOK' /\ ProcessedOK'
  BY <1>4, <1>8 DEF NetInv, NetOK, ProcessedOK, Genuine
<1>11. NodesOK'
  <2>1. Handles(m, r)
    BY <1>5, <1>7 DEF Handles
  <2>2. \A n \in Node : \A q \in pending'[n] \cup kept[n] : Handles(n, q)
    BY <1>9, <2>1 DEF NetInv, NodesOK
  <2>3. \A n \in Node : \A q \in pending'[n] \cup kept'[n] : Handles(n, q)'
    BY <1>3, <1>8, <2>2 DEF Handles
  <2> QED
    BY <1>3, <1>6, <1>8, <1>9, <2>3, ZenonT(60) DEF NetInv, NodesOK
<1>12. ASSUME NEW k \in Hops
       PROVE  /\ IsLogged(k)' <=> IsLogged(k) \/ k = l
              /\ IsPending(k)' <=> IsPending(k) \/ k = l
  <2>1. h = HashSharedSecret(secrets[k]) => k = l
    BY <1>6, <1>7, SecretsDiffer, Zenon DEF NetInv
  <2>2. r.pkt = made[k] => k = l
    <3>1. SUFFICES ASSUME r.pkt = made[k] PROVE k = l
      BY Zenon
    <3>2. SenderInv /\ made[k] = made[l]
      BY <1>7, <3>1, ZenonT(60) DEF NetInv
    <3> QED
      BY <1>6, <3>2, SecretsDiffer, Zenon
  <2>3. IsLogged(k)' <=> IsLogged(k) \/ k = l
    BY ZenonT(60), <1>5, <1>7, <1>8, <1>9, <2>1 DEF IsLogged
  <2>4. IsPending(k)' <=> IsPending(k) \/ k = l
    <3>1. PICK n : n = route.node[k] /\ n \in Node /\ n = route'.node[k]
      BY <1>8, Zenon
    <3>2. made' = made
      BY <1>8
    <3>3. IsPending(k) <=> \E q \in pending[n] : q.pkt = made[k]
      BY <3>1, Zenon DEF IsPending
    <3>4. IsPending(k)' <=> \E q \in pending'[n] : q.pkt = made[k]
      BY <3>1, <3>2, Zenon DEF IsPending
    <3>5. \A q : q \in pending'[n] <=> q \in pending[n] \/ (n = m /\ q = r)
      BY <1>9, <3>1
    <3>6. k = l => n = m /\ r.pkt = made[k]
      BY <1>5, <1>7, <3>1, ZenonT(60)
    <3> QED
      BY <2>2, <3>3, <3>4, <3>5, <3>6, Zenon
  <2> QED
    BY <2>3, <2>4
<1>13. ~IsLogged(l)
  BY Zenon, <1>3, <1>5, <1>7 DEF IsLogged
<1>14. acts[l] = 0
  BY <1>6, <1>8, <1>13 DEF NetInv, NodesOK, OnceOK
<1>15. OnceOK'
  BY Zenon, <1>3, <1>6, <1>8, <1>12, <1>14 DEF NetInv, OnceOK
<1>16. LoggedWereAccepted'
  <2>1. \A k \in Hops : IsLogged(k)' => acts[k] > 0 \/ k \in lost \/ IsPending(k)'
    BY Zenon, <1>6, <1>12 DEF NetInv, LoggedWereAccepted, IsLogged, IsPending
  <2> QED
    BY Zenon, <1>3, <1>8, <2>1 DEF LoggedWereAccepted, IsLogged, IsPending
<1> QED
  BY Zenon, <1>8, <1>10, <1>11, <1>15, <1>16 DEF NetInv

\* The return of a call hands over a packet that nobody had before.
LEMMA ProcessReturnInv ==
  ASSUME NetInv, NEW m \in Node, NEW r \in pending[m], ProcessReturn(m, r)
  PROVE  NetInv'
<1>1. /\ pending' = [pending EXCEPT ![m] = @ \ {r}]
      /\ kept' = [kept EXCEPT ![m] = @ \cup {r}]
      /\ acts' = [k \in Cells |-> IF k \in HopsOf(r.pkt) THEN acts[k] + 1 ELSE acts[k]]
      /\ UNCHANGED <<route, pc, senderVars, net, log, lost, crashes>>
  BY DEF ProcessReturn
<1>2. pc = "sent" /\ Handles(m, r)
  BY DEF NetInv, NodesOK
<1>3. PICK l \in Hops : r.pkt = made[l] /\ m = route.node[l]
  BY Zenon, <1>2 DEF Handles
<1>4. r = [pkt |-> made[l], assocData |-> route.assocData]
  BY ZenonT(60), <1>2, <1>3 DEF Handles
<1>5. /\ SenderInv'
      /\ UNCHANGED <<route, pc, made, secrets>>
      /\ Hops' = Hops /\ Hops \subseteq Cells
      /\ \A k \in Hops : route.node[k] \in Node
  BY <1>1, NodeStepFacts
<1>6. /\ pending' = [n \in Node |-> pending'[n]]
      /\ kept' = [n \in Node |-> kept'[n]]
      /\ \A n \in Node : pending'[n] = IF n = m THEN pending[n] \ {r} ELSE pending[n]
      /\ \A n \in Node : kept'[n] = IF n = m THEN kept[n] \cup {r} ELSE kept[n]
  BY <1>1, Zenon DEF NetInv, NodesOK
<1>7. acts' = [k \in Cells |-> IF k = l THEN acts[k] + 1 ELSE acts[k]]
      /\ acts' \in [Cells -> Nat]
  <2>1. HopsOf(r.pkt) = {l}
    BY <1>2, <1>3, HopsOfMade DEF NetInv
  <2> QED
    BY <1>1, <2>1 DEF NetInv, NodesOK
<1>8. NetOK'
  BY ZenonT(60), <1>1, <1>5 DEF NetInv, NetOK, Genuine
<1>9. ProcessedOK'
  <2>1. PICK rec : rec = [node |-> m, pkt |-> r.pkt, assocData |-> r.assocData,
                          out |-> ProcessedPacket(m, r.pkt)]
    BY Zenon
  <2>2. processed' = processed \cup {rec}
    BY ZenonT(60), <2>1 DEF ProcessReturn
  <2>3. /\ rec.assocData = route.assocData
        /\ rec.out = ProcessedPacket(rec.node, rec.pkt)
        /\ rec.pkt = made[l] /\ rec.node = route.node[l]
    BY <1>3, <1>4, <2>1
  <2> QED
    BY <1>2, <1>5, <2>2, <2>3 DEF NetInv, ProcessedOK
<1>10. NodesOK'
  <2>1. \A n \in Node : \A q \in pending'[n] \cup kept'[n] : Handles(n, q)
    BY <1>2, <1>6 DEF NetInv, NodesOK
  <2>2. \A n \in Node : \A q \in pending'[n] \cup kept'[n] : Handles(n, q)'
    BY <1>5, <2>1 DEF Handles
  <2> QED
    <3>1. NodesOK
      BY Zenon DEF NetInv
    <3> QED
      BY <1>1, <1>2, <1>5, <1>6, <1>7, <2>2, <3>1, ZenonT(60) DEF NodesOK
<1>11. IsPending(l)
  BY <1>3 DEF IsPending
<1>12. ~IsPending(l)'
  <2> SUFFICES ASSUME NEW q \in pending'[route.node[l]], q.pkt = made[l]
               PROVE  FALSE
    BY <1>5 DEF IsPending
  <2>1. q \in pending[m] /\ q # r
    BY Zenon, <1>3, <1>6
  <2>2. Handles(m, q)
    BY <2>1 DEF NetInv, NodesOK
  <2>3. q = [pkt |-> made[l], assocData |-> route.assocData]
    BY Zenon, <2>2 DEF Handles
  <2> QED
    BY Zenon, <1>4, <2>1, <2>3
<1>13. ASSUME NEW k \in Hops, k # l
       PROVE  IsPending(k)' <=> IsPending(k)
  <2>1. r.pkt # made[k]
    BY ZenonT(60), <1>2, <1>3, <1>13, SecretsDiffer DEF NetInv
  <2> QED
    BY <1>5, <1>6, <2>1 DEF IsPending
<1>14. \A k \in Hops : IsLogged(k)' <=> IsLogged(k)
  BY Zenon, <1>1, <1>5 DEF IsLogged
<1>15. acts[l] = 0 /\ IsLogged(l)
  BY ZenonT(60), <1>2, <1>11 DEF NetInv, OnceOK
<1>16. acts'[l] = 1 /\ \A k \in Cells \ {l} : acts'[k] = acts[k]
  <2>1. acts[l] + 1 = 1
    BY <1>15, ActCounts, Zenon
  <2> QED
    BY <1>5, <1>7, <2>1, Zenon
<1>17. OnceOK'
  <2>1. \A k \in Cells : acts'[k] > 0 => k \in Hops
    BY ZenonT(60), <1>16 DEF NetInv, OnceOK
  <2>2. \A k \in Hops : /\ acts'[k] <= 1
                        /\ acts'[k] = 1 => IsLogged(k)'
                        /\ IsPending(k)' => IsLogged(k)' /\ acts'[k] = 0
    BY <1>2, <1>5, <1>12, <1>13, <1>14, <1>15, <1>16, ActCounts, ZenonT(60)
    DEF NetInv, OnceOK
  <2> QED
    BY Zenon, <1>5, <2>1, <2>2 DEF OnceOK
<1>18. LoggedWereAccepted'
  <2>1. \A k \in Hops :
          IsLogged(k)' => acts'[k] > 0 \/ k \in lost \/ IsPending(k)'
    <3>1. \A k \in Hops : IsLogged(k) => acts[k] > 0 \/ k \in lost \/ IsPending(k)
      BY <1>2, ZenonT(60) DEF NetInv, LoggedWereAccepted, IsLogged, IsPending
    <3> QED
      BY <1>5, <1>13, <1>14, <1>16, <3>1, ActCounts, ZenonT(60)
  <2> QED
    BY ZenonT(60), <1>1, <1>5, <2>1 DEF LoggedWereAccepted, IsLogged, IsPending
<1> QED
  BY ZenonT(60), <1>5, <1>8, <1>9, <1>10, <1>17, <1>18 DEF NetInv

\* A caller forwards what the sender made for the next hop.
LEMMA ForwardInv ==
  ASSUME NetInv, NEW m \in Node, NEW r \in kept[m], Forward(m, r)
  PROVE  NetInv'
<1>1. PICK out : out = ProcessedPacket(m, r.pkt)
  BY ZenonT(60)
<1>2. /\ out.Action = "MoreHops"
      /\ net' = net \cup {out.NextPacket}
      /\ UNCHANGED <<route, pc, senderVars, processed, nodeVars>>
  BY <1>1 DEF Forward
<1>3. pc = "sent" /\ Handles(m, r)
  BY DEF NetInv, NodesOK
<1>4. PICK l \in Hops : r.pkt = made[l] /\ m = route.node[l]
  BY <1>3 DEF Handles
<1>5. NodeSecret(m, made[l]) = secrets[l]
  BY Zenon, <1>3, <1>4, HandledSecret DEF NetInv
<1>6. out.NextPacket \in Genuine /\ DOMAIN (out.NextPacket).RoutingInfo = Cells
  BY Zenon, <1>1, <1>2, <1>3, <1>4, <1>5, ForwardedIsGenuine DEF NetInv
<1>7. UNCHANGED <<route, pc, made>>
  BY ZenonT(60), <1>2 DEF senderVars
<1>8. NetOK'
  BY <1>2, <1>3, <1>6, <1>7 DEF NetInv, NetOK, Genuine, Hops, numHops
<1> QED
  BY <1>2, <1>8, NetOnlyInv

\* A crash loses the calls that are yet to return, and nothing that was logged.
LEMMA CrashInv ==
  ASSUME NetInv, NEW m \in Node, Crash(m)
  PROVE  NetInv'
<1>1. /\ lost' = lost \cup UNION {HopsOf(r.pkt) : r \in pending[m]}
      /\ pending' = [pending EXCEPT ![m] = {}]
      /\ UNCHANGED <<route, pc, senderVars, net, processed, log, kept, acts>>
  BY DEF Crash, vars
<1>2. /\ SenderInv'
      /\ UNCHANGED <<route, pc, made, secrets>>
      /\ Hops' = Hops /\ Hops \subseteq Cells
      /\ \A k \in Hops : route.node[k] \in Node
  BY <1>1, NodeStepFacts
<1>3. /\ pending' = [n \in Node |-> pending'[n]]
      /\ \A n \in Node : pending'[n] = IF n = m THEN {} ELSE pending[n]
  BY <1>1, Zenon DEF NetInv, NodesOK
<1>4. NetOK' /\ ProcessedOK'
  BY ZenonT(60), <1>1, <1>2 DEF NetInv, NetOK, ProcessedOK, Genuine
<1>5. NodesOK'
  <2>1. \A n \in Node : \A q \in pending'[n] \cup kept'[n] : Handles(n, q)
    BY Zenon, <1>1, <1>3 DEF NetInv, NodesOK
  <2>2. \A n \in Node : \A q \in pending'[n] \cup kept'[n] : Handles(n, q)'
    BY <1>2, <2>1 DEF Handles
  <2>3. pc # "sent" => \A n \in Node : pending'[n] = {}
    BY <1>3 DEF NetInv, NodesOK
  <2> QED
    BY <1>1, <1>2, <1>3, <2>2, <2>3 DEF NetInv, NodesOK
<1>6. \A k \in Hops : /\ IsLogged(k)' <=> IsLogged(k)
                      /\ IsPending(k)' => IsPending(k)
  BY ZenonT(60), <1>1, <1>2, <1>3 DEF IsLogged, IsPending
<1>7. OnceOK'
  BY <1>1, <1>2, <1>6 DEF NetInv, OnceOK
<1>8. ASSUME NEW k \in Hops, IsPending(k)
      PROVE  IsPending(k)' \/ k \in lost'
  <2>1. CASE route.node[k] = m
    <3>1. PICK r \in pending[m] : r.pkt = made[k]
      BY <1>8, <2>1 DEF IsPending
    <3>2. k \in HopsOf(r.pkt)
      BY <3>1 DEF HopsOf
    <3> QED
      BY ZenonT(60), <1>1, <3>2
  <2>2. CASE route.node[k] # m
    BY ZenonT(60), <1>2, <1>3, <1>8, <2>2 DEF IsPending
  <2> QED
    BY <2>1, <2>2
<1>9. LoggedWereAccepted'
  <2>1. lost \subseteq lost'
    BY ZenonT(60), <1>1
  <2>2. ASSUME pc = "sent", NEW k \in Hops, IsLogged(k)
        PROVE  acts[k] > 0 \/ k \in lost' \/ IsPending(k)'
    BY Zenon, <1>8, <2>1, <2>2 DEF NetInv, LoggedWereAccepted, IsLogged, IsPending
  <2>3. pc = "sent" => \A k \in Hops :
          IsLogged(k)' => acts[k] > 0 \/ k \in lost' \/ IsPending(k)'
    BY ZenonT(60), <1>6, <2>2
  <2> QED
    BY <1>1, <1>2, <2>3 DEF LoggedWereAccepted, IsLogged, IsPending
<1> QED
  BY Zenon, <1>2, <1>4, <1>5, <1>7, <1>9 DEF NetInv

\* Every step keeps the invariant.
LEMMA NetNextInv == NetInv /\ [NetNext]_netVars => NetInv'
<1> SUFFICES ASSUME NetInv, [NetNext]_netVars
             PROVE  NetInv'
  OBVIOUS
<1>1. CASE UNCHANGED netVars
  <2>1. UNCHANGED <<route, pc, senderVars, processed, nodeVars, net>>
    BY <1>1 DEF netVars, vars
  <2>2. UNCHANGED <<route, pc, made>>
    BY ZenonT(60), <2>1 DEF senderVars
  <2>3. NetOK'
    BY <2>1, <2>2 DEF NetInv, NetOK, Genuine, Hops, numHops
  <2> QED
    BY <2>1, <2>3, NetOnlyInv
<1>2. ASSUME NEW pkt \in net, Damage(pkt), UNCHANGED nodeVars
      PROVE  NetInv'
  <2>1. NetOK' /\ UNCHANGED <<route, pc, senderVars, processed>>
    BY <1>2, DamageNet DEF NetInv
  <2> QED
    BY <1>2, <2>1, NetOnlyInv
<1>3. ASSUME NEW m \in Node, NEW pkt \in net, NEW d \in AssocData,
             ProcessOnionPacket(m, pkt, d)
      PROVE  NetInv'
  BY <1>1, <1>3, ProcessOnionPacketInv
<1> QED
  BY Zenon, <1>1, <1>2, <1>3, BuildInv, ProcessReturnInv, ForwardInv, CrashInv
     DEF NetNext

\* The inductive invariant holds in every reachable state.
THEOREM NetInvariant == NetSpec => []NetInv
BY NetInitInv, NetNextInv, PTL DEF NetSpec

\* Through any number of copies, damaged copies, resends and crashes, the caller
\* of a node is handed the packet of a hop at most once.
THEOREM AtMostOnce == NetSpec => []ActsOnce
<1>1. NetInv => ActsOnce
  <2> SUFFICES ASSUME NetInv, NEW k \in Cells
               PROVE  acts[k] <= 1
    BY DEF ActsOnce
  <2>1. acts[k] \in Nat
    BY DEF NetInv, NodesOK
  <2>2. CASE acts[k] > 0
    BY <2>2 DEF NetInv, NodesOK, OnceOK
  <2> QED
    BY <2>1, <2>2
<1> QED
  BY <1>1, NetInvariant, PTL

\* A prefix in a node's log stands for a packet that node accepted: no damaged
\* copy and no other visit of the onion fills its place.
THEOREM LogsAreTrue == NetSpec => []LoggedWereAccepted
<1>1. NetInv => LoggedWereAccepted
  BY DEF NetInv
<1> QED
  BY <1>1, NetInvariant, PTL

\* With the logs, the crashes and the resends in place too, what a caller gets is
\* what the sender made for it, and carries the sender's data.
THEOREM NetworkDelivers == NetSpec => [](OnlyGenuineProcessed /\ HopsGetTheirData)
<1>1. NetInv => OnlyGenuineProcessed /\ HopsGetTheirData
  BY HopData DEF NetInv, ProcessedOK, OnlyGenuineProcessed, HopsGetTheirData
<1> QED
  BY <1>1, NetInvariant, PTL
=============================================================================
