------------------------------- MODULE Network -------------------------------
(***************************************************************************)
(* An onion (module Sphinx) on its way through routers that each have a    *)
(* durable replay log, with copies, damaged copies, crashes and resends.   *)
(*                                                                         *)
(* A node's caller keeps a packet once Router.ProcessOnionPacket returned  *)
(* it, and forwards what it keeps; after a crash it derives the packet to  *)
(* forward again, with ReconstructOnionPacket.  The next node may so get   *)
(* the packet several times.                                               *)
(***************************************************************************)
EXTENDS Sphinx

CONSTANT MaxCrashes     \* bound on the crashes

ASSUME CrashAssumption == MaxCrashes \in Nat

VARIABLES
  log,         \* node -> hash prefixes its replay log holds
  pending,     \* node -> packets its log accepted, in calls yet to return
  kept,        \* node -> packets its caller keeps, with their associated data
  acts,        \* history: hop -> how often its packet was handed to a caller
  lost,        \* history: hops whose packet a crash took after it was logged
  crashes      \* number of crashes so far

nodeVars == <<log, pending, kept, acts, lost, crashes>>
netVars  == <<vars, nodeVars>>

NetInit ==
  /\ Init
  /\ log = [m \in Node |-> {}]
  /\ pending = [m \in Node |-> {}]
  /\ kept = [m \in Node |-> {}]
  /\ acts = [k \in Cells |-> 0]
  /\ lost = {}
  /\ crashes = 0

\* Fault: the prefix does not depend on the secret.
SamePrefix(secret) == <<"prefix">>

\* hashSharedSecret: the prefix of a hash of the secret.
HashSharedSecret(secret) == <<"prefix", secret>>

\* The hops pkt is the packet of.
HopsOf(pkt) == {k \in Hops : pkt = made[k]}

\* Fault: the log is asked before the MAC is checked.
LogFirst(m, pkt, assocData) == IsOnCurve(pkt.EphemeralKey)

\* processOnionPacket returns no error, so the replay log is reached.
ReachesLog(m, pkt, assocData) == Accepts(m, pkt, assocData)

\* Fault: the log's answer is not heeded.
AnyIsNew(m, h) == TRUE

\* log.Put finds a prefix that it does not hold.
IsNew(m, h) == h \notin log[m]

\* Router.ProcessOnionPacket up to its return: an error of the key or the MAC,
\* ErrReplayedPacket, or a packet that is new.
ProcessOnionPacket(m, pkt, assocData) ==
  /\ pkt \in net
  /\ LET h == HashSharedSecret(NodeSecret(m, pkt))
     IN  \/ /\ ~ReachesLog(m, pkt, assocData) \/ ~IsNew(m, h)
            /\ UNCHANGED netVars
         \/ /\ ReachesLog(m, pkt, assocData)
            /\ IsNew(m, h)
            /\ log' = [log EXCEPT ![m] = @ \cup {h}]
            /\ pending' = [pending EXCEPT ![m] = @ \cup
                 IF Accepts(m, pkt, assocData)
                 THEN {[pkt |-> pkt, assocData |-> assocData]} ELSE {}]
            /\ UNCHANGED <<vars, kept, acts, lost, crashes>>

\* Its return: the caller keeps the packet and acts on it.
ProcessReturn(m, r) ==
  /\ r \in pending[m]
  /\ pending' = [pending EXCEPT ![m] = @ \ {r}]
  /\ kept' = [kept EXCEPT ![m] = @ \cup {r}]
  /\ processed' = processed \cup
       {[node |-> m, pkt |-> r.pkt, assocData |-> r.assocData,
         out  |-> ProcessedPacket(m, r.pkt)]}
  /\ acts' = [k \in Cells |-> IF k \in HopsOf(r.pkt) THEN acts[k] + 1 ELSE acts[k]]
  /\ UNCHANGED <<route, pc, senderVars, net, log, lost, crashes>>

\* The caller forwards a packet it keeps, as often as it likes: it derives the
\* next packet with Router.ReconstructOnionPacket, which leaves out the log.
Forward(m, r) ==
  /\ r \in kept[m]
  /\ Accepts(m, r.pkt, r.assocData)
  /\ LET out == ProcessedPacket(m, r.pkt)
     IN  /\ out.Action = "MoreHops"
         /\ net' = net \cup {out.NextPacket}
  /\ UNCHANGED <<route, pc, senderVars, processed, nodeVars>>

\* Node m dies and comes back; its log and what its caller keeps are on disk.
Crash(m) ==
  /\ crashes < MaxCrashes
  /\ crashes' = crashes + 1
  /\ lost' = lost \cup UNION {HopsOf(r.pkt) : r \in pending[m]}
  /\ pending' = [pending EXCEPT ![m] = {}]
  /\ UNCHANGED <<vars, log, kept, acts>>

Build == NewOnionPacket /\ UNCHANGED nodeVars

NetNext ==
  \/ Build
  \/ \E pkt \in net : Damage(pkt) /\ UNCHANGED nodeVars
  \/ \E m \in Node, pkt \in net, d \in AssocData : ProcessOnionPacket(m, pkt, d)
  \/ \E m \in Node : \E r \in pending[m] : ProcessReturn(m, r)
  \/ \E m \in Node : \E r \in kept[m] : Forward(m, r)
  \/ \E m \in Node : Crash(m)

NetSpec == NetInit /\ [][NetNext]_netVars

\* The sender's loops run, the network delivers every packet of the onion to the
\* node it is for, and calls and callers go on.
NetFairness ==
  /\ WF_netVars(Build)
  /\ \A k \in Cells :
       WF_netVars(/\ k \in Hops
                  /\ ProcessOnionPacket(route.node[k], made[k], route.assocData))
  /\ \A m \in Node :
       /\ WF_netVars(\E r \in pending[m] : ProcessReturn(m, r))
       /\ WF_netVars(\E r \in kept[m] : Forward(m, r))

NetFairSpec == NetSpec /\ NetFairness

-----------------------------------------------------------------------------
\* However often a packet is delivered or resent, and whatever crashes, it is
\* handed to the caller of its node at most once.
ActsOnce == \A k \in Cells : acts[k] <= 1

\* A node's log holds the prefix of a hop's packet only if that very packet passed
\* the node's checks: neither a damaged copy, which has the same shared secret,
\* nor the packet of another visit to the node takes its place in the log.
LoggedWereAccepted ==
  pc = "sent" =>
    \A k \in Hops :
      HashSharedSecret(secrets[k]) \in log[route.node[k]] =>
        \/ acts[k] > 0
        \/ k \in lost
        \/ \E r \in pending[route.node[k]] : r.pkt = made[k]

\* Every hop of the route comes to act on its packet, unless a crash took its
\* packet, or that of a hop before it, between the log and the caller.
EveryHopActsUnlessLost ==
  \A k \in Cells :
    <>(k \in Hops => acts[k] > 0 \/ \E j \in lost : j <= k)
=============================================================================
