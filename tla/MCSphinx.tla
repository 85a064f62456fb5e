------------------------------- MODULE MCSphinx -------------------------------
(***************************************************************************)
(* Sphinx for TLC: all payment paths over the given nodes, a node          *)
(* occurring any number of times, with a payload per hop; after the first  *)
(* empty hop, the rest of the path is empty or filled with one node.       *)
(* Nodes are only compared, so the first hop may as well be fixed.         *)
(***************************************************************************)
EXTENDS Sphinx

MCPayload == Cells

MCFirst == CHOOSE m \in Node : TRUE

MCRoutes ==
  {rt \in [numHops   : 1 .. NumMaxHops,
           node      : [Cells -> Node \cup {NoNode}],
           payload   : {[k \in Cells |-> k]},
           assocData : {CHOOSE d \in AssocData : TRUE}] :
     /\ IsTrueRouteLength(rt.numHops, rt.node)
     /\ rt.node[0] = MCFirst
     /\ \E m \in {NoNode, MCFirst} :
          \A k \in Cells : k > rt.numHops => rt.node[k] = m}
=============================================================================
