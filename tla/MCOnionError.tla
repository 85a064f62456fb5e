----------------------------- MODULE MCOnionError -----------------------------
(***************************************************************************)
(* OnionError for TLC: a payment that takes every path over the given      *)
(* nodes, and another with one path, whose circuit it may be taken for.    *)
(* Nodes are only compared, so the first hop may as well be fixed.  A      *)
(* message is named by its size.                                           *)
(***************************************************************************)
EXTENDS OnionError

CONSTANT First      \* the payment whose path varies

MCPathsOf ==
  [p \in Payment |->
     IF p = First THEN {f \in Path : f[1] = CHOOSE m \in Node : TRUE}
                  ELSE {<<CHOOSE m \in Node : TRUE, CHOOSE m \in Node : TRUE>>}]

MCSizeOf == [e \in Message |-> e]
=============================================================================
