-------------------------------- MODULE Crypto --------------------------------
(***************************************************************************)
(* The primitives of crypto.go, in symbolic form: two values are equal     *)
(* only if they were computed in the same way from equal arguments.        *)
(*                                                                         *)
(* The unit of data is a cell, HopDataSize bytes.  A cell is the set of    *)
(* the pseudo-random cells, and of the plaintext if any, that were xor'ed  *)
(* into it; the cell of zeroes is empty.  A group element is the set of    *)
(* the scalars the generator was multiplied by.                            *)
(***************************************************************************)

ZeroCell == {}

\* xor, on two cells.
Xor(a, b) == (a \ b) \cup (b \ a)

\* Cell k of generateCipherStream(generateKey("rho", secret), numStreamBytes).
Stream(secret, k) == {<<"rho", secret, k>>}

\* Fault: the associated data is left out.
MacHeaderOnly(secret, header, assocData) == <<"mu", secret, header>>

\* calcMac under generateKey("mu", secret), of a header and associated data.
Mac(secret, header, assocData) == <<"mu", secret, header, assocData>>

\* The MAC that tells the last hop that it is the last, 32 zero bytes.
ZeroHMAC == <<"zero">>

\* blindGroupElement: P multiplied by the product of the scalars in c.
BlindGroupElement(P, c) == P \cup c

\* blindBaseElement: the generator multiplied by the scalars in c.
BlindBaseElement(c) == BlindGroupElement({}, c)

\* generateSharedSecret: a hash of an ECDH result.
SharedSecret(P) == <<"sha256", P>>

\* computeBlindingFactor: a hash of a hop's ephemeral key and shared secret.
BlindingFactor(P, secret) == <<"blind", P, secret>>

\* The keys of a session and of a node.
SessionKey(x) == <<"session", x>>
OnionKey(m)   == <<"onion", m>>

\* Bytes that are not the coordinates of a point of the curve.
OffCurve     == {<<"off curve">>}
IsOnCurve(P) == <<"off curve">> \notin P

\* HopData.Encode: the plaintext cell with a payload and the next hop's HMAC.
Encode(hopData) == {<<"hop data", hopData>>}

\* HopData.Decode: any bytes decode to something; here, to what was encoded if
\* the cell is the plaintext of a hop.
Decode(cell) ==
  IF \E a \in cell : cell = {a} /\ a[1] = "hop data"
  THEN (CHOOSE a \in cell : TRUE)[2]
  ELSE [payload |-> <<"garbled", cell>>, HMAC |-> <<"garbled", cell>>]
=============================================================================
