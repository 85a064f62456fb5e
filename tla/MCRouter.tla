------------------------------- MODULE MCRouter -------------------------------
(***************************************************************************)
(* Router for TLC: two hash prefixes, and three packets, one of which is a *)
(* damaged copy (its MAC is wrong) of another.                             *)
(***************************************************************************)
EXTENDS Router, TLC

CONSTANTS h1, h2, pA, pB, pBad, i1, i2

MCHashOf  == (pA :> h1) @@ (pB :> h2) @@ (pBad :> h2)
MCVerdict == (pA :> "ok") @@ (pB :> "ok") @@ (pBad :> "ErrInvalidOnionHMAC")

Content(p, q, r, s) ==
  (i1 :> (0 :> p @@ 1 :> q)) @@ (i2 :> (0 :> r @@ 1 :> s))

\* A packet twice in one batch and again, with another one, in the other batch;
\* a packet after a damaged copy of it, and again in the other batch.
MCContents == { Content(pA, pA, pB, pA), Content(pBad, pB, pB, Nil) }
=============================================================================
