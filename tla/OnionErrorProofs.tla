-------------------------- MODULE OnionErrorProofs --------------------------
(***************************************************************************)
(* What OnionError promises, for every number of hops, every set of nodes, *)
(* payments, paths and messages, and every number of faults: the types,    *)
(* the agreement of the hops and the sender on the secrets, and the        *)
(* refinement of FailureReport.                                            *)
(*                                                                         *)
(* The invariant is that of OnionErrorFacts.  The steps of an error on its *)
(* way back, and of the sender, are shown here to keep it.                 *)
(***************************************************************************)
EXTENDS OnionErrorFacts

-----------------------------------------------------------------------------
(***************************************************************************)
(* A hop that adds its layer, and damage on the wire, keep the invariant.  *)
(***************************************************************************)

\* A hop passes an error on.
LEMMA BackwardInv ==
  ASSUME ErrorInv, NEW p \in Payment, Backward(p)
  PROVE  ErrorInv'
<1>1. /\ at[p] > 1
      /\ blob' = [blob EXCEPT ![p] =
                    EncryptError(encrypter[p][at[p] - 1], FALSE, blob[p])]
      /\ at' = [at EXCEPT ![p] = at[p] - 1]
      /\ UNCHANGED <<path, ephemeral, encrypter, dec, failure, report, spoiled,
                     foreign, faults>>
  BY DEF Backward
<1>2. HopsOK(p) /\ ErrorOK(p) /\ SenderOK(p) /\ ShapesOK /\ faults \in 0 .. MaxFaults
  BY DEF ErrorInv
<1>3. PICK a : a = at[p] - 1
  BY Zenon
<1>4. /\ at[p] \in 0 .. Last(p) /\ Last(p) \in Nat /\ a + 1 = at[p]
      /\ a \in 1 .. Last(p) /\ at[p] > 0 /\ at[p] # 1 /\ a > 0
  <2>1. at[p] \in 0 .. Last(p) /\ Last(p) \in Nat
    BY <1>2, FailureFacts, ZenonT(60)
  <2> QED
    BY <1>1, <1>3, <2>1, HopBefore, ZenonT(60)
<1>5. dec[p].state = "idle"
  BY Zenon, <1>2, <1>4 DEF SenderOK
<1>6. PICK s : s = encrypter[p][a]
  OBVIOUS
<1>7. PICK b : b = blob[p]
  OBVIOUS
<1>8. /\ blob'[p] = OnionEncrypt(s, b)
      /\ at'[p] = a
      /\ \A q \in Payment \ {p} : blob'[q] = blob[q] /\ at'[q] = at[q]
  BY ZenonT(60), <1>1, <1>2, <1>3, <1>6, <1>7 DEF ShapesOK, EncryptError
<1>9. ShapesOK'
  BY <1>1, <1>2, Zenon DEF ShapesOK
<1>10. /\ path' = path /\ encrypter' = encrypter /\ faults' = faults
       /\ spoiled' = spoiled /\ foreign' = foreign /\ failure' = failure
  BY Zenon, <1>1
<1>11. /\ IsSeq(b)
       /\ Len(b) \in 1 .. 1 + Len(failure[p].msg) + faults
       /\ MacOK(p, b[1])
       /\ p \in foreign => p \in spoiled
       /\ p \notin spoiled => b = Wrapped(p, at[p])
       /\ \E e \in Message : failure[p] = Abs!Failed(path[p][Last(p)], Plaintext(e))
  BY Zenon, <1>2, <1>4, <1>7 DEF ErrorOK
<1>12. /\ IsSeq(OnionEncrypt(s, b))
       /\ Len(OnionEncrypt(s, b)) = Len(b)
       /\ UmPart(OnionEncrypt(s, b)[1]) = UmPart(b[1])
  <2>1. Len(b) > 0
    BY <1>11
  <2> QED
    BY Zenon, <1>11, <2>1, OnionEncryptFacts
<1>13. p \notin spoiled => OnionEncrypt(s, b) = Wrapped(p, a)
  <2>1. OnionEncrypt(encrypter[p][a], Wrapped(p, a + 1)) = Wrapped(p, a)
    BY <1>2, <1>4, OneLayer
  <2> QED
    BY ZenonT(60), <1>4, <1>6, <1>11, <2>1
<1>14. /\ Last(p)' = Last(p)
       /\ TrueMac(p)' = TrueMac(p)
       /\ \A x : Wrapped(p, x)' = Wrapped(p, x)
  BY ZenonT(60), <1>10, LayersStay
<1>15. ErrorOK(p)'
  <2>1. at'[p] > 0 /\ at'[p] \in 0 .. Last(p)' /\ at'[p] # 0
    <3>1. a > 0 /\ a \in 0 .. Last(p) /\ a # 0
      BY <1>4, HopNumber, Zenon
    <3> QED
      BY <1>8, <1>14, <3>1, Zenon
  <2>2. Wrapped(p, at[p])' = Wrapped(p, a)
    <3>1. Original(p)' = Original(p)
      BY <1>10, <1>14 DEF Original
    <3> QED
      BY Zenon, <1>8, <1>10, <3>1 DEF Wrapped
  <2>3. p \notin spoiled' => blob'[p] = Wrapped(p, at[p])'
    BY Zenon, <1>8, <1>10, <1>13, <2>2
  <2>4. MacOK(p, blob[p][1])' /\ IsSeq(blob'[p]) /\ (p \in foreign' => p \in spoiled')
    <3>1. UmPart(blob'[p][1]) = UmPart(b[1])
      BY <1>8, <1>12, Zenon
    <3>2. MacOK(p, blob[p][1])'
      BY <1>10, <1>11, <1>14, <3>1, MacStays, Zenon DEF MacOK
    <3> QED
      BY Zenon, <1>8, <1>10, <1>11, <1>12, <3>2
  <2>5. Len(blob'[p]) \in 1 .. 1 + Len(failure'[p].msg) + faults'
    BY Zenon, <1>8, <1>10, <1>11, <1>12
  <2>6. \E e \in Message : failure'[p] = Abs!Failed(path'[p][Last(p)'], Plaintext(e))
    BY Zenon, <1>10, <1>11, <1>14
  <2> QED
    BY <2>1, <2>3, <2>4, <2>5, <2>6, ZenonT(60) DEF ErrorOK
<1>16. HopsOK(p)'
  BY Zenon, <1>1, <1>2, HopsStay
<1>17. SenderOK(p)'
  <2>1. dec' = dec /\ report' = report /\ spoiled' = spoiled
    BY <1>1
  <2> QED
    BY <1>2, <1>5, <2>1, ZenonT(60) DEF SenderOK
<1>18. path' = path /\ faults' \in 0 .. MaxFaults /\ faults <= faults'
  <2>1. MaxFaults \in Nat
    BY ZenonT(60), OnionErrorAssumption
  <2> QED
    BY <1>2, <1>10, <2>1
<1>19. \A q \in Payment \ {p} :
         /\ encrypter'[q] = encrypter[q] /\ ephemeral'[q] = ephemeral[q]
         /\ at'[q] = at[q] /\ blob'[q] = blob[q] /\ dec'[q] = dec[q]
         /\ failure'[q] = failure[q] /\ report'[q] = report[q]
         /\ q \in spoiled <=> q \in spoiled'
         /\ q \in foreign <=> q \in foreign'
  BY <1>1, <1>8
<1> QED
  BY ZenonT(60), <1>9, <1>15, <1>16, <1>17, <1>18, <1>19, OnePayment

\* What Damage makes of an error.
DamagedTo(b, c) ==
  \/ \E k \in DOMAIN b : c = [b EXCEPT ![k] = Xor(b[k], Noise)]
  \/ c = Append(b, Noise)
  \/ Len(b) > 1 /\ c = SubSeq(b, 1, Len(b) - 1)

\* Damage leaves at least the first cell, with the MAC it had, and makes an error
\* longer by one cell at most.
LEMMA DamagedError ==
  ASSUME NEW b, IsSeq(b), Len(b) >= 1, NEW c, DamagedTo(b, c)
  PROVE  /\ IsSeq(c)
         /\ Len(c) \in 1 .. Len(b) + 1
         /\ UmPart(c[1]) = UmPart(b[1])
<1>1. Len(b) \in Nat /\ DOMAIN b = 1 .. Len(b) /\ b = [l \in 1 .. Len(b) |-> b[l]]
  BY SeqOver DEF IsSeq
<1>2. CASE \E k \in DOMAIN b : c = [b EXCEPT ![k] = Xor(b[k], Noise)]
  <2>1. PICK k \in 1 .. Len(b) : c = [b EXCEPT ![k] = Xor(b[k], Noise)]
    BY <1>1, <1>2, Zenon
  <2>2. PICK x : x = Xor(b[k], Noise)
    OBVIOUS
  <2>3. c = [l \in 1 .. Len(b) |-> IF l = k THEN x ELSE b[l]]
    BY <1>1, <2>1, <2>2, Zenon
  <2>4. c = [l \in 1 .. Len(b) |-> c[l]]
    BY <2>3
  <2>5. IsSeq(c) /\ Len(c) = Len(b)
    BY Zenon, <1>1, <2>4, FcnIsSeq
  <2>6. c[1] = b[1] \/ c[1] = Xor(b[1], Noise)
    <3>1. 1 \in 1 .. Len(b)
      BY <1>1
    <3>2. k # 1 => c[1] = b[1]
      BY <2>3, <3>1
    <3>3. k = 1 => c[1] = Xor(b[1], Noise)
      BY Zenon, <2>2, <2>3, <3>1
    <3> QED
      BY <3>2, <3>3
  <2>7. UmPart(Xor(b[1], Noise)) = UmPart(b[1])
    BY UmParts, Zenon
  <2> QED
    BY <1>1, <2>5, <2>6, <2>7
<1>3. CASE c = Append(b, Noise)
  <2>1. PICK x : x = Noise
    OBVIOUS
  <2>2. /\ IsSeq(Append(b, x)) /\ Len(Append(b, x)) = Len(b) + 1
        /\ \A k \in 1 .. Len(b) : Append(b, x)[k] = b[k]
    BY AppendSeq
  <2>3. c = Append(b, x)
    BY <1>3, <2>1
  <2>4. IsSeq(c) /\ Len(c) = Len(b) + 1 /\ \A k \in 1 .. Len(b) : c[k] = b[k]
    BY <2>2, <2>3, Zenon
  <2>5. 1 \in 1 .. Len(b)
    BY <1>1
  <2> QED
    BY <1>1, <2>4, <2>5
<1>4. CASE Len(b) > 1 /\ c = SubSeq(b, 1, Len(b) - 1)
  <2>1. /\ IsSeq(SubSeq(b, 1, Len(b) - 1))
        /\ Len(SubSeq(b, 1, Len(b) - 1)) = Len(b) - 1
        /\ SubSeq(b, 1, Len(b) - 1)[1] = b[1]
    BY <1>4, FrontSeq, Zenon
  <2>2. IsSeq(c) /\ Len(c) = Len(b) - 1 /\ c[1] = b[1]
    BY <1>4, <2>1, Zenon
  <2>3. Len(b) > 1
    BY <1>4
  <2>4. Len(c) \in 1 .. Len(b) + 1
    BY <1>1, <2>2, <2>3
  <2> QED
    BY <2>2, <2>4
<1> QED
  BY <1>2, <1>3, <1>4, Zenon DEF DamagedTo

\* An error is damaged, cut short or extended.
LEMMA DamageInv ==
  ASSUME ErrorInv, NEW p \in Payment, Damage(p)
  PROVE  ErrorInv'
<1>1. /\ at[p] > 0
      /\ dec[p].state = "idle"
      /\ faults < MaxFaults
      /\ spoiled' = spoiled \cup {p}
      /\ faults' = faults + 1
      /\ UNCHANGED <<path, ephemeral, encrypter, at, dec, failure, report, foreign>>
  BY DEF Damage, Abs!Spoil
<1>2. HopsOK(p) /\ ErrorOK(p) /\ SenderOK(p) /\ ShapesOK /\ faults \in 0 .. MaxFaults
  BY DEF ErrorInv
<1>3. PICK b : b = blob[p]
  OBVIOUS
<1>4. /\ DamagedTo(b, blob'[p])
      /\ \A q \in Payment \ {p} : blob'[q] = blob[q]
      /\ blob' = [q \in Payment |-> blob'[q]]
  <2>0. blob = [q \in Payment |-> blob[q]]
    BY <1>2 DEF ShapesOK
  <2>1. CASE \E k \in DOMAIN blob[p] : blob' = [blob EXCEPT ![p][k] = Xor(@, Noise)]
    BY <1>3, <2>0, <2>1, Zenon DEF DamagedTo
  <2>2. CASE blob' = [blob EXCEPT ![p] = Append(@, Noise)]
    BY <1>3, <2>0, <2>2, Zenon DEF DamagedTo
  <2>3. CASE Len(blob[p]) > 1 /\ blob' = [blob EXCEPT ![p] = SubSeq(@, 1, Len(@) - 1)]
    BY <1>3, <2>0, <2>3, Zenon DEF DamagedTo
  <2> QED
    BY Zenon, <2>1, <2>2, <2>3 DEF Damage
<1>5. PICK c : c = blob'[p]
  BY ZenonT(60)
<1>6. /\ IsSeq(b)
      /\ Len(b) \in 1 .. 1 + Len(failure[p].msg) + faults
      /\ MacOK(p, b[1])
      /\ \E e \in Message : failure[p] = Abs!Failed(path[p][Last(p)], Plaintext(e))
  BY <1>1, <1>2, <1>3 DEF ErrorOK
<1>7. /\ IsSeq(c)
      /\ Len(c) \in 1 .. Len(b) + 1
      /\ UmPart(c[1]) = UmPart(b[1])
  <2>1. DamagedTo(b, c)
    BY <1>4, <1>5, ZenonT(60)
  <2>2. Len(b) >= 1
    BY <1>6
  <2> QED
    BY <1>6, <2>1, <2>2, DamagedError, Zenon
<1>8. /\ path' = path /\ encrypter' = encrypter /\ failure' = failure /\ at' = at
      /\ foreign' = foreign
  BY <1>1
<1>9. Last(p)' = Last(p) /\ TrueMac(p)' = TrueMac(p)
  BY ZenonT(60), <1>8, LayersStay
<1>10. ErrorOK(p)'
  <2>1. at'[p] > 0 /\ at'[p] \in 0 .. Last(p)' /\ at'[p] # 0
    <3>1. at[p] \in 0 .. Last(p) /\ Last(p) \in Nat
      BY <1>2, FailureFacts, Zenon
    <3>2. at[p] # 0
      BY <1>1, <3>1, NoneOrMore, Zenon
    <3> QED
      BY <1>1, <1>8, <1>9, <3>1, <3>2, Zenon
  <2>2. p \in spoiled'
    BY <1>1
  <2>3. MacOK(p, blob[p][1])' /\ IsSeq(blob'[p])
    <3>1. MacOK(p, blob[p][1])'
      BY <1>5, <1>6, <1>7, <1>8, <1>9, MacStays, Zenon DEF MacOK
    <3> QED
      BY <1>5, <1>7, <3>1, Zenon
  <2>4. Len(blob'[p]) \in 1 .. 1 + Len(failure'[p].msg) + faults'
    <3>1. PICK n : n = Len(failure[p].msg)
      BY ZenonT(30)
    <3>2. n \in Nat
      BY <1>1, <1>2, <3>1, FailureLength, Zenon
    <3>3. faults \in Nat /\ Len(b) \in 1 .. 1 + n + faults /\ Len(c) \in 1 .. Len(b) + 1
      BY <1>2, <1>6, <1>7, <3>1, FaultsInNat, Zenon
    <3>4. Len(c) \in 1 .. 1 + n + (faults + 1)
      BY <3>2, <3>3, LongerByOne, Zenon
    <3> QED
      BY ZenonT(60), <1>1, <1>5, <1>8, <3>1, <3>4
  <2>5. \E e \in Message : failure'[p] = Abs!Failed(path'[p][Last(p)'], Plaintext(e))
    BY Zenon, <1>6, <1>8, <1>9
  <2> QED
    BY <2>1, <2>2, <2>3, <2>4, <2>5, Zenon DEF ErrorOK
<1>11. HopsOK(p)'
  BY ZenonT(60), <1>1, <1>2, HopsStay
<1>12. SenderOK(p)'
  <2>1. dec' = dec /\ report' = report /\ p \in spoiled'
    BY <1>1
  <2> QED
    BY Zenon, <1>1, <1>2, <2>1 DEF SenderOK
<1>13. path' = path /\ faults' \in 0 .. MaxFaults /\ faults <= faults'
  <2>1. MaxFaults \in Nat
    BY OnionErrorAssumption
  <2> QED
    BY <1>1, <1>2, <2>1
<1>14. \A q \in Payment \ {p} :
         /\ encrypter'[q] = encrypter[q] /\ ephemeral'[q] = ephemeral[q]
         /\ at'[q] = at[q] /\ blob'[q] = blob[q] /\ dec'[q] = dec[q]
         /\ failure'[q] = failure[q] /\ report'[q] = report[q]
         /\ q \in spoiled <=> q \in spoiled'
         /\ q \in foreign <=> q \in foreign'
  BY <1>1, <1>4
<1>15. ShapesOK'
  BY <1>1, <1>2, <1>4 DEF ShapesOK
<1> QED
  BY ZenonT(60), <1>10, <1>11, <1>12, <1>13, <1>14, <1>15, OnePayment

\* A hop replaces an error by bytes with a MAC under the dummy secret.
LEMMA ForeignInv ==
  ASSUME ErrorInv, NEW p \in Payment, Foreign(p)
  PROVE  ErrorInv'
<1>1. /\ at[p] > 0
      /\ dec[p].state = "idle"
      /\ faults < MaxFaults
      /\ blob' = [blob EXCEPT ![p] =
            OnionEncrypt(encrypter[p][at[p]],
                         EncryptError(DummySecret, TRUE, failure[p].msg))]
      /\ spoiled' = spoiled \cup {p}
      /\ foreign' = foreign \cup {p}
      /\ faults' = faults + 1
      /\ UNCHANGED <<path, ephemeral, encrypter, at, dec, failure, report>>
  BY DEF Foreign, Abs!Replace
<1>2. HopsOK(p) /\ ErrorOK(p) /\ SenderOK(p) /\ ShapesOK /\ faults \in 0 .. MaxFaults
  BY DEF ErrorInv
<1>3. PICK e \in Message : failure[p] = Abs!Failed(path[p][Last(p)], Plaintext(e))
  BY <1>1, <1>2, Zenon DEF ErrorOK
<1>4. PICK s : s = encrypter[p][at[p]]
  OBVIOUS
<1>5. PICK t : t = DummySecret
  OBVIOUS
<1>6. PICK o : o = <<UmMac(t, Plaintext(e))>> \o Plaintext(e)
  BY Zenon
<1>7. PICK c : c = OnionEncrypt(t, o)
  OBVIOUS
<1>8. failure[p].msg = Plaintext(e)
  BY <1>3, FailedMsg, Zenon
<1>9. /\ blob'[p] = OnionEncrypt(s, c)
      /\ \A q \in Payment \ {p} : blob'[q] = blob[q]
      /\ blob' = [q \in Payment |-> blob'[q]]
  <2>1. EncryptError(DummySecret, TRUE, failure[p].msg) = c
    BY <1>5, <1>6, <1>7, <1>8, Zenon DEF EncryptError
  <2>2. blob' = [blob EXCEPT ![p] = OnionEncrypt(s, c)]
    BY <1>1, <1>4, <2>1, Zenon
  <2> QED
    BY <1>2, <2>2, Zenon DEF ShapesOK
<1>10. /\ IsSeq(o) /\ Len(o) = 1 + SizeOf[e] /\ Len(o) > 0
       /\ UmPart(o[1]) = UmMac(t, Plaintext(e))
  <2>1. IsSeq(o) /\ Len(o) = 1 + SizeOf[e] /\ o[1] = UmMac(t, Plaintext(e))
    BY <1>6, OriginalFacts, ZenonT(60)
  <2>2. Len(o) > 0
    BY <2>1, OnionErrorAssumption
  <2>3. UmPart(UmMac(t, Plaintext(e))) = UmMac(t, Plaintext(e))
    BY UmParts, Zenon
  <2> QED
    BY <2>1, <2>2, <2>3, Zenon
<1>11. IsSeq(c) /\ Len(c) = Len(o) /\ UmPart(c[1]) = UmPart(o[1])
  BY <1>7, <1>10, OnionEncryptFacts, ZenonT(60)
<1>12. /\ IsSeq(blob'[p])
       /\ Len(blob'[p]) = 1 + SizeOf[e]
       /\ UmPart(blob'[p][1]) = UmMac(t, Plaintext(e))
  <2>1. Len(c) > 0
    BY <1>10, <1>11, Zenon
  <2>2. /\ IsSeq(OnionEncrypt(s, c)) /\ Len(OnionEncrypt(s, c)) = Len(c)
        /\ UmPart(OnionEncrypt(s, c)[1]) = UmPart(c[1])
    BY <1>11, <2>1, OnionEncryptFacts, ZenonT(60)
  <2> QED
    BY <1>9, <1>10, <1>11, <2>2, Zenon
<1>13. /\ path' = path /\ encrypter' = encrypter /\ failure' = failure /\ at' = at
       /\ p \in spoiled' /\ p \in foreign'
  BY <1>1
<1>14. Last(p)' = Last(p)
  BY <1>13, LayersStay, Zenon
<1>15. ErrorOK(p)'
  <2>1. at'[p] > 0 /\ at'[p] \in 0 .. Last(p)' /\ at'[p] # 0
    <3>1. at[p] \in 0 .. Last(p) /\ Last(p) \in Nat
      BY <1>2, FailureFacts, Zenon
    <3>2. at[p] # 0
      BY <1>1, <3>1, NoneOrMore, Zenon
    <3> QED
      BY <1>1, <1>13, <1>14, <3>1, <3>2, Zenon
  <2>2. MacOK(p, blob[p][1])'
    BY <1>5, <1>8, <1>12, <1>13, Zenon DEF MacOK
  <2>3. Len(blob'[p]) \in 1 .. 1 + Len(failure'[p].msg) + faults'
    <3>1. Len(failure'[p].msg) = SizeOf[e] /\ SizeOf[e] \in Nat
      BY <1>8, <1>13, PlaintextFacts, OnionErrorAssumption, Zenon
    <3>2. faults' \in Nat
      BY <1>1, <1>2, OnionErrorAssumption
    <3> QED
      BY <1>12, <3>1, <3>2
  <2>4. failure'[p] = Abs!Failed(path'[p][Last(p)'], Plaintext(e))
    BY <1>3, <1>13, <1>14, Zenon
  <2> QED
    BY <1>12, <1>13, <2>1, <2>2, <2>3, <2>4, Zenon DEF ErrorOK
<1>16. HopsOK(p)'
  BY ZenonT(60), <1>1, <1>2, HopsStay
<1>17. SenderOK(p)'
  <2>1. dec' = dec /\ report' = report
    BY <1>1
  <2> QED
    BY Zenon, <1>1, <1>2, <1>13, <2>1 DEF SenderOK
<1>18. path' = path /\ faults' \in 0 .. MaxFaults /\ faults <= faults'
  <2>1. MaxFaults \in Nat
    BY OnionErrorAssumption
  <2> QED
    BY <1>1, <1>2, <2>1
<1>19. \A q \in Payment \ {p} :
         /\ encrypter'[q] = encrypter[q] /\ ephemeral'[q] = ephemeral[q]
         /\ at'[q] = at[q] /\ blob'[q] = blob[q] /\ dec'[q] = dec[q]
         /\ failure'[q] = failure[q] /\ report'[q] = report[q]
         /\ q \in spoiled <=> q \in spoiled'
         /\ q \in foreign <=> q \in foreign'
  BY <1>1, <1>9
<1>20. ShapesOK'
  BY <1>1, <1>2, <1>9 DEF ShapesOK
<1> QED
  BY ZenonT(60), <1>15, <1>16, <1>18, <1>17, <1>19, <1>20, OnePayment

-----------------------------------------------------------------------------
(***************************************************************************)
(* What the sender does keeps the invariant.                               *)
(***************************************************************************)

\* What a step of the sender leaves alone.
SenderOnly(p) ==
  /\ UNCHANGED <<path, ephemeral, encrypter, blob, at, failure, spoiled, foreign,
                 faults>>
  /\ \A q \in Payment \ {p} : dec'[q] = dec[q] /\ report'[q] = report[q]
  /\ dec' = [q \in Payment |-> dec'[q]]
  /\ report' = [q \in Payment |-> report'[q]]

\* A step of the sender keeps the rest of the invariant.
LEMMA SenderOnlyInv ==
  ASSUME ErrorInv, NEW p \in Payment, SenderOnly(p), SenderOK(p)'
  PROVE  ErrorInv'
<1>1. HopsOK(p) /\ ErrorOK(p) /\ ShapesOK /\ faults \in 0 .. MaxFaults
  BY DEF ErrorInv
<1>2. /\ path' = path /\ ephemeral' = ephemeral /\ encrypter' = encrypter
      /\ blob' = blob /\ at' = at /\ failure' = failure /\ spoiled' = spoiled
      /\ foreign' = foreign /\ faults' = faults
  BY DEF SenderOnly
<1>3. /\ faults \in Nat /\ faults' \in Nat /\ faults <= faults'
      /\ faults' \in 0 .. MaxFaults
  BY <1>1, <1>2, OnionErrorAssumption
<1>4. HopsOK(p)'
  BY Zenon, <1>1, <1>2, HopsStay
<1>5. ErrorOK(p)'
  BY ZenonT(60), <1>1, <1>2, <1>3, ErrorStays
<1>6. ShapesOK'
  BY Zenon, <1>1, <1>2 DEF ShapesOK, SenderOnly
<1>7. \A q \in Payment \ {p} :
         /\ encrypter'[q] = encrypter[q] /\ ephemeral'[q] = ephemeral[q]
         /\ at'[q] = at[q] /\ blob'[q] = blob[q] /\ dec'[q] = dec[q]
         /\ failure'[q] = failure[q] /\ report'[q] = report[q]
         /\ q \in spoiled <=> q \in spoiled'
         /\ q \in foreign <=> q \in foreign'
  BY <1>2 DEF SenderOnly
<1> QED
  BY ZenonT(60), <1>2, <1>3, <1>4, <1>5, <1>6, <1>7, OnePayment

\* A round that is not after the last hop is the round of a hop.
LEMMA RoundOfHop ==
  ASSUME NEW i \in 1 .. NumMaxHops + 1, NEW n \in Nat, ~(i > n)
  PROVE  i \in 1 .. n
BY OnionErrorAssumption

\* So is one up to the last hop that was reached.
LEMMA RoundBefore ==
  ASSUME NEW i \in 1 .. NumMaxHops + 1, NEW n \in Nat, NEW k \in 0 .. n, i <= k
  PROVE  i \in 1 .. k /\ i \in 1 .. n
BY OnionErrorAssumption

\* The verdicts differ.
LEMMA VerdictsDiffer ==
  /\ Abs!Pending # Abs!Unknown
  /\ Abs!Pending # Abs!Panicked
  /\ \A m, e : Abs!Failed(m, e) # Abs!Pending
<1>1. /\ Abs!Pending.state = "pending" /\ Abs!Unknown.state = "unknown"
      /\ Abs!Panicked.state = "panicked"
      /\ \A m, e : Abs!Failed(m, e).state = "failed"
  BY DEF Abs!Pending, Abs!Unknown, Abs!Panicked, Abs!Failed
<1> QED
  BY Zenon, <1>1

\* The sender takes an error for another payment's.
LEMMA MistakeInv ==
  ASSUME ErrorInv, NEW p \in Payment, NEW q \in Payment, Mistake(p, q)
  PROVE  ErrorInv'
<1>1. /\ dec[p].state = "idle"
      /\ faults < MaxFaults
      /\ dec' = [dec EXCEPT ![p].circuit = q]
      /\ failure[p] # Abs!NoFailure
      /\ spoiled' = spoiled \cup {p}
      /\ faults' = faults + 1
      /\ UNCHANGED <<path, ephemeral, encrypter, blob, at, failure, report, foreign>>
  BY DEF Mistake, Abs!Spoil
<1>2. HopsOK(p) /\ ErrorOK(p) /\ SenderOK(p) /\ ShapesOK /\ faults \in 0 .. MaxFaults
  BY DEF ErrorInv
<1>3. at[p] > 0
  BY <1>1, <1>2, FailureFacts
<1>4. PICK d : d = dec[p]
  OBVIOUS
<1>5. d = [state |-> "idle", circuit |-> d.circuit]
  BY Zenon, <1>1, <1>2, <1>4 DEF SenderOK, Outside
<1>6. /\ dec'[p] = [state |-> "idle", circuit |-> q]
      /\ \A r \in Payment \ {p} : dec'[r] = dec[r]
      /\ dec' = [r \in Payment |-> dec'[r]]
  BY <1>1, <1>2, <1>4, <1>5, ZenonT(60) DEF ShapesOK
<1>7. /\ path' = path /\ ephemeral' = ephemeral /\ encrypter' = encrypter
      /\ blob' = blob /\ at' = at /\ failure' = failure /\ report' = report
      /\ foreign' = foreign
  BY Zenon, <1>1
<1>8. /\ faults \in Nat /\ faults' \in Nat /\ faults <= faults'
      /\ faults' \in 0 .. MaxFaults
  BY <1>1, <1>2, OnionErrorAssumption
<1>9. p \in spoiled'
  BY <1>1
<1>10. HopsOK(p)'
  BY Zenon, <1>2, <1>7, HopsStay
<1>11. ErrorOK(p)'
  BY ZenonT(60), <1>2, <1>3, <1>7, <1>8, <1>9, ErrorStays
<1>12. SenderOK(p)'
  BY ZenonT(60), <1>1, <1>2, <1>6, <1>7, <1>9 DEF SenderOK, Outside
<1>13. ShapesOK'
  BY ZenonT(60), <1>2, <1>6, <1>7 DEF ShapesOK
<1>14. \A r \in Payment \ {p} :
         /\ encrypter'[r] = encrypter[r] /\ ephemeral'[r] = ephemeral[r]
         /\ at'[r] = at[r] /\ blob'[r] = blob[r] /\ dec'[r] = dec[r]
         /\ failure'[r] = failure[r] /\ report'[r] = report[r]
         /\ r \in spoiled <=> r \in spoiled'
         /\ r \in foreign <=> r \in foreign'
  BY ZenonT(60), <1>1, <1>6, <1>7
<1> QED
  BY ZenonT(60), <1>7, <1>8, <1>10, <1>11, <1>12, <1>13, <1>14, OnePayment

\* DecryptError comes to a verdict.
LEMMA FinishInv ==
  ASSUME ErrorInv, NEW p \in Payment, NEW result, result # Abs!Pending,
         at[p] = 1, Finish(p, result),
         UNCHANGED <<path, ephemeral, encrypter, blob, at, failure, spoiled, foreign,
                     faults>>
  PROVE  ErrorInv'
<1>1. SenderOK(p) /\ ShapesOK
  BY DEF ErrorInv
<1>2. PICK c : c = dec[p].circuit
  OBVIOUS
<1>3. /\ report' = [report EXCEPT ![p] = result]
      /\ dec' = [dec EXCEPT ![p] = [state |-> "done", circuit |-> c]]
  BY <1>2 DEF Finish
<1>4. SenderOnly(p) /\ report'[p] = result /\ dec'[p] = [state |-> "done", circuit |-> c]
  BY <1>1, <1>3, ZenonT(60) DEF SenderOnly, ShapesOK
<1>5. SenderOK(p)'
  BY <1>1, <1>2, <1>4 DEF SenderOK, Outside
<1> QED
  BY ZenonT(60), <1>4, <1>5, SenderOnlyInv

\* DecryptError starts.
LEMMA DecryptErrorInv ==
  ASSUME ErrorInv, NEW p \in Payment, DecryptError(p)
  PROVE  ErrorInv'
<1>1. at[p] = 1 /\ dec[p].state = "idle"
      /\ UNCHANGED <<path, ephemeral, encrypter, blob, at, failure, spoiled, foreign,
                     faults>>
  BY DEF DecryptError
<1>2. HopsOK(p) /\ ErrorOK(p) /\ SenderOK(p) /\ ShapesOK
  BY DEF ErrorInv
<1>3. CASE Finish(p, Abs!Unknown)
  <2>1. PICK u : u = Abs!Unknown
    OBVIOUS
  <2>2. Finish(p, u) /\ u # Abs!Pending
    BY Zenon, <1>3, <2>1, VerdictsDiffer
  <2> QED
    BY Zenon, <1>1, <2>2, FinishInv
<1>4. CASE ~Finish(p, Abs!Unknown)
  <2>1. PICK c : c = dec[p].circuit
    OBVIOUS
  <2>2. PICK secrets : secrets = GenerateSharedSecrets(path[c], SessionKey(c))
    OBVIOUS
  <2>3. PICK b : b = blob[p]
    OBVIOUS
  <2>4. PICK d : d = [state |-> "loop", circuit |-> c, secrets |-> secrets,
                      i |-> 1, data |-> b, found |-> Abs!Pending]
    BY Zenon
  <2>5. /\ Len(b) = OnionErrorLength
        /\ dec' = [dec EXCEPT ![p] = d]
        /\ report' = report
    BY ZenonT(60), <1>4, <2>1, <2>2, <2>3, <2>4 DEF DecryptError
  <2>6. SenderOnly(p) /\ dec'[p] = d
    BY <1>1, <1>2, <2>5, ZenonT(60) DEF SenderOnly, ShapesOK
  <2>7. /\ d.state = "loop" /\ d.circuit = c /\ d.secrets = secrets
        /\ d.i = 1 /\ d.data = b /\ d.found = Abs!Pending /\ Inside(d)
    BY Zenon, <2>4 DEF Inside
  <2>8. /\ path' = path /\ encrypter' = encrypter /\ failure' = failure
        /\ spoiled' = spoiled /\ foreign' = foreign /\ at' = at
    BY Zenon, <1>1
  <2>9. Last(p)' = Last(p) /\ TrueMac(p)' = TrueMac(p) /\ Wrapped(p, 1)' = Wrapped(p, 1)
    BY ZenonT(60), <2>8, LayersStay DEF Wrapped, Original
  <2>10. IsSeq(b) /\ MacOK(p, b[1]) /\ (p \notin spoiled => b = Wrapped(p, 1))
    BY <1>1, <1>2, <2>3 DEF ErrorOK
  <2>11. 1 <= Last(p)
    BY <1>1, <1>2, FailureFacts
  <2>12. 1 \in 1 .. NumMaxHops + 1
    BY OnionErrorAssumption
  <2>13. p \notin spoiled' => dec'[p].i <= Last(p)' /\ dec'[p].data = Wrapped(p, dec[p].i)'
    <3>1. Wrapped(p, dec[p].i)' = Wrapped(p, 1)'
      BY Zenon, <2>6, <2>7 DEF Wrapped
    <3> QED
      BY ZenonT(60), <2>6, <2>7, <2>8, <2>9, <2>10, <2>11, <3>1
  <2>14. LoopOK(p)'
    <3>1. MacOK(p, dec[p].data[1])'
      <4>1. dec'[p].data[1] = b[1]
        BY <2>6, <2>7, Zenon
      <4> QED
        BY <2>8, <2>9, <2>10, <4>1, MacStays, Zenon DEF MacOK
    <3> QED
      BY ZenonT(60), <2>2, <2>5, <2>6, <2>7, <2>8, <2>10, <2>12, <2>13, <3>1 DEF LoopOK
  <2>15. SenderOK(p)'
    BY ZenonT(60), <1>1, <1>2, <2>1, <2>5, <2>6, <2>7, <2>8, <2>14 DEF SenderOK
  <2> QED
    BY ZenonT(60), <2>6, <2>15, SenderOnlyInv
<1> QED
  BY ZenonT(60), <1>3, <1>4

\* The secrets of a circuit.
LEMMA SecretsFacts ==
  ASSUME NEW c \in Payment, HopsOK(c), NEW secrets,
         secrets = GenerateSharedSecrets(path[c], SessionKey(c))
  PROVE  /\ IsSeq(secrets)
         /\ Len(secrets) = Len(path[c])
         /\ \A k \in 1 .. Len(path[c]) : secrets[k] = T(c)[k].s
<1>1. Len(path[c]) \in Nat /\ DOMAIN path[c] = 1 .. Len(path[c])
  BY HopFacts, OnionErrorAssumption
<1>2. PICK n : n = Len(path[c])
  BY Zenon
<1>3. PICK R : R = T(c)
  BY Zenon
<1>4. secrets = [k \in 1 .. n |-> R[k].s]
  BY ZenonT(60), <1>1, <1>2, <1>3 DEF GenerateSharedSecrets, T
<1>5. secrets = [k \in 1 .. n |-> secrets[k]]
  BY <1>4
<1>6. IsSeq(secrets) /\ Len(secrets) = n
  BY Zenon, <1>1, <1>2, <1>5, FcnIsSeq
<1> QED
  BY ZenonT(60), <1>2, <1>3, <1>4, <1>6

\* The error of p decrypted once more, with s, is data, and its MAC is right.
MatchesUnder(p, s, data) ==
  data = OnionEncrypt(s, dec[p].data) /\ MacMatches(s, data)

\* A MAC that matches is that of the failing hop, with its message, or one under
\* the dummy secret if the error was replaced.
LEMMA MatchingMac ==
  ASSUME NEW p \in Payment, LoopOK(p), NEW s, NEW data, MatchesUnder(p, s, data)
  PROVE  /\ p \notin foreign => s = encrypter[p][Last(p)] /\ Tail(data) = failure[p].msg
         /\ p \in foreign => s = DummySecret
<1>1. PICK b : b = dec[p].data
  BY ZenonT(60)
<1>2. IsSeq(b) /\ Len(b) > 0 /\ MacOK(p, b[1])
  BY <1>1, OnionErrorAssumption DEF LoopOK, OnionErrorLength
<1>3. UmPart(OnionEncrypt(s, b)[1]) = UmPart(b[1])
  BY ZenonT(60), <1>2, OnionEncryptFacts
<1>4. UmPart(data[1]) = UmPart(b[1])
  BY Zenon, <1>1, <1>3 DEF MatchesUnder
<1>5. PICK t : t = Tail(data)
  BY Zenon
<1>6. UmPart(UmMac(s, t)) = UmMac(s, t)
  BY Zenon, UmParts
<1>7. data[1] = UmMac(s, t)
  BY <1>5 DEF MacMatches, MatchesUnder
<1>8. UmPart(b[1]) = UmMac(s, t)
  BY <1>4, <1>6, <1>7, Zenon
<1>9. ASSUME p \notin foreign
      PROVE  s = encrypter[p][Last(p)] /\ t = failure[p].msg
  <2>1. UmMac(s, t) = UmMac(encrypter[p][Last(p)], failure[p].msg)
    BY <1>2, <1>8, <1>9, ZenonT(60) DEF MacOK, TrueMac
  <2>2. <<"um", s, t>> = <<"um", encrypter[p][Last(p)], failure[p].msg>>
    BY <2>1, Zenon DEF UmMac
  <2> QED
    BY Zenon, <2>2
<1>10. ASSUME p \in foreign
       PROVE  s = DummySecret
  <2>1. UmMac(s, t) = UmMac(DummySecret, failure[p].msg)
    BY <1>2, <1>8, <1>10, ZenonT(60) DEF MacOK
  <2>2. <<"um", s, t>> = <<"um", DummySecret, failure[p].msg>>
    BY <2>1, ZenonT(60) DEF UmMac
  <2> QED
    BY Zenon, <2>2
<1> QED
  BY <1>5, <1>9, <1>10, Zenon

\* If a replaced error matches, it does in a round past the end of the path.
LEMMA ForeignMatch ==
  ASSUME ErrorInv, NEW p \in Payment, p \in foreign, dec[p].state = "loop",
         dec[p].found = Abs!Pending, NEW s, s = SecretInRound(dec[p]),
         NEW data, data = OnionEncrypt(s, dec[p].data), MacMatches(s, data)
  PROVE  ~(dec[p].i <= Len(path[dec[p].circuit]))
<1>0. s = DummySecret
  <2>1. LoopOK(p)
    BY Zenon DEF ErrorInv, SenderOK
  <2>2. MatchesUnder(p, s, data)
    BY ZenonT(60) DEF MatchesUnder
  <2> QED
    BY <2>1, <2>2, MatchingMac, Zenon
<1>1. SUFFICES ASSUME dec[p].i <= Len(path[dec[p].circuit])
               PROVE  FALSE
  OBVIOUS
<1>2. SenderOK(p) /\ LoopOK(p)
  BY Zenon DEF ErrorInv, SenderOK
<1>3. PICK c : c = dec[p].circuit
  OBVIOUS
<1>4. PICK i : i = dec[p].i
  OBVIOUS
<1>5. PICK secrets : secrets = dec[p].secrets
  BY Zenon
<1>6. c \in Payment /\ HopsOK(c)
  BY Zenon, <1>2, <1>3 DEF SenderOK, ErrorInv
<1>7. secrets = GenerateSharedSecrets(path[c], SessionKey(c))
  BY Zenon, <1>2, <1>3, <1>5 DEF LoopOK
<1>8. /\ Len(secrets) = Len(path[c])
      /\ \A k \in 1 .. Len(path[c]) : secrets[k] = T(c)[k].s
  BY ZenonT(60), <1>6, <1>7, SecretsFacts
<1>9. Len(path[c]) \in Nat /\ i \in 1 .. NumMaxHops + 1
  BY <1>2, <1>4, <1>6, HopFacts, PathsInNat, ZenonT(60) DEF LoopOK
<1>10. i \in 1 .. Len(path[c]) /\ ~(i > Len(secrets))
  BY <1>1, <1>3, <1>4, <1>8, <1>9, OnionErrorAssumption
<1>11. s = secrets[i]
  BY <1>4, <1>5, <1>10, Zenon DEF SecretInRound
<1>12. T(c)[i].s = SharedSecret({OnionKey(path[c][i])} \cup T(c)[i].c)
  BY <1>6, <1>10, HopFacts, Zenon
<1> QED
  BY <1>0, <1>8, <1>10, <1>11, <1>12, KeyTags, Zenon

\* A MAC that matches is that of the failing hop, in the round of that hop and
\* with the circuit of this payment, even if the error was spoiled.
LEMMA MatchIsTrue ==
  ASSUME ErrorInv, NEW p \in Payment, p \notin foreign, dec[p].state = "loop",
         dec[p].found = Abs!Pending, NEW s, s = SecretInRound(dec[p]),
         NEW data, data = OnionEncrypt(s, dec[p].data), MacMatches(s, data)
  PROVE  /\ Abs!Failed(path[dec[p].circuit][dec[p].i], Tail(data)) = failure[p]
         /\ ~(dec[p].i > Len(path[dec[p].circuit]))
<1>1. HopsOK(p) /\ ErrorOK(p) /\ SenderOK(p)
  BY Zenon DEF ErrorInv
<1>2. LoopOK(p) /\ at[p] = 1
  BY Zenon, <1>1 DEF SenderOK
<1>3. PICK c : c = dec[p].circuit
  OBVIOUS
<1>4. PICK i : i = dec[p].i
  OBVIOUS
<1>5. PICK secrets : secrets = dec[p].secrets
  BY Zenon
<1>6. c \in Payment /\ HopsOK(c)
  BY Zenon, <1>1, <1>3 DEF SenderOK, ErrorInv
<1>7. PICK f : f = Last(p)
  BY ZenonT(60)
<1>8. /\ f \in 1 .. Len(path[p]) /\ f \in 1 .. Last(p)
      /\ f \in Nat /\ Len(path[p]) \in Nat
  <2>1. Len(path[p]) \in 1 .. NumMaxHops /\ Last(p) \in 0 .. Len(path[p])
    BY <1>1, HopFacts, Zenon
  <2>2. Len(path[p]) \in Nat /\ Last(p) \in Nat
    BY <2>1, HopsInNat, Zenon
  <2>3. 1 \in 0 .. Last(p)
    BY <1>1, <1>2, FailureFacts, ZenonT(60)
  <2> QED
    BY <1>7, <2>1, <2>2, <2>3
<1>9. s = encrypter[p][f] /\ Tail(data) = failure[p].msg
  <2>1. MatchesUnder(p, s, data)
    BY ZenonT(60) DEF MatchesUnder
  <2> QED
    BY <1>2, <1>7, <2>1, MatchingMac, Zenon
<1>10. s = T(p)[f].s
  BY Zenon, <1>1, <1>8, <1>9 DEF HopsOK
<1>11. s # DummySecret
  <2>1. T(p)[f].s = SharedSecret({OnionKey(path[p][f])} \cup T(p)[f].c)
    BY Zenon, <1>1, <1>8, HopFacts
  <2> QED
    BY Zenon, <1>10, <2>1, KeyTags
<1>12. s = secrets[i] /\ ~(i > Len(secrets))
  BY Zenon, <1>4, <1>5, <1>11 DEF SecretInRound
<1>13. /\ Len(secrets) = Len(path[c])
       /\ \A k \in 1 .. Len(path[c]) : secrets[k] = T(c)[k].s
  <2>1. secrets = GenerateSharedSecrets(path[c], SessionKey(c))
    BY Zenon, <1>2, <1>3, <1>5 DEF LoopOK
  <2> QED
    BY ZenonT(60), <1>6, <2>1, SecretsFacts
<1>14. i \in 1 .. Len(path[c])
  <2>1. i \in 1 .. NumMaxHops + 1 /\ Len(path[c]) \in Nat
    BY <1>2, <1>4, <1>6, HopFacts, PathsInNat, ZenonT(60) DEF LoopOK
  <2> QED
    BY <1>12, <1>13, <2>1, RoundOfHop, ZenonT(60)
<1>15. T(c)[i].s = T(p)[f].s
  BY ZenonT(60), <1>10, <1>12, <1>13, <1>14
<1>16. c = p /\ i = f
  BY ZenonT(60), <1>1, <1>6, <1>8, <1>14, <1>15, DifferentSecrets
<1>17. path[c][i] = path[p][f] /\ ~(i > Len(path[c]))
  BY <1>12, <1>13, <1>16, Zenon
<1>18. failure[p] = Abs!Failed(path[p][f], failure[p].msg)
  <2>1. at[p] > 0
    BY <1>2
  <2>2. PICK e \in Message : /\ failure[p] = Abs!Failed(path[p][Last(p)], Plaintext(e))
                             /\ failure[p].msg = Plaintext(e)
    BY ZenonT(60), <1>1, <2>1, ReportedFailure
  <2> QED
    BY Zenon, <1>7, <2>2
<1> QED
  BY <1>3, <1>4, <1>9, <1>17, <1>18, ZenonT(60)

\* If nothing was spoiled, a round takes off the layer of its hop, and the MAC
\* matches in the round of the failing hop.
LEMMA LayerOff ==
  ASSUME ErrorInv, NEW p \in Payment, dec[p].state = "loop",
         dec[p].found = Abs!Pending, p \notin spoiled, NEW s, s = SecretInRound(dec[p]),
         NEW data, data = OnionEncrypt(s, dec[p].data)
  PROVE  /\ dec[p].i \in 1 .. Last(p)
         /\ data = Wrapped(p, dec[p].i + 1)
         /\ dec[p].i = Last(p) => MacMatches(s, data)
<1>1. HopsOK(p) /\ ErrorOK(p) /\ SenderOK(p)
  BY Zenon DEF ErrorInv
<1>2. LoopOK(p) /\ at[p] = 1 /\ at[p] > 0 /\ dec[p].circuit = p
  BY <1>1 DEF SenderOK
<1>3. PICK i : i = dec[p].i
  OBVIOUS
<1>4. PICK secrets : secrets = dec[p].secrets
  OBVIOUS
<1>5. /\ i <= Last(p) /\ dec[p].data = Wrapped(p, i) /\ i \in 1 .. NumMaxHops + 1
      /\ secrets = GenerateSharedSecrets(path[p], SessionKey(p))
  BY ZenonT(60), <1>2, <1>3, <1>4 DEF LoopOK
<1>6. i \in 1 .. Last(p) /\ i \in 1 .. Len(path[p]) /\ Last(p) \in Nat
      /\ Len(path[p]) \in Nat
  <2>1. Len(path[p]) \in 1 .. NumMaxHops /\ Last(p) \in 0 .. Len(path[p])
    BY <1>1, HopFacts, Zenon
  <2>2. Len(path[p]) \in Nat /\ Last(p) \in Nat
    BY <2>1, HopsInNat, Zenon
  <2> QED
    BY <1>5, <2>1, <2>2, RoundBefore, ZenonT(60)
<1>7. Len(secrets) = Len(path[p]) /\ secrets[i] = T(p)[i].s
  BY ZenonT(60), <1>1, <1>5, <1>6, SecretsFacts
<1>8. s = secrets[i]
  <2>1. ~(i > Len(secrets))
    BY <1>6, <1>7
  <2> QED
    BY Zenon, <1>3, <1>4, <2>1 DEF SecretInRound
<1>9. s = encrypter[p][i]
  BY Zenon, <1>1, <1>6, <1>7, <1>8 DEF HopsOK
<1>10. data = Wrapped(p, i + 1)
  <2>1. OnionEncrypt(encrypter[p][i], Wrapped(p, i)) = Wrapped(p, i + 1)
    BY Zenon, <1>1, <1>2, <1>6, OneLayer
  <2> QED
    BY ZenonT(60), <1>5, <1>9, <2>1
<1>11. ASSUME i = Last(p)
       PROVE  MacMatches(s, data)
  <2>1. Wrapped(p, Last(p) + 1) = Original(p)
    BY Zenon, <1>1, <1>2, <1>6, OneLayer
  <2>2. data = Original(p)
    BY ZenonT(60), <1>10, <1>11, <2>1
  <2>3. Original(p)[1] = TrueMac(p) /\ Tail(Original(p)) = failure[p].msg
    BY Zenon, <1>1, <1>2, ReportedFailure
  <2>4. TrueMac(p) = UmMac(s, failure[p].msg)
    BY <1>9, <1>11 DEF TrueMac
  <2>5. data[1] = UmMac(s, Tail(data))
    BY <2>2, <2>3, <2>4, Zenon
  <2> QED
    BY <2>5, ZenonT(60) DEF MacMatches
<1> QED
  BY ZenonT(60), <1>3, <1>6, <1>10, <1>11

\* A round in which the MAC matches for the first time.
Match(d) ==
  LET data == OnionEncrypt(SecretInRound(d), d.data)
  IN  MacMatches(SecretInRound(d), data) /\ d.found = Abs!Pending

\* It looks up a node past the end of the path.
RoundPanics(p, d) ==
  /\ Match(d)
  /\ d.i > Len(path[d.circuit])
  /\ Finish(p, Abs!Panicked)

\* It leaves data and x behind.
RoundEnds(p, d, data, x) ==
  /\ ~Match(d) \/ d.i <= Len(path[d.circuit])
  /\ dec' = [dec EXCEPT ![p].i = d.i + 1, ![p].data = data, ![p].found = x]
  /\ report' = report

\* A round of DecryptError goes on, or looks a node up past the end of its path.
LEMMA RoundCases ==
  ASSUME NEW p \in Payment, DecryptRound(p), NEW d, d = dec[p],
         NEW data, data = OnionEncrypt(SecretInRound(d), d.data),
         NEW x, x = IF Match(d) THEN Abs!Failed(path[d.circuit][d.i], Tail(data))
                                ELSE d.found
  PROVE  RoundPanics(p, d) \/ RoundEnds(p, d, data, x)
BY ZenonT(60) DEF DecryptRound, Match, RoundPanics, RoundEnds

\* A round of DecryptError.
LEMMA DecryptRoundInv ==
  ASSUME ErrorInv, NEW p \in Payment, DecryptRound(p), ~Finish(p, Abs!Panicked)
  PROVE  ErrorInv'
<1>1. /\ dec[p].state = "loop" /\ dec[p].i <= NumMaxHops
      /\ UNCHANGED <<path, ephemeral, encrypter, blob, at, failure, spoiled, foreign,
                     faults>>
  BY DEF DecryptRound
<1>2. HopsOK(p) /\ ErrorOK(p) /\ SenderOK(p) /\ ShapesOK
  BY DEF ErrorInv
<1>3. LoopOK(p) /\ Inside(dec[p])
  BY <1>1, <1>2 DEF SenderOK
<1>4. PICK d : d = dec[p]
  OBVIOUS
<1>5. PICK s : s = SecretInRound(dec[p])
  OBVIOUS
<1>6. PICK data : data = OnionEncrypt(s, dec[p].data)
  OBVIOUS
<1>7. PICK x : x = IF Match(d) THEN Abs!Failed(path[d.circuit][d.i], Tail(data))
                   ELSE d.found
  OBVIOUS
<1>8. PICK e : e = [state |-> "loop", circuit |-> d.circuit, secrets |-> d.secrets,
                    i |-> d.i + 1, data |-> data, found |-> x]
  BY Zenon
<1>9. /\ ~Match(d) \/ d.i <= Len(path[d.circuit])
      /\ dec' = [dec EXCEPT ![p].i = d.i + 1, ![p].data = data, ![p].found = x]
      /\ report' = report
  <2>1. data = OnionEncrypt(SecretInRound(d), d.data)
    BY <1>4, <1>5, <1>6, Zenon
  <2>2. RoundPanics(p, d) \/ RoundEnds(p, d, data, x)
    BY <1>4, <1>7, <2>1, RoundCases, ZenonT(60)
  <2> QED
    BY <2>2, Zenon DEF RoundPanics, RoundEnds
<1>10. d = [state |-> "loop", circuit |-> d.circuit, secrets |-> d.secrets,
            i |-> d.i, data |-> d.data, found |-> d.found]
  BY <1>3, <1>4 DEF Inside
<1>11. /\ dec'[p] = e
       /\ \A q \in Payment \ {p} : dec'[q] = dec[q]
       /\ dec' = [q \in Payment |-> dec'[q]]
  <2>1. dec = [q \in Payment |-> dec[q]]
    BY <1>2 DEF ShapesOK
  <2>0. PICK n : n = d.i + 1
    OBVIOUS
  <2>2. PICK g : g = [d EXCEPT !.i = n, !.data = data, !.found = x]
    OBVIOUS
  <2>3. dec' = [dec EXCEPT ![p] = g]
    BY <1>4, <1>9, <2>0, <2>1, <2>2, ZenonT(60)
  <2>4. g = e
    <3>1. PICK c, t, j, b, y :
            /\ d = [state |-> "loop", circuit |-> c, secrets |-> t,
                    i |-> j, data |-> b, found |-> y]
            /\ c = d.circuit /\ t = d.secrets
      BY <1>10
    <3>2. d = [state |-> "loop", circuit |-> c, secrets |-> t,
               i |-> j, data |-> b, found |-> y]
      BY <3>1
    <3>3. g = [state |-> "loop", circuit |-> c, secrets |-> t,
               i |-> n, data |-> data, found |-> x]
      BY <2>2, <3>2, ZenonT(60)
    <3> QED
      BY <1>8, <2>0, <3>1, <3>3, ZenonT(60)
  <2> QED
    BY Zenon, <2>1, <2>3, <2>4
<1>12. SenderOnly(p)
  BY ZenonT(60), <1>1, <1>2, <1>9, <1>11 DEF SenderOnly, ShapesOK
<1>13. /\ e.state = "loop" /\ e.circuit = d.circuit /\ e.secrets = d.secrets
       /\ e.i = d.i + 1 /\ e.data = data /\ e.found = x /\ Inside(e)
  BY <1>8 DEF Inside
<1>14. /\ path' = path /\ encrypter' = encrypter /\ failure' = failure
       /\ spoiled' = spoiled /\ foreign' = foreign /\ at' = at /\ report' = report
  BY Zenon, <1>1, <1>9
<1>15. Last(p)' = Last(p) /\ TrueMac(p)' = TrueMac(p)
  BY <1>14, LayersStay
<1>0. Match(d) <=> MacMatches(s, data) /\ d.found = Abs!Pending
  BY <1>4, <1>5, <1>6, Zenon DEF Match
<1>16. x \in {Abs!Pending, failure[p]}
  <2>1. CASE Match(d)
    <3>1. x = Abs!Failed(path[d.circuit][d.i], Tail(data)) /\ MacMatches(s, data)
          /\ dec[p].found = Abs!Pending /\ dec[p].i <= Len(path[dec[p].circuit])
      BY Zenon, <1>0, <1>4, <1>7, <1>9, <2>1
    <3>2. p \notin foreign
      BY ZenonT(60), <1>1, <1>5, <1>6, <3>1, ForeignMatch
    <3>3. Abs!Failed(path[dec[p].circuit][dec[p].i], Tail(data)) = failure[p]
      BY ZenonT(60), <1>1, <1>5, <1>6, <3>1, <3>2, MatchIsTrue
    <3> QED
      BY Zenon, <1>4, <3>1, <3>3
  <2>2. CASE ~Match(d)
    BY ZenonT(60), <1>3, <1>4, <1>7, <2>2 DEF LoopOK
  <2> QED
    BY ZenonT(60), <2>1, <2>2
<1>17. /\ IsSeq(data) /\ Len(data) = OnionErrorLength
       /\ MacOK(p, dec[p].data[1]) /\ UmPart(data[1]) = UmPart(dec[p].data[1])
  <2>1. PICK b : b = dec[p].data
    BY ZenonT(60)
  <2>2. /\ IsSeq(b) /\ Len(b) = OnionErrorLength /\ Len(b) > 0
        /\ MacOK(p, b[1])
    BY <1>3, <2>1, OnionErrorAssumption DEF LoopOK, OnionErrorLength
  <2>3. /\ IsSeq(OnionEncrypt(s, b)) /\ Len(OnionEncrypt(s, b)) = Len(b)
        /\ UmPart(OnionEncrypt(s, b)[1]) = UmPart(b[1])
    BY ZenonT(60), <2>2, OnionEncryptFacts
  <2> QED
    BY Zenon, <1>6, <2>1, <2>2, <2>3
<1>18. d.i + 1 \in 1 .. NumMaxHops + 1
  BY <1>1, <1>3, <1>4, OnionErrorAssumption DEF LoopOK
<1>19. p \notin spoiled /\ x = Abs!Pending =>
         d.i + 1 <= Last(p) /\ data = Wrapped(p, d.i + 1)
  <2>1. SUFFICES ASSUME p \notin spoiled, x = Abs!Pending
                 PROVE  d.i + 1 <= Last(p) /\ data = Wrapped(p, d.i + 1)
    OBVIOUS
  <2>2. d.found = Abs!Pending
    BY <1>7, <2>1, VerdictsDiffer, Zenon
  <2>3. ~MacMatches(s, data)
    BY Zenon, <1>0, <1>7, <2>1, <2>2, VerdictsDiffer
  <2>4. /\ d.i \in 1 .. Last(p)
        /\ data = Wrapped(p, d.i + 1)
        /\ d.i = Last(p) => MacMatches(s, data)
    BY ZenonT(60), <1>1, <1>4, <1>5, <1>6, <2>1, <2>2, LayerOff
  <2>5. Last(p) \in Nat
    BY Zenon, <1>2, FailureFacts
  <2> QED
    BY <2>3, <2>4, <2>5
<1>20. Wrapped(p, dec[p].i)' = Wrapped(p, d.i + 1)
  <2>1. Original(p)' = Original(p)
    BY Zenon, <1>14, <1>15 DEF Original
  <2> QED
    BY Zenon, <1>11, <1>13, <1>14, <2>1 DEF Wrapped
<1>21. LoopOK(p)'
  <2>1. dec'[p].secrets = GenerateSharedSecrets(path'[dec'[p].circuit],
                                                SessionKey(dec'[p].circuit))
    BY ZenonT(60), <1>3, <1>4, <1>11, <1>13, <1>14 DEF LoopOK
  <2>2. dec'[p].i \in 1 .. NumMaxHops + 1
    BY <1>11, <1>13, <1>18
  <2>3. /\ IsSeq(dec'[p].data) /\ Len(dec'[p].data) = OnionErrorLength
        /\ MacOK(p, dec[p].data[1])'
    <3>1. dec'[p].data = data
      BY <1>11, <1>13, Zenon
    <3>2. MacOK(p, dec[p].data[1])'
      BY <1>14, <1>15, <1>17, <3>1, MacStays, Zenon DEF MacOK
    <3> QED
      BY <1>17, <3>1, <3>2, Zenon
  <2>4. dec'[p].found \in {Abs!Pending, failure'[p]}
    BY Zenon, <1>11, <1>13, <1>14, <1>16
  <2>5. p \notin spoiled' /\ dec'[p].found = Abs!Pending =>
          dec'[p].i <= Last(p)' /\ dec'[p].data = Wrapped(p, dec[p].i)'
    BY ZenonT(60), <1>11, <1>13, <1>14, <1>15, <1>19, <1>20
  <2> QED
    BY Zenon, <2>1, <2>2, <2>3, <2>4, <2>5 DEF LoopOK
<1>22. SenderOK(p)'
  BY ZenonT(60), <1>1, <1>2, <1>4, <1>11, <1>13, <1>14, <1>21 DEF SenderOK
<1> QED
  BY ZenonT(60), <1>12, <1>22, SenderOnlyInv

\* The panic of a round.
LEMMA PanicInv ==
  ASSUME ErrorInv, NEW p \in Payment, DecryptRound(p), Finish(p, Abs!Panicked)
  PROVE  ErrorInv'
<1>1. PICK r : r = Abs!Panicked
  OBVIOUS
<1>2. r # Abs!Pending /\ Finish(p, r)
  BY <1>1, VerdictsDiffer, Zenon
<1>3. /\ dec[p].state = "loop"
      /\ UNCHANGED <<path, ephemeral, encrypter, blob, at, failure, spoiled, foreign,
                     faults>>
  BY DEF DecryptRound
<1>4. at[p] = 1
  BY <1>3 DEF ErrorInv, SenderOK
<1> QED
  BY <1>2, <1>3, <1>4, FinishInv, Zenon

\* After the last round, the failure is found or the error was spoiled.
LEMMA VerdictIsTrue ==
  ASSUME ErrorInv, NEW p \in Payment, dec[p].state = "loop", dec[p].i > NumMaxHops
  PROVE  /\ at[p] = 1
         /\ failure[p] # Abs!NoFailure
         /\ failure[p] # Abs!Pending
         /\ report[p] = Abs!Pending
         /\ dec[p].found = Abs!Pending \/ dec[p].found = failure[p]
         /\ dec[p].found = Abs!Pending => p \in spoiled
<1>1. HopsOK(p) /\ ErrorOK(p) /\ SenderOK(p)
  BY ZenonT(60) DEF ErrorInv
<1>2. LoopOK(p) /\ at[p] = 1 /\ at[p] > 0 /\ report[p] = Abs!Pending
  BY <1>1 DEF SenderOK
<1>3. failure[p] # Abs!NoFailure
  BY <1>1, <1>2, FailureFacts
<1>4. failure[p] # Abs!Pending
  BY ZenonT(60), <1>1, <1>2, VerdictsDiffer DEF ErrorOK
<1>5. Last(p) <= NumMaxHops
  BY <1>1, HopFacts, OnionErrorAssumption
<1>6. dec[p].found = Abs!Pending => p \in spoiled
  <2>1. SUFFICES ASSUME dec[p].found = Abs!Pending, p \notin spoiled
                 PROVE  FALSE
    OBVIOUS
  <2>2. dec[p].i <= Last(p) /\ dec[p].i \in 1 .. NumMaxHops + 1
    BY <1>2, <2>1 DEF LoopOK
  <2>3. Last(p) \in Nat
    BY Zenon, <1>1, FailureFacts
  <2> QED
    BY <1>5, <2>2, <2>3, OnionErrorAssumption
<1> QED
  BY <1>2, <1>3, <1>4, <1>6 DEF LoopOK

\* DecryptError returns.
LEMMA DecryptReturnInv ==
  ASSUME ErrorInv, NEW p \in Payment, DecryptReturn(p)
  PROVE  ErrorInv'
<1>1. /\ dec[p].state = "loop" /\ dec[p].i > NumMaxHops
      /\ UNCHANGED <<path, ephemeral, encrypter, blob, at, failure, spoiled, foreign,
                     faults>>
  BY DEF DecryptReturn
<1>2. PICK r : r = IF dec[p].found = Abs!Pending THEN Abs!Unknown ELSE dec[p].found
  OBVIOUS
<1>3. Finish(p, r)
  BY <1>2 DEF DecryptReturn
<1>4. r # Abs!Pending
  BY <1>2, VerdictsDiffer
<1>5. at[p] = 1
  BY <1>1, VerdictIsTrue
<1> QED
  BY <1>1, <1>3, <1>4, <1>5, FinishInv

\* A stuttering step changes nothing.
LEMMA StutterInv == ErrorInv /\ UNCHANGED vars => ErrorInv'
<1> SUFFICES ASSUME ErrorInv, UNCHANGED vars
             PROVE  ErrorInv'
  OBVIOUS
<1>1. /\ path' = path /\ ephemeral' = ephemeral /\ encrypter' = encrypter
      /\ blob' = blob /\ at' = at /\ dec' = dec /\ failure' = failure
      /\ report' = report /\ spoiled' = spoiled /\ foreign' = foreign
      /\ faults' = faults
  BY DEF vars
<1>2. faults \in Nat /\ faults' \in Nat /\ faults <= faults'
  BY <1>1, OnionErrorAssumption DEF ErrorInv
<1>3. ASSUME NEW p \in Payment
      PROVE  HopsOK(p)' /\ ErrorOK(p)' /\ SenderOK(p)'
  <2>1. HopsOK(p) /\ ErrorOK(p) /\ SenderOK(p)
    BY DEF ErrorInv
  <2> QED
    BY <1>1, <1>2, <2>1, OthersStay
<1>4. ShapesOK'
  BY <1>1 DEF ErrorInv, ShapesOK
<1> QED
  BY <1>1, <1>3, <1>4 DEF ErrorInv

\* The invariant is inductive.
LEMMA NextInv == ErrorInv /\ [Next]_vars => ErrorInv'
<1> SUFFICES ASSUME ErrorInv, [Next]_vars
             PROVE  ErrorInv'
  OBVIOUS
<1>1. CASE UNCHANGED vars
  BY <1>1, StutterInv
<1>2. ASSUME NEW p \in Payment, NEW P \in {ephemeral[p], OffCurve},
             NewOnionErrorEncrypter(p, P)
      PROVE  ErrorInv'
  BY <1>1, <1>2, NewOnionErrorEncrypterInv
<1>3. ASSUME NEW p \in Payment, NEW e \in Message, Fail(p, e)
      PROVE  ErrorInv'
  BY <1>3, FailInv
<1>4. ASSUME NEW p \in Payment, Damage(p)
      PROVE  ErrorInv'
  BY <1>4, DamageInv
<1>5. ASSUME NEW p \in Payment, NEW q \in Payment, Mistake(p, q)
      PROVE  ErrorInv'
  BY <1>5, MistakeInv
<1>6. ASSUME NEW p \in Payment, Return(p)
      PROVE  ErrorInv'
  BY <1>6, BackwardInv, DecryptErrorInv, DecryptRoundInv, PanicInv, DecryptReturnInv
  DEF Return
<1>7. ASSUME NEW p \in Payment, Foreign(p)
      PROVE  ErrorInv'
  BY <1>7, ForeignInv
<1> QED
  BY <1>1, <1>2, <1>3, <1>4, <1>5, <1>6, <1>7 DEF Next

-----------------------------------------------------------------------------
(***************************************************************************)
(* The theorems.                                                           *)
(***************************************************************************)

\* In every reachable state the hops have the sender's secrets, an error that no hop
\* replaced holds no MAC but the one the failing hop computed, and an error that
\* nothing spoiled is the reported message under the layers of the hops it has passed.
THEOREM ErrorInvariant == Spec => []ErrorInv
<1>1. Init => ErrorInv
  BY InitInv
<1>2. ErrorInv /\ [Next]_vars => ErrorInv'
  BY NextInv
<1> QED
  BY <1>1, <1>2, PTL DEF Spec

\* What the invariant says of the types.
LEMMA InvTypes == ErrorInv => TypeOK
<1> SUFFICES ASSUME ErrorInv
             PROVE  TypeOK
  OBVIOUS
<1>1. faults \in 0 .. MaxFaults
  BY DEF ErrorInv
<1>2. ASSUME NEW p \in Payment
      PROVE  /\ path[p] \in PathsOf[p]
             /\ Len(encrypter[p]) \in 0 .. Len(path[p])
             /\ at[p] \in 0 .. Len(encrypter[p])
             /\ Len(blob[p]) <= IF failure[p] = Abs!NoFailure THEN 0
                                ELSE 1 + Len(failure[p].msg) + faults
             /\ dec[p].state = "loop" =>
                  /\ dec[p].i \in 1 .. NumMaxHops + 1
                  /\ Len(dec[p].data) = OnionErrorLength
  <2>1. HopsOK(p) /\ ErrorOK(p) /\ SenderOK(p)
    BY Zenon DEF ErrorInv
  <2>2. path[p] \in PathsOf[p] /\ Len(encrypter[p]) \in 0 .. Len(path[p])
    BY Zenon, <2>1, HopFacts DEF HopsOK, Last
  <2>3. at[p] \in 0 .. Len(encrypter[p])
    BY Zenon, <2>1, FailureFacts DEF Last
  <2>4. failure[p] = Abs!NoFailure => Len(blob[p]) <= 0
    <3>1. failure[p] = Abs!NoFailure => blob[p] = <<>>
      BY <2>1, FailureFacts DEF ErrorOK
    <3> QED
      BY <3>1, SMTT(30)
  <2>5. failure[p] # Abs!NoFailure => Len(blob[p]) <= 1 + Len(failure[p].msg) + faults
    <3>1. failure[p] # Abs!NoFailure => at[p] > 0
      BY <2>1, FailureFacts
    <3>2. at[p] > 0 => Len(blob[p]) \in 1 .. 1 + Len(failure[p].msg) + faults
      BY Zenon, <2>1 DEF ErrorOK
    <3> QED
      BY <3>1, <3>2
  <2>6. dec[p].state = "loop" => /\ dec[p].i \in 1 .. NumMaxHops + 1
                                 /\ Len(dec[p].data) = OnionErrorLength
    BY <2>1 DEF SenderOK, LoopOK
  <2> QED
    BY <2>2, <2>3, <2>4, <2>5, <2>6
<1> QED
  BY <1>1, <1>2 DEF TypeOK

\* Encrypters, errors and the loop of DecryptError stay within the path, the
\* sizes and the rounds that the code allows.
THEOREM ErrorTypes == Spec => []TypeOK
BY ErrorInvariant, InvTypes, PTL

\* What the invariant says of the secrets.
LEMMA InvSecrets == ErrorInv => SecretsAgree
<1> SUFFICES ASSUME ErrorInv, NEW p \in Payment, dec[p].state = "loop",
                    dec[p].circuit = p
             PROVE  encrypter[p] = SubSeq(dec[p].secrets, 1, Len(encrypter[p]))
  BY Zenon DEF SecretsAgree
<1>1. HopsOK(p) /\ LoopOK(p)
  BY DEF ErrorInv, SenderOK
<1>2. PICK t : t = dec[p].secrets
  OBVIOUS
<1>3. PICK n : n = Len(encrypter[p])
  BY Zenon
<1>4. PICK enc : enc = encrypter[p]
  OBVIOUS
<1>5. /\ IsSeq(t)
      /\ Len(t) = Len(path[p])
      /\ \A k \in 1 .. Len(path[p]) : t[k] = T(p)[k].s
  <2>1. t = GenerateSharedSecrets(path[p], SessionKey(p))
    BY Zenon, <1>1, <1>2 DEF LoopOK
  <2> QED
    BY Zenon, <1>1, <2>1, SecretsFacts
<1>6. /\ IsSeq(enc) /\ Len(enc) = n
      /\ \A k \in 1 .. n : enc[k] = T(p)[k].s
      /\ n \in 0 .. Len(path[p]) /\ Len(path[p]) \in Nat
  BY <1>1, <1>3, <1>4, HopFacts, OnionErrorAssumption DEF HopsOK, Last
<1>7. PICK u : u = SubSeq(t, 1, n)
  BY Zenon
<1>8. IsSeq(u) /\ Len(u) = n /\ \A k \in 1 .. n : u[k] = t[k]
  <2>1. PICK S : t \in Seq(S)
    BY <1>5, SeqOver, Zenon
  <2>2. n \in Nat /\ n <= Len(t)
    BY <1>5, <1>6
  <2>3. /\ SubSeq(t, 1, n) \in Seq(S)
        /\ Len(SubSeq(t, 1, n)) = n
        /\ \A k \in 1 .. n : SubSeq(t, 1, n)[k] = t[k]
    BY <2>1, <2>2
  <2>4. u \in Seq(S) /\ Len(u) = n /\ \A k \in 1 .. n : u[k] = t[k]
    BY <1>7, <2>3, Zenon
  <2> QED
    BY <2>4 DEF IsSeq
<1>9. \A k \in 1 .. Len(enc) : enc[k] = u[k]
  BY <1>5, <1>6, <1>8
<1>10. enc = u
  BY Zenon, <1>6, <1>8, <1>9, SeqEqual
<1> QED
  BY <1>2, <1>3, <1>4, <1>7, <1>10

\* Hop k and the sender agree on the secret of hop k, also when a node has several
\* places in the path: generateSharedSecrets blinds the keys as the hops do.
THEOREM SecretsAreShared == Spec => []SecretsAgree
BY ErrorInvariant, InvSecrets, PTL

-----------------------------------------------------------------------------
(***************************************************************************)
(* OnionError implements FailureReport.                                    *)
(***************************************************************************)

\* DecryptError refuses an error of a wrong length: the message has a wrong length
\* as well, or the error was spoiled.
LEMMA WrongLength ==
  ASSUME ErrorInv, NEW p \in Payment, at[p] = 1, p \notin spoiled,
         Len(blob[p]) # OnionErrorLength
  PROVE  failure[p].msg \notin
           {Plaintext(e) : e \in {f \in Message : SizeOf[f] = DataCells}}
<1>1. HopsOK(p) /\ ErrorOK(p) /\ at[p] > 0
  BY DEF ErrorInv
<1>2. PICK o : o = Original(p)
  BY Zenon
<1>3. PICK e \in Message : IsSeq(o) /\ Len(o) = 1 + SizeOf[e]
                           /\ Len(failure[p].msg) = SizeOf[e]
  BY <1>1, <1>2, ReportedFailure
<1>4. PICK enc : enc = encrypter[p]
  BY Zenon
<1>5. blob[p] = Layers(o, enc, 1)
  BY Zenon, <1>1, <1>2, <1>4 DEF ErrorOK, Wrapped
<1>6. Len(Layers(o, enc, 1)) = Len(o)
  BY <1>3, LayersSeq
<1>7. SizeOf[e] # DataCells
  BY Zenon, <1>3, <1>5, <1>6 DEF OnionErrorLength
<1>8. ASSUME NEW f \in Message, SizeOf[f] = DataCells
      PROVE  failure[p].msg # Plaintext(f)
  <2>1. Len(Plaintext(f)) = SizeOf[f]
    BY PlaintextFacts
  <2> QED
    BY <1>3, <1>7, <1>8, <2>1
<1> QED
  BY <1>8

\* The steps of the hops and of the network.
LEMMA HopsRefine ==
  ASSUME ErrorInv, NEW p \in Payment
  PROVE  /\ \A P : NewOnionErrorEncrypter(p, P) => UNCHANGED Abs!reportVars
         /\ \A e \in Message : Fail(p, e) => Abs!ReportNext
         /\ Backward(p) => UNCHANGED Abs!reportVars
         /\ Damage(p) => Abs!ReportNext
         /\ Foreign(p) => Abs!ReportNext
         /\ \A q : Mistake(p, q) => Abs!ReportNext
<1>1. HopsOK(p)
  BY DEF ErrorInv
<1>2. ASSUME NEW P, NewOnionErrorEncrypter(p, P)
      PROVE  UNCHANGED Abs!reportVars
  BY <1>2 DEF NewOnionErrorEncrypter, vars, Abs!reportVars
<1>3. ASSUME NEW e \in Message, Fail(p, e)
      PROVE  Abs!ReportNext
  <2>1. /\ Last(p) > 0
        /\ Abs!Fails(p, path[p][Last(p)], Plaintext(e))
    BY Zenon, <1>3 DEF Fail, Last
  <2>2. path[p][Last(p)] \in Node
    <3>1. Last(p) \in 1 .. Len(path[p])
      BY <1>1, <2>1, HopFacts, OnionErrorAssumption
    <3> QED
      BY Zenon, <1>1, <3>1, HopFacts
  <2>3. Plaintext(e) \in {Plaintext(f) : f \in Message}
    OBVIOUS
  <2> QED
    BY Zenon, <2>1, <2>2, <2>3 DEF Abs!ReportNext
<1>4. ASSUME Backward(p)
      PROVE  UNCHANGED Abs!reportVars
  BY <1>4 DEF Backward, Abs!reportVars
<1>5. ASSUME Damage(p)
      PROVE  Abs!ReportNext
  BY <1>5 DEF Damage, Abs!ReportNext
<1>6. ASSUME NEW q, Mistake(p, q)
      PROVE  Abs!ReportNext
  BY <1>6 DEF Mistake, Abs!ReportNext
<1>7. ASSUME Foreign(p)
      PROVE  Abs!ReportNext
  BY <1>7 DEF Foreign, Abs!ReportNext
<1> QED
  BY <1>2, <1>3, <1>4, <1>5, <1>6, <1>7

\* The steps of the sender.
LEMMA SenderRefines ==
  ASSUME ErrorInv, NEW p \in Payment
  PROVE  /\ DecryptError(p) => Abs!ReportNext \/ UNCHANGED Abs!reportVars
         /\ DecryptRound(p) => Abs!ReportNext \/ UNCHANGED Abs!reportVars
         /\ DecryptReturn(p) => Abs!ReportNext
<1>1. HopsOK(p) /\ ErrorOK(p) /\ SenderOK(p)
  BY DEF ErrorInv
<1>2. ASSUME DecryptError(p)
      PROVE  Abs!ReportNext \/ UNCHANGED Abs!reportVars
  <2>1. /\ at[p] = 1 /\ dec[p].state = "idle"
        /\ failure' = failure /\ spoiled' = spoiled /\ foreign' = foreign
    BY <1>2 DEF DecryptError
  <2>2. CASE Len(blob[p]) # OnionErrorLength
    <3>1. report' = [report EXCEPT ![p] = Abs!Unknown]
      BY Zenon, <1>2, <2>2 DEF DecryptError, Finish
    <3>2. failure[p] # Abs!NoFailure /\ report[p] = Abs!Pending
      BY <1>1, <2>1, FailureFacts DEF SenderOK
    <3>3. p \in spoiled \/ failure[p].msg \notin
            {Plaintext(e) : e \in {f \in Message : SizeOf[f] = DataCells}}
      BY Zenon, <2>1, <2>2, WrongLength
    <3>4. Abs!Reported(p)
      BY Zenon, <2>1, <3>1, <3>2, <3>3 DEF Abs!Reported
    <3> QED
      BY <3>4 DEF Abs!ReportNext
  <2>3. CASE Len(blob[p]) = OnionErrorLength
    <3>1. report' = report
      BY <1>2, <2>3 DEF DecryptError
    <3> QED
      BY <2>1, <3>1 DEF Abs!reportVars
  <2> QED
    BY Zenon, <2>2, <2>3
<1>3. ASSUME DecryptRound(p)
      PROVE  Abs!ReportNext \/ UNCHANGED Abs!reportVars
  <2>1. /\ dec[p].state = "loop"
        /\ failure' = failure /\ spoiled' = spoiled /\ foreign' = foreign
    BY <1>3 DEF DecryptRound
  <2>2. PICK d : d = dec[p]
    OBVIOUS
  <2>3. PICK s : s = SecretInRound(d)
    OBVIOUS
  <2>4. PICK data : data = OnionEncrypt(s, d.data)
    OBVIOUS
  <2>5. CASE RoundPanics(p, d)
    <3>1. report' = [report EXCEPT ![p] = Abs!Panicked]
      BY <2>5, Zenon DEF RoundPanics, Finish
    <3>2. failure[p] # Abs!NoFailure /\ report[p] = Abs!Pending
      BY <1>1, <2>1, FailureFacts DEF SenderOK
    <3>3. s = SecretInRound(dec[p]) /\ data = OnionEncrypt(s, dec[p].data)
      BY <2>2, <2>3, <2>4, Zenon
    <3>4. MacMatches(s, data) /\ dec[p].found = Abs!Pending
      BY <2>2, <2>3, <2>4, <2>5, Zenon DEF RoundPanics, Match
    <3>5. p \in foreign
      BY <2>1, <2>2, <2>5, <3>3, <3>4, MatchIsTrue, ZenonT(60) DEF RoundPanics
    <3>6. Abs!Reported(p)
      BY <2>1, <3>1, <3>2, <3>5, Zenon DEF Abs!Reported
    <3> QED
      BY <3>6 DEF Abs!ReportNext
  <2>6. CASE report' = report
    BY <2>1, <2>6 DEF Abs!reportVars
  <2> QED
    <3>1. PICK x : x = IF Match(d) THEN Abs!Failed(path[d.circuit][d.i], Tail(data))
                       ELSE d.found
      OBVIOUS
    <3>2. data = OnionEncrypt(SecretInRound(d), d.data)
      BY <2>3, <2>4, Zenon
    <3>3. RoundPanics(p, d) \/ RoundEnds(p, d, data, x)
      BY <1>3, <2>2, <3>1, <3>2, RoundCases, ZenonT(60)
    <3> QED
      BY <2>5, <2>6, <3>3, Zenon DEF RoundEnds
<1>4. ASSUME DecryptReturn(p)
      PROVE  Abs!ReportNext
  <2>1. /\ dec[p].state = "loop" /\ dec[p].i > NumMaxHops
        /\ failure' = failure /\ spoiled' = spoiled /\ foreign' = foreign
        /\ report' = [report EXCEPT ![p] =
                        IF dec[p].found = Abs!Pending THEN Abs!Unknown ELSE dec[p].found]
    BY <1>4 DEF DecryptReturn, Finish
  <2>2. /\ failure[p] # Abs!NoFailure
        /\ failure[p] # Abs!Pending
        /\ report[p] = Abs!Pending
        /\ dec[p].found = Abs!Pending \/ dec[p].found = failure[p]
        /\ dec[p].found = Abs!Pending => p \in spoiled
    BY <2>1, VerdictIsTrue
  <2>3. CASE dec[p].found = Abs!Pending
    <3>1. report' = [report EXCEPT ![p] = Abs!Unknown] /\ p \in spoiled
      BY <2>1, <2>2, <2>3
    <3>2. Abs!Reported(p)
      BY <2>1, <2>2, <3>1, Zenon DEF Abs!Reported
    <3> QED
      BY <3>2 DEF Abs!ReportNext
  <2>4. CASE dec[p].found # Abs!Pending
    <3>1. report' = [report EXCEPT ![p] = failure[p]]
      BY <2>1, <2>2, <2>4, Zenon
    <3>2. Abs!Reported(p)
      BY <2>1, <2>2, <3>1, Zenon DEF Abs!Reported
    <3> QED
      BY <3>2 DEF Abs!ReportNext
  <2> QED
    BY Zenon, <2>3, <2>4
<1> QED
  BY <1>2, <1>3, <1>4

\* Every step is a step of FailureReport, or leaves its variables alone.
LEMMA StepRefines == ErrorInv /\ [Next]_vars => [Abs!ReportNext]_Abs!reportVars
<1> SUFFICES ASSUME ErrorInv, [Next]_vars
             PROVE  Abs!ReportNext \/ UNCHANGED Abs!reportVars
  OBVIOUS
<1>1. CASE UNCHANGED vars
  BY <1>1 DEF vars, Abs!reportVars
<1>2. CASE Next
  <2>1. PICK p \in Payment :
          \/ \E P \in {ephemeral[p], OffCurve} : NewOnionErrorEncrypter(p, P)
          \/ \E e \in Message : Fail(p, e)
          \/ Damage(p)
          \/ Foreign(p)
          \/ \E q \in Payment \ {p} : Mistake(p, q)
          \/ Return(p)
    BY <1>2 DEF Next
  <2> QED
    BY <2>1, HopsRefine, SenderRefines DEF Return
<1> QED
  BY <1>1, <1>2

\* DecryptError blames the node that reported the failure, with the very message
\* it reported, or nobody; and nobody only if the message has a wrong length or
\* the error was spoiled.  It looks up a node past the end of the path, and
\* panics, only if a hop sent bytes with a MAC under the dummy secret.
THEOREM Refinement == Spec => ImplementsFailureReport
<1>1. Init => Abs!ReportInit
  BY DEF Init
<1>2. ErrorInv /\ [Next]_vars => [Abs!ReportNext]_Abs!reportVars
  BY StepRefines
<1> QED
  BY <1>1, <1>2, ErrorInvariant, PTL DEF Spec, ImplementsFailureReport, Abs!ReportSpec
=============================================================================
