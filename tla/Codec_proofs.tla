---------------------------- MODULE Codec_proofs ----------------------------
(* What the hand-written encodings of Codec do, for every value.            *)
EXTENDS Codec, TLAPS

\* An MNC of two or three digits is a sequence of that length.
LEMMA MncLength ==
    ASSUME NEW id \in PlmnId
    PROVE  /\ Len(id.mnc) \in {2, 3}
           /\ \A i \in 1 .. Len(id.mnc) : id.mnc[i] \in Digit
           /\ \A i \in 1 .. 3 : id.mcc[i] \in Digit
<1>1. CASE id.mnc \in [1 .. 2 -> Digit]
  <2>1. Len(id.mnc) = 2
    BY <1>1 DEF Digit
  <2>. QED  BY <1>1, <2>1 DEF PlmnId, Digit
<1>2. CASE id.mnc \in [1 .. 3 -> Digit]
  <2>1. Len(id.mnc) = 3
    BY <1>2 DEF Digit
  <2>. QED  BY <1>2, <2>1 DEF PlmnId, Digit
<1>. QED  BY <1>1, <1>2 DEF PlmnId

\* The DU's encoders fill six half-bytes.
LEMMA EncodersType ==
    ASSUME NEW id \in PlmnId
    PROVE  /\ convertMccMncToPlmn(id) \in PlmnBytes
           /\ responsePlmn(id) \in PlmnBytes
           /\ setupPlmn \in PlmnBytes
<1>1. /\ Len(id.mnc) \in {2, 3}
      /\ \A i \in 1 .. Len(id.mnc) : id.mnc[i] \in Digit
      /\ \A i \in 1 .. 3 : id.mcc[i] \in Digit
  BY MncLength
<1>2. /\ id.mcc[1] \in 0 .. 15 /\ id.mcc[2] \in 0 .. 15 /\ id.mcc[3] \in 0 .. 15
      /\ id.mnc[1] \in 0 .. 15 /\ id.mnc[2] \in 0 .. 15
      /\ Len(id.mnc) = 3 => id.mnc[3] \in 0 .. 15
  BY <1>1 DEF Digit
<1>3. convertMccMncToPlmn(id) \in PlmnBytes
  <2>1. CASE Len(id.mnc) = 2
    BY <1>2, <2>1 DEF convertMccMncToPlmn, PlmnBytes
  <2>2. CASE Len(id.mnc) = 3
    BY <1>2, <2>2 DEF convertMccMncToPlmn, PlmnBytes
  <2>. QED  BY <1>1, <2>1, <2>2
<1>4. responsePlmn(id) \in PlmnBytes
  <2>1. CASE Len(id.mnc) = 2
    BY <1>2, <2>1 DEF responsePlmn, PlmnBytes
  <2>2. CASE Len(id.mnc) = 3
    BY <1>2, <2>2 DEF responsePlmn, PlmnBytes
  <2>. QED  BY <1>1, <2>1, <2>2
<1>5. setupPlmn \in PlmnBytes
  BY DEF setupPlmn, PlmnBytes
<1>. QED  BY <1>3, <1>4, <1>5

\* The two encoders of a PLMN identity (f1ap_client.go:318 and
\* ue_context_setup.go:131) agree exactly on MNCs of two digits, and of three
\* equal ones.
THEOREM EncodersAgree ==
    ASSUME NEW id \in PlmnId
    PROVE  convertMccMncToPlmn(id) = responsePlmn(id) <=> TwoDigitsOrOne(id)
<1>1. /\ Len(id.mnc) \in {2, 3}
      /\ \A i \in 1 .. Len(id.mnc) : id.mnc[i] \in Digit
      /\ \A i \in 1 .. 3 : id.mcc[i] \in Digit
  BY MncLength
<1>2. \A a, b, c, d, e, f, g, h, i, j, k, l :
         <<a, b, c, d, e, f>> = <<g, h, i, j, k, l>>
         <=> a = g /\ b = h /\ c = i /\ d = j /\ e = k /\ f = l
  OBVIOUS
<1>3. CASE Len(id.mnc) = 2
  BY <1>3 DEF convertMccMncToPlmn, responsePlmn, TwoDigitsOrOne
<1>4. CASE Len(id.mnc) = 3
  BY <1>1, <1>2, <1>4 DEF convertMccMncToPlmn, responsePlmn, TwoDigitsOrOne
<1>. QED  BY <1>1, <1>3, <1>4

\* The identity in the F1 setup's cell (f1ap_client.go:241) is no PLMN's
\* encoding, by either encoder.
THEOREM SetupPlmnDiffers ==
    ASSUME NEW id \in PlmnId
    PROVE  setupPlmn # convertMccMncToPlmn(id) /\ setupPlmn # responsePlmn(id)
<1>1. /\ Len(id.mnc) \in {2, 3}
      /\ \A i \in 1 .. Len(id.mnc) : id.mnc[i] \in Digit
  BY MncLength
<1>2. \A a, b, c, d, e, f, g, h, i, j, k, l :
         <<a, b, c, d, e, f>> = <<g, h, i, j, k, l>> => c = i /\ e = k
  OBVIOUS
<1>3. id.mnc[1] \in 0 .. 9 /\ id.mnc[2] \in 0 .. 9
  BY <1>1 DEF Digit
<1>4. setupPlmn # convertMccMncToPlmn(id)
  BY <1>1, <1>2, <1>3 DEF convertMccMncToPlmn, setupPlmn
<1>5. setupPlmn # responsePlmn(id)
  BY <1>1, <1>2, <1>3 DEF responsePlmn, setupPlmn
<1>. QED  BY <1>4, <1>5

\* The DU decodes the signal strength that the UE measured, for every one
\* that RSRP_Range can say (ue_handover.go:62, du_rrc_handler.go:99, 122).
THEOREM RsrpRoundTrip ==
    ASSUME NEW dBm \in -156 .. -29
    PROVE  EncodeRsrp(dBm) \in 0 .. 127 /\ DecodeRsrp(EncodeRsrp(dBm)) = dBm
<1>1. EncodeRsrp(dBm) = dBm + 156
  BY DEF EncodeRsrp
<1>. QED  BY <1>1 DEF DecodeRsrp

\* UE and DU agree on the A3 condition.
COROLLARY A3Agrees ==
    ASSUME NEW serving \in -156 .. -29, NEW target \in -156 .. -29
    PROVE  A3(DecodeRsrp(EncodeRsrp(target)), DecodeRsrp(EncodeRsrp(serving)))
           <=> A3(target, serving)
BY RsrpRoundTrip
==============================================================================
