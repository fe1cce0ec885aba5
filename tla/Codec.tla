-------------------------------- MODULE Codec --------------------------------
(***************************************************************************)
(* The values DU and UE encode by hand: the cell's PLMN identity, of which *)
(* the DU has two encoders and a constant, and measured signal strength,   *)
(* which the UE encodes and the DU decodes.                                *)
(***************************************************************************)
EXTENDS Integers, Sequences

Digit == 0 .. 9
PlmnId == [mcc : [1 .. 3 -> Digit], mnc : [1 .. 2 -> Digit] \cup [1 .. 3 -> Digit]]

\* The six half-bytes of the three octets, high half first.
PlmnBytes == [1 .. 6 -> 0 .. 15]

\* The 3GPP order (TS 24.008) is MCC2 MCC1, MNC3 MCC3, MNC2 MNC1; with three
\* digits, the MNC's come in another one here.
convertMccMncToPlmn(id) ==
    LET c == id.mcc
        n == id.mnc
    IN  IF Len(n) = 2 THEN <<c[2], c[1], 15, c[3], n[2], n[1]>>
        ELSE <<c[2], c[1], n[1], c[3], n[3], n[2]>>

\* sendUeContextSetupResponse
responsePlmn(id) ==
    LET c == id.mcc
        n == id.mnc
    IN  <<c[2], c[1], IF Len(n) = 3 THEN n[3] ELSE 15, c[3], n[2], n[1]>>

\* The cell identity of the F1 Setup Request: 152, 249, 225, which is meant
\* to be that of 999-70.
setupPlmn == <<9, 8, 15, 9, 14, 1>>

\* When the two encoders agree, as a fact about the digits.
TwoDigitsOrOne(id) == Len(id.mnc) = 3 => id.mnc[1] = id.mnc[2] /\ id.mnc[2] = id.mnc[3]

------------------------------------------------------------------------------
(* RSRP_Range, 0 .. 127 for -156 .. -29 dBm; uint64 in a message            *)

\* uint64(rsrp + 156), here with 16 bits.
EncodeRsrp(dBm) == (dBm + 156) % 65536

\* int64(value) - 156
DecodeRsrp(value) == value - 156

A3Offset == 3
A3(target, serving) == target > serving + A3Offset
==============================================================================
