---------------------------- MODULE MCDuHandover ----------------------------
(* A small instance of DuHandover for TLC.                                  *)
EXTENDS DuHandover

Id(mcc, mnc) == [mcc |-> mcc, mnc |-> mnc]

\* 999-70 as in config.yml, and 208-950 as in test/message_test.go.
OnePlmn == {Id(<<9, 9, 9>>, <<7, 0>>)}
ThreeDigits == {Id(<<2, 0, 8>>, <<9, 5, 0>>)}
=============================================================================
