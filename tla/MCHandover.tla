----------------------------- MODULE MCHandover -----------------------------
(* A small instance of Handover for TLC.                                    *)
EXTENDS Handover

\* 999-70, as in config.yml.
OnePlmn == {[mcc |-> <<9, 9, 9>>, mnc |-> <<7, 0>>]}
ServingDbm == -80
TargetDbm == -75
==============================================================================
