---------------------------- MODULE MCUeContext ----------------------------
(* A small instance of UeContext for TLC.                                   *)
EXTENDS UeContext
============================================================================
