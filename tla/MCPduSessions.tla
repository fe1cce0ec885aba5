---------------------------- MODULE MCPduSessions ----------------------------
(* A small instance of PduSessions for TLC.                                 *)
EXTENDS PduSessions
==============================================================================
