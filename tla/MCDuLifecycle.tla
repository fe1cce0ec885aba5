--------------------------- MODULE MCDuLifecycle ---------------------------
(* A small instance of DuLifecycle for TLC.                                 *)
EXTENDS DuLifecycle
============================================================================
