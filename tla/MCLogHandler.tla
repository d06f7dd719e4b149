---------------------------- MODULE MCLogHandler ----------------------------
(* A small instance of LogHandler for TLC.                                 *)
EXTENDS LogHandler
=============================================================================
