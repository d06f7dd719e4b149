---------------------------- MODULE MCHelperPipe ----------------------------
(* Small instances of HelperPipe for TLC.                                  *)
EXTENDS HelperPipe
=============================================================================
