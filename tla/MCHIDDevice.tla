---------------------------- MODULE MCHIDDevice -----------------------------
(* Small instances of HIDDevice for TLC.                                   *)
EXTENDS HIDDevice
=============================================================================
