----------------------------- MODULE MCSerialTee ----------------------------
(* TLC instances of SerialTee.                                             *)
EXTENDS SerialTee
=============================================================================
