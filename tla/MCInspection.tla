---------------------------- MODULE MCInspection ----------------------------
(* Small instances of Inspection for TLC.                                  *)
EXTENDS Inspection
=============================================================================
