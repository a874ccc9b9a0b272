------------------------- MODULE MCAtomicPublication -------------------------
(* Small instances of AtomicPublication for TLC.                           *)
EXTENDS AtomicPublication
=============================================================================
