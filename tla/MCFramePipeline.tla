--------------------------- MODULE MCFramePipeline ---------------------------
(* Small instances of FramePipeline for TLC.                               *)
EXTENDS FramePipeline

(* A source of each kind is named after it.                                *)
OwnKind == [s \in Sources |-> s]
=============================================================================
