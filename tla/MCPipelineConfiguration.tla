------------------------ MODULE MCPipelineConfiguration ------------------------
(* TLC instance of PipelineConfiguration.                                   *)
EXTENDS PipelineConfiguration
=============================================================================
