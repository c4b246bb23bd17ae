------------------------------- MODULE MCHealth -------------------------------
(* Health composed with the instance of the pipeline. *)
EXTENDS MCPipeline, Health
===============================================================================
