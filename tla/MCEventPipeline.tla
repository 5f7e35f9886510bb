-------------------------- MODULE MCEventPipeline --------------------------
(* A small instance of EventPipeline for TLC.                              *)
EXTENDS EventPipeline
=============================================================================
