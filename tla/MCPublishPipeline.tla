-------------------------- MODULE MCPublishPipeline --------------------------
(* Instances of PublishPipeline for TLC. *)
EXTENDS PublishPipeline

CONSTANTS p1, k0, k1, k2
=============================================================================
