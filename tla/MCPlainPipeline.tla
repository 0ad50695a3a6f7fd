---------------------------- MODULE MCPlainPipeline ----------------------------
(* Small instances of PlainPipeline for TLC: two bodies, one of them large. *)
EXTENDS PlainPipeline
=============================================================================
