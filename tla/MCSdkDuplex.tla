----------------------------- MODULE MCSdkDuplex -----------------------------
(* Small instances of SdkDuplex for TLC. *)
EXTENDS SdkDuplex
=============================================================================
