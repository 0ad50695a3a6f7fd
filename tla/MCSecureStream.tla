---------------------------- MODULE MCSecureStream ----------------------------
(* Small instances of SecureStream for TLC. *)
EXTENDS SecureStream
=============================================================================
