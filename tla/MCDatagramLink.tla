---------------------------- MODULE MCDatagramLink ----------------------------
(* Small instances of DatagramLink for TLC. *)
EXTENDS DatagramLink

\* One chunk and two chunks, and a frame that is too large, with ChunkSize 2 and
\* MaxChunks 2.
SmallFrames == {<<1>>, <<2, 3, 4>>}
MixedFrames == {<<1>>, <<2, 3, 4>>, <<5, 6, 7, 8, 9>>}

\* Four chunks and one chunk, with ChunkSize 1: several gaps in one message.
WideFrames == {<<1, 2, 3, 4>>, <<5>>}
=============================================================================
