----------------------------- MODULE MCPeerMemory -----------------------------
(* Small instances of PeerMemory for TLC. *)
EXTENDS PeerMemory

CONSTANTS x, y, z

\* Two texts with the same segments, in different proportions: one dictionary.
SharedTexts == {<<x, x, x, y, y>>, <<x, x, y, y, y>>}

\* A text whose dictionary has one order, and one whose dictionary has two: its segments
\* occur equally often.
MixedTexts == {<<x, x, y>>, <<x, z>>}

EqualLen == [s \in {x, y, z} |-> 1]
=============================================================================
