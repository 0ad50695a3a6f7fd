--------------------------- MODULE MCSourceCaches ---------------------------
(* Two workers, on one cache or on two caches over one directory, resolve   *)
(* a text with a CR LF line end, a text with the same cue and other bytes,  *)
(* and a JSON document.  The directory may hold two of the objects, the hot *)
(* map one.                                                                 *)
EXTENDS SourceCaches

Symmetric == Permutations(Workers) \union Permutations(Caches)

MCPrepared == {prepare(Text, None, "note", <<97, CR, LF>>),
               prepare(Text, None, "other", <<113, LF>>),
               prepare(Json, None, "note", <<97, LF, 98>>)}
=============================================================================
