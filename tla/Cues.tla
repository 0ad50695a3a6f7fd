-------------------------------- MODULE Cues --------------------------------
(***************************************************************************)
(* Sources, the cue derived from their bytes, the keys they are cached     *)
(* under and the sparse index (shared_protocol/src/source.rs and the cue   *)
(* and index types of chpmt.rs).                                           *)
(*                                                                         *)
(* A byte is its number, a byte string a sequence.  A field of bits is the *)
(* set of the positions that are on.  A digest is its preimage: two inputs *)
(* have one digest exactly when they are equal.                            *)
(***************************************************************************)
EXTENDS Integers, FiniteSets, SequencesExt

Text == 1
Json == 2
Binary == 3
Image == 4

family_bits(kind) == {kind - 1}

role_bits(kind) == {kind - 1, kind + 7}

Ascii(bytes) == \A i \in DOMAIN bytes : bytes[i] < 128

HasIn(bytes, low, high) == \E i \in DOMAIN bytes : bytes[i] \in low .. high

contains_window(bytes, needle) ==
    \E i \in 0 .. Len(bytes) - Len(needle) : SubSeq(bytes, i + 1, i + Len(needle)) = needle

LF == 10
CR == 13
Colon == 58

Bit(test, bit) == IF test THEN {bit} ELSE {}

role_bits_from_bytes(bytes) ==
    Bit(Ascii(bytes), 12) \union Bit(HasIn(bytes, 65, 90), 13) \union Bit(HasIn(bytes, 48, 57), 14)
    \union Bit(contains_window(bytes, <<CR, LF>>), 15)
    \union Bit(contains_window(bytes, <<Colon, Colon>>), 16)

\* The bytes each delimiter bit stands for.
DelimiterClasses ==
    <<{10}, {9}, {32}, {44}, {58}, {59}, {123, 125}, {91, 93}, {40, 41}, {60, 62}, {47, 92}, {61}, {34, 39}>>

delimiter_bits_from_bytes(bytes) ==
    {c - 1 : c \in {d \in DOMAIN DelimiterClasses :
                        \E i \in DOMAIN bytes : bytes[i] \in DelimiterClasses[d]}}

\* The low nibbles of the first and last byte, and of the first and last two.
prefix_suffix_bits_from_bytes(bytes) ==
    IF bytes = <<>> THEN {}
    ELSE {bytes[1] % 16, 16 + (bytes[Len(bytes)] % 16)}
         \union IF Len(bytes) >= 2
                THEN {32 + (bytes[1] % 16), 48 + (bytes[Len(bytes) - 1] % 16)}
                ELSE {}

\* One bit for the running hash at each position from the fourth on.
local_hash_bits_from_bytes(bytes) == {<<"hash", SubSeq(bytes, 1, i)>> : i \in 4 .. Len(bytes)}

length_bucket_bits(len) ==
    {Cardinality({bound \in {0, 32, 128, 512, 2048, 8192} : len > bound})}

strided_repeat(bytes, stride) ==
    \E i \in 0 .. Len(bytes) - 2 * stride :
        SubSeq(bytes, i + 1, i + stride) = SubSeq(bytes, i + stride + 1, i + 2 * stride)

temporal_bits_from_bytes(bytes) ==
    Bit(Len(bytes) >= 64, 0) \union Bit(strided_repeat(bytes, 1), 1)
    \union Bit(strided_repeat(bytes, 2), 2)
    \union Bit(Cardinality({i \in DOMAIN bytes : bytes[i] = LF}) >= 2, 3)
    \union Bit(/\ Len(bytes) >= 8
              /\ SubSeq(bytes, 1, 4) = SubSeq(bytes, Len(bytes) - 3, Len(bytes)), 4)

derive_sparse_cue(kind, bytes) ==
    [family    |-> family_bits(kind),
     role      |-> role_bits(kind) \union role_bits_from_bytes(bytes) \union local_hash_bits_from_bytes(bytes),
     delimiter |-> delimiter_bits_from_bytes(bytes) \union prefix_suffix_bits_from_bytes(bytes),
     length    |-> length_bucket_bits(Len(bytes)),
     temporal  |-> temporal_bits_from_bytes(bytes)]

(***************************************************************************)
(* Preparing a source.                                                     *)
(***************************************************************************)
\* Every CR LF and every other CR becomes LF: the CR before an LF is
\* dropped, the others are replaced.
canonicalize_text_bytes(text) ==
    FlattenSeq([i \in DOMAIN text |->
        IF text[i] # CR THEN <<text[i]>>
        ELSE IF i < Len(text) /\ text[i + 1] = LF THEN << >> ELSE <<LF>>])

compute_source_hash(kind, mime, bytes) == <<kind, mime, bytes>>

None == "none"

\* prepare_text_source hashes no MIME type although its descriptor has one;
\* prepare_json_source hashes the one it has; a binary's or an image's is the
\* caller's.
prepare(kind, mime, label, raw) ==
    LET bytes == IF kind = Text THEN canonicalize_text_bytes(raw) ELSE raw
        typed == CASE kind = Text -> "text/plain" [] kind = Json -> "application/json" [] OTHER -> mime
        hashed == IF kind = Text THEN None ELSE typed
    IN [descriptor |-> [kind |-> kind, mime |-> typed, label |-> label, byte_len |-> Len(bytes),
                        source_hash |-> compute_source_hash(kind, hashed, bytes)],
        canonical_bytes |-> bytes,
        preprocess |-> IF bytes = raw THEN "identity" ELSE "normalize_line_endings"]

\* object_cache_key_from_bytes: every kind caches its objects as exact state.
object_cache_key_from_bytes(descriptor, bytes) ==
    [source_hash |-> descriptor.source_hash, source_kind |-> descriptor.kind,
     object_kind |-> "exact_state", cue |-> derive_sparse_cue(descriptor.kind, bytes)]

\* Faulty: the key leaves the source hash out, as the episode trace keys do.
FaultyStorageKey(key) == <<key.source_kind, key.object_kind, key.cue>>

storage_key(key) == <<key.source_hash, key.source_kind, key.object_kind, key.cue>>

(***************************************************************************)
(* The sparse index: entries by partition, one entry per object in each.   *)
(***************************************************************************)
partition_key(entry) ==
    <<entry.source_kind, entry.cue.family, entry.cue.length, entry.cue.delimiter>>

IndexEntry(id, source_kind, object_kind, cue) ==
    [object_id |-> id, source_kind |-> source_kind, object_kind |-> object_kind, cue |-> cue]

index_insert(index, entry) ==
    {e \in index : ~(partition_key(e) = partition_key(entry) /\ e.object_id = entry.object_id)}
        \union {entry}

=============================================================================
