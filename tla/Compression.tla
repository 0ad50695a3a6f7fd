---------------------------- MODULE Compression ----------------------------
(***************************************************************************)
(* The compression of exact bytes (shared_protocol/src/compress.rs): what  *)
(* an endpoint has learnt from the items it has seen, the encodings that   *)
(* depend on it, and how they are undone.                                  *)
(*                                                                         *)
(* Bytes are tokens: a JSON string, a number or a mark is one token.       *)
(* Whether an encoding is shorter than the bytes is up to zstd, so an      *)
(* encoder gives the set of payloads it may choose.                        *)
(***************************************************************************)
EXTENDS Catalog

CONSTANTS ChunkSize,         \* bytes of a chunk that a delta looks up, 8 in the code
          SMALL,             \* 64: shorter items are not compressed
          MIN_SAMPLES,       \* 8: samples a dictionary is trained on
          MAX_SAMPLES,       \* how many of them are kept, a million bytes in the code
          PatchModulus,      \* 65536: the number of patches is sent in 16 bits
          LenModulus,        \* 256: what the first byte of a length is taken by
          SlotModulus,       \* 256: the number of values is sent in 8 bits
          ValueModulus,      \* 65536: the length of a value is sent in 16 bits
          Unquoted           \* a JSON string without its opening quote

ASSUME CompressionAssumption == ChunkSize \in Nat \ {0} /\ PatchModulus \in Nat \ {0} /\ SMALL \in Nat

Kinds == {"Text", "Json", "Binary"}

Quoted == DOMAIN Unquoted

Junk == <<"junk">>

(***************************************************************************)
(* Deltas between two versions of an item.                                 *)
(***************************************************************************)
\* The offsets of the base whose chunks the sender indexes: whole chunks, and not
\* the last one.
IndexedChunks(base) == {o \in 0 .. Len(base) : o % ChunkSize = 0 /\ o + ChunkSize + 1 < Len(base)}

ChunkAt(s, o) == Slice(s, o, o + ChunkSize)

\* The chunks of the base that begin the rest of the target, and the length of
\* what is copied from one of them.
Matches(base, target, pos) ==
    IF pos + ChunkSize <= Len(target)
    THEN {o \in IndexedChunks(base) : ChunkAt(base, o) = ChunkAt(target, pos)} ELSE {}

Copied(base, target, pos, o) == common_prefix_len(Slice(base, o, Len(base)), Slice(target, pos, Len(target)))

\* The operation at a place of the target: the last chunk of the base that begins
\* the rest, extended as far as it matches, or one more literal.
OpAt(base, target, pos) ==
    LET found == Matches(base, target, pos)
    IN  IF found = {} THEN [op |-> "insert", bytes |-> <<target[pos + 1]>>]
        ELSE [op |-> "copy", offset |-> Max(found), length |-> Copied(base, target, pos, Max(found))]

Covers(op) == IF op.op = "insert" THEN Len(op.bytes) ELSE op.length

\* BinaryDelta::compute.
BinaryDelta(base, target) ==
    LET Ops[pos \in 0 .. Len(target)] ==
          IF pos = Len(target) THEN <<>>
          ELSE <<OpAt(base, target, pos)>> \o Ops[pos + Covers(OpAt(base, target, pos))]
    IN  [form |-> "binary", original_len |-> Len(base), target_len |-> Len(target), ops |-> Ops[0]]

\* What an operation of a delta contributes.
Part(base, op) == CASE op.op = "insert" -> Done(op.bytes)
                    [] op.op = "copy" -> IF op.offset + op.length <= Len(base)
                                         THEN Done(Slice(base, op.offset, op.offset + op.length)) ELSE Failed

apply_binary_delta(delta, base) ==
    LET Joined(parts) ==
          IF \A i \in DOMAIN parts : parts[i].ok
          THEN Done(FlattenSeq([i \in DOMAIN parts |-> parts[i].value])) ELSE Failed
        Whole(out) == IF out.ok /\ Len(out.value) = delta.target_len THEN out ELSE Failed
    IN  IF Len(base) = delta.original_len
        THEN Whole(Joined([i \in DOMAIN delta.ops |-> Part(base, delta.ops[i])])) ELSE Failed

\* The exclusive or of two tokens undoes itself on either of them only.
Xor(a, b) == {a, b}

ApplyXor(token, x) == IF token \in x /\ Cardinality(x) = 2 THEN CHOOSE t \in x : t # token ELSE "garbled"

Differing(base, target) == {i \in DOMAIN base : base[i] # target[i]}

\* Places in ascending order.
Ascending(places) ==
    CHOOSE s \in [1 .. Cardinality(places) -> places] :
        Range(s) = places /\ \A i, j \in DOMAIN s : i < j => s[i] < s[j]

\* Faulty: the offsets of the patches are counted from zero.
FaultyXorDelta(base, target) ==
    LET places == Ascending(Differing(base, target))
        count == Len(places) % PatchModulus
    IN  [form |-> "xor", original_len |-> Len(base),
         patches |-> [k \in 1 .. count |-> [at |-> places[k] - 1, xor |-> Xor(base[places[k]], target[places[k]])]]]

\* XorDelta::compute and encode_to_bytes, for versions of one length.  The patches
\* are in order and their number is cut to 16 bits.
XorDelta(base, target) ==
    LET places == Ascending(Differing(base, target))
        count == Len(places) % PatchModulus
    IN  [form |-> "xor", original_len |-> Len(base),
         patches |-> [k \in 1 .. count |-> [at |-> places[k], xor |-> Xor(base[places[k]], target[places[k]])]]]

Patch(bytes, p) == [bytes EXCEPT ![p.at] = ApplyXor(@, p.xor)]

apply_xor_delta(delta, base) ==
    IF Len(base) = delta.original_len THEN Done(FoldLeft(Patch, base, delta.patches)) ELSE Failed

\* The receiver first tries to read a delta as a binary one.  One that begins with
\* a length whose lowest byte is 1 has its version number, and may parse.
Misread(delta) == delta.form = "xor" /\ delta.original_len % LenModulus = 1

(***************************************************************************)
(* Templates: the keys of a flat JSON object, and its values in their      *)
(* order.  Both scans keep track of the depth, of the key and of whether   *)
(* they are behind a colon.                                                *)
(***************************************************************************)
IsObject(doc) == Len(doc) >= 2 /\ doc[1] = "{" /\ doc[Len(doc)] = "}"

Inner(doc) == SubSeq(doc, 2, Len(doc) - 1)

Opens == {"{", "["}

Closes == {"}", "]"}

\* What a token does to the depth.
Deeper(depth, t) == IF t \in Opens THEN depth + 1
                    ELSE IF t \in Closes /\ depth > 0 THEN depth - 1 ELSE depth

\* StructuralTemplate::from_json: the keys, <<>> if there is no template.
from_json(doc) ==
    LET Scan(s, t) ==
          CASE t \in Quoted /\ s.depth = 0 -> [s EXCEPT !.key = IF s.colon THEN "" ELSE t]
            [] t = ":" /\ s.depth = 0 -> [s EXCEPT !.colon = TRUE, !.keys = Append(@, s.key)]
            [] t = "," /\ s.depth = 0 -> [s EXCEPT !.colon = FALSE]
            [] OTHER -> [s EXCEPT !.depth = Deeper(@, t)]
    IN  IF IsObject(doc)
        THEN FoldLeft(Scan, [depth |-> 0, key |-> "", colon |-> FALSE, keys |-> <<>>], Inner(doc)).keys
        ELSE <<>>

Trimmed(value) ==
    LET ink == {i \in DOMAIN value : value[i] # " "}
    IN  IF ink = {} THEN <<>> ELSE SubSeq(value, Min(ink), Max(ink))

\* The values behind the keys of a template, in the order of its keys.  A string
\* that begins behind a blank loses its opening quote, and a bracket that opens a
\* value is not part of it.
extract_values(keys, doc) ==
    LET Flush(s) ==
          IF s.colon /\ s.key # "" THEN Append(s.found, [key |-> s.key, value |-> Trimmed(s.value)]) ELSE s.found
        More(s, t) == IF s.collecting THEN Append(s.value, t) ELSE s.value
        Scan(s, t) ==
          CASE t \in Quoted /\ s.depth = 0 ->
                 IF s.colon
                 THEN [s EXCEPT !.collecting = TRUE, !.value = IF s.collecting THEN Append(@, Unquoted[t]) ELSE <<t>>]
                 ELSE [s EXCEPT !.key = t]
            [] t = ":" /\ s.depth = 0 -> [s EXCEPT !.colon = TRUE, !.value = IF s.collecting THEN @ ELSE <<>>]
            [] t = "," /\ s.depth = 0 ->
                 [s EXCEPT !.colon = FALSE, !.collecting = FALSE, !.value = <<>>, !.found = Flush(s)]
            [] t \in Opens \union Closes -> [s EXCEPT !.depth = Deeper(@, t), !.value = More(s, t)]
            [] OTHER -> [s EXCEPT !.collecting = @ \/ s.colon,
                                  !.value = IF s.colon /\ ~ s.collecting THEN <<t>> ELSE More(s, t)]
        Of(found, key) == found[Min({i \in DOMAIN found : found[i].key = key})].value
        InOrder(found) ==
          IF Len(found) = Len(keys) /\ \A k \in DOMAIN keys : \E i \in DOMAIN found : found[i].key = keys[k]
          THEN Done([k \in DOMAIN keys |-> Of(found, keys[k])]) ELSE Failed
    IN  IF IsObject(doc)
        THEN InOrder(Flush(FoldLeft(Scan, [depth |-> 0, key |-> "", colon |-> FALSE, collecting |-> FALSE,
                                           value |-> <<>>, found |-> <<>>], Inner(doc))))
        ELSE Failed

Pattern(keys) ==
    LET Field(k) == <<keys[k], ":", "{", "}">>
    IN  <<"{">> \o FlattenSeq([k \in DOMAIN keys |-> IF k = 1 THEN Field(k) ELSE <<",">> \o Field(k)]) \o <<"}">>

\* Every value takes the place of the first pair of braces that is then left.
reconstruct(keys, values) ==
    LET Holes(s) == {i \in 1 .. Len(s) - 1 : s[i] = "{" /\ s[i + 1] = "}"}
        Fill(s, value) == IF Holes(s) = {} THEN s
                          ELSE Slice(s, 0, Min(Holes(s)) - 1) \o value \o Slice(s, Min(Holes(s)) + 1, Len(s))
    IN  IF Len(values) = Len(keys) THEN Done(FoldLeft(Fill, Pattern(keys), values)) ELSE Failed

\* encode_slot_values and what decode_slot_values makes of it: the number of the
\* values is cut to 8 bits, and a value whose length is cut derails the rest.
SlotValues(values) ==
    IF \E i \in DOMAIN values : Len(values[i]) >= ValueModulus THEN Failed
    ELSE Done(SubSeq(values, 1, Len(values) % SlotModulus))

(***************************************************************************)
(* What an endpoint has learnt: samples and the dictionary trained on them *)
(* for each kind, and the templates, whose ids are their places.           *)
(***************************************************************************)
NoDict == [id |-> 0, trained_on |-> <<>>]

EmptyContext == [samples |-> [k \in Kinds |-> <<>>], dicts |-> [k \in Kinds |-> NoDict],
                 next_dict_id |-> 1, templates |-> <<>>]

add_sample(ctx, kind, bytes) ==
    LET all == Append(ctx.samples[kind], bytes)
    IN  IF kind = "Binary" THEN ctx
        ELSE [ctx EXCEPT !.samples[kind] = IF Len(all) > MAX_SAMPLES THEN Tail(all) ELSE all]

try_register(ctx, kind, bytes) ==
    IF kind = "Json" /\ from_json(bytes) # <<>> /\ from_json(bytes) \notin ToSet(ctx.templates)
    THEN [ctx EXCEPT !.templates = Append(@, from_json(bytes))] ELSE ctx

\* A dictionary is trained once for each kind; the ids are counted over all kinds.
\* Training is a function of the samples, and is taken to succeed.
maybe_train(ctx, kind) ==
    IF Len(ctx.samples[kind]) >= MIN_SAMPLES /\ ctx.dicts[kind] = NoDict
    THEN [ctx EXCEPT !.dicts[kind] = [id |-> ctx.next_dict_id, trained_on |-> ctx.samples[kind]],
                     !.next_dict_id = @ + 1]
    ELSE ctx

\* What both ends do with the bytes of an item, in this order: the server before
\* it encodes them, the client after it has decoded them.
Learn(ctx, kind, bytes) == maybe_train(try_register(add_sample(ctx, kind, bytes), kind, bytes), kind)

\* The number of the template that matches, 0 for none.
find_match(ctx, bytes) ==
    LET fits == {id \in DOMAIN ctx.templates :
                   ctx.templates[id] = from_json(bytes) /\ extract_values(ctx.templates[id], bytes).ok}
    IN  IF fits = {} THEN 0 ELSE Min(fits)

(***************************************************************************)
(* The payloads.                                                           *)
(***************************************************************************)
\* select_strategy_with_feedback for an endpoint whose deltas have paid so far.
\* It asks for an update before it looks at the size.
select_strategy(ctx, kind, updates, bytes) ==
    CASE updates -> "Delta"
      [] ~ updates /\ Len(bytes) < SMALL -> "Whole"
      [] ~ updates /\ Len(bytes) >= SMALL ->
           IF kind = "Json" /\ find_match(ctx, bytes) # 0 THEN "Template"
           ELSE IF ctx.dicts[kind] # NoDict THEN "ZstdDict" ELSE "Whole"

\* Passthrough and plain zstd, which the bytes decide between, are both undone
\* without any context.
Whole(bytes) == [tag |-> "Whole", bytes |-> bytes]

DeltaOf(delta) == [tag |-> "Delta", delta |-> delta]

\* compress_exact_bytes without its learning: every payload the encoder may come
\* to, an encoding that is not shorter than the bytes being given up.
Encodings(ctx, kind, prev, bytes) ==
    LET updates == prev.ok
        id == find_match(ctx, bytes)
        slots(k) == SlotValues(extract_values(ctx.templates[k], bytes).value)
    IN  {Whole(bytes)} \union
        CASE select_strategy(ctx, kind, updates, bytes) = "Whole" -> {}
          [] select_strategy(ctx, kind, updates, bytes) = "ZstdDict" ->
               {[tag |-> "ZstdDict", id |-> ctx.dicts[kind].id, dict |-> ctx.dicts[kind], bytes |-> bytes]}
          [] select_strategy(ctx, kind, updates, bytes) = "Template" ->
               {[tag |-> "Template", id |-> id, slots |-> slots(id)]}
          [] select_strategy(ctx, kind, updates, bytes) = "Delta" ->
               {DeltaOf(BinaryDelta(prev.value, bytes))} \union
               (IF Len(prev.value) = Len(bytes) THEN {DeltaOf(XorDelta(prev.value, bytes))} ELSE {})

Dictionary(ctx, kind, id) == IF ctx.dicts[kind].id = id THEN Done(ctx.dicts[kind]) ELSE Failed

\* decode_compressed_payload: the results it may have.  zstd refuses what another
\* dictionary has compressed.
decode_compressed_payload(ctx, kind, prev, payload) ==
    LET Undone(delta) == IF delta.form = "xor" THEN apply_xor_delta(delta, prev.value)
                         ELSE apply_binary_delta(delta, prev.value)
        Filled(keys, slots) == IF slots.ok THEN reconstruct(keys, slots.value) ELSE Failed
    IN  CASE payload.tag = "Whole" -> {Done(payload.bytes)}
          [] payload.tag = "ZstdDict" ->
               {IF Dictionary(ctx, kind, payload.id) = Done(payload.dict) THEN Done(payload.bytes) ELSE Failed}
          [] payload.tag = "Template" ->
               {IF payload.id \in DOMAIN ctx.templates
                THEN Filled(ctx.templates[payload.id], payload.slots) ELSE Failed}
          [] payload.tag = "Delta" ->
               IF ~ prev.ok THEN {Failed}
               ELSE {Undone(payload.delta)} \union (IF Misread(payload.delta) THEN {Failed} ELSE {})
=============================================================================
