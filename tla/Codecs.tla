------------------------------- MODULE Codecs -------------------------------
(***************************************************************************)
(* Encodings of bytes that need no shared state: the packed and predicted  *)
(* exact payloads of shared_protocol/src/codec.rs, the columnar batches    *)
(* and the concatenated payloads of compress.rs.                           *)
(*                                                                         *)
(* Bytes are numbers below Byte, which is 256 in the code.  A wire format  *)
(* is a record of its fields.                                              *)
(***************************************************************************)
EXTENDS Catalog

CONSTANTS Byte,              \* bytes are the numbers below Byte
          BLOCK_LEN,         \* bytes of a block
          Digit,             \* a varint digit is below Digit, 128 in the code
          MAX_DIGITS,        \* digits after which a varint overflows
          U16, U32,          \* 2^16 and 2^32
          Family             \* the layers and the residual coding of a source kind

ASSUME CodecAssumption ==
    /\ {Byte, BLOCK_LEN, U16, U32} \subseteq Nat \ {0}
    /\ Digit \in Nat \ {0, 1} /\ MAX_DIGITS \in Nat /\ Family.small_range \in Nat

SourceTag == [Text |-> 1, Json |-> 2, Binary |-> 3, Image |-> 4]

Signed(v) == IF v >= (Byte + 1) \div 2 THEN v - Byte ELSE v

ByteAt(bytes, i) == IF i \in DOMAIN bytes THEN bytes[i] ELSE 0

wrapping_delta_bytes(current, predicted) ==
    [i \in DOMAIN current |-> (current[i] - ByteAt(predicted, i)) % Byte]

apply_wrapping_delta(delta, predicted) ==
    [i \in DOMAIN delta |-> (delta[i] + ByteAt(predicted, i)) % Byte]

centered_signed_residuals(actual, predicted) ==
    [i \in DOMAIN actual |-> Signed((actual[i] - ByteAt(predicted, i)) % Byte)]

apply_centered_signed_residuals(predicted, residual) ==
    [i \in DOMAIN predicted |-> (predicted[i] + ByteAt(residual, i)) % Byte]

(***************************************************************************)
(* Variable length integers, lowest digit first.                           *)
(***************************************************************************)
encode_varint(value) ==
    LET Digits[v \in 0 .. value] ==
          IF v < Digit THEN <<[digit |-> v, more |-> FALSE]>>
          ELSE <<[digit |-> v % Digit, more |-> TRUE]>> \o Digits[v \div Digit]
    IN  Digits[value]

\* A number of 32 bits has few enough digits to be read.
ASSUME VarintAssumption == \A v \in 0 .. U32 - 1 : Len(encode_varint(v)) <= MAX_DIGITS

\* The value of the digits up to a place, of which k are left to read.
DigitsUpTo(bytes, last, n) ==
    LET Value[k \in 0 .. n] == IF k = 0 THEN 0 ELSE bytes[last + 1 - k].digit + Digit * Value[k - 1]
    IN  Value[n]

\* The value at a place, and the place after it.
decode_varint(bytes, at) ==
    LET ends == {i \in DOMAIN bytes : at <= i /\ i < at + MAX_DIGITS /\ ~ bytes[i].more}
    IN  IF ends = {} THEN Failed
        ELSE Done([next |-> Min(ends) + 1, value |-> DigitsUpTo(bytes, Min(ends), Min(ends) + 1 - at)])

(***************************************************************************)
(* The block model.                                                        *)
(***************************************************************************)
\* Rounds half away from zero.
div_round(value, divisor) ==
    IF value >= 0 THEN (value + divisor \div 2) \div divisor
    ELSE - ((- value + divisor \div 2) \div divisor)

Clamp(value, lo, hi) == IF value < lo THEN lo ELSE IF value > hi THEN hi ELSE value

\* What a row of weights makes of the inputs.
Weighed(layer, o, inputs) ==
    LET Acc[i \in 0 .. Len(inputs)] ==
          IF i = 0 THEN layer.bias[o] ELSE Acc[i - 1] + (inputs[i] - layer.input_zero) * layer.weights[o][i]
    IN  Acc[Len(inputs)]

apply_layer(layer, inputs) ==
    [o \in DOMAIN layer.weights |->
        LET value == div_round(Weighed(layer, o, inputs), layer.divisor) + layer.output_zero
        IN  Clamp(IF layer.relu /\ value < 0 THEN 0 ELSE value, layer.min, layer.max)]

apply_layers(layers, inputs) ==
    LET Values[k \in 0 .. Len(layers)] == IF k = 0 THEN inputs ELSE apply_layer(layers[k], Values[k - 1])
    IN  Values[Len(layers)]

\* The first of the levels that are nearest.
nearest_fsq_code(value, levels) ==
    LET Distance(i) == IF levels[i] > value THEN levels[i] - value ELSE value - levels[i]
    IN  CHOOSE i \in DOMAIN levels :
            \A j \in DOMAIN levels : Distance(i) < Distance(j) \/ (Distance(i) = Distance(j) /\ i <= j)

pad_block(bytes) == [i \in 1 .. BLOCK_LEN |-> ByteAt(bytes, i)]

encode_block_codes(block) ==
    LET latent == apply_layers(Family.analysis, block)
    IN  [i \in DOMAIN latent |-> nearest_fsq_code(latent[i], Family.levels)]

decode_block_codes(codes) ==
    LET out == apply_layers(Family.synthesis, [i \in DOMAIN codes |-> Family.levels[codes[i]]])
    IN  [i \in DOMAIN out |-> Clamp(out[i], 0, Byte - 1)]

\* The entropy coder is a stack: the symbols go on it last first.
encode_ans_symbols(symbols) == Reverse(symbols)

decode_ans_symbols(stack, count) == IF Len(stack) = count THEN Done(Reverse(stack)) ELSE Failed

(***************************************************************************)
(* Residuals: what the block model got wrong.                              *)
(***************************************************************************)
Nonzero(residual) == {i \in DOMAIN residual : residual[i] # 0}

\* Faulty: the distance counts from the place before, as for the first one.
FaultySparseGap(last, i) == IF last = 0 THEN i - 1 ELSE i - last

\* How many zeros there are between the last place written, if any, and the next.
SparseGap(last, i) == i - last - 1

SparsePut(residual, out, i) ==
    IF residual[i] = 0 THEN out
    ELSE [last |-> i, count |-> out.count + 1,
          bytes |-> out.bytes \o (encode_varint(SparseGap(out.last, i))
                                   \o <<[digit |-> residual[i] % Byte, more |-> FALSE]>>)]

encode_sparse_residual(residual) ==
    LET Out[i \in 0 .. Len(residual)] ==
          IF i = 0 THEN [last |-> 0, count |-> 0, bytes |-> <<>>] ELSE SparsePut(residual, Out[i - 1], i)
        out == Out[Len(residual)]
    IN  [tag |-> "sparse", count |-> out.count, bytes |-> out.bytes]

\* One more place and its value, unless they lie outside.
SparseTake(bytes, len, state) ==
    LET gap == decode_varint(bytes, state.value.next)
        index == state.value.index + gap.value.value + 1
    IN  IF state.ok /\ gap.ok /\ index <= len /\ gap.value.next <= Len(bytes)
        THEN Done([index |-> index, next |-> gap.value.next + 1,
                   residual |-> [state.value.residual EXCEPT ![index] = Signed(bytes[gap.value.next].digit)]])
        ELSE Failed

decode_sparse_residual(payload, len) ==
    LET State[k \in 0 .. payload.count] ==
          IF k = 0 THEN Done([index |-> 0, next |-> 1, residual |-> [i \in 1 .. len |-> 0]])
          ELSE SparseTake(payload.bytes, len, State[k - 1])
        end == State[payload.count]
    IN  IF end.ok /\ end.value.next = Len(payload.bytes) + 1 THEN Done(end.value.residual) ELSE Failed

encode_residual_payload(residual) ==
    LET small == Family.small_range
    IN  CASE Nonzero(residual) = {} -> [tag |-> "zero"]
          [] Nonzero(residual) # {} /\ \A i \in DOMAIN residual : residual[i] \in - small .. small ->
                [tag |-> "small", symbols |-> encode_ans_symbols([i \in DOMAIN residual |-> residual[i] + small])]
          [] OTHER ->
                IF Cardinality(Nonzero(residual)) * 100 <= Family.sparse_percent * Len(residual)
                THEN encode_sparse_residual(residual)
                ELSE [tag |-> "literal", values |-> residual]

decode_residual_payload(payload, len) ==
    CASE payload.tag = "zero" -> Done([i \in 1 .. len |-> 0])
      [] payload.tag = "small" ->
            LET symbols == decode_ans_symbols(payload.symbols, len)
            IN  IF symbols.ok THEN Done([i \in DOMAIN symbols.value |-> symbols.value[i] - Family.small_range])
                ELSE Failed
      [] payload.tag = "sparse" -> decode_sparse_residual(payload, len)
      [] payload.tag = "literal" -> IF Len(payload.values) = len THEN Done(payload.values) ELSE Failed

(***************************************************************************)
(* Packed payloads.                                                        *)
(***************************************************************************)
Chunks(bytes, n) ==
    [k \in 1 .. (Len(bytes) + n - 1) \div n |->
        SubSeq(bytes, (k - 1) * n + 1, IF k * n < Len(bytes) THEN k * n ELSE Len(bytes))]

Truncated(bytes, len) == SubSeq(bytes, 1, IF len < Len(bytes) THEN len ELSE Len(bytes))

encode_packed_payload(kind, bytes) ==
    LET blocks == Chunks(bytes, BLOCK_LEN)
        codes == [k \in DOMAIN blocks |-> encode_block_codes(pad_block(blocks[k]))]
        predicted == FlattenSeq([k \in DOMAIN codes |-> decode_block_codes(codes[k])])
    IN  [kind |-> kind, original_len |-> Len(bytes), block_count |-> Len(blocks),
         codes |-> encode_ans_symbols(FlattenSeq(codes)),
         residual |-> encode_residual_payload(
                        centered_signed_residuals(bytes, Truncated(predicted, Len(bytes))))]

latent_dim == Len(Family.analysis[Len(Family.analysis)].weights)

\* Every layer of a stack has a row of weights for each of its outputs, and they fit
\* what the layer before it puts out.
Stacked(layers, width) ==
    /\ layers \in Seq(ToSet(layers)) /\ layers # <<>>
    /\ \A k \in 1 .. Len(layers) :
         LET layer == layers[k]
             inputs == IF k = 1 THEN width ELSE Len(layers[k - 1].weights)
         IN  /\ layer.weights \in Seq(Seq(Int)) /\ \A o \in DOMAIN layer.weights : Len(layer.weights[o]) = inputs
             /\ \A o \in DOMAIN layer.weights : layer.bias[o] \in Int
             /\ {layer.input_zero, layer.output_zero, layer.min, layer.max} \subseteq Int
             /\ layer.divisor \in Nat \ {0}

\* What the assets of a source kind are like: their layers are checked when they are
\* loaded and when they are applied.
ASSUME FamilyAssumption ==
    /\ Stacked(Family.analysis, BLOCK_LEN) /\ latent_dim > 0
    /\ Stacked(Family.synthesis, latent_dim)
    /\ Len(Family.synthesis[Len(Family.synthesis)].weights) = BLOCK_LEN
    /\ Family.levels \in Seq(Int) /\ Family.levels # <<>>

decode_packed_payload(payload) ==
    LET Predicted(blocks) == Truncated(FlattenSeq([k \in DOMAIN blocks |-> decode_block_codes(blocks[k])]),
                                       payload.original_len)
        Exact(codes, residual) ==
          IF codes.ok /\ residual.ok
          THEN Done(apply_centered_signed_residuals(Predicted(Chunks(codes.value, latent_dim)), residual.value))
          ELSE Failed
    IN  IF payload.original_len > 0 => payload.block_count > 0
        THEN Exact(decode_ans_symbols(payload.codes, payload.block_count * latent_dim),
                   decode_residual_payload(payload.residual, payload.original_len))
        ELSE Failed

Encoded(mode, payload) == [mode |-> mode, payload |-> payload]

\* What encode_best_exact_payload may choose; which of them is short enough is up
\* to the entropy coder.  Sessions send with the preference DirectExactOnly.
BestPayloads(kind, bytes, predicted, preference) ==
    {Encoded("DirectExact", [kind |-> kind, bytes |-> bytes])} \cup
    (IF preference = "DirectExactOnly" THEN {}
     ELSE {Encoded("PackedExact", encode_packed_payload(kind, bytes))} \cup
          (IF predicted.ok
           THEN {Encoded("PredictedExact", encode_packed_payload(kind, wrapping_delta_bytes(bytes, predicted.value)))}
           ELSE {}))

\* The decoded bytes and their kind; a predicted payload needs the predictor.
decode_data_payload(encoded, predicted) ==
    LET Exact(bytes) == Done([kind |-> encoded.payload.kind, bytes |-> bytes])
        Unpacked(packed) ==
          CASE ~ packed.ok -> Failed
            [] packed.ok /\ encoded.mode = "PackedExact" -> Exact(packed.value)
            [] packed.ok /\ encoded.mode = "PredictedExact" ->
                  IF predicted.ok THEN Exact(apply_wrapping_delta(packed.value, predicted.value)) ELSE Failed
    IN  IF encoded.mode = "DirectExact" THEN Exact(encoded.payload.bytes)
        ELSE Unpacked(decode_packed_payload(encoded.payload))

(***************************************************************************)
(* Columnar batches: the kinds run-length encoded, the lengths as          *)
(* differences, and the bytes one after the other.                         *)
(***************************************************************************)
RleAdd(runs, x) ==
    IF runs # <<>> /\ runs[Len(runs)].value = x /\ runs[Len(runs)].count < U32 - 1
    THEN [runs EXCEPT ![Len(runs)].count = @ + 1]
    ELSE Append(runs, [value |-> x, count |-> 1])

rle_encode(data) ==
    LET Runs[i \in 0 .. Len(data)] == IF i = 0 THEN <<>> ELSE RleAdd(Runs[i - 1], data[i])
    IN  Runs[Len(data)]

rle_decode(runs) == FlattenSeq([r \in DOMAIN runs |-> [i \in 1 .. runs[r].count |-> runs[r].value]])

delta_u32_encode(values) ==
    IF values = <<>> THEN [first |-> Failed, deltas |-> <<>>]
    ELSE [first |-> Done(values[1]),
          deltas |-> FlattenSeq([i \in 1 .. Len(values) - 1 |-> encode_varint((values[i + 1] - values[i]) % U32)])]

\* One more value, unless there are none left.
DeltaTake(deltas, state) ==
    LET delta == decode_varint(deltas, state.value.next)
        values == state.value.values
    IN  IF ~ state.ok \/ state.value.next > Len(deltas) THEN state
        ELSE IF ~ delta.ok THEN Failed
        ELSE Done([values |-> Append(values, (values[Len(values)] + delta.value.value) % U32),
                   next |-> delta.value.next])

delta_u32_decode(column) ==
    LET State[k \in 0 .. Len(column.deltas)] ==
          IF k = 0 THEN Done([values |-> <<column.first.value>>, next |-> 1])
          ELSE DeltaTake(column.deltas, State[k - 1])
        end == State[Len(column.deltas)]
    IN  IF ~ column.first.ok THEN Done(<<>>)
        ELSE IF end.ok THEN Done(end.value.values) ELSE Failed

encode_batch(items) ==
    [row_count |-> Len(items) % U32,
     kinds |-> rle_encode([i \in DOMAIN items |-> SourceTag[items[i].kind]]),
     lengths |-> delta_u32_encode([i \in DOMAIN items |-> Len(items[i].bytes) % U32]),
     data |-> FlattenSeq([i \in DOMAIN items |-> items[i].bytes])]

TagKind(tag) == CHOOSE k \in DOMAIN SourceTag : SourceTag[k] = tag

\* The next row, of which the length and the kind may be missing.
RowTake(data, lengths, kinds, state, i) ==
    LET end == state.value.at + ByteAt(lengths, i)
    IN  IF state.ok /\ end <= Len(data)
        THEN Done([at |-> end,
                   items |-> Append(state.value.items,
                               [kind |-> IF i \in DOMAIN kinds THEN TagKind(kinds[i]) ELSE "Binary",
                                bytes |-> Slice(data, state.value.at, end)])])
        ELSE Failed

decode_batch(batch) ==
    LET lengths == delta_u32_decode(batch.lengths)
        kinds == rle_decode(batch.kinds)
        State[i \in 0 .. batch.row_count] ==
          IF i = 0 THEN Done([at |-> 0, items |-> <<>>])
          ELSE RowTake(batch.data, lengths.value, kinds, State[i - 1], i)
        end == State[batch.row_count]
    IN  IF lengths.ok /\ end.ok THEN Done(end.value.items) ELSE Failed

(***************************************************************************)
(* Payloads one after the other, each behind its length.                   *)
(***************************************************************************)
concatenate_payloads(payloads) ==
    [count |-> Len(payloads) % U16,
     fields |-> FlattenSeq([i \in DOMAIN payloads |-> <<Len(payloads[i]) % U32>> \o payloads[i]])]

\* The next payload, if its length and all of it are there.
PayloadTake(fields, state) ==
    LET start == state.value.at + 1
        end == start + ByteAt(fields, start)
    IN  IF state.ok /\ start <= Len(fields) /\ end <= Len(fields)
        THEN Done([at |-> end, parts |-> Append(state.value.parts, SubSeq(fields, start + 1, end))])
        ELSE Failed

split_payloads(batch) ==
    LET State[i \in 0 .. batch.count] ==
          IF i = 0 THEN Done([at |-> 0, parts |-> <<>>]) ELSE PayloadTake(batch.fields, State[i - 1])
        end == State[batch.count]
    IN  IF end.ok THEN Done(end.value.parts) ELSE Failed

=============================================================================
