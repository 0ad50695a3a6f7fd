---------------------------- MODULE StatePrograms ----------------------------
(***************************************************************************)
(* State programs: a payload written as references into the peer's         *)
(* catalog, operations and residual bytes (StateProgram,                   *)
(* shared_protocol/src/state.rs), and the policy that looks for the        *)
(* cheapest one (choose_transport_representation, state_policy.rs).        *)
(***************************************************************************)
EXTENDS Transforms

CONSTANTS TINY,              \* TINY_STATE_PAYLOAD_BYTES
          MAX_REFS,          \* MAX_COMPOSITE_STATE_REFS
          MAX_PER_STEP,      \* MAX_COMPOSITE_CANDIDATES_PER_STEP
          MIN_COMPONENT,     \* MIN_COMPOSITE_COMPONENT_BYTES
          MAX_SUFFIX,        \* MAX_SUFFIX_RESIDUAL_BYTES
          MAX_PATCH          \* MAX_PATCH_RESIDUAL_BYTES

(***************************************************************************)
(* Programs and what they decode to.                                       *)
(***************************************************************************)
StateProgram(refs, ops, residual) == [refs |-> refs, ops |-> ops, residual |-> residual]

ConcatOp == [op |-> "concat"]

PatchOp(offset, remove, from, len) ==
    [op |-> "patch", offset |-> offset, remove |-> remove, from |-> from, len |-> len]

\* A reference gives a range of a block or of a bundle, every step-th byte from
\* a start, or the bytes at a list of places.
materialize_ref(cat, ref) ==
    LET base == IF ref.kind = "bundle" THEN materialize_bundle(cat, ref.base)
                ELSE materialize_block_range(cat, ref.base, 0, Len(ref.base.material))
        places == IF ref.kind = "strided" THEN [i \in 1 .. ref.len |-> ref.start + (i - 1) * ref.step]
                  ELSE [i \in DOMAIN ref.indices |-> ref.start + ref.indices[i]]
    IN  CASE ~ base.ok -> Failed
          [] base.ok /\ ref.kind \in {"block", "bundle"} ->
               IF checked_range(Len(base.value), ref.start, ref.len)
               THEN Done(Slice(base.value, ref.start, ref.start + ref.len)) ELSE Failed
          [] base.ok /\ ref.kind \in {"strided", "indices"} ->
               IF /\ ref.kind = "strided" => ref.step > 0
                  /\ \A i \in DOMAIN places : places[i] < Len(base.value)
               THEN Done([i \in DOMAIN places |-> base.value[places[i] + 1]]) ELSE Failed

\* The residual range of every patch is checked before a program is sent and before it is run.
ProgramIsValid(program) ==
    \A i \in DOMAIN program.ops :
        program.ops[i].op = "patch" =>
            checked_range(Len(program.residual), program.ops[i].from, program.ops[i].len)

apply_op(program, parts, out, op) ==
    CASE ~ out.ok -> out
      [] out.ok /\ op.op = "concat" -> Done(FlattenSeq(parts))
      [] out.ok /\ op.op = "patch" ->
            Splice(out.value, op.offset, op.remove, Slice(program.residual, op.from, op.from + op.len))
      [] out.ok /\ op.op = "take" ->
            IF checked_range(Len(out.value), op.start, op.len)
            THEN Done(Slice(out.value, op.start, op.start + op.len)) ELSE Failed
      [] out.ok /\ op.op = "drop" -> Splice(out.value, op.start, op.len, <<>>)

\* Without operations the residual follows the references.
decode_exact_bytes(cat, program) ==
    LET results == [i \in DOMAIN program.refs |-> materialize_ref(cat, program.refs[i])]
        parts == [i \in DOMAIN results |-> results[i].value]
    IN  CASE ~ ProgramIsValid(program) \/ \E i \in DOMAIN results : ~ results[i].ok -> Failed
          [] OTHER ->
               IF program.ops = <<>> THEN Done(FlattenSeq(parts) \o program.residual)
               ELSE FoldLeft(LAMBDA out, op : apply_op(program, parts, out, op),
                             Done(FlattenSeq(parts)), program.ops)

\* The length of the encoded program: the header is 10 bytes, a reference 23 and
\* 4 for each index, an operation 1, 9 or 17.
EncodedLen(program) ==
    LET OpLen(op) == CASE op.op = "concat" -> 1 [] op.op = "patch" -> 17 [] OTHER -> 9
        RefLen(ref) == 23 + (IF ref.kind = "indices" THEN 4 * Len(ref.indices) ELSE 0)
    IN  10 + FoldSeq(LAMBDA r, n : RefLen(r) + n, 0, program.refs)
           + FoldSeq(LAMBDA o, n : OpLen(o) + n, 0, program.ops)
           + Unit * Len(program.residual)

(***************************************************************************)
(* The search.                                                             *)
(***************************************************************************)
Candidate(program) == Done([program |-> program, description |-> EncodedLen(program)])

exact_bundle_state(cat, payload) ==
    LET found == ExactBundlesFor(cat, payload)
    IN  IF found = <<>> THEN Failed
        ELSE Candidate(StateProgram(<<BundleRef(found[1], 0, BundleLen(found[1]))>>, <<>>, <<>>))

exact_block_state(cat, payload) ==
    LET found == ExactBlocksFor(cat, payload)
    IN  IF found = <<>> THEN Failed
        ELSE Candidate(StateProgram(<<BlockRef(found[1], 0, Len(found[1].material))>>, <<>>, <<>>))

\* Covers further on, fewer references first; estimated_refs_bytes is the same
\* for equally many references without indices.
better_prefix_solution(best, candidate) ==
    \/ ~ best.ok
    \/ candidate.covered > best.value.covered
    \/ candidate.covered = best.value.covered /\ Len(candidate.refs) < Len(best.value.refs)

\* Depth first over the prefixes the catalog knows, at most MAX_REFS deep: the
\* search is a function of the depth that is left.
search_prefix_refs(cat, payload, trailing) ==
    LET Search[left \in 0 .. MAX_REFS] ==
          [at |-> [cursor \in 0 .. Len(payload) |->
             LET next == prefix_candidates(cat, Slice(payload, cursor, Len(payload)), MIN_COMPONENT, MAX_PER_STEP)
             IN  (IF Len(payload) - cursor <= trailing THEN <<<<>>>> ELSE <<>>)
                 \o (IF left = 0 \/ cursor = Len(payload) THEN <<>>
                     ELSE FlattenSeq([i \in DOMAIN next |->
                            LET rest == Search[left - 1].at[cursor + next[i].ref.len]
                            IN  [k \in DOMAIN rest |-> <<next[i].ref>> \o rest[k]]]))]]
    IN  Search[MAX_REFS].at[0]

best_prefix_refs(cat, payload, trailing) ==
    LET Covered(refs) == FoldLeft(LAMBDA n, r : n + r.len, 0, refs)
        Consider(best, refs) ==
            LET candidate == [refs |-> refs, covered |-> Covered(refs)]
            IN  IF better_prefix_solution(best, candidate) THEN Done(candidate) ELSE best
    IN  FoldLeft(Consider, Failed, search_prefix_refs(cat, payload, trailing))

CompositeOf(best, payload) ==
    IF best.ok /\ best.value.covered = Len(payload) /\ Len(best.value.refs) >= 2
    THEN Candidate(StateProgram(best.value.refs, <<ConcatOp>>, <<>>)) ELSE Failed

exact_composite_state(cat, payload) == CompositeOf(best_prefix_refs(cat, payload, 0), payload)

CompositeWithSuffixOf(best, payload) ==
    IF /\ best.ok /\ best.value.refs # <<>> /\ best.value.covered < Len(payload)
       /\ Len(payload) - best.value.covered <= MAX_SUFFIX
    THEN Candidate(StateProgram(best.value.refs, <<>>, Slice(payload, best.value.covered, Len(payload))))
    ELSE Failed

composite_with_suffix_residual_state(cat, payload) ==
    CompositeWithSuffixOf(best_prefix_refs(cat, payload, MAX_SUFFIX), payload)

\* Faulty: the suffix is patched in where the window ends in the base.
FaultyRangePatchOf(match, payload) ==
    LET window == match.value.window
        end == window.base_start + window.matched_len
        prefix == Slice(payload, 0, window.payload_start)
        suffix == Slice(payload, window.payload_start + window.matched_len, Len(payload))
        residual == prefix \o suffix
        ops == (IF prefix = <<>> THEN <<>> ELSE <<PatchOp(0, 0, 0, Len(prefix))>>)
               \o (IF suffix = <<>> THEN <<>> ELSE <<PatchOp(end, 0, Len(prefix), Len(suffix))>>)
    IN  IF match.ok /\ residual # <<>> /\ Len(residual) <= MAX_PATCH
        THEN Candidate(StateProgram(<<match.value.ref>>, ops, residual)) ELSE Failed

\* The matched window, with what lies before and after it patched in from the residual.
RangePatchOf(match, payload) ==
    LET window == match.value.window
        end == window.payload_start + window.matched_len
        prefix == Slice(payload, 0, window.payload_start)
        suffix == Slice(payload, end, Len(payload))
        residual == prefix \o suffix
        ops == (IF prefix = <<>> THEN <<>> ELSE <<PatchOp(0, 0, 0, Len(prefix))>>)
               \o (IF suffix = <<>> THEN <<>> ELSE <<PatchOp(end, 0, Len(prefix), Len(suffix))>>)
    IN  IF match.ok /\ residual # <<>> /\ Len(residual) <= MAX_PATCH
        THEN Candidate(StateProgram(<<match.value.ref>>, ops, residual)) ELSE Failed

range_patch_state(cat, payload) == RangePatchOf(best_window_match(cat, payload), payload)

consider_candidate(best, candidate) ==
    IF candidate.ok /\ (best.ok => candidate.value.description < best.value.description)
    THEN candidate ELSE best

ExactCopy(reason) == [decision |-> "copy", reason |-> reason]

\* The candidates in the order they are weighed in.
StateCandidates(cat, payload) ==
    <<exact_bundle_state(cat, payload), exact_block_state(cat, payload), exact_composite_state(cat, payload),
      composite_with_suffix_residual_state(cat, payload), range_patch_state(cat, payload)>>

Represent(payload, best) ==
    CASE Len(payload) <= TINY -> ExactCopy("TinyPayload")
      [] Len(payload) > TINY /\ ~ best.ok -> ExactCopy("HighNovelty")
      [] Len(payload) > TINY /\ best.ok ->
           IF best.value.description < 1 + Unit * Len(payload)
           THEN [decision |-> "state", program |-> best.value.program, description |-> best.value.description]
           ELSE ExactCopy("StateDescriptionNotCheaper")

choose_transport_representation(cat, payload) ==
    Represent(payload, FoldLeft(consider_candidate, Failed, StateCandidates(cat, payload)))

\* The cheapest transform replaces a state program that costs more, and a copy whatever it costs.
PreferTransform(state, transforms) ==
    LET Before(c, d) == \/ c.wire < d.wire
                        \/ c.wire = d.wire /\ c.gain > d.gain
                        \/ c.wire = d.wire /\ c.gain = d.gain /\ Bytes(c.residuals) <= Bytes(d.residuals)
        best == CHOOSE c \in ToSet(transforms) : \A d \in ToSet(transforms) : Before(c, d)
    IN  IF transforms # <<>> /\ (state.decision = "state" => best.wire < state.description)
        THEN [decision |-> "transform", candidate |-> best, description |-> best.wire] ELSE state

choose_predictive_transport_representation(cat, payload) ==
    PreferTransform(choose_transport_representation(cat, payload), generate_transform_candidates(cat, payload))

=============================================================================
