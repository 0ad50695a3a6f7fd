----------------------------- MODULE Transforms -----------------------------
(***************************************************************************)
(* Transform candidates: how a byte string is described as a transform of  *)
(* bytes the peer already holds (generate_transform_candidates and its     *)
(* plans, shared_protocol/src/state_policy.rs), and how the receiver       *)
(* carries such a description out (apply_transform_instance, state.rs).    *)
(*                                                                         *)
(* A plan is Failed or Done(what it found).  A candidate is its kind, the  *)
(* bases it refers to, its parameters and residuals, and the numbers that  *)
(* its cost is made of.                                                    *)
(***************************************************************************)
EXTENDS Catalog

CONSTANTS MIN_RANGE_REUSE,   \* shortest window worth a reference
          Unit               \* wire bytes that one byte of the model stands for

SlotDelimiters == <<",", ";", ":", "|", "/", " ", "nl", "tab">>

ReorderDelimiters == <<",", ";", ":", "|", "/", " ">>

RepeatDelimiters == <<"|", ",", ";", ":", " ">>

(***************************************************************************)
(* Plans.                                                                  *)
(***************************************************************************)
Repeated(s, n) == FlattenSeq([i \in 1 .. n |-> s])

\* The common suffix that does not reach into the first `keep' bytes.
CommonSuffix(base, target, keep) ==
    common_prefix_len(Reverse(SubSeq(base, keep + 1, Len(base))),
                      Reverse(SubSeq(target, keep + 1, Len(target))))

\* delimiter_scan.
Delimiters(bytes, delimiter) ==
    Kept([i \in DOMAIN bytes |-> i], {i \in DOMAIN bytes : bytes[i] = delimiter})

\* Before the first part, the delimiters, and after the last part.
Cuts(bytes, delimiter) == <<0>> \o Delimiters(bytes, delimiter) \o <<Len(bytes) + 1>>

segment_ranges(bytes, delimiter) ==
    LET cuts == Cuts(bytes, delimiter)
    IN  [k \in 1 .. Len(cuts) - 1 |-> [start |-> cuts[k], len |-> cuts[k + 1] - 1 - cuts[k]]]

Segment(bytes, range) == Slice(bytes, range.start, range.start + range.len)

split(bytes, delimiter) ==
    LET ranges == segment_ranges(bytes, delimiter)
    IN  [k \in DOMAIN ranges |-> Segment(bytes, ranges[k])]

SameBag(s, t) ==
    /\ Len(s) = Len(t)
    /\ \A x \in ToSet(s) : Len(Kept(s, {x})) = Len(Kept(t, {x}))

chunks(bytes, width) ==
    [k \in 1 .. (Len(bytes) + width - 1) \div width |->
        SubSeq(bytes, (k - 1) * width + 1, IF k * width < Len(bytes) THEN k * width ELSE Len(bytes))]

delimiter_inventory(bytes) ==
    [d \in ToSet(SlotDelimiters) |-> Len(Delimiters(bytes, d))]

bounded_substitution_delta(base, target) ==
    LET start == common_prefix_len(base, target)
        tail == CommonSuffix(base, target, start)
    IN  IF base = target THEN Failed
        ELSE Done([start |-> start, remove |-> Len(base) - tail - start,
                   fill |-> Slice(target, start, Len(target) - tail)])

copy_with_gap_plan(base, target) ==
    LET delta == bounded_substitution_delta(base, target)
    IN  IF /\ delta.ok
           /\ delta.value.remove # 0 /\ delta.value.fill # <<>>
           /\ delta.value.start # 0 /\ delta.value.start + delta.value.remove < Len(base)
        THEN delta ELSE Failed

prefix_insert_plan(base, target) ==
    IF Len(target) > Len(base) /\ IsSuffix(base, target)
    THEN Done(Slice(target, 0, Len(target) - Len(base))) ELSE Failed

suffix_insert_plan(base, target) ==
    IF Len(target) > Len(base) /\ IsPrefix(base, target)
    THEN Done(Slice(target, Len(base), Len(target))) ELSE Failed

\* The first place at which base lies strictly inside target.
wrap_plan(base, target) ==
    LET places == {p \in 1 .. Len(target) - Len(base) - 1 : Slice(target, p, p + Len(base)) = base}
    IN  IF base = <<>> \/ places = {} THEN Failed
        ELSE LET p == CHOOSE p \in places : \A q \in places : p <= q
             IN  Done([prefix |-> Slice(target, 0, p), suffix |-> Slice(target, p + Len(base), Len(target))])

bounded_interior_insert_plan(base, target) ==
    LET prefix == common_prefix_len(base, target)
        tail == CommonSuffix(base, target, prefix)
    IN  IF /\ Len(target) > Len(base) /\ Len(base) >= 2
           /\ prefix # 0 /\ prefix < Len(base)
           /\ Len(base) - tail = prefix /\ Len(target) - tail > prefix
        THEN Done([offset |-> prefix, inserted |-> Slice(target, prefix, Len(target) - tail)])
        ELSE Failed

bounded_delete_plan(base, target) ==
    LET prefix == common_prefix_len(base, target)
        tail == CommonSuffix(base, target, prefix)
    IN  IF Len(base) > Len(target) /\ Len(target) - tail = prefix /\ Len(base) - tail > prefix
        THEN Done([start |-> prefix, len |-> Len(base) - tail - prefix])
        ELSE Failed

repeated_motif_expansion_plan(base, target) ==
    LET repeats == Len(target) \div Len(base)
    IN  IF base # <<>> /\ Len(target) > Len(base) /\ target = Repeated(base, repeats)
        THEN Done(repeats) ELSE Failed

\* The slots of the first delimiter that cuts both into equally many parts, some of them different.
Patches(base, target, d) ==
    LET ranges == segment_ranges(base, d)
        fills == split(target, d)
        patch == [k \in DOMAIN ranges |-> [start |-> ranges[k].start, len |-> ranges[k].len, fill |-> fills[k]]]
    IN  IF Len(ranges) < 2 \/ Len(ranges) # Len(fills) THEN <<>>
        ELSE Kept(patch, {p \in ToSet(patch) : Segment(base, p) # p.fill})

slot_substitution_plan(base, target) ==
    LET usable == Kept(SlotDelimiters, {d \in ToSet(SlotDelimiters) : Patches(base, target, d) # <<>>})
    IN  IF usable = <<>> THEN Failed ELSE Done(Patches(base, target, usable[1]))

role_permutation_plan(base, target) ==
    LET widths == {w \in 1 .. Len(base) : /\ Len(chunks(base, w)) >= 2
                                          /\ FlattenSeq(Reverse(chunks(base, w))) = target}
    IN  IF Len(base) # Len(target) \/ Len(base) < 2 \/ widths = {} THEN Failed
        ELSE Done(CHOOSE w \in widths : \A v \in widths : w <= v)

Strided(bytes, offset, stride) ==
    FlattenSeq([i \in DOMAIN bytes |-> IF i > offset /\ (i - 1 - offset) % stride = 0 THEN <<bytes[i]>> ELSE <<>>])

strided_selection_plan(base, target) ==
    LET found == {p \in [offset : 0 .. Len(base), stride : 2 .. Len(base)] :
                    p.offset < p.stride /\ p.offset < Len(base) /\ Strided(base, p.offset, p.stride) = target}
    IN  IF target = <<>> \/ Len(target) >= Len(base) \/ found = {} THEN Failed
        ELSE Done(CHOOSE p \in found : \A q \in found :
                    p.stride < q.stride \/ (p.stride = q.stride /\ p.offset <= q.offset))

reordered_delimited_segments(base, target) ==
    LET usable == Kept(ReorderDelimiters,
                       {d \in ToSet(ReorderDelimiters) : /\ Len(Delimiters(base, d)) >= 2
                                                         /\ Len(Delimiters(target, d)) >= 2})
        left == split(base, usable[1])
        right == split(target, usable[1])
    IN  IF usable # <<>> /\ SameBag(left, right) /\ left # right
        THEN Done([delimiter |-> usable[1], segments |-> Len(left)]) ELSE Failed

\* The longest tail of base that, repeated, makes up the rest of target.
motif_duplicate_plan(base, target) ==
    LET rest == SubSeq(target, Len(base) + 1, Len(target))
        lens == {n \in 1 .. Len(base) : /\ Len(rest) % n = 0
                                        /\ rest = Repeated(SubSeq(base, Len(base) - n + 1, Len(base)), Len(rest) \div n)}
    IN  IF /\ Len(target) > Len(base) /\ IsPrefix(base, target)
           /\ \E i \in DOMAIN base : base[i] # "nul"
           /\ lens # {}
        THEN LET n == CHOOSE n \in lens : \A k \in lens : k <= n
             IN  Done([start |-> Len(base) - n, len |-> n, repeats |-> Len(rest) \div n])
        ELSE Failed

delimited_repeat_plan(base, target) ==
    LET usable == Kept(RepeatDelimiters,
                       {d \in ToSet(RepeatDelimiters) : /\ Len(split(target, d)) >= 2
                                                        /\ ToSet(split(target, d)) = {base}})
    IN  IF usable = <<>> THEN Failed
        ELSE Done([delimiter |-> usable[1], repeats |-> Len(split(target, usable[1]))])

\* Two different bases, one ending where the other begins; the shortest pair, the first of equals.
splice_from_two_bases_plan(target, bases) ==
    LET spots == {s \in [split : 1 .. Len(target) - 1, left : DOMAIN bases, right : DOMAIN bases] :
                    /\ s.left # s.right
                    /\ IsPrefix(Slice(target, 0, s.split), bases[s.left].bytes)
                    /\ IsSuffix(Slice(target, s.split, Len(target)), bases[s.right].bytes)}
        Span(s) == Len(bases[s.left].bytes) + Len(bases[s.right].bytes)
        Earlier(s, t) == \/ s.split < t.split
                         \/ s.split = t.split /\ s.left < t.left
                         \/ s.split = t.split /\ s.left = t.left /\ s.right < t.right
    IN  IF spots = {} THEN Failed
        ELSE LET s == CHOOSE s \in spots : \A t \in spots \ {s} :
                        Span(s) < Span(t) \/ (Span(s) = Span(t) /\ Earlier(s, t))
             IN  Done([left |-> bases[s.left].ref, right |-> bases[s.right].ref, left_len |-> s.split,
                       right_start |-> Len(bases[s.right].bytes) - (Len(target) - s.split)])

(***************************************************************************)
(* Candidates.                                                             *)
(***************************************************************************)
TransformCandidate(kind, refs, params, residuals, wire, steps, gain, invertible) ==
    [kind |-> kind, refs |-> refs, params |-> params, residuals |-> residuals,
     wire |-> wire, steps |-> steps, gain |-> gain, invertible |-> invertible]

Bytes(residuals) == Unit * Len(FlattenSeq(residuals))

\* Candidates over the longest window that payload and catalog share.
SubstitutionCandidates(ref, delta, gap) ==
    (IF delta.ok
     THEN <<TransformCandidate("BoundedSubstitution", <<ref>>, <<delta.value.start, delta.value.remove>>,
              <<delta.value.fill>>, Bytes(<<delta.value.fill>>) + 12, 2, 6, FALSE)>> ELSE <<>>)
    \o
    (IF gap.ok
     THEN <<TransformCandidate("CopyWithGap", <<ref>>, <<gap.value.start, gap.value.remove>>,
              <<gap.value.fill>>, Bytes(<<gap.value.fill>>) + 10, 2, 8, FALSE)>> ELSE <<>>)

RewriteCandidates(ref, base, target) ==
    IF delimiter_inventory(base) = delimiter_inventory(target) /\ base # target
    THEN <<TransformCandidate("DelimiterPreservingRewrite", <<ref>>, <<>>, <<target>>,
                              Bytes(<<target>>), 3, 10, FALSE)>>
    ELSE <<>>

ReorderCandidates(ref, base, target, plan) ==
    IF plan.ok
    THEN <<TransformCandidate("BoundedReorder", <<ref>>, <<0, Len(base), plan.value.delimiter>>,
             <<target>>, Bytes(<<target>>) - plan.value.segments, 4, 14, TRUE)>>
    ELSE <<>>

DuplicationCandidates(ref, plan) ==
    LET params == <<plan.value.start, plan.value.len, plan.value.repeats>>
    IN  IF plan.ok
        THEN <<TransformCandidate("MotifDuplicateCompress", <<ref>>, params, <<>>, 12, 3, 18, TRUE),
               TransformCandidate("BoundedDuplication", <<ref>>, params, <<>>, 12, 3, 16, TRUE)>>
        ELSE <<>>

MirrorCandidates(ref, base, target) ==
    IF target = base \o Reverse(base)
    THEN <<TransformCandidate("MirrorSymmetry", <<ref>>, <<>>, <<>>, 8, 2, 16, TRUE),
           TransformCandidate("LocalMirror", <<ref>>, <<>>, <<>>, 8, 2, 14, TRUE)>>
    ELSE <<>>

ExpansionCandidates(ref, plan) ==
    IF plan.ok
    THEN <<TransformCandidate("SchemaConditionedExpansion", <<ref>>, <<plan.value.repeats>>,
             <<<<plan.value.delimiter>>>>, 9, 3, 12, FALSE)>>
    ELSE <<>>

WindowCandidates(ref, base, target) ==
    SubstitutionCandidates(ref, bounded_substitution_delta(base, target), copy_with_gap_plan(base, target))
    \o RewriteCandidates(ref, base, target)
    \o ReorderCandidates(ref, base, target, reordered_delimited_segments(base, target))
    \o DuplicationCandidates(ref, motif_duplicate_plan(base, target))
    \o MirrorCandidates(ref, base, target)
    \o ExpansionCandidates(ref, delimited_repeat_plan(base, target))

\* Candidates over a whole block or bundle.
InsertCandidates(ref, prefix, suffix, wrap) ==
    (IF prefix.ok
     THEN <<TransformCandidate("PrefixInsert", <<ref>>, <<>>, <<prefix.value>>,
                               Bytes(<<prefix.value>>) + 4, 1, 10, FALSE)>> ELSE <<>>)
    \o
    (IF suffix.ok
     THEN <<TransformCandidate("SuffixInsert", <<ref>>, <<>>, <<suffix.value>>,
                               Bytes(<<suffix.value>>) + 4, 1, 10, FALSE)>> ELSE <<>>)
    \o
    (IF wrap.ok
     THEN <<TransformCandidate("Wrap", <<ref>>, <<>>, <<wrap.value.prefix, wrap.value.suffix>>,
                               Bytes(<<wrap.value.prefix, wrap.value.suffix>>) + 8, 2, 12, FALSE)>>
     ELSE <<>>)

InteriorCandidates(ref, insert, delete) ==
    (IF insert.ok
     THEN <<TransformCandidate("BoundedInteriorInsert", <<ref>>, <<insert.value.offset>>,
              <<insert.value.inserted>>, Bytes(<<insert.value.inserted>>) + 8, 2, 12, FALSE)>> ELSE <<>>)
    \o
    (IF delete.ok
     THEN <<TransformCandidate("BoundedDelete", <<ref>>, <<delete.value.start, delete.value.len>>,
              <<>>, 6, 2, 10, TRUE)>> ELSE <<>>)

RepeatCandidates(ref, repeats) ==
    IF repeats.ok
    THEN <<TransformCandidate("RepeatedMotifExpansion", <<ref>>, <<repeats.value>>, <<>>, 6, 2, 14, TRUE)>>
    ELSE <<>>

SlotCandidates(ref, plan) ==
    LET params == FlattenSeq([k \in DOMAIN plan.value |-> <<plan.value[k].start, plan.value[k].len>>])
        fills == [k \in DOMAIN plan.value |-> plan.value[k].fill]
        Fill(kind) == TransformCandidate(kind, <<ref>>, params, fills, Bytes(fills) + 4 * Len(fills),
                                         Len(fills) + 1, 18, FALSE)
    IN  IF plan.ok THEN <<Fill("SlotSubstitution"), Fill("SchemaSlotFill")>> ELSE <<>>

SelectionCandidates(ref, width, stride) ==
    (IF width.ok
     THEN <<TransformCandidate("RolePermutation", <<ref>>, <<width.value>>, <<>>, 6, 2, 16, TRUE)>> ELSE <<>>)
    \o
    (IF stride.ok
     THEN <<TransformCandidate("StridedSelection", <<ref>>, <<stride.value.offset, stride.value.stride>>,
                               <<>>, 6, 2, 14, TRUE)>> ELSE <<>>)

BaseCandidates(ref, base, target) ==
    InsertCandidates(ref, prefix_insert_plan(base, target), suffix_insert_plan(base, target), wrap_plan(base, target))
    \o InteriorCandidates(ref, bounded_interior_insert_plan(base, target), bounded_delete_plan(base, target))
    \o RepeatCandidates(ref, repeated_motif_expansion_plan(base, target))
    \o SlotCandidates(ref, slot_substitution_plan(base, target))
    \o SelectionCandidates(ref, role_permutation_plan(base, target), strided_selection_plan(base, target))

SpliceCandidates(plan) ==
    IF plan.ok
    THEN <<TransformCandidate("SpliceFromTwoBases", <<plan.value.left, plan.value.right>>,
             <<plan.value.left_len, plan.value.right_start>>, <<>>, 8, 2, 16, TRUE)>>
    ELSE <<>>

(***************************************************************************)
(* Collecting them.                                                        *)
(***************************************************************************)
\* The window that matches longest over the catalog, blocks before bundles, the first of equals.
best_window_match(cat, payload) ==
    LET Better(v, w) == \/ v.matched_len > w.matched_len
                        \/ v.matched_len = w.matched_len /\ v.payload_start < w.payload_start
        Weigh(best, b, w) ==
            IF w.ok /\ (best.ok => Better(w.value, best.value.window))
            THEN Done([window |-> w.value,
                       ref |-> [b.ref EXCEPT !.start = w.value.base_start, !.len = w.value.matched_len],
                       bytes |-> Slice(b.bytes, w.value.base_start, w.value.base_start + w.value.matched_len)])
            ELSE best
        consider_window_match(best, b) == Weigh(best, b, find_best_window_in_base(payload, b.bytes, MIN_RANGE_REUSE))
    IN  FoldLeft(consider_window_match, Failed, Bases(cat))

exact_transform_bases(cat) == Kept(Bases(cat), {b \in ToSet(Bases(cat)) : b.bytes # <<>>})

\* One candidate per kind, replaced only by a cheaper one.
replace_or_push(out, candidate) ==
    LET same == {i \in DOMAIN out : out[i].kind = candidate.kind}
    IN  IF same = {} THEN Append(out, candidate)
        ELSE [i \in DOMAIN out |-> IF i \in same /\ candidate.wire < out[i].wire THEN candidate ELSE out[i]]

Collected(match, bases, target) ==
    FoldLeft(replace_or_push, <<>>,
        (IF match.ok THEN WindowCandidates(match.value.ref, match.value.bytes, target) ELSE <<>>)
        \o FlattenSeq([i \in DOMAIN bases |-> BaseCandidates(bases[i].ref, bases[i].bytes, target)])
        \o SpliceCandidates(splice_from_two_bases_plan(target, bases)))

GeneratedCandidates(cat, target) == Collected(best_window_match(cat, target), exact_transform_bases(cat), target)

transform_total_cost(candidate, baseline) ==
    LET cost == candidate.wire + 4 + 2 * Len(candidate.params) + 2 * Len(candidate.residuals)
                + 2 * Len(candidate.refs) + (IF candidate.steps < 32 THEN candidate.steps ELSE 32)
        credit == IF candidate.gain < baseline \div 2 THEN candidate.gain ELSE baseline \div 2
    IN  IF cost > credit THEN cost - credit ELSE 0

\* What is left: the candidates cheaper than the bytes themselves, with their cost for wire.
Retained(candidates, baseline) ==
    LET priced == [i \in DOMAIN candidates |->
                     [candidates[i] EXCEPT !.wire = transform_total_cost(candidates[i], baseline)]]
    IN  Kept(priced, {c \in ToSet(priced) : c.wire < baseline})

generate_transform_candidates(cat, target) ==
    Retained(GeneratedCandidates(cat, target), Unit * Len(target) + 1)

(***************************************************************************)
(* The receiver.                                                           *)
(***************************************************************************)
\* The bytes of the block or bundle, cut to the range of the reference.
resolve_transform_basis(cat, ref) ==
    LET whole == IF ref.kind = "block"
                 THEN materialize_block_range(cat, ref.base, 0, Len(ref.base.material))
                 ELSE materialize_bundle(cat, ref.base)
    IN  IF whole.ok
        THEN Done(SubSeq(whole.value, ref.start + 1,
                         IF ref.start + ref.len < Len(whole.value) THEN ref.start + ref.len ELSE Len(whole.value)))
        ELSE Failed

ApplyDuplication(base, p) ==
    IF checked_range(Len(base), p[1], p[2])
    THEN Done(base \o Repeated(Slice(base, p[1], p[1] + p[2]), p[3]))
    ELSE Failed

\* Faulty: patches are applied from the first to the last.
FaultyApplySlots(base, p, fills) ==
    LET Patch(out, i) == IF out.ok THEN Splice(out.value, p[2 * i - 1], p[2 * i], fills[i]) ELSE out
    IN  IF Len(p) = 2 * Len(fills) /\ p # <<>>
        THEN FoldLeftDomain(Patch, Done(base), fills) ELSE Failed

\* Patches are applied from the last to the first, so that positions stay those of the base.
ApplySlots(base, p, fills) ==
    LET Patch(out, k) ==
          LET i == Len(fills) + 1 - k
          IN  IF out.ok THEN Splice(out.value, p[2 * i - 1], p[2 * i], fills[i]) ELSE out
    IN  IF Len(p) = 2 * Len(fills) /\ p # <<>>
        THEN FoldLeftDomain(Patch, Done(base), fills) ELSE Failed

ApplyReorder(base, p, fill) ==
    IF /\ checked_range(Len(base), p[1], p[2]) /\ Len(fill) = p[2]
       /\ SameBag(split(Slice(base, p[1], p[1] + p[2]), p[3]), split(fill, p[3]))
    THEN Splice(base, p[1], p[2], fill) ELSE Failed

ApplyInsert(c, base) ==
    CASE c.kind = "PrefixInsert" -> Done(c.residuals[1] \o base)
      [] c.kind = "SuffixInsert" -> Done(base \o c.residuals[1])
      [] c.kind = "Wrap" -> Done(c.residuals[1] \o base \o c.residuals[2])
      [] c.kind = "BoundedInteriorInsert" -> Splice(base, c.params[1], 0, c.residuals[1])

ApplyCut(c, base) ==
    CASE c.kind = "BoundedDelete" -> Splice(base, c.params[1], c.params[2], <<>>)
      [] c.kind \in {"BoundedSubstitution", "CopyWithGap"} ->
            Splice(base, c.params[1], c.params[2], c.residuals[1])
      [] c.kind = "DelimiterPreservingRewrite" ->
            IF delimiter_inventory(base) = delimiter_inventory(c.residuals[1])
            THEN Done(c.residuals[1]) ELSE Failed

ApplyShape(c, base) ==
    CASE c.kind = "RepeatedMotifExpansion" -> Done(Repeated(base, c.params[1]))
      [] c.kind = "RolePermutation" -> Done(FlattenSeq(Reverse(chunks(base, c.params[1]))))
      [] c.kind \in {"LocalMirror", "MirrorSymmetry"} -> Done(base \o Reverse(base))
      [] c.kind = "StridedSelection" -> Done(Strided(base, c.params[1], c.params[2]))
      [] c.kind = "SchemaConditionedExpansion" ->
            Done(base \o Repeated(c.residuals[1] \o base, c.params[1] - 1))

ApplySpliceOfTwo(c, left, right) ==
    IF c.params[1] <= Len(left) /\ c.params[2] <= Len(right)
    THEN Done(Slice(left, 0, c.params[1]) \o Slice(right, c.params[2], Len(right)))
    ELSE Failed

ApplyToOne(c, base) ==
    CASE c.kind \in {"MotifDuplicateCompress", "BoundedDuplication"} -> ApplyDuplication(base, c.params)
      [] c.kind \in {"SlotSubstitution", "SchemaSlotFill"} -> ApplySlots(base, c.params, c.residuals)
      [] c.kind = "BoundedReorder" -> ApplyReorder(base, c.params, c.residuals[1])
      [] c.kind \in {"PrefixInsert", "SuffixInsert", "Wrap", "BoundedInteriorInsert"} -> ApplyInsert(c, base)
      [] c.kind \in {"BoundedDelete", "BoundedSubstitution", "CopyWithGap", "DelimiterPreservingRewrite"} ->
            ApplyCut(c, base)
      [] OTHER -> ApplyShape(c, base)

\* The contract of the instance: its output must have the length it declares.
apply_transform_instance(cat, c, outputLen) ==
    LET bases == [i \in DOMAIN c.refs |-> resolve_transform_basis(cat, c.refs[i])]
        out == IF c.kind = "SpliceFromTwoBases" THEN ApplySpliceOfTwo(c, bases[1].value, bases[2].value)
               ELSE ApplyToOne(c, bases[1].value)
    IN  IF (\A i \in DOMAIN bases : bases[i].ok) /\ out.ok /\ Len(out.value) = outputLen
        THEN out ELSE Failed

=============================================================================
