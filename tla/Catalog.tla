------------------------------ MODULE Catalog ------------------------------
(***************************************************************************)
(* The shared block catalog (shared_protocol/src/catalog.rs): blocks of    *)
(* exact bytes, bundles of block ranges, the version, and the searches the *)
(* policy runs over them.                                                  *)
(*                                                                         *)
(* Identifiers are hashes of the content: here a block is its own          *)
(* identifier and so is a bundle.  The maps are ordered by hash, an order  *)
(* that has nothing to do with the content: InIdOrder is some fixed order. *)
(* Bytes are members of a small set, byte strings are sequences of them.   *)
(***************************************************************************)
EXTENDS Integers, FiniteSets, SequencesExt

Block(kind, material) == [kind |-> kind, material |-> material]

BundleMember(block, start, len) == [block |-> block, start |-> start, len |-> len]

Bundle(members) == [members |-> members]

EmptyCatalog == [version |-> 0, blocks |-> {}, bundles |-> {}]

InIdOrder(S) == SetToSeq(S)

\* A result that may be an error; OrElse reads it.
Failed == [ok |-> FALSE]

Done(value) == [ok |-> TRUE, value |-> value]

OrElse(result, value) == IF result.ok THEN result.value ELSE value

(***************************************************************************)
(* Byte strings.                                                           *)
(***************************************************************************)
Slice(s, from, to) == SubSeq(s, from + 1, to)

checked_range(total, start, len) == start <= total /\ start + len <= total

\* Replace the bytes [start, start + len) of base.
Splice(base, start, len, fill) ==
    IF checked_range(Len(base), start, len)
    THEN Done(Slice(base, 0, start) \o fill \o Slice(base, start + len, Len(base)))
    ELSE Failed

\* The elements of s that are in S, in their order.
Kept(s, S) == FlattenSeq([i \in DOMAIN s |-> IF s[i] \in S THEN <<s[i]>> ELSE <<>>])

common_prefix_len(left, right) ==
    CHOOSE n \in 0 .. Len(left) :
        /\ n <= Len(right)
        /\ \A i \in 1 .. n : left[i] = right[i]
        /\ (n < Len(left) /\ n < Len(right)) => left[n + 1] # right[n + 1]

(***************************************************************************)
(* Reading the catalog.                                                    *)
(***************************************************************************)
materialize_block_range(cat, block, start, len) ==
    IF block \in cat.blocks /\ checked_range(Len(block.material), start, len)
    THEN Done(Slice(block.material, start, start + len))
    ELSE Failed

materialize_members(cat, members) ==
    LET parts == [i \in DOMAIN members |->
                    materialize_block_range(cat, members[i].block, members[i].start, members[i].len)]
    IN  IF \A i \in DOMAIN parts : parts[i].ok
        THEN Done(FlattenSeq([i \in DOMAIN parts |-> parts[i].value]))
        ELSE Failed

materialize_bundle(cat, bundle) ==
    IF bundle \in cat.bundles THEN materialize_members(cat, bundle.members) ELSE Failed

\* The length a bundle entry carries.
BundleLen(bundle) == FoldLeft(LAMBDA total, m : total + m.len, 0, bundle.members)

ExactBlocksFor(cat, material) == Kept(InIdOrder(cat.blocks), {b \in cat.blocks : b.material = material})

ExactBundlesFor(cat, material) ==
    Kept(InIdOrder(cat.bundles), {b \in cat.bundles : materialize_bundle(cat, b) = Done(material)})

(***************************************************************************)
(* Changing it.                                                            *)
(***************************************************************************)
insert_block(cat, kind, material) ==
    [cat EXCEPT !.blocks = @ \cup {Block(kind, material)}]

\* validate_with_catalog: a bundle is accepted when every member can be read.
BundleIsValid(cat, bundle) ==
    /\ bundle.members # <<>>
    /\ materialize_members(cat, bundle.members).ok

define_bundle(cat, members) ==
    IF BundleIsValid(cat, Bundle(members))
    THEN Done([cat EXCEPT !.bundles = @ \cup {Bundle(members)}])
    ELSE Failed

\* apply_sync works on a copy: a payload is installed whole or not at all.
apply_sync(cat, sync) ==
    LET withBlocks == [cat EXCEPT !.blocks = @ \cup sync.blocks]
    IN  IF /\ sync.version >= cat.version
           /\ \A bundle \in sync.bundles : BundleIsValid(withBlocks, bundle)
        THEN Done([withBlocks EXCEPT !.bundles = @ \cup sync.bundles, !.version = sync.version])
        ELSE Failed

\* A sync payload carries the blocks asked for and those its bundles are made of.
sync_payload(cat, version, blocks, bundles) ==
    LET members == UNION {{m.block : m \in ToSet(bundle.members)} : bundle \in bundles}
    IN  IF blocks \cup members \subseteq cat.blocks /\ bundles \subseteq cat.bundles
        THEN Done([version |-> version, blocks |-> blocks \cup members, bundles |-> bundles])
        ELSE Failed

\* RepairRequest.validate, then the sync payload that answers it.
repair_response(cat, request, version) ==
    IF request.blocks = {} /\ request.bundles = {} /\ request.cause = "MissingBasis"
    THEN Failed
    ELSE sync_payload(cat, version, request.blocks, request.bundles)

(***************************************************************************)
(* Searches.                                                               *)
(***************************************************************************)
BlockRef(block, start, len) == [kind |-> "block", base |-> block, start |-> start, len |-> len]

BundleRef(bundle, start, len) == [kind |-> "bundle", base |-> bundle, start |-> start, len |-> len]

\* The whole catalog as references, blocks first, each with its bytes.
Bases(cat) ==
    LET blocks == InIdOrder(cat.blocks)
        bundles == InIdOrder(cat.bundles)
    IN  [i \in DOMAIN blocks |->
            [ref |-> BlockRef(blocks[i], 0, Len(blocks[i].material)), bytes |-> blocks[i].material]]
        \o
        [i \in DOMAIN bundles |->
            [ref |-> BundleRef(bundles[i], 0, BundleLen(bundles[i])),
             bytes |-> OrElse(materialize_bundle(cat, bundles[i]), <<>>)]]

\* Longest first, a bundle before a block of its length, at most limit of them.
prefix_candidates(cat, remaining, minLen, limit) ==
    LET bases == Bases(cat)
        Fitting(kind, len) ==
          Kept(bases, {b \in ToSet(bases) : b.ref.kind = kind /\ b.bytes = SubSeq(remaining, 1, len)})
        OfLength(len) == Fitting("bundle", len) \o Fitting("block", len)
        sorted == FlattenSeq([k \in 1 .. Len(remaining) + 1 - minLen |-> OfLength(Len(remaining) + 1 - k)])
    IN  SubSeq(sorted, 1, IF Len(sorted) < limit THEN Len(sorted) ELSE limit)

\* The longest window that payload and base share; ties go to the earliest
\* place in the payload, then in the base.
find_best_window_in_base(payload, base, minLen) ==
    LET windows == {w \in [payload_start : 0 .. Len(payload) - 1, base_start : 0 .. Len(base) - 1,
                           matched_len : minLen .. Len(payload)] :
                      w.matched_len = common_prefix_len(Slice(payload, w.payload_start, Len(payload)),
                                                        Slice(base, w.base_start, Len(base)))}
        Better(v, w) == \/ v.matched_len > w.matched_len
                        \/ /\ v.matched_len = w.matched_len
                           /\ \/ v.payload_start < w.payload_start
                              \/ v.payload_start = w.payload_start /\ v.base_start < w.base_start
    IN  IF windows = {} THEN Failed
        ELSE Done(CHOOSE w \in windows : \A v \in windows \ {w} : Better(w, v))

=============================================================================
