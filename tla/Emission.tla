------------------------------ MODULE Emission ------------------------------
(***************************************************************************)
(* The server's plain emission path and the client that applies it: which   *)
(* route an item takes (ServerState::emit_plain_runtime_data), what every   *)
(* route changes in the server, when it falls back to direct state, and     *)
(* what the client makes of the record; with the repair of the catalog, the *)
(* resynchronisation and the learning loop between them.                    *)
(*                                                                          *)
(* A content is a sequence of symbols, each standing for SymbolBytes bytes  *)
(* that share no run worth a reference with another symbol's; its cue is    *)
(* derived from the symbols.  What candidates of a content cost is data,    *)
(* given by menus; how many bytes a payload is longer than the content is a *)
(* choice.  So is what the client makes of an exact state: it was compressed *)
(* with what the server has learnt and is undone with what the client has    *)
(* learnt, of which ExactPath says when that is the content again.  Records  *)
(* travel in order: the stream modules say why.                              *)
(***************************************************************************)
EXTENDS Router, Learning

CONSTANTS Items,         \* the items, numbers
          Contents(_),   \* what the host may upsert for an item
          Announced,     \* the sources announced at the start
          Sources,       \* the kinds the host may bind an item to
          Requests,      \* the repair requests the peer may make
          Bundles,       \* the bundles the host may define, as sequences of members
          Schemas,       \* the schemas the host may install
          Classes,       \* the transform classes in the assembly cache
          Assemblies(_), \* the assembly candidates of a content
          Transforms(_, _), \* the transform candidates of a content over a catalog
          Tokenized(_),  \* the number of the dictionary a content's segments make, if any
          Acks,          \* the objects whose acknowledgement may arrive
          Activations,   \* the objects the host may report as activated
          HostJobs,      \* the consolidation jobs the host may queue
          MaxUses,       \* bound: the uses of the cache of one learning cycle that succeed
          Overheads(_),  \* the bytes by which a content's payload may exceed what it stands for
          Decodings(_),  \* the bytes a client may make of an exact state of a content
          SymbolBytes,   \* the bytes of a symbol
          MaxEntries,    \* MAX_SERVER_ENTRIES
          MaxSteps,      \* bound: records, the host's calls, learning cycles and evictions together
          MaxControl     \* bound: records of one call for the control plane

\* What the host installs and the cache holds from before is of no learned family.
NoFamily(life) ==
    /\ {"level", "family"} \subseteq DOMAIN life
    /\ life.level \in 0 .. Canonical /\ life.family = << >>

ASSUME EmissionAssumption ==
    /\ \A schema \in Schemas : {"id", "life"} \subseteq DOMAIN schema /\ NoFamily(schema.life)
    /\ \A id \in DOMAIN Classes : "life" \in DOMAIN Classes[id] /\ NoFamily(Classes[id].life)
    /\ MaxUses \in Nat

VARIABLES server,   \* ServerState
          client,   \* ClientState
          down,     \* the records on their way to the client
          history   \* what was sent and is to be shown, for the properties, and the steps taken

vars == <<server, client, down, history>>

Programs == INSTANCE StatePrograms
              WITH MIN_RANGE_REUSE <- 1, Unit <- SymbolBytes, TINY <- 0, MAX_REFS <- 3,
                   MAX_PER_STEP <- 2, MIN_COMPONENT <- 1, MAX_SUFFIX <- 0, MAX_PATCH <- 0

ServerStart(bound) ==
    LET learning == LearningStart(<< >>, Classes)
        rest == [tick |-> Cardinality(DOMAIN bound), entries |-> << >>, predicted |-> {},
                 bound |-> bound, local |-> EmptyCatalog, version |-> 0, peer |-> EmptyCatalog,
                 confirmed |-> {}, stats |-> << >>, governor |-> << >>, tree |-> EmptyTree,
                 window |-> << >>, arms |-> NoArms, downgrades |-> << >>]
    IN [f \in DOMAIN rest \union DOMAIN learning |->
          IF f \in DOMAIN rest THEN rest[f] ELSE learning[f]]

ClientStart(bound) ==
    [cache |-> << >>, bound |-> bound, catalog |-> EmptyCatalog, dictionaries |-> {},
     stats |-> << >>, governor |-> << >>, memory |-> EmptyMemory]

ByteLen(content) == SymbolBytes * Len(content)

SourceOf(bound, item) == IF item \in DOMAIN bound THEN bound[item] ELSE Binary

\* The server's cue of an item without a source is the default, which is empty.
ServerCue(s, item, content) ==
    IF item \in DOMAIN s.bound THEN derive_sparse_cue(s.bound[item], content) ELSE EmptyCue

ItemRef(item) == ObjectRef(ExactState, item)

ContextOf(s, item, content) == derive_context_hash(ServerCue(s, item, content), ItemRef(item))

-----------------------------------------------------------------------------
(* Outcomes *)

record_route_outcome_detail(s, family, source, ctx, success, symbol) ==
    [s EXCEPT
       !.stats = record_statistic(@, family, <<source>>, ctx, s.tick, success),
       !.governor = IF symbol = << >> THEN @
                    ELSE observe_symbol(@, symbol[1], Outcome(success, FALSE, 0)),
       !.memory = record_trace_outcome(@, family, <<source>>, ctx, s.tick, success)]

Trained(tree, family, tick) ==
    IF tick % PruneEvery = 0 THEN prune(train(tree, <<family>>)) ELSE train(tree, <<family>>)

record_route_outcome(s, family, source, ctx, success) ==
    [record_route_outcome_detail(s, family, source, ctx, success, << >>) EXCEPT
       !.tree = Trained(@, family, s.tick),
       !.window = Trim(Append(@, family), WindowLimit),
       !.arms = record_arm(@, family, success)]

\* Faulty: the downgrade is counted and the planned family not blamed.
FaultyDowngrade(s, planned, source, ctx) == [s EXCEPT !.downgrades = Bumped(@, planned, 1)]

record_direct_state_downgrade(s, planned, source, ctx) ==
    [record_route_outcome(s, planned, source, ctx, FALSE) EXCEPT !.downgrades = Bumped(@, planned, 1)]

-----------------------------------------------------------------------------
(* Storing an item *)

\* When the map is full another item makes room, with its predictor and its source.
Evicted(s, item) ==
    LET others == DOMAIN s.entries \ {item}
        kept == others \ {CHOOSE i \in others : TRUE}
    IN IF Cardinality(DOMAIN s.entries) < MaxEntries \/ others = {} THEN s
       ELSE [s EXCEPT !.entries = [i \in DOMAIN @ \intersect (kept \union {item}) |-> @[i]],
                      !.predicted = @ \intersect (kept \union {item}),
                      !.bound = [i \in DOMAIN @ \ (others \ kept) |-> @[i]]]

Stored(s, item, content) ==
    [s EXCEPT !.entries = With(@, item, content), !.predicted = @ \union {item}]

store_runtime_object_for_item(s, item, content) ==
    Stored(Evicted([s EXCEPT !.local = insert_block(@, SourceOf(s.bound, item), content)], item),
           item, content)

-----------------------------------------------------------------------------
(* What the peer has *)

\* An object the peer acknowledged, or material the server sent it.
predictive_object_ref_is_admissible(s, obj) ==
    CASE obj.kind \in {AssemblyKind, SchemaKind, DictionaryKind, TransformKind} -> obj \in s.confirmed
      [] obj.kind \in {ExactBlock, ExactRange} -> obj.id \in s.peer.blocks
      [] obj.kind = ExactBundle -> obj.id \in s.peer.bundles
      [] OTHER -> FALSE

\* Dependencies ask for revision 0, and an unknown schema, dictionary or transform counts as
\* revision 0.
predictive_dependency_is_admissible_with_inline(s, obj, inline) ==
    \/ obj \in inline
    \/ obj.kind \in {SchemaKind, DictionaryKind, TransformKind}
    \/ predictive_object_ref_is_admissible(s, obj)

AllAdmissible(s, deps, inline) ==
    \A obj \in deps : predictive_dependency_is_admissible_with_inline(s, obj, inline)

filter_episode_candidates(s) ==
    SelectSeq(generate_episode_completion_candidates(s.memory),
              LAMBDA c : predictive_object_ref_is_admissible(s, c.obj))

SchemaCandidate(schema, cue) ==
    [schema EXCEPT !.support = AtLeast(@, schema.life.support),
                   !.consistency = AtLeast(@, schema.edges),
                   !.decode = AtLeast(@, schema.depth)]
      @@ [overlap |-> overlap_score(cue, schema.cue)]

SchemaQuality(c) ==
    <<Monus(Monus(c.overlap + c.support + c.consistency, c.burden), c.decode \div 2),
      c.overlap, 0 - c.id>>

\* SchemaCandidatePolicy::bounded_default: this many candidates, this deep and this wide.
MaxSchemaCandidates == 8

generate_schema_route_candidates(schemas, cue, source, ctx) ==
    LET fitting == SelectSeq(schemas, LAMBDA schema :
                     /\ schema.source = source
                     /\ schema.depth <= MaxSchemaCandidates /\ schema.fanout <= MaxSchemaCandidates
                     /\ schema.contexts = {} \/ ctx \in schema.contexts)
        ranked == StableSort([i \in DOMAIN fitting |-> SchemaCandidate(fitting[i], cue)],
                             LAMBDA l, r : Outranks(SchemaQuality(l), SchemaQuality(r)))
    IN SubSeq(ranked, 1, AtMost(Len(ranked), MaxSchemaCandidates))

filter_schema_candidates(s, cue, source, ctx) ==
    SelectSeq(generate_schema_route_candidates(s.schemas, cue, source, ctx),
              LAMBDA c : AllAdmissible(s, c.deps, {}))

-----------------------------------------------------------------------------
(* The plans over the peer's catalog *)

DependencyOf(ref) ==
    ObjectRef(IF ref.kind = "bundle" THEN ExactBundle
              ELSE IF ref.start = 0 /\ ref.len = Len(ref.base.material) THEN ExactBlock ELSE ExactRange,
              ref.base)

Atom(refs, deps) == Done([parts |-> refs, deps |-> deps])

\* Faulty: a window that starts the payload is taken for all of it.
FaultyRangesOver(cat, content) ==
    LET blocks == InIdOrder(cat.blocks)
        Ref(b) == LET w == find_best_window_in_base(content, b.material, 1)
                  IN IF w.ok /\ w.value.payload_start = 0
                     THEN <<BlockRef(b, w.value.base_start, w.value.matched_len)>> ELSE << >>
    IN FlattenSeq([i \in DOMAIN blocks |-> Ref(blocks[i])])

\* The ranges of one block that are the whole content.
RangesOver(cat, content) ==
    LET blocks == InIdOrder(cat.blocks)
        Ref(b) == LET w == find_best_window_in_base(content, b.material, 1)
                  IN IF w.ok /\ w.value.payload_start = 0 /\ w.value.matched_len = Len(content)
                     THEN <<BlockRef(b, w.value.base_start, w.value.matched_len)>> ELSE << >>
    IN FlattenSeq([i \in DOMAIN blocks |-> Ref(blocks[i])])

\* A composite of prefixes has no dependencies.
CompositeAtom(best, content) ==
    IF best.ok /\ best.value.covered = Len(content) /\ Len(best.value.refs) >= 2
    THEN Atom(best.value.refs, {}) ELSE Failed

AtomOver(content, blocks, bundles, ranges, composite) ==
    IF blocks # << >>
    THEN Atom(<<BlockRef(blocks[1], 0, Len(content))>>, {ObjectRef(ExactBlock, blocks[1])})
    ELSE IF bundles # << >>
    THEN Atom(<<BundleRef(bundles[1], 0, Len(content))>>, {ObjectRef(ExactBundle, bundles[1])})
    ELSE IF ranges # << >> THEN Atom(<<ranges[1]>>, {ObjectRef(ExactRange, ranges[1].base)})
    ELSE CompositeAtom(composite, content)

exact_atom_plan(cat, content) ==
    AtomOver(content, ExactBlocksFor(cat, content), ExactBundlesFor(cat, content),
             RangesOver(cat, content), Programs!best_prefix_refs(cat, content, 0))

Literal(content) == [kind |-> "literal", bytes |-> content]

\* Unless the match is all of it, the content itself is the only component.
HybridOf(best, content) ==
    IF ~best.ok THEN Failed
    ELSE Done([parts |-> IF best.value.window.matched_len = Len(content)
                         THEN <<best.value.ref>> ELSE <<Literal(content)>>,
               deps |-> {DependencyOf(best.value.ref)}])

build_hybrid_route(cat, content) == HybridOf(Programs!best_window_match(cat, content), content)

-----------------------------------------------------------------------------
(* choose_route_by_family *)

MaxPerRoute == 4
MaxSyncRisk == 64
MaxAmbiguity == 64

Among(s, n) == SubSeq(s, 1, AtMost(Len(s), n))

Unsuppressed(plans) == SelectSeq(plans, LAMBDA p : p.score.suppression < SuppressionLimit)

AssemblyPlans(s, sel, candidates, schemas) ==
    LET some == SelectSeq(Among(candidates, MaxPerRoute), LAMBDA c :
                  c.sync <= MaxSyncRisk /\ c.ambiguity <= MaxAmbiguity /\ c.support > 0)
    IN Unsuppressed([i \in DOMAIN some |->
         AssemblyPlan(some[i], sel, schemas, Adaptive(sel, s.stats, DirectState, some[i].slots))])

TransformPlans(s, sel, candidates, schemas) ==
    Unsuppressed([i \in DOMAIN candidates |->
      TransformPlan(candidates[i], sel, schemas, Adaptive(sel, s.stats, DirectState, 0))])

EpisodePlans(s, sel, candidates) ==
    LET some == Among(candidates, MaxPerRoute)
    IN Unsuppressed([i \in DOMAIN some |->
         EpisodePlan(some[i], Adaptive(sel, s.stats, DirectState, 0))])

SchemaPlans(s, sel, candidates) ==
    LET some == SelectSeq(Among(candidates, MaxPerRoute),
                          LAMBDA c : 4 * Cardinality(c.deps) <= MaxSyncRisk)
    IN Unsuppressed([i \in DOMAIN some |->
         SchemaPlan(some[i], Adaptive(sel, s.stats, DirectState, 0))])

AtomPlans(s, sel, content, atom) ==
    IF ~atom.ok THEN << >>
    ELSE <<AtomPlan(ByteLen(content), Adaptive(sel, s.stats, ExactAtom, 0),
                    Cardinality(atom.value.deps), atom.value)>>

HybridPlans(s, sel, content, route) ==
    IF \/ ~route.ok
       \/ suppressed(summarize_route_feedback(s.stats, Hybrid, sel.source, sel.ctx, sel.tick))
    THEN << >>
    ELSE <<HybridPlan(ByteLen(content), Adaptive(sel, s.stats, Hybrid, 0), sel, 1, route.value)>>

choose_route_by_family(s, sel, content, assemblies, transforms, episodes, schemas) ==
    choose_by_resonance(
      <<DirectPlan(ByteLen(content), Adaptive(sel, s.stats, DirectState, 0))>>
        \o AtomPlans(s, sel, content, exact_atom_plan(s.peer, content))
        \o AssemblyPlans(s, sel, assemblies, schemas)
        \o TransformPlans(s, sel, transforms, schemas)
        \o EpisodePlans(s, sel, episodes)
        \o SchemaPlans(s, sel, schemas)
        \o HybridPlans(s, sel, content, build_hybrid_route(s.peer, content)))

symbol_for_plan(plan, sel) ==
    Symbol(plan.family, sel.cue, plan.slots, IF plan.schema = << >> THEN sel.schema ELSE plan.schema)

-----------------------------------------------------------------------------
(* What an emission leaves: the server and the record. *)

Emitted(s, record) == [sv |-> s, record |-> record]

Record(s, type, item) == [type |-> type, item |-> item, tick |-> s.tick]

\* The payload is compress_exact_bytes of the content.
ExactRecord(s, item, content) == Record(s, "exact", item) @@ [content |-> content]

ExactEvent(s, item, content) ==
    Event(SourceOf(s.bound, item), ItemRef(item), ServerCue(s, item, content), s.tick, TRUE)

\* No room is made here: only stored objects evict.
EmitExactState(s, item, content) ==
    Emitted(Stored([append_episode_activation_for_item(s, item, ExactEvent(s, item, content)) EXCEPT
                      !.local = insert_block(@, SourceOf(s.bound, item), content)],
                   item, content),
            ExactRecord(s, item, content))

\* emit_direct_state_fallback_data: no dictionary is tried.
Fallback(s, item, content, family, source, ctx) ==
    EmitExactState(record_route_outcome(record_direct_state_downgrade(s, family, source, ctx),
                                        DirectState, source, ctx, TRUE),
                   item, content)

-----------------------------------------------------------------------------
(* The inflation check *)

\* A payload: how it is sent, what it is made of and needs, the bytes of the definitions it
\* carries, the nodes of its graph and the bytes it stands for.
Payload(rtype, family, parts, deps, inline, defs, nodes, len) ==
    [rtype |-> rtype, family |-> family, parts |-> parts, deps |-> deps, inline |-> inline,
     defs |-> defs, nodes |-> nodes, len |-> len, slots |-> 0, schema |-> << >>]

AssemblyDefBytes(assembly) == 64 + 128 * assembly.nodes

SchemaDefBytes(schema) == 64 + 32 * schema.slots + 64 * schema.nodes + 32 * schema.edges

DictionaryDefBytes(entries) == 32 + 32 * entries

HintBytes(candidates) == 32 + 32 * candidates + 48 * candidates

estimate_definition_investment_bytes(p) ==
    AtLeast(p.defs + 48 * Cardinality(p.deps) + (IF p.nodes = 0 THEN 0 ELSE 32 + 64 * p.nodes), 64)

FamilySuccesses(s, family) == SumOf(s.stats, {k \in DOMAIN s.stats : k[1] = family}, "succ")

\* One more for every three successes, at most eight; the key of the exact match is never one
\* of the map's.
Amortized(investment, successes) ==
    AtMost(8 * investment, investment + ((investment * successes) \div 3))

InflationChecked == 256

Inflates(s, p, overhead) ==
    /\ p.len >= InflationChecked
    /\ overhead > Amortized(estimate_definition_investment_bytes(p), FamilySuccesses(s, p.family))

Dispatch(s, item, p, source, content) ==
    Record(s, "dispatch", item)
      @@ [rtype |-> p.rtype, family |-> p.family, parts |-> p.parts, deps |-> p.deps,
          inline |-> p.inline, slots |-> p.slots, schema |-> p.schema, source |-> source,
          content |-> content]

\* The fallback downgrades once more.
EmitRoute(s, item, content, p, source, ctx, overhead) ==
    IF Inflates(s, p, overhead)
    THEN Fallback(record_direct_state_downgrade(s, p.family, source, ctx), item, content,
                  p.family, source, ctx)
    ELSE Emitted(s, Dispatch(s, item, p, source, content))

-----------------------------------------------------------------------------
(* Exact state *)

DictionaryRef(content) == ObjectRef(DictionaryKind, Tokenized(content)[1])

DictionaryEntries == 2

DictionaryPayload(s, content) ==
    LET ref == DictionaryRef(content)
        inline == {ref} \ s.confirmed
    IN Payload("correct", Hybrid, <<[kind |-> "dictionary", ref |-> ref, bytes |-> content]>>, {ref},
               inline, IF inline = {} THEN 0 ELSE DictionaryDefBytes(DictionaryEntries), 0,
               ByteLen(content))

emit_plain_exact_state_data(s, item, content, overhead) ==
    LET source == SourceOf(s.bound, item)
    IN IF source \in {Text, Json} /\ Tokenized(content) # << >>
       THEN EmitRoute(record_route_outcome(store_runtime_object_for_item(s, item, content),
                                           Hybrid, source, << >>, TRUE),
                      item, content, DictionaryPayload(s, content), source, << >>, overhead)
       ELSE EmitExactState(s, item, content)

EmitDirect(s, item, content, source, ctx, overhead) ==
    emit_plain_exact_state_data(record_route_outcome(s, DirectState, source, ctx, TRUE),
                                item, content, overhead)

-----------------------------------------------------------------------------
(* The routes.  s is the server that has stored the item. *)

Credited(s, plan, sel) ==
    record_route_outcome_detail(s, plan.family, sel.source, sel.ctx, TRUE,
                                <<symbol_for_plan(plan, sel)>>)

\* The basis is named under ExactBlock, a bundle too; the definition stays behind.
EmitTransform(s, item, content, plan, sel, overhead) ==
    LET deps == {ObjectRef(ExactBlock, plan.data.basis)}
    IN IF AllAdmissible(s, deps, {})
       THEN EmitRoute(Credited(s, plan, sel), item, content,
                      Payload("correct", DirectState, << >>, deps, {}, 0, 0, plan.data.wire),
                      sel.source, sel.ctx, overhead)
       ELSE Fallback(record_direct_state_downgrade(s, DirectState, sel.source, sel.ctx),
                     item, content, DirectState, sel.source, sel.ctx)

SchemaPayload(schema) ==
    [Payload("correct", DirectState, << >>, schema.deps \union schema.graph,
             {ObjectRef(SchemaKind, schema.id)}, SchemaDefBytes(schema), schema.nodes, schema.len)
       EXCEPT !.slots = schema.slots, !.schema = <<schema.kind>>]

EmitSchemaWith(s, item, content, schema, plan, sel, overhead) ==
    LET p == SchemaPayload(schema)
        learnt == update_schema(maybe_enqueue_schema_promotion(s, schema), schema)
    IN IF AllAdmissible(learnt, p.deps, p.inline)
       THEN EmitRoute(Credited(learnt, plan, sel), item, content, p, sel.source, sel.ctx, overhead)
       ELSE Fallback(learnt, item, content, DirectState, sel.source, sel.ctx)

EmitSchema(s, item, content, plan, sel, overhead) ==
    EmitSchemaWith(s, item, content,
                   [SchemaOf(s, plan.data.id) EXCEPT !.life = record_seen(@, s.tick)],
                   plan, sel, overhead)

EmitHybrid(s, item, content, plan, sel, overhead) ==
    IF AllAdmissible(s, plan.data.deps, {})
    THEN EmitRoute(Credited(s, plan, sel), item, content,
                   Payload("correct", Hybrid, plan.data.parts, plan.data.deps, {}, 0, 0,
                           ByteLen(content)),
                   sel.source, sel.ctx, overhead)
    ELSE Fallback(s, item, content, Hybrid, sel.source, sel.ctx)

EmitAtom(s, item, content, plan, sel, overhead) ==
    LET credited == record_route_outcome(s, ExactAtom, sel.source, sel.ctx, TRUE)
    IN IF AllAdmissible(s, plan.data.deps, {})
       THEN EmitRoute(credited, item, content,
                      Payload("confirm", ExactAtom, plan.data.parts, plan.data.deps, {}, 0,
                              Len(plan.data.parts), ByteLen(content)),
                      sel.source, sel.ctx, overhead)
       ELSE Fallback(credited, item, content, ExactAtom, sel.source, sel.ctx)

\* AssemblyAdmissibilityPolicy::bounded_default.
AmbiguityCap == 32
MaxExpansion == 4
MaxResidualPercent == 70

\* structuralize_assembly_body: what the peer's catalog shares with a literal becomes a
\* component, and its dependency, an id without its prefix, is never admissible.
Structuralizes(s, c) ==
    /\ \A base \in ToSet(Bases(s.peer)) : ToSet(base.bytes) \cap c.literals = {}
    /\ c.ambiguity <= AmbiguityCap
    /\ c.depth \in 1 .. MaxExpansion
    /\ c.min <= c.len /\ c.len <= c.max
    /\ (100 * c.residual) \div AtLeast(c.len, 1) <= MaxResidualPercent

NewAssembly(c, source) == [source |-> source, len |-> c.len, nodes |-> c.depth, life |-> NewLifecycle]

\* The assembly of that id, whatever its body.  The hot map of the cache has one whose store
\* failed; a lookup that fails on the file then leaves what a store that fails leaves.
materialize_or_lookup_assembly(s, c, source) ==
    IF c.id \in DOMAIN s.assemblies THEN s
    ELSE IF c.id \in DOMAIN s.shelf
    THEN [s EXCEPT !.assemblies = With(@, c.id, s.shelf[c.id])]
    ELSE IF s.uses = 0 THEN Abandoned([s EXCEPT !.shelf = With(@, c.id, NewAssembly(c, source))])
    ELSE [s EXCEPT !.assemblies = With(@, c.id, NewAssembly(c, source)), !.uses = @ - 1]

AssemblyPayload(s, c, assembly) ==
    LET inline == {ObjectRef(AssemblyKind, c.id)} \ s.confirmed
    IN [Payload("confirm", DirectState, << >>, {}, inline,
                IF inline = {} THEN 0 ELSE AssemblyDefBytes(assembly), 0, assembly.len)
          EXCEPT !.slots = IF inline = {} THEN 0 ELSE c.slots]

EmitAssemblyAs(s, item, content, c, assembly, source, overhead) ==
    IF assembly.len = ByteLen(content)
    THEN EmitRoute(s, item, content, AssemblyPayload(s, c, assembly), source, << >>, overhead)
    ELSE Fallback(s, item, content, DirectState, source, << >>)

\* A call that failed has no record.
NoRecord(s, item) == Emitted(s, Record(s, "none", item))

\* The promotion is queued before the store that may fail.
EmitSeenAssembly(s, item, content, c, assembly, source, overhead) ==
    LET learnt == persist_assembly(
                    maybe_enqueue_assembly_promotion(
                      s, c.id, assembly, AtLeast(Monus(ByteLen(content), c.wire), 1), c.ambiguity),
                    c.id, assembly)
    IN IF learnt.failed THEN NoRecord(learnt, item)
       ELSE EmitAssemblyAs(learnt, item, content, c, assembly, source, overhead)

EmitMaterialized(s, item, content, c, source, overhead) ==
    IF s.failed THEN NoRecord(s, item)
    ELSE EmitSeenAssembly(s, item, content, c,
                          [s.assemblies[c.id] EXCEPT !.life = record_seen(@, s.tick)],
                          source, overhead)

emit_assembly_route(s, item, content, c, source, overhead) ==
    IF Structuralizes(s, c)
    THEN EmitMaterialized(materialize_or_lookup_assembly(s, c, source), item, content, c, source, overhead)
    ELSE Fallback(s, item, content, DirectState, source, << >>)

\* The activation is recorded before the check.
emit_episode_completion_route(s, item, content, c, sel, overhead) ==
    EmitRoute(append_episode_activation_for_item(s, item, Event(sel.source, c.obj, sel.cue, s.tick, TRUE)),
              item, content,
              Payload("confirm", DirectState, << >>, {c.obj}, {}, HintBytes(1), 1, ByteLen(content)),
              sel.source, <<derive_context_hash(sel.cue, c.obj)>>, overhead)

EmitPlan(s, item, content, plan, sel, overhead) ==
    LET stored == store_runtime_object_for_item(s, item, content)
    IN CASE plan.route = "DirectState" ->
              emit_plain_exact_state_data(Credited(s, plan, sel), item, content, overhead)
         [] plan.route = "Transform" -> EmitTransform(stored, item, content, plan, sel, overhead)
         [] plan.route = "SchemaExpansion" ->
              IF SchemaAt(s, plan.data.id) = {}
              THEN Fallback(s, item, content, DirectState, sel.source, sel.ctx)
              ELSE EmitSchema(stored, item, content, plan, sel, overhead)
         [] plan.route = "Hybrid" -> EmitHybrid(stored, item, content, plan, sel, overhead)
         [] plan.route = "Assembly" ->
              emit_assembly_route(Credited(stored, plan, sel), item, content, plan.data, sel.source, overhead)
         [] plan.route = "EpisodeCompletion" ->
              emit_episode_completion_route(Credited(stored, plan, sel), item, content, plan.data,
                                            sel, overhead)
         [] OTHER -> EmitAtom(stored, item, content, plan, sel, overhead)

-----------------------------------------------------------------------------
(* emit_plain_runtime_data *)

Selection(s, cue, source, ctx, schemas) ==
    [cue |-> cue, source |-> source, ctx |-> ctx, tick |-> s.tick, governor |-> s.governor,
     schema |-> IF schemas = << >> THEN << >> ELSE <<schemas[1].kind>>]

\* Nothing the client could predict from.
has_predictive_context(s, item) ==
    item \in s.predicted \/ item \in DOMAIN s.bound \/ s.peer.blocks # {} \/ s.peer.bundles # {}

Unchanged(s, item, content) == item \in s.predicted /\ s.entries[item] = content

\* The suffix tree is sure of direct state and there is nothing better to choose.
ShortCircuited(s, assemblies, episodes, schemas) ==
    /\ DirectState \in predict(s.tree, s.window, HighConfidence)
    /\ assemblies = << >> /\ episodes = << >> /\ schemas = << >>

EmitChosen(s, item, content, sel, assemblies, transforms, episodes, schemas, overhead) ==
    IF ShortCircuited(s, assemblies, episodes, schemas)
    THEN EmitDirect(s, item, content, sel.source, sel.ctx, overhead)
    ELSE EmitPlan(s, item, content,
                  choose_route_by_family(s, sel, content, assemblies, transforms, episodes, schemas),
                  sel, overhead)

EmitPredictive(s, item, content, cue, source, ctx, schemas, overhead) ==
    EmitChosen(s, item, content, Selection(s, cue, source, <<ctx>>, schemas), Assemblies(content),
               Transforms(s.peer, content), filter_episode_candidates(s), schemas, overhead)

emit_plain_runtime_data(s, item, content, overhead) ==
    LET source == SourceOf(s.bound, item)
        ctx == ContextOf(s, item, content)
    IN IF Unchanged(s, item, content) \/ ~has_predictive_context(s, item)
       THEN EmitDirect(s, item, content, source, <<ctx>>, overhead)
       ELSE EmitPredictive(s, item, content, ServerCue(s, item, content), source, ctx,
                           filter_schema_candidates(s, ServerCue(s, item, content), source, ctx),
                           overhead)

-----------------------------------------------------------------------------
(* The client *)

\* Nothing prunes these statistics, and no context is kept with them.
ClientOutcome(c, family, tick, success, symbol, sync) ==
    [c EXCEPT
       !.stats = Recorded(@, <<family, << >>, << >>>>, tick, success),
       !.governor = IF symbol = << >> THEN @
                    ELSE observe_symbol(@, symbol[1], Outcome(success, sync, 0)),
       !.memory = record_trace_outcome(@, family, << >>, << >>, tick, success)]

Remembered(c, event) == [c EXCEPT !.memory = append_activation(@, event)]

\* The cached object and its promotion to the catalog.
Cached(c, item, kind, bytes) ==
    [c EXCEPT !.cache = With(@, item, bytes), !.catalog = insert_block(@, kind, bytes)]

\* The cue is that of the bytes, whether the item has a source or not.  Bytes that could not
\* be decompressed are cached and promoted like any other.
ApplyExact(c, r, bytes) ==
    LET kind == SourceOf(c.bound, r.item)
    IN ClientOutcome(Remembered(Cached(c, r.item, kind, bytes),
                                Event(kind, ItemRef(r.item), derive_sparse_cue(kind, bytes), r.tick, TRUE)),
                     DirectState, r.tick, TRUE, << >>, FALSE)

Forget(c, item) ==
    [c EXCEPT !.cache = [i \in DOMAIN @ \ {item} |-> @[i]],
              !.bound = [i \in DOMAIN @ \ {item} |-> @[i]]]

dispatch_record_type(family) ==
    CASE family = DirectState -> "exact"
      [] family = ExactAtom -> "confirm"
      [] family = Hybrid -> "correct"

dependency_available(c, obj) ==
    CASE obj.kind = DictionaryKind -> obj.id \in c.dictionaries
      [] obj.kind \in {ExactBlock, ExactRange} -> obj.id \in c.catalog.blocks
      [] obj.kind = ExactBundle -> obj.id \in c.catalog.bundles
      [] OTHER -> FALSE

Part(c, part) ==
    CASE part.kind = "literal" -> Done(part.bytes)
      [] part.kind = "dictionary" ->
           IF part.ref.id \in c.dictionaries THEN Done(part.bytes) ELSE Failed
      [] OTHER -> Programs!materialize_ref(c.catalog, part)

dispatch_predictive_payload(c, r) ==
    LET parts == [i \in DOMAIN r.parts |-> Part(c, r.parts[i])]
    IN IF (\A obj \in r.deps : dependency_available(c, obj)) /\ \A i \in DOMAIN parts : parts[i].ok
       THEN Done(FlattenSeq([i \in DOMAIN parts |-> parts[i].value]))
       ELSE Failed

Installed(c, r) == [c EXCEPT !.dictionaries = @ \union {obj.id : obj \in r.inline}]

DispatchCue(c, r, bytes) ==
    derive_sparse_cue(IF r.item \in DOMAIN c.bound THEN c.bound[r.item] ELSE r.source, bytes)

context_symbol_from_payload(r, cue) == Symbol(r.family, cue, r.slots, r.schema)

Dispatched(c, r, bytes, cue) ==
    ClientOutcome(
      Remembered(Cached(c, r.item, IF r.item \in DOMAIN c.bound THEN c.bound[r.item] ELSE r.source, bytes),
                 Event(SourceOf(c.bound, r.item), ObjectRef(PredictiveKind, r.item), cue, r.tick, TRUE)),
      r.family, r.tick, TRUE, <<context_symbol_from_payload(r, cue)>>, FALSE)

\* The definitions of a dispatch that fails are taken back.
ApplyDispatchWith(c, r, result) ==
    IF result.ok
    THEN Dispatched(Installed(c, r), r, result.value, DispatchCue(c, r, result.value))
    ELSE ClientOutcome([c EXCEPT !.dictionaries = @ \ {obj.id : obj \in r.inline}],
                       r.family, r.tick, FALSE, <<context_symbol_from_payload(r, EmptyCue)>>, TRUE)

Mistyped(r) == r.rtype # dispatch_record_type(r.family)

ApplyDispatch(c, r) ==
    IF Mistyped(r) THEN ClientOutcome(c, DirectState, r.tick, FALSE, << >>, FALSE)
    ELSE ApplyDispatchWith(c, r, dispatch_predictive_payload(Installed(c, r), r))

ApplyResync(c) ==
    [c EXCEPT !.cache = << >>, !.bound = << >>, !.catalog = EmptyCatalog, !.dictionaries = {}]

ApplyRepair(c, r) == [c EXCEPT !.catalog = OrElse(apply_sync(@, r.sync), @)]

HintSource(c, r) ==
    IF r.obj.kind \in {ExactState, PredictiveKind} /\ r.obj.id \in DOMAIN c.bound THEN c.bound[r.obj.id]
    ELSE SourceOf(c.bound, r.item)

\* derive_episode_cue: of what the reference stands for, of its name when that is missing.
HintCue(c, r, source) ==
    derive_sparse_cue(source, IF r.obj.kind = ExactState /\ r.obj.id \in DOMAIN c.cache
                              THEN c.cache[r.obj.id] ELSE <<r.obj.kind, r.obj.id>>)

\* The context is the payload's and not that of the cue.
ApplyReplayHint(c, r) ==
    Remembered(c, [Event(HintSource(c, r), ObjectRef(ReplayHint, r.obj.id),
                         HintCue(c, r, HintSource(c, r)), r.tick, TRUE) EXCEPT !.ctx = r.ctx])

\* retire_memory_object, of an item: the other planes are not kept here.
ApplyRetire(c, r) == IF r.obj.kind = ExactState THEN Forget(c, r.obj.id) ELSE c

Applied(c, r) ==
    CASE r.type = "control" -> Forget(c, r.item)
      [] r.type = "meta" -> [c EXCEPT !.bound = With(@, r.item, r.source)]
      [] r.type = "dispatch" -> ApplyDispatch(c, r)
      [] r.type = "repair" -> ApplyRepair(c, r)
      [] r.type = "resync" -> ApplyResync(c)
      [] r.type = "hint" -> ApplyReplayHint(c, r)
      [] OTHER -> ApplyRetire(c, r)

-----------------------------------------------------------------------------
(* Steps *)

\* The record takes the next sequence number and the server is s.
Ticked == [server EXCEPT !.tick = @ + 1]

\* The server reads nothing of the client's, so a step waits until the records are applied.
Room == down = << >> /\ history.steps < MaxSteps

Counted(h, r) ==
    [h EXCEPT !.steps = @ + 1, !.sent = IF r.type = "dispatch" THEN Bumped(@, r.family, 1) ELSE @]

Send(s, r) ==
    /\ server' = s
    /\ down' = <<r>>
    /\ history' = Counted(history, r)
    /\ UNCHANGED client

Local(s) ==
    /\ Room
    /\ server' = s
    /\ history' = [history EXCEPT !.steps = @ + 1]
    /\ UNCHANGED <<client, down>>

\* A record that was not made takes no sequence number.
SendUnlessFailed(e) ==
    IF e.sv.failed THEN Local(Settled([e.sv EXCEPT !.tick = server.tick]))
    ELSE Send(Settled(e.sv), e.record)

\* An assembly is stored twice.
StoresOf(content) == IF Assemblies(content) = << >> THEN {0} ELSE 0 .. 2

Upsert(item, content, overhead, uses) ==
    /\ Room
    /\ SendUnlessFailed(emit_plain_runtime_data([Ticked EXCEPT !.uses = uses], item, content, overhead))

\* emit_plain_control_data, for an eviction and an invalidation.
Evict(item) ==
    /\ Room
    /\ Send([Ticked EXCEPT !.entries = [i \in DOMAIN @ \ {item} |-> @[i]],
                           !.predicted = @ \ {item},
                           !.bound = [i \in DOMAIN @ \ {item} |-> @[i]]],
            Record(Ticked, "control", item))

Bind(item, source) ==
    /\ Room
    /\ Send([Ticked EXCEPT !.bound = With(@, item, source)],
            Record(Ticked, "meta", item) @@ [source |-> source])

\* Faulty: what the peer is known to have survives.
FaultyResync ==
    /\ Room
    /\ Send([Ticked EXCEPT !.predicted = {}, !.confirmed = {}], Record(Ticked, "resync", 0))

\* emit_plain_resync keeps the entries and the sources.
Resync ==
    /\ Room
    /\ Send([Ticked EXCEPT !.predicted = {}, !.peer = EmptyCatalog, !.confirmed = {}],
            Record(Ticked, "resync", 0))

\* The answer to a request, and what the peer will then have; a version is spent either way.
RepairWith(s, answer) ==
    IF answer.ok /\ apply_sync(s.peer, answer.value).ok
    THEN Send([s EXCEPT !.peer = apply_sync(@, answer.value).value],
              Record(s, "repair", 0) @@ [sync |-> answer.value])
    ELSE Local([s EXCEPT !.tick = server.tick])

RepairResponse(request) ==
    /\ Room
    /\ RepairWith([Ticked EXCEPT !.version = @ + 1],
                  repair_response(server.local, request, server.version + 1))

\* define_catalog_bundle.
DefineBundle(members) ==
    /\ define_bundle(server.local, members).ok
    /\ Local([server EXCEPT !.local = define_bundle(@, members).value])

InstallSchema(schema) == Local(update_schema(server, schema))

\* A definition sent on its own, of which the peer says that it has it.
Acknowledge(obj) ==
    /\ obj \notin server.confirmed
    /\ Local([server EXCEPT !.confirmed = @ \union {obj}])

\* The host's own activation, of a known cue.
Activate(event) ==
    Local(append_episode_activation_for_item(server, 0, [event EXCEPT !.tick = server.tick]))

EnqueueJob(job) == Local(enqueue_consolidation_job(server, job))

LearningCycle(uses) ==
    /\ {server.replay, server.assemblyQueue, server.schemaQueue, server.jobs} # {<< >>}
    /\ Local(schedule_consolidation_from_replay(server, uses))

\* The hot maps of the cache make room: the class is the one of its file again.
EvictClass(id) ==
    /\ server.classes[id] # server.filed[id]
    /\ Local([server EXCEPT !.classes[id] = server.filed[id]])

\* The assembly that has no file is forgotten.
EvictAssembly(id) ==
    /\ id \notin DOMAIN server.assemblies
    /\ Local([server EXCEPT !.shelf = [other \in DOMAIN @ \ {id} |-> @[other]]])

\* Every record takes a sequence number; those that do not fit wait for the next call.
EmitControlPlane ==
    /\ Room
    /\ LET hinted == {server.hints[i].entry.event.obj : i \in DOMAIN server.hints}
           admissible == {obj \in hinted : predictive_object_ref_is_admissible(server, obj)}
           out == emit_pending_control_plane_records(server, MaxControl, admissible)
       IN /\ out.records # << >>
          /\ server' = [out.sv EXCEPT !.tick = @ + Len(out.records)]
          /\ down' = [i \in DOMAIN out.records |-> out.records[i] @@ [tick |-> server.tick + i]]
          /\ history' = [history EXCEPT !.steps = @ + 1]
          /\ UNCHANGED client

\* What the item is to have after a dispatch that the client does not refuse for its type.
Witnessed(h, r) ==
    IF r.type = "dispatch" /\ ~Mistyped(r)
    THEN [h EXCEPT !.shown = With(@, r.item, r.content)] ELSE h

\* After an exact state the item is to have its content, if the client could undo it.
WitnessedExact(h, r, bytes) ==
    [h EXCEPT !.shown = IF bytes = r.content THEN With(@, r.item, bytes)
                        ELSE [i \in DOMAIN @ \ {r.item} |-> @[i]]]

DeliverExact(r) ==
    /\ r.type = "exact"
    /\ \E bytes \in Decodings(r.content) :
         /\ client' = ApplyExact(client, r, bytes)
         /\ history' = WitnessedExact(history, r, bytes)

DeliverOther(r) ==
    /\ r.type # "exact"
    /\ client' = Applied(client, r)
    /\ history' = Witnessed(history, r)

Deliver ==
    /\ down # << >>
    /\ DeliverExact(Head(down)) \/ DeliverOther(Head(down))
    /\ down' = Tail(down)
    /\ UNCHANGED server

\* The connection starts with some sources announced.
Init ==
    /\ \E bound \in Announced :
         /\ server = ServerStart(bound)
         /\ client = ClientStart(bound)
    /\ down = << >>
    /\ history = [shown |-> << >>, sent |-> << >>, steps |-> 0]

Next ==
    \/ \E item \in Items : \E content \in Contents(item) :
         \E overhead \in Overheads(content), uses \in StoresOf(content) :
           Upsert(item, content, overhead, uses)
    \/ \E item \in Items : Evict(item)
    \/ \E item \in Items, source \in Sources : Bind(item, source)
    \/ \E request \in Requests : RepairResponse(request)
    \/ \E members \in Bundles : DefineBundle(members)
    \/ Resync
    \/ \E schema \in Schemas : InstallSchema(schema)
    \/ \E obj \in Acks : Acknowledge(obj)
    \/ \E event \in Activations : Activate(event)
    \/ \E job \in HostJobs : EnqueueJob(job)
    \/ \E uses \in 0 .. MaxUses : LearningCycle(uses)
    \/ \E id \in DOMAIN server.classes : EvictClass(id)
    \/ \E id \in DOMAIN server.shelf : EvictAssembly(id)
    \/ EmitControlPlane
    \/ Deliver

Spec == Init /\ [][Next]_vars

-----------------------------------------------------------------------------
(* Properties *)

\* What the client shows for an item is the content of the last record it did not refuse for its
\* type, whichever route the content took: as ranges of the peer's catalog, as a composite, as
\* dictionary tokens (choose_route_by_family against dispatch_predictive_payload).  Nothing is said
\* of an item whose last record was an exact state that the client could not undo: what
\* compress_exact_bytes (lib.rs:4144) made with a template, a dictionary or a base version the
\* client lacks it keeps as it came, see RoundTripExact of ExactPath.
ReceivedIsExact ==
    \A item \in DOMAIN client.cache \intersect DOMAIN history.shown :
        client.cache[item] = history.shown[item]

\* Whatever the server finds admissible the client has by the time it needs it: no exact atom and
\* no hybrid dispatch fails, repairs and resynchronisations between them included
\* (predictive_dependency_is_admissible_with_inline against missing_predictive_dependencies).
AdmissibleResolves ==
    \A key \in DOMAIN client.stats : key[1] \in {ExactAtom, Hybrid} => client.stats[key].fail = 0

FamilyFailures(s, family) == SumOf(s.stats, {k \in DOMAIN s.stats : k[1] = family}, "fail")

\* A route keeps credit only for what was sent: the success recorded before the inflation check is
\* taken back by the downgrades of the fallback (emit_predictive_route_or_inflation_fallback).
CreditsBalance ==
    \A family \in {ExactAtom, Hybrid} :
        FamilySuccesses(server, family) - FamilyFailures(server, family)
          <= IF family \in DOMAIN history.sent THEN history.sent[family] ELSE 0

\* No two traces of a memory are of one object, context and partition, however they were absorbed,
\* trimmed or credited (HippocampalShockMemory::ingest, EpisodeMemory::record_route_outcome).
TracesDistinct ==
    \A memory \in {server.memory, client.memory} :
        \A i, j \in DOMAIN memory.traces :
            i # j => <<memory.traces[i].obj, memory.traces[i].ctx, memory.traces[i].partition>>
                       # <<memory.traces[j].obj, memory.traces[j].ctx, memory.traces[j].partition>>

Learned(s) ==
    {[obj |-> ObjectRef(AssemblyKind, id), life |-> s.assemblies[id].life] : id \in DOMAIN s.assemblies}
      \union {[obj |-> ObjectRef(SchemaKind, s.schemas[i].id), life |-> s.schemas[i].life] :
                 i \in DOMAIN s.schemas}
      \union {[obj |-> ObjectRef(TransformKind, id), life |-> s.classes[id].life] : id \in DOMAIN s.classes}

\* An object that belongs to a family is at the level the ontology has for it, though promotions and
\* consolidations write the family first and the object after it (drain_learning_queues,
\* register_learning_family, OntologyState::apply).  When the cache failed in between
\* (persist_assembly, persist_transform_class) the family may be ahead until the next time the
\* object joins one, and is never behind; it is missing only when it was retired.
FamiliesMirrorObjects ==
    \A m \in Learned(server) : m.life.family # << >> =>
        LET family == m.life.family[1]
            level == server.families[family].life.level
        IN IF family \in DOMAIN server.families
           THEN level >= m.life.level /\ (level = m.life.level \/ m.obj \in server.behind)
           ELSE Operation("Retire", family) \in ToSet(server.operations)

=============================================================================
