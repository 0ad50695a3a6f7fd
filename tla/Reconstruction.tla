--------------------------- MODULE Reconstruction ---------------------------
(***************************************************************************)
(* A sender describes payloads by what its peer already holds and the peer *)
(* rebuilds them: state programs, transforms and plain copies, over one    *)
(* catalog that both sides hold; reconstruction graphs, over the objects   *)
(* that the receiver holds; and packed, predicted, columnar and joined     *)
(* payloads, which need no catalog.                                        *)
(***************************************************************************)
EXTENDS StatePrograms, RouteGraphs, Codecs

CONSTANTS Payloads,          \* the byte strings that are sent
          Materials,         \* the byte strings blocks are made of
          Kind,              \* the source kind of all of them
          Graphs,            \* the reconstruction graphs that are sent
          Held,              \* the objects the receiver resolves references to
          CodedItems,        \* the items that are encoded
          Batches,           \* the sequences of items that travel together
          MaxBlocks          \* bound on the blocks of the catalog

ASSUME ReconstructionAssumption ==
    /\ MIN_RANGE_REUSE \in Nat \ {0} /\ Unit \in Nat \ {0} /\ TINY \in Nat
    /\ {MAX_REFS, MAX_PER_STEP, MIN_COMPONENT} \subseteq Nat
    /\ Payloads \subseteq Seq(UNION {ToSet(p) : p \in Payloads})
    /\ Materials \subseteq Seq(UNION {ToSet(m) : m \in Materials})
    /\ \A g \in Graphs : IsFiniteSet(DOMAIN g.nodes) /\ g.cap \in Nat
    /\ CodedItems \subseteq [kind : DOMAIN SourceTag, bytes : Seq(0 .. Byte - 1)]
    /\ \A item \in CodedItems : Len(item.bytes) < U32
    /\ \A items \in Batches : items \in Seq(CodedItems) /\ Len(items) < U16 /\ Len(items) < U32

VARIABLES catalog,           \* what both ends hold
          original,          \* the bytes the sender wants to send
          dispatched,        \* the decision on the wire
          got                \* what the receiver rebuilt

rebuildVars == <<catalog, original, dispatched, got>>

Unsent == [decision |-> "none"]

RebuildInit ==
    /\ catalog = EmptyCatalog
    /\ original = <<>> /\ dispatched = Unsent /\ got = Failed

Grow(material) ==
    /\ dispatched = Unsent /\ original = <<>>
    /\ Cardinality(catalog.blocks) < MaxBlocks /\ catalog.bundles = {}
    /\ catalog' = insert_block(catalog, Kind, material)
    /\ UNCHANGED <<original, dispatched, got>>

\* define_catalog_bundle: a bundle of two blocks, the second from its second byte on.
DefineBundle(first, second) ==
    LET members == <<BundleMember(first, 0, Len(first.material)),
                     BundleMember(second, 1, Len(second.material) - 1)>>
        defined == define_bundle(catalog, members)
    IN  /\ dispatched = Unsent /\ original = <<>> /\ catalog.bundles = {}
        /\ defined.ok
        /\ catalog' = defined.value
        /\ UNCHANGED <<original, dispatched, got>>

Choose(bytes) ==
    /\ dispatched = Unsent /\ original = <<>> /\ original' = bytes
    /\ dispatched' = choose_predictive_transport_representation(catalog, bytes)
    /\ UNCHANGED <<catalog, got>>

ReceiveState ==
    /\ dispatched.decision = "state" /\ got = Failed
    /\ got' = decode_exact_bytes(catalog, dispatched.program)
    /\ UNCHANGED <<catalog, original, dispatched>>

ReceiveTransform ==
    /\ dispatched.decision = "transform" /\ got = Failed
    /\ got' = apply_transform_instance(catalog, dispatched.candidate, Len(original))
    /\ UNCHANGED <<catalog, original, dispatched>>

ReceiveCopy ==
    /\ dispatched.decision = "copy" /\ got = Failed
    /\ got' = Done(original)
    /\ UNCHANGED <<catalog, original, dispatched>>

\* A graph inside a dispatch payload, and the definition of a schema made of it.
SendGraph(graph) ==
    /\ catalog = EmptyCatalog /\ original = <<>> /\ dispatched = Unsent
    /\ dispatched' = [decision |-> "graph", graph |-> graph, definition |-> SchemaDefPayload(graph)]
    /\ UNCHANGED <<catalog, original, got>>

ReceiveGraph ==
    /\ dispatched.decision = "graph" /\ got = Failed
    /\ got' = execute_prg(dispatched.graph, Held, resolve_schema_output(Held))
    /\ UNCHANGED <<catalog, original, dispatched>>

\* CodedItems are told apart from byte strings by what they begin with.
Tagged(items) == <<"items">> \o items

\* An item on its own, with the predictor that both ends hold for it.
SendCoded(item, predicted, preference) ==
    /\ catalog = EmptyCatalog /\ original = <<>> /\ dispatched = Unsent
    /\ \E coded \in BestPayloads(item.kind, item.bytes, predicted, preference) :
         dispatched' = [decision |-> "coded", coded |-> coded, predicted |-> predicted]
    /\ original' = Tagged(<<item>>)
    /\ UNCHANGED <<catalog, got>>

SendColumns(items) ==
    /\ catalog = EmptyCatalog /\ original = <<>> /\ dispatched = Unsent
    /\ dispatched' = [decision |-> "columns", batch |-> encode_batch(items)] /\ original' = Tagged(items)
    /\ UNCHANGED <<catalog, got>>

SendJoined(items) ==
    /\ catalog = EmptyCatalog /\ original = <<>> /\ dispatched = Unsent
    /\ original' = Tagged(items)
    /\ dispatched' = [decision |-> "joined", kinds |-> [i \in DOMAIN items |-> items[i].kind],
                batch |-> concatenate_payloads([i \in DOMAIN items |-> items[i].bytes])]
    /\ UNCHANGED <<catalog, got>>

Decoded(message) ==
    LET Item(item) == IF item.ok THEN Done(Tagged(<<item.value>>)) ELSE Failed
        All(items) == IF items.ok THEN Done(Tagged(items.value)) ELSE Failed
        Parts(parts) ==
          IF parts.ok
          THEN Done(Tagged([i \in DOMAIN parts.value |-> [kind |-> message.kinds[i], bytes |-> parts.value[i]]]))
          ELSE Failed
    IN  CASE message.decision = "coded" -> Item(decode_data_payload(message.coded, message.predicted))
          [] message.decision = "columns" -> All(decode_batch(message.batch))
          [] message.decision = "joined" -> Parts(split_payloads(message.batch))

ReceiveCoded ==
    /\ dispatched.decision \in {"coded", "columns", "joined"} /\ got = Failed
    /\ got' = Decoded(dispatched)
    /\ UNCHANGED <<catalog, original, dispatched>>

Predictors == {Failed} \cup {Done(item.bytes) : item \in CodedItems}

RebuildNext ==
    \/ \E m \in Materials : Grow(m)
    \/ \E first, second \in catalog.blocks : DefineBundle(first, second)
    \/ \E p \in Payloads : Choose(p)
    \/ ReceiveState \/ ReceiveTransform \/ ReceiveCopy
    \/ \E g \in Graphs : SendGraph(g)
    \/ ReceiveGraph
    \/ \E item \in CodedItems, predicted \in Predictors, preference \in {"Adaptive", "DirectExactOnly"} :
         SendCoded(item, predicted, preference)
    \/ \E items \in Batches : SendColumns(items) \/ SendJoined(items)
    \/ ReceiveCoded

RebuildSpec == RebuildInit /\ [][RebuildNext]_rebuildVars

Described == {"state", "transform", "copy"}

\* Every state program the policy can choose decodes to the payload, and so does
\* every candidate it only weighs: exact blocks and bundles, composites, ranges
\* with what lies around them patched in (choose_transport_representation).
ProgramsDecodeExactly ==
    (dispatched.decision \in Described /\ got = Failed) =>
        \A candidate \in ToSet(StateCandidates(catalog, original)) :
            candidate.ok => decode_exact_bytes(catalog, candidate.value.program) = Done(original)

\* Every transform candidate, retained or not, rebuilds the payload from its
\* bases: what the plan measured on the sender's side is what
\* apply_transform_instance undoes, for every kind of transform.
TransformsRebuild ==
    (dispatched.decision \in Described /\ got = Failed) =>
        \A c \in ToSet(GeneratedCandidates(catalog, original)) :
            apply_transform_instance(catalog, c, Len(original)) = Done(original)

\* What a graph is worth: its nodes evaluated with nothing below them, then with
\* one level below them, and so on as deep as the cap of the graph allows.
Levels(graph, held, outputs) ==
    LET Level[k \in 0 .. graph.cap + 1] ==
          [id \in DOMAIN graph.nodes |->
             IF k = 0 THEN Failed ELSE NodeWorth(graph, id, held, outputs, Level[k - 1])]
    IN  Level

ByLevels(graph) ==
    LET out == Levels(graph, Held, resolve_schema_output(Held))[graph.cap + 1][graph.root]
    IN  IF graph.root \in DOMAIN graph.nodes /\ out.ok /\ Len(out.value) = graph.len THEN out ELSE Failed

\* The walk with its set of active nodes gives what the graph is worth: a node
\* that is reached twice is not a cycle, a cycle is never followed, and the depth
\* cap cuts off exactly the graphs that are deeper (execute_prg_node).
GraphsRunByLevels ==
    dispatched.decision = "graph" =>
        execute_prg(dispatched.graph, Held, resolve_schema_output(Held)) = ByLevels(dispatched.graph)

\* Packing loses nothing, whatever the block model predicts: the residual, in each
\* of its four codings, makes up for it, with the same predictor at both ends; and
\* batches come apart where they were put together (encode_best_exact_payload,
\* decode_data_payload, ColumnarBatch, BatchAeadHelper).
CodecsRoundTrip ==
    (dispatched.decision \in {"coded", "columns", "joined"} /\ got = Failed) => Decoded(dispatched) = Done(original)

=============================================================================
