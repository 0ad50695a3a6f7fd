----------------------------- MODULE ExactPath -----------------------------
(***************************************************************************)
(* The exact-state path from the server's state to the client's: an item   *)
(* is compressed with what the server has learnt, carried in order, and    *)
(* undone with what the client has learnt.  Batches, predictive stores,    *)
(* evictions, source metadata and resyncs happen between the items.        *)
(*                                                                         *)
(* The substrate catalog, the episodes and the route outcomes that the     *)
(* handlers also feed are in other modules; nothing here reads them.       *)
(***************************************************************************)
EXTENDS Compression

CONSTANTS Items,             \* item ids
          Docs,              \* the bytes an item may have
          MaxEntries,        \* MAX_SERVER_ENTRIES
          MaxSends,          \* bound on the records sent
          MaxWire            \* bound on the records under way

ASSUME ExactPathAssumption ==
    /\ MaxEntries \in Nat \ {0}
    /\ \A doc \in Docs : doc \in Seq(Range(doc))

VARIABLES srv,               \* PlainServerState
          cli,               \* ClientState
          wire,              \* records under way, in order
          sends,             \* records sent
          context_used,      \* items that were sent with a template, a dictionary or a lossy delta
          diverged           \* something has happened that teaches the two ends different things

vars == <<srv, cli, wire, sends, context_used, diverged>>

Nothing == <<>>              \* the function without arguments

Side == [ctx |-> EmptyContext, previous_versions |-> Nothing, source_bindings |-> Nothing, entries |-> Nothing]

Put(f, x, y) == [k \in DOMAIN f \cup {x} |-> IF k = x THEN y ELSE f[k]]

Drop(f, x) == [k \in DOMAIN f \ {x} |-> f[k]]

\* A side without the entry of an item and its source binding.
Without(side, item) == [side EXCEPT !.entries = Drop(@, item), !.source_bindings = Drop(@, item)]

At(f, x) == IF x \in DOMAIN f THEN Done(f[x]) ELSE Failed

\* The kind an end takes an item to have.
KindOf(side, item, default) == IF item \in DOMAIN side.source_bindings THEN side.source_bindings[item] ELSE default

CanSend == sends < MaxSends /\ Len(wire) < MaxWire

Send(record) == wire' = Append(wire, record) /\ sends' = sends + 1

(***************************************************************************)
(* The server.                                                             *)
(***************************************************************************)
\* emit_plain_source_meta
BindSource(item, kind) ==
    /\ CanSend
    /\ srv' = [srv EXCEPT !.source_bindings = Put(@, item, kind)]
    /\ Send([type |-> "SourceMeta", item |-> item, kind |-> kind])
    /\ UNCHANGED <<cli, context_used, diverged>>

\* The payload is undone by the bytes of the version before it or by nothing.
Lossless(payload, sent) ==
    \/ payload.tag = "Whole"
    \/ /\ payload.tag = "Delta"
       /\ ~ Misread(payload.delta)
       /\ payload.delta.form = "xor" => Cardinality({i \in DOMAIN sent.base : sent.base[i] # sent.bytes[i]}) < PatchModulus

\* emit_plain_exact_state_data: the context is taught the bytes before they are
\* encoded, and the entry is stored without making room for it.
EmitExact(item, bytes) ==
    LET kind == KindOf(srv, item, "Binary")
        prev == At(srv.previous_versions, item)
        sent == [bytes |-> bytes, base |-> OrElse(prev, <<>>)]
        Taught(ctx) ==
          /\ srv' = [srv EXCEPT !.ctx = ctx, !.previous_versions = Put(@, item, bytes), !.entries = Put(@, item, bytes)]
          /\ \E payload \in Encodings(ctx, kind, prev, bytes) :
               /\ Send([type |-> "ExactState", item |-> item, kind |-> kind, payload |-> payload,
                        sent |-> sent, templates |-> ctx.templates])
               /\ context_used' = IF Lossless(payload, sent) THEN context_used ELSE context_used \union {item}
    IN  /\ CanSend
        /\ Taught(Learn(srv.ctx, kind, bytes))
        /\ UNCHANGED <<cli, diverged>>

\* emit_batch: the items go as they are, and the server's own state does not
\* take notice of them.
EmitBatch(item, bytes) ==
    /\ CanSend
    /\ Send([type |-> "BatchEnvelope", item |-> item, kind |-> KindOf(srv, item, "Binary"), bytes |-> bytes])
    /\ diverged' = TRUE
    /\ UNCHANGED <<srv, cli, context_used>>

\* Faulty: room is made only once the bound is passed.
FaultyEvicted(side, item) ==
    IF Cardinality(DOMAIN side.entries) > MaxEntries /\ DOMAIN side.entries \ {item} # {}
    THEN {Without(side, old) : old \in DOMAIN side.entries \ {item}}
    ELSE {side}

\* maybe_evict_entries_for_insert: some other item makes room, and its source
\* binding goes with it.
Evicted(side, item) ==
    IF Cardinality(DOMAIN side.entries) >= MaxEntries /\ DOMAIN side.entries \ {item} # {}
    THEN {Without(side, old) : old \in DOMAIN side.entries \ {item}}
    ELSE {side}

\* store_runtime_object_for_item, for an item that a predictive route carries.
StoreObject(item, bytes) ==
    /\ CanSend
    /\ \E side \in Evicted(srv, item) :
         /\ srv' = [side EXCEPT !.entries = Put(@, item, bytes)]
         /\ diverged' = (diverged \/ side.source_bindings # srv.source_bindings)
    /\ Send([type |-> "Predictive", item |-> item, bytes |-> bytes])
    /\ UNCHANGED <<cli, context_used>>

\* emit_plain_control_data, Evict and Invalidate.
EvictItem(item) ==
    /\ CanSend
    /\ srv' = Without(srv, item)
    /\ Send([type |-> "Evict", item |-> item])
    /\ UNCHANGED <<cli, context_used, diverged>>

\* emit_plain_resync: the server keeps its source bindings, entries and context.
Resync ==
    /\ CanSend
    /\ Send([type |-> "Resync"])
    /\ diverged' = (diverged \/ srv.source_bindings # Nothing)
    /\ UNCHANGED <<srv, cli, context_used>>

(***************************************************************************)
(* The client.                                                             *)
(***************************************************************************)
\* Faulty: the version that the delta was applied to is kept.
FaultyStoredVersion(side, record, result) ==
    LET kind == KindOf(side, record.item, record.kind)
        bytes == OrElse(result, Junk)
    IN  [side EXCEPT !.ctx = Learn(@, kind, bytes),
                     !.previous_versions = IF record.item \in DOMAIN @ THEN @ ELSE Put(@, record.item, bytes),
                     !.entries = Put(@, record.item, bytes)]

\* Faulty: the client trains no dictionary of its own.
FaultyStoredUntrained(side, record, result) ==
    LET kind == KindOf(side, record.item, record.kind)
        bytes == OrElse(result, Junk)
    IN  [side EXCEPT !.ctx = try_register(add_sample(@, kind, bytes), kind, bytes),
                     !.previous_versions = Put(@, record.item, bytes),
                     !.entries = Put(@, record.item, bytes)]

\* apply_data_record, for an exact state: what cannot be undone is stored as the
\* bytes that came, and taught to the context as if it were the item.
Stored(side, record, result) ==
    LET kind == KindOf(side, record.item, record.kind)
        bytes == OrElse(result, Junk)
    IN  [side EXCEPT !.ctx = Learn(@, kind, bytes),
                     !.previous_versions = Put(@, record.item, bytes),
                     !.entries = Put(@, record.item, bytes)]

Results(side, record) ==
    decode_compressed_payload(side.ctx, KindOf(side, record.item, record.kind),
                              At(side.previous_versions, record.item), record.payload)

ApplyExact(record) ==
    /\ record.type = "ExactState"
    /\ \E result \in Results(cli, record) :
         /\ cli' = Stored(cli, record, result)
         /\ diverged' = (diverged \/ result # Done(record.sent.bytes))

\* apply_batch_envelope: the items teach the context and enter the cache, and
\* are not kept as previous versions.
ApplyBatch(record) ==
    /\ record.type = "BatchEnvelope"
    /\ cli' = [cli EXCEPT !.ctx = Learn(@, record.kind, record.bytes), !.entries = Put(@, record.item, record.bytes)]
    /\ UNCHANGED diverged

ApplyControl(record) ==
    /\ \/ /\ record.type = "SourceMeta"
          /\ cli' = [cli EXCEPT !.source_bindings = Put(@, record.item, record.kind)]
       \/ /\ record.type = "Evict"
          /\ cli' = Without(cli, record.item)
       \/ /\ record.type = "Resync"
          /\ cli' = [cli EXCEPT !.entries = Nothing, !.source_bindings = Nothing]
       \/ /\ record.type = "Predictive"
          /\ cli' = [cli EXCEPT !.entries = Put(@, record.item, record.bytes)]
    /\ UNCHANGED diverged

Apply ==
    /\ wire # <<>>
    /\ ApplyExact(Head(wire)) \/ ApplyBatch(Head(wire)) \/ ApplyControl(Head(wire))
    /\ wire' = Tail(wire)
    /\ UNCHANGED <<srv, sends, context_used>>

\* Source metadata of some items has been sent and applied.
Init ==
    /\ \E bound \in SUBSET Items : \E kinds \in [bound -> Kinds] :
         /\ srv = [Side EXCEPT !.source_bindings = kinds]
         /\ cli = srv
    /\ wire = <<>>
    /\ sends = 0
    /\ context_used = {}
    /\ diverged = FALSE

Next ==
    \/ \E item \in Items, kind \in Kinds : BindSource(item, kind)
    \/ \E item \in Items, bytes \in Docs : EmitExact(item, bytes) \/ EmitBatch(item, bytes) \/ StoreObject(item, bytes)
    \/ \E item \in Items : EvictItem(item)
    \/ Resync
    \/ Apply

Spec == Init /\ [][Next]_vars

(***************************************************************************)
(* Properties.                                                             *)
(***************************************************************************)
\* The bytes are what the template makes of their values.
Reproduced(keys, bytes) ==
    LET values == extract_values(keys, bytes)
    IN  values.ok /\ SlotValues(values.value) = values /\ reconstruct(keys, values.value) = Done(bytes)

\* What a payload was made with is what the client has: decode_compressed_payload
\* then gives the bytes that compress_exact_bytes was given, for every encoding,
\* except where a width is too small for the item or the template does not
\* reproduce it.
SharedContextDecodesExactly ==
    LET record == Head(wire)
        Agreed ==
          CASE record.payload.tag = "Whole" -> TRUE
            [] record.payload.tag = "Delta" ->
                 /\ At(cli.previous_versions, record.item) = Done(record.sent.base)
                 /\ Lossless(record.payload, record.sent)
            [] record.payload.tag = "ZstdDict" ->
                 cli.ctx.dicts[KindOf(cli, record.item, record.kind)] = record.payload.dict
            [] record.payload.tag = "Template" ->
                 /\ record.payload.id \in DOMAIN cli.ctx.templates
                 /\ cli.ctx.templates[record.payload.id] = record.templates[record.payload.id]
                 /\ Reproduced(record.templates[record.payload.id], record.sent.bytes)
    IN  (wire # <<>> /\ record.type = "ExactState" /\ Agreed)
            => Results(cli, record) = {Done(record.sent.bytes)}

\* previous_versions of the two ends: the deltas of an item that was never sent
\* with a template or a dictionary are applied to the version they were computed
\* from, whatever batches, predictive stores, evictions and resyncs come between.
VersionsInStep ==
    \A item \in Items :
        (item \notin context_used /\ ~ \E i \in DOMAIN wire : wire[i].type = "ExactState" /\ wire[i].item = item)
            => At(cli.previous_versions, item) = At(srv.previous_versions, item)

\* The learning of compress_exact_bytes and that of apply_data_record: without a
\* batch, a lost source binding or an item stored wrongly, the client that has
\* caught up has the server's samples, dictionaries and templates, under the same
\* ids.
ContextsInStep == (wire = <<>> /\ ~ diverged) => cli.ctx = srv.ctx

\* maybe_evict_entries_for_insert, against the bound MAX_SERVER_ENTRIES: once it
\* is reached only the exact path adds an item.
OnlyExactStatesPassTheBound ==
    [][(/\ Cardinality(DOMAIN srv.entries) >= MaxEntries
        /\ Cardinality(DOMAIN srv'.entries) > Cardinality(DOMAIN srv.entries))
           => \E item \in Items, bytes \in Docs : EmitExact(item, bytes)]_vars

\* README.md: "Exact round-trip rate: 1.000000".  The record the client is about
\* to apply gives the bytes the server was given.
RoundTripExact ==
    (wire # <<>> /\ Head(wire).type = "ExactState") => Results(cli, Head(wire)) = {Done(Head(wire).sent.bytes)}
=============================================================================
