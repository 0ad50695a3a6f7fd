# A TLA+ model of pulzZ

pulzZ moves application items from a server to clients over post-quantum
protected streams, and keeps what it sends short by referring to what the
client already holds. This directory models the parts of it whose correctness
depends on order or on the two ends staying in step: the handshake, the key
ratchet and its rekeys, the packing of records into sealed frames, the datagram
transport with its repairs, the SDK endpoints, the compression context, the
catalog, the objects the server believes its client has installed, the choice
of a route for an item with what is learnt from it, and the source caches.
Paths below are relative to the repository.

## The system

| Part | Source | State it keeps | Operations |
|---|---|---|---|
| Stream protection | `shared_protocol/src/protection.rs` | stream state, epoch, sequence number, root, pending rekey | `protect_record`, `unprotect_record`, `protect_transport_records`, `unprotect_transport_frame`, `make_rekey_payload` |
| Record and frame format | `shared_protocol/src/protocol.rs`, `transport.rs` | none | header validation, packing into groups, compact records |
| Bootstrap | `shared_protocol/src/bootstrap.rs`, both datagram cores, both stream transports | credentials, transcript, nonces, replay cache | the messages of three profiles, retries and timeouts |
| Datagram transport | `shared_protocol/src/datagram.rs`, `server/src/datagram_transport.rs`, `client/src/datagram.rs` | next message id, send window, reassembly buffer, repair attempts | encode, handle, repair requests, close |
| Carriers | `shared_protocol/src/carrier.rs` | a byte stream | length-prefixed frames |
| Server session, protected | `server/src/lib.rs` `ServerSession` | a protector and the `ServerState` | `emit_event`, `emit_batch`, `emit_trace`, `emit_rekey`, `emit_resync`, `emit_repair_response`, `emit_pending_control_plane_records`, `emit_resolved_source_event`, `emit_close`, `apply_peer_record` |
| Server session, plain | `server/src/lib.rs` `PlainServerSession`, `server/src/transport.rs` | its own epoch, sequence number and confirm mark; the connection has the protector | the same emits, then `send_plain_records` |
| Client session | `client/src/lib.rs` | a protector and the `ClientState` (cache, predictors, installed objects, pending acks and repair requests) | `apply_protected_record`, `apply_protected_transport_frame`, `emit_pending_memory_acks` |
| SDK | `sdk/src/client.rs`, `session.rs`, `server.rs` | a transport, a placeholder session, a queue | `send`, `send_batch`, `recv`, `close` |
| Compression context | `shared_protocol/src/compress.rs`, both `lib.rs` | dictionaries, templates, samples, previous versions, one copy at each end | `compress_exact_bytes`, `decode_compressed_payload`, `apply_batch_envelope` |
| Batch and item codecs | `shared_protocol/src/batch.rs`, `codec.rs` | none | packed, predicted and columnar payloads, join and split |
| Catalog and repair | `shared_protocol/src/catalog.rs` | blocks, bundles, a version | define, sync, repair, materialise |
| Substrate state and policy | `shared_protocol/src/state.rs`, `state_policy.rs` | none | state programs, transforms, reconstruction graphs, route selection |
| Peer memory | `server/src/lib.rs`, `client/src/lib.rs` | pending and confirmed objects and queued retirements at the server; assemblies, schemas, dictionaries and queued acknowledgements at the client | predictive emits, `emit_plain_resync`, `apply_memory_ack_record`, `apply_predictive_dispatch_record`, `apply_memory_retire_record`, `emit_pending_memory_acks` |
| Predictive layer | `shared_protocol/src/chpmt.rs`, `server/src/lib.rs` | episode memory, traces, replay buffer, promotion queues, families, jobs | `append_episode_activation_for_item`, `schedule_consolidation_from_replay`, `drain_learning_queues` |
| Router | `chpmt.rs`, `bandit.rs`, `pst.rs`, `state_policy.rs` | route statistics, suffix tree, context tree, arms | `choose_route_by_family`, `record_route_outcome_detail` |
| Sources | `shared_protocol/src/source.rs`, both `source_cache.rs` | hot maps, a directory or an IndexedDB database | `lookup_or_materialize`, `prepare`, prune, clean up |
| FFI and bindings | `ffi/`, `bindings/` | handles | thin calls into the SDK |

How they interact. A bootstrap gives both ends a root. A server session
chooses a route for an item, builds a record from what it believes the client
holds and numbers it from its counters or its protector. In the protected
session the protector seals it at once; in the plain session the record waits
until `send_plain_records` packs and seals a whole burst. A carrier moves the
frames: an ordered one (TCP, WebSocket, QUIC stream) as they are, a datagram
one in chunks with message ids, acknowledgements and repair requests. The
receiver's protector opens a frame only when it is the one that is due, and any
error closes the stream for good. The client session then rebuilds the item
from its own caches and feeds the same contexts the server has fed. There is no
shared memory between the ends: keys, compression contexts, catalogs and
definitions stay together because both sides count and learn alike.

What is hard: both ends advance ratchet, epoch and sequence number
independently; a rekey takes effect at the *next* record; several handlers
make two protector calls and may fail between them; one ratchet serves both
directions in the SDK; chunks are lost, repeated and reordered while timers
run, also those of an earlier handshake; reads are cancelled by timeouts; the
server learns from an item before it encodes it and the client after it decodes
it; definitions, acknowledgements, retirements and resyncs cross while the
server decides what it may leave out; a cache directory is shared by processes
that do not lock it and may be killed. `PROJECT.json` lists these as hazards,
each with the line where it bites.

What makes each part correct:

* protection: the client accepts exactly a prefix of what was released; a key
  is used once; epochs and numbers follow the protocol; nothing released on an
  ordered carrier is refused;
* packing: no record lost, moved or over the cap;
* plain session: its counters and the protector agree whenever everything was
  sent; every record is applied;
* bootstrap: both ends agree on the root and on who completed; a replayed hello
  completes nothing; the client never waits for ever;
* datagrams: frames come out whole, once and in order; no premature
  acknowledgement; repair ends within its budget;
* SDK: in order in both directions, keys never shared between directions, a
  timed out `recv` may be called again;
* peer memory: what is confirmed is at the client, what a record refers to is
  there when the record is applied, an item arrives as it was, and what is
  pending is confirmed in the end;
* compression: both contexts are equal when both ends have seen the same, and
  what is encoded with a shared context decodes exactly;
* reconstruction: every program, transform, graph and coding the sender may
  choose rebuilds the payload;
* routing and learning: the item arrives whatever the route, credit is kept
  only for what was sent, copies of one object's state agree;
* source caches: a hit is as good as a miss.

## Modules

```
OrderedDelivery                       what a stream promises
StreamProtector                       the ratchet (operators)
  SecureStream                        ServerSession -> carrier -> ClientSession
    MCSecureStream
  FrameProtector                      frames and packing (operators)
    PlainPipeline  (MCPlainPipeline)  PlainServerSession -> frames -> client
    SdkDuplex      (MCSdkDuplex)      two SDK endpoints on one TCP connection
      FrameProofs                     theorems about both
Handshake                             bootstrap messages (operators)
  Bootstrap        (MCBootstrap)      client, server and a UDP network
    SessionProofs                     theorems about this and SecureStream
DatagramState                         window and reassembly (operators)
  DatagramLink     (MCDatagramLink)   two datagram sessions and the network
    DatagramLinkProofs                theorems
PeerMemory         (MCPeerMemory)     the server's trackers and the client's stores
  MemoryProofs                        theorems
Catalog                               blocks, bundles, repair (operators)
  Transforms                          transform candidates and their inverse
    StatePrograms                     programs over the peer's catalog
  RouteGraphs                         graphs carried instead of bytes
  Codecs                              packed, predicted, columnar, joined payloads
    Reconstruction (MCReconstruction) sender and receiver of the four above
      DescriptionProofs               theorems about transforms and programs
      RoundTripProofs                 theorems about graphs, codecs and ExactPath
  Compression                         one end's compression context (operators)
    ExactPath      (MCExactPath)      both ends, the exact path between them
      RoundTripProofs                 theorems
Cues                                  sources, cues, keys (operators)
  SourceCaches     (MCSourceCaches)   workers, caches and one directory
    MemoryProofs                      theorems
  Episodes                            the episode memory (operators)
    Router                            statistics, suffix tree, scores (operators)
    Learning                          queues, families, jobs (operators)
      Emission     (MCEmission)       the server's routes and the client,
                                      over Router, Learning, Catalog, StatePrograms
        EmissionProofs                theorems
Induction                             laws of folds, for the proof modules
```

Every module of operators treats a Rust type as a value and each method as an
operator on it, with the early returns of the code as guards; the modules with
variables have one action per handler.

`StreamProtector` keeps the two halves of `finish_success` apart (`Advance`,
then `install_rekey` or the close): the error of the second half comes after
the first half has moved the protector, so `ProtectFails` and `ProtectState`
are separate. HKDF and the AEAD are ideal: a root is the list of derivations
that led to it and a sealed payload opens under its own key and associated data
only. `"Exact"` stands for every record type whose header may carry
`POST_REKEY_CONFIRM`; `"SourceMeta"` and `"Repair"` headers admit no flag, so
validation refuses them while a rekey is unconfirmed.

`SecureStream` has one action per emit function of `ServerSession`. Handlers
that call the protector twice (`emit_trace`, `emit_resolved_source_event`, the
control-plane drain) are one action, `ProtectBoth`, which loses the first
record when the second call fails. `sent` records every released record with
the sender's protector before and after it; the carrier may hand over any of
them at any time, any number of times, also with its clear header rewritten to
the one the client expects.

`FrameProtector` adds `protect_transport_records` (all or nothing, on a working
copy), `unprotect_transport_frame`, the compact decoding that recovers epoch
and sequence number by counting, and `pack_record_groups`. `PlainPipeline`
composes the plain session, the connection's `send_plain_records` and either
client: `ClientSession::apply_protected_transport_frame`, or `PulzzClient::recv`
with `Sdk`. `SdkDuplex` has two endpoints; a frame on the TCP wire is a length
and a body, `recv` reads them in two steps, and a timeout between them drops
the length. After that the carrier reads a body for a length and returns an
error. The protector knows nothing of it: `send` still works, so `Send` asks
nothing of the carrier, and a later `recv` may read bytes from the middle of a
frame and close the protector (`ReadAstray`).

`Handshake` has the messages, transcripts, credentials and the replay cache of
both PQ profiles over ideal cryptography; a KEM ciphertext opened by the wrong
key gives a secret nobody else has, as implicit rejection does. In `Bootstrap`
one client tries again from a new socket and one server accepts one session
after another; every packet ever sent may be received at any time, any number of
times, and time passes. Each end receives into a fresh reassembly buffer in
which every message is message 0, whatever its kind: a second copy of a hello
that was popped leaves the buffer waiting for message 1, and chunks of two
hellos give a hello nobody sent. `done` remembers the sessions each end
completed.

`DatagramState` has the send window, fragmentation and the reassembly buffer;
`DatagramLink` the two sessions that use them, a set of datagrams in flight and
a network that loses, repeats and reorders. `KeepsOne` and `Patient` are
assumptions about the network that one run makes and says so.

`PeerMemory` follows one item from `ServerState.entries` to `ClientState.cache`,
through every route that defines or refers to an object. Records and
acknowledgements share one ratchet, so the sides take turns: the server emits
when no acknowledgement is on its way, the client acknowledges when it has
applied every record. Trackers are sets of objects: an assembly's id comes from
its content and the server keeps the first assembly it stored under an id, and
revisions of schemas and dictionaries are 0 throughout, so the signature that
goes with an id never changes. A dispatch whose type is not the one its route
family asks for (`dispatch_record_type`) is refused before anything of it is
looked at, while the server has stored the item. What else a schema's graph
refers to is one bit of the record (`complete`): admissibility admits a
transform or a dictionary that was never confirmed, and then the dispatch fails.
Definitions of transforms go in records of their own and are never confirmed;
they are left out. A dictionary is its list of segments and a text the list of
its segments, because the position of a segment is what a token carries. An
exact state travels as `compress_exact_bytes` made it, and whether the client's
context undoes it is a bit of the record (`shared`), free here, because it
depends on what both ends have learnt before: `ExactPath` is about that. A
client that cannot undo it keeps what it got (`Decoded`, `Garbled`). The
encryption underneath is `SecureStream`'s: records arrive in order, once.

`Catalog` takes a block for its own identifier and a fixed arbitrary order for
the order of the hash map's ids. `Transforms` has the generation of candidates,
kind by kind, with the offsets, lengths, gaps and residuals as the code counts
them, and the receiver's `apply_transform_instance`; `StatePrograms` the search
for windows of the payload in the peer's catalog, bundles and ranges, and the
decoding; `RouteGraphs` predictive reconstruction graphs, substrate graphs,
hybrid routes and schema expansion; `Codecs` what needs no shared state, the
block models with small integer layers in place of the trained weights.
`Reconstruction` sends one payload in each way and rebuilds it; its actions only
pick inputs, so its run is a check of the operators over a bounded set of inputs
against their reference definitions. Its specification is `RebuildSpec`: its
names are its own because `RoundTripProofs` extends it together with
`ExactPath`. For the same reason `Bootstrap` has a `BootstrapSpec`:
`SessionProofs` extends it together with `SecureStream`.

`Compression` is one end's context. Bytes are tokens (a JSON string, a number, a
mark), and whether an encoding beats the plain bytes is up to zstd, so an encoder
gives the *set* of payloads it may choose. Template ids and dictionary ids are
counted as the code does, modulo small widths. `ExactPath` has both ends:
`EmitExact`, `EmitBatch`, `StoreObject` (a predictive store, which moves the
version without compressing), `BindSource`, `EvictItem`, `Resync`, and `Apply`
at the client. `diverged` says that something has happened that teaches the two
ends different things (a batch, a lost source binding, an item stored wrongly),
`context_used` which items were sent with a template, a dictionary or a delta
that loses something.

`Cues` has descriptors, normalisation (CR LF, blanks), the bits of a sparse cue,
and the storage key. `SourceCaches` runs workers, each on one of several
caches over one directory: a call of `lookup_or_materialize` is a
sequence of steps (`pc`), one per lock section, file operation or database
request, so a prune of one worker falls between the `exists` and the `read` of
another. A crash ends the process of a cache between any two steps and inside a
write; the next `new` makes the directories. `cleanup_on_drop` removes the
directory whenever a clone of a cache is dropped, a temporary one too
(`drop_clone`), while the hot maps and the counter of the others live on. Only `new`
makes the directories (`directories`), so from then on writes and the pruning
scan fail (`prune_scan_fails`).

`Episodes`, `Router` and `Learning` are operators on records that have the
fields of `EpisodeMemory`, `ServerState` and the ontology.  `Emission` puts them
together with `Catalog` and `StatePrograms`: `Upsert` is
`emit_plain_runtime_data` from its eviction and source lookup to the record,
through every route (exact atom, substrate program, bundle, composite, hybrid with
dictionary tokens, transform, assembly, schema, episode), with the inflation
check and its fallback to direct state; the other actions are the remaining
handlers of the plain session and the host's calls. `Deliver` is the client. What
a candidate costs and gains comes from extraction code that only does arithmetic
on bytes: it is data, given by the `MC` module in menus. What the client makes
of an exact state is a choice out of `Decodings`, for the reason given for
`PeerMemory`. Records are applied in the order they were made, and a call waits
until those of the call before have been applied (`Room`).

The cache of assemblies and transform classes may fail at any use that reaches a
file. `uses` says how many uses succeed in one call of the host; the next one
fails, and the call ends there with what it has done so far: the error of an
upsert reaches the host (`SendUnlessFailed`), that of a learning cycle is
dropped, and with it what had been taken from the queues
(`schedule_consolidation_from_replay`). `persist_assembly` leaves the server's
assembly alone when the cache fails. A class is in the hot map before its file is
written: after a failure `classes` has the new one and `filed` the old one, until
the hot map evicts it (`EvictClass`). In the same way the first store of an assembly may
leave it in the hot map only (`shelf`, `EvictAssembly`). `behind` remembers the
objects that were not written after their families were. The cache is assumed
to have a directory and to keep it: `cleanup_on_drop` is off and `in_memory_only`
too, as they are by default. `EnqueueJob` is the host's own consolidation job,
which may retire what the server has learnt.

Some properties hold only for part of the behaviours. The models record the events
that end them in history variables that no guard reads: `careless` (the
server rekeyed or drained its control plane while a rekey was unconfirmed, or
traced an invalid event) and `disordered` (the carrier handed over a record that
was not the next, or rewrote it) in `SecureStream`, `careless` in
`PlainPipeline`, `crossed` (an end sent while `recv` had not returned all that
the other had sent, because the sends crossed or because a cut read lost it) and
`cut` (a timeout inside a frame) in `SdkDuplex`, `refused` (the client failed to
apply a dispatch), `missed` (the item's last record failed at the client: a
dispatch refused for its type, an exact state it could not undo) and `retired` in
`PeerMemory`, `diverged` and `context_used` in `ExactPath`, `users` in
`SourceCaches`, `behind` and the operations on families in `Emission`. `restarts`
of `SourceCaches` is a bound that serves this purpose too. The same run then
checks what holds always and what holds until such an event.

Definitions named `Faulty...` are seeded faults. No specification uses them;
replacing the definition after a seeded fault by the fault makes a property
fail, and `PROJECT.json` lists which.

## Runs

| Run | Shows |
|---|---|
| `stream` | on the worst carrier, with a server that also rekeys and drains when it should not: `PrefixDelivery`, `SingleUseKeys`, `EpochNumbering` and the refinement of `OrderedDelivery`; and, for the behaviours in which neither happened, `NoFalseReject`, `EventuallyDelivered` |
| `plain_frames` | with failing traces and failing sends: `AcceptedPrefix`, `PackingKeepsRecords`; and, while nothing failed, `CountersInStep`, `EventuallyApplied` |
| `duplex_frames` | with crossing sends, timeouts and sends after the carrier has failed: `DuplexInOrder`, and that an end uses no key twice; for endpoints that send only when they have received everything, that the two share none (`KeysSharedOnce`); while no read is cut, `EventuallyReceived` |
| `datagram_lossy` | `FramesInOrder`, `RetiredIsWhole` under every disturbance, oversized frames, an overflowing window, early repair timeouts, close |
| `datagram_repair` | `BudgetSuffices`, `EventuallyDelivered` when one chunk of each message gets through |
| `peer_memory` | definitions, references, acknowledgements, retirements, resyncs, refused and failing dispatches, exact states that can and cannot be undone, in every order: `ConfirmedInstalled`, `ReferencesResolve`, `CacheIsExact`, `EventuallyConfirmed` |
| `bootstrap` | both profiles, three credentials (one revoked, one for the other direction), packets lost, repeated and mixed between attempts: `RootsAgree`, `OneSessionPerHello`, `EventuallySettled` |
| `reconstruction` | every payload of the menu in every way the sender may write it: `ProgramsDecodeExactly`, `TransformsRebuild`, `GraphsRunByLevels`, `CodecsRoundTrip` |
| `exact_path` | `SharedContextDecodesExactly`, `VersionsInStep`, `ContextsInStep`, and that `OnlyExactStatesPassTheBound` |
| `sources` | two workers on one cache or on two over one directory, a crash at any point, the directory removed at any point, the native and the browser cache: `ResolvedIsExact`, `AloneIsSound` |
| `emission` | every route, fallback, repair, resync and learning cycle, with a cache that may fail at any use, in sequences of four calls: `ReceivedIsExact`, `AdmissibleResolves`, `CreditsBalance`, `TracesDistinct`, `FamiliesMirrorObjects` |

One run ends in a violation: `exact_roundtrip`. `src/README.md:13` states an
exact round-trip rate of one; a delta whose count of patches does not fit its
width, a template whose blanks are not those of the item, or a dictionary the client
trains one item later gives other bytes at the client. The specification is that of
`exact_path`, whose properties say when the bytes are right.

Six more counterexamples are to be run by hand, two from configurations of their
own (`tlc -config <file> <module>`), four from a run's configuration with
`SPECIFICATION Spec` (`DuplexSpec`) and the named property in place of its own;
each is listed in `PROJECT.json` under "findings":

* `MCSecureStream_stream.cfg` with `PROPERTY RekeyRefusedWhilePending`:
  `finish_success` takes the pending rekey before `install_rekey` looks for one,
  so "rekey is already pending" cannot be returned. The second rekey moves the
  sender's ratchet and fails with another error; the stream is lost.
* `MCPlainPipeline_frames.cfg` with `Sdk = TRUE` and `INVARIANT
  EachRecordApplied`: `PulzzClient::recv` applies the first record of a frame only.
* `MCSdkDuplex_frames.cfg` with `INVARIANT PairWorks`: two endpoints that send at
  the same time use the same number and close each other; the test that calls the
  protector bidirectional uses a fresh pair for each direction.
* `MCSdkDuplex_frames.cfg` with `INVARIANT TimeoutLosesNothing`: a `recv` that
  times out inside a frame leaves the carrier out of step.
* `MCDatagramLink_duplicate.cfg`: a repeated chunk of a message already handed
  over is not ignored; it ends the session when its repair budget is used up.
* `MCPeerMemory_dictionary.cfg`, `INVARIANT DictionaryIdsAreExact`: a dictionary's id does not depend on the order
  of its segments, its tokens do. When the id is confirmed and the next item
  lists the same segments in another order, the client decodes with the order it
  holds and stores other bytes of the same length.

### Bounds

Streams: two bodies, one seed, four records. Four records are two rekeys with
their confirmations, or a rekey amid a pair and a close; one seed is enough
because roots differ by their derivations whatever the seed. Frames: cap 2 with
bodies of one and two units, so that a group is filled exactly, overfilled and
left open. Duplex: five sends, so each end sends twice and once more. Datagrams:
chunks of two units, at most two chunks per message, frames of one, two and too
many chunks, a window of two for three frames, one loss and one repetition; the
repair run uses four chunks of one unit, so a message can have two gaps, and two
losses with a budget of two. `MaxDropped` bounds how far failing traces push the
plain counters, which would otherwise grow for ever.

Peer memory: one assembly, one schema and two texts (`MixedTexts`): one whose
dictionary has one order, for which `CacheIsExact` is checked, and one whose
segments occur equally often, so that its dictionary has two orders, for which
it promises nothing. The content of an exact state may be any of these. Three
records are a definition, its reference, and a retirement or a resync before or
between them; a retirement queue of one is full after one job. These are 127,672
states. The dictionary configuration has two texts with the same segments in
different proportions, and no condition on them.

Bootstrap: two attempts against two accepts, so that everything of the first
may arrive in the second, at both ends; messages of two chunks mix, those of
one cannot; two ticks are past the validity of one credential and, with a skew of one,
past the life of a replay entry.

Reconstruction: payloads of up to six bytes over two letters and two delimiters,
catalogs of up to two blocks; graphs of three nodes with repeated children,
cycles, missing nodes and depth caps below, at and above their depth; codecs over bytes of
width 8 with counters of width 16. The thresholds of the policy (`MIN_RANGE_REUSE`,
`TINY`, `MAX_PATCH`...) are lowered to match, so that every kind of transform has
a candidate.

Exact path: two items, four documents (one structure with two values, another
with a blank, a plain text), three records of which two are under way; samples,
template widths and patch widths are small enough to wrap. Sources: a text that
normalises, one with the same cue and other bytes, a JSON document; three calls;
room for two objects on disk and one in memory; one crash, and the directory
removed as often as may be (1,794,111 states). Emission: contents of
one to three symbols over two items, chosen so that the second is an exact
reference, a range, a permutation, a bundle, a composite, a transform, an assembly
or a dictionary text relative to the first; overheads on both sides of the
inflation limit; traces, nodes, contexts and hints limited to two so that each limit
is passed within four calls. A learning cycle may use the cache up to `MaxUses` =
4 times before it fails, an upsert twice: no upsert and no cycle of the run uses it more
often and goes on, except the cycles with two transform jobs, whose last uses
then always fail. Evictions count as calls. One content, `AB`, may
reach the client undone or not; it is the one that the others are derived from,
so that exact references, ranges and repairs come after either. The host may queue a
retirement of the assembly the server learns and a promotion of the class in the
cache. These are 429,022 states. Every route of the code was seen to be taken in the
run.

`sources` and the two runs of the exact path use symmetry, over workers, caches
and items that the specification treats alike; neither has a liveness property.

### Deadlock

`CHECK_DEADLOCK FALSE` everywhere: a stream that is closed, or that has used up
the bound on records, really stops. That the work before it gets done is what
the liveness properties say.

### Fairness

`stream`: the carrier delivers and the client reads (weak fairness of
`DeliverNext`). `plain_frames`: what is emitted is sent and what is on the
carrier is read. `duplex_frames`: both endpoints keep calling `recv`.
`datagram_repair`: datagrams that are not lost arrive, both sessions keep
reading, and the repair timer fires; the read loops of the datagram cores wait
on socket and timer together, so nothing else is needed. `peer_memory`: what was
sent arrives, and the client sends the acknowledgements it has queued.
`bootstrap`: the client's own timer fires and its retry loop goes on; nothing is
assumed of the network or of the server. No fairness on any emit: an application
need not send. The other modules state no liveness: nothing in them must happen
until a host calls.

## Proofs

`SessionProofs` proves of `SecureStream`, for every set of bodies and seeds, every
number of records and whatever the carrier does:

| Theorem | States |
|---|---|
| `StreamInvariant` | `Spec => []StreamInv` |
| `TypeCorrect` | `Spec => []TypeOK` |
| `PrefixDelivered` | `Spec => []PrefixDelivery` |
| `KeysUsedOnce` | `Spec => []SingleUseKeys` |
| `EpochsNumbered` | `Spec => []EpochNumbering` |
| `Refinement` | `Spec => ImplementsOrderedDelivery` |
| `NothingRefused` | `Spec => []NoFalseReject` |

Assumptions: `NoSeed` is no seed, the bound is a natural number, and what the
module's ideal cryptography says.

`PrefixDelivery` is not inductive: nothing in it says which key the client
holds. `StreamInv` adds that (1) every released record is one its own sender
would have accepted and leads to the protector that followed it (`EntryOK`),
(2) the active root gets strictly longer with every step of the ratchet, so
the protectors around released records are ordered by depth (`Released`), and
(3) an open client *is* the sender's protector just after the last record it
accepted (`ReceivedInv`). Then a key fits one record only (`OnlyNextOpens`: a
record keyed from the client's root was sealed at the client's depth, hence is
the next one, sealed from the same protector), and a rewritten header fails
the associated data unless it is the original (`SameHeader`). Failed calls only
push the sender ahead (`Ahead`), which may strand the client and never lets it
accept anything else. `KeysUsedOnce` follows from (2), `EpochsNumbered` from
(1) and (3), the refinement from (3). `NothingRefused` needs a second
invariant: as long as the server has not been careless it leaves no gap
between one record and the next (`CarefulInv`), so on an undisturbed carrier
the next record is always the one due.

`MemoryProofs` proves of `PeerMemory`, for every set of assemblies, schemas and texts and
every number of records:

| Theorem | States |
|---|---|
| `PeerInvariant` | `Spec => []PeerInv` |
| `MemoryTyped` | `Spec => []TypeOK` |
| `ConfirmedAreInstalled` | `Spec => []ConfirmedInstalled` |
| `ReferencesFound` | `Spec => []ReferencesResolve` |
| `CacheExact` | `Spec => []CacheIsExact` |

Assumptions: the bounds are natural numbers and texts are lists of segments
that have a length (`PeerAssumption`).

`ConfirmedInstalled` is not inductive: a resync that is still on its way would
break it, and an acknowledgement says nothing about what was emitted after it.
`PeerInv` adds that acknowledgements travel only when no record does (`Turns`),
that a resync on its way finds nothing confirmed (`ResyncForgets`), that what
is pending is at the client for good, or defined by a record with no resync
behind it, or was in a dispatch the client refuses for its type
(`PendingComes`), and that no resync is ahead of a reference (`ReferredHad`). An
acknowledgement then arrives when `down` is empty, so what it promotes is at the
client. Applying a record takes away what the server retired and, when it fails,
what the record itself defined: that is a schema, because an assembly's
definition has all its bytes and a dictionary's tokens spell its text
(`InlineApplies`, `DictionaryTyped`).

`CacheIsExact` has its conditions in its statement, because both are needed: the last
record of the item did not fail at the client (an exact state it cannot undo
stays as it came, which `exact_roundtrip` shows to happen), and the item is no
text whose dictionary id stands for more than one order (`Ambiguous`, see the
dictionary counterexample above). Its invariant `CacheInv` says that the last record
about the item that is on its way tells what the server has, that the two ends
agree when there is none, and (`PlannedOrders`) that every dictionary sent or
installed lists its segments in an order planned for some text: of a text that is
not ambiguous there is only one.

`Induction` holds what the other proof modules need of loops. The code's loops are
`FoldLeft` and `FlattenSeq` in the models, recursive functions over sets of
numbers. The library's theorems about them take an operator as a parameter and
cannot be used here; the module derives induction over a *set* of numbers from the
well-foundedness of `<`, and from it the existence of such functions and the laws
of the two folds (`ResultEmpty`, `ResultAppend`, `FlattenEmpty`,
`FlattenAppend`, `FlattenConcat`), stated with the step as a function
(`Steps(A, R)`).

`FrameProofs` proves of `PlainPipeline`, for every payload cap, number of records,
set of bodies and either client:

| Theorem | States |
|---|---|
| `PipelineInvariant` | `Spec => []PipelineInv` |
| `TypeCorrect` | `Spec => []TypeOK` |
| `PrefixAccepted` | `Spec => []AcceptedPrefix` |
| `PackingLosesNothing` | `Spec => []PackingKeepsRecords` |
| `CountersAgree` | `Spec => []CountersInStep` |

Assumptions: the cap and the bounds are natural numbers. The prefix is not
inductive: nothing in it says what the frames on the carrier hold. `PipelineInv`
adds a list of protectors, one before and one after each frame in flight, the
first of them the client's (`InFlight`): each frame was sealed from one to the
next, so the copy of the sealing protector at the client opens it and counts its
records' positions back. The last is the connection's, and then the records not
yet sent are the outbox, or else the connection has fallen behind the plain
session (`Behind`) and sends no frame again. `CountersAgree` rests on the part
that holds while the server is careful (`CarefulIn`).

`FrameProofs` also proves of `SdkDuplex`, for every set of bodies and number of
sends:

| Theorem | States |
|---|---|
| `DuplexInvariant` | `DuplexSpec => []DuplexInv` |
| `DuplexTyped` | `DuplexSpec => []DuplexTypeOK` |
| `InOrderBothWays` | `DuplexSpec => []DuplexInOrder` |
| `KeysApart` | `DuplexSpec => []KeysSharedOnce` |

Each end uses one protector for both directions, so neither property is inductive.
`DuplexInv` says, for an end whose carrier is in step, what is on its wire: a length and a
body for every frame it has not received, the first without its length while
`recv` is between the two or after a timeout. It says of the numbers of the two ends
that they are disjoint (`Apart`) as long as nobody has sent with a frame of the other
end unread. That condition is about `sent` and `got` only, and no action asks
whether the carrier still works: an end that lost a frame to a cut read and sends
all the same uses the number of the frame it missed, and from then on `crossed` is
set. `KeysApart` therefore says two things: without condition, that no end uses a
key twice; with it, that the two ends share none.

`DatagramLinkProofs` proves, for every set of frames, chunk size, window and number of
losses and repetitions:

| Theorem | States |
|---|---|
| `LinkInvariant` | `Spec => []LinkInv` |
| `TypeCorrect` | `Spec => []TypeOK` |
| `DeliveredInOrder` | `Spec => []FramesInOrder` |
| `NothingRetiredEarly` | `Spec => []RetiredIsWhole` |
| `BudgetIsEnough` | four conditions imply `Spec => []BudgetSuffices` |

Assumptions: `ReliabilityAssumption` and `LinkAssumption`, which say that
frames are sequences, that a chunk and a message have room for something, and that
the bounds are natural numbers. The properties say nothing of what may still arrive;
`LinkInv` says that every datagram in flight is true (`PacketInv`): a chunk is
that piece of the frame sent under its id, an acknowledgement names a frame the
receiver holds, and so do the ids up to a cumulative one. A partial frame then
holds pieces of its frame (`BufferInv`), joining all of them gives the frame back,
and `delivered` is the log up to the next expected id.

`BudgetIsEnough` speaks of what a repair budget is for: a session is never closed for
exhaustion by losses alone. Its hypotheses are that no repair timer fires while the
datagram asked for is still on its way (`Patient`), that the network repeats
nothing, that it loses at most `MaxAttempts` datagrams, and that the frames fit the
window. Each is needed: `datagram_lossy` and `MCDatagramLink_duplicate.cfg` have
the behaviours without. The bound on losses is a bound on a whole behaviour, so the
invariant counts: every chunk is in one place at most, in flight, read or asked for
(`Once`), and every attempt of either session has been paid for by a loss
(`Paid`).

`RoundTripProofs` proves, for every set of items and documents, any limits and
any number of records under way, and for every asset family, graph and payload:

| Theorem | States |
|---|---|
| `PathsConverge` | `Spec => []ExactInv` |
| `VersionsAgree` | `Spec => []VersionsInStep` |
| `ContextsAgree` | `Spec => []ContextsInStep` |
| `DecodesExactly` | `Spec => []SharedContextDecodesExactly` |
| `BoundPassedByExactStates` | `Spec => OnlyExactStatesPassTheBound` |
| `GraphsRun` | `RebuildSpec => []GraphsRunByLevels` |
| `CodedComesBack` | `RebuildSpec => []CodecsRoundTrip` |

Assumptions of the first five: `CompressionAssumption` and `ExactPathAssumption` (sizes
are positive, documents are sequences). They begin with the operators: a
binary delta and a patch give their target back on the base they were made from
(`BinaryRight`, `XorRight`), so every payload that loses nothing is undone by
the context it was made with (`UndoneExactly`). Then comes the invariant:
the records under way lead from the client's state to the server's, item by item
for the versions (`VersionPath`) and, until the ends are taught different things, as a
whole for what is learnt (`ContextPath`). Both properties are about the moment
when nothing is under way, or the next record is applied, so neither is
inductive without the paths.

The last two are about operators with loops, and the inductive invariant is small:
what is on the wire was put there by one of the senders (`OnTheWire`). `GraphsRun`
compares two walks of a graph that may share nodes and contain cycles: the one of the
code, from the root, with the set of nodes above it (`WalkIsWorth`, by induction on the
nodes that are left), and the one level by level (`WorthIsWalk`). Its hypotheses are
that a graph is finite and its depth cap a number. For `CodedComesBack` every loop of an
encoder and of its decoder is restated turn by turn (`EncodesSparsely`,
`DecodesSparsely`, `EncodesRuns`, `DecodesDeltas`, `DecodesRows`, `SplitsPayloads`, ...),
and an induction over the turns shows that after k of them the decoder holds what the
encoder had been given. On the way: varints are read back from anywhere in a
sequence (`VarintRead`), a part of a concatenation is found where the lengths before it say
(`FlattenPlaces`), and the layers of a family have outputs of the right number and type,
whatever the weights are (`BlockCodes`), which is all a residual needs. Assumptions:
`CodecAssumption`; `VarintAssumption` (a 32-bit number has few enough digits to be
read: five of seven bits); `FamilyAssumption` (the layers fit one another, as the code
checks when it loads and applies them); and `ReconstructionAssumption`: an item is
shorter than 2^32, and a join has fewer than 2^16 payloads, because its count has 16 bits
and `concatenate_payloads` casts it unchecked.

`DescriptionProofs` proves, for every set of payloads and materials, every
catalog that blocks and bundles have been added to, and any limits of the search:

| Theorem | States |
|---|---|
| `RebuildInvariant` | `RebuildSpec => []RebuildInv` |
| `TransformsComeBack` | `RebuildSpec => []TransformsRebuild` |
| `ProgramsComeBack` | `RebuildSpec => []ProgramsDecodeExactly` |

Assumptions: `ReconstructionAssumption` (limits are natural numbers, payloads and
materials are sequences). The inductive invariant says that every member of
every bundle can be read and is as long as it says (`CatalogRight`): without it the
range a sender cuts from a bundle need not be the range the peer reads. The rest
is about operators.

Of a transform, what a plan measures on the base and the target is what
`apply_transform_instance` undoes: the bytes found equal are where the base is
kept, those found different are residuals. One lemma per kind of plan says so;
they end in `FromOne`, for a transform of one base. The plans that loop are
followed turn by turn: delimiters cut a text into ranges that ascend and join to
it (`CutsRight`), and patches applied from the last to the first leave those
still to come in place (`Mixed`). Collecting and retaining candidates adds none
(`PushStep`).

Of a program, the search of composites is an induction over the depth left
(`SearchSpells`): the references it returns spell the payload from a place on
(`Spelled`), so the bytes they cover are the beginning of the payload and the
residual is the rest. A window of a base that equals a window of the payload is a
range, and the patches of `RangePatchOf` put it between the prefix and the suffix.

`SessionProofs` also proves of `Bootstrap`, for any number of attempts, accepts and
credentials, whatever the network does:

| Theorem | States |
|---|---|
| `BootstrapInvariant` | `BootstrapSpec => []BootInv` |
| `OneSession` | `BootstrapSpec => []OneSessionPerHello` |
| `MutualAgrees` | `BootstrapSpec => []MutualRootsAgree` |
| `RootsAreOne` | `OneChunk` implies `BootstrapSpec => []RootsAgree` |

Assumptions: `BootstrapAssumption` (every message is cut into at least one
chunk) and what the modules' ideal cryptography says. The properties speak of completed
sessions, not of the messages that complete them. `BootInv` says what a
reassembly buffer holds (chunks of messages that were sent, all of one size, fewer than
make a message), so a frame is a message that was sent, or one mixed of several,
which nobody's key opens. In the mutual profile each attempt sends at most one
finish, signed over both hellos, and a session of the server is the one its
finish tells; replays get nowhere, even when the entry has left the replay cache.
In the simple profile the server's nonces tell its sessions apart. `RootsAgree` is proved
for both profiles under `OneChunk`: the server's hello of the simple
profile is one chunk. That is so in the code (1088 bytes of ciphertext, a nonce
of 16 and a stream name, against 1200 in a datagram) as long as the name is
short, and it is needed: a hello mixed of
two would carry one session's nonce and give another root, which the simple
profile notices at the first record only. `MutualAgrees` needs no such condition.

`MemoryProofs` proves of `SourceCaches`, for any number of workers, caches and
files, every set of sources and any sequence of crashes and drops:

| Theorem | States |
|---|---|
| `CachesInvariant` | `PreparedFromBytes` implies `CachesSpec => []CachesInv` and `CachesSpec => []AloneInv` |
| `HitsAreExact` | `PreparedFromBytes` implies `CachesSpec => []ResolvedIsExact` |
| `AloneCounts` | `PreparedFromBytes` implies `CachesSpec => []AloneIsSound` |

`PreparedFromBytes` says that every prepared source is what `prepare` makes of
some bytes, as it is in the code: `SourceDescriptor` has no other constructor,
and the theorems need it because a key is only as good as the canonical bytes it
is derived from. `CachesInv` says that what the hot map, a whole file, or a
worker between two steps holds under a key is the object of a source that has
that key; a lookup then returns the object asked for, whoever wrote it.
`AloneInv` gives for each step of a single worker how its counter, what it has
summed up and what is left on its list relate to the sizes of the files
(`SoloOf`), and that the list names every file once. It speaks of a directory
that no other worker used and no crash touched (`Alone`), and of two phases:
while the directories are there, and after a clone was dropped that took them
away. In the second no object file can come back, so the maximum is kept and the
counter says too much at worst; that sources resolve and that the counter is
exact is claimed for the first only. The counter is a sum over a directory,
listed in any order: the module first proves that such a sum does not depend on
the order (`AddsExists`, `SizeAdds`) and what adding, replacing and deleting a
file does to it (`SizePut`, `SizeDelete`).

`EmissionProofs` proves of `Emission`, for all items, contents, candidates, schemas,
classes and activations and whatever the limits of the memory and the queues are:

| Theorem | States |
|---|---|
| `LearningInvariant` | `Spec => []EmissionInvariant` |
| `TracesStayDistinct` | `Spec => []TracesDistinct` |
| `FamiliesMirror` | `Spec => []FamiliesMirrorObjects` |

Assumptions: the limits are natural numbers, and (`EmissionAssumption`) what the host
installs and what the cache holds at the start belongs to no family: only the learning
cycle gives an object one.

`TracesDistinct` is inductive by itself, but every route, fallback and learning step
writes the memory. Whatever is absorbed into a trace leaves its key (`IngestFine`:
the context of the event is the trace's own, for that is how the trace was found), what
is credited too, a new trace has a new key, and the bound keeps some of the traces
of the sorted list, each once: `StableSort` is an insertion sort whose order of positions
has no repetition (`OrderedIs`).

`FamiliesMirrorObjects` is not inductive: nothing in it keeps a consolidation of one
object from rewriting the family that another belongs to, at another level, and it
does not speak of the versions of an object that are in a file or on the shelf and may
come back. `EmissionInvariant` adds that the family an object names is one of this
very object (`Mirrors`: a family's number digests the plane, the source and the object,
so an assembly, a transform and a schema of one number are never confused), and that
every version of an object is at its family's level, or behind it with the object
noted in `behind`, or the family was retired (`LevelFits`, `Retired`). A job or a
promotion writes the family first and the object after it (`Registered`, then
`AssemblyJoined`, `TransformJoined`, `SchemaJoined`). If the second write fails the
family is ahead, because a promotion never lowers a level; if it succeeds the object has
caught up. A retirement, by the server or by a job the host queued, leaves its
operation in the log, and nothing takes an operation out again; an object that joins
the family anew finds it registered anew. The loops of the cycle are folds, of
which the prover knows the definition only: that the function they choose exists is proved
for the steps that occur (`Turn`, `PeelingExists`), and then the invariant goes along
the loop (`LoopFine`), also past the step that fails, after which the rest of the loop
does nothing.

Only model-checked are `ReceivedIsExact`, `AdmissibleResolves` and `CreditsBalance` of
`Emission`; what `exact_roundtrip` refutes, which is no theorem; and all
liveness properties (the prover has no reasoning about fairness or `ENABLED`).
`CreditsBalance` would not be a theorem of every configuration: statistics are pruned by
age (`StatsAge`), failures with successes, and the run ends before that tick.

## Not modelled

Cryptographic primitives and byte layouts; zstd (an external library: which
encoding it makes shorter is a nondeterministic choice); the classic bootstrap profile;
the bootstrap over a stream carrier (the states of `Bootstrap` without loss);
keepalives (no state); WebSocket framing (a library); metrics; the SDK server's
binding and accepting; FFI and language bindings; kernels and trained weights
(floating point); the checked arithmetic of `validate_route_contract`; the extraction
of assembly candidates from bytes (an input of `Emission`); the per-item
compression budget and the columnar accumulator, which the program never feeds;
benchmarks and evaluation drivers.

Reachability noted while modelling: the replay turns an object that was of no use
into an `ObjectRetirement` job with no support, and a job without support is never
ready, so the server's own learning cycle never retires anything (`Learning` has the
path). Only a job that the host enqueues itself
does; `Emission` and `PeerMemory` have those.

Not covered by a property, and worth attention: the simple profile has no key
confirmation, so a poisoned hello gives two roots that are noticed at the first
record; the promotion queues keep entries that are never ready and the replay
queue has no bound; a copy under `objects/` and the index are not pruned with
the object file; `NormalizeLineEndings` is marked reversible and never undone;
the win of a route is credited to the trace of the item before it; a failed
repair still spends a catalog version.

## Plan

1. Done: `StreamProtector`, `SecureStream`, `FrameProtector`, `PlainPipeline`,
   `SdkDuplex`, `DatagramState`, `DatagramLink`, `PeerMemory`.
2. Done: `Catalog`, `Transforms`, `StatePrograms`, `RouteGraphs`, `Codecs`,
   `Reconstruction`; `Compression`, `ExactPath`; `Handshake`, `Bootstrap`; `Cues`,
   `SourceCaches`; `Episodes`, `Router`, `Learning`, `Emission`.
3. Done: the proofs of `SecureStream`, `PlainPipeline`, `SdkDuplex`, `DatagramLink`,
   `PeerMemory`, `ExactPath`, `Bootstrap`, `SourceCaches`, and of all of
   `Reconstruction`; of `Emission`, the memories and what is learned. Next: its routes.
4. Models left: the classic profile in `Handshake`, stream carriers in
   `Bootstrap`, handles of the FFI.
