------------------------------ MODULE PeerMemory ------------------------------
(***************************************************************************)
(* What the server believes its client has installed, and what the client    *)
(* really has: ServerState's pending and confirmed trackers, the definitions *)
(* predictive records carry inline, the client's stores and its MemoryAcks,   *)
(* MemoryRetire and Resync.  One item is followed from the server's entries   *)
(* to the client's cache.                                                     *)
(*                                                                            *)
(* Records and acknowledgements share one ratchet (SdkDuplex), so the two     *)
(* sides take turns: the server emits when no acknowledgement is on its way   *)
(* and the client acknowledges when it has applied every record.              *)
(*                                                                            *)
(* An assembly's id comes from its content and the server keeps the first     *)
(* assembly it stored under an id, so the reuse signature of an id never      *)
(* changes; a schema's revision and a dictionary's are 0 throughout.  The     *)
(* trackers are therefore sets of objects.  Transform definitions go in a     *)
(* record of their own and are never confirmed: they are left out.            *)
(***************************************************************************)
EXTENDS Naturals, FiniteSets, Sequences, SequencesExt

CONSTANTS Assemblies,  \* assemblies the server may extract from an item
          Schemas,     \* schemas that match an item
          Texts,       \* items for the dictionary route, as their repeated segments
          SegLen,      \* the length of each segment
          MaxRecords,  \* bound on the records the server emits
          MaxRetires   \* MAX_PENDING_MEMORY_RETIRES

ASSUME PeerAssumption ==
  /\ MaxRecords \in Nat /\ MaxRetires \in Nat
  /\ \A t \in Texts : t \in Seq(DOMAIN SegLen)
  /\ \A s \in DOMAIN SegLen : SegLen[s] \in Nat

VARIABLES confirmed, \* assembly_sync_versions, peer_schema_versions, peer_dictionary_versions
          pending,   \* their pending_... counterparts
          entry,     \* the server's entries[item]
          retires,   \* pending_memory_retires
          emitted,   \* records emitted so far, their sequence numbers
          down, up,  \* records on their way to the client, acknowledgements to the server
          installed, \* the client's assemblies, schemas and dictionaries
          cache,     \* the client's cache[item]
          acks,      \* pending_memory_acks
          refused,   \* history: objects of dispatches the client failed to apply
          missed,    \* history: the last record of the item was such a dispatch, or an exact
                     \* state that the client could not decode
          retired    \* history: assemblies the client removed for a MemoryRetire and
                     \* has not been sent again

server == <<confirmed, pending, entry, retires, emitted>>
client == <<installed, cache, acks, refused, missed, retired>>
vars == <<server, client, down, up>>

Nothing == << >>

\* The bytes the client keeps of an exact state it cannot decode.
Garbled == <<"garbled">>

\* What an item may hold: something an assembly, a schema or a dictionary can express.
Contents == ({"assembly"} \X Assemblies) \cup ({"schema"} \X Schemas) \cup ({"text"} \X Texts)

\* The objects an ObjectRetirement job may name: for an item, see ApplyRetire.
Retirable == ({"assembly"} \X Assemblies) \cup ({"schema"} \X Schemas) \cup {<<"item", 1>>}

-----------------------------------------------------------------------------
(* Dictionaries *)

Occurrences(t, s) == Cardinality({i \in DOMAIN t : t[i] = s})

\* The orders in which dictionary_route_payload_for_bytes may list the segments of t:
\* by count, then by length; what is still equal is left as the hash map gives it.
SegmentOrders(t) ==
  LET segs == ToSet(t) IN
  {o \in [1 .. Cardinality(segs) -> segs] :
     /\ ToSet(o) = segs
     /\ \A i, j \in DOMAIN o : i < j =>
          \/ Occurrences(t, o[i]) > Occurrences(t, o[j])
          \/ /\ Occurrences(t, o[i]) = Occurrences(t, o[j])
             /\ SegLen[o[i]] >= SegLen[o[j]]}

\* dictionary_id_for_segments combines the segments with an exclusive or: the id does
\* not depend on their order.
dictionary_id_for_segments(o) == <<"dictionary", ToSet(o)>>

OutputLen(t) == FoldSeq(LAMBDA s, n : n + SegLen[s], 0, t)

-----------------------------------------------------------------------------
(* The server *)

Init ==
  /\ confirmed = {} /\ pending = {} /\ entry = Nothing /\ retires = << >> /\ emitted = 0
  /\ installed = << >> /\ cache = Nothing /\ acks = << >>
  /\ refused = {} /\ missed = FALSE /\ retired = {}
  /\ down = << >> /\ up = << >>

\* Emits a record; only when no acknowledgement is on its way.
Emit(r) ==
  /\ up = << >>
  /\ emitted < MaxRecords
  /\ emitted' = emitted + 1
  /\ down' = Append(down, r)
  /\ UNCHANGED <<up, client>>

\* emit_predictive_route_record_with_bytes: what a record defines inline is pending
\* from its emission on; store_runtime_object_for_item has put the item in entries.
EmitDispatch(r, c) ==
  /\ Emit(r)
  /\ pending' = IF r.inline THEN pending \cup {r.obj} ELSE pending
  /\ entry' = c
  /\ UNCHANGED <<confirmed, retires>>

\* A dispatch of the assembly or the schema c; complete says that whatever else its
\* graph refers to is at the client.
ObjectRecord(c, rtype, family, inline, complete, n) ==
  [type |-> "Dispatch", rtype |-> rtype, family |-> family, obj |-> c, inline |-> inline,
   def |-> c, body |-> << >>, len |-> 1, complete |-> complete, seq |-> n]

\* emit_assembly_route: inline unless the peer has confirmed this signature.
EmitAssembly ==
  \E c \in {"assembly"} \X Assemblies :
    EmitDispatch(ObjectRecord(c, "PredictiveConfirm", "DirectState", c \notin confirmed, TRUE,
                              emitted), c)

\* SchemaExpansion routes, of the family DirectState, and Hybrid routes define their schemas inline every time.  What else
\* their graph refers to may be missing at the client: admissibility admits a
\* transform or a dictionary of revision 0 that was never confirmed.
EmitSchema ==
  \E c \in {"schema"} \X Schemas, family \in {"DirectState", "Hybrid"}, complete \in BOOLEAN :
    EmitDispatch(ObjectRecord(c, "PredictiveCorrect", family, TRUE, complete, emitted), c)

\* Tokens number the segments of t in the order o planned for it.
DictionaryRecord(t, o, inline, n) ==
  [type |-> "Dispatch", rtype |-> "PredictiveCorrect", family |-> "Hybrid",
   obj |-> dictionary_id_for_segments(o), inline |-> inline, def |-> o,
   body |-> [i \in DOMAIN t |-> CHOOSE k \in DOMAIN o : o[k] = t[i]], len |-> OutputLen(t),
   complete |-> TRUE, seq |-> n]

\* The dictionary route: the dictionary goes along unless its id is confirmed.
FaultyEmitDictionary ==
  \E t \in Texts : \E o \in SegmentOrders(t) :
    EmitDispatch(DictionaryRecord(t, o, dictionary_id_for_segments(o) \notin confirmed
                                          /\ entry # <<"text", t>>, emitted), <<"text", t>>)

EmitDictionary ==
  \E t \in Texts : \E o \in SegmentOrders(t) :
    EmitDispatch(DictionaryRecord(t, o, dictionary_id_for_segments(o) \notin confirmed,
                                  emitted), <<"text", t>>)

\* emit_plain_exact_state_data, chosen outright or as the fallback of a route that is
\* inadmissible, not structural or too large.  What is sent is compress_exact_bytes of
\* the item; shared says that the client will have what it was compressed with, see
\* SharedContextDecodesExactly of ExactPath.
EmitExact ==
  \E c \in Contents, shared \in BOOLEAN :
    /\ Emit([type |-> "Exact", content |-> c, shared |-> shared, seq |-> emitted])
    /\ entry' = c
    /\ UNCHANGED <<confirmed, pending, retires>>

\* emit_plain_control_data: Evict and Invalidate.
EmitEvict ==
  /\ Emit([type |-> "Evict", seq |-> emitted])
  /\ entry' = Nothing
  /\ UNCHANGED <<confirmed, pending, retires>>

\* emit_plain_resync forgets what the peer has, confirmed or not; the retirements that
\* are waiting stay.
EmitResync ==
  /\ Emit([type |-> "Resync", seq |-> emitted])
  /\ confirmed' = {}
  /\ pending' = {}
  /\ UNCHANGED <<entry, retires>>

\* An ObjectRetirement job of enqueue_consolidation_job, run by the learning cycle (the
\* cycle's own never become ready, see Learning); dropped when the queue is full.  The
\* server keeps the object and its trackers.
FaultyRetire ==
  \E o \in {"assembly"} \X Assemblies :
    /\ retires' = Append(retires, o)
    /\ UNCHANGED <<confirmed, pending, entry, emitted, client, down, up>>

Retire ==
  \E o \in Retirable :
    /\ Len(retires) < MaxRetires
    /\ retires' = Append(retires, o)
    /\ UNCHANGED <<confirmed, pending, entry, emitted, client, down, up>>

\* emit_pending_control_plane_records, one record of a drain.
EmitRetire ==
  /\ retires # << >>
  /\ Emit([type |-> "Retire", obj |-> Head(retires), seq |-> emitted])
  /\ retires' = Tail(retires)
  /\ UNCHANGED <<confirmed, pending, entry>>

\* apply_memory_ack_record and promote_pending_to_confirmed: the kind and the id of the
\* acknowledged object count, not its record or its number.
FaultyApplyAck ==
  /\ up # << >>
  /\ LET o == Head(up).obj IN
       /\ confirmed' = IF o[1] # "item" THEN confirmed \cup {o} ELSE confirmed
       /\ pending' = pending \ {o}
  /\ up' = Tail(up)
  /\ UNCHANGED <<entry, retires, emitted, client, down>>

ApplyAck ==
  /\ up # << >>
  /\ LET o == Head(up).obj IN
       /\ confirmed' = IF o \in pending THEN confirmed \cup {o} ELSE confirmed
       /\ pending' = pending \ {o}
  /\ up' = Tail(up)
  /\ UNCHANGED <<entry, retires, emitted, client, down>>

-----------------------------------------------------------------------------
(* The client *)

\* enqueue_memory_ack, with its test for duplicates.
Enqueued(queue, ack) == IF ack \in ToSet(queue) THEN queue ELSE Append(queue, ack)

dispatch_record_type(family) ==
  IF family = "DirectState" THEN "ExactState"
  ELSE IF family = "ExactAtom" THEN "PredictiveConfirm" ELSE "PredictiveCorrect"

\* The client's stores while a dispatch runs: its inline definition is installed first
\* and replaces what had the same id.
Staged(r) ==
  IF r.inline THEN [o \in DOMAIN installed \cup {r.obj} |->
                      IF o = r.obj THEN r.def ELSE installed[o]]
  ELSE installed

\* dispatch_predictive_payload over a store: the item it gives, or Nothing when an
\* object is missing or the length is not the one announced.
Dispatched(r, store) ==
  IF r.obj \notin DOMAIN store \/ ~r.complete THEN Nothing
  ELSE IF r.obj[1] # "dictionary" THEN store[r.obj]
  ELSE LET out == [i \in DOMAIN r.body |-> store[r.obj][r.body[i]]] IN
       IF OutputLen(out) = r.len THEN <<"text", out>> ELSE Nothing

Without(o) == [p \in DOMAIN installed \ {o} |-> installed[p]]

\* The dispatch r fails: the item stays as it was.
Refused(r) ==
  /\ refused' = refused \cup {r.obj}
  /\ missed' = TRUE
  /\ UNCHANGED <<cache, acks, retired>>

\* apply_predictive_dispatch_record: a record type other than that of the family is
\* refused before anything is staged.  Success keeps the definition and acknowledges it;
\* failure removes every id the record had installed, also one installed before.
\* Faulty: only a definition that is new is acknowledged.
FaultyApplyDispatch(r) ==
  \/ /\ r.rtype # dispatch_record_type(r.family)
     /\ Refused(r)
     /\ UNCHANGED installed
  \/ /\ r.rtype = dispatch_record_type(r.family)
     /\ Dispatched(r, Staged(r)) # Nothing
     /\ installed' = Staged(r)
     /\ cache' = Dispatched(r, Staged(r))
     /\ acks' = IF r.inline /\ r.obj \notin DOMAIN installed
                THEN Enqueued(acks, [obj |-> r.obj, of |-> "Dispatch", seq |-> r.seq])
                ELSE acks
     /\ retired' = retired \ {r.obj}
     /\ missed' = FALSE
     /\ UNCHANGED refused
  \/ /\ r.rtype = dispatch_record_type(r.family)
     /\ Dispatched(r, Staged(r)) = Nothing
     /\ Refused(r)
     /\ installed' = IF r.inline THEN Without(r.obj) ELSE installed

ApplyDispatch(r) ==
  \/ /\ r.rtype # dispatch_record_type(r.family)
     /\ Refused(r)
     /\ UNCHANGED installed
  \/ /\ r.rtype = dispatch_record_type(r.family)
     /\ Dispatched(r, Staged(r)) # Nothing
     /\ installed' = Staged(r)
     /\ cache' = Dispatched(r, Staged(r))
     /\ acks' = IF r.inline
                THEN Enqueued(acks, [obj |-> r.obj, of |-> "Dispatch", seq |-> r.seq])
                ELSE acks
     /\ retired' = retired \ {r.obj}
     /\ missed' = FALSE
     /\ UNCHANGED refused
  \/ /\ r.rtype = dispatch_record_type(r.family)
     /\ Dispatched(r, Staged(r)) = Nothing
     /\ Refused(r)
     /\ installed' = IF r.inline THEN Without(r.obj) ELSE installed

\* apply_memory_retire_record acknowledges and then removes.  retire_memory_object finds
\* assemblies only: a schema's number is compared with its full name, and parse_item_id
\* does not know the prefix of an item.
ApplyRetire(r) ==
  /\ acks' = Enqueued(acks, [obj |-> r.obj, of |-> "Retire", seq |-> r.seq])
  /\ installed' = IF r.obj[1] = "assembly" THEN Without(r.obj) ELSE installed
  /\ retired' = IF r.obj[1] = "assembly" THEN retired \cup {r.obj} ELSE retired
  /\ UNCHANGED <<cache, refused, missed>>

\* apply_resync_record with an empty payload, the only one the server sends.
ApplyResync ==
  /\ installed' = << >>
  /\ cache' = Nothing
  /\ acks' = << >>
  /\ retired' = {}
  /\ missed' = FALSE
  /\ UNCHANGED refused

\* What an exact state leaves in the cache: bytes that cannot be decoded stay as they came.
Decoded(r) == IF r.shared THEN r.content ELSE Garbled

\* apply_data_record.
FaultyApplyData(r) ==
  /\ cache' = IF r.type = "Exact" THEN Decoded(r) ELSE cache
  /\ missed' = (r.type = "Exact" /\ ~r.shared)
  /\ UNCHANGED <<installed, acks, refused, retired>>

ApplyData(r) ==
  /\ cache' = IF r.type = "Exact" THEN Decoded(r) ELSE Nothing
  /\ missed' = (r.type = "Exact" /\ ~r.shared)
  /\ UNCHANGED <<installed, acks, refused, retired>>

\* apply_record on the next record of the stream.
Apply ==
  /\ down # << >>
  /\ LET r == Head(down) IN
       \/ r.type = "Dispatch" /\ ApplyDispatch(r)
       \/ r.type = "Retire" /\ ApplyRetire(r)
       \/ r.type = "Resync" /\ ApplyResync
       \/ r.type \in {"Exact", "Evict"} /\ ApplyData(r)
  /\ down' = Tail(down)
  /\ UNCHANGED <<server, up>>

\* emit_pending_memory_acks sends the whole queue.
EmitAcks ==
  /\ down = << >> /\ up = << >> /\ acks # << >>
  /\ up' = acks
  /\ acks' = << >>
  /\ UNCHANGED <<server, installed, cache, refused, missed, retired, down>>

Next ==
  \/ EmitAssembly \/ EmitSchema \/ EmitDictionary \/ EmitExact \/ EmitEvict
  \/ EmitResync \/ Retire \/ EmitRetire \/ ApplyAck
  \/ Apply \/ EmitAcks

\* Records and acknowledgements that were sent arrive, and the client acknowledges what
\* it has applied; nothing makes the server emit.
Fairness == WF_vars(Apply) /\ WF_vars(EmitAcks) /\ WF_vars(ApplyAck)

Spec == Init /\ [][Next]_vars /\ Fairness

-----------------------------------------------------------------------------
(* Properties *)

Objects == ({"assembly"} \X Assemblies) \cup ({"schema"} \X Schemas)
             \cup {<<"dictionary", ToSet(t)>> : t \in Texts}
Numbers == 0 .. MaxRecords
Acks == [obj : Objects \cup Retirable, of : {"Dispatch", "Retire"}, seq : Numbers]
AssemblyRecords ==
  {r \in [type : {"Dispatch"}, rtype : {"PredictiveConfirm"}, family : {"DirectState"},
          obj : {"assembly"} \X Assemblies, inline : BOOLEAN,
          def : {"assembly"} \X Assemblies, body : {<< >>}, len : {1}, complete : {TRUE},
          seq : Numbers] : r.def = r.obj}
SchemaRecords ==
  {r \in [type : {"Dispatch"}, rtype : {"PredictiveCorrect"}, family : {"DirectState", "Hybrid"},
          obj : {"schema"} \X Schemas, inline : {TRUE},
          def : {"schema"} \X Schemas, body : {<< >>}, len : {1}, complete : BOOLEAN,
          seq : Numbers] : r.def = r.obj}
DictionaryRecords(t) ==
  {r \in [type : {"Dispatch"}, rtype : {"PredictiveCorrect"}, family : {"Hybrid"},
          obj : {<<"dictionary", ToSet(t)>>}, inline : BOOLEAN,
          def : SegmentOrders(t), body : [DOMAIN t -> 1 .. Cardinality(ToSet(t))], len : {OutputLen(t)},
          complete : {TRUE}, seq : Numbers] : [k \in DOMAIN t |-> r.def[r.body[k]]] = t}
OtherRecords ==
  [type : {"Exact"}, content : Contents, shared : BOOLEAN, seq : Numbers]
    \cup [type : {"Evict", "Resync"}, seq : Numbers]
    \cup [type : {"Retire"}, obj : Retirable, seq : Numbers]
Records == AssemblyRecords \cup SchemaRecords \cup OtherRecords
             \cup UNION {DictionaryRecords(t) : t \in Texts}

\* Type correctness of both sides and of what is between them.
TypeOK ==
  /\ confirmed \in SUBSET Objects
  /\ pending \in SUBSET Objects
  /\ entry \in Contents \cup {Nothing}
  /\ retires \in Seq(Retirable) /\ Len(retires) <= MaxRetires
  /\ emitted \in Numbers
  /\ down \in Seq(Records)
  /\ up \in Seq(Acks)
  /\ DOMAIN installed \in SUBSET Objects
  /\ acks \in Seq(Acks)
  /\ refused \in SUBSET Objects
  /\ missed \in BOOLEAN
  /\ retired \in SUBSET ({"assembly"} \X Assemblies)

\* What the server holds for confirmed is installed at the client, except an assembly
\* it has retired itself and a schema that a failed dispatch took away: the split of
\* pending and confirmed state, acknowledgements and resyncs together keep the server
\* from counting on an object the client does not have.  The client refuses every
\* assembly, so the only assemblies that get confirmed are those whose retirement it
\* acknowledged.
ConfirmedInstalled ==
  \A o \in confirmed :
    \/ o \in DOMAIN installed
    \/ o \in retired
    \/ o[1] = "schema" /\ o \in refused

\* A record that refers to an object without defining it meets that object at the
\* client, whatever lies between its emission and its application; only a retirement
\* by the server can be in the way.
ReferencesResolve ==
  down # << >> =>
    LET r == Head(down) IN
    r.type = "Dispatch" /\ ~r.inline => r.obj \in DOMAIN installed \cup retired

\* c is a text whose dictionary's id some text also gives to another order.
Ambiguous(c) ==
  c # Nothing /\ c[1] = "text" /\
    \E t \in Texts : ToSet(t) = ToSet(c[2]) /\
      \E o \in SegmentOrders(t), q \in SegmentOrders(c[2]) : o # q

\* When every record has been applied, an item in the client's cache is the item in the
\* server's entries, unless the last record of the item failed at the client: a dispatch
\* that was refused, or an exact state compressed (compress_exact_bytes, lib.rs:4144)
\* with a template, a dictionary or a base version that the client lacks, which it keeps
\* undecoded.  The latter happens, see RoundTripExact of ExactPath.  Nothing is promised
\* of a text whose dictionary id stands for more than one order.
CacheIsExact ==
  down = << >> /\ ~missed /\ cache # Nothing /\ ~Ambiguous(entry) => cache = entry

\* A dispatch that refers to a dictionary by its id gives the text it was made from, also
\* when another text planned the same segments in another order.
DictionaryIdsAreExact == down = << >> /\ ~missed /\ cache # Nothing => cache = entry

\* What is pending is confirmed in the end, or given up by a resync; only an object whose
\* dispatch was refused may stay pending.
EventuallyConfirmed ==
  \A o \in Objects : o \in pending ~> o \notin pending \/ o \in refused
=============================================================================
