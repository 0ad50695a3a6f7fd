---------------------------- MODULE MemoryProofs ----------------------------
(***************************************************************************)
(* Proofs about what is kept for later.  First PeerMemory: for every set of *)
(* assemblies, schemas and texts and every number of records, what the      *)
(* server holds for confirmed is at the client, and references resolve.     *)
(* Then SourceCaches: what it guarantees for every number of workers,       *)
(* caches and sources, of which the sum of the files' lengths is the first  *)
(* part: a sum over a finite set, whose elements may be taken in any order. *)
(***************************************************************************)
EXTENDS PeerMemory, SourceCaches, Induction, FiniteSetTheorems

-----------------------------------------------------------------------------
(* The inductive invariant *)

\* The client has o, or the server itself has had it removed, or a failed dispatch took
\* it away.
Have(o) ==
  \/ o \in DOMAIN installed
  \/ o \in retired
  \/ o[1] = "schema" /\ o \in refused

Resyncs(r) == r.type = "Resync"
Defines(r, o) == r.type = "Dispatch" /\ r.inline /\ r.obj = o
Refers(r) == r.type = "Dispatch" /\ ~r.inline

\* The sides take turns: acknowledgements are under way only when no record is.
Turns == up # << >> => down = << >>

\* A resync on its way to the client finds nothing confirmed at the server.
ResyncForgets == \A i \in DOMAIN down : Resyncs(down[i]) => confirmed = {}

\* What is pending is at the client and stays there, or on its way, except assemblies:
\* their records have a type the client refuses.
Comes(o) ==
  \/ Have(o) /\ \A i \in DOMAIN down : ~Resyncs(down[i])
  \/ \E i \in DOMAIN down :
       /\ Defines(down[i], o)
       /\ \A j \in DOMAIN down : j > i => ~Resyncs(down[j])
PendingComes == \A o \in pending : o[1] # "assembly" => Comes(o)

\* An assembly is acknowledged for its retirement only.
AcknowledgedGone(queue) ==
  \A i \in DOMAIN queue : queue[i].obj[1] = "assembly" => queue[i].obj \in retired

ConfirmedHad == \A o \in confirmed : Have(o)

\* What a record on its way refers to is at the client, and no resync comes before it.
ReferredHad ==
  \A i \in DOMAIN down :
    Refers(down[i]) =>
      /\ down[i].obj[1] # "schema"
      /\ Have(down[i].obj)
      /\ \A j \in DOMAIN down : j < i => ~Resyncs(down[j])

PeerInv ==
  /\ TypeOK
  /\ Turns
  /\ ResyncForgets
  /\ PendingComes
  /\ AcknowledgedGone(acks)
  /\ AcknowledgedGone(up)
  /\ ConfirmedHad
  /\ ReferredHad

-----------------------------------------------------------------------------
(* Records *)

\* What a dispatch record on the wire can be.
LEMMA DispatchKinds ==
  ASSUME NEW r \in Records, r.type = "Dispatch"
  PROVE  r \in AssemblyRecords \/ r \in SchemaRecords \/ \E t \in Texts : r \in DictionaryRecords(t)
<1>1. r \notin OtherRecords
  BY DEF OtherRecords
<1> QED
  BY <1>1 DEF Records

\* The records of the dictionary route: the tokens, read in the order they were planned
\* with, spell the text again.
LEMMA DictionaryTyped ==
  ASSUME NEW t \in Texts, NEW o \in SegmentOrders(t), NEW i \in BOOLEAN, NEW n \in Numbers
  PROVE  DictionaryRecord(t, o, i, n) \in DictionaryRecords(t)
<1> DEFINE tok == [k \in DOMAIN t |-> CHOOSE m \in DOMAIN o : o[m] = t[k]]
<1>1. t \in Seq(DOMAIN SegLen)
  BY PeerAssumption
<1>2. ToSet(o) = ToSet(t) /\ DOMAIN o = 1 .. Cardinality(ToSet(t))
  BY DEF SegmentOrders
<1>3. ASSUME NEW k \in DOMAIN t PROVE o[tok[k]] = t[k] /\ tok[k] \in DOMAIN o
  <2>1. t[k] \in ToSet(o)
    BY <1>2 DEF ToSet
  <2>2. \E m \in DOMAIN o : o[m] = t[k]
    BY <2>1 DEF ToSet
  <2> QED
    BY <2>2
<1>4. DictionaryRecord(t, o, i, n) =
        [type |-> "Dispatch", rtype |-> "PredictiveCorrect", family |-> "Hybrid",
         obj |-> <<"dictionary", ToSet(t)>>, inline |-> i, def |-> o,
         body |-> tok, len |-> OutputLen(t), complete |-> TRUE, seq |-> n]
  BY <1>2 DEF DictionaryRecord, dictionary_id_for_segments
<1> HIDE DEF tok
<1>5. tok \in [DOMAIN t -> 1 .. Cardinality(ToSet(t))]
  BY <1>2, <1>3 DEF tok
<1>6. [k \in DOMAIN t |-> o[tok[k]]] = [k \in DOMAIN t |-> t[k]]
  BY <1>3
<1>7. [k \in DOMAIN t |-> t[k]] = t
  BY <1>1
<1> QED
  BY <1>4, <1>5, <1>6, <1>7 DEF DictionaryRecords

\* A dispatch record names an object, and one that defines nothing names no schema.  Its
\* type is that of its family for dictionaries, never for assemblies.
LEMMA DispatchFields ==
  ASSUME NEW r \in Records, r.type = "Dispatch"
  PROVE  /\ r.obj \in Objects
         /\ r.seq \in Numbers
         /\ ~r.inline => r.obj[1] # "schema"
         /\ r.rtype = dispatch_record_type(r.family) => r.obj[1] # "assembly"
         /\ r.rtype # dispatch_record_type(r.family) => r.obj[1] \in {"assembly", "schema"}
<1>1. CASE r \in AssemblyRecords
  BY <1>1 DEF AssemblyRecords, Objects, dispatch_record_type
<1>2. CASE r \in SchemaRecords
  BY <1>2 DEF SchemaRecords, Objects
<1>3. CASE \E t \in Texts : r \in DictionaryRecords(t)
  BY <1>3 DEF DictionaryRecords, Objects, dispatch_record_type
<1> QED
  BY <1>1, <1>2, <1>3, DispatchKinds

\* A retirement names what can be retired.
LEMMA RetireFields ==
  ASSUME NEW r \in Records, r.type = "Retire"
  PROVE  r.obj \in Retirable /\ r.seq \in Numbers
<1>1. r \notin AssemblyRecords
  BY DEF AssemblyRecords
<1>2. r \notin SchemaRecords
  BY DEF SchemaRecords
<1>3. \A t \in Texts : r \notin DictionaryRecords(t)
  BY DEF DictionaryRecords
<1>4. r \in OtherRecords
  BY <1>1, <1>2, <1>3 DEF Records
<1> QED
  BY <1>4 DEF OtherRecords

\* A dispatch of the right type that defines its object fails only for a schema: a
\* dictionary's definition spells the text.
LEMMA InlineApplies ==
  ASSUME NEW r \in Records, r.type = "Dispatch", r.inline,
         r.rtype = dispatch_record_type(r.family),
         Dispatched(r, Staged(r)) = Nothing
  PROVE  r.obj[1] = "schema"
<1>1. r.obj \in DOMAIN Staged(r) /\ Staged(r)[r.obj] = r.def
  BY DEF Staged
<1>2. CASE r \in AssemblyRecords
  BY <1>2, DispatchFields DEF AssemblyRecords
<1>3. CASE r \in SchemaRecords
  BY <1>3 DEF SchemaRecords
<1>4. CASE \E t \in Texts : r \in DictionaryRecords(t)
  <2> PICK t \in Texts : r \in DictionaryRecords(t)
    BY <1>4
  <2>0. r.complete /\ r.obj = <<"dictionary", ToSet(t)>> /\ r.len = OutputLen(t)
    BY DEF DictionaryRecords
  <2>1. r.complete /\ r.obj[1] = "dictionary" /\ r.len = OutputLen(t)
    BY <2>0
  <2>2. [k \in DOMAIN r.body |-> r.def[r.body[k]]] = t
    BY DEF DictionaryRecords
  <2>3. Dispatched(r, Staged(r)) = <<"text", t>>
    BY <1>1, <2>1, <2>2 DEF Dispatched
  <2> QED
    BY <2>3 DEF Nothing
<1> QED
  BY <1>2, <1>3, <1>4, DispatchKinds

-----------------------------------------------------------------------------
(* The server's steps *)

\* A record other than a resync keeps what is on its way in order, as long as what it
\* refers to is confirmed.
LEMMA EmitKeeps ==
  ASSUME PeerInv, NEW r \in Records, Emit(r), ~Resyncs(r),
         confirmed' = confirmed,
         \A o \in pending' : o \in pending \/ Defines(r, o),
         Refers(r) => r.obj \in confirmed /\ r.obj[1] # "schema"
  PROVE  (/\ Turns /\ ResyncForgets /\ PendingComes
          /\ AcknowledgedGone(acks) /\ AcknowledgedGone(up) /\ ConfirmedHad /\ ReferredHad)'
<1> USE DEF PeerInv
<1>1. down \in Seq(Records) /\ down' = Append(down, r) /\ up' = << >>
  BY DEF TypeOK, Emit
<1>2. DOMAIN down' = 1 .. Len(down) + 1 /\ DOMAIN down = 1 .. Len(down) /\ Len(down) \in Nat
  BY <1>1
<1>3. /\ \A i \in DOMAIN down : down'[i] = down[i]
      /\ down'[Len(down) + 1] = r
  BY <1>1
<1>4. \A o : Have(o)' <=> Have(o)
  BY DEF Emit, client, Have
<1>5. Turns'
  BY <1>1 DEF Turns
<1>6. ResyncForgets'
  BY <1>2, <1>3 DEF ResyncForgets, Resyncs
<1>7. PendingComes'
  <2> SUFFICES ASSUME NEW o \in pending', o[1] # "assembly"
               PROVE \/ Have(o)' /\ \A i \in DOMAIN down' : ~Resyncs(down'[i])
                     \/ \E i \in DOMAIN down' :
                          /\ Defines(down'[i], o)
                          /\ \A j \in DOMAIN down' : j > i => ~Resyncs(down'[j])
    BY DEF PendingComes, Comes, Resyncs, Defines
  <2>1. CASE Defines(r, o)
    <3>1. Defines(down'[Len(down) + 1], o)
      BY <1>3, <2>1
    <3>2. \A j \in DOMAIN down' : ~ (j > Len(down) + 1)
      BY <1>2
    <3> QED
      BY <1>2, <3>1, <3>2
  <2>2. CASE o \in pending /\ Have(o) /\ \A i \in DOMAIN down : ~Resyncs(down[i])
    <3>1. \A i \in DOMAIN down' : ~Resyncs(down'[i])
      BY <1>2, <1>3, <2>2
    <3> QED
      BY <1>4, <2>2, <3>1
  <2>3. CASE \E i \in DOMAIN down :
                 /\ Defines(down[i], o)
                 /\ \A j \in DOMAIN down : j > i => ~Resyncs(down[j])
    <3> PICK i \in DOMAIN down :
                 /\ Defines(down[i], o)
                 /\ \A j \in DOMAIN down : j > i => ~Resyncs(down[j])
      BY <2>3
    <3>1. i \in DOMAIN down' /\ Defines(down'[i], o)
      BY <1>2, <1>3
    <3>2. \A j \in DOMAIN down' : j > i => ~Resyncs(down'[j])
      BY <1>2, <1>3
    <3> QED
      BY <3>1, <3>2
  <2> QED
    BY <2>1, <2>2, <2>3 DEF PendingComes, Comes
<1>8. ConfirmedHad'
  BY <1>4 DEF ConfirmedHad
<1>9. ReferredHad'
  <2> SUFFICES ASSUME NEW i \in DOMAIN down', Refers(down[i])'
               PROVE (/\ down[i].obj[1] # "schema"
                      /\ Have(down[i].obj)
                      /\ \A j \in DOMAIN down : j < i => ~Resyncs(down[j]))'
    BY DEF ReferredHad
  <2>1. CASE i \in DOMAIN down
    <3>1. down'[i] = down[i] /\ Refers(down[i])
      BY <1>3, <2>1 DEF Refers
    <3>2. /\ down[i].obj[1] # "schema"
          /\ Have(down[i].obj)
          /\ \A j \in DOMAIN down : j < i => ~Resyncs(down[j])
      BY <2>1, <3>1 DEF ReferredHad
    <3>3. Have(down[i].obj)'
      BY <3>1, <3>2, <1>4 DEF Have
    <3> QED
      BY <1>2, <1>3, <2>1, <3>1, <3>2, <3>3 DEF Resyncs
  <2>2. CASE i = Len(down) + 1
    <3>1. r.obj \in confirmed /\ r.obj[1] # "schema" /\ down'[i] = r
      BY <1>3, <2>2 DEF Refers
    <3>2. Have(r.obj)
      BY <3>1 DEF ConfirmedHad
    <3>3. \A j \in DOMAIN down : ~Resyncs(down[j])
      BY <3>1 DEF ResyncForgets
    <3>4. Have(down[i].obj)'
      BY <3>1, <3>2, <1>4 DEF Have
    <3> QED
      BY <1>2, <1>3, <2>2, <3>1, <3>3, <3>4 DEF Resyncs
  <2> QED
    BY <1>2, <2>1, <2>2
<1>10. AcknowledgedGone(acks)' /\ AcknowledgedGone(up)'
  BY DEF Emit, client, AcknowledgedGone
<1> QED
  BY <1>5, <1>6, <1>7, <1>8, <1>9, <1>10

\* Records are typed and numbered by emitted.
LEMMA EmitTyped ==
  ASSUME TypeOK, NEW r \in Records, Emit(r),
         confirmed' \in SUBSET Objects, pending' \in SUBSET Objects,
         entry' \in Contents \cup {Nothing},
         retires' \in Seq(Retirable), Len(retires') <= MaxRetires
  PROVE  TypeOK'
<1>1. emitted \in Nat /\ emitted < MaxRecords /\ emitted' = emitted + 1
  BY PeerAssumption DEF TypeOK, Emit, Numbers
<1>2. emitted' \in Numbers
  BY <1>1, PeerAssumption DEF Numbers
<1>3. down' \in Seq(Records)
  BY DEF TypeOK, Emit
<1>4. UNCHANGED <<up, installed, acks, refused, missed, retired>>
  BY DEF Emit, client
<1> QED
  BY <1>2, <1>3, <1>4 DEF TypeOK

\* The definitions a record carries inline, and references to what is confirmed.
LEMMA DispatchEmitted ==
  ASSUME PeerInv, NEW r \in Records, r.type = "Dispatch", NEW c \in Contents,
         EmitDispatch(r, c), ~r.inline => r.obj \in confirmed
  PROVE  PeerInv'
<1>1. r.obj \in Objects /\ (~r.inline => r.obj[1] # "schema")
  BY DispatchFields
<1>2. Emit(r) /\ UNCHANGED <<confirmed, retires>> /\ entry' = c
  BY DEF EmitDispatch
<1>3. pending' \in SUBSET Objects
  BY <1>1 DEF EmitDispatch, PeerInv, TypeOK
<1>4. TypeOK'
  BY <1>2, <1>3, EmitTyped DEF PeerInv, TypeOK
<1>5. \A o \in pending' : o \in pending \/ Defines(r, o)
  BY DEF EmitDispatch, Defines
<1>6. ~Resyncs(r) /\ (Refers(r) => r.obj \in confirmed /\ r.obj[1] # "schema")
  BY <1>1 DEF Resyncs, Refers
<1> QED
  BY <1>2, <1>4, <1>5, <1>6, EmitKeeps DEF PeerInv

\* Every emission of a record keeps the invariant.
LEMMA EmissionKeeps ==
  ASSUME PeerInv,
         \/ EmitAssembly \/ EmitSchema \/ EmitDictionary \/ EmitExact \/ EmitEvict
         \/ EmitResync \/ EmitRetire
  PROVE  PeerInv'
<1> USE DEF PeerInv
<1>0. emitted \in Numbers
  BY DEF TypeOK
<1>1. CASE EmitAssembly
  <2> PICK c \in {"assembly"} \X Assemblies :
             EmitDispatch(ObjectRecord(c, "PredictiveConfirm", "DirectState", c \notin confirmed,
                                       TRUE, emitted), c)
    BY <1>1 DEF EmitAssembly
  <2> PICK i \in BOOLEAN : i = (c \notin confirmed)
    OBVIOUS
  <2> DEFINE r == ObjectRecord(c, "PredictiveConfirm", "DirectState", i, TRUE, emitted)
  <2>1. r \in Records
    <3>1. r \in AssemblyRecords
      BY <1>0 DEF AssemblyRecords, ObjectRecord
    <3> QED
      BY <3>1 DEF Records
  <2>2. r.type = "Dispatch" /\ r.obj = c /\ r.inline = i
    BY DEF ObjectRecord
  <2>3. c \in Contents
    BY DEF Contents
  <2>4. EmitDispatch(r, c)
    OBVIOUS
  <2> QED
    BY <2>1, <2>2, <2>3, <2>4, DispatchEmitted
<1>2. CASE EmitSchema
  <2> PICK c \in {"schema"} \X Schemas, f \in {"DirectState", "Hybrid"}, p \in BOOLEAN :
             EmitDispatch(ObjectRecord(c, "PredictiveCorrect", f, TRUE, p, emitted), c)
    BY <1>2 DEF EmitSchema
  <2> DEFINE r == ObjectRecord(c, "PredictiveCorrect", f, TRUE, p, emitted)
  <2>1. r \in Records
    <3>1. r \in SchemaRecords
      BY <1>0 DEF SchemaRecords, ObjectRecord
    <3> QED
      BY <3>1 DEF Records
  <2>2. r.type = "Dispatch" /\ r.inline
    BY DEF ObjectRecord
  <2>3. c \in Contents
    BY DEF Contents
  <2> QED
    BY <2>1, <2>2, <2>3, DispatchEmitted
<1>3. CASE EmitDictionary
  <2> PICK t \in Texts : \E o \in SegmentOrders(t) :
             EmitDispatch(DictionaryRecord(t, o, dictionary_id_for_segments(o) \notin confirmed,
                                           emitted), <<"text", t>>)
    BY <1>3 DEF EmitDictionary
  <2> PICK o \in SegmentOrders(t) :
             EmitDispatch(DictionaryRecord(t, o, dictionary_id_for_segments(o) \notin confirmed,
                                           emitted), <<"text", t>>)
    OBVIOUS
  <2> PICK i \in BOOLEAN : i = (dictionary_id_for_segments(o) \notin confirmed)
    OBVIOUS
  <2> DEFINE r == DictionaryRecord(t, o, i, emitted)
  <2>1. r \in Records
    BY <1>0, DictionaryTyped DEF Records
  <2>2. r.type = "Dispatch" /\ r.obj = dictionary_id_for_segments(o) /\ r.inline = i
    BY DEF DictionaryRecord
  <2>3. <<"text", t>> \in Contents
    BY DEF Contents
  <2>4. EmitDispatch(r, <<"text", t>>)
    OBVIOUS
  <2> QED
    BY <2>1, <2>2, <2>3, <2>4, DispatchEmitted
<1>4. CASE EmitExact
  <2> PICK c \in Contents, h \in BOOLEAN :
        /\ Emit([type |-> "Exact", content |-> c, shared |-> h, seq |-> emitted])
        /\ entry' = c
        /\ UNCHANGED <<confirmed, pending, retires>>
    BY <1>4 DEF EmitExact
  <2> DEFINE r == [type |-> "Exact", content |-> c, shared |-> h, seq |-> emitted]
  <2>1. r \in Records
    BY <1>0 DEF Records, OtherRecords
  <2>2. ~Resyncs(r) /\ ~Refers(r)
    BY DEF Resyncs, Refers
  <2>3. TypeOK'
    BY <2>1, EmitTyped DEF TypeOK
  <2> QED
    BY <2>1, <2>2, <2>3, EmitKeeps
<1>5. CASE EmitEvict
  <2> DEFINE r == [type |-> "Evict", seq |-> emitted]
  <2>1. r \in Records
    BY <1>0 DEF Records, OtherRecords
  <2>2. ~Resyncs(r) /\ ~Refers(r)
    BY DEF Resyncs, Refers
  <2>3. Emit(r) /\ entry' = Nothing /\ UNCHANGED <<confirmed, pending, retires>>
    BY <1>5 DEF EmitEvict
  <2>4. TypeOK'
    BY <2>1, <2>3, EmitTyped DEF TypeOK
  <2> QED
    BY <2>1, <2>2, <2>3, <2>4, EmitKeeps
<1>6. CASE EmitRetire
  <2> DEFINE r == [type |-> "Retire", obj |-> Head(retires), seq |-> emitted]
  <2>1. retires # << >> /\ retires' = Tail(retires) /\ retires \in Seq(Retirable)
    BY <1>6 DEF EmitRetire, TypeOK
  <2>2. Head(retires) \in Retirable /\ retires' \in Seq(Retirable) /\ Len(retires') <= MaxRetires
    BY <2>1, PeerAssumption DEF TypeOK
  <2>3. r \in Records
    BY <1>0, <2>2 DEF Records, OtherRecords
  <2>4. ~Resyncs(r) /\ ~Refers(r)
    BY DEF Resyncs, Refers
  <2>5. Emit(r) /\ UNCHANGED <<confirmed, pending, entry>>
    BY <1>6 DEF EmitRetire
  <2>6. TypeOK'
    BY <2>2, <2>3, <2>5, EmitTyped DEF TypeOK
  <2> QED
    BY <2>3, <2>4, <2>5, <2>6, EmitKeeps
<1>7. CASE EmitResync
  <2> DEFINE r == [type |-> "Resync", seq |-> emitted]
  <2>1. r \in Records
    BY <1>0 DEF Records, OtherRecords
  <2>2. Emit(r) /\ confirmed' = {} /\ pending' = {} /\ UNCHANGED <<entry, retires>>
    BY <1>7 DEF EmitResync
  <2>3. TypeOK'
    BY <2>1, <2>2, EmitTyped DEF TypeOK
  <2>4. down \in Seq(Records) /\ down' = Append(down, r) /\ up' = << >> /\ ~Refers(r)
    BY <2>2 DEF TypeOK, Emit, Refers
  <2>5. /\ DOMAIN down' = 1 .. Len(down) + 1 /\ DOMAIN down = 1 .. Len(down) /\ Len(down) \in Nat
        /\ \A i \in DOMAIN down : down'[i] = down[i]
        /\ down'[Len(down) + 1] = r
    BY <2>1, <2>4
  <2>6. Turns' /\ ResyncForgets' /\ PendingComes' /\ ConfirmedHad'
    BY <2>2, <2>4 DEF Turns, ResyncForgets, PendingComes, ConfirmedHad
  <2>8. AcknowledgedGone(acks)' /\ AcknowledgedGone(up)'
    BY <2>2 DEF Emit, client, AcknowledgedGone
  <2>7. ReferredHad'
    <3> SUFFICES ASSUME NEW i \in DOMAIN down', Refers(down[i])'
                 PROVE (/\ down[i].obj[1] # "schema"
                        /\ Have(down[i].obj)
                        /\ \A j \in DOMAIN down : j < i => ~Resyncs(down[j]))'
      BY DEF ReferredHad
    <3>1. i \in DOMAIN down /\ down'[i] = down[i] /\ Refers(down[i])
      BY <2>4, <2>5 DEF Refers
    <3>2. /\ down[i].obj[1] # "schema"
          /\ Have(down[i].obj)
          /\ \A j \in DOMAIN down : j < i => ~Resyncs(down[j])
      BY <3>1 DEF ReferredHad
    <3>3. Have(down[i].obj)'
      BY <2>2, <3>1, <3>2 DEF Have, Emit, client
    <3> QED
      BY <2>5, <3>1, <3>2, <3>3 DEF Resyncs
  <2> QED
    BY <2>3, <2>6, <2>7, <2>8
<1> QED
  BY <1>1, <1>2, <1>3, <1>4, <1>5, <1>6, <1>7

\* An acknowledgement comes when no record is on its way, so what it confirms is at the
\* client.
LEMMA AckKeeps ==
  ASSUME PeerInv, ApplyAck
  PROVE  PeerInv'
<1> USE DEF PeerInv
<1> DEFINE o == Head(up).obj
<1>1. /\ up # << >> /\ up' = Tail(up) /\ down' = down
      /\ confirmed' = IF o \in pending THEN confirmed \cup {o} ELSE confirmed
      /\ pending' = pending \ {o}
      /\ UNCHANGED <<entry, retires, emitted, installed, cache, acks, refused, missed, retired>>
  BY DEF ApplyAck, client
<1>2. up' \in Seq(Acks)
  BY <1>1 DEF TypeOK
<1>3. TypeOK'
  BY <1>1, <1>2 DEF TypeOK
<1>4. down = << >>
  BY <1>1 DEF Turns
<1>5. \A p \in pending : p[1] # "assembly" => Have(p)
  BY <1>4 DEF PendingComes, Comes
<1>6. \A p : Have(p)' <=> Have(p)
  BY <1>1 DEF Have
<1>7. ConfirmedHad'
  <2>1. o[1] = "assembly" => o \in retired
    BY <1>1 DEF TypeOK, AcknowledgedGone
  <2> QED
    BY <1>1, <1>5, <1>6, <2>1 DEF ConfirmedHad, Have
<1>10. AcknowledgedGone(acks)' /\ AcknowledgedGone(up)'
  <2>1. \A i \in DOMAIN up' : i + 1 \in DOMAIN up /\ up'[i] = up[i + 1]
    BY <1>1 DEF TypeOK
  <2> QED
    BY <1>1, <2>1 DEF AcknowledgedGone
<1>8. Turns' /\ ResyncForgets' /\ ReferredHad'
  BY <1>1, <1>4 DEF Turns, ResyncForgets, ReferredHad
<1>9. PendingComes'
  BY <1>1, <1>4, <1>5, <1>6 DEF PendingComes, Comes
<1> QED
  BY <1>3, <1>7, <1>8, <1>9, <1>10

\* A retirement job only queues.
LEMMA RetireKeeps ==
  ASSUME PeerInv, Retire
  PROVE  PeerInv'
<1> USE DEF PeerInv
<1> PICK o \in Retirable :
      /\ Len(retires) < MaxRetires
      /\ retires' = Append(retires, o)
      /\ UNCHANGED <<confirmed, pending, entry, emitted, client, down, up>>
  BY DEF Retire
<1>1. UNCHANGED <<confirmed, pending, entry, emitted, installed, cache, acks, refused, missed,
                  retired, down, up>>
  BY DEF client
<1>2. retires' \in Seq(Retirable) /\ Len(retires') <= MaxRetires
  BY PeerAssumption DEF TypeOK
<1>3. TypeOK'
  BY <1>1, <1>2 DEF TypeOK
<1>4. (/\ Turns /\ ResyncForgets /\ PendingComes
       /\ AcknowledgedGone(acks) /\ AcknowledgedGone(up) /\ ConfirmedHad /\ ReferredHad)'
  BY <1>1 DEF Turns, ResyncForgets, PendingComes, Comes, AcknowledgedGone, ConfirmedHad,
     ReferredHad, Have
<1> QED
  BY <1>3, <1>4

-----------------------------------------------------------------------------
(* The client's steps *)

\* Acknowledgements leave when every record has been applied.
LEMMA AcksKeep ==
  ASSUME PeerInv, EmitAcks
  PROVE  PeerInv'
<1> USE DEF PeerInv
<1>1. /\ down = << >> /\ up' = acks /\ acks' = << >>
      /\ UNCHANGED <<confirmed, pending, entry, retires, emitted, installed, cache, refused,
                     missed, retired, down>>
  BY DEF EmitAcks, server
<1>2. TypeOK'
  BY <1>1 DEF TypeOK
<1>3. (/\ Turns /\ ResyncForgets /\ PendingComes
       /\ AcknowledgedGone(acks) /\ AcknowledgedGone(up) /\ ConfirmedHad /\ ReferredHad)'
  BY <1>1 DEF Turns, ResyncForgets, PendingComes, Comes, AcknowledgedGone, ConfirmedHad,
     ReferredHad, Have
<1> QED
  BY <1>2, <1>3

\* A record that is not a resync takes nothing from the client that the server has not
\* retired and no dispatch has failed for, and brings what it defines, assemblies apart.
LEMMA ApplyBrings ==
  ASSUME TypeOK, NEW r \in Records, ~Resyncs(r),
         \/ r.type = "Dispatch" /\ ApplyDispatch(r)
         \/ r.type = "Retire" /\ ApplyRetire(r)
         \/ r.type \in {"Exact", "Evict"} /\ ApplyData(r)
  PROVE  \A o : Have(o) \/ (Defines(r, o) /\ o[1] # "assembly") => Have(o)'
<1>1. CASE r.type = "Dispatch" /\ ApplyDispatch(r)
  <2>1. CASE /\ Dispatched(r, Staged(r)) # Nothing
             /\ installed' = Staged(r) /\ retired' = retired \ {r.obj} /\ refused' = refused
    <3>1. r.obj \in DOMAIN Staged(r)
      BY <2>1 DEF Dispatched
    <3>2. DOMAIN installed \subseteq DOMAIN Staged(r)
      BY DEF Staged
    <3> QED
      BY <2>1, <3>1, <3>2 DEF Have, Defines
  <2>2. CASE /\ r.rtype = dispatch_record_type(r.family)
             /\ Dispatched(r, Staged(r)) = Nothing
             /\ installed' = IF r.inline THEN Without(r.obj) ELSE installed
             /\ refused' = refused \cup {r.obj} /\ retired' = retired
    <3>1. r.inline => r.obj[1] = "schema"
      BY <1>1, <2>2, InlineApplies
    <3>2. DOMAIN Without(r.obj) = DOMAIN installed \ {r.obj}
      BY DEF Without
    <3> QED
      BY <2>2, <3>1, <3>2 DEF Have, Defines
  <2>3. CASE /\ r.rtype # dispatch_record_type(r.family)
             /\ installed' = installed
             /\ refused' = refused \cup {r.obj} /\ retired' = retired
    <3>1. r.obj[1] \in {"assembly", "schema"}
      BY <1>1, <2>3, DispatchFields
    <3> QED
      BY <2>3, <3>1 DEF Have, Defines
  <2> QED
    BY <1>1, <2>1, <2>2, <2>3 DEF ApplyDispatch, Refused
<1>2. CASE r.type = "Retire" /\ ApplyRetire(r)
  BY <1>2 DEF ApplyRetire, Without, Have, Defines
<1>3. CASE r.type \in {"Exact", "Evict"} /\ ApplyData(r)
  BY <1>3 DEF ApplyData, Have, Defines
<1> QED
  BY <1>1, <1>2, <1>3

\* Applying a record keeps the types.
LEMMA ApplyTyped ==
  ASSUME TypeOK, Apply
  PROVE  TypeOK'
<1> DEFINE r == Head(down)
<1>1. /\ down # << >> /\ r \in Records /\ down' \in Seq(Records)
      /\ UNCHANGED <<confirmed, pending, entry, retires, emitted, up>>
  BY DEF TypeOK, Apply, server
<1> HIDE DEF r
<1> SUFFICES /\ DOMAIN installed' \in SUBSET Objects /\ acks' \in Seq(Acks)
             /\ refused' \in SUBSET Objects /\ missed' \in BOOLEAN
             /\ retired' \in SUBSET ({"assembly"} \X Assemblies)
  BY <1>1 DEF TypeOK
<1>2. ASSUME NEW ack \in Acks PROVE Enqueued(acks, ack) \in Seq(Acks)
  BY DEF Enqueued, TypeOK
<1>3. CASE r.type = "Dispatch" /\ ApplyDispatch(r)
  <2>1. r.obj \in Objects /\ r.seq \in Numbers
    BY <1>1, <1>3, DispatchFields
  <2>2. [obj |-> r.obj, of |-> "Dispatch", seq |-> r.seq] \in Acks
    BY <2>1 DEF Acks
  <2>3. acks' \in Seq(Acks)
    BY <1>2, <1>3, <2>2 DEF ApplyDispatch, Refused, TypeOK
  <2>4. DOMAIN Staged(r) \in SUBSET Objects /\ DOMAIN Without(r.obj) \in SUBSET Objects
    BY <2>1 DEF Staged, Without, TypeOK
  <2>5. DOMAIN installed' \in SUBSET Objects
    BY <1>3, <2>4 DEF ApplyDispatch, TypeOK
  <2>6. /\ refused' \in SUBSET Objects /\ missed' \in BOOLEAN
        /\ retired' \in SUBSET ({"assembly"} \X Assemblies)
    BY <1>3, <2>1 DEF ApplyDispatch, Refused, TypeOK
  <2> QED
    BY <2>3, <2>5, <2>6
<1>4. CASE r.type = "Retire" /\ ApplyRetire(r)
  <2>2. r.obj \in Retirable /\ r.seq \in Numbers
    BY <1>1, <1>4, RetireFields
  <2>3. [obj |-> r.obj, of |-> "Retire", seq |-> r.seq] \in Acks
    BY <2>2 DEF Acks
  <2>4. acks' \in Seq(Acks)
    BY <1>2, <1>4, <2>3 DEF ApplyRetire
  <2>5. r.obj[1] = "assembly" => r.obj \in {"assembly"} \X Assemblies
    BY <2>2 DEF Retirable
  <2>6. DOMAIN installed' \in SUBSET Objects
    BY <1>4 DEF ApplyRetire, Without, TypeOK
  <2>7. /\ refused' \in SUBSET Objects /\ missed' \in BOOLEAN
        /\ retired' \in SUBSET ({"assembly"} \X Assemblies)
    BY <1>4, <2>5 DEF ApplyRetire, TypeOK
  <2> QED
    BY <2>4, <2>6, <2>7
<1>5. CASE r.type = "Resync" /\ ApplyResync
  <2>1. installed' = << >> /\ acks' = << >> /\ retired' = {} /\ missed' = FALSE /\ refused' = refused
    BY <1>5 DEF ApplyResync
  <2>2. DOMAIN installed' = {} /\ acks' \in Seq(Acks)
    BY <2>1
  <2> QED
    BY <2>1, <2>2 DEF TypeOK
<1>6. CASE r.type \in {"Exact", "Evict"} /\ ApplyData(r)
  BY <1>6 DEF ApplyData, TypeOK
<1> QED
  BY <1>3, <1>4, <1>5, <1>6 DEF Apply, r

\* Applying a record acknowledges an assembly only for its retirement.
LEMMA AssembliesAcknowledged ==
  ASSUME PeerInv, Apply
  PROVE  AcknowledgedGone(acks)'
<1> USE DEF PeerInv
<1> DEFINE r == Head(down)
<1>1. down # << >> /\ r \in Records
  BY DEF TypeOK, Apply
<1> HIDE DEF r
<1>2. ASSUME NEW ack \in Acks, acks' = Enqueued(acks, ack),
             \A o \in retired : o[1] = "assembly" => o \in retired',
             ack.obj[1] = "assembly" => ack.obj \in retired'
      PROVE  AcknowledgedGone(acks)'
  <2>1. acks' = acks \/ acks' = Append(acks, ack)
    BY <1>2 DEF Enqueued
  <2>2. acks \in Seq(Acks)
    BY DEF TypeOK
  <2>3. \A i \in DOMAIN acks' : (i \in DOMAIN acks /\ acks'[i] = acks[i]) \/ acks'[i] = ack
    BY <2>1, <2>2
  <2> QED
    BY <1>2, <2>3 DEF AcknowledgedGone
<1>3. CASE r.type = "Dispatch" /\ ApplyDispatch(r)
  <2>1. CASE /\ r.rtype = dispatch_record_type(r.family) /\ retired' = retired \ {r.obj}
             /\ r.inline /\ acks' = Enqueued(acks, [obj |-> r.obj, of |-> "Dispatch", seq |-> r.seq])
    <3>1. r.obj \in Objects /\ r.seq \in Numbers /\ r.obj[1] # "assembly"
      BY <1>1, <1>3, <2>1, DispatchFields
    <3> DEFINE ack == [obj |-> r.obj, of |-> "Dispatch", seq |-> r.seq]
    <3>2. ack \in Acks /\ ack.obj = r.obj
      BY <3>1 DEF Acks
    <3> QED
      BY <1>2, <2>1, <3>1, <3>2
  <2>2. CASE /\ r.rtype = dispatch_record_type(r.family) /\ retired' = retired \ {r.obj}
             /\ acks' = acks
    <3>1. r.obj[1] # "assembly"
      BY <1>1, <1>3, <2>2, DispatchFields
    <3> QED
      BY <2>2, <3>1 DEF AcknowledgedGone
  <2>3. CASE retired' = retired /\ acks' = acks
    BY <2>3 DEF AcknowledgedGone
  <2> QED
    BY <1>3, <2>1, <2>2, <2>3 DEF ApplyDispatch, Refused
<1>4. CASE r.type = "Retire" /\ ApplyRetire(r)
  <2>2. r.obj \in Retirable /\ r.seq \in Numbers
    BY <1>1, <1>4, RetireFields
  <2> DEFINE ack == [obj |-> r.obj, of |-> "Retire", seq |-> r.seq]
  <2>3. ack \in Acks /\ ack.obj = r.obj
    BY <2>2 DEF Acks
  <2>4. /\ acks' = Enqueued(acks, ack)
        /\ r.obj[1] = "assembly" => r.obj \in retired'
        /\ \A o \in retired : o \in retired'
    BY <1>4 DEF ApplyRetire
  <2> QED
    BY <1>2, <2>3, <2>4
<1>5. CASE r.type = "Resync" /\ ApplyResync
  BY <1>5 DEF ApplyResync, AcknowledgedGone
<1>6. CASE r.type \in {"Exact", "Evict"} /\ ApplyData(r)
  BY <1>6 DEF ApplyData, AcknowledgedGone
<1> QED
  BY <1>3, <1>4, <1>5, <1>6 DEF Apply, r

\* Applying a record keeps the invariant: a resync finds nothing confirmed and the
\* definitions of what is pending behind it.
LEMMA ApplyKeeps ==
  ASSUME PeerInv, Apply
  PROVE  PeerInv'
<1> USE DEF PeerInv
<1> DEFINE r == Head(down)
<1>1. /\ down # << >> /\ down' = Tail(down) /\ down \in Seq(Records) /\ r \in Records
      /\ UNCHANGED <<confirmed, pending, up>>
  BY DEF TypeOK, Apply, server
<1>2. /\ Len(down) \in Nat /\ DOMAIN down = 1 .. Len(down) /\ 1 \in DOMAIN down
      /\ DOMAIN down' = 1 .. Len(down) - 1
      /\ \A i \in DOMAIN down' : i + 1 \in DOMAIN down /\ down'[i] = down[i + 1]
      /\ r = down[1]
  BY <1>1
<1>3. /\ TypeOK' /\ Turns' /\ ResyncForgets'
      /\ AcknowledgedGone(acks)' /\ AcknowledgedGone(up)'
  <2>1. up = << >>
    BY <1>1 DEF Turns
  <2>2. ResyncForgets'
    BY <1>1, <1>2 DEF ResyncForgets, Resyncs
  <2> QED
    BY <1>1, <2>1, <2>2, ApplyTyped, AssembliesAcknowledged DEF Turns, AcknowledgedGone
<1>4. CASE Resyncs(r)
  <2>1. confirmed = {}
    BY <1>2, <1>4 DEF ResyncForgets
  <2>2. ConfirmedHad'
    BY <1>1, <2>1 DEF ConfirmedHad
  <2>3. ReferredHad'
    <3> SUFFICES ASSUME NEW i \in DOMAIN down', Refers(down[i])' PROVE FALSE
      BY DEF ReferredHad
    <3>1. i + 1 \in DOMAIN down /\ Refers(down[i + 1]) /\ 1 < i + 1
      BY <1>2 DEF Refers
    <3> QED
      BY <1>2, <1>4, <3>1 DEF ReferredHad
  <2>4. PendingComes'
    <3> SUFFICES ASSUME NEW o \in pending', o[1] # "assembly"
                 PROVE \E i \in DOMAIN down' :
                         /\ Defines(down'[i], o)
                         /\ \A j \in DOMAIN down' : j > i => ~Resyncs(down'[j])
      BY DEF PendingComes, Comes, Defines, Resyncs
    <3> PICK i \in DOMAIN down :
               /\ Defines(down[i], o)
               /\ \A j \in DOMAIN down : j > i => ~Resyncs(down[j])
      BY <1>1, <1>2, <1>4 DEF PendingComes, Comes
    <3>1. i # 1
      BY <1>2, <1>4 DEF Resyncs, Defines
    <3>2. i - 1 \in DOMAIN down' /\ down'[i - 1] = down[i]
      BY <1>2, <3>1
    <3>3. \A j \in DOMAIN down' : j > i - 1 => ~Resyncs(down'[j])
      BY <1>2
    <3> QED
      BY <3>2, <3>3
  <2> QED
    BY <1>3, <2>2, <2>3, <2>4
<1>5. CASE ~Resyncs(r)
  <2>1. \A o : Have(o) \/ (Defines(r, o) /\ o[1] # "assembly") => Have(o)'
    <3>1. \/ r.type = "Dispatch" /\ ApplyDispatch(r)
          \/ r.type = "Retire" /\ ApplyRetire(r)
          \/ r.type \in {"Exact", "Evict"} /\ ApplyData(r)
      BY <1>5 DEF Apply, Resyncs
    <3> QED
      BY <1>1, <1>5, <3>1, ApplyBrings
  <2>2. ConfirmedHad'
    BY <1>1, <2>1 DEF ConfirmedHad
  <2>3. ReferredHad'
    <3> SUFFICES ASSUME NEW i \in DOMAIN down', Refers(down[i])'
                 PROVE (/\ down[i].obj[1] # "schema"
                        /\ Have(down[i].obj)
                        /\ \A j \in DOMAIN down : j < i => ~Resyncs(down[j]))'
      BY DEF ReferredHad
    <3>1. i + 1 \in DOMAIN down /\ down'[i] = down[i + 1] /\ Refers(down[i + 1])
      BY <1>2 DEF Refers
    <3>2. /\ down[i + 1].obj[1] # "schema"
          /\ Have(down[i + 1].obj)
          /\ \A j \in DOMAIN down : j < i + 1 => ~Resyncs(down[j])
      BY <3>1 DEF ReferredHad
    <3>3. Have(down[i].obj)'
      BY <2>1, <3>1, <3>2 DEF Have
    <3>4. \A j \in DOMAIN down' : j < i => ~Resyncs(down'[j])
      BY <1>2, <3>2
    <3> QED
      BY <3>1, <3>2, <3>3, <3>4 DEF Resyncs
  <2>4. PendingComes'
    <3> SUFFICES ASSUME NEW o \in pending', o[1] # "assembly"
                 PROVE \/ Have(o)' /\ \A i \in DOMAIN down' : ~Resyncs(down'[i])
                       \/ \E i \in DOMAIN down' :
                            /\ Defines(down'[i], o)
                            /\ \A j \in DOMAIN down' : j > i => ~Resyncs(down'[j])
      BY DEF PendingComes, Comes, Resyncs, Defines
    <3>1. CASE Have(o) /\ \A i \in DOMAIN down : ~Resyncs(down[i])
      BY <1>2, <2>1, <3>1
    <3>2. CASE \E i \in DOMAIN down :
                   /\ Defines(down[i], o)
                   /\ \A j \in DOMAIN down : j > i => ~Resyncs(down[j])
      <4> PICK i \in DOMAIN down :
                   /\ Defines(down[i], o)
                   /\ \A j \in DOMAIN down : j > i => ~Resyncs(down[j])
        BY <3>2
      <4>1. CASE i = 1
        BY <1>2, <2>1, <4>1
      <4>2. CASE i # 1
        <5>1. i - 1 \in DOMAIN down' /\ down'[i - 1] = down[i]
          BY <1>2, <4>2
        <5>2. \A j \in DOMAIN down' : j > i - 1 => ~Resyncs(down'[j])
          BY <1>2
        <5> QED
          BY <5>1, <5>2
      <4> QED
        BY <4>1, <4>2
    <3> QED
      BY <1>1, <3>1, <3>2 DEF PendingComes, Comes
  <2> QED
    BY <1>3, <2>2, <2>3, <2>4
<1> QED
  BY <1>4, <1>5

-----------------------------------------------------------------------------
(* The theorems *)

\* PeerInv is an inductive invariant of the server and client memories.
THEOREM PeerInvariant == Spec => []PeerInv
<1>1. Init => PeerInv
  <2> SUFFICES ASSUME Init PROVE PeerInv
    OBVIOUS
  <2>1. TypeOK
    <3>1. emitted \in Numbers /\ Len(retires) <= MaxRetires
      BY PeerAssumption DEF Init, Numbers
    <3>2. DOMAIN installed = {}
      BY DEF Init
    <3>3. << >> \in Seq(Retirable) /\ << >> \in Seq(Records) /\ << >> \in Seq(Acks)
      OBVIOUS
    <3>4. retires \in Seq(Retirable) /\ down \in Seq(Records) /\ up \in Seq(Acks) /\ acks \in Seq(Acks)
      BY <3>3 DEF Init
    <3>5. /\ confirmed \in SUBSET Objects /\ pending \in SUBSET Objects
          /\ entry \in Contents \cup {Nothing} /\ refused \in SUBSET Objects
          /\ missed \in BOOLEAN
          /\ retired \in SUBSET ({"assembly"} \X Assemblies)
      BY DEF Init
    <3> QED
      BY <3>1, <3>2, <3>4, <3>5 DEF TypeOK
  <2>2. /\ Turns /\ ResyncForgets /\ PendingComes /\ AcknowledgedGone(acks)
        /\ AcknowledgedGone(up) /\ ConfirmedHad /\ ReferredHad
    BY DEF Init, Turns, ResyncForgets, PendingComes, AcknowledgedGone, ConfirmedHad, ReferredHad
  <2> QED
    BY <2>1, <2>2 DEF PeerInv
<1>2. PeerInv /\ [Next]_vars => PeerInv'
  <2> SUFFICES ASSUME PeerInv, [Next]_vars PROVE PeerInv'
    OBVIOUS
  <2>1. CASE UNCHANGED vars
    BY <2>1 DEF vars, server, client, PeerInv, TypeOK, Turns, ResyncForgets, PendingComes,
       Comes, AcknowledgedGone, ConfirmedHad, ReferredHad, Have
  <2> QED
    BY <2>1, EmissionKeeps, AckKeeps, RetireKeeps, AcksKeep, ApplyKeeps DEF Next
<1> QED
  BY <1>1, <1>2, PTL DEF Spec

\* The trackers, the records and the acknowledgements always have their types, and the
\* retirement queue keeps its cap.
THEOREM MemoryTyped == Spec => []TypeOK
<1>1. PeerInv => TypeOK
  BY DEF PeerInv
<1> QED
  BY <1>1, PeerInvariant, PTL

\* Whatever is retired, refused or resynced and in whatever order, what the server holds
\* for confirmed is at the client, unless the server retired it or it is a schema of which a
\* dispatch failed.
THEOREM ConfirmedAreInstalled == Spec => []ConfirmedInstalled
<1>1. PeerInv => ConfirmedInstalled
  BY DEF PeerInv, ConfirmedHad, Have, ConfirmedInstalled
<1> QED
  BY <1>1, PeerInvariant, PTL

\* A record that leaves its definition out finds it at the client.
THEOREM ReferencesFound == Spec => []ReferencesResolve
<1>1. PeerInv => ReferencesResolve
  <2> SUFFICES ASSUME PeerInv, down # << >>, Refers(Head(down))
               PROVE Head(down).obj \in DOMAIN installed \cup retired
    BY DEF ReferencesResolve, Refers
  <2>1. 1 \in DOMAIN down /\ Head(down) = down[1]
    BY DEF PeerInv, TypeOK
  <2>2. down[1].obj[1] # "schema" /\ Have(down[1].obj)
    BY <2>1 DEF PeerInv, ReferredHad
  <2> QED
    BY <2>1, <2>2 DEF Have
<1> QED
  BY <1>1, PeerInvariant, PTL

-----------------------------------------------------------------------------
(* The client's cache *)

\* The records about the item.
Moves(r) == r.type # "Retire"

\* A record that brings an item brings the one of the server's entries.
Says(r) ==
  /\ r.type = "Exact" => r.content = entry
  /\ r.type = "Dispatch" =>
       entry = IF r.obj[1] = "dictionary" THEN <<"text", [k \in DOMAIN r.body |-> r.def[r.body[k]]]>>
               ELSE r.obj

\* The client's dictionaries are in the order that some text planned.
PlannedOrders ==
  \A o \in DOMAIN installed :
    o[1] = "dictionary" => \E t \in Texts : o = <<"dictionary", ToSet(t)>> /\ installed[o] \in SegmentOrders(t)

\* The last record about the item that is on its way tells what the server has.
LastSays ==
  \A i \in DOMAIN down :
    (Moves(down[i]) /\ \A j \in DOMAIN down : j > i => ~Moves(down[j])) => Says(down[i])

\* What the client has is what the server has, or nothing, unless the last record failed
\* there or the server's is a text of an ambiguous dictionary.
CacheAgrees == ~missed /\ cache # Nothing /\ ~Ambiguous(entry) => cache = entry

\* With nothing about the item on its way, the two ends agree on it.
CacheInv ==
  /\ PlannedOrders
  /\ LastSays
  /\ (\A i \in DOMAIN down : ~Moves(down[i])) => CacheAgrees

\* An emitted record about the item tells what the server has from then on.
LEMMA EmitSays ==
  ASSUME TypeOK, CacheInv, NEW r \in Records, Emit(r), Moves(r), Says(r)'
  PROVE  CacheInv'
<1>1. down \in Seq(Records) /\ down' = Append(down, r) /\ UNCHANGED <<installed, cache, missed>>
  BY DEF TypeOK, Emit, client
<1>2. /\ Len(down) \in Nat /\ DOMAIN down' = 1 .. Len(down) + 1
      /\ \A i \in DOMAIN down' : i = Len(down) + 1 \/ i < Len(down) + 1
      /\ down'[Len(down) + 1] = r
  BY <1>1
<1>3. PlannedOrders'
  BY <1>1 DEF CacheInv, PlannedOrders
<1>4. LastSays'
  <2> SUFFICES ASSUME NEW i \in DOMAIN down', Moves(down'[i]),
                      \A j \in DOMAIN down' : j > i => ~Moves(down'[j])
               PROVE  Says(down[i])'
    BY DEF LastSays, Moves
  <2>1. Len(down) + 1 \in DOMAIN down' /\ Moves(down'[Len(down) + 1])
    BY <1>2
  <2>2. i = Len(down) + 1
    BY <1>2, <2>1
  <2>3. down'[i] = r
    BY <1>2, <2>2
  <2> QED
    BY <2>3 DEF Says
<1>5. ~ \A i \in DOMAIN down' : ~Moves(down'[i])
  BY <1>2
<1> QED
  BY <1>3, <1>4, <1>5 DEF CacheInv, Moves

\* A record that is not about the item, and a step that sends none, change nothing of it.
LEMMA EmitElse ==
  ASSUME TypeOK, CacheInv, UNCHANGED <<installed, cache, missed, entry>>,
         down' = down \/ \E r \in Records : down' = Append(down, r) /\ ~Moves(r)
  PROVE  CacheInv'
<1>1. \A r : Says(r)' <=> Says(r)
  BY DEF Says
<1>2. PlannedOrders' /\ (CacheAgrees' <=> CacheAgrees)
  BY DEF CacheInv, PlannedOrders, CacheAgrees
<1>3. CASE down' = down
  BY <1>2, <1>3 DEF CacheInv, LastSays, Moves, Says
<1>4. CASE \E r \in Records : down' = Append(down, r) /\ ~Moves(r)
  <2> PICK r \in Records : down' = Append(down, r) /\ ~Moves(r)
    BY <1>4
  <2>1. /\ down \in Seq(Records) /\ Len(down) \in Nat /\ DOMAIN down = 1 .. Len(down)
        /\ DOMAIN down' = 1 .. Len(down) + 1 /\ down'[Len(down) + 1] = r
        /\ \A i \in DOMAIN down : i \in DOMAIN down' /\ down'[i] = down[i]
    BY DEF TypeOK
  <2>2. \A i \in DOMAIN down' : i \in DOMAIN down \/ ~Moves(down'[i])
    <3> DEFINE n == Len(down)
    <3>1. DOMAIN down = 1 .. n /\ DOMAIN down' = 1 .. n + 1 /\ n \in Nat
      BY <2>1
    <3>2. ~Moves(down'[n + 1])
      BY <2>1
    <3> HIDE DEF n
    <3>3. \A i \in 1 .. n + 1 : i \in 1 .. n \/ i = n + 1
      BY <3>1
    <3> QED
      BY <3>1, <3>2, <3>3
  <2>3. LastSays'
    <3> SUFFICES ASSUME NEW i \in DOMAIN down', Moves(down'[i]),
                        \A j \in DOMAIN down' : j > i => ~Moves(down'[j])
                 PROVE  Says(down[i])'
      BY DEF LastSays, Moves
    <3>1. i \in DOMAIN down /\ down'[i] = down[i]
      BY <2>1, <2>2
    <3>2. \A j \in DOMAIN down : j > i => ~Moves(down[j])
      BY <2>1
    <3>3. Says(down[i])
      BY <3>1, <3>2 DEF CacheInv, LastSays
    <3> QED
      BY <3>1, <3>3 DEF Says
  <2>4. (\A i \in DOMAIN down' : ~Moves(down'[i])) => \A i \in DOMAIN down : ~Moves(down[i])
    BY <2>1
  <2> QED
    BY <1>2, <2>3, <2>4 DEF CacheInv, Moves
<1> QED
  BY <1>3, <1>4

\* A dispatch that succeeds gives what the server had when it sent it, if its text can be
\* planned in one order.
LEMMA DispatchGives ==
  ASSUME ~Ambiguous(entry), PlannedOrders, NEW r \in Records, r.type = "Dispatch", Says(r),
         r.rtype = dispatch_record_type(r.family), Dispatched(r, Staged(r)) # Nothing
  PROVE  Dispatched(r, Staged(r)) = entry
<1>1. /\ r.obj \in DOMAIN Staged(r)
      /\ Staged(r)[r.obj] = IF r.inline THEN r.def ELSE installed[r.obj]
      /\ ~r.inline => r.obj \in DOMAIN installed
  BY DEF Dispatched, Staged
<1>2. CASE r \in AssemblyRecords
  BY <1>2, DispatchFields DEF AssemblyRecords
<1>3. CASE r \in SchemaRecords
  <2>1. r.inline /\ r.def = r.obj /\ r.obj[1] = "schema"
    BY <1>3 DEF SchemaRecords
  <2> QED
    BY <1>1, <2>1 DEF Dispatched, Says
<1>4. CASE \E t \in Texts : r \in DictionaryRecords(t)
  <2> PICK t \in Texts : r \in DictionaryRecords(t)
    BY <1>4
  <2>1. /\ r.obj = <<"dictionary", ToSet(t)>> /\ r.def \in SegmentOrders(t)
        /\ [k \in DOMAIN t |-> r.def[r.body[k]]] = t /\ DOMAIN r.body = DOMAIN t
    BY DEF DictionaryRecords
  <2>2. r.obj[1] = "dictionary" /\ r.obj[2] = ToSet(t)
    BY <2>1
  <2>5. entry = <<"text", t>>
    BY <2>1, <2>2 DEF Says
  <2>6. entry # Nothing /\ entry[1] = "text" /\ entry[2] = t
    BY <2>5 DEF Nothing
  <2>3. Staged(r)[r.obj] = r.def
    <3>1. CASE r.inline
      BY <1>1, <3>1
    <3>2. CASE ~r.inline
      <4> PICK u \in Texts : r.obj = <<"dictionary", ToSet(u)>> /\ installed[r.obj] \in SegmentOrders(u)
        BY <1>1, <2>2, <3>2 DEF PlannedOrders
      <4>1. ToSet(u) = ToSet(t)
        BY <2>2
      <4>2. installed[r.obj] = r.def
        BY <2>1, <2>6, <4>1 DEF Ambiguous
      <4> QED
        BY <1>1, <3>2, <4>2
    <3> QED
      BY <3>1, <3>2
  <2>4. Dispatched(r, Staged(r)) = <<"text", [k \in DOMAIN r.body |-> r.def[r.body[k]]]>>
    BY <2>2, <2>3 DEF Dispatched
  <2> QED
    BY <2>2, <2>4 DEF Says
<1> QED
  BY <1>2, <1>3, <1>4, DispatchKinds

\* Applying a record keeps the dictionaries as some text planned them.
LEMMA ApplyPlanned ==
  ASSUME PlannedOrders, NEW r \in Records,
         \/ r.type = "Dispatch" /\ ApplyDispatch(r)
         \/ r.type = "Retire" /\ ApplyRetire(r)
         \/ r.type = "Resync" /\ ApplyResync
         \/ r.type \in {"Exact", "Evict"} /\ ApplyData(r)
  PROVE  PlannedOrders'
<1>1. ASSUME r.type = "Dispatch" /\ ApplyDispatch(r)
      PROVE  \A o \in DOMAIN Staged(r) : o[1] = "dictionary" =>
               \E t \in Texts : o = <<"dictionary", ToSet(t)>> /\ Staged(r)[o] \in SegmentOrders(t)
  <2> SUFFICES ASSUME NEW o \in DOMAIN Staged(r), o[1] = "dictionary"
               PROVE  \E t \in Texts : o = <<"dictionary", ToSet(t)>> /\ Staged(r)[o] \in SegmentOrders(t)
    OBVIOUS
  <2>1. CASE r.inline /\ o = r.obj
    <3>1. Staged(r)[o] = r.def
      BY <2>1 DEF Staged
    <3>2. r \notin AssemblyRecords /\ r \notin SchemaRecords
      BY <2>1 DEF AssemblyRecords, SchemaRecords
    <3>3. PICK t \in Texts : r \in DictionaryRecords(t)
      BY <1>1, <3>2, DispatchKinds
    <3> QED
      BY <2>1, <3>1, <3>3 DEF DictionaryRecords
  <2>2. CASE ~ (r.inline /\ o = r.obj)
    <3>1. o \in DOMAIN installed /\ Staged(r)[o] = installed[o]
      BY <2>2 DEF Staged
    <3> QED
      BY <3>1 DEF PlannedOrders
  <2> QED
    BY <2>1, <2>2
<1>2. \/ installed' = installed
      \/ r.type = "Dispatch" /\ ApplyDispatch(r) /\ installed' = Staged(r)
      \/ installed' = Without(r.obj)
      \/ installed' = << >>
  BY DEF ApplyDispatch, ApplyRetire, ApplyResync, ApplyData
<1>3. CASE installed' = installed
  BY <1>3 DEF PlannedOrders
<1>4. CASE r.type = "Dispatch" /\ ApplyDispatch(r) /\ installed' = Staged(r)
  BY <1>1, <1>4 DEF PlannedOrders
<1>5. CASE installed' = Without(r.obj)
  <2>1. \A o \in DOMAIN installed' : o \in DOMAIN installed /\ installed'[o] = installed[o]
    BY <1>5 DEF Without
  <2> QED
    BY <2>1 DEF PlannedOrders
<1>6. CASE installed' = << >>
  <2>1. DOMAIN installed' = {}
    BY <1>6
  <2> QED
    BY <2>1 DEF PlannedOrders
<1> QED
  BY <1>2, <1>3, <1>4, <1>5, <1>6

\* Applying the last record about the item makes the two ends agree, and applying one
\* before it leaves the last one as it is.
LEMMA ApplyCaches ==
  ASSUME TypeOK, CacheInv, Apply
  PROVE  CacheInv'
<1> DEFINE r == Head(down)
<1>1. /\ down # << >> /\ down' = Tail(down) /\ down \in Seq(Records) /\ r \in Records
      /\ entry' = entry
  BY DEF TypeOK, Apply, server
<1>2. /\ Len(down) \in Nat /\ DOMAIN down = 1 .. Len(down) /\ 1 \in DOMAIN down
      /\ DOMAIN down' = 1 .. Len(down) - 1
      /\ \A i \in DOMAIN down' : i + 1 \in DOMAIN down /\ down'[i] = down[i + 1]
      /\ \A i \in DOMAIN down : i = 1 \/ i - 1 \in DOMAIN down'
      /\ r = down[1]
  BY <1>1
<1>3. \/ r.type = "Dispatch" /\ ApplyDispatch(r)
      \/ r.type = "Retire" /\ ApplyRetire(r)
      \/ r.type = "Resync" /\ ApplyResync
      \/ r.type \in {"Exact", "Evict"} /\ ApplyData(r)
  BY DEF Apply
<1> HIDE DEF r
<1>4. PlannedOrders'
  BY <1>1, <1>3, ApplyPlanned DEF CacheInv
<1>5. LastSays'
  <2> SUFFICES ASSUME NEW i \in DOMAIN down', Moves(down'[i]),
                      \A j \in DOMAIN down' : j > i => ~Moves(down'[j])
               PROVE  Says(down[i])'
    BY DEF LastSays, Moves
  <2>1. i + 1 \in DOMAIN down /\ down'[i] = down[i + 1]
    BY <1>2
  <2>2. \A j \in DOMAIN down : j > i + 1 => j - 1 \in DOMAIN down' /\ down'[j - 1] = down[j] /\ j - 1 > i
    BY <1>2
  <2>3. \A j \in DOMAIN down : j > i + 1 => ~Moves(down[j])
    BY <2>2
  <2>4. Says(down[i + 1])
    BY <2>1, <2>3 DEF CacheInv, LastSays
  <2> QED
    BY <1>1, <2>1, <2>4 DEF Says
<1>6. ASSUME \A i \in DOMAIN down' : ~Moves(down'[i]) PROVE CacheAgrees'
  <2>1. \A j \in DOMAIN down : j > 1 => j - 1 \in DOMAIN down' /\ down'[j - 1] = down[j]
    BY <1>2
  <2>2. \A j \in DOMAIN down : j > 1 => ~Moves(down[j])
    BY <1>6, <2>1
  <2>3. CASE ~Moves(r)
    <3>1. \A j \in DOMAIN down : ~Moves(down[j])
      BY <1>2, <2>2, <2>3
    <3>2. UNCHANGED <<cache, missed>>
      BY <1>3, <2>3 DEF Moves, ApplyRetire
    <3> QED
      BY <1>1, <3>1, <3>2 DEF CacheInv, CacheAgrees
  <2>4. CASE Moves(r)
    <3>1. Says(r)
      BY <1>2, <2>2, <2>4 DEF CacheInv, LastSays
    <3>2. CASE r.type = "Dispatch" /\ ApplyDispatch(r)
      <4>1. \/ missed' = TRUE
            \/ /\ r.rtype = dispatch_record_type(r.family) /\ Dispatched(r, Staged(r)) # Nothing
               /\ cache' = Dispatched(r, Staged(r))
        BY <3>2 DEF ApplyDispatch, Refused
      <4> QED
        BY <1>1, <3>1, <3>2, <4>1, DispatchGives DEF CacheInv, CacheAgrees
    <3>3. CASE r.type = "Resync" /\ ApplyResync
      BY <3>3 DEF ApplyResync, CacheAgrees
    <3>4. CASE r.type \in {"Exact", "Evict"} /\ ApplyData(r)
      BY <1>1, <3>1, <3>4 DEF ApplyData, Decoded, CacheAgrees, Says
    <3> QED
      BY <1>3, <2>4, <3>2, <3>3, <3>4 DEF Moves
  <2> QED
    BY <2>3, <2>4
<1> QED
  BY <1>4, <1>5, <1>6 DEF CacheInv, Moves

\* Every emission keeps the agreement.
LEMMA EmissionCaches ==
  ASSUME TypeOK, CacheInv,
         \/ EmitAssembly \/ EmitSchema \/ EmitDictionary \/ EmitExact \/ EmitEvict
         \/ EmitResync \/ EmitRetire
  PROVE  CacheInv'
<1> PICK n \in Numbers : n = emitted
  BY DEF TypeOK
<1>1. CASE EmitAssembly
  <2> PICK c \in {"assembly"} \X Assemblies :
             EmitDispatch(ObjectRecord(c, "PredictiveConfirm", "DirectState", c \notin confirmed,
                                       TRUE, emitted), c)
    BY <1>1 DEF EmitAssembly
  <2> PICK i \in BOOLEAN : i = (c \notin confirmed)
    OBVIOUS
  <2> DEFINE r == ObjectRecord(c, "PredictiveConfirm", "DirectState", i, TRUE, n)
  <2>1. r \in Records
    <3>1. r \in AssemblyRecords
      BY DEF AssemblyRecords, ObjectRecord
    <3> QED
      BY <3>1 DEF Records
  <2>2. Emit(r) /\ entry' = c
    BY DEF EmitDispatch
  <2>3. Moves(r) /\ Says(r)'
    BY <2>2 DEF Moves, Says, ObjectRecord
  <2> QED
    BY <2>1, <2>2, <2>3, EmitSays
<1>2. CASE EmitSchema
  <2> PICK c \in {"schema"} \X Schemas, f \in {"DirectState", "Hybrid"}, p \in BOOLEAN :
             EmitDispatch(ObjectRecord(c, "PredictiveCorrect", f, TRUE, p, emitted), c)
    BY <1>2 DEF EmitSchema
  <2> DEFINE r == ObjectRecord(c, "PredictiveCorrect", f, TRUE, p, n)
  <2>1. r \in Records
    <3>1. r \in SchemaRecords
      BY DEF SchemaRecords, ObjectRecord
    <3> QED
      BY <3>1 DEF Records
  <2>2. Emit(r) /\ entry' = c
    BY DEF EmitDispatch
  <2>3. Moves(r) /\ Says(r)'
    BY <2>2 DEF Moves, Says, ObjectRecord
  <2> QED
    BY <2>1, <2>2, <2>3, EmitSays
<1>3. CASE EmitDictionary
  <2> PICK t \in Texts : \E o \in SegmentOrders(t) :
             EmitDispatch(DictionaryRecord(t, o, dictionary_id_for_segments(o) \notin confirmed,
                                           emitted), <<"text", t>>)
    BY <1>3 DEF EmitDictionary
  <2> PICK o \in SegmentOrders(t) :
             EmitDispatch(DictionaryRecord(t, o, dictionary_id_for_segments(o) \notin confirmed,
                                           emitted), <<"text", t>>)
    OBVIOUS
  <2> PICK i \in BOOLEAN : i = (dictionary_id_for_segments(o) \notin confirmed)
    OBVIOUS
  <2> DEFINE r == DictionaryRecord(t, o, i, n)
  <2>1. r \in DictionaryRecords(t) /\ r \in Records
    BY DictionaryTyped DEF Records
  <2>2. Emit(r) /\ entry' = <<"text", t>>
    BY DEF EmitDispatch
  <2> HIDE DEF r
  <2>3. [k \in DOMAIN r.body |-> r.def[r.body[k]]] = t /\ r.type = "Dispatch"
    BY <2>1 DEF DictionaryRecords
  <2>4. r.obj[1] = "dictionary"
    BY <2>1 DEF DictionaryRecords
  <2>5. Moves(r) /\ Says(r)'
    BY <2>2, <2>3, <2>4 DEF Moves, Says
  <2> QED
    BY <2>1, <2>2, <2>5, EmitSays
<1>4. CASE EmitExact
  <2> PICK c \in Contents, h \in BOOLEAN :
        /\ Emit([type |-> "Exact", content |-> c, shared |-> h, seq |-> emitted])
        /\ entry' = c
    BY <1>4 DEF EmitExact
  <2> DEFINE r == [type |-> "Exact", content |-> c, shared |-> h, seq |-> n]
  <2>1. r \in Records
    BY DEF Records, OtherRecords
  <2>2. Moves(r) /\ Says(r)'
    BY DEF Moves, Says
  <2> QED
    BY <2>1, <2>2, EmitSays
<1>5. CASE EmitEvict \/ EmitResync
  <2> PICK y \in {"Evict", "Resync"} : Emit([type |-> y, seq |-> emitted])
    BY <1>5 DEF EmitEvict, EmitResync
  <2> DEFINE r == [type |-> y, seq |-> n]
  <2>1. r \in Records
    BY DEF Records, OtherRecords
  <2>2. Moves(r) /\ Says(r)'
    BY DEF Moves, Says
  <2> QED
    BY <2>1, <2>2, EmitSays
<1>6. CASE EmitRetire
  <2> DEFINE r == [type |-> "Retire", obj |-> Head(retires), seq |-> n]
  <2>1. Head(retires) \in Retirable
    BY <1>6 DEF EmitRetire, TypeOK
  <2>2. r \in Records
    BY <2>1 DEF Records, OtherRecords
  <2>3. down' = Append(down, r) /\ ~Moves(r) /\ UNCHANGED <<installed, cache, missed, entry>>
    BY <1>6 DEF EmitRetire, Emit, client, Moves
  <2> QED
    BY <2>2, <2>3, EmitElse
<1> QED
  BY <1>1, <1>2, <1>3, <1>4, <1>5, <1>6

\* Unless the last record of the item failed at the client, or the item is a text whose
\* dictionary id stands for more than one order, the item the client has after the last
\* record is the one the server has: whatever was defined inline or referred to, refused,
\* kept undecoded, retired, evicted or resynced before.
THEOREM CacheExact == Spec => []CacheIsExact
<1>1. Init => CacheInv
  <2> SUFFICES ASSUME Init PROVE CacheInv
    OBVIOUS
  <2>1. DOMAIN installed = {} /\ DOMAIN down = {} /\ cache = Nothing
    BY DEF Init
  <2> QED
    BY <2>1 DEF CacheInv, PlannedOrders, LastSays, CacheAgrees
<1>2. PeerInv /\ CacheInv /\ [Next]_vars => CacheInv'
  <2> SUFFICES ASSUME PeerInv, CacheInv, [Next]_vars PROVE CacheInv'
    OBVIOUS
  <2>1. TypeOK
    BY DEF PeerInv
  <2>2. CASE UNCHANGED vars
    BY <2>1, <2>2, EmitElse DEF vars, server, client
  <2>3. CASE Retire \/ ApplyAck \/ EmitAcks
    <3>1. UNCHANGED <<installed, cache, missed, entry, down>>
      BY <2>3 DEF Retire, ApplyAck, EmitAcks, server, client
    <3> QED
      BY <2>1, <3>1, EmitElse
  <2> QED
    BY <2>1, <2>2, <2>3, EmissionCaches, ApplyCaches DEF Next
<1>3. PeerInv /\ CacheInv => CacheIsExact
  <2> SUFFICES ASSUME CacheInv, down = << >> PROVE CacheAgrees
    BY DEF CacheIsExact, CacheAgrees
  <2>1. DOMAIN down = {}
    OBVIOUS
  <2> QED
    BY <2>1 DEF CacheInv
<1> QED
  BY <1>1, <1>2, <1>3, PeerInvariant, PTL DEF Spec

-----------------------------------------------------------------------------
(* Sources and caches *)

\* The sources are made from bytes by `prepare`.
PreparedFromBytes ==
  \A s \in Prepared :
    \E k, mime, label : \E raw \in Seq(0 .. 255) : s = prepare(k, mime, label, raw)

Keys == {KeyOf(s) : s \in Prepared}

\* The entries the hot map of objects may hold, and the results a call may have.
Held == {Entry(KeyOf(s), cached_chpmt_object(s)) : s \in Prepared}

Answers ==
  {NoResult} \union {Err(s) : s \in Prepared}
    \union {Ok(at[1], cached_chpmt_object(at[2]), at[3]) :
              at \in {x \in Prepared \X Prepared \X BOOLEAN : KeyOf(x[1]) = KeyOf(x[2])}}

\* The file of an object, written at time t.
FileOf(s, t) ==
  [whole |-> TRUE, len |-> s.descriptor.byte_len, value |-> cached_chpmt_object(s), at |-> t]

RightFile(key, file) ==
  file = TornFile \/ \E s \in Prepared : \E t \in Nat : key = KeyOf(s) /\ file = FileOf(s, t)

\* Where a worker may be, and what it holds there.
InCall == {"exists", "read", "store", "hot", "open", "prune", "get", "put"}

Storing(pc, s, n) == [pc |-> pc, source |-> s, previous |-> n]

Scanning(s, n) == [pc |-> "scan", source |-> s, total |-> n]

Removing(s, n, todo) == [pc |-> "remove", source |-> s, total |-> n, todo |-> todo]

Entries == [file : Keys, len : Nat]

WorkerOK(p) ==
  \/ \E r \in Answers : p = Idle(r)
  \/ \E s \in Prepared :
       \/ \E pc \in InCall : p = At(pc, s)
       \/ \E n \in Nat :
            \/ p = Storing("write", s, n)
            \/ p = Storing("count", s, n)
            \/ p = Scanning(s, n)
            \/ \E todo \in Seq(Entries) : p = Removing(s, n, todo)

\* The points of a call of a server's cache and of a browser's.
Places(k) ==
  IF k = "web" THEN {"idle", "get", "store", "put"}
  ELSE {"idle", "exists", "read", "store", "hot", "open", "write", "count", "prune", "scan", "remove"}

\* Every object file can be decoded.
Clean(mat) == \A f \in DOMAIN mat : mat[f].whole

\* The inductive invariant: whatever is held under a key, in memory, on disk or
\* by a worker, is the object of a source with that key.
CachesInv ==
  /\ cacheOf \in [Workers -> Caches] /\ kind \in {"server", "web"}
  /\ clock \in Nat /\ restarts \in Nat
  /\ hot_objects \in [Caches -> Seq(Held)]
  /\ counted \in [Caches -> Nat]
  /\ DOMAIN worker = Workers
  /\ \A w \in Workers : WorkerOK(worker[w]) /\ worker[w].pc \in Places(kind)
  /\ kind = "web" => Clean(material)
  /\ IsFiniteSet(DOMAIN material)
  /\ \A key \in DOMAIN material : RightFile(key, material[key])

\* The files that are left to remove are those of the directory.
Listed(mat, todo) ==
  /\ \A i \in DOMAIN todo : todo[i].file \in DOMAIN mat /\ todo[i].len = mat[todo[i].file].len
  /\ \A i, j \in DOMAIN todo : todo[i].file = todo[j].file => i = j
  /\ \A f \in DOMAIN mat : \E i \in DOMAIN todo : todo[i].file = f

SizeOf(mat) == MapThenSumSet(LAMBDA id : mat[id].len, DOMAIN mat)

\* Where the one worker is, for what its cache has counted and the directory holds.
SoloOf(p, count, mat) ==
  \/ /\ p.pc = "idle" /\ (p.result.done => p.result.ok)
     /\ Clean(mat) /\ count = SizeOf(mat) /\ count <= MaxBytes
  \/ /\ p.pc \in {"exists", "store", "hot"}
     /\ Clean(mat) /\ count = SizeOf(mat) /\ count <= MaxBytes
  \/ /\ p.pc = "read" /\ KeyOf(p.source) \in DOMAIN mat
     /\ Clean(mat) /\ count = SizeOf(mat) /\ count <= MaxBytes
  \/ /\ p.pc = "open" /\ ~InMemoryOnly
     /\ Clean(mat) /\ count = SizeOf(mat)
  \/ /\ p.pc = "write" /\ ~InMemoryOnly
     /\ KeyOf(p.source) \in DOMAIN mat /\ mat[KeyOf(p.source)] = TornFile
     /\ \A f \in DOMAIN mat : f # KeyOf(p.source) => mat[f].whole
     /\ count = SizeOf(mat) + p.previous
  \/ /\ p.pc = "count" /\ ~InMemoryOnly
     /\ Clean(mat) /\ p.previous <= count
     /\ count - p.previous + p.source.descriptor.byte_len = SizeOf(mat)
  \/ /\ p.pc = "prune" /\ ~InMemoryOnly
     /\ Clean(mat) /\ count = SizeOf(mat)
  \/ /\ p.pc = "scan" /\ ~InMemoryOnly
     /\ Clean(mat) /\ p.total = SizeOf(mat)
  \/ /\ p.pc = "remove" /\ ~InMemoryOnly
     /\ Clean(mat) /\ p.total = SizeOf(mat) /\ Listed(mat, p.todo)

\* The inductive invariant of a server's cache that has the directory to itself:
\* at each point of a call the counter, what the worker remembers and the files agree,
\* and once the directory was removed nothing is put there.
AloneInv ==
  /\ IsFiniteSet(users) /\ users \subseteq Workers
  /\ kind = "server" /\ Alone =>
       /\ directories =>
            /\ \A w \in Workers \ users : worker[w] = Idle(NoResult)
            /\ users = {} => DOMAIN material = {} /\ \A c \in Caches : counted[c] = 0
            /\ \A w \in users : SoloOf(worker[w], counted[cacheOf[w]], material)
       /\ ~directories => DOMAIN material = {}

(***************************************************************************)
(* Sums over a finite set.                                                 *)
(***************************************************************************)
\* A sum of len over the subsets of S, that any element may be taken off from.
Adds(len, S, h) ==
  /\ h \in [SUBSET S -> Nat]
  /\ h[{}] = 0
  /\ \A s \in SUBSET S : \A x \in s : h[s] = len[x] + h[s \ {x}]

\* A set of subsets that a finite set is reached in, element by element, has it.
LEMMA SubsetInduction ==
  ASSUME NEW S, IsFiniteSet(S), NEW G,
         {} \in G, \A s \in SUBSET S : \A x \in s : s \ {x} \in G => s \in G
  PROVE  S \in G
<1> DEFINE N == {n \in Nat : \A s \in SUBSET S : Cardinality(s) = n => s \in G}
<1>1. \A s \in SUBSET S : IsFiniteSet(s) /\ Cardinality(s) \in Nat
  BY FS_Subset, FS_CardinalityType
<1>2. 0 \in N
  BY <1>1, FS_EmptySet
<1>3. ASSUME NEW n \in N PROVE n + 1 \in N
  <2>1. ASSUME NEW s \in SUBSET S, Cardinality(s) = n + 1 PROVE s \in G
    <3>1. PICK x \in s : TRUE
      BY <2>1, <1>1, FS_EmptySet
    <3>2. Cardinality(s \ {x}) = n
      BY <2>1, <1>1, FS_RemoveElement
    <3>3. s \ {x} \in G
      BY <3>2
    <3>4. QED
      BY <3>3
  <2>2. QED
    BY <2>1
<1>4. Nat \subseteq N
  <2> HIDE DEF N
  <2>1. QED
    BY <1>2, <1>3, NatSetInduction
<1>5. Cardinality(S) \in N
  BY <1>1, <1>4
<1>6. QED
  BY <1>5

\* Such a sum exists.
LEMMA AddsExists ==
  ASSUME NEW S, IsFiniteSet(S), NEW len \in [S -> Nat]
  PROVE  \E h : Adds(len, S, h)
<1> DEFINE Good(s) == \E h : Adds(len, s, h)
           G == {s \in SUBSET S : Good(s)}
<1>1. Good({})
  <2> DEFINE h == [s \in SUBSET {} |-> 0]
  <2>1. Adds(len, {}, h)
    BY DEF Adds
  <2>2. QED
    BY <2>1
<1>2. ASSUME NEW s \in SUBSET S, NEW y \in s, Good(s \ {y})
      PROVE  Good(s)
  <2>1. PICK g : Adds(len, s \ {y}, g)
    BY <1>2
  <2> DEFINE h == [t \in SUBSET s |-> IF y \in t THEN len[y] + g[t \ {y}] ELSE g[t]]
  <2>2. len[y] \in Nat
    OBVIOUS
  <2>3. \A t \in SUBSET s : t \ {y} \in SUBSET (s \ {y})
    OBVIOUS
  <2>4. \A t \in SUBSET s : y \notin t => t \in SUBSET (s \ {y})
    OBVIOUS
  <2>5. h \in [SUBSET s -> Nat] /\ h[{}] = 0
    BY <2>1, <2>2, <2>3, <2>4 DEF Adds
  <2>6. ASSUME NEW t \in SUBSET s, NEW x \in t
        PROVE  h[t] = len[x] + h[t \ {x}]
    <3>1. t \ {x} \in SUBSET s
      OBVIOUS
    <3>2. CASE x = y
      <4>1. h[t] = len[y] + g[t \ {y}] /\ h[t \ {x}] = g[t \ {y}]
        BY <3>1, <3>2
      <4>2. QED
        BY <4>1, <3>2
    <3>3. CASE y \notin t
      <4>1. h[t] = g[t] /\ h[t \ {x}] = g[t \ {x}] /\ t \in SUBSET (s \ {y})
        BY <3>1, <3>3
      <4>2. QED
        BY <4>1, <2>1 DEF Adds
    <3>4. CASE x # y /\ y \in t
      <4> DEFINE rest == (t \ {y}) \ {x}
      <4>1. h[t] = len[y] + g[t \ {y}] /\ h[t \ {x}] = len[y] + g[(t \ {x}) \ {y}]
        BY <3>1, <3>4
      <4>2. (t \ {x}) \ {y} = rest /\ t \ {y} \in SUBSET (s \ {y}) /\ x \in t \ {y}
        BY <3>4
      <4>3. g[t \ {y}] = len[x] + g[rest]
        BY <4>2, <2>1 DEF Adds
      <4>4. g[rest] \in Nat /\ len[x] \in Nat /\ len[y] \in Nat
        BY <4>2, <2>1 DEF Adds
      <4>5. h[t \ {x}] = len[y] + g[rest]
        BY <4>1, <4>2
      <4> HIDE DEF rest, h
      <4>6. QED
        BY <4>1, <4>3, <4>4, <4>5
    <3>5. QED
      BY <3>2, <3>3, <3>4
  <2> HIDE DEF h
  <2>7. Adds(len, s, h)
    BY <2>5, <2>6 DEF Adds
  <2>8. QED
    BY <2>7
<1> HIDE DEF Good
<1>3. {} \in G /\ \A s \in SUBSET S : \A x \in s : s \ {x} \in G => s \in G
  BY <1>1, <1>2
<1>4. S \in G
  <2> HIDE DEF G
  <2>1. QED
    BY <1>3, SubsetInduction
<1>5. QED
  BY <1>4 DEF Good

\* The sum over the directory is that sum.
LEMMA SizeAdds ==
  ASSUME NEW mat, IsFiniteSet(DOMAIN mat), \A f \in DOMAIN mat : mat[f].len \in Nat,
         NEW h, Adds([f \in DOMAIN mat |-> mat[f].len], DOMAIN mat, h)
  PROVE  SizeOf(mat) = h[DOMAIN mat]
<1> DEFINE S == DOMAIN mat
           Takes(it) == it = [s \in SUBSET S |->
                          IF s = {} THEN 0
                          ELSE mat[CHOOSE x \in s : TRUE].len + it[s \ {CHOOSE x \in s : TRUE}]]
           iter == CHOOSE it : Takes(it)
           G == {s \in SUBSET S : iter[s] = h[s]}
<1>1. SizeOf(mat) = iter[S]
  BY DEF SizeOf, MapThenSumSet, MapThenFoldSet
<1>2. Takes(h)
  <2> DEFINE k == [s \in SUBSET S |-> IF s = {} THEN 0
                     ELSE mat[CHOOSE x \in s : TRUE].len + h[s \ {CHOOSE x \in s : TRUE}]]
  <2>1. ASSUME NEW s \in SUBSET S PROVE h[s] = k[s]
    <3>1. CASE s = {}
      BY <3>1 DEF Adds
    <3>2. CASE s # {}
      <4>1. (CHOOSE x \in s : TRUE) \in s
        BY <3>2
      <4>2. QED
        BY <4>1, <3>2 DEF Adds
    <3>3. QED
      BY <3>1, <3>2
  <2>2. h \in [SUBSET S -> Nat]
    BY DEF Adds
  <2>3. h = [s \in SUBSET S |-> h[s]]
    BY <2>2
  <2> HIDE DEF S
  <2>4. QED
    BY <2>1, <2>3
<1>3. Takes(iter)
  <2> HIDE DEF Takes
  <2>1. QED
    BY <1>2, Zenon
<1>4. {} \in G
  BY <1>2, <1>3
<1>5. ASSUME NEW s \in SUBSET S, s # {}, NEW n \in Nat, Cardinality(s) = n + 1,
             \A t \in SUBSET S : Cardinality(t) = n => t \in G
      PROVE  s \in G
  <2> DEFINE x == CHOOSE x \in s : TRUE
  <2>1. x \in s
    BY <1>5
  <2>2. IsFiniteSet(s)
    BY FS_Subset
  <2>3. iter[s] = mat[x].len + iter[s \ {x}]
    BY <1>3, <1>5
  <2>4. h[s] = mat[x].len + h[s \ {x}]
    BY <1>2, <1>5
  <2> HIDE DEF x, iter, Takes
  <2>5. Cardinality(s \ {x}) = n
    <3>1. Cardinality(s \ {x}) = Cardinality(s) - 1
      BY <2>1, <2>2, FS_RemoveElement
    <3>2. Cardinality(s) = n + 1
      BY <1>5
    <3>3. QED
      BY <3>1, <3>2
  <2>6. iter[s \ {x}] = h[s \ {x}]
    BY <1>5, <2>5
  <2>7. QED
    BY <2>3, <2>4, <2>6
<1> DEFINE N == {n \in Nat : \A s \in SUBSET S : Cardinality(s) = n => s \in G}
<1>6. \A s \in SUBSET S : IsFiniteSet(s) /\ Cardinality(s) \in Nat
  BY FS_Subset, FS_CardinalityType
<1>7. 0 \in N
  <2> HIDE DEF G, S
  <2>1. QED
    BY <1>4, <1>6, FS_EmptySet
<1>8. ASSUME NEW n \in N PROVE n + 1 \in N
  <2> HIDE DEF G, S
  <2>1. ASSUME NEW s \in SUBSET S, Cardinality(s) = n + 1 PROVE s \in G
    BY <1>5, <1>6, <2>1, FS_EmptySet
  <2>2. QED
    BY <2>1
<1>9. Nat \subseteq N
  <2> HIDE DEF N
  <2>1. QED
    BY <1>7, <1>8, NatSetInduction
<1>10. S \in G
  <2> HIDE DEF G, S
  <2>1. QED
    BY <1>6, <1>9
<1>11. QED
  BY <1>1, <1>10

Sizes(mat) == IsFiniteSet(DOMAIN mat) /\ \A f \in DOMAIN mat : mat[f].len \in Nat

\* The directory's size is the file's and the others'.
LEMMA SizeWithout ==
  ASSUME NEW mat, Sizes(mat), NEW id \in DOMAIN mat,
         NEW rest, DOMAIN rest = DOMAIN mat \ {id}, \A f \in DOMAIN rest : rest[f].len = mat[f].len
  PROVE  /\ SizeOf(mat) = mat[id].len + SizeOf(rest)
         /\ SizeOf(rest) \in Nat /\ mat[id].len \in Nat /\ Sizes(rest)
<1> DEFINE len == [f \in DOMAIN mat |-> mat[f].len]
           less == [f \in DOMAIN rest |-> rest[f].len]
<1>1. IsFiniteSet(DOMAIN rest) /\ \A f \in DOMAIN rest : rest[f].len \in Nat
  BY FS_RemoveElement DEF Sizes
<1>2. PICK h : Adds(len, DOMAIN mat, h)
  BY AddsExists DEF Sizes
<1> DEFINE g == [s \in SUBSET (DOMAIN rest) |-> h[s]]
<1>3. Adds(less, DOMAIN rest, g)
  <2>1. \A s \in SUBSET (DOMAIN rest) : s \in SUBSET (DOMAIN mat) /\ g[s] = h[s]
    OBVIOUS
  <2>2. g \in [SUBSET (DOMAIN rest) -> Nat] /\ g[{}] = 0
    BY <1>2, <2>1 DEF Adds
  <2>3. ASSUME NEW s \in SUBSET (DOMAIN rest), NEW x \in s
        PROVE  g[s] = less[x] + g[s \ {x}]
    <3>1. h[s] = len[x] + h[s \ {x}]
      BY <1>2, <2>1 DEF Adds
    <3>2. len[x] = less[x]
      OBVIOUS
    <3>3. QED
      BY <2>1, <3>1, <3>2
  <2> HIDE DEF g, less
  <2>4. QED
    BY <2>2, <2>3 DEF Adds
<1>4. SizeOf(mat) = h[DOMAIN mat]
  BY <1>2, SizeAdds DEF Sizes
<1>5. SizeOf(rest) = h[DOMAIN rest]
  <2>1. g[DOMAIN rest] = h[DOMAIN rest]
    OBVIOUS
  <2> HIDE DEF g
  <2>2. SizeOf(rest) = g[DOMAIN rest]
    BY <1>1, <1>3, SizeAdds
  <2>3. QED
    BY <2>1, <2>2
<1>6. h[DOMAIN mat] = mat[id].len + h[DOMAIN rest]
  <2>1. h[DOMAIN mat] = len[id] + h[DOMAIN mat \ {id}]
    BY <1>2 DEF Adds
  <2>2. QED
    BY <2>1
<1>7. h[DOMAIN rest] \in Nat
  BY <1>2 DEF Adds
<1>8. QED
  BY <1>1, <1>4, <1>5, <1>6, <1>7 DEF Sizes

\* An empty directory holds nothing, and the size is a number.
LEMMA SizeEmpty ==
  ASSUME NEW mat, DOMAIN mat = {}
  PROVE  SizeOf(mat) = 0 /\ Sizes(mat)
<1>1. Sizes(mat)
  BY FS_EmptySet DEF Sizes
<1>2. PICK h : Adds([f \in DOMAIN mat |-> mat[f].len], DOMAIN mat, h)
  BY <1>1, AddsExists DEF Sizes
<1>3. SizeOf(mat) = h[DOMAIN mat]
  BY <1>1, <1>2, SizeAdds DEF Sizes
<1>4. QED
  BY <1>1, <1>2, <1>3 DEF Adds

LEMMA SizeType ==
  ASSUME NEW mat, Sizes(mat)
  PROVE  SizeOf(mat) \in Nat
<1>1. PICK h : Adds([f \in DOMAIN mat |-> mat[f].len], DOMAIN mat, h)
  BY AddsExists DEF Sizes
<1>2. SizeOf(mat) = h[DOMAIN mat]
  BY <1>1, SizeAdds DEF Sizes
<1>3. QED
  BY <1>1, <1>2 DEF Adds

\* Writing a file, over the one with its name or beside the others ...
LEMMA SizePut ==
  ASSUME NEW mat, Sizes(mat), NEW id, NEW file, file.len \in Nat
  PROVE  /\ Sizes(Put(mat, id, file))
         /\ SizeOf(Put(mat, id, file)) + (IF id \in DOMAIN mat THEN mat[id].len ELSE 0)
              = SizeOf(mat) + file.len
<1> DEFINE new == Put(mat, id, file)
<1>1. DOMAIN new = DOMAIN mat \union {id} /\ new[id] = file
  BY DEF Put
<1>2. \A f \in DOMAIN mat : f # id => new[f] = mat[f]
  BY DEF Put
<1>3. Sizes(new)
  <2>1. IsFiniteSet(DOMAIN new)
    BY <1>1, FS_AddElement DEF Sizes
  <2> HIDE DEF new
  <2>2. QED
    BY <1>1, <1>2, <2>1 DEF Sizes
<1>4. SizeOf(mat) \in Nat /\ SizeOf(new) \in Nat
  <2> HIDE DEF new
  <2>1. QED
    BY <1>3, SizeType
<1>5. CASE id \in DOMAIN mat
  <2> DEFINE rest == [f \in DOMAIN mat \ {id} |-> mat[f]]
  <2>1. DOMAIN rest = DOMAIN mat \ {id} /\ \A f \in DOMAIN rest : rest[f] = mat[f]
    OBVIOUS
  <2> HIDE DEF rest, new
  <2>2. SizeOf(mat) = mat[id].len + SizeOf(rest) /\ SizeOf(rest) \in Nat /\ mat[id].len \in Nat
    BY <1>5, <2>1, SizeWithout
  <2>3. /\ id \in DOMAIN new
        /\ DOMAIN rest = DOMAIN new \ {id} /\ \A f \in DOMAIN rest : rest[f].len = new[f].len
    BY <1>1, <1>2, <2>1
  <2>4. SizeOf(new) = new[id].len + SizeOf(rest)
    BY <1>3, <2>3, SizeWithout
  <2>5. SizeOf(new) = file.len + SizeOf(rest)
    BY <1>1, <2>4
  <2>6. SizeOf(new) + mat[id].len = SizeOf(mat) + file.len
    BY <2>2, <2>5
  <2>7. QED
    BY <1>3, <1>5, <2>6 DEF new
<1>6. CASE id \notin DOMAIN mat
  <2> HIDE DEF new
  <2>1. /\ id \in DOMAIN new
        /\ DOMAIN mat = DOMAIN new \ {id} /\ \A f \in DOMAIN mat : mat[f].len = new[f].len
    BY <1>1, <1>2, <1>6
  <2>2. SizeOf(new) = new[id].len + SizeOf(mat)
    BY <1>3, <2>1, SizeWithout
  <2>3. SizeOf(new) + 0 = SizeOf(mat) + file.len
    BY <1>1, <1>4, <2>2
  <2>4. QED
    BY <1>3, <1>6, <2>3 DEF new
<1>7. QED
  BY <1>5, <1>6

\* ... and removing one.
LEMMA SizeDelete ==
  ASSUME NEW mat, Sizes(mat), NEW id \in DOMAIN mat
  PROVE  /\ Sizes(Delete(mat, id))
         /\ mat[id].len \in Nat /\ SizeOf(Delete(mat, id)) \in Nat
         /\ SizeOf(mat) = mat[id].len + SizeOf(Delete(mat, id))
<1> DEFINE rest == Delete(mat, id)
<1>1. DOMAIN rest = DOMAIN mat \ {id} /\ \A f \in DOMAIN rest : rest[f].len = mat[f].len
  BY DEF Delete
<1> HIDE DEF rest
<1>2. Sizes(rest) /\ SizeOf(rest) \in Nat /\ mat[id].len \in Nat /\ SizeOf(mat) = mat[id].len + SizeOf(rest)
  BY <1>1, SizeWithout
<1>3. QED
  BY <1>2 DEF rest

(***************************************************************************)
(* Sources and the maps.                                                   *)
(***************************************************************************)
\* The canonical bytes are bytes, so that a descriptor's length is a number.
LEMMA CanonicalType ==
  ASSUME NEW raw \in Seq(0 .. 255)
  PROVE  canonicalize_text_bytes(raw) \in Seq(0 .. 255)
<1> DEFINE parts == [i \in DOMAIN raw |->
              IF raw[i] # CR THEN <<raw[i]>>
              ELSE IF i < Len(raw) /\ raw[i + 1] = LF THEN << >> ELSE <<LF>>]
<1>1. ASSUME NEW i \in DOMAIN raw PROVE parts[i] \in Seq(0 .. 255)
  <2>1. raw[i] \in 0 .. 255 /\ LF \in 0 .. 255
    <3>1. LF \in 0 .. 255
      BY DEF LF
    <3>2. i \in 1 .. Len(raw) /\ raw \in Seq(0 .. 255)
      OBVIOUS
    <3> HIDE DEF parts
    <3>3. raw[i] \in 0 .. 255
      BY <3>2, ElementOfSeq
    <3>4. QED
      BY <3>1, <3>3
  <2>2. \A b \in 0 .. 255 : <<b>> \in Seq(0 .. 255)
    OBVIOUS
  <2>3. << >> \in Seq(0 .. 255)
    OBVIOUS
  <2>4. QED
    BY <2>1, <2>2, <2>3
<1>2. DOMAIN raw = 1 .. Len(raw) /\ Len(raw) \in Nat
  OBVIOUS
<1>3. parts \in Seq(Seq(0 .. 255))
  <2>1. parts \in [1 .. Len(raw) -> Seq(0 .. 255)]
    BY <1>1, <1>2
  <2> HIDE DEF parts
  <2>2. \A S : parts \in [1 .. Len(raw) -> S] => parts \in Seq(S)
    BY <1>2
  <2>3. QED
    BY <2>1, <2>2
<1>4. canonicalize_text_bytes(raw) = FlattenSeq(parts)
  BY DEF canonicalize_text_bytes
<1> HIDE DEF parts
<1>5. QED
  BY <1>3, <1>4, FlattenType

LEMMA SourceFacts ==
  ASSUME PreparedFromBytes, NEW s \in Prepared
  PROVE  /\ s.descriptor.byte_len \in Nat
         /\ s.descriptor.source_hash[3] = s.canonical_bytes
<1>1. PICK k, mime, label : \E raw \in Seq(0 .. 255) : s = prepare(k, mime, label, raw)
  BY DEF PreparedFromBytes
<1>2. PICK raw \in Seq(0 .. 255) : s = prepare(k, mime, label, raw)
  BY <1>1
<1> DEFINE bytes == IF k = Text THEN canonicalize_text_bytes(raw) ELSE raw
<1>3. bytes \in Seq(0 .. 255)
  BY CanonicalType
<1>4. Len(bytes) \in Nat
  BY <1>3, LenProperties
<1>5. s.descriptor.byte_len = Len(bytes) /\ s.canonical_bytes = bytes
  BY <1>2 DEF prepare
<1>6. s.descriptor.source_hash[3] = bytes
  BY <1>2 DEF prepare, compute_source_hash
<1>7. QED
  BY <1>4, <1>5, <1>6

\* Sources with one key have one content.
LEMMA KeyTellsContent ==
  ASSUME PreparedFromBytes, NEW s \in Prepared, NEW t \in Prepared, KeyOf(s) = KeyOf(t)
  PROVE  s.canonical_bytes = t.canonical_bytes /\ s.descriptor.source_hash = t.descriptor.source_hash
<1>1. KeyOf(s)[1] = s.descriptor.source_hash /\ KeyOf(t)[1] = t.descriptor.source_hash
  BY DEF KeyOf, storage_key, object_cache_key_from_bytes
<1>2. QED
  BY <1>1, SourceFacts

LEMMA InsertHeld ==
  ASSUME NEW map \in Seq(Held), NEW s \in Prepared
  PROVE  map_insert(map, KeyOf(s), cached_chpmt_object(s)) \in Seq(Held)
<1> DEFINE e == Entry(KeyOf(s), cached_chpmt_object(s))
           changed == [i \in DOMAIN map |-> IF map[i].id = KeyOf(s) THEN e ELSE map[i]]
<1>1. e \in Held
  BY DEF Held
<1>2. Append(map, e) \in Seq(Held)
  BY <1>1
<1>3. changed \in Seq(Held)
  <2>1. \A i \in DOMAIN map : changed[i] \in Held
    BY <1>1
  <2>2. changed \in [1 .. Len(map) -> Held]
    BY <2>1
  <2> HIDE DEF changed
  <2>3. QED
    BY <2>2
<1>4. QED
  BY <1>2, <1>3 DEF map_insert

LEMMA EvictHeld ==
  ASSUME NEW map \in Seq(Held)
  PROVE  evict_if_over_capacity(map) \in Seq(Held)
<1>1. ASSUME Len(map) > MaxHot PROVE SubSeq(map, Len(map) - MaxHot + 1, Len(map)) \in Seq(Held)
  <2>1. MaxHot \in Nat /\ Len(map) \in Nat
    BY CacheBounds
  <2>2. Len(map) - MaxHot + 1 \in 1 .. Len(map) + 1
    BY <1>1, <2>1, CacheBounds
  <2>3. QED
    BY <2>1, <2>2, SubSeqProperties
<1>2. QED
  BY <1>1 DEF evict_if_over_capacity

LEMMA RemoveHeld ==
  ASSUME NEW map \in Seq(Held), NEW id
  PROVE  map_remove(map, id) \in Seq(Held)
<1>1. ASSUME NEW i \in DOMAIN map PROVE RemoveAt(map, i) \in Seq(Held)
  <2>1. i \in 1 .. Len(map) /\ Len(map) \in Nat
    OBVIOUS
  <2>2. SubSeq(map, 1, i - 1) \in Seq(Held) /\ SubSeq(map, i + 1, Len(map)) \in Seq(Held)
    BY <2>1, SubSeqProperties
  <2>3. QED
    BY <2>2, ConcatProperties DEF RemoveAt
<1>2. CASE Find(map, id) = {}
  BY <1>2 DEF map_remove
<1>3. CASE Find(map, id) # {}
  <2>1. (CHOOSE i \in Find(map, id) : TRUE) \in DOMAIN map
    BY <1>3 DEF Find
  <2>2. map_remove(map, id) = RemoveAt(map, CHOOSE i \in Find(map, id) : TRUE)
    BY <1>3 DEF map_remove
  <2>3. QED
    BY <1>1, <2>1, <2>2
<1>4. QED
  BY <1>2, <1>3

LEMMA WebInsertHeld ==
  ASSUME NEW map \in Seq(Held), NEW s \in Prepared,
         NEW new \in insert_object_memory(map, KeyOf(s), cached_chpmt_object(s))
  PROVE  new \in Seq(Held)
<1>1. CASE Len(map) >= MaxHot
  <2>1. PICK i \in DOMAIN map : new = map_insert(map_remove(map, map[i].id), KeyOf(s), cached_chpmt_object(s))
    BY <1>1 DEF insert_object_memory
  <2>2. map_remove(map, map[i].id) \in Seq(Held)
    BY RemoveHeld
  <2>3. QED
    BY <2>1, <2>2, InsertHeld
<1>2. CASE ~(Len(map) >= MaxHot)
  BY <1>2, InsertHeld DEF insert_object_memory
<1>3. QED
  BY <1>1, <1>2

LEMMA ValueHeld ==
  ASSUME NEW map \in Seq(Held), NEW id, Find(map, id) # {}
  PROVE  \E s \in Prepared : id = KeyOf(s) /\ ValueOf(map, id) = cached_chpmt_object(s)
<1> DEFINE i == CHOOSE i \in DOMAIN map : map[i].id = id
<1>1. i \in DOMAIN map /\ map[i].id = id
  BY DEF Find
<1>2. map[i] \in Held
  BY <1>1
<1>3. ValueOf(map, id) = map[i].value
  BY DEF ValueOf
<1> HIDE DEF i
<1>4. QED
  BY <1>1, <1>2, <1>3 DEF Held, Entry

(***************************************************************************)
(* The invariants.                                                         *)
(***************************************************************************)
\* What a worker holds, by where it is.
LEMMA InCallHolds ==
  ASSUME NEW p, WorkerOK(p), p.pc \in InCall
  PROVE  p.source \in Prepared /\ p = At(p.pc, p.source)
BY DEF WorkerOK, InCall, At, Idle, Storing, Scanning, Removing

LEMMA StoringHolds ==
  ASSUME NEW p, WorkerOK(p), p.pc \in {"write", "count"}
  PROVE  p.source \in Prepared /\ p.previous \in Nat /\ p = Storing(p.pc, p.source, p.previous)
BY DEF WorkerOK, InCall, At, Idle, Storing, Scanning, Removing

LEMMA ScanningHolds ==
  ASSUME NEW p, WorkerOK(p), p.pc = "scan"
  PROVE  p.source \in Prepared /\ p.total \in Nat /\ p = Scanning(p.source, p.total)
BY DEF WorkerOK, InCall, At, Idle, Storing, Scanning, Removing

LEMMA RemovingHolds ==
  ASSUME NEW p, WorkerOK(p), p.pc = "remove"
  PROVE  /\ p.source \in Prepared /\ p.total \in Nat /\ p.todo \in Seq(Entries)
         /\ p = Removing(p.source, p.total, p.todo)
BY DEF WorkerOK, InCall, At, Idle, Storing, Scanning, Removing

LEMMA IdleHolds ==
  ASSUME NEW p, WorkerOK(p), p.pc = "idle"
  PROVE  p.result \in Answers /\ p = Idle(p.result)
BY DEF WorkerOK, InCall, At, Idle, Storing, Scanning, Removing

\* Where a worker may go.
LEMMA MayBe ==
  ASSUME NEW s \in Prepared
  PROVE  /\ WorkerOK(Idle(NoResult))
         /\ WorkerOK(Idle(Err(s)))
         /\ \A t \in Prepared : \A hit \in BOOLEAN :
              KeyOf(s) = KeyOf(t) => WorkerOK(Idle(Ok(s, cached_chpmt_object(t), hit)))
         /\ \A pc \in InCall : WorkerOK(At(pc, s))
         /\ \A n \in Nat :
              /\ WorkerOK(Storing("write", s, n)) /\ WorkerOK(Storing("count", s, n))
              /\ WorkerOK(Scanning(s, n))
              /\ \A todo \in Seq(Entries) : WorkerOK(Removing(s, n, todo))
<1>1. NoResult \in Answers /\ Err(s) \in Answers
  BY DEF Answers
<1>2. ASSUME NEW t \in Prepared, NEW hit \in BOOLEAN, KeyOf(s) = KeyOf(t)
      PROVE  Ok(s, cached_chpmt_object(t), hit) \in Answers
  <2>1. <<s, t, hit>> \in {x \in Prepared \X Prepared \X BOOLEAN : KeyOf(x[1]) = KeyOf(x[2])}
    BY <1>2
  <2>2. QED
    BY <2>1 DEF Answers
<1>3. QED
  BY <1>1, <1>2 DEF WorkerOK

\* One worker goes somewhere.
LEMMA Goes ==
  ASSUME CachesInv, NEW w \in Workers, NEW p, WorkerOK(p), Go(w, p)
  PROVE  /\ DOMAIN worker' = Workers
         /\ \A v \in Workers : WorkerOK(worker'[v])
         /\ worker'[w] = p
         /\ \A v \in Workers : v # w => worker'[v] = worker[v]
BY DEF CachesInv, Go

\* A file is put where it belongs.
LEMMA PutsRight ==
  ASSUME CachesInv, NEW key, NEW file, RightFile(key, file)
  PROVE  /\ IsFiniteSet(DOMAIN Put(material, key, file))
         /\ \A k \in DOMAIN Put(material, key, file) : RightFile(k, Put(material, key, file)[k])
<1>1. DOMAIN Put(material, key, file) = DOMAIN material \union {key}
  BY DEF Put
<1>2. IsFiniteSet(DOMAIN material \union {key})
  BY FS_AddElement DEF CachesInv
<1>3. \A k \in DOMAIN Put(material, key, file) : RightFile(k, Put(material, key, file)[k])
  BY DEF Put, CachesInv
<1>4. QED
  BY <1>1, <1>2, <1>3

LEMMA DeletesRight ==
  ASSUME CachesInv, NEW key
  PROVE  /\ IsFiniteSet(DOMAIN Delete(material, key))
         /\ \A k \in DOMAIN Delete(material, key) : RightFile(k, Delete(material, key)[k])
<1>1. DOMAIN Delete(material, key) = DOMAIN material \ {key}
  BY DEF Delete
<1>2. IsFiniteSet(DOMAIN material \ {key})
  BY FS_RemoveElement DEF CachesInv
<1>3. \A k \in DOMAIN Delete(material, key) : RightFile(k, Delete(material, key)[k])
  BY DEF Delete, CachesInv
<1>4. QED
  BY <1>1, <1>2, <1>3

\* The files have sizes.
LEMMA FilesHaveSizes ==
  ASSUME PreparedFromBytes, CachesInv
  PROVE  Sizes(material) /\ DiskBytes = SizeOf(material) /\ SizeOf(material) \in Nat
<1>1. ASSUME NEW f \in DOMAIN material PROVE material[f].len \in Nat
  BY SourceFacts DEF CachesInv, RightFile, TornFile, FileOf
<1>2. Sizes(material)
  BY <1>1 DEF Sizes, CachesInv
<1>3. QED
  BY <1>2, SizeType DEF DiskBytes, SizeOf

\* A worker that is alone goes somewhere.
LEMMA AloneGoes ==
  ASSUME CachesInv, AloneInv, NEW w \in Workers, worker[w].pc # "idle", NEW p, Go(w, p),
         UNCHANGED <<directories, users, restarts, cacheOf, kind>>,
         directories /\ SoloOf(worker[w], counted[cacheOf[w]], material) /\ kind = "server"
           => SoloOf(p, counted'[cacheOf[w]], material'),
         kind = "server" /\ ~directories /\ DOMAIN material = {} => DOMAIN material' = {}
  PROVE  AloneInv'
<1>1. IsFiniteSet(users') /\ users' \subseteq Workers
  BY DEF AloneInv
<1>2. ASSUME kind' = "server", Alone', directories'
      PROVE  /\ \A v \in Workers \ users' : worker'[v] = Idle(NoResult)
             /\ users' = {} => DOMAIN material' = {} /\ \A c \in Caches : counted'[c] = 0
             /\ \A v \in users' : SoloOf(worker'[v], counted'[cacheOf'[v]], material')
  <2>1. kind = "server" /\ Alone /\ directories
    BY <1>2 DEF Alone
  <2>2. w \in users
    BY <2>1 DEF AloneInv, Idle
  <2>3. users = {w}
    <3>1. IsFiniteSet(users) /\ Cardinality(users) <= 1 /\ Cardinality(users) \in Nat
      BY <2>1, FS_CardinalityType DEF AloneInv, Alone
    <3>2. Cardinality(users) # 0
      BY <2>2, <3>1, FS_EmptySet
    <3>3. Cardinality(users) = 1
      BY <3>1, <3>2
    <3>4. \E x : users = {x}
      BY <3>1, <3>3, FS_Singleton
    <3>5. QED
      BY <2>2, <3>4
  <2>4. SoloOf(worker[w], counted[cacheOf[w]], material)
    BY <2>1, <2>2 DEF AloneInv
  <2>5. SoloOf(p, counted'[cacheOf[w]], material')
    BY <2>1, <2>4
  <2>6. worker'[w] = p /\ \A v \in Workers : v # w => worker'[v] = worker[v]
    BY DEF Go, CachesInv
  <2>7. \A v \in Workers \ users' : worker'[v] = Idle(NoResult)
    BY <2>1, <2>3, <2>6 DEF AloneInv
  <2>8. QED
    BY <2>3, <2>5, <2>6, <2>7
<1>3. ASSUME kind' = "server", Alone', ~directories' PROVE DOMAIN material' = {}
  BY <1>3 DEF Alone, AloneInv
<1>4. QED
  BY <1>1, <1>2, <1>3 DEF AloneInv

(***************************************************************************)
(* Every step keeps them.                                                  *)
(***************************************************************************)
LEMMA CachesInitially ==
  ASSUME CachesInit
  PROVE  CachesInv /\ AloneInv
<1>1. PICK which \in {"server", "web"} : InitWith(which)
  BY DEF CachesInit
<1>2. \A w \in Workers : worker[w] = Idle(NoResult) /\ WorkerOK(worker[w]) /\ worker[w].pc \in Places(kind)
  BY <1>1 DEF InitWith, WorkerOK, Answers, Places, Idle
<1>3. DOMAIN material = {} /\ users = {}
  BY <1>1 DEF InitWith
<1>4. hot_objects \in [Caches -> Seq(Held)] /\ counted \in [Caches -> Nat]
  BY <1>1 DEF InitWith
<1>5. CachesInv
  BY <1>1, <1>2, <1>3, <1>4, FS_EmptySet DEF CachesInv, InitWith, Clean
<1>6. AloneInv
  BY <1>1, <1>2, <1>3, FS_EmptySet DEF AloneInv, InitWith
<1>7. QED
  BY <1>5, <1>6

\* What touches neither objects nor workers.
LEMMA QuietKeeps ==
  ASSUME CachesInv, AloneInv, clock' \in Nat,
         UNCHANGED <<cacheOf, kind, restarts, hot_objects, counted, worker, material, directories, users>>
  PROVE  CachesInv' /\ AloneInv'
BY DEF CachesInv, AloneInv, Alone, SoloOf

\* A call begins.
LEMMA ResolveKeeps ==
  ASSUME PreparedFromBytes, CachesInv, AloneInv, NEW w \in Workers, NEW s \in Prepared,
         resolve_source(w, s)
  PROVE  CachesInv' /\ AloneInv'
<1> DEFINE c == cacheOf[w]
           p == worker'[w]
<1>1. UNCHANGED <<cacheOf, kind, clock, restarts, hot_objects, counted, material, directories>>
  BY DEF resolve_source, maps, disk, bounds
<1>2. /\ WorkerOK(p) /\ Go(w, p)
      /\ \/ p.pc = "idle" /\ p.result.done /\ p.result.ok
         \/ kind = "web" /\ p.pc \in {"get", "store"}
         \/ kind = "server" /\ p.pc \in {"exists", "store"}
  <2>1. ASSUME NEW q, Go(w, q) PROVE p = q /\ Go(w, p)
    BY <2>1 DEF Go, CachesInv
  <2>2. CASE ~DedupEnabled
    <3>1. p = Idle(Ok(s, cached_chpmt_object(s), FALSE)) /\ Go(w, p)
      BY <2>1, <2>2 DEF resolve_source, Return
    <3> HIDE DEF p
    <3>2. WorkerOK(Idle(Ok(s, cached_chpmt_object(s), FALSE)))
      BY MayBe
    <3>3. p.pc = "idle" /\ p.result.done /\ p.result.ok
      BY <3>1 DEF Idle, Ok
    <3>4. QED
      BY <3>1, <3>2, <3>3
  <2>3. CASE DedupEnabled /\ Find(Hot(w), KeyOf(s)) # {}
    <3>1. p = Idle(Ok(s, ValueOf(Hot(w), KeyOf(s)), TRUE)) /\ Go(w, p)
      BY <2>1, <2>3 DEF resolve_source, Return
    <3>2. Hot(w) \in Seq(Held)
      BY DEF Hot, CachesInv
    <3>3. PICK t \in Prepared : KeyOf(s) = KeyOf(t) /\ ValueOf(Hot(w), KeyOf(s)) = cached_chpmt_object(t)
      BY <2>3, <3>2, ValueHeld
    <3> HIDE DEF p
    <3>4. WorkerOK(Idle(Ok(s, ValueOf(Hot(w), KeyOf(s)), TRUE)))
      BY <3>3, MayBe
    <3>5. p.pc = "idle" /\ p.result.done /\ p.result.ok
      BY <3>1 DEF Idle, Ok
    <3>6. QED
      BY <3>1, <3>4, <3>5
  <2>4. CASE DedupEnabled /\ Find(Hot(w), KeyOf(s)) = {}
    <3>1. p = At(IF kind = "web" THEN "get" ELSE IF InMemoryOnly THEN "store" ELSE "exists", s) /\ Go(w, p)
      BY <2>1, <2>4 DEF resolve_source
    <3> HIDE DEF p
    <3>2. \A pc \in {"get", "store", "exists"} : WorkerOK(At(pc, s))
      BY MayBe DEF InCall
    <3>3. WorkerOK(p)
      BY <3>1, <3>2
    <3>4. \/ kind = "web" /\ p.pc = "get"
          \/ kind = "server" /\ p.pc \in {"exists", "store"}
      BY <3>1 DEF At, CachesInv
    <3>5. QED
      BY <3>1, <3>3, <3>4
  <2>5. QED
    BY <2>2, <2>3, <2>4
<1> HIDE DEF p
<1>3. /\ DOMAIN worker' = Workers /\ \A v \in Workers : WorkerOK(worker'[v])
      /\ worker'[w] = p /\ \A v \in Workers : v # w => worker'[v] = worker[v]
  BY <1>2, Goes
<1>4. CachesInv'
  <2>1. \A v \in Workers : worker'[v].pc \in Places(kind')
    BY <1>1, <1>2, <1>3 DEF CachesInv, Places
  <2>2. kind' = "web" => Clean(material')
    BY <1>1 DEF CachesInv
  <2>3. QED
    BY <1>1, <1>3, <2>1, <2>2 DEF CachesInv
<1>5. users' = users \union {w}
  BY DEF resolve_source
<1>6. IsFiniteSet(users') /\ users' \subseteq Workers
  BY <1>5, FS_AddElement DEF AloneInv
<1>7. Alone' => Alone
  <2>1. users \subseteq users' /\ Cardinality(users) <= Cardinality(users')
    BY <1>5, <1>6, FS_Subset
  <2>2. Cardinality(users) \in Nat /\ Cardinality(users') \in Nat
    BY <1>6, FS_CardinalityType DEF AloneInv
  <2>3. QED
    BY <1>1, <2>1, <2>2 DEF Alone
<1>8. ASSUME kind' = "server", Alone', directories'
      PROVE  /\ users' = {w}
             /\ \A v \in Workers \ {w} : worker'[v] = Idle(NoResult)
             /\ SoloOf(p, counted[c], material)
  <2>1. users' = {w}
    <3>1. Cardinality(users') <= 1 /\ Cardinality(users') \in Nat
      BY <1>6, <1>8, FS_CardinalityType DEF Alone
    <3>2. Cardinality(users') # 0
      BY <1>5, <1>6, FS_EmptySet
    <3>3. Cardinality(users') = 1
      BY <3>1, <3>2
    <3>4. \E x : users' = {x}
      BY <1>6, <3>3, FS_Singleton
    <3>5. QED
      BY <1>5, <3>4
  <2>2. users = {} \/ users = {w}
    BY <1>5, <2>1
  <2>3. kind = "server" /\ Alone /\ directories
    BY <1>1, <1>8, <1>7
  <2>4. \A v \in Workers \ {w} : worker[v] = Idle(NoResult)
    BY <2>2, <2>3 DEF AloneInv
  <2>5. c \in Caches
    BY DEF CachesInv
  <2>6. MaxBytes \in Nat
    BY CacheBounds
  <2>7. Clean(material) /\ counted[c] = SizeOf(material) /\ counted[c] <= MaxBytes
    <3>1. CASE users = {}
      <4>1. DOMAIN material = {} /\ counted[c] = 0
        BY <2>3, <2>5, <3>1 DEF AloneInv
      <4>2. QED
        BY <2>6, <4>1, SizeEmpty DEF Clean
    <3>2. CASE users = {w}
      <4>1. SoloOf(worker[w], counted[c], material)
        BY <2>3, <3>2 DEF AloneInv
      <4>2. worker[w].pc = "idle"
        BY DEF resolve_source
      <4>3. QED
        BY <4>1, <4>2 DEF SoloOf
    <3>3. QED
      BY <2>2, <3>1, <3>2
  <2>8. SoloOf(p, counted[c], material)
    BY <1>2, <2>3, <2>7 DEF SoloOf
  <2>9. QED
    BY <1>3, <2>1, <2>4, <2>8
<1>9. ASSUME kind' = "server", Alone', ~directories' PROVE DOMAIN material' = {}
  BY <1>1, <1>7, <1>9 DEF AloneInv
<1>10. AloneInv'
  BY <1>1, <1>3, <1>6, <1>8, <1>9 DEF AloneInv
<1>11. QED
  BY <1>4, <1>10

LEMMA LookupKeeps ==
  ASSUME CachesInv, AloneInv, NEW w \in Workers, NEW s \in Prepared, lookup_source(w, s)
  PROVE  CachesInv' /\ AloneInv'
<1>1. UNCHANGED <<cacheOf, kind, clock, restarts, hot_objects, counted, worker, material, directories, users>>
  BY DEF lookup_source, disk, bounds
<1>2. clock' \in Nat
  BY <1>1 DEF CachesInv
<1>3. QED
  BY <1>1, <1>2, QuietKeeps

LEMMA TickKeeps ==
  ASSUME CachesInv, AloneInv, tick
  PROVE  CachesInv' /\ AloneInv'
<1>1. UNCHANGED <<cacheOf, kind, restarts, hot_objects, counted, worker, material, directories, users>>
  BY DEF tick, maps, disk
<1>2. clock' \in Nat
  BY DEF CachesInv, tick
<1>3. QED
  BY <1>1, <1>2, QuietKeeps

\* A step inside a call, by what it does to the worker, the maps and the files.
LEMMA CallKeeps ==
  ASSUME CachesInv, AloneInv, NEW w \in Workers, worker[w].pc # "idle",
         NEW p, Go(w, p), WorkerOK(p), p.pc \in Places(kind),
         UNCHANGED <<directories, users, restarts, cacheOf, kind, clock>>,
         hot_objects' \in [Caches -> Seq(Held)], counted' \in [Caches -> Nat],
         kind = "web" => Clean(material'),
         IsFiniteSet(DOMAIN material'),
         \A key \in DOMAIN material' : RightFile(key, material'[key]),
         directories /\ SoloOf(worker[w], counted[cacheOf[w]], material) /\ kind = "server"
           => SoloOf(p, counted'[cacheOf[w]], material'),
         kind = "server" /\ ~directories /\ DOMAIN material = {} => DOMAIN material' = {}
  PROVE  CachesInv' /\ AloneInv'
<1>1. /\ DOMAIN worker' = Workers /\ \A v \in Workers : WorkerOK(worker'[v])
      /\ worker'[w] = p /\ \A v \in Workers : v # w => worker'[v] = worker[v]
  BY Goes
<1>2. \A v \in Workers : worker'[v].pc \in Places(kind')
  BY <1>1 DEF CachesInv
<1>3. CachesInv'
  BY <1>1, <1>2 DEF CachesInv
<1>4. AloneInv'
  BY AloneGoes
<1>5. QED
  BY <1>3, <1>4

\* The same for a step that leaves the counter and the files.
LEMMA CallKeepsFiles ==
  ASSUME CachesInv, AloneInv, NEW w \in Workers, worker[w].pc # "idle",
         NEW p, Go(w, p), WorkerOK(p), p.pc \in Places(kind),
         UNCHANGED <<directories, users, restarts, cacheOf, kind, clock, counted, material>>,
         hot_objects' \in [Caches -> Seq(Held)],
         directories /\ SoloOf(worker[w], counted[cacheOf[w]], material) /\ kind = "server"
           => SoloOf(p, counted[cacheOf[w]], material)
  PROVE  CachesInv' /\ AloneInv'
<1>1. counted' \in [Caches -> Nat] /\ IsFiniteSet(DOMAIN material')
  BY DEF CachesInv
<1>2. \A key \in DOMAIN material' : RightFile(key, material'[key])
  BY DEF CachesInv
<1>3. kind = "web" => Clean(material')
  BY DEF CachesInv
<1>4. counted'[cacheOf[w]] = counted[cacheOf[w]]
  OBVIOUS
<1>5. QED
  BY <1>1, <1>2, <1>3, <1>4, CallKeeps

\* Where the worker is, and that a server's worker is not where a browser's is.
LEMMA HereHolds ==
  ASSUME CachesInv, NEW w \in Workers
  PROVE  /\ WorkerOK(worker[w]) /\ worker[w].pc \in Places(kind)
         /\ worker[w].pc \in {"get", "put"} => kind = "web"
         /\ worker[w].pc \notin {"idle", "get", "store", "put"} => kind = "server"
         /\ cacheOf[w] \in Caches /\ Hot(w) \in Seq(Held)
BY DEF CachesInv, Places, Hot

LEMMA HotKept ==
  ASSUME CachesInv, NEW w \in Workers, NEW map \in Seq(Held), SetHot(w, map)
  PROVE  hot_objects' \in [Caches -> Seq(Held)]
BY DEF CachesInv, SetHot

LEMMA ExistsKeeps ==
  ASSUME CachesInv, AloneInv, NEW w \in Workers, lookup_exists(w)
  PROVE  CachesInv' /\ AloneInv'
<1> DEFINE p == At(IF KeyOf(Source(w)) \in DOMAIN material THEN "read" ELSE "store", Source(w))
<1>1. worker[w].pc = "exists" /\ Go(w, p)
  BY DEF lookup_exists
<1>2. UNCHANGED <<directories, users, restarts, cacheOf, kind, clock, counted, material, hot_objects>>
  BY DEF lookup_exists, maps, disk, bounds
<1>3. Source(w) \in Prepared /\ kind = "server"
  BY <1>1, HereHolds, InCallHolds DEF InCall, Source
<1>4. WorkerOK(p)
  BY <1>3, MayBe DEF InCall
<1>5. p.pc \in Places(kind) /\ p.source = worker[w].source
  BY <1>3 DEF At, Places, Source
<1>6. SoloOf(worker[w], counted[cacheOf[w]], material) => SoloOf(p, counted[cacheOf[w]], material)
  BY <1>1 DEF SoloOf, At, Source
<1>7. hot_objects' \in [Caches -> Seq(Held)]
  BY <1>2 DEF CachesInv
<1> HIDE DEF p
<1>8. QED
  BY <1>1, <1>2, <1>4, <1>5, <1>6, <1>7, CallKeepsFiles

\* A file that is read is the object's, whoever wrote it.
LEMMA ReadKeeps ==
  ASSUME CachesInv, AloneInv, NEW w \in Workers, lookup_predictive_material(w)
  PROVE  CachesInv' /\ AloneInv'
<1> DEFINE s == Source(w)
           key == KeyOf(s)
           cached == material[key].value
           found == key \in DOMAIN material /\ material[key].whole
           p == Idle(IF found THEN Ok(s, cached, TRUE) ELSE Err(s))
<1>1. worker[w].pc = "read" /\ Go(w, p)
  BY DEF lookup_predictive_material, Return
<1>2. UNCHANGED <<directories, users, restarts, cacheOf, kind, clock, counted, material>>
  BY DEF lookup_predictive_material, disk, bounds
<1>3. s \in Prepared /\ kind = "server"
  BY <1>1, HereHolds, InCallHolds DEF InCall, Source
<1>4. ASSUME found PROVE \E t \in Prepared : key = KeyOf(t) /\ cached = cached_chpmt_object(t)
  BY <1>4 DEF CachesInv, RightFile, TornFile, FileOf
<1>5. WorkerOK(p)
  <2>1. CASE found
    <3>1. PICK t \in Prepared : key = KeyOf(t) /\ cached = cached_chpmt_object(t)
      BY <1>4, <2>1
    <3>2. WorkerOK(Idle(Ok(s, cached_chpmt_object(t), TRUE)))
      BY <1>3, <3>1, MayBe
    <3>3. QED
      BY <2>1, <3>1, <3>2
  <2>2. CASE ~found
    BY <1>3, <2>2, MayBe
  <2>3. QED
    BY <2>1, <2>2
<1>6. hot_objects' \in [Caches -> Seq(Held)]
  <2>1. CASE found
    <3>1. PICK t \in Prepared : key = KeyOf(t) /\ cached = cached_chpmt_object(t)
      BY <1>4, <2>1
    <3>2. SetHot(w, evict_if_over_capacity(map_insert(Hot(w), key, cached)))
      BY <2>1 DEF lookup_predictive_material
    <3>3. evict_if_over_capacity(map_insert(Hot(w), key, cached)) \in Seq(Held)
      BY <3>1, HereHolds, InsertHeld, EvictHeld
    <3>4. QED
      BY <3>2, <3>3, HotKept
  <2>2. CASE ~found
    BY <2>2 DEF lookup_predictive_material, CachesInv
  <2>3. QED
    BY <2>1, <2>2
<1>7. p.pc \in Places(kind)
  BY <1>3 DEF Idle, Places
<1>8. ASSUME SoloOf(worker[w], counted[cacheOf[w]], material)
      PROVE  SoloOf(p, counted[cacheOf[w]], material)
  <2>1. found /\ Clean(material) /\ counted[cacheOf[w]] = SizeOf(material) /\ counted[cacheOf[w]] <= MaxBytes
    BY <1>1, <1>8 DEF SoloOf, Clean, Source
  <2>2. p.pc = "idle" /\ p.result.done /\ p.result.ok
    BY <2>1 DEF Idle, Ok
  <2> HIDE DEF p
  <2>3. QED
    BY <2>1, <2>2 DEF SoloOf
<1> HIDE DEF p
<1>9. QED
  BY <1>1, <1>2, <1>5, <1>6, <1>7, <1>8, CallKeepsFiles

LEMMA StoreKeeps ==
  ASSUME CachesInv, AloneInv, NEW w \in Workers, store_source(w)
  PROVE  CachesInv' /\ AloneInv'
<1> DEFINE p == IF InMemoryOnly \/ directories THEN At("hot", Source(w)) ELSE Idle(Err(Source(w)))
<1>1. worker[w].pc = "store" /\ Go(w, p) /\ kind = "server"
  BY DEF store_source, Return
<1>2. UNCHANGED <<directories, users, restarts, cacheOf, kind, clock, counted, material, hot_objects>>
  BY DEF store_source, bounds
<1>3. Source(w) \in Prepared
  BY <1>1, HereHolds, InCallHolds DEF InCall, Source
<1>4. WorkerOK(p)
  BY <1>3, MayBe DEF InCall
<1>5. p.pc \in Places(kind)
  BY <1>1 DEF At, Idle, Places
<1>6. directories /\ SoloOf(worker[w], counted[cacheOf[w]], material)
        => SoloOf(p, counted[cacheOf[w]], material)
  BY <1>1 DEF SoloOf, At
<1>7. hot_objects' \in [Caches -> Seq(Held)]
  BY <1>2 DEF CachesInv
<1> HIDE DEF p
<1>8. QED
  BY <1>1, <1>2, <1>4, <1>5, <1>6, <1>7, CallKeepsFiles

LEMMA HotKeeps ==
  ASSUME CachesInv, AloneInv, NEW w \in Workers, store_hot(w)
  PROVE  CachesInv' /\ AloneInv'
<1> DEFINE s == Source(w)
           p == IF InMemoryOnly THEN Idle(Ok(s, cached_chpmt_object(s), FALSE)) ELSE At("open", s)
           map == evict_if_over_capacity(map_insert(Hot(w), KeyOf(s), cached_chpmt_object(s)))
<1>1. worker[w].pc = "hot" /\ Go(w, p) /\ SetHot(w, map)
  BY DEF store_hot, Return
<1>2. UNCHANGED <<directories, users, restarts, cacheOf, kind, clock, counted, material>>
  BY DEF store_hot, bounds
<1>3. s \in Prepared /\ kind = "server"
  BY <1>1, HereHolds, InCallHolds DEF InCall, Source
<1>4. WorkerOK(p)
  BY <1>3, MayBe DEF InCall
<1>5. p.pc \in Places(kind)
  BY <1>3 DEF At, Idle, Places
<1>6. SoloOf(worker[w], counted[cacheOf[w]], material) => SoloOf(p, counted[cacheOf[w]], material)
  BY <1>1 DEF SoloOf, At, Idle, Ok
<1>7. hot_objects' \in [Caches -> Seq(Held)]
  <2>1. map \in Seq(Held)
    BY <1>3, HereHolds, InsertHeld, EvictHeld
  <2> HIDE DEF map
  <2>2. QED
    BY <1>1, <2>1, HotKept
<1> HIDE DEF p
<1>8. QED
  BY <1>1, <1>2, <1>4, <1>5, <1>6, <1>7, CallKeepsFiles

\* A call that finds the directory removed returns an error.
LEMMA RefusedKeeps ==
  ASSUME CachesInv, AloneInv, NEW w \in Workers, worker[w].pc # "idle", kind = "server",
         Source(w) \in Prepared, Return(w, Err(Source(w))), ~directories,
         UNCHANGED <<directories, users, restarts, cacheOf, kind, clock, counted, material, hot_objects>>
  PROVE  CachesInv' /\ AloneInv'
<1> DEFINE q == Idle(Err(Source(w)))
<1>1. Go(w, q)
  BY DEF Return
<1>2. WorkerOK(q) /\ q.pc \in Places(kind)
  BY MayBe DEF Idle, Places
<1>3. hot_objects' \in [Caches -> Seq(Held)]
  BY DEF CachesInv
<1> HIDE DEF q
<1>4. QED
  BY <1>1, <1>2, <1>3, CallKeepsFiles

\* The file is emptied: the counter still holds what it had.
LEMMA OpenedKeeps ==
  ASSUME PreparedFromBytes, CachesInv, AloneInv, NEW w \in Workers, store_open(w), directories
  PROVE  CachesInv' /\ AloneInv'
<1> DEFINE s == Source(w)
           key == KeyOf(s)
           previous == IF key \in DOMAIN material THEN material[key].len ELSE 0
           p == Storing("write", s, previous)
           new == Put(material, key, TornFile)
<1>1. worker[w].pc = "open" /\ Go(w, p) /\ material' = new
  BY DEF store_open, Storing
<1>2. UNCHANGED <<directories, users, restarts, cacheOf, kind, clock, counted, hot_objects>>
  BY DEF store_open, maps, bounds
<1>3. s \in Prepared /\ kind = "server"
  BY <1>1, HereHolds, InCallHolds DEF InCall, Source
<1>4. previous \in Nat
  BY FilesHaveSizes DEF Sizes
<1>5. WorkerOK(p)
  <2> HIDE DEF previous
  <2>1. QED
    BY <1>3, <1>4, MayBe
<1>6. p.pc \in Places(kind) /\ p.pc = "write" /\ p.source = s /\ p.previous = previous
  BY <1>3 DEF Storing, Places
<1>7. IsFiniteSet(DOMAIN new) /\ \A k \in DOMAIN new : RightFile(k, new[k])
  BY PutsRight DEF RightFile
<1>8. hot_objects' \in [Caches -> Seq(Held)] /\ counted' \in [Caches -> Nat]
  BY <1>2 DEF CachesInv
<1>9. ASSUME SoloOf(worker[w], counted[cacheOf[w]], material)
      PROVE  SoloOf(p, counted[cacheOf[w]], new)
  <2>1. ~InMemoryOnly /\ Clean(material) /\ counted[cacheOf[w]] = SizeOf(material)
    BY <1>1, <1>9 DEF SoloOf
  <2>2. SizeOf(new) + previous = SizeOf(material) + 0
    <3>1. TornFile.len = 0
      BY DEF TornFile
    <3>2. QED
      BY <3>1, FilesHaveSizes, SizePut
  <2>3. counted[cacheOf[w]] = SizeOf(new) + previous
    BY <2>1, <2>2, FilesHaveSizes
  <2>4. key \in DOMAIN new /\ new[key] = TornFile /\ \A f \in DOMAIN new : f # key => new[f].whole
    BY <2>1 DEF Put, Clean
  <2> HIDE DEF new, previous, p
  <2>5. QED
    BY <1>6, <2>1, <2>3, <2>4 DEF SoloOf
<1> HIDE DEF p, new
<1>10. QED
  BY <1>1, <1>2, <1>3, <1>5, <1>6, <1>7, <1>8, <1>9, CallKeeps

LEMMA OpenKeeps ==
  ASSUME PreparedFromBytes, CachesInv, AloneInv, NEW w \in Workers, store_open(w)
  PROVE  CachesInv' /\ AloneInv'
<1>1. CASE directories
  BY <1>1, OpenedKeeps
<1>2. CASE ~directories
  <2>1. worker[w].pc = "open" /\ Return(w, Err(Source(w))) /\ material' = material
    BY <1>2 DEF store_open
  <2>2. UNCHANGED <<directories, users, restarts, cacheOf, kind, clock, counted, material, hot_objects>>
    BY <2>1 DEF store_open, maps, bounds
  <2>3. Source(w) \in Prepared /\ kind = "server"
    BY <2>1, HereHolds, InCallHolds DEF InCall, Source
  <2>4. QED
    BY <1>2, <2>1, <2>2, <2>3, RefusedKeeps
<1>3. QED
  BY <1>1, <1>2

\* It is written: the counter lacks the new length and has the old.
LEMMA WrittenKeeps ==
  ASSUME PreparedFromBytes, CachesInv, AloneInv, NEW w \in Workers, store_write(w), directories
  PROVE  CachesInv' /\ AloneInv'
<1> DEFINE s == Source(w)
           key == KeyOf(s)
           n == worker[w].previous
           p == Storing("count", s, n)
           file == FileOf(s, clock)
           new == Put(material, key, file)
<1>1. worker[w].pc = "write" /\ material' = new
  BY DEF store_write, FileOf, WholeFile
<1>2. s \in Prepared /\ n \in Nat /\ worker[w] = Storing("write", s, n) /\ kind = "server"
  BY <1>1, HereHolds, StoringHolds DEF Source
<1>3. Go(w, p)
  <2>1. Go(w, [worker[w] EXCEPT !.pc = "count"])
    BY DEF store_write
  <2>2. [worker[w] EXCEPT !.pc = "count"] = p
    BY <1>2 DEF Storing
  <2>3. QED
    BY <2>1, <2>2
<1>4. UNCHANGED <<directories, users, restarts, cacheOf, kind, clock, counted, hot_objects>>
  BY DEF store_write, bounds
<1>5. WorkerOK(p)
  BY <1>2, MayBe
<1>6. p.pc \in Places(kind) /\ p.pc = "count" /\ p.source = s /\ p.previous = n
  BY <1>2 DEF Storing, Places
<1>7. IsFiniteSet(DOMAIN new) /\ \A k \in DOMAIN new : RightFile(k, new[k])
  <2>1. RightFile(key, file)
    BY <1>2 DEF RightFile, CachesInv
  <2>2. QED
    BY <2>1, PutsRight
<1>8. hot_objects' \in [Caches -> Seq(Held)] /\ counted' \in [Caches -> Nat]
  BY <1>4 DEF CachesInv
<1>9. ASSUME SoloOf(worker[w], counted[cacheOf[w]], material)
      PROVE  SoloOf(p, counted[cacheOf[w]], new)
  <2>1. /\ ~InMemoryOnly /\ key \in DOMAIN material /\ material[key] = TornFile
        /\ \A f \in DOMAIN material : f # key => material[f].whole
        /\ counted[cacheOf[w]] = SizeOf(material) + n
    BY <1>1, <1>9 DEF SoloOf, Source
  <2>2. file.len = s.descriptor.byte_len /\ file.whole /\ file.len \in Nat
    BY <1>2, SourceFacts DEF FileOf
  <2>3. material[key].len = 0
    BY <2>1 DEF TornFile
  <2> HIDE DEF file
  <2>4. Sizes(new) /\ SizeOf(new) + 0 = SizeOf(material) + file.len
    BY <2>1, <2>2, <2>3, FilesHaveSizes, SizePut
  <2>5. SizeOf(new) \in Nat /\ SizeOf(material) \in Nat
    BY <2>4, FilesHaveSizes, SizeType
  <2>6. n <= counted[cacheOf[w]] /\ counted[cacheOf[w]] - n + s.descriptor.byte_len = SizeOf(new)
    BY <1>2, <2>1, <2>2, <2>4, <2>5
  <2>7. Clean(new)
    BY <2>1, <2>2 DEF Clean, Put
  <2> HIDE DEF new, p
  <2>8. QED
    BY <1>6, <2>1, <2>6, <2>7 DEF SoloOf
<1> HIDE DEF p, new
<1>10. QED
  BY <1>1, <1>2, <1>3, <1>4, <1>5, <1>6, <1>7, <1>8, <1>9, CallKeeps

\* A file that was removed while it was written stays removed.
LEMMA WriteKeeps ==
  ASSUME PreparedFromBytes, CachesInv, AloneInv, NEW w \in Workers, store_write(w)
  PROVE  CachesInv' /\ AloneInv'
<1>1. CASE directories
  BY <1>1, WrittenKeeps
<1>2. CASE ~directories
  <2> DEFINE s == Source(w)
             n == worker[w].previous
             p == Storing("count", s, n)
  <2>1. worker[w].pc = "write" /\ material' = material /\ Go(w, [worker[w] EXCEPT !.pc = "count"])
    BY <1>2 DEF store_write
  <2>2. s \in Prepared /\ n \in Nat /\ worker[w] = Storing("write", s, n) /\ kind = "server"
    BY <2>1, HereHolds, StoringHolds DEF Source
  <2>3. [worker[w] EXCEPT !.pc = "count"] = p
    BY <2>2 DEF Storing
  <2>4. UNCHANGED <<directories, users, restarts, cacheOf, kind, clock, counted, material, hot_objects>>
    BY <2>1 DEF store_write, bounds
  <2>5. WorkerOK(p) /\ p.pc \in Places(kind)
    BY <2>2, MayBe DEF Storing, Places
  <2>6. hot_objects' \in [Caches -> Seq(Held)]
    BY <2>4 DEF CachesInv
  <2> HIDE DEF p
  <2>7. QED
    BY <1>2, <2>1, <2>3, <2>4, <2>5, <2>6, CallKeepsFiles
<1>3. QED
  BY <1>1, <1>2

\* It is counted.
LEMMA CountKeeps ==
  ASSUME PreparedFromBytes, CachesInv, AloneInv, NEW w \in Workers, store_count(w)
  PROVE  CachesInv' /\ AloneInv'
<1> DEFINE s == Source(w)
           c == cacheOf[w]
           n == worker[w].previous
           count == SaturatingSub(counted[c], n) + s.descriptor.byte_len
           p == At("prune", s)
<1>1. /\ worker[w].pc = "count" /\ Go(w, p)
      /\ counted' = [counted EXCEPT ![c] = count]
  BY DEF store_count
<1>2. s \in Prepared /\ n \in Nat /\ kind = "server"
  BY <1>1, HereHolds, StoringHolds DEF Source
<1>3. UNCHANGED <<directories, users, restarts, cacheOf, kind, clock, material, hot_objects>>
  BY DEF store_count, disk, bounds
<1>4. WorkerOK(p)
  BY <1>2, MayBe DEF InCall
<1>5. p.pc \in Places(kind) /\ p.pc = "prune"
  BY <1>2 DEF At, Places
<1>6. counted[c] \in Nat /\ s.descriptor.byte_len \in Nat
  BY <1>2, HereHolds, SourceFacts DEF CachesInv
<1>7. count \in Nat
  BY <1>2, <1>6 DEF SaturatingSub
<1>8. hot_objects' \in [Caches -> Seq(Held)] /\ counted' \in [Caches -> Nat] /\ counted'[c] = count
  <2> HIDE DEF count
  <2>1. QED
    BY <1>1, <1>3, <1>7, HereHolds DEF CachesInv
<1>9. ASSUME SoloOf(worker[w], counted[c], material)
      PROVE  SoloOf(p, count, material)
  <2>1. /\ ~InMemoryOnly /\ Clean(material) /\ n <= counted[c]
        /\ counted[c] - n + s.descriptor.byte_len = SizeOf(material)
    BY <1>1, <1>9 DEF SoloOf, Source
  <2>2. count = SizeOf(material)
    BY <1>2, <1>6, <2>1 DEF SaturatingSub
  <2> HIDE DEF p, count
  <2>3. QED
    BY <1>5, <2>1, <2>2 DEF SoloOf
<1>10. /\ IsFiniteSet(DOMAIN material') /\ \A key \in DOMAIN material' : RightFile(key, material'[key])
       /\ kind = "web" => Clean(material')
  BY <1>3 DEF CachesInv
<1> HIDE DEF p, count
<1>11. QED
  BY <1>1, <1>3, <1>4, <1>5, <1>8, <1>9, <1>10, CallKeeps

\* The counter is read.
LEMMA PruneReadKeeps ==
  ASSUME CachesInv, AloneInv, NEW w \in Workers, prune_read(w)
  PROVE  CachesInv' /\ AloneInv'
<1> DEFINE s == Source(w)
           count == counted[cacheOf[w]]
           p == IF count <= MaxBytes THEN Idle(Ok(s, cached_chpmt_object(s), FALSE))
                ELSE Scanning(s, count)
<1>1. worker[w].pc = "prune" /\ Go(w, p)
  BY DEF prune_read, Return, Stored, Scanning
<1>2. UNCHANGED <<directories, users, restarts, cacheOf, kind, clock, counted, material, hot_objects>>
  BY DEF prune_read, maps, disk, bounds
<1>3. s \in Prepared /\ kind = "server"
  BY <1>1, HereHolds, InCallHolds DEF InCall, Source
<1>4. count \in Nat
  BY HereHolds DEF CachesInv
<1>5. WorkerOK(p)
  BY <1>3, <1>4, MayBe
<1>6. p.pc \in Places(kind)
  BY <1>3 DEF Scanning, Idle, Places
<1>7. SoloOf(worker[w], count, material) => SoloOf(p, count, material)
  BY <1>1 DEF SoloOf, Scanning, Idle, Ok
<1>8. hot_objects' \in [Caches -> Seq(Held)]
  BY <1>2 DEF CachesInv
<1> HIDE DEF p
<1>9. QED
  BY <1>1, <1>2, <1>5, <1>6, <1>7, <1>8, CallKeepsFiles

LEMMA ScanFailsKeeps ==
  ASSUME CachesInv, AloneInv, NEW w \in Workers, prune_scan_fails(w)
  PROVE  CachesInv' /\ AloneInv'
<1>1. worker[w].pc = "scan" /\ ~directories /\ Return(w, Err(Source(w)))
  BY DEF prune_scan_fails
<1>2. Source(w) \in Prepared /\ kind = "server"
  BY <1>1, HereHolds, ScanningHolds DEF Source
<1>3. UNCHANGED <<directories, users, restarts, cacheOf, kind, clock, counted, material, hot_objects>>
  BY DEF prune_scan_fails, maps, disk, bounds
<1>4. QED
  BY <1>1, <1>2, <1>3, RefusedKeeps

\* The files that can be decoded are listed, each once.
LEMMA ListedByScan ==
  ASSUME NEW mat, Sizes(mat),
         NEW todo \in SetToSeqs({f \in DOMAIN mat : mat[f].whole}), NEW S,
         \A f \in DOMAIN mat : mat[f].whole => f \in S
  PROVE  LET list == [i \in DOMAIN todo |-> [file |-> todo[i], len |-> mat[todo[i]].len]]
         IN  /\ list \in Seq([file : S, len : Nat])
             /\ Clean(mat) => Listed(mat, list)
<1> DEFINE files == {f \in DOMAIN mat : mat[f].whole}
           n == Cardinality(files)
           list == [i \in DOMAIN todo |-> [file |-> todo[i], len |-> mat[todo[i]].len]]
<1>1. IsFiniteSet(files) /\ n \in Nat
  <2>1. files \in SUBSET DOMAIN mat
    OBVIOUS
  <2> HIDE DEF files
  <2>2. IsFiniteSet(files)
    BY <2>1, FS_Subset DEF Sizes
  <2>3. QED
    BY <2>2, FS_CardinalityType
<1>2. todo \in [1 .. n -> files] /\ \A i, j \in 1 .. n : i # j => todo[i] # todo[j]
  BY DEF SetToSeqs
<1>3. \A i \in 1 .. n : todo[i] \in DOMAIN mat /\ todo[i] \in S /\ mat[todo[i]].len \in Nat
  BY <1>2 DEF Sizes
<1>4. list \in Seq([file : S, len : Nat])
  <2>1. list \in [1 .. n -> [file : S, len : Nat]]
    BY <1>2, <1>3
  <2> HIDE DEF list, n
  <2>2. \A T : list \in [1 .. n -> T] => list \in Seq(T)
    BY <1>1
  <2>3. QED
    BY <2>1, <2>2
<1>5. ASSUME Clean(mat) PROVE Listed(mat, list)
  <2>1. files = DOMAIN mat
    BY <1>5 DEF Clean
  <2>2. todo \in Injection(1 .. n, files)
    <3> HIDE DEF n, files
    <3>1. QED
      BY <1>2 DEF Injection, IsInjective
  <2>3. Cardinality(1 .. n) = n
    <3> HIDE DEF n
    <3>1. QED
      BY <1>1, FS_Interval
  <2>4. todo \in Surjection(1 .. n, files)
    <3> HIDE DEF files
    <3>1. Cardinality(1 .. n) = Cardinality(files)
      BY <2>3
    <3>2. QED
      BY <1>1, <2>2, <3>1, FS_Injection
  <2>5. \A f \in files : \E i \in 1 .. n : todo[i] = f
    BY <2>4 DEF Surjection
  <2>6. DOMAIN list = 1 .. n /\ \A i \in 1 .. n : list[i].file = todo[i] /\ list[i].len = mat[todo[i]].len
    BY <1>2
  <2> HIDE DEF list, files, n
  <2>7. \A i, j \in DOMAIN list : list[i].file = list[j].file => i = j
    BY <1>2, <2>6
  <2>8. \A f \in DOMAIN mat : \E i \in DOMAIN list : list[i].file = f
    BY <2>1, <2>5, <2>6
  <2>9. \A i \in DOMAIN list : list[i].file \in DOMAIN mat /\ list[i].len = mat[list[i].file].len
    BY <1>3, <2>6
  <2>10. QED
    BY <2>7, <2>8, <2>9 DEF Listed
<1>6. QED
  BY <1>4, <1>5

LEMMA ScanKeeps ==
  ASSUME PreparedFromBytes, CachesInv, AloneInv, NEW w \in Workers, prune_scan(w)
  PROVE  CachesInv' /\ AloneInv'
<1> DEFINE s == Source(w)
           n == worker[w].total
<1>1. worker[w].pc = "scan"
  BY DEF prune_scan
<1>2. PICK todo \in SetToSeqs({f \in DOMAIN material : material[f].whole}) :
        Go(w, Removing(s, n, [i \in DOMAIN todo |-> [file |-> todo[i], len |-> material[todo[i]].len]]))
  BY DEF prune_scan, Removing
<1> DEFINE list == [i \in DOMAIN todo |-> [file |-> todo[i], len |-> material[todo[i]].len]]
           p == Removing(s, n, list)
<1>3. Go(w, p)
  BY <1>2
<1>4. UNCHANGED <<directories, users, restarts, cacheOf, kind, clock, counted, material, hot_objects>>
  BY DEF prune_scan, maps, disk, bounds
<1>5. s \in Prepared /\ n \in Nat /\ kind = "server"
  BY <1>1, HereHolds, ScanningHolds DEF Source
<1>6. \A f \in DOMAIN material : material[f].whole => f \in Keys
  BY DEF CachesInv, RightFile, TornFile, Keys
<1>7. list \in Seq(Entries) /\ (Clean(material) => Listed(material, list))
  BY <1>6, FilesHaveSizes, ListedByScan DEF Entries
<1> HIDE DEF list
<1>8. WorkerOK(p)
  BY <1>5, <1>7, MayBe
<1>9. p.pc \in Places(kind) /\ p.pc = "remove" /\ p.total = n /\ p.todo = list
  BY <1>5 DEF Removing, Places
<1>10. SoloOf(worker[w], counted[cacheOf[w]], material) => SoloOf(p, counted[cacheOf[w]], material)
  <2> HIDE DEF p
  <2>1. QED
    BY <1>1, <1>7, <1>9 DEF SoloOf
<1>11. hot_objects' \in [Caches -> Seq(Held)]
  BY <1>4 DEF CachesInv
<1> HIDE DEF p
<1>12. QED
  BY <1>1, <1>3, <1>4, <1>8, <1>9, <1>10, <1>11, CallKeepsFiles

\* The first file of the list is removed, and the others are listed still.
LEMMA ListedRest ==
  ASSUME NEW mat, NEW todo \in Seq(Entries), todo # << >>, Listed(mat, todo)
  PROVE  Listed(Delete(mat, Head(todo).file), Tail(todo))
<1> DEFINE rest == Delete(mat, Head(todo).file)
           tail == Tail(todo)
<1>1. Len(todo) \in Nat /\ DOMAIN todo = 1 .. Len(todo) /\ 1 \in DOMAIN todo /\ Head(todo) = todo[1]
  OBVIOUS
<1>2. DOMAIN tail = 1 .. Len(todo) - 1 /\ \A i \in 1 .. Len(todo) - 1 : tail[i] = todo[i + 1]
  OBVIOUS
<1>3. DOMAIN rest = DOMAIN mat \ {todo[1].file} /\ \A f \in DOMAIN rest : rest[f] = mat[f]
  BY <1>1 DEF Delete
<1> HIDE DEF rest, tail
<1>4. ASSUME NEW i \in DOMAIN tail
      PROVE  tail[i].file \in DOMAIN rest /\ tail[i].len = rest[tail[i].file].len
  <2>1. i + 1 \in DOMAIN todo /\ tail[i] = todo[i + 1] /\ i + 1 # 1
    BY <1>1, <1>2
  <2>2. todo[i + 1].file # todo[1].file
    BY <1>1, <2>1 DEF Listed
  <2>3. QED
    BY <1>3, <2>1, <2>2 DEF Listed
<1>5. ASSUME NEW i \in DOMAIN tail, NEW j \in DOMAIN tail, tail[i].file = tail[j].file
      PROVE  i = j
  <2>1. i + 1 \in DOMAIN todo /\ j + 1 \in DOMAIN todo /\ todo[i + 1].file = todo[j + 1].file
    BY <1>1, <1>2, <1>5
  <2>2. i + 1 = j + 1
    BY <2>1 DEF Listed
  <2>3. QED
    BY <1>1, <1>2, <2>2
<1>6. ASSUME NEW f \in DOMAIN rest PROVE \E i \in DOMAIN tail : tail[i].file = f
  <2>1. f \in DOMAIN mat /\ f # todo[1].file
    BY <1>3
  <2>2. PICK j \in DOMAIN todo : todo[j].file = f
    BY <2>1 DEF Listed
  <2>3. j # 1
    BY <2>1, <2>2
  <2>4. j - 1 \in DOMAIN tail /\ tail[j - 1] = todo[j]
    BY <1>1, <1>2, <2>3
  <2>5. QED
    BY <2>2, <2>4
<1>7. Listed(rest, tail)
  BY <1>4, <1>5, <1>6 DEF Listed
<1>8. QED
  BY <1>7 DEF rest, tail

LEMMA RemoveKeeps ==
  ASSUME PreparedFromBytes, CachesInv, AloneInv, NEW w \in Workers, prune_remove(w)
  PROVE  CachesInv' /\ AloneInv'
<1> DEFINE s == Source(w)
           n == worker[w].total
           todo == worker[w].todo
           next == Head(todo)
           there == next.file \in DOMAIN material
           p == IF there THEN Removing(s, SaturatingSub(n, next.len), Tail(todo)) ELSE Idle(Err(s))
           new == IF there THEN Delete(material, next.file) ELSE material
<1>1. worker[w].pc = "remove" /\ todo # << >> /\ SetHot(w, map_remove(Hot(w), next.file))
  BY DEF prune_remove
<1>2. /\ s \in Prepared /\ n \in Nat /\ todo \in Seq(Entries) /\ kind = "server"
      /\ worker[w] = Removing(s, n, todo)
  BY <1>1, HereHolds, RemovingHolds DEF Source
<1>3. next \in Entries /\ next.len \in Nat /\ Tail(todo) \in Seq(Entries)
  <2>1. next \in Entries /\ Tail(todo) \in Seq(Entries)
    BY <1>1, <1>2
  <2>2. QED
    BY <2>1 DEF Entries
<1>4. Go(w, p) /\ material' = new
  <2>1. CASE there
    <3>1. Go(w, [worker[w] EXCEPT !.todo = Tail(@), !.total = SaturatingSub(@, next.len)])
      BY <2>1 DEF prune_remove
    <3>2. [worker[w] EXCEPT !.todo = Tail(@), !.total = SaturatingSub(@, next.len)] = p
      <4> DEFINE m == SaturatingSub(n, next.len)
                 rest == Tail(todo)
                 q == [worker[w] EXCEPT !.todo = rest]
      <4>1. p = Removing(s, m, rest)
        BY <2>1
      <4> HIDE DEF p, m, rest
      <4>2. q = Removing(s, n, rest)
        BY <1>2 DEF Removing
      <4>3. [q EXCEPT !.total = m] = Removing(s, m, rest)
        <5> HIDE DEF q
        <5>1. QED
          BY <4>2 DEF Removing
      <4>4. [worker[w] EXCEPT !.todo = rest, !.total = m] = [q EXCEPT !.total = m]
        OBVIOUS
      <4>5. [worker[w] EXCEPT !.todo = rest, !.total = m] = p
        BY <4>1, <4>3, <4>4
      <4>6. QED
        BY <4>5 DEF m, rest
    <3>3. material' = new
      BY <2>1 DEF prune_remove
    <3>4. QED
      BY <3>1, <3>2, <3>3
  <2>2. CASE ~there
    BY <2>2 DEF prune_remove, Return
  <2>3. QED
    BY <2>1, <2>2
<1>5. UNCHANGED <<directories, users, restarts, cacheOf, kind, clock, counted>>
  BY DEF prune_remove, bounds
<1>6. SaturatingSub(n, next.len) \in Nat
  BY <1>2, <1>3 DEF SaturatingSub
<1>7. WorkerOK(p)
  <2>1. WorkerOK(Removing(s, SaturatingSub(n, next.len), Tail(todo))) /\ WorkerOK(Idle(Err(s)))
    BY <1>2, <1>3, <1>6, MayBe
  <2>2. QED
    BY <2>1
<1>8. p.pc \in Places(kind)
  BY <1>2 DEF Removing, Idle, Places
<1>9. IsFiniteSet(DOMAIN new) /\ \A k \in DOMAIN new : RightFile(k, new[k])
  BY DeletesRight DEF CachesInv
<1>10. hot_objects' \in [Caches -> Seq(Held)]
  BY <1>1, HereHolds, RemoveHeld, HotKept
<1>11. counted' \in [Caches -> Nat]
  BY <1>5 DEF CachesInv
<1>12. ASSUME SoloOf(worker[w], counted[cacheOf[w]], material)
       PROVE  SoloOf(p, counted[cacheOf[w]], new)
  <2>1. ~InMemoryOnly /\ Clean(material) /\ n = SizeOf(material) /\ Listed(material, todo)
    BY <1>1, <1>12 DEF SoloOf
  <2>2. next.file \in DOMAIN material /\ next.len = material[next.file].len
    <3>1. 1 \in DOMAIN todo /\ next = todo[1]
      BY <1>1, <1>2
    <3>2. QED
      BY <2>1, <3>1 DEF Listed
  <2>3. SizeOf(material) = next.len + SizeOf(new) /\ SizeOf(new) \in Nat
    BY <2>2, FilesHaveSizes, SizeDelete
  <2>4. SaturatingSub(n, next.len) = SizeOf(new)
    BY <1>3, <2>1, <2>3 DEF SaturatingSub
  <2>5. Listed(new, Tail(todo))
    BY <1>1, <1>2, <2>1, <2>2, ListedRest
  <2>6. Clean(new)
    BY <2>1 DEF Clean, Delete
  <2>7. p.pc = "remove" /\ p.total = SizeOf(new) /\ p.todo = Tail(todo)
    BY <2>2, <2>4 DEF Removing
  <2> HIDE DEF p, new
  <2>8. QED
    BY <2>1, <2>5, <2>6, <2>7 DEF SoloOf
<1>13. DOMAIN material = {} => DOMAIN new = {}
  OBVIOUS
<1> HIDE DEF p, new
<1>14. QED
  BY <1>1, <1>2, <1>4, <1>5, <1>7, <1>8, <1>9, <1>10, <1>11, <1>12, <1>13, CallKeeps

\* The counter is set to what is left; with nothing left to remove, nothing is there.
LEMMA PruneEndKeeps ==
  ASSUME PreparedFromBytes, CachesInv, AloneInv, NEW w \in Workers, prune_end(w)
  PROVE  CachesInv' /\ AloneInv'
<1> DEFINE s == Source(w)
           c == cacheOf[w]
           n == worker[w].total
           p == Idle(Ok(s, cached_chpmt_object(s), FALSE))
<1>1. /\ worker[w].pc = "remove" /\ (worker[w].todo = << >> \/ n <= MaxBytes)
      /\ counted' = [counted EXCEPT ![c] = n] /\ Go(w, p)
  BY DEF prune_end, Return, Stored
<1>2. s \in Prepared /\ n \in Nat /\ kind = "server"
  BY <1>1, HereHolds, RemovingHolds DEF Source
<1>3. UNCHANGED <<directories, users, restarts, cacheOf, kind, clock, material, hot_objects>>
  BY DEF prune_end, disk, bounds
<1>4. WorkerOK(p)
  BY <1>2, MayBe
<1>5. p.pc \in Places(kind) /\ p.pc = "idle" /\ p.result.ok
  BY <1>2 DEF Idle, Ok, Places
<1>6. hot_objects' \in [Caches -> Seq(Held)] /\ counted' \in [Caches -> Nat] /\ counted'[c] = n
  BY <1>1, <1>2, <1>3, HereHolds DEF CachesInv
<1>7. ASSUME SoloOf(worker[w], counted[c], material)
      PROVE  SoloOf(p, n, material)
  <2>1. ~InMemoryOnly /\ Clean(material) /\ n = SizeOf(material) /\ Listed(material, worker[w].todo)
    BY <1>1, <1>7 DEF SoloOf
  <2>2. n <= MaxBytes
    <3>1. CASE worker[w].todo = << >>
      <4>1. DOMAIN material = {}
        <5>1. DOMAIN worker[w].todo = {}
          BY <3>1
        <5>2. QED
          BY <2>1, <5>1 DEF Listed
      <4>2. QED
        BY <2>1, <4>1, SizeEmpty, CacheBounds
    <3>2. QED
      BY <1>1, <3>1
  <2> HIDE DEF p
  <2>3. QED
    BY <1>5, <2>1, <2>2 DEF SoloOf
<1>8. /\ IsFiniteSet(DOMAIN material') /\ \A key \in DOMAIN material' : RightFile(key, material'[key])
      /\ kind = "web" => Clean(material')
  BY <1>3 DEF CachesInv
<1> HIDE DEF p
<1>9. QED
  BY <1>1, <1>3, <1>4, <1>5, <1>6, <1>7, <1>8, CallKeeps

(***************************************************************************)
(* The browser's steps, and processes that end.                            *)
(***************************************************************************)
LEMMA FailKeeps ==
  ASSUME CachesInv, AloneInv, NEW w \in Workers, request_fails(w)
  PROVE  CachesInv' /\ AloneInv'
<1> DEFINE p == Idle(Err(Source(w)))
<1>1. kind = "web" /\ worker[w].pc \in {"get", "store", "put"} /\ Go(w, p)
  BY DEF request_fails, Return
<1>2. UNCHANGED <<directories, users, restarts, cacheOf, kind, clock, counted, material, hot_objects>>
  BY DEF request_fails, maps, disk, bounds
<1>3. Source(w) \in Prepared
  BY <1>1, HereHolds, InCallHolds DEF InCall, Source
<1>4. WorkerOK(p)
  BY <1>3, MayBe
<1>5. p.pc \in Places(kind) /\ kind # "server"
  BY <1>1 DEF Idle, Places
<1>6. hot_objects' \in [Caches -> Seq(Held)]
  BY <1>2 DEF CachesInv
<1>7. worker[w].pc # "idle"
  BY <1>1
<1> HIDE DEF p
<1>8. QED
  BY <1>1, <1>2, <1>4, <1>5, <1>6, <1>7, CallKeepsFiles

LEMMA GetKeeps ==
  ASSUME CachesInv, AloneInv, NEW w \in Workers, lookup_object_material(w)
  PROVE  CachesInv' /\ AloneInv'
<1> DEFINE s == Source(w)
           key == KeyOf(s)
           cached == material[key].value
           found == key \in DOMAIN material
           p == IF found THEN Idle(Ok(s, cached, TRUE)) ELSE At("store", s)
<1>1. worker[w].pc = "get" /\ Go(w, p)
  BY DEF lookup_object_material, Return
<1>2. UNCHANGED <<directories, users, restarts, cacheOf, kind, clock, counted, material>>
  BY DEF lookup_object_material, disk, bounds
<1>3. s \in Prepared /\ kind = "web"
  BY <1>1, HereHolds, InCallHolds DEF InCall, Source
<1>4. ASSUME found PROVE \E t \in Prepared : key = KeyOf(t) /\ cached = cached_chpmt_object(t)
  <2>1. material[key].whole
    BY <1>3, <1>4 DEF CachesInv, Clean
  <2>2. QED
    BY <1>4, <2>1 DEF CachesInv, RightFile, TornFile, FileOf
<1>5. WorkerOK(p)
  <2>1. CASE found
    <3>1. PICK t \in Prepared : key = KeyOf(t) /\ cached = cached_chpmt_object(t)
      BY <1>4, <2>1
    <3>2. WorkerOK(Idle(Ok(s, cached_chpmt_object(t), TRUE)))
      BY <1>3, <3>1, MayBe
    <3>3. QED
      BY <2>1, <3>1, <3>2
  <2>2. CASE ~found
    BY <1>3, <2>2, MayBe DEF InCall
  <2>3. QED
    BY <2>1, <2>2
<1>6. hot_objects' \in [Caches -> Seq(Held)]
  <2>1. CASE found
    <3>1. PICK t \in Prepared : key = KeyOf(t) /\ cached = cached_chpmt_object(t)
      BY <1>4, <2>1
    <3>2. PICK new \in insert_object_memory(Hot(w), key, cached) : SetHot(w, new)
      BY <2>1 DEF lookup_object_material
    <3>3. new \in Seq(Held)
      BY <3>1, <3>2, HereHolds, WebInsertHeld
    <3>4. QED
      BY <3>2, <3>3, HotKept
  <2>2. CASE ~found
    BY <2>2 DEF lookup_object_material, CachesInv
  <2>3. QED
    BY <2>1, <2>2
<1>7. p.pc \in Places(kind) /\ kind # "server"
  BY <1>3 DEF Idle, At, Places
<1> HIDE DEF p
<1>8. QED
  BY <1>1, <1>2, <1>5, <1>6, <1>7, CallKeepsFiles

LEMMA PutDescriptorKeeps ==
  ASSUME CachesInv, AloneInv, NEW w \in Workers, put_descriptor(w)
  PROVE  CachesInv' /\ AloneInv'
<1> DEFINE p == At("put", Source(w))
<1>1. worker[w].pc = "store" /\ Go(w, p) /\ kind = "web"
  BY DEF put_descriptor
<1>2. UNCHANGED <<directories, users, restarts, cacheOf, kind, clock, counted, material, hot_objects>>
  BY DEF put_descriptor, maps, bounds
<1>3. Source(w) \in Prepared
  BY <1>1, HereHolds, InCallHolds DEF InCall, Source
<1>4. WorkerOK(p)
  BY <1>3, MayBe DEF InCall
<1>5. p.pc \in Places(kind) /\ kind # "server"
  BY <1>1 DEF At, Places
<1>6. hot_objects' \in [Caches -> Seq(Held)]
  BY <1>2 DEF CachesInv
<1> HIDE DEF p
<1>7. QED
  BY <1>1, <1>2, <1>4, <1>5, <1>6, CallKeepsFiles

LEMMA PutObjectKeeps ==
  ASSUME CachesInv, AloneInv, NEW w \in Workers, put_object(w)
  PROVE  CachesInv' /\ AloneInv'
<1> DEFINE s == Source(w)
           key == KeyOf(s)
           file == FileOf(s, clock)
           mat == Put(material, key, file)
           p == Idle(Ok(s, cached_chpmt_object(s), FALSE))
<1>1. worker[w].pc = "put" /\ Go(w, p) /\ material' = mat
  BY DEF put_object, Return, Stored, FileOf, WholeFile
<1>2. UNCHANGED <<directories, users, restarts, cacheOf, kind, clock, counted>>
  BY DEF put_object, bounds
<1>3. s \in Prepared /\ kind = "web"
  BY <1>1, HereHolds, InCallHolds DEF InCall, Source
<1>4. WorkerOK(p)
  BY <1>3, MayBe
<1>5. p.pc \in Places(kind) /\ kind # "server"
  BY <1>3 DEF Idle, Places
<1>6. hot_objects' \in [Caches -> Seq(Held)]
  <2>1. PICK new \in insert_object_memory(Hot(w), key, cached_chpmt_object(s)) : SetHot(w, new)
    BY DEF put_object
  <2>2. new \in Seq(Held)
    BY <1>3, HereHolds, WebInsertHeld
  <2>3. QED
    BY <2>1, <2>2, HotKept
<1>7. IsFiniteSet(DOMAIN mat) /\ \A k \in DOMAIN mat : RightFile(k, mat[k])
  <2>1. RightFile(key, file)
    BY <1>3 DEF RightFile, CachesInv
  <2>2. QED
    BY <2>1, PutsRight
<1>8. Clean(mat)
  <2>1. file.whole
    BY DEF FileOf
  <2> HIDE DEF file
  <2>2. QED
    BY <1>3, <2>1 DEF Clean, Put, CachesInv
<1>9. counted' \in [Caches -> Nat]
  BY <1>2 DEF CachesInv
<1> HIDE DEF p, mat
<1>10. QED
  BY <1>1, <1>2, <1>4, <1>5, <1>6, <1>7, <1>8, <1>9, CallKeeps

\* A process ends; what is on disk stays.
LEMMA CrashKeeps ==
  ASSUME CachesInv, AloneInv, NEW c \in Caches, crash(c)
  PROVE  CachesInv' /\ AloneInv'
<1>1. \A w \in Workers : worker'[w] = worker[w] \/ worker'[w] = Idle(NoResult)
  BY DEF crash
<1>2. WorkerOK(Idle(NoResult)) /\ Idle(NoResult).pc \in Places(kind)
  BY DEF WorkerOK, Answers, Idle, Places
<1>3. \A w \in Workers : WorkerOK(worker'[w]) /\ worker'[w].pc \in Places(kind)
  BY <1>1, <1>2 DEF CachesInv
<1>4. hot_objects' \in [Caches -> Seq(Held)] /\ counted' \in [Caches -> Nat]
  BY DEF crash, CachesInv
<1>5. /\ IsFiniteSet(DOMAIN material') /\ \A key \in DOMAIN material' : RightFile(key, material'[key])
      /\ kind = "web" => Clean(material')
  BY DEF crash, CachesInv
<1>6. /\ cacheOf' = cacheOf /\ kind' = kind /\ clock' = clock /\ users' = users
      /\ restarts' = restarts + 1 /\ DOMAIN worker' = Workers
  BY DEF crash
<1>7. CachesInv'
  BY <1>3, <1>4, <1>5, <1>6 DEF CachesInv
<1>8. ~Alone'
  BY <1>6 DEF Alone, CachesInv
<1>9. AloneInv'
  BY <1>6, <1>8 DEF AloneInv
<1>10. QED
  BY <1>7, <1>9

\* A clone takes the directory with it.
LEMMA DropKeeps ==
  ASSUME CachesInv, AloneInv, drop_clone
  PROVE  CachesInv' /\ AloneInv'
<1>1. DOMAIN material' = {} /\ directories' = FALSE /\ kind = "server"
  BY DEF drop_clone
<1>2. UNCHANGED <<cacheOf, kind, clock, restarts, hot_objects, counted, worker, users>>
  BY DEF drop_clone, maps, bounds
<1>3. CachesInv'
  BY <1>1, <1>2, FS_EmptySet DEF CachesInv, Clean
<1>4. AloneInv'
  BY <1>1, <1>2 DEF AloneInv
<1>5. QED
  BY <1>3, <1>4

LEMMA CachesStep ==
  ASSUME PreparedFromBytes, CachesInv, AloneInv, [CachesNext]_cacheVars
  PROVE  CachesInv' /\ AloneInv'
<1>1. CASE UNCHANGED cacheVars
  <2>1. UNCHANGED <<cacheOf, kind, clock, restarts, hot_objects, counted, worker, material, directories, users>>
    BY <1>1 DEF cacheVars, maps, disk, bounds
  <2>2. clock' \in Nat
    BY <2>1 DEF CachesInv
  <2>3. QED
    BY <2>1, <2>2, QuietKeeps
<1>2. ASSUME NEW w \in Workers, Step(w) PROVE CachesInv' /\ AloneInv'
  <2>1. CASE \E s \in Prepared : resolve_source(w, s) \/ lookup_source(w, s)
    BY <2>1, ResolveKeeps, LookupKeeps
  <2>2. CASE lookup_exists(w) \/ lookup_predictive_material(w)
    BY <2>2, ExistsKeeps, ReadKeeps
  <2>3. CASE store_source(w) \/ store_hot(w) \/ store_open(w) \/ store_write(w) \/ store_count(w)
    BY <2>3, StoreKeeps, HotKeeps, OpenKeeps, WriteKeeps, CountKeeps
  <2>4. CASE prune_read(w) \/ prune_scan(w) \/ prune_scan_fails(w) \/ prune_remove(w) \/ prune_end(w)
    BY <2>4, PruneReadKeeps, ScanKeeps, ScanFailsKeeps, RemoveKeeps, PruneEndKeeps
  <2>5. CASE request_fails(w) \/ lookup_object_material(w) \/ put_descriptor(w) \/ put_object(w)
    BY <2>5, FailKeeps, GetKeeps, PutDescriptorKeeps, PutObjectKeeps
  <2>6. QED
    BY <1>2, <2>1, <2>2, <2>3, <2>4, <2>5 DEF Step
<1>3. QED
  BY <1>1, <1>2, CrashKeeps, DropKeeps, TickKeeps DEF CachesNext

(***************************************************************************)
(* The theorems.                                                           *)
(***************************************************************************)
\* Both invariants hold: what is held under a key is the object of a source with
\* that key, and a cache that has the directory to itself counts what is there, until a
\* clone is dropped that takes the directory with it.
THEOREM CachesInvariant ==
  ASSUME PreparedFromBytes
  PROVE  CachesSpec => [](CachesInv /\ AloneInv)
<1>1. CachesInit => CachesInv /\ AloneInv
  BY CachesInitially
<1>2. CachesInv /\ AloneInv /\ [CachesNext]_cacheVars => (CachesInv /\ AloneInv)'
  BY CachesStep
<1>3. QED
  BY <1>1, <1>2, PTL DEF CachesSpec

\* A hit is as good as a miss: a resolved source has the canonical bytes and the hash
\* of the source asked for, whatever was evicted, pruned, torn or written by others.
THEOREM HitsAreExact ==
  ASSUME PreparedFromBytes
  PROVE  CachesSpec => []ResolvedIsExact
<1>1. CachesInv => ResolvedIsExact
  <2>1. SUFFICES ASSUME CachesInv, NEW w \in Workers,
                        worker[w].pc = "idle", worker[w].result.done, worker[w].result.ok
                 PROVE  LET r == worker[w].result
                        IN  /\ r.cached.exact_bytes = r.source.canonical_bytes
                            /\ r.cached.descriptor.source_hash = r.source.descriptor.source_hash
    BY DEF ResolvedIsExact
  <2> DEFINE r == worker[w].result
  <2>2. WorkerOK(worker[w])
    BY <2>1 DEF CachesInv
  <2>3. r \in Answers
    BY <2>1, <2>2, IdleHolds
  <2>4. \E s, t \in Prepared : \E hit \in BOOLEAN :
          KeyOf(s) = KeyOf(t) /\ r = Ok(s, cached_chpmt_object(t), hit)
    BY <2>1, <2>3 DEF Answers, NoResult, Err
  <2>5. PICK s \in Prepared, t \in Prepared, hit \in BOOLEAN :
          KeyOf(s) = KeyOf(t) /\ r = Ok(s, cached_chpmt_object(t), hit)
    BY <2>4
  <2>6. s.canonical_bytes = t.canonical_bytes /\ s.descriptor.source_hash = t.descriptor.source_hash
    BY <2>5, KeyTellsContent
  <2>7. /\ r.source = s /\ r.cached.exact_bytes = t.canonical_bytes
        /\ r.cached.descriptor = t.descriptor
    BY <2>5 DEF Ok, cached_chpmt_object
  <2>8. QED
    BY <2>6, <2>7
<1>2. QED
  BY <1>1, CachesInvariant, PTL

\* A cache that has the directory to itself counts exactly what the files hold, keeps to
\* its maximum between calls, and resolves every source; when a dropped clone has taken
\* the directory with it, the maximum is still kept.
THEOREM AloneCounts ==
  ASSUME PreparedFromBytes
  PROVE  CachesSpec => []AloneIsSound
<1>1. CachesInv /\ AloneInv => AloneIsSound
  <2>1. SUFFICES ASSUME CachesInv, AloneInv, kind = "server", Alone,
                        \A w \in Workers : worker[w].pc = "idle"
                 PROVE  /\ DiskBytes <= MaxBytes
                        /\ \A w \in users : ~InMemoryOnly => counted[cacheOf[w]] >= DiskBytes
                        /\ directories =>
                             /\ \A w \in users : ~InMemoryOnly => counted[cacheOf[w]] = DiskBytes
                             /\ \A w \in Workers : worker[w].result.done => worker[w].result.ok
    BY DEF AloneIsSound
  <2>2. DiskBytes = SizeOf(material) /\ SizeOf(material) \in Nat
    BY <2>1, FilesHaveSizes
  <2>3. ASSUME DOMAIN material = {} PROVE SizeOf(material) = 0 /\ SizeOf(material) <= MaxBytes
    BY <2>3, SizeEmpty, CacheBounds
  <2>4. \A w \in users : counted[cacheOf[w]] \in Nat
    BY <2>1 DEF AloneInv, CachesInv
  <2>5. CASE directories
    <3>1. \A w \in users : /\ counted[cacheOf[w]] = SizeOf(material) /\ counted[cacheOf[w]] <= MaxBytes
                           /\ worker[w].result.done => worker[w].result.ok
      BY <2>1, <2>5 DEF AloneInv, SoloOf
    <3>2. \A w \in Workers \ users : ~worker[w].result.done
      BY <2>1, <2>5 DEF AloneInv, Idle, NoResult
    <3>3. SizeOf(material) <= MaxBytes
      <4>1. CASE users = {}
        BY <2>1, <2>3, <2>5, <4>1 DEF AloneInv
      <4>2. CASE users # {}
        BY <3>1, <4>2
      <4>3. QED
        BY <4>1, <4>2
    <3>4. QED
      BY <2>2, <3>1, <3>2, <3>3
  <2>6. CASE ~directories
    <3>1. DOMAIN material = {}
      BY <2>1, <2>6 DEF AloneInv
    <3>2. QED
      BY <2>2, <2>3, <2>4, <2>6, <3>1
  <2>7. QED
    BY <2>5, <2>6
<1>2. QED
  BY <1>1, CachesInvariant, PTL

=============================================================================
