------------------------------ MODULE Learning ------------------------------
(***************************************************************************)
(* What the server learns from the activations it replays: the promotion    *)
(* queues of assemblies, transforms and schemas, the consolidation jobs,    *)
(* the ontology of learned families, and the hints and retirements it then  *)
(* sends (server/src/lib.rs, chpmt.rs).                                     *)
(*                                                                          *)
(* Operators from servers to servers; a server is a record with the fields  *)
(* of LearningStart and others of the modules that extend this one.  A      *)
(* family's number is a digest: here it is what is digested.                *)
(*                                                                          *)
(* The cache of assemblies and transform classes has a directory and keeps   *)
(* it.  It may fail at any use that reaches a file: within one call of the   *)
(* host `uses' uses succeed, the next fails and ends the call.               *)
(***************************************************************************)
EXTENDS Episodes, Catalog

CONSTANTS MaxHints,     \* MAX_PENDING_REPLAY_HINTS
          MaxRetires    \* MAX_PENDING_MEMORY_RETIRES

ASSUME LearningAssumption == {MaxHints, MaxRetires} \subseteq Nat \ {0}

LearningStart(schemas, classes) ==
    [memory |-> EmptyMemory, replay |-> << >>, hints |-> << >>, retires |-> << >>,
     assemblies |-> << >>, schemas |-> schemas, classes |-> classes,
     assemblyQueue |-> << >>, transformQueue |-> << >>, schemaQueue |-> << >>,
     jobs |-> << >>, families |-> << >>, operations |-> << >>,
     filed |-> classes,   \* the classes as their files have them; `classes' is what is looked up
     shelf |-> << >>,     \* the assemblies only the cache has, the first store having failed
     behind |-> {},       \* history: the objects not written after their families were
     uses |-> 0, failed |-> FALSE]

\* The map f with f[k] = v.
With(f, k, v) == [x \in DOMAIN f \union {k} |-> IF x = k THEN v ELSE f[x]]

-----------------------------------------------------------------------------
(* Lifecycles *)

NewLifecycle == [support |-> 0, seen |-> 0, level |-> 0, consolidated |-> 0, family |-> << >>]

record_seen(life, tick) == [life EXCEPT !.support = @ + 1, !.seen = tick]

record_consolidated(life) == [life EXCEPT !.consolidated = @ + 1]

Canonical == 4

promote_level(level) == AtMost(level + 1, Canonical)

Promoted(life) == [life EXCEPT !.level = promote_level(@)]

-----------------------------------------------------------------------------
(* Queues: entries in the order of their rank, those that are ready leave. *)

AssemblyRank(e) == <<e.savings, 0 - e.ambiguity, e.support, 0 - e.id>>

push_assembly(queue, e) ==
    StableSort(Append(queue, e), LAMBDA l, r : Outranks(AssemblyRank(l), AssemblyRank(r)))

AssemblyReady(e) == e.ambiguity <= 8 /\ e.support >= 1

TransformRank(e) == <<e.savings, e.stability, 0 - e.failure, 0 - e.id>>

\* Nothing takes an entry out again.
push_transform(queue, e) ==
    StableSort(Append(queue, e), LAMBDA l, r : Outranks(TransformRank(l), TransformRank(r)))

SchemaRank(e) == <<e.support, 0 - e.burden, e.consistency, e.topology, 0 - e.id>>

push_schema(queue, e) ==
    StableSort(Append(queue, e), LAMBDA l, r : Outranks(SchemaRank(l), SchemaRank(r)))

SchemaReady(e) ==
    /\ e.support >= 1 /\ e.topology >= 1
    /\ e.burden <= 4 * e.support + AtLeast(e.consistency, 1) + 16
    /\ AtLeast(e.consistency, 1) >= AtLeast(e.burden \div 2, 1)

JobRank(j) == <<j.savings, j.support, 0 - j.ambiguity, 0 - j.id>>

push_job(queue, j) ==
    StableSort(Append(queue, j), LAMBDA l, r : Outranks(JobRank(l), JobRank(r)))

JobReady(j) == j.support >= 1 /\ j.ambiguity <= 16

maybe_enqueue_assembly_promotion(s, id, assembly, savings, ambiguity) ==
    [s EXCEPT !.assemblyQueue =
       push_assembly(@, [id |-> id, savings |-> savings, ambiguity |-> ambiguity,
                         support |-> assembly.life.support])]

maybe_enqueue_transform_promotion(s, id) ==
    [s EXCEPT !.transformQueue =
       push_transform(@, [id |-> id, savings |-> s.classes[id].savings,
                          stability |-> s.classes[id].stability, failure |-> s.classes[id].failure])]

maybe_enqueue_schema_promotion(s, schema) ==
    [s EXCEPT !.schemaQueue =
       push_schema(@, [id |-> schema.id, support |-> AtLeast(schema.support, schema.life.support),
                       topology |-> schema.edges + schema.nodes, burden |-> schema.burden,
                       consistency |-> AtLeast(schema.consistency, schema.edges)])]

SchemaAt(s, id) == {i \in DOMAIN s.schemas : s.schemas[i].id = id}

SchemaOf(s, id) == s.schemas[SmallestOf(SchemaAt(s, id))]

\* update_schema and install_schema_def: the schema moves to the end of the list.
update_schema(s, schema) ==
    [s EXCEPT !.schemas = Append(Kept(@, {other \in ToSet(@) : other.id # schema.id}), schema)]

-----------------------------------------------------------------------------
(* Activations *)

\* At the cap the oldest hint makes room.
Queued(s, item, entry) ==
    [s EXCEPT !.replay = push_replay(@, entry),
              !.hints = Append(IF Len(@) >= MaxHints THEN Tail(@) ELSE @,
                               [item |-> item, entry |-> entry])]

Activated(s, item, event) == Queued(s, item, ReplayEntry(s.memory, event))

append_episode_activation_for_item(s, item, event) ==
    Activated([s EXCEPT !.memory = append_activation(@, event)], item, event)

-----------------------------------------------------------------------------
(* From the replay queue to the jobs *)

AtomSubstrate == 1
AssemblyPlane == 2
TransformPlane == 3
EpisodePlane == 4
SchemaPlane == 5

plane_for_object_kind(kind) ==
    CASE kind = AssemblyKind -> AssemblyPlane
      [] kind = TransformKind -> TransformPlane
      [] kind = SchemaKind -> SchemaPlane
      [] kind \in {12, ReplayHint} -> EpisodePlane
      [] OTHER -> AtomSubstrate

JobKind(entry) ==
    CASE entry.event.obj.kind = AssemblyKind ->
           IF entry.ambiguity > 4 THEN "AssemblySplit" ELSE "AssemblyMerge"
      [] entry.event.obj.kind = TransformKind -> "TransformPromotion"
      [] entry.event.obj.kind = SchemaKind -> "SchemaPromotion"
      [] OTHER -> IF entry.reuse > 0 THEN "EpisodeMacroExtraction" ELSE "ObjectRetirement"

\* A replayed object that the server knows is queued for its promotion.
Requeued(s, entry) ==
    LET obj == entry.event.obj
    IN CASE obj.kind = AssemblyKind /\ obj.id \in DOMAIN s.assemblies ->
              maybe_enqueue_assembly_promotion(s, obj.id, s.assemblies[obj.id],
                                               AtLeast(entry.reuse, 1), entry.ambiguity)
         [] obj.kind = TransformKind /\ obj.id \in DOMAIN s.classes ->
              maybe_enqueue_transform_promotion(s, obj.id)
         [] obj.kind = SchemaKind /\ SchemaAt(s, obj.id) # {} ->
              maybe_enqueue_schema_promotion(s, SchemaOf(s, obj.id))
         [] OTHER -> s

\* Bound: the bits of the ticks that occur.
TickBits == 16

Bits(n) == {b \in 0 .. TickBits - 1 : (n \div 2 ^ b) % 2 = 1}

exclusive_or(a, b) ==
    TotalOver((Bits(a) \ Bits(b)) \union (Bits(b) \ Bits(a)), LAMBDA bit : 2 ^ bit)

Job(entry, tick, waiting) ==
    [id |-> exclusive_or(tick, waiting + 1), kind |-> JobKind(entry),
     plane |-> plane_for_object_kind(entry.event.obj.kind), source |-> entry.event.source,
     obj |-> entry.event.obj, support |-> entry.reuse, ambiguity |-> entry.ambiguity,
     savings |-> AtLeast(entry.reuse, entry.surprise)]

\* A class that is not hot is read from its file; one that only the hot map has is there.
Unreadable(s, id) == s.uses = 0 /\ id \in DOMAIN s.classes /\ s.classes[id] = s.filed[id]

LookedUp(s) == [s EXCEPT !.uses = Monus(@, 1)]

Abandoned(s) == [s EXCEPT !.failed = TRUE]

IngestedKnown(s, entry, tick) ==
    [Requeued(s, entry) EXCEPT !.jobs = push_job(@, Job(entry, tick, Len(@)))]

\* The queue was taken: what comes after a lookup that fails is lost with it.
Ingested(s, entry, tick) ==
    IF s.failed THEN s
    ELSE IF entry.event.obj.kind # TransformKind THEN IngestedKnown(s, entry, tick)
    ELSE IF Unreadable(s, entry.event.obj.id) THEN Abandoned(s)
    ELSE IngestedKnown(LookedUp(s), entry, tick)

ingest_replay_into_learning_loop(s, tick) ==
    FoldLeft(LAMBDA acc, entry : Ingested(acc, entry, tick), [s EXCEPT !.replay = << >>], s.replay)

-----------------------------------------------------------------------------
(* The ontology *)

family_id_for_plane(plane, source, obj) == <<plane, source, obj>>

\* Faulty: an assignment that exists keeps the lifecycle it was made with.
FaultyRegister(s, family, source, kind, life) ==
    IF family \in DOMAIN s.families
    THEN [s EXCEPT !.families[family].kinds = @ \union {kind}]
    ELSE [s EXCEPT !.families =
            With(@, family, [source |-> source, kinds |-> {kind}, label |-> "learned",
                             life |-> [life EXCEPT !.family = <<family>>]])]

register_learning_family(s, family, source, kind, life) ==
    [s EXCEPT !.families =
       With(@, family, [source |-> source,
                        kinds |-> (IF family \in DOMAIN @ THEN @[family].kinds ELSE {}) \union {kind},
                        label |-> IF family \in DOMAIN @ THEN @[family].label ELSE "learned",
                        life |-> [life EXCEPT !.family = <<family>>]])]

\* OntologyState::apply for the operations the server makes.
Operation(kind, family) == [kind |-> kind, family |-> family]

promote_family(s, family, level) ==
    [s EXCEPT !.families[family].life.level = level,
              !.operations = Append(@, Operation("Promote", family))]

relabel_family(s, family, label) ==
    [s EXCEPT !.families[family].label = label,
              !.operations = Append(@, Operation("Relabel", family))]

retire_family(s, family) ==
    [s EXCEPT !.families = [f \in DOMAIN @ \ {family} |-> @[f]],
              !.operations = Append(@, Operation("Retire", family))]

Joined(life, family) == [life EXCEPT !.family = <<family>>]

-----------------------------------------------------------------------------
(* Draining *)

\* The cache comes first: when it fails, the server's assembly stays as it was.
persist_assembly(s, id, assembly) ==
    IF s.uses = 0 THEN Abandoned(s)
    ELSE [s EXCEPT !.assemblies = With(@, id, assembly), !.uses = @ - 1]

\* The hot map comes first: when the file fails, the class is new until the map evicts it.
persist_transform_class(s, id, class) ==
    IF s.uses = 0 THEN Abandoned([s EXCEPT !.classes[id] = class])
    ELSE [s EXCEPT !.classes[id] = class, !.filed[id] = class, !.uses = @ - 1]

\* What the host's call leaves of the cache's failures.
Settled(s) == [s EXCEPT !.uses = 0, !.failed = FALSE]

Noted(s, obj) == [s EXCEPT !.behind = IF s.failed THEN @ \union {obj} ELSE @ \ {obj}]

\* The family is written before the object, whose write may fail.
AssemblyJoins(s, id, life, family) ==
    Noted(persist_assembly(s, id, [s.assemblies[id] EXCEPT !.life = Joined(life, family)]),
          ObjectRef(AssemblyKind, id))

PromoteAssemblyAs(s, id, family, life) ==
    AssemblyJoins(promote_family(register_learning_family(s, family, s.assemblies[id].source,
                                                          AssemblyKind, life),
                                 family, life.level),
                  id, life, family)

PromoteAssembly(s, id, tick) ==
    IF s.failed \/ id \notin DOMAIN s.assemblies THEN s
    ELSE PromoteAssemblyAs(s, id,
           family_id_for_plane(AssemblyPlane, s.assemblies[id].source, ObjectRef(AssemblyKind, id)),
           Promoted(record_seen(s.assemblies[id].life, tick)))

PromoteSchemaAs(s, schema, family, life) ==
    update_schema(promote_family(register_learning_family(s, family, schema.source, SchemaKind, life),
                                 family, life.level),
                  [schema EXCEPT !.life = Joined(life, family)])

PromoteSchema(s, id, tick) ==
    IF SchemaAt(s, id) = {} THEN s
    ELSE PromoteSchemaAs(s, SchemaOf(s, id),
           family_id_for_plane(SchemaPlane, SchemaOf(s, id).source, ObjectRef(SchemaKind, id)),
           Promoted(record_seen(SchemaOf(s, id).life, tick)))

ConsolidateAssembly(s, job, family) ==
    LET life == record_consolidated(s.assemblies[job.obj.id].life)
        registered == register_learning_family(s, family, job.source, AssemblyKind, life)
    IN AssemblyJoins(IF job.kind = "AssemblyMerge"
                     THEN relabel_family(registered, family, "assembly_consolidated") ELSE registered,
                     job.obj.id, life, family)

TransformJoins(s, id, life, family, savings) ==
    Noted(persist_transform_class(s, id, [s.classes[id] EXCEPT !.life = Joined(life, family),
                                                               !.savings = @ + savings]),
          ObjectRef(TransformKind, id))

ConsolidateTransform(s, job, family) ==
    LET life == Promoted(record_consolidated(s.classes[job.obj.id].life))
    IN IF Unreadable(s, job.obj.id) THEN Abandoned(s)
       ELSE TransformJoins(register_learning_family(LookedUp(s), family, job.source, TransformKind, life),
                           job.obj.id, life, family, job.savings)

ConsolidateSchema(s, job, family) ==
    LET schema == SchemaOf(s, job.obj.id)
        life == Promoted(record_consolidated(schema.life))
    IN update_schema(register_learning_family(s, family, job.source, SchemaKind, life),
                     [schema EXCEPT !.life = Joined(life, family)])

\* At the cap of the retirements the family is retired and the peer not told.
RetireObject(s, job, family) ==
    [retire_family(s, family) EXCEPT
       !.retires = IF Len(@) < MaxRetires THEN Append(@, [plane |-> job.plane, obj |-> job.obj]) ELSE @]

\* A job of another kind of object than its own is dropped.
RunJobIn(s, job, family) ==
    CASE /\ job.kind \in {"AssemblyMerge", "AssemblySplit"}
         /\ job.obj.kind = AssemblyKind /\ job.obj.id \in DOMAIN s.assemblies ->
           ConsolidateAssembly(s, job, family)
      [] /\ job.kind = "TransformPromotion"
         /\ job.obj.kind = TransformKind /\ job.obj.id \in DOMAIN s.classes ->
           ConsolidateTransform(s, job, family)
      [] /\ job.kind \in {"SchemaPromotion", "EpisodeMacroExtraction"}
         /\ job.obj.kind = SchemaKind /\ SchemaAt(s, job.obj.id) # {} ->
           ConsolidateSchema(s, job, family_id_for_plane(SchemaPlane, job.source, job.obj))
      [] job.kind = "ObjectRetirement" -> RetireObject(s, job, family)
      [] OTHER -> s

RunJob(s, job) ==
    IF s.failed THEN s ELSE RunJobIn(s, job, family_id_for_plane(job.plane, job.source, job.obj))

\* What is ready has left the queue: after a failure the rest of it is lost.
DrainAssemblies(s, tick) ==
    FoldLeft(LAMBDA acc, e : PromoteAssembly(acc, e.id, tick),
             [s EXCEPT !.assemblyQueue = Kept(@, {e \in ToSet(@) : ~AssemblyReady(e)})],
             Kept(s.assemblyQueue, {e \in ToSet(s.assemblyQueue) : AssemblyReady(e)}))

DrainSchemas(s, tick) ==
    FoldLeft(LAMBDA acc, e : PromoteSchema(acc, e.id, tick),
             [s EXCEPT !.schemaQueue = Kept(@, {e \in ToSet(@) : ~SchemaReady(e)})],
             Kept(s.schemaQueue, {e \in ToSet(s.schemaQueue) : SchemaReady(e)}))

DrainJobs(s) ==
    FoldLeft(RunJob, [s EXCEPT !.jobs = Kept(@, {j \in ToSet(@) : ~JobReady(j)})],
             Kept(s.jobs, {j \in ToSet(s.jobs) : JobReady(j)}))

SchemasAndJobs(s, tick) == IF s.failed THEN s ELSE DrainJobs(DrainSchemas(s, tick))

drain_learning_queues(s, tick) == SchemasAndJobs(DrainAssemblies(s, tick), tick)

DrainedUnless(s, tick) == IF s.failed THEN s ELSE drain_learning_queues(s, tick)

run_learning_cycle(s, tick) == DrainedUnless(ingest_replay_into_learning_loop(s, tick), tick)

\* The tick is that of the last entry of the queue, the least surprising one; the error is dropped.
schedule_consolidation_from_replay(s, uses) ==
    Settled(run_learning_cycle([s EXCEPT !.uses = uses],
                               IF s.replay = << >> THEN 0 ELSE s.replay[Len(s.replay)].event.tick))

enqueue_consolidation_job(s, job) == [s EXCEPT !.jobs = push_job(@, job)]

-----------------------------------------------------------------------------
(* What the peer is told: the hints, oldest first, and then the retirements. *)

HintRecord(hint, admissible) ==
    [type |-> "hint", item |-> hint.item, obj |-> hint.entry.event.obj, ctx |-> hint.entry.event.ctx,
     count |-> AtLeast(hint.entry.reuse, 1), admissible |-> admissible]

control_plane_object_kind(plane) ==
    CASE plane = AssemblyPlane -> AssemblyKind
      [] plane = TransformPlane -> TransformKind
      [] plane = SchemaPlane -> SchemaKind
      [] plane = EpisodePlane -> 12
      [] OTHER -> ExactState

RetireRecord(retire) ==
    [type |-> "retire", plane |-> retire.plane, kind |-> control_plane_object_kind(retire.plane),
     obj |-> retire.obj]

\* The records and the server without them; the server finds `admissible' admissible.
emit_pending_control_plane_records(s, max, admissible) ==
    LET hints == AtMost(Len(s.hints), max)
        retires == AtMost(Len(s.retires), max - hints)
    IN [records |-> [i \in 1 .. hints + retires |->
                       IF i <= hints
                       THEN HintRecord(s.hints[i], s.hints[i].entry.event.obj \in admissible)
                       ELSE RetireRecord(s.retires[i - hints])],
        sv |-> [s EXCEPT !.hints = SubSeq(@, hints + 1, Len(@)),
                         !.retires = SubSeq(@, retires + 1, Len(@))]]

=============================================================================
