------------------------------ MODULE Episodes ------------------------------
(***************************************************************************)
(* The episode memory server and client keep of what they sent or received  *)
(* (EpisodeMemory of shared_protocol/src/chpmt.rs): the working trace of    *)
(* activations, the short episode of nodes and edges, the clusters of edges *)
(* by context, the sparse traces with the routes that won on them, and the  *)
(* bounded context model that predicts what comes next.                     *)
(*                                                                          *)
(* A memory is a record and every method an operator from memories to       *)
(* memories.  An object reference is its kind's tag and a number, in the    *)
(* order of the strings; a context hash is what it digests.                 *)
(***************************************************************************)
EXTENDS Cues

CONSTANTS MaxEvents,    \* WorkingTraceMemory.max_events
          MaxNodes,     \* ShortEpisodeMemory.max_nodes
          MaxContexts,  \* ClusteredEpisodeMemory.max_contexts
          MaxTraces,    \* HippocampalShockMemory.max_traces
          MaxSlots,     \* HippocampalShockMemory.max_collision_slots
          MaxOrder,     \* BoundedContextModel.max_order
          MaxBranches   \* BoundedContextModel.max_branches_per_context

ASSUME EpisodeAssumption ==
    {MaxEvents, MaxNodes, MaxContexts, MaxTraces, MaxSlots, MaxOrder, MaxBranches} \subseteq Nat \ {0}

\* The ObjectKind tags that occur.
ExactBlock == 2
ExactBundle == 3
ExactRange == 4
ExactState == 6
AssemblyKind == 9
TransformKind == 10
SchemaKind == 11
ReplayHint == 13
DictionaryKind == 14
PredictiveKind == 15

ObjectRef(kind, id) == [kind |-> kind, id |-> id]

\* The order of the map keys "kind:id": the tag is compared as text.
KeyRank(kind) == IF kind >= 10 THEN kind - 10 ELSE kind

KeyBefore(a, b) ==
    \/ KeyRank(a.kind) < KeyRank(b.kind)
    \/ a.kind = b.kind /\ a.id < b.id

EmptyCue == [family |-> {}, role |-> {}, delimiter |-> {}, length |-> {}, temporal |-> {}]

overlap_score(a, b) ==
    Cardinality(a.family \cap b.family) + Cardinality(a.role \cap b.role)
    + Cardinality(a.delimiter \cap b.delimiter) + Cardinality(a.length \cap b.length)
    + Cardinality(a.temporal \cap b.temporal)

derive_context_hash(cue, obj) == <<cue, obj>>

Event(source, obj, cue, tick, success) ==
    [source |-> source, obj |-> obj, cue |-> cue, ctx |-> derive_context_hash(cue, obj),
     tick |-> tick, success |-> success]

Monus(a, b) == IF a > b THEN a - b ELSE 0

AtMost(a, b) == IF a < b THEN a ELSE b

AtLeast(a, b) == IF a > b THEN a ELSE b

LargestOf(S) == CHOOSE x \in S : \A y \in S : y <= x

SmallestOf(S) == CHOOSE x \in S : \A y \in S : x <= y

TotalOver(S, val(_)) == FoldSet(LAMBDA x, sum : sum + val(x), 0, S)

\* The last n elements of s.
Trim(s, n) == SubSeq(s, Monus(Len(s), n) + 1, Len(s))

\* f with n more at k, entry(k).or_insert(0) += n.
Bumped(f, k, n) ==
    [x \in DOMAIN f \union {k} |->
        (IF x \in DOMAIN f THEN f[x] ELSE 0) + (IF x = k THEN n ELSE 0)]

\* The position i among ordered ones, after the last that it does not come before.
Placed(order, i, before) ==
    InsertAt(order, LargestOf({0} \union {k \in DOMAIN order : <<i, order[k]>> \notin before}) + 1, i)

Ordered(n, before) == FoldLeft(LAMBDA order, i : Placed(order, i, before), << >>, [i \in 1 .. n |-> i])

\* s in the order Before, elements that are equal in it in the order of s.
StableSort(s, Before(_, _)) ==
    LET order == Ordered(Len(s), {p \in (DOMAIN s) \X (DOMAIN s) : Before(s[p[1]], s[p[2]])})
    IN [i \in DOMAIN s |-> s[order[i]]]

\* a is greater than b in the first place in which the two differ.
Outranks(a, b) ==
    LET differ == {i \in DOMAIN a : a[i] # b[i]}
    IN differ # {} /\ a[SmallestOf(differ)] > b[SmallestOf(differ)]

from_distance(d) == Cardinality({bound \in {1, 2, 4, 8, 16, 32} : d > bound})

\* The event before the last one, as a sequence of at most one: Option<&Event>.
NoEvent == << >>

Lag(event, prev) == from_distance(Monus(event.tick, prev[1].tick))

-----------------------------------------------------------------------------
(* Sparse traces *)

NoWins == [won |-> << >>, lost |-> << >>, last |-> 0]

record_win(wins, family, success) ==
    [wins EXCEPT !.won = IF success THEN Bumped(@, family, 1) ELSE @,
                 !.lost = IF success THEN @ ELSE Bumped(@, family, 1),
                 !.last = family]

support_score(wins) ==
    Monus(8 * TotalOver(DOMAIN wins.won, LAMBDA f : wins.won[f]),
          3 * TotalOver(DOMAIN wins.lost, LAMBDA f : wins.lost[f]))

initial_trace_salience(cue, success, lag, transition) ==
    Monus(Cardinality(cue.family) + Cardinality(cue.role) + Cardinality(cue.delimiter)
          + Cardinality(cue.length) + (IF success THEN 16 ELSE 4)
          + transition.from + transition.to, lag)

\* The digest combines these with exclusive or.
trace_family_partition(event, prev) ==
    <<event.cue.family, event.source,
      IF prev = NoEvent THEN event.obj.kind ELSE prev[1].obj.kind, event.obj.kind>>

fresh(id, event, prev) ==
    LET lag == IF prev = NoEvent THEN 0 ELSE Lag(event, prev)
        transition == [from |-> IF prev = NoEvent THEN event.obj.kind ELSE prev[1].obj.kind,
                       to |-> event.obj.kind]
    IN [id |-> id, ctx |-> event.ctx, partition |-> trace_family_partition(event, prev),
        slot |-> 0, source |-> event.source, cue |-> event.cue, lag |-> lag,
        transition |-> transition, obj |-> event.obj, support |-> 1, recency |-> event.tick,
        salience |-> initial_trace_salience(event.cue, event.success, lag, transition),
        wins |-> NoWins]

absorb_activation(trace, event, prev) ==
    LET lag == IF prev = NoEvent THEN trace.lag ELSE Lag(event, prev)
        transition == [from |-> IF prev = NoEvent THEN trace.transition.from ELSE prev[1].obj.kind,
                       to |-> event.obj.kind]
    IN [trace EXCEPT
          !.cue = event.cue, !.ctx = event.ctx, !.lag = lag, !.transition = transition,
          !.support = @ + 1, !.recency = AtLeast(@, event.tick),
          !.salience = AtLeast(@ + (initial_trace_salience(event.cue, event.success, lag, transition)
                                      \div 2),
                               trace.support + 1)]

trace_near_collision(a, b) ==
    /\ a.partition = b.partition
    /\ overlap_score(a.cue, b.cue) >= 8
    /\ a.obj # b.obj

\* A hash of the context, the cue and the transition.
trace_collision_seed(trace) ==
    (31 * (trace.obj.id + Cardinality(trace.cue.role) + trace.transition.from)) % MaxSlots

\* The first slot from the seed on that no near collision holds; the seed when all are.
diversified_collision_slot(traces, candidate) ==
    LET seed == trace_collision_seed(candidate)
        free == {salt \in 0 .. MaxSlots - 1 :
                   ~ \E i \in DOMAIN traces : /\ traces[i].slot = (seed + salt) % MaxSlots
                                              /\ trace_near_collision(traces[i], candidate)}
    IN IF free = {} THEN seed ELSE (seed + SmallestOf(free)) % MaxSlots

SalienceOrder(l, r) ==
    \/ l.salience > r.salience
    \/ l.salience = r.salience /\ \/ l.support > r.support
                                  \/ l.support = r.support /\ l.recency > r.recency

BoundTraces(traces) ==
    IF Len(traces) <= MaxTraces THEN traces
    ELSE SubSeq(StableSort(traces, SalienceOrder), 1, MaxTraces)

\* The traces that an activation like the candidate strengthens.
SameTrace(traces, candidate) ==
    {i \in DOMAIN traces : /\ traces[i].obj = candidate.obj
                           /\ traces[i].ctx = candidate.ctx
                           /\ traces[i].partition = candidate.partition}

\* Faulty: no return after the absorbing, so the candidate is pushed as well.
FaultyIngestSparseTrace(traces, event, prev) ==
    LET candidate == fresh(Len(traces) + 1, event, prev)
        same == SameTrace(traces, candidate)
        absorbed == IF same = {} THEN traces
                    ELSE [traces EXCEPT ![SmallestOf(same)] = absorb_activation(@, event, prev)]
    IN BoundTraces(Append(absorbed, [candidate EXCEPT
                                       !.slot = diversified_collision_slot(absorbed, candidate)]))

IngestedAs(traces, candidate, same, event, prev) ==
    IF same # {}
    THEN [traces EXCEPT ![SmallestOf(same)] = absorb_activation(@, event, prev)]
    ELSE BoundTraces(Append(traces, [candidate EXCEPT
                                       !.slot = diversified_collision_slot(traces, candidate)]))

ingest_sparse_trace(traces, event, prev) ==
    LET candidate == fresh(Len(traces) + 1, event, prev)
    IN IngestedAs(traces, candidate, SameTrace(traces, candidate), event, prev)

-----------------------------------------------------------------------------
(* The context model *)

ContextKeys(context) ==
    {SubSeq(context, i, Len(context)) : i \in AtLeast(1, Len(context) - MaxOrder + 1) .. Len(context)}

observe(counts, context, next) ==
    FoldSet(LAMBDA key, acc : Bumped(acc, <<key, next>>, 1), counts, ContextKeys(context))

\* The counts of every order, per object, the largest first.
MergedCounts(counts, context) ==
    LET known == {at \in DOMAIN counts : at[1] \in ContextKeys(context)}
        objects == {at[2] : at \in known}
        total == [o \in objects |-> TotalOver({at \in known : at[2] = o}, LAMBDA at : counts[at])]
    IN SetToSortSeq({[obj |-> o, count |-> total[o]] : o \in objects},
                    LAMBDA l, r : \/ l.count > r.count
                                  \/ l.count = r.count /\ KeyBefore(l.obj, r.obj))

\* Kinds other than 9 to 13 come back as PredictiveObject.
PredictedRef(obj) == ObjectRef(IF obj.kind \in 9 .. 13 THEN obj.kind ELSE PredictiveKind, obj.id)

Tight == 850
Balanced == 650
Broad == 400

CountBand(count) == IF count >= 8 THEN Tight ELSE IF count >= 4 THEN Balanced ELSE Broad

predict_next_kind(counts, context) ==
    LET ranked == MergedCounts(counts, context)
    IN [i \in 1 .. AtMost(Len(ranked), MaxBranches) |->
          [obj |-> PredictedRef(ranked[i].obj), count |-> ranked[i].count, rank |-> i - 1,
           band |-> CountBand(ranked[i].count)]]

-----------------------------------------------------------------------------
(* The memory *)

EmptyMemory == [events |-> << >>, nodes |-> << >>, edges |-> << >>, clusters |-> << >>,
                traces |-> << >>, counts |-> << >>]

recent_context_hashes(memory) ==
    LET recent == Trim(memory.events, MaxOrder)
    IN [i \in DOMAIN recent |-> recent[i].ctx]

LastEvent(memory) == Trim(memory.events, 1)

previous_working_event(memory) ==
    IF Len(memory.events) >= 2 THEN <<memory.events[Len(memory.events) - 1]>> ELSE NoEvent

edge_transition_count(from, to, edges) ==
    Cardinality({i \in DOMAIN edges : edges[i].from = from /\ edges[i].to = to})

\* The clusters with one more edge; beyond the bound the one of the smallest hash goes,
\* which may be any, the one just written included.
Clustered(clusters, ctx, edge) ==
    LET more == [c \in DOMAIN clusters \union {ctx} |->
                   (IF c \in DOMAIN clusters THEN clusters[c] ELSE << >>)
                     \o (IF c = ctx THEN <<edge>> ELSE << >>)]
        kept == IF Cardinality(DOMAIN more) > MaxContexts
                THEN DOMAIN more \ {CHOOSE c \in DOMAIN more : TRUE}
                ELSE DOMAIN more
    IN [c \in kept |-> more[c]]

\* The node's id is one more than the nodes kept before it, so ids repeat once the short
\* episode is full.  rank_branch compares the decimal ids of nodes with the id of an
\* object, which they precede, so it counts the nodes the origin already leads to.
NewEdge(nodes, edges, event, prev) ==
    LET from == nodes[Len(nodes) - 1].id
        to == nodes[Len(nodes)].id
    IN [id |-> Len(edges) + 1, from |-> from, to |-> to,
        lag |-> IF prev = NoEvent THEN 0 ELSE Lag(event, prev),
        count |-> edge_transition_count(from, to, edges) + 1,
        rank |-> Cardinality({edges[i].to : i \in {e \in DOMAIN edges : edges[e].from = from}})]

EdgeAdded(memory, event, edge) ==
    [memory EXCEPT !.edges = Append(@, edge), !.clusters = Clustered(@, event.ctx, edge)]

append_activation(memory, event) ==
    LET prev == LastEvent(memory)
        events == Trim(Append(memory.events, event), MaxEvents)
        node == [id |-> Len(memory.nodes) + 1, obj |-> event.obj, ctx |-> event.ctx]
        nodes == Trim(Append(memory.nodes, node), MaxNodes)
    IN [(IF Len(nodes) >= 2 THEN EdgeAdded(memory, event, NewEdge(nodes, memory.edges, event, prev))
         ELSE memory)
          EXCEPT !.events = events, !.nodes = nodes,
                 !.traces = ingest_sparse_trace(@, event, prev),
                 !.counts = observe(@, recent_context_hashes([memory EXCEPT !.events = events]),
                                    event.obj)]

\* The newest trace of the source and the context that is not later than the tick; an
\* empty sequence stands for no constraint.
Rewarded(traces, source, ctx, tick) ==
    {i \in DOMAIN traces : /\ source # << >> => traces[i].source = source[1]
                           /\ ctx # << >> => traces[i].ctx = ctx[1]
                           /\ traces[i].recency <= tick}

Reinforced(trace, family, tick, success) ==
    [trace EXCEPT
       !.wins = record_win(@, family, success),
       !.recency = AtLeast(@, tick),
       !.salience = @ + (IF ~success THEN 2
                         ELSE IF family \in DOMAIN trace.wins.won THEN 8 ELSE 24),
       !.support = IF success THEN @ + 1 ELSE @]

\* No trace to reward: the last event is ingested once more and the last trace credited.
CreditedLast(traces, family, tick) ==
    LET last == traces[Len(traces)]
    IN [traces EXCEPT ![Len(traces)] =
          [last EXCEPT !.wins = record_win(@, family, TRUE), !.salience = @ + 24,
                       !.support = @ + 1, !.recency = tick]]

Recredited(memory, family, tick) ==
    CreditedLast(ingest_sparse_trace(memory.traces, LastEvent(memory)[1],
                                     previous_working_event(memory)), family, tick)

record_trace_outcome(memory, family, source, ctx, tick, success) ==
    LET match == Rewarded(memory.traces, source, ctx, tick)
    IN IF match # {}
       THEN [memory EXCEPT !.traces[LargestOf(match)] = Reinforced(@, family, tick, success)]
       ELSE IF success /\ memory.events # << >>
       THEN [memory EXCEPT !.traces = Recredited(memory, family, tick)]
       ELSE memory

-----------------------------------------------------------------------------
(* What may come next *)

trace_recency_score(last, tick) ==
    IF last = 0 \/ tick = 0 THEN 0 ELSE 64 - AtMost(Monus(last, tick), 63)

trace_transition_match(previous, trace) ==
    IF previous = NoEvent THEN 4
    ELSE IF previous[1].obj.kind = trace.transition.from THEN 24
    ELSE IF previous[1].obj.kind = trace.transition.to THEN 8 ELSE 0

trace_lag_match(lag, trace) ==
    IF lag = trace.lag THEN 16 ELSE Monus(8, 2 * AtLeast(lag - trace.lag, trace.lag - lag))

ObservedLag(memory) ==
    IF Len(memory.events) >= 2 THEN Lag(LastEvent(memory)[1], previous_working_event(memory)) ELSE 0

LastCue(memory) == IF memory.events = << >> THEN EmptyCue ELSE LastEvent(memory)[1].cue

LastTick(memory) == IF memory.events = << >> THEN 0 ELSE LastEvent(memory)[1].tick

\* What a trace contributes to its object's candidate.
Contribution(memory, t) ==
    [obj |-> t.obj, lag |-> t.lag,
     overlap |-> overlap_score(LastCue(memory), t.cue),
     match |-> trace_transition_match(LastEvent(memory), t),
     support |-> support_score(t.wins),
     recency |-> trace_recency_score(LastTick(memory), t.recency),
     count |-> t.support + (support_score(t.wins) \div 8)
                 + (trace_lag_match(ObservedLag(memory), t) \div 4)]

TraceBand(c) ==
    IF c.overlap >= 12 \/ c.support >= 16 THEN Tight
    ELSE IF c.overlap >= 6 \/ c.match >= 16 THEN Balanced ELSE Broad

Contributions(memory) ==
    SelectSeq([i \in DOMAIN memory.traces |-> Contribution(memory, memory.traces[i])],
              LAMBDA c : c.overlap # 0 \/ c.match # 0 \/ c.support # 0)

\* The candidate for obj from its predictions P and the contributions given, the
\* last of which sets the lag.
Candidate(obj, P, given) ==
    LET G == ToSet(given)
        largest(val(_)) == LargestOf({0} \union {val(c) : c \in G})
    IN [obj |-> obj,
        count |-> TotalOver(P, LAMBDA p : p.count)
                    + FoldSeq(LAMBDA c, sum : sum + c.count, 0, given),
        rank |-> IF P = {} THEN 0 ELSE SmallestOf({p.rank : p \in P}),
        overlap |-> largest(LAMBDA c : c.overlap),
        recency |-> largest(LAMBDA c : c.recency),
        support |-> largest(LAMBDA c : c.support),
        match |-> largest(LAMBDA c : c.match),
        lag |-> IF given = << >> THEN 0 ELSE given[Len(given)].lag,
        band |-> LargestOf({p.band : p \in P} \union {TraceBand(c) : c \in G})]

episode_candidate_score(c) == c.count + 2 * c.overlap + 2 * c.support + c.recency + c.match

\* The order of the candidates: the first field in which two differ decides.
CandidateRank(c) ==
    <<episode_candidate_score(c), c.support, c.overlap, c.recency, c.match, c.count, 0 - c.rank>>

CandidateBefore(l, r) ==
    \/ Outranks(CandidateRank(l), CandidateRank(r))
    \/ CandidateRank(l) = CandidateRank(r) /\ l.obj.id < r.obj.id

\* EpisodeCandidatePolicy::bounded_default.
MaxFanout == 8
MinTransitionCount == 1
MaxBranchRank == 7

\* One candidate for every object that is predicted or that a trace leads to.
Candidates(P, given) ==
    {Candidate(o, {p \in P : p.obj = o}, SelectSeq(given, LAMBDA c : c.obj = o)) :
       o \in {p.obj : p \in P} \union {c.obj : c \in ToSet(given)}}

Renumbered(ranked) ==
    [i \in 1 .. AtMost(Len(ranked), MaxFanout) |-> [ranked[i] EXCEPT !.rank = i - 1]]

generate_episode_completion_candidates(memory) ==
    LET all == Candidates(ToSet(predict_next_kind(memory.counts, recent_context_hashes(memory))),
                          Contributions(memory))
        allowed == {c \in all : c.count >= MinTransitionCount /\ c.rank <= MaxBranchRank}
    IN Renumbered(SetToSortSeq(allowed,
                               LAMBDA l, r : \/ CandidateBefore(l, r)
                                             \/ ~CandidateBefore(r, l) /\ KeyBefore(l.obj, r.obj)))

\* EpisodeReplayQueue::push keeps the most surprising first.
ReplayBefore(l, r) ==
    \/ l.surprise > r.surprise
    \/ l.surprise = r.surprise /\ \/ l.reuse > r.reuse
                                  \/ l.reuse = r.reuse /\ l.ambiguity < r.ambiguity

push_replay(pending, entry) == StableSort(Append(pending, entry), ReplayBefore)

Expected(event, predictions) ==
    [event |-> event,
     surprise |-> IF predictions = << >> THEN 1
                  ELSE IF predictions[1].obj = event.obj THEN 0
                  ELSE predictions[1].count + 1,
     reuse |-> overlap_score(event.cue, event.cue),
     ambiguity |-> Len(predictions)]

\* The entry append_episode_activation_for_item queues for an event, from the memory
\* that already holds it.
ReplayEntry(memory, event) ==
    Expected(event, generate_episode_completion_candidates(memory))

=============================================================================
