------------------------------- MODULE Router -------------------------------
(***************************************************************************)
(* How the server picks a route for an item: the outcomes it remembers per  *)
(* route family (RouteStatistics, the context tree governor, the prediction *)
(* suffix tree and the bandit), the score of a plan and the resonance that  *)
(* selects one (chpmt.rs, pst.rs, bandit.rs and the end of state_policy.rs). *)
(*                                                                          *)
(* Everything is an operator on values.  A plan holds the sums its score is *)
(* made of; what a candidate costs and gains is data of the candidate.      *)
(***************************************************************************)
EXTENDS Episodes

CONSTANTS RecentWindow,   \* RouteFeedbackSummary::RECENT_TICK_WINDOW
          StatsLimit,     \* statistics kept before record_route_outcome_detail prunes
          StatsAge,       \* ticks after which a statistic is stale
          PruneEvery,     \* the ticks between two prunings
          WindowLimit     \* PST_CONTEXT_WINDOW

ASSUME RouterAssumption ==
    /\ {RecentWindow, StatsLimit, StatsAge, WindowLimit} \subseteq Nat
    /\ PruneEvery \in Nat \ {0}

\* ControllerRouteFamily.
DirectState == 1
ExactAtom == 2
Hybrid == 7

\* PrecisionBand::score_value, with Tight, Balanced and Broad of Episodes.
ExactBand == 1000

-----------------------------------------------------------------------------
(* Feedback: one statistic per family, source and context. *)

NoStatistic == [succ |-> 0, fail |-> 0, seen |-> 0]

\* Statistics are kept under "family:source:context".
Recorded(stats, key, tick, success) ==
    LET old == IF key \in DOMAIN stats THEN stats[key] ELSE NoStatistic
        new == [succ |-> old.succ + (IF success THEN 1 ELSE 0),
                fail |-> old.fail + (IF success THEN 0 ELSE 1), seen |-> tick]
    IN [k \in DOMAIN stats \union {key} |-> IF k = key THEN new ELSE stats[k]]

PruneStale(stats, tick) ==
    IF Cardinality(DOMAIN stats) > StatsLimit /\ tick % PruneEvery = 0
    THEN [k \in {k \in DOMAIN stats : Monus(tick, stats[k].seen) < StatsAge} |-> stats[k]]
    ELSE stats

record_statistic(stats, family, source, ctx, tick, success) ==
    PruneStale(Recorded(stats, <<family, source, ctx>>, tick, success), tick)

SumOf(stats, keys, f) == TotalOver(keys, LAMBDA k : stats[k][f])

RecentKeys(stats, keys, tick) == {k \in keys : Monus(tick, stats[k].seen) <= RecentWindow}

summarize_route_feedback(stats, family, source, ctx, tick) ==
    LET keys == {k \in DOMAIN stats : k[1] = family}
        Both(K) == [succ |-> SumOf(stats, K, "succ"), fail |-> SumOf(stats, K, "fail")]
    IN [total |-> Both(keys),
        source |-> Both({k \in keys : k[2] = <<source>>}),
        context |-> Both({k \in keys : ctx # << >> /\ k[3] = ctx}),
        recent |-> Both(RecentKeys(stats, keys, tick))]

planner_prior_gain(fb) ==
    AtMost((fb.total.succ \div 2) + fb.source.succ + 2 * fb.context.succ, 96)

planner_failure_penalty(fb) ==
    AtMost((fb.total.fail \div 2) + fb.source.fail + 2 * fb.context.fail, 128)

success_promotion_gain(fb) ==
    IF fb.recent.succ >= 3 /\ fb.recent.succ > fb.recent.fail THEN AtMost(6 * fb.recent.succ, 48) ELSE 0

suppression_penalty(fb) ==
    IF fb.recent.fail >= 3 /\ fb.recent.fail > fb.recent.succ THEN AtMost(12 * fb.recent.fail, 160) ELSE 0

SuppressionLimit == 72

suppressed(fb) == suppression_penalty(fb) >= SuppressionLimit

-----------------------------------------------------------------------------
(* The context tree governor: outcomes under the prefixes of a symbol.  Its depth is 4, so of
   a symbol only the family, the delimiter class, the slot shape and the schema kind count. *)

MaxDepth == 4

delimiter_class(cue) ==
    1 + Cardinality({bound \in {0, 2, 5} : Cardinality(cue.delimiter) > bound})

slot_shape(slots) == 1 + Cardinality({bound \in {0, 2, 4} : slots > bound})

Symbol(family, cue, slots, schema) == <<family, delimiter_class(cue), slot_shape(slots), schema>>

Outcome(success, sync, mass) ==
    [succ |-> IF success THEN 1 ELSE 0, fail |-> IF success THEN 0 ELSE 1,
     back |-> 0, sync |-> IF sync THEN 1 ELSE 0, mass |-> mass]

NoOutcome == [succ |-> 0, fail |-> 0, back |-> 0, sync |-> 0, mass |-> 0]

observe_symbol(governor, symbol, outcome) ==
    LET keys == {SubSeq(symbol, 1, d) : d \in 1 .. MaxDepth}
        Old(k) == IF k \in DOMAIN governor THEN governor[k] ELSE NoOutcome
    IN [k \in DOMAIN governor \union keys |->
          IF k \in keys THEN [f \in DOMAIN NoOutcome |-> Old(k)[f] + outcome[f]] ELSE governor[k]]

\* The mean over the known prefixes, the longer ones weighing more.
Weighted(governor, symbol, f) ==
    LET depths == {d \in 1 .. MaxDepth : SubSeq(symbol, 1, d) \in DOMAIN governor}
    IN IF depths = {} THEN 0
       ELSE TotalOver(depths, LAMBDA d : d * governor[SubSeq(symbol, 1, d)][f])
              \div TotalOver(depths, LAMBDA d : d)

SignalOf(m) ==
    [prior |-> AtMost(Monus(10 * m.succ, 2 * m.fail), 96),
     failure |-> AtMost(8 * m.fail + 6 * m.back, 128),
     suppression |-> IF m.fail + m.back + m.sync > m.succ
                     THEN AtMost(6 * (m.fail + m.back + m.sync), 160) ELSE 0,
     residual |-> AtMost(m.mass \div 8, 48),
     sync |-> AtMost(8 * m.sync, 48)]

signal_for(governor, symbol) ==
    SignalOf([f \in DOMAIN NoOutcome |-> Weighted(governor, symbol, f)])

-----------------------------------------------------------------------------
(* The prediction suffix tree.  It is trained with one token at a time, so no context is ever
   stored and what it predicts is the most frequent token. *)

EmptyTree == [nodes |-> << >>, marginal |-> << >>, total |-> 0]

TreeDepth == 8

\* The contexts and next tokens of a training sequence.
Transitions(sequence) ==
    {at \in (2 .. Len(sequence)) \X (1 .. TreeDepth) : at[2] < at[1]}

train(tree, sequence) ==
    [nodes |-> FoldSet(LAMBDA at, acc : Bumped(acc, <<SubSeq(sequence, at[1] - at[2], at[1] - 1),
                                                     sequence[at[1]]>>, 1),
                       tree.nodes, Transitions(sequence)),
     marginal |-> FoldSeq(LAMBDA token, acc : Bumped(acc, token, 1), tree.marginal, sequence),
     total |-> tree.total + Len(sequence)]

\* prune drops the contexts that predict no token better than its share by more than a
\* twentieth.
prune(tree) ==
    LET Total(context) == TotalOver({n \in DOMAIN tree.nodes : n[1] = context}, LAMBDA n : tree.nodes[n])
        retained == {n[1] : n \in {m \in DOMAIN tree.nodes :
                       20 * (tree.nodes[m] * tree.total - tree.marginal[m[2]] * Total(m[1]))
                         > Total(m[1]) * tree.total}}
    IN [tree EXCEPT !.nodes = [n \in {m \in DOMAIN tree.nodes : m[1] \in retained} |-> tree.nodes[n]]]

\* The most frequent of the tokens counted, any of them when several are.
Frequent(counts) == {t \in DOMAIN counts : \A u \in DOMAIN counts : counts[u] <= counts[t]}

\* The counts after the longest known suffix of the window, the marginal when none is known.
PredictionCounts(tree, window) ==
    LET known == {d \in 1 .. AtMost(TreeDepth, Len(window)) :
                    \E n \in DOMAIN tree.nodes : n[1] = Trim(window, d)}
        context == Trim(window, LargestOf({0} \union known))
    IN IF known = {} THEN tree.marginal
       ELSE [t \in {n[2] : n \in {m \in DOMAIN tree.nodes : m[1] = context}} |-> tree.nodes[<<context, t>>]]

\* The tokens predict may return with the share, in tenths, that it needs.
predict(tree, window, tenths) ==
    IF tree.total = 0 \/ window = << >> THEN {}
    ELSE LET counts == PredictionCounts(tree, window)
             sum == TotalOver(DOMAIN counts, LAMBDA t : counts[t])
         IN {t \in Frequent(counts) : 10 * counts[t] >= tenths * sum}

\* PST_CONFIDENCE_HIGH_THRESHOLD, in tenths.
HighConfidence == 9

NoArms == [pulls |-> 0, succ |-> << >>, fail |-> << >>]

\* Ucb1RouteSelector::record_outcome; nothing reads the scores.
record_arm(arms, family, success) ==
    [pulls |-> arms.pulls + 1,
     succ |-> IF success THEN Bumped(arms.succ, family, 1) ELSE arms.succ,
     fail |-> IF success THEN arms.fail ELSE Bumped(arms.fail, family, 1)]

-----------------------------------------------------------------------------
(* Scores *)

\* The resonance fields of a plan that are not 0.
NoDrive == [agreement |-> 0, contradiction |-> 0, decode |-> 0, sync |-> 0, episodic |-> 0,
            schema |-> 0, fit |-> 0, novelty |-> 0]

\* The adaptive part of a score: feedback of the family and the governor's signal.
AdaptiveFrom(fb, signal) ==
    [prior |-> planner_prior_gain(fb) + signal.prior,
     failure |-> planner_failure_penalty(fb) + signal.failure,
     promotion |-> success_promotion_gain(fb),
     suppression |-> suppression_penalty(fb) + signal.suppression,
     residual |-> signal.residual, sync |-> signal.sync]

Adaptive(sel, stats, family, slots) ==
    AdaptiveFrom(summarize_route_feedback(stats, family, sel.source, sel.ctx, sel.tick),
                 signal_for(sel.governor, Symbol(family, sel.cue, slots, sel.schema)))

score_route(gains, penalties, band, adaptive) ==
    [total |-> gains + band + adaptive.prior + adaptive.promotion
                 - penalties - adaptive.failure - adaptive.suppression,
     penalties |-> penalties, suppression |-> adaptive.suppression]

Plan(route, family, score, drive, slots, schema, data) ==
    [route |-> route, family |-> family, score |-> score, drive |-> drive, slots |-> slots,
     schema |-> schema, data |-> data]

score_direct_state_route(len, a) == score_route(0, len + 1 + (len \div 4), ExactBand, a)

DirectPlan(len, a) ==
    LET score == score_direct_state_route(len, a)
    IN Plan("DirectState", DirectState, score,
            [NoDrive EXCEPT !.decode = 1, !.novelty = score.penalties \div 6], 0, << >>, << >>)

AtomPlan(len, a, deps, atom) ==
    Plan("ExactAtom", ExactAtom, score_route(24 + 48, 4 + 2 + 4, ExactBand, a),
         [NoDrive EXCEPT !.agreement = len \div 2, !.decode = 2, !.sync = 4 * deps], 0, << >>, atom)

HybridPlan(len, a, sel, components, route) ==
    Plan("Hybrid", Hybrid,
         score_route(16 + overlap_score(sel.cue, sel.cue), 16 + 6 + 8 + a.residual + 10 + a.sync,
                     Balanced, a),
         [NoDrive EXCEPT !.agreement = len \div 4, !.decode = 6, !.sync = 10,
                         !.novelty = 2 * components], 0, << >>, route)

\* SchemaGuidance: what the strongest schema candidate adds to an assembly.
gain_for_assembly(schemas, sel, c) ==
    IF schemas = << >> THEN 0
    ELSE Monus(((overlap_score(sel.cue, schemas[1].cue) + overlap_score(c.cue, schemas[1].cue)) \div 2)
                 + AtMost(schemas[1].consistency, IF c.slots > 0 THEN 24 ELSE 8)
                 + AtMost(schemas[1].support, 16),
               AtMost(schemas[1].burden, 12))

schema_prefers_transform_family(kind, family) ==
    <<kind, family>> \in {<<"Sequence", "BoundedReorder">>, <<"Template", "SlotBind">>,
                          <<"Alternation", "DelimiterPreservingRewrite">>,
                          <<"Permutation", "RolePermutation">>,
                          <<"Expansion", "SchemaConditionedExpansion">>}

gain_for_transform(schemas, sel, t) ==
    IF schemas = << >> THEN 0
    ELSE Monus(overlap_score(sel.cue, schemas[1].cue)
                 + (IF schema_prefers_transform_family(schemas[1].kind, t.family)
                    THEN AtMost(schemas[1].consistency, 24) ELSE 0)
                 + AtMost(schemas[1].support, 16),
               AtMost(schemas[1].burden, 12))

mismatch_penalty_for_transform(schemas, t) ==
    IF \/ schemas = << >>
       \/ schemas[1].overlap < 16
       \/ schema_prefers_transform_family(schemas[1].kind, t.family)
    THEN 0
    ELSE AtMost(schemas[1].burden + (schemas[1].decode \div 2), 24)

AssemblyPlan(c, sel, schemas, a) ==
    Plan("Assembly", DirectState,
         score_route(c.gain + (c.agreement \div 2) + overlap_score(sel.cue, c.cue) + c.agreement
                       + gain_for_assembly(schemas, sel, c),
                     c.wire + (c.residual \div 2) + c.decode + Monus(c.votes, 1) + c.residual
                       + a.residual + c.sync + a.sync + c.ambiguity,
                     Balanced, a),
         [NoDrive EXCEPT !.agreement = c.agreement + c.votes, !.contradiction = c.ambiguity,
                         !.decode = c.decode, !.sync = c.sync,
                         !.schema = overlap_score(sel.cue, c.cue),
                         !.novelty = (c.residual \div 8) + (c.ambiguity \div 2)],
         c.slots, << >>, c)

TransformPlan(t, sel, schemas, a) ==
    Plan("Transform", DirectState,
         score_route(t.support + overlap_score(sel.cue, t.cue) + gain_for_transform(schemas, sel, t)
                       + t.planner,
                     t.wire + t.decode + t.residual + a.residual + 8 + a.sync
                       + mismatch_penalty_for_transform(schemas, t) + 2 * t.losses,
                     Tight, a),
         [NoDrive EXCEPT !.agreement = t.support \div 2, !.contradiction = t.failure,
                         !.decode = t.decode, !.sync = 8, !.schema = overlap_score(sel.cue, t.cue),
                         !.fit = t.stability, !.novelty = t.failure + (t.residual \div 8)],
         0, << >>, t)

EpisodePlan(e, a) ==
    Plan("EpisodeCompletion", DirectState,
         score_route(e.count + (e.support \div 4) + e.overlap + e.count + e.match + (e.recency \div 2),
                     6 + e.lag + 6 + 18 + a.sync + e.rank + (IF e.overlap = 0 THEN 8 ELSE 0), e.band, a),
         [NoDrive EXCEPT !.agreement = e.match, !.contradiction = e.rank, !.decode = 6, !.sync = 18,
                         !.episodic = e.count + (e.recency \div 2), !.schema = e.overlap \div 2,
                         !.novelty = e.lag],
         0, << >>, e)

SchemaPlan(s, a) ==
    Plan("SchemaExpansion", DirectState,
         score_route(s.entry + s.support + (s.consistency \div 2) + s.overlap
                       + Monus(s.overlap + s.consistency, AtMost(s.burden, s.overlap \div 2)),
                     (s.len \div 8) + AtLeast(s.decode, s.depth) + 4 * Cardinality(s.deps) + a.sync
                       + s.fanout + (s.burden \div 2) + (s.decode \div 4) + a.residual,
                     Balanced, a),
         [NoDrive EXCEPT !.agreement = s.support + (s.consistency \div 2), !.contradiction = s.burden,
                         !.decode = AtLeast(s.decode, s.depth), !.sync = 4 * Cardinality(s.deps),
                         !.episodic = s.support \div 2, !.schema = s.overlap + s.consistency,
                         !.novelty = s.fanout],
         0, <<s.kind>>, s)

-----------------------------------------------------------------------------
(* Resonance *)

Drive(d) == d.agreement + d.episodic + d.schema + (d.fit \div 2)

Excitation(d) == Drive(d) - (d.contradiction + d.decode + (d.sync \div 2) + d.novelty)

\* Two plans inhibit each other when their families differ.
inhibition_penalty(winner, loser) ==
    IF winner.family = loser.family THEN 0
    ELSE AtMost(Drive(winner.drive), 64)
           - (AtMost(loser.drive.contradiction + loser.drive.novelty + (loser.drive.sync \div 2), 32) \div 2)

\* max_by keeps the last of the greatest.
WinnerOf(plans, totals) ==
    LargestOf({i \in DOMAIN plans : \A j \in DOMAIN plans :
                 \/ totals[j] < totals[i]
                 \/ totals[j] = totals[i] /\ plans[j].score.total <= plans[i].score.total})

Inhibited(plans, totals, winner) ==
    [i \in DOMAIN plans |-> IF i = winner THEN totals[i]
                            ELSE totals[i] - inhibition_penalty(plans[winner], plans[i])]

ResonanceRound(plans, totals) == Inhibited(plans, totals, WinnerOf(plans, totals))

Excited(plans, totals) == [i \in DOMAIN plans |-> totals[i] + Excitation(plans[i].drive)]

Resonated(plans) ==
    LET once == ResonanceRound(plans, Excited(plans, [i \in DOMAIN plans |-> plans[i].score.total]))
        twice == ResonanceRound(plans, Excited(plans, once))
    IN ResonanceRound(plans, Excited(plans, twice))

\* The tag of the route family, which the families map to.
RouteTag(family) == IF family = DirectState THEN 1 ELSE IF family = Hybrid THEN 3 ELSE 9

\* The greatest total, then the greatest score, then the smallest tag, then the last.
Chosen(plans, totals) ==
    plans[LargestOf({i \in DOMAIN plans : \A j \in DOMAIN plans :
            \/ totals[j] < totals[i]
            \/ /\ totals[j] = totals[i]
               /\ \/ plans[j].score.total < plans[i].score.total
                  \/ /\ plans[j].score.total = plans[i].score.total
                     /\ RouteTag(plans[j].family) >= RouteTag(plans[i].family)})]

choose_by_resonance(plans) == Chosen(plans, Resonated(plans))

=============================================================================
