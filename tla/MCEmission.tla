----------------------------- MODULE MCEmission -----------------------------
(* Contents of 160 to 480 bytes.  AB is what the peer may ask for: A is a    *)
(* range of it, BA its members in another order, ABA a bundle of it, AA a    *)
(* composite of two A.  AC and ACC have the structure of one assembly, TT    *)
(* has a dictionary.                                                         *)
EXTENDS Emission

AB == <<65, 66>>
BA == <<66, 65>>
A == <<65>>
ABA == <<65, 66, 65>>
AA == <<65, 65>>
AC == <<65, 67>>
ACC == <<65, 67, 67>>
TT == <<84, 84>>

MCContents(item) == IF item = 1 THEN {AB, BA, A, ABA, AA, AC, ACC} ELSE {TT}

MCOverheads(content) == IF content \in {AB, TT} THEN {0, 2000} ELSE {0}

\* AB may come without what it was compressed with.
MCDecodings(content) == IF content = AB THEN {content, <<75>>} ELSE {content}

MCTokenized(content) == IF content = TT THEN <<1>> ELSE << >>

MCAssemblies(content) ==
    IF content \notin {AC, ACC} THEN << >>
    ELSE <<[id |-> 1, gain |-> 400, agreement |-> 8, cue |-> derive_sparse_cue(Json, content),
            wire |-> 120, residual |-> 40, decode |-> 2, votes |-> 2, sync |-> 1, ambiguity |-> 2,
            slots |-> 1, support |-> 1, literals |-> {65}, depth |-> 2, len |-> 160 * Len(content),
            min |-> 160, max |-> 640]>>

\* The members of a base in another order.
MCTransforms(cat, content) ==
    LET bases == SelectSeq(Bases(cat), LAMBDA b : /\ ToSet(b.bytes) = ToSet(content)
                                                  /\ Len(b.bytes) = Len(content)
                                                  /\ b.bytes # content)
    IN [i \in DOMAIN bases |->
          [basis |-> bases[i].ref.base, family |-> "RolePermutation", support |-> 200,
           cue |-> derive_sparse_cue(Json, content), planner |-> 400, wire |-> 100, decode |-> 2,
           residual |-> 0, losses |-> 0, failure |-> 0, stability |-> 4]]

Members == <<BundleMember(Block(Json, AB), 0, 2), BundleMember(Block(Json, AB), 0, 1)>>

Asked(blocks, bundles) == [blocks |-> blocks, bundles |-> bundles, cause |-> "MissingBasis"]

MCRequests == {Asked({Block(Json, AB)}, {}), Asked({Block(Json, A)}, {}), Asked({}, {Bundle(Members)})}

MCBundles == {Members}

\* A schema whose graph needs assembly 1.
MCSchemas ==
    {[id |-> 1, source |-> Json, kind |-> "Sequence", cue |-> derive_sparse_cue(Json, A), contexts |-> {},
      deps |-> {}, graph |-> {ObjectRef(AssemblyKind, 1)}, support |-> 60, consistency |-> 40,
      burden |-> 1, decode |-> 1, depth |-> 1, edges |-> 1, nodes |-> 2, slots |-> 1, fanout |-> 1,
      entry |-> 400, len |-> 160, life |-> NewLifecycle]}

MCClasses == 1 :> [life |-> NewLifecycle, savings |-> 4, stability |-> 2, failure |-> 0]

MCAcks == {ObjectRef(AssemblyKind, 1)}

MCActivations ==
    {Event(Json, ObjectRef(SchemaKind, 1), derive_sparse_cue(Json, A), 0, TRUE),
     Event(Json, ObjectRef(AssemblyKind, 1), derive_sparse_cue(Json, A), 0, TRUE),
     Event(Json, ObjectRef(TransformKind, 1), derive_sparse_cue(Json, A), 0, TRUE)}

\* The host may retire what the server learns.
MCHostJobs ==
    {[id |-> 7, kind |-> "ObjectRetirement", plane |-> AssemblyPlane, source |-> Json,
      obj |-> ObjectRef(AssemblyKind, 1), support |-> 1, ambiguity |-> 0, savings |-> 1],
     [id |-> 8, kind |-> "TransformPromotion", plane |-> TransformPlane, source |-> Text,
      obj |-> ObjectRef(TransformKind, 1), support |-> 1, ambiguity |-> 0, savings |-> 1]}

MCAnnounced == {1 :> Json}
=============================================================================
