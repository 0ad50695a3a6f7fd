----------------------------- MODULE FrameProofs -----------------------------
(***************************************************************************)
(* Proofs about the two compositions of transport frames, PlainPipeline and  *)
(* SdkDuplex.                                                               *)
(*                                                                         *)
(* PlainPipeline: whatever sends fail, the client accepts a prefix of what   *)
(* the server emitted, and the two sets of counters the server keeps agree   *)
(* while it is careful.  The argument has three layers.  First, every loop   *)
(* of the code that the model writes as a fold gets its laws (on nothing,    *)
(* and on one item more) from module Induction.  From them: sealing keeps    *)
(* records as they are, a copy of the sealing protector opens the frame and  *)
(* counts its records' positions back, packing loses nothing.  Last, the     *)
(* invariant PipelineInv: the frames in flight are a path from the client's  *)
(* protector to the connection's, or the connection's protector has fallen   *)
(* behind the plain session for good.                                       *)
(*                                                                         *)
(* SdkDuplex: each end receives a prefix of what the other sent, also when   *)
(* both send at once or a read times out, and no key is used twice while no  *)
(* sends cross.  A frame of the SDK carries one record, so every loop runs   *)
(* once.  The invariant DuplexInv says what is on the wire of an endpoint    *)
(* that has not given up: a length and a body for every frame it has not     *)
(* received, the first perhaps without its length.                          *)
(***************************************************************************)
EXTENDS PlainPipeline, SdkDuplex, Induction


----------------------------------------------------------------------------
(* Records and protectors of the pipeline. *)

Emittable ==
  {r \in Record : /\ validate(r)
                  /\ r.epoch > 0 /\ r.seq = 0 => r.confirm
                  /\ r.type = "Rekey" => r.next = r.epoch + 1}

Sane == {p \in Protector : post_rekey_confirm_required(p) => p.pending.epoch > 0}

Counters(p) == [epoch |-> expected_epoch_id(p), seq |-> expected_seq_no(p),
                confirm |-> post_rekey_confirm_required(p)]

\* The counters after a record.
CountersAfter(r) ==
  IF r.type = "Rekey" THEN [epoch |-> r.epoch + 1, seq |-> 0, confirm |-> TRUE]
  ELSE [epoch |-> r.epoch, seq |-> r.seq + 1, confirm |-> FALSE]

\* The counters of a protector are counters.
LEMMA CountersType ==
  ASSUME NEW p \in Sane
  PROVE  /\ Counters(p).epoch \in Nat /\ Counters(p).seq \in Nat /\ Counters(p).confirm \in BOOLEAN
         /\ Counters(p).confirm => Counters(p).epoch > 0 /\ Counters(p).seq = 0
<1>1. p \in Protector /\ p.epoch \in Nat /\ p.seq \in Nat /\ p.pending.epoch \in Nat
  BY DEF Sane, Protector, PendingRekey
<1>2. QED
  BY <1>1 DEF Sane, Counters, expected_epoch_id, expected_seq_no, post_rekey_confirm_required

\* A finished record that was due leaves a sane protector which counts on from it.
LEMMA FinishFacts ==
  ASSUME NEW p \in Sane, NEW r \in Emittable, HeaderIsDue(p, r)
  PROVE  /\ finish_success(p, r) \in Sane
         /\ ~FinishFails(p, r)
         /\ Counters(finish_success(p, r)) = CountersAfter(r)
         /\ Closed(finish_success(p, r)) => Closed(p) \/ r.type = "Close"
<1> DEFINE q == Advance(p, r)
<1>1. p \in Protector /\ r \in Record
  BY DEF Sane, Emittable
<1>2. r.epoch \in Nat /\ r.seq \in Nat /\ r.next \in Nat
  BY <1>1 DEF Record
<1>3. ActiveRoot(p) \in Root
  BY <1>1 DEF ActiveRoot, Protector, PendingRekey
<1>4. NextRoot(ActiveRoot(p), r.epoch, r.seq) \in Root
  BY <1>2, <1>3 DEF NextRoot, Root, Derivation
<1>5. NoRekey \in PendingRekey
  BY DEF NoRekey, PendingRekey, Root
<1>6. expected_epoch_id(p) = r.epoch
  BY DEF HeaderIsDue
<1>7. /\ q \in Protector
      /\ q.epoch = r.epoch /\ q.seq = r.seq + 1 /\ q.pending = NoRekey
      /\ q.state = "Closed" => Closed(p)
  BY <1>2, <1>4, <1>5, <1>6 DEF Advance, Protector, StreamState
<1> HIDE DEF q
<1>8. q \in Sane
  BY <1>7 DEF Sane, post_rekey_confirm_required
<1>9. Counters(q) = [epoch |-> r.epoch, seq |-> r.seq + 1, confirm |-> FALSE]
  BY <1>7 DEF Counters, expected_epoch_id, expected_seq_no, post_rekey_confirm_required
<1>10. CASE r.type = "Rekey"
  <2> DEFINE d == derive_rekey_root(q.root, q.epoch, r.body)
             x == [epoch |-> r.next, root |-> d]
  <2>1. r.next = r.epoch + 1 /\ r.body \in Seeds
    BY <1>1, <1>10 DEF Emittable, Record
  <2>2. d \in Root
    BY <1>7, <2>1 DEF derive_rekey_root, Root, Derivation, Protector
  <2>3. x \in PendingRekey /\ x # NoRekey /\ x.epoch = r.epoch + 1
    BY <1>2, <2>1, <2>2 DEF PendingRekey, NoRekey
  <2>4. ~RekeyRefused(q, r)
    BY <1>7, <2>1 DEF RekeyRefused
  <2>5. finish_success(p, r) = [q EXCEPT !.pending = x, !.state = "RekeyPending"]
    BY <1>10, <2>4 DEF finish_success, install_rekey, q
  <2> HIDE DEF x
  <2>6. /\ finish_success(p, r) \in Protector
        /\ finish_success(p, r).pending = x
        /\ finish_success(p, r).state = "RekeyPending"
    BY <1>7, <2>3, <2>5 DEF Protector, StreamState
  <2>7. finish_success(p, r) \in Sane
    BY <1>2, <2>3, <2>6 DEF Sane
  <2>8. Counters(finish_success(p, r)) = CountersAfter(r)
    BY <1>10, <2>3, <2>6 DEF Counters, CountersAfter, expected_epoch_id, expected_seq_no,
                             post_rekey_confirm_required
  <2>9. QED
    BY <2>4, <2>6, <2>7, <2>8 DEF FinishFails, Closed, q
<1>11. CASE r.type = "Close"
  <2>1. finish_success(p, r) = [q EXCEPT !.state = "Closed"]
    BY <1>11 DEF finish_success, q
  <2>2. finish_success(p, r) \in Protector
    BY <1>7, <2>1 DEF Protector, StreamState
  <2>3. /\ finish_success(p, r).pending = q.pending /\ finish_success(p, r).epoch = q.epoch
        /\ finish_success(p, r).seq = q.seq
    BY <1>7, <2>1 DEF Protector
  <2>4. finish_success(p, r) \in Sane /\ Counters(finish_success(p, r)) = Counters(q)
    BY <1>8, <2>2, <2>3 DEF Sane, Counters, expected_epoch_id, expected_seq_no,
                            post_rekey_confirm_required
  <2>5. QED
    BY <1>9, <1>11, <2>4 DEF FinishFails, CountersAfter
<1>12. CASE r.type # "Rekey" /\ r.type # "Close"
  <2>1. finish_success(p, r) = q
    BY <1>12 DEF finish_success, q
  <2>2. QED
    BY <1>7, <1>8, <1>9, <1>12, <2>1 DEF FinishFails, CountersAfter, Closed
<1>13. QED
  BY <1>10, <1>11, <1>12

\* Preparing a record of this pipeline changes nothing: it is refused, or it has
\* the confirm mark exactly when it is due.
LEMMA PrepareFacts ==
  ASSUME NEW p \in Sane, NEW r \in Emittable
  PROVE  /\ PrepareRefuses(p, r) <=> ~HeaderIsDue(p, r)
         /\ HeaderIsDue(p, r) => prepare_record_for_epoch(p, r) = r
<1>1. r \in Record /\ r.epoch \in Nat /\ r.seq \in Nat /\ r.confirm \in BOOLEAN
  BY DEF Emittable, Record
<1>2. post_rekey_confirm_required(p) \in BOOLEAN
  BY DEF post_rekey_confirm_required
<1>3. post_rekey_confirm_required(p) =>
        expected_epoch_id(p) > 0 /\ expected_seq_no(p) = 0
  BY DEF Sane, expected_epoch_id, expected_seq_no
<1>4. r.epoch > 0 /\ r.seq = 0 => r.confirm
  BY DEF Emittable
<1>5. PrepareRefuses(p, r) <=> ~HeaderIsDue(p, r)
  BY <1>1, <1>2, <1>3, <1>4 DEF PrepareRefuses, HeaderIsDue
<1>6. ASSUME HeaderIsDue(p, r) PROVE prepare_record_for_epoch(p, r) = r
  <2>1. r.confirm = (r.confirm \/ post_rekey_confirm_required(p))
    BY <1>1, <1>2, <1>6 DEF HeaderIsDue
  <2>2. r = [r EXCEPT !.confirm = r.confirm]
    BY <1>1 DEF Record
  <2>3. QED
    BY <2>1, <2>2, Zenon DEF prepare_record_for_epoch
<1>7. QED
  BY <1>5, <1>6

----------------------------------------------------------------------------
(* The loops of the code are folds; each is given by what it makes of no     *)
(* records and of one record more.                                          *)

SealAcc == [ok : BOOLEAN, p : Sane, recs : Seq(Emittable)]
SealF == [x \in SealAcc \X Emittable |-> SealStep(x[1], x[2])]

\* One record in protect_transport_records: it is sealed when it is due.
LEMMA SealStepIs ==
  ASSUME NEW acc \in SealAcc, NEW r \in Emittable
  PROVE  /\ SealStep(acc, r) =
              IF acc.ok /\ HeaderIsDue(acc.p, r)
              THEN [ok |-> TRUE, p |-> finish_success(acc.p, r), recs |-> Append(acc.recs, r)]
              ELSE [acc EXCEPT !.ok = FALSE]
         /\ SealStep(acc, r) \in SealAcc
<1>1. acc.p \in Sane /\ acc.recs \in Seq(Emittable) /\ acc.ok \in BOOLEAN
  BY DEF SealAcc
<1>2. validate(r)
  BY DEF Emittable
<1>3. CASE acc.ok /\ HeaderIsDue(acc.p, r)
  <2>1. prepare_record_for_epoch(acc.p, r) = r /\ ~PrepareRefuses(acc.p, r)
    BY <1>1, <1>3, PrepareFacts
  <2>2. ~FinishFails(acc.p, r) /\ finish_success(acc.p, r) \in Sane
    BY <1>1, <1>3, FinishFacts
  <2>3. SealStep(acc, r) =
          [ok |-> TRUE, p |-> finish_success(acc.p, r), recs |-> Append(acc.recs, r)]
    BY <1>2, <1>3, <2>1, <2>2 DEF SealStep
  <2>4. Append(acc.recs, r) \in Seq(Emittable)
    BY <1>1
  <2>5. QED
    BY <1>3, <2>2, <2>3, <2>4 DEF SealAcc
<1>4. CASE ~(acc.ok /\ HeaderIsDue(acc.p, r))
  <2>1. ~acc.ok \/ PrepareRefuses(acc.p, r)
    BY <1>1, <1>4, PrepareFacts
  <2>2. SealStep(acc, r) = [acc EXCEPT !.ok = FALSE]
    BY <2>1 DEF SealStep
  <2>3. QED
    BY <1>4, <2>2 DEF SealAcc
<1>5. QED
  BY <1>3, <1>4

SealStart(p) == [ok |-> TRUE, p |-> p, recs |-> << >>]

\* The step is a function of the kind folds take.
LEMMA SealTypes ==
  ASSUME NEW p \in Sane
  PROVE  SealF \in Steps(SealAcc, Emittable) /\ SealStart(p) \in SealAcc
BY SealStepIs DEF SealF, Steps, SealStart, SealAcc

\* The loop of protect_transport_records is a fold.
LEMMA SealRunIs ==
  ASSUME NEW p \in Sane, NEW recs \in Seq(Emittable)
  PROVE  SealRun(p, recs) = Result(SealF, SealAcc, SealStart(p), recs)
<1> DEFINE Solves(h) ==
             h = [s \in SUBSET DOMAIN recs |->
                    IF s = {} THEN SealStart(p) ELSE SealStep(h[s \ {Max(s)}], recs[Max(s)])]
           it == CHOOSE h : Solves(h)
<1>1. SealF \in Steps(SealAcc, Emittable) /\ SealStart(p) \in SealAcc
  BY SealTypes
<1>2. PICK h : PeelsOf(SealF, SealAcc, Emittable, SealStart(p), recs, h)
  BY <1>1, PeelOfExists
<1>3. Solves(h)
  BY <1>2 DEF PeelsOf, SealF
<1>4. Solves(it)
  <2> HIDE DEF Solves
  <2>1. QED
    BY <1>3, Zenon
<1>5. SealRun(p, recs) = it[DOMAIN recs]
  BY DEF SealRun, SealStart, FoldLeft, MapThenFoldSet
<1> HIDE DEF it
<1>6. it[{}] = SealStart(p)
  BY <1>4
<1>7. ASSUME NEW d \in SUBSET DOMAIN recs, d # {}, it[d \ {Max(d)}] \in SealAcc
      PROVE  it[d] = SealF[<<it[d \ {Max(d)}], recs[Max(d)]>>]
  <2>1. it[d] = SealStep(it[d \ {Max(d)}], recs[Max(d)])
    BY <1>4, <1>7
  <2>2. recs[Max(d)] \in Emittable
    BY <1>2, <1>7 DEF PeelsOf
  <2>3. QED
    BY <1>7, <2>1, <2>2 DEF SealF
<1>8. PeelsTo(SealF, SealAcc, SealStart(p), recs, it)
  BY <1>6, <1>7 DEF PeelsTo
<1>9. QED
  BY <1>1, <1>5, <1>8, PeelIsResult

\* The loop on no records, and on one record more.
LEMMA SealRunLaws ==
  ASSUME NEW p \in Sane, NEW recs \in Seq(Emittable)
  PROVE  /\ SealRun(p, recs) \in SealAcc
         /\ SealRun(p, << >>) = SealStart(p)
         /\ \A r \in Emittable : SealRun(p, Append(recs, r)) = SealStep(SealRun(p, recs), r)
<1>1. SealF \in Steps(SealAcc, Emittable) /\ SealStart(p) \in SealAcc /\ << >> \in Seq(Emittable)
  BY SealTypes
<1>2. SealRun(p, << >>) = SealStart(p)
  BY <1>1, SealRunIs, ResultEmpty
<1>3. SealRun(p, recs) \in SealAcc
  BY <1>1, SealRunIs, ResultType
<1>4. ASSUME NEW r \in Emittable PROVE SealRun(p, Append(recs, r)) = SealStep(SealRun(p, recs), r)
  <2>1. Append(recs, r) \in Seq(Emittable)
    OBVIOUS
  <2>2. SealRun(p, Append(recs, r)) = Result(SealF, SealAcc, SealStart(p), Append(recs, r))
    BY <2>1, SealRunIs
  <2>3. SealRun(p, recs) = Result(SealF, SealAcc, SealStart(p), recs)
    BY SealRunIs
  <2>4. Result(SealF, SealAcc, SealStart(p), Append(recs, r)) = SealF[<<Result(SealF, SealAcc, SealStart(p), recs), r>>]
    BY <1>1, ResultAppend
  <2>5. QED
    BY <1>3, <2>2, <2>3, <2>4 DEF SealF
<1>5. QED
  BY <1>2, <1>3, <1>4

OpenAcc == [ok : BOOLEAN, p : Sane]
OpenStart(p) == [ok |-> TRUE, p |-> p]
OpenRun(p, recs) == FoldLeft(OpenStep, OpenStart(p), recs)
OpenF == [x \in OpenAcc \X Emittable |-> OpenStep(x[1], x[2])]

\* One record in unprotect_transport_frame: it is opened when it is due.
LEMMA OpenStepIs ==
  ASSUME NEW acc \in OpenAcc, NEW r \in Emittable
  PROVE  /\ OpenStep(acc, r) = IF acc.ok /\ HeaderIsDue(acc.p, r)
                               THEN [ok |-> TRUE, p |-> finish_success(acc.p, r)]
                               ELSE [acc EXCEPT !.ok = FALSE]
         /\ OpenStep(acc, r) \in OpenAcc
<1>1. acc.p \in Sane /\ acc.ok \in BOOLEAN /\ validate(r)
  BY DEF OpenAcc, Emittable
<1>2. CASE acc.ok /\ HeaderIsDue(acc.p, r)
  <2>1. ~FinishFails(acc.p, r) /\ finish_success(acc.p, r) \in Sane
    BY <1>1, <1>2, FinishFacts
  <2>2. QED
    BY <1>1, <1>2, <2>1 DEF OpenStep, OpenAcc
<1>3. CASE ~(acc.ok /\ HeaderIsDue(acc.p, r))
  BY <1>1, <1>3 DEF OpenStep, OpenAcc
<1>4. QED
  BY <1>2, <1>3

\* The step is a function of the kind folds take.
LEMMA OpenTypes ==
  ASSUME NEW p \in Sane
  PROVE  OpenF \in Steps(OpenAcc, Emittable) /\ OpenStart(p) \in OpenAcc
BY OpenStepIs DEF OpenF, Steps, OpenStart, OpenAcc

\* The loop of unprotect_transport_frame is a fold.
LEMMA OpenRunIs ==
  ASSUME NEW p \in Sane, NEW recs \in Seq(Emittable)
  PROVE  OpenRun(p, recs) = Result(OpenF, OpenAcc, OpenStart(p), recs)
<1> DEFINE Solves(h) ==
             h = [s \in SUBSET DOMAIN recs |->
                    IF s = {} THEN OpenStart(p) ELSE OpenStep(h[s \ {Max(s)}], recs[Max(s)])]
           it == CHOOSE h : Solves(h)
<1>1. OpenF \in Steps(OpenAcc, Emittable) /\ OpenStart(p) \in OpenAcc
  BY OpenTypes
<1>2. PICK h : PeelsOf(OpenF, OpenAcc, Emittable, OpenStart(p), recs, h)
  BY <1>1, PeelOfExists
<1>3. Solves(h)
  BY <1>2 DEF PeelsOf, OpenF
<1>4. Solves(it)
  <2> HIDE DEF Solves
  <2>1. QED
    BY <1>3, Zenon
<1>5. OpenRun(p, recs) = it[DOMAIN recs]
  BY DEF OpenRun, FoldLeft, MapThenFoldSet
<1> HIDE DEF it
<1>6. it[{}] = OpenStart(p)
  BY <1>4
<1>7. ASSUME NEW d \in SUBSET DOMAIN recs, d # {}, it[d \ {Max(d)}] \in OpenAcc
      PROVE  it[d] = OpenF[<<it[d \ {Max(d)}], recs[Max(d)]>>]
  <2>1. it[d] = OpenStep(it[d \ {Max(d)}], recs[Max(d)])
    BY <1>4, <1>7
  <2>2. recs[Max(d)] \in Emittable
    BY <1>2, <1>7 DEF PeelsOf
  <2>3. QED
    BY <1>7, <2>1, <2>2 DEF OpenF
<1>8. PeelsTo(OpenF, OpenAcc, OpenStart(p), recs, it)
  BY <1>6, <1>7 DEF PeelsTo
<1>9. QED
  BY <1>1, <1>5, <1>8, PeelIsResult

\* That loop on no records, and on one record more.
LEMMA OpenRunLaws ==
  ASSUME NEW p \in Sane, NEW recs \in Seq(Emittable)
  PROVE  /\ OpenRun(p, recs) \in OpenAcc
         /\ OpenRun(p, << >>) = OpenStart(p)
         /\ \A r \in Emittable : OpenRun(p, Append(recs, r)) = OpenStep(OpenRun(p, recs), r)
<1>1. OpenF \in Steps(OpenAcc, Emittable) /\ OpenStart(p) \in OpenAcc /\ << >> \in Seq(Emittable)
  BY OpenTypes
<1>2. OpenRun(p, << >>) = OpenStart(p)
  <2>1. OpenRun(p, << >>) = Result(OpenF, OpenAcc, OpenStart(p), << >>)
    BY <1>1, OpenRunIs
  <2>2. QED
    BY <1>1, <2>1, ResultEmpty
<1>3. OpenRun(p, recs) \in OpenAcc
  BY <1>1, OpenRunIs, ResultType
<1>4. ASSUME NEW r \in Emittable PROVE OpenRun(p, Append(recs, r)) = OpenStep(OpenRun(p, recs), r)
  <2>1. Append(recs, r) \in Seq(Emittable)
    OBVIOUS
  <2>2. OpenRun(p, Append(recs, r)) = Result(OpenF, OpenAcc, OpenStart(p), Append(recs, r))
    BY <2>1, OpenRunIs
  <2>3. OpenRun(p, recs) = Result(OpenF, OpenAcc, OpenStart(p), recs)
    BY OpenRunIs
  <2>4. Result(OpenF, OpenAcc, OpenStart(p), Append(recs, r)) = OpenF[<<Result(OpenF, OpenAcc, OpenStart(p), recs), r>>]
    BY <1>1, ResultAppend
  <2>5. QED
    BY <1>3, <2>2, <2>3, <2>4 DEF OpenF
<1>5. QED
  BY <1>2, <1>3, <1>4

CompactRecord ==
  {c \in [type : RecordType, confirm : BOOLEAN, body : Bodies \cup Seeds, next : Nat] :
     c.type = "Rekey" => c.body \in Seeds}

DecodeAcc == [recs : Seq(Record), epoch : Nat, seq : Nat]
DecodeStart(e, n) == [recs |-> << >>, epoch |-> e, seq |-> n]
DecodeRun(e, n, cs) == FoldLeft(DecodeStep, DecodeStart(e, n), cs)
DecodeF == [x \in DecodeAcc \X CompactRecord |-> DecodeStep(x[1], x[2])]

\* The step is a function of the kind folds take.
LEMMA DecodeTypes ==
  ASSUME NEW e \in Nat, NEW n \in Nat
  PROVE  DecodeF \in Steps(DecodeAcc, CompactRecord) /\ DecodeStart(e, n) \in DecodeAcc
<1>1. ASSUME NEW acc \in DecodeAcc, NEW c \in CompactRecord PROVE DecodeStep(acc, c) \in DecodeAcc
  <2>1. [type |-> c.type, confirm |-> c.confirm, body |-> c.body, next |-> c.next,
         epoch |-> acc.epoch, seq |-> acc.seq] \in Record
    BY DEF DecodeAcc, CompactRecord, Record
  <2>2. QED
    BY <2>1 DEF DecodeStep, DecodeAcc
<1>2. QED
  BY <1>1 DEF DecodeF, Steps, DecodeStart, DecodeAcc

\* decode_compact_transport_records is a fold.
LEMMA DecodeRunIs ==
  ASSUME NEW e \in Nat, NEW n \in Nat, NEW cs \in Seq(CompactRecord)
  PROVE  DecodeRun(e, n, cs) = Result(DecodeF, DecodeAcc, DecodeStart(e, n), cs)
<1> DEFINE Solves(h) ==
             h = [s \in SUBSET DOMAIN cs |->
                    IF s = {} THEN DecodeStart(e, n) ELSE DecodeStep(h[s \ {Max(s)}], cs[Max(s)])]
           it == CHOOSE h : Solves(h)
<1>1. DecodeF \in Steps(DecodeAcc, CompactRecord) /\ DecodeStart(e, n) \in DecodeAcc
  BY DecodeTypes
<1>2. PICK h : PeelsOf(DecodeF, DecodeAcc, CompactRecord, DecodeStart(e, n), cs, h)
  BY <1>1, PeelOfExists
<1>3. Solves(h)
  BY <1>2 DEF PeelsOf, DecodeF
<1>4. Solves(it)
  <2> HIDE DEF Solves
  <2>1. QED
    BY <1>3, Zenon
<1>5. DecodeRun(e, n, cs) = it[DOMAIN cs]
  BY DEF DecodeRun, FoldLeft, MapThenFoldSet
<1> HIDE DEF it
<1>6. it[{}] = DecodeStart(e, n)
  BY <1>4
<1>7. ASSUME NEW d \in SUBSET DOMAIN cs, d # {}, it[d \ {Max(d)}] \in DecodeAcc
      PROVE  it[d] = DecodeF[<<it[d \ {Max(d)}], cs[Max(d)]>>]
  <2>1. it[d] = DecodeStep(it[d \ {Max(d)}], cs[Max(d)])
    BY <1>4, <1>7
  <2>2. cs[Max(d)] \in CompactRecord
    BY <1>2, <1>7 DEF PeelsOf
  <2>3. QED
    BY <1>7, <2>1, <2>2 DEF DecodeF
<1>8. PeelsTo(DecodeF, DecodeAcc, DecodeStart(e, n), cs, it)
  BY <1>6, <1>7 DEF PeelsTo
<1>9. QED
  BY <1>1, <1>5, <1>8, PeelIsResult

\* Decoding nothing, and one compact record more.
LEMMA DecodeRunLaws ==
  ASSUME NEW e \in Nat, NEW n \in Nat, NEW cs \in Seq(CompactRecord)
  PROVE  /\ DecodeRun(e, n, cs) \in DecodeAcc
         /\ DecodeRun(e, n, << >>) = DecodeStart(e, n)
         /\ \A c \in CompactRecord : DecodeRun(e, n, Append(cs, c)) = DecodeStep(DecodeRun(e, n, cs), c)
<1>1. DecodeF \in Steps(DecodeAcc, CompactRecord) /\ DecodeStart(e, n) \in DecodeAcc /\ << >> \in Seq(CompactRecord)
  BY DecodeTypes
<1>2. DecodeRun(e, n, << >>) = DecodeStart(e, n)
  <2>1. DecodeRun(e, n, << >>) = Result(DecodeF, DecodeAcc, DecodeStart(e, n), << >>)
    BY <1>1, DecodeRunIs
  <2>2. QED
    BY <1>1, <2>1, ResultEmpty
<1>3. DecodeRun(e, n, cs) \in DecodeAcc
  BY <1>1, DecodeRunIs, ResultType
<1>4. ASSUME NEW c \in CompactRecord PROVE DecodeRun(e, n, Append(cs, c)) = DecodeStep(DecodeRun(e, n, cs), c)
  <2>1. Append(cs, c) \in Seq(CompactRecord)
    OBVIOUS
  <2>2. DecodeRun(e, n, Append(cs, c)) = Result(DecodeF, DecodeAcc, DecodeStart(e, n), Append(cs, c))
    BY <2>1, DecodeRunIs
  <2>3. DecodeRun(e, n, cs) = Result(DecodeF, DecodeAcc, DecodeStart(e, n), cs)
    BY DecodeRunIs
  <2>4. Result(DecodeF, DecodeAcc, DecodeStart(e, n), Append(cs, c)) = DecodeF[<<Result(DecodeF, DecodeAcc, DecodeStart(e, n), cs), c>>]
    BY <1>1, ResultAppend
  <2>5. QED
    BY <1>3, <2>2, <2>3, <2>4 DEF DecodeF
<1>5. QED
  BY <1>2, <1>3, <1>4

Frame == {protect_transport_records(p, recs).frame : p \in Sane, recs \in Seq(Emittable)}

Group == Seq(Emittable) \ {<< >>}

GroupAcc == [ok : BOOLEAN, p : Sane, frames : Seq(Frame)]
GroupStart(p) == [ok |-> TRUE, p |-> p, frames |-> << >>]
GroupRun(p, groups) == FoldLeft(GroupStep, GroupStart(p), groups)
GroupF == [x \in GroupAcc \X Group |-> GroupStep(x[1], x[2])]

\* The step is a function of the kind folds take.
LEMMA GroupTypes ==
  ASSUME NEW p \in Sane
  PROVE  GroupF \in Steps(GroupAcc, Group) /\ GroupStart(p) \in GroupAcc
<1>1. ASSUME NEW acc \in GroupAcc, NEW g \in Group PROVE GroupStep(acc, g) \in GroupAcc
  <2> DEFINE out == protect_transport_records(acc.p, g)
  <2>1. acc.ok \in BOOLEAN /\ acc.p \in Sane /\ acc.frames \in Seq(Frame) /\ g \in Seq(Emittable)
    BY DEF GroupAcc, Group
  <2>2. SealRun(acc.p, g).p \in Sane
    BY <2>1, SealRunLaws DEF SealAcc
  <2>3. out.ok \in BOOLEAN /\ out.p \in Sane
    BY <2>1, <2>2 DEF protect_transport_records
  <2>4. out.frame \in Frame
    BY <2>1 DEF Frame
  <2> HIDE DEF out
  <2>5. Append(acc.frames, out.frame) \in Seq(Frame)
    BY <2>1, <2>4
  <2>6. QED
    BY <2>1, <2>3, <2>5 DEF GroupStep, GroupAcc, out
<1>2. QED
  BY <1>1 DEF GroupF, Steps, GroupStart, GroupAcc

\* Sealing one group after the other is a fold.
LEMMA GroupRunIs ==
  ASSUME NEW p \in Sane, NEW groups \in Seq(Group)
  PROVE  GroupRun(p, groups) = Result(GroupF, GroupAcc, GroupStart(p), groups)
<1> DEFINE Solves(h) ==
             h = [s \in SUBSET DOMAIN groups |->
                    IF s = {} THEN GroupStart(p) ELSE GroupStep(h[s \ {Max(s)}], groups[Max(s)])]
           it == CHOOSE h : Solves(h)
<1>1. GroupF \in Steps(GroupAcc, Group) /\ GroupStart(p) \in GroupAcc
  BY GroupTypes
<1>2. PICK h : PeelsOf(GroupF, GroupAcc, Group, GroupStart(p), groups, h)
  BY <1>1, PeelOfExists
<1>3. Solves(h)
  BY <1>2 DEF PeelsOf, GroupF
<1>4. Solves(it)
  <2> HIDE DEF Solves
  <2>1. QED
    BY <1>3, Zenon
<1>5. GroupRun(p, groups) = it[DOMAIN groups]
  BY DEF GroupRun, FoldLeft, MapThenFoldSet
<1> HIDE DEF it
<1>6. it[{}] = GroupStart(p)
  BY <1>4
<1>7. ASSUME NEW d \in SUBSET DOMAIN groups, d # {}, it[d \ {Max(d)}] \in GroupAcc
      PROVE  it[d] = GroupF[<<it[d \ {Max(d)}], groups[Max(d)]>>]
  <2>1. it[d] = GroupStep(it[d \ {Max(d)}], groups[Max(d)])
    BY <1>4, <1>7
  <2>2. groups[Max(d)] \in Group
    BY <1>2, <1>7 DEF PeelsOf
  <2>3. QED
    BY <1>7, <2>1, <2>2 DEF GroupF
<1>8. PeelsTo(GroupF, GroupAcc, GroupStart(p), groups, it)
  BY <1>6, <1>7 DEF PeelsTo
<1>9. QED
  BY <1>1, <1>5, <1>8, PeelIsResult

\* Sealing no groups, and one group more.
LEMMA GroupRunLaws ==
  ASSUME NEW p \in Sane, NEW groups \in Seq(Group)
  PROVE  /\ GroupRun(p, groups) \in GroupAcc
         /\ GroupRun(p, << >>) = GroupStart(p)
         /\ \A g \in Group : GroupRun(p, Append(groups, g)) = GroupStep(GroupRun(p, groups), g)
<1>1. GroupF \in Steps(GroupAcc, Group) /\ GroupStart(p) \in GroupAcc /\ << >> \in Seq(Group)
  BY GroupTypes
<1>2. GroupRun(p, << >>) = GroupStart(p)
  <2>1. GroupRun(p, << >>) = Result(GroupF, GroupAcc, GroupStart(p), << >>)
    BY <1>1, GroupRunIs
  <2>2. QED
    BY <1>1, <2>1, ResultEmpty
<1>3. GroupRun(p, groups) \in GroupAcc
  BY <1>1, GroupRunIs, ResultType
<1>4. ASSUME NEW g \in Group PROVE GroupRun(p, Append(groups, g)) = GroupStep(GroupRun(p, groups), g)
  <2>1. Append(groups, g) \in Seq(Group)
    OBVIOUS
  <2>2. GroupRun(p, Append(groups, g)) = Result(GroupF, GroupAcc, GroupStart(p), Append(groups, g))
    BY <2>1, GroupRunIs
  <2>3. GroupRun(p, groups) = Result(GroupF, GroupAcc, GroupStart(p), groups)
    BY GroupRunIs
  <2>4. Result(GroupF, GroupAcc, GroupStart(p), Append(groups, g)) = GroupF[<<Result(GroupF, GroupAcc, GroupStart(p), groups), g>>]
    BY <1>1, ResultAppend
  <2>5. QED
    BY <1>3, <2>2, <2>3, <2>4 DEF GroupF
<1>5. QED
  BY <1>2, <1>3, <1>4

PackAcc == [groups : Seq(Seq(Emittable)), current : Seq(Emittable), load : Nat]
PackStart == [groups |-> << >>, current |-> << >>, load |-> 0]
PackRun(recs) == FoldLeft(PackStep, PackStart, recs)
PackF == [x \in PackAcc \X Emittable |-> PackStep(x[1], x[2])]

\* A payload length is a number.
LEMMA PayloadLen == ASSUME NEW r PROVE transport_payload_len(r) \in Nat
BY DEF transport_payload_len

\* The step is a function of the kind folds take.
LEMMA PackTypes == PackF \in Steps(PackAcc, Emittable) /\ PackStart \in PackAcc
<1>1. ASSUME NEW acc \in PackAcc, NEW r \in Emittable PROVE PackStep(acc, r) \in PackAcc
  <2>1. /\ acc.groups \in Seq(Seq(Emittable)) /\ acc.current \in Seq(Emittable)
        /\ acc.load \in Nat /\ transport_payload_len(r) \in Nat
    BY PayloadLen DEF PackAcc
  <2> DEFINE over == acc.current # << >> /\ acc.load + transport_payload_len(r) > PayloadCap
             gs == IF over THEN Append(acc.groups, acc.current) ELSE acc.groups
             cs == IF over THEN <<r>> ELSE Append(acc.current, r)
             load == IF over THEN transport_payload_len(r) ELSE acc.load + transport_payload_len(r)
  <2>2. gs \in Seq(Seq(Emittable))
    BY <2>1
  <2>3. cs \in Seq(Emittable) /\ load \in Nat /\ << >> \in Seq(Emittable)
    BY <2>1
  <2>4. Append(gs, cs) \in Seq(Seq(Emittable))
    <3> HIDE DEF gs, cs
    <3>1. QED
      BY <2>2, <2>3
  <2>5. PackStep(acc, r) = IF load >= PayloadCap
                           THEN [groups |-> Append(gs, cs), current |-> << >>, load |-> 0]
                           ELSE [groups |-> gs, current |-> cs, load |-> load]
    BY DEF PackStep
  <2> HIDE DEF gs, cs, load
  <2>6. QED
    BY <2>2, <2>3, <2>4, <2>5 DEF PackAcc
<1>2. QED
  BY <1>1 DEF PackF, Steps, PackStart, PackAcc

\* The loop of pack_record_groups is a fold.
LEMMA PackRunIs ==
  ASSUME NEW recs \in Seq(Emittable)
  PROVE  PackRun(recs) = Result(PackF, PackAcc, PackStart, recs)
<1> DEFINE Solves(h) ==
             h = [s \in SUBSET DOMAIN recs |->
                    IF s = {} THEN PackStart ELSE PackStep(h[s \ {Max(s)}], recs[Max(s)])]
           it == CHOOSE h : Solves(h)
<1>1. PackF \in Steps(PackAcc, Emittable) /\ PackStart \in PackAcc
  BY PackTypes
<1>2. PICK h : PeelsOf(PackF, PackAcc, Emittable, PackStart, recs, h)
  BY <1>1, PeelOfExists
<1>3. Solves(h)
  BY <1>2 DEF PeelsOf, PackF
<1>4. Solves(it)
  <2> HIDE DEF Solves
  <2>1. QED
    BY <1>3, Zenon
<1>5. PackRun(recs) = it[DOMAIN recs]
  BY DEF PackRun, PackStart, FoldLeft, MapThenFoldSet
<1> HIDE DEF it
<1>6. it[{}] = PackStart
  BY <1>4
<1>7. ASSUME NEW d \in SUBSET DOMAIN recs, d # {}, it[d \ {Max(d)}] \in PackAcc
      PROVE  it[d] = PackF[<<it[d \ {Max(d)}], recs[Max(d)]>>]
  <2>1. it[d] = PackStep(it[d \ {Max(d)}], recs[Max(d)])
    BY <1>4, <1>7
  <2>2. recs[Max(d)] \in Emittable
    BY <1>2, <1>7 DEF PeelsOf
  <2>3. QED
    BY <1>7, <2>1, <2>2 DEF PackF
<1>8. PeelsTo(PackF, PackAcc, PackStart, recs, it)
  BY <1>6, <1>7 DEF PeelsTo
<1>9. QED
  BY <1>1, <1>5, <1>8, PeelIsResult

\* Packing no records, and one record more.
LEMMA PackRunLaws ==
  ASSUME NEW recs \in Seq(Emittable)
  PROVE  /\ PackRun(recs) \in PackAcc
         /\ PackRun(<< >>) = PackStart
         /\ \A r \in Emittable : PackRun(Append(recs, r)) = PackStep(PackRun(recs), r)
<1>1. PackF \in Steps(PackAcc, Emittable) /\ PackStart \in PackAcc /\ << >> \in Seq(Emittable)
  BY PackTypes
<1>2. PackRun(<< >>) = PackStart
  <2>1. PackRun(<< >>) = Result(PackF, PackAcc, PackStart, << >>)
    BY <1>1, PackRunIs
  <2>2. QED
    BY <1>1, <2>1, ResultEmpty
<1>3. PackRun(recs) \in PackAcc
  BY <1>1, PackRunIs, ResultType
<1>4. ASSUME NEW r \in Emittable PROVE PackRun(Append(recs, r)) = PackStep(PackRun(recs), r)
  <2>1. Append(recs, r) \in Seq(Emittable)
    OBVIOUS
  <2>2. PackRun(Append(recs, r)) = Result(PackF, PackAcc, PackStart, Append(recs, r))
    BY <2>1, PackRunIs
  <2>3. PackRun(recs) = Result(PackF, PackAcc, PackStart, recs)
    BY PackRunIs
  <2>4. Result(PackF, PackAcc, PackStart, Append(recs, r)) = PackF[<<Result(PackF, PackAcc, PackStart, recs), r>>]
    BY <1>1, ResultAppend
  <2>5. QED
    BY <1>3, <2>2, <2>3, <2>4 DEF PackF
<1>5. QED
  BY <1>2, <1>3, <1>4

LoadStep(n, r) == n + transport_payload_len(r)
Load(recs) == FoldLeft(LAMBDA n, r : n + transport_payload_len(r), 0, recs)
Loads == Nat
NoLoad == 0
LoadF == [x \in Loads \X Emittable |-> LoadStep(x[1], x[2])]

\* The step is a function of the kind folds take.
LEMMA LoadTypes == LoadF \in Steps(Loads, Emittable) /\ NoLoad \in Loads
BY PayloadLen DEF Loads, NoLoad, LoadF, Steps, LoadStep

\* The payload of a group is a fold.
LEMMA LoadIs ==
  ASSUME NEW recs \in Seq(Emittable)
  PROVE  Load(recs) = Result(LoadF, Loads, NoLoad, recs)
<1> DEFINE Solves(h) ==
             h = [s \in SUBSET DOMAIN recs |->
                    IF s = {} THEN NoLoad ELSE LoadStep(h[s \ {Max(s)}], recs[Max(s)])]
           it == CHOOSE h : Solves(h)
<1>1. LoadF \in Steps(Loads, Emittable) /\ NoLoad \in Loads
  BY LoadTypes
<1>2. PICK h : PeelsOf(LoadF, Loads, Emittable, NoLoad, recs, h)
  BY <1>1, PeelOfExists
<1>3. Solves(h)
  BY <1>2 DEF PeelsOf, LoadF
<1>4. Solves(it)
  <2> HIDE DEF Solves
  <2>1. QED
    BY <1>3, Zenon
<1>5. Load(recs) = it[DOMAIN recs]
  BY DEF Load, LoadStep, NoLoad, FoldLeft, MapThenFoldSet
<1> HIDE DEF it
<1>6. it[{}] = NoLoad
  BY <1>4
<1>7. ASSUME NEW d \in SUBSET DOMAIN recs, d # {}, it[d \ {Max(d)}] \in Loads
      PROVE  it[d] = LoadF[<<it[d \ {Max(d)}], recs[Max(d)]>>]
  <2>1. it[d] = LoadStep(it[d \ {Max(d)}], recs[Max(d)])
    BY <1>4, <1>7
  <2>2. recs[Max(d)] \in Emittable
    BY <1>2, <1>7 DEF PeelsOf
  <2>3. QED
    BY <1>7, <2>1, <2>2 DEF LoadF
<1>8. PeelsTo(LoadF, Loads, NoLoad, recs, it)
  BY <1>6, <1>7 DEF PeelsTo
<1>9. QED
  BY <1>1, <1>5, <1>8, PeelIsResult

\* The payload of no records, and of one record more.
LEMMA LoadLaws ==
  ASSUME NEW recs \in Seq(Emittable)
  PROVE  /\ Load(recs) \in Loads
         /\ Load(<< >>) = NoLoad
         /\ \A r \in Emittable : Load(Append(recs, r)) = LoadStep(Load(recs), r)
<1>1. LoadF \in Steps(Loads, Emittable) /\ NoLoad \in Loads /\ << >> \in Seq(Emittable)
  BY LoadTypes
<1>2. Load(<< >>) = NoLoad
  <2>1. Load(<< >>) = Result(LoadF, Loads, NoLoad, << >>)
    BY <1>1, LoadIs
  <2>2. QED
    BY <1>1, <2>1, ResultEmpty
<1>3. Load(recs) \in Loads
  BY <1>1, LoadIs, ResultType
<1>4. ASSUME NEW r \in Emittable PROVE Load(Append(recs, r)) = LoadStep(Load(recs), r)
  <2>1. Append(recs, r) \in Seq(Emittable)
    OBVIOUS
  <2>2. Load(Append(recs, r)) = Result(LoadF, Loads, NoLoad, Append(recs, r))
    BY <2>1, LoadIs
  <2>3. Load(recs) = Result(LoadF, Loads, NoLoad, recs)
    BY LoadIs
  <2>4. Result(LoadF, Loads, NoLoad, Append(recs, r)) = LoadF[<<Result(LoadF, Loads, NoLoad, recs), r>>]
    BY <1>1, ResultAppend
  <2>5. QED
    BY <1>3, <2>2, <2>3, <2>4 DEF LoadF
<1>5. QED
  BY <1>2, <1>3, <1>4

----------------------------------------------------------------------------
(* What is sealed is what is opened. *)

Compacts(recs) == [i \in 1 .. Len(recs) |-> Compact(recs[i])]

\* A record without its position.
LEMMA CompactType == ASSUME NEW r \in Emittable PROVE Compact(r) \in CompactRecord
BY DEF Compact, CompactRecord, Emittable, Record

\* Leaving the positions out is done record by record.
LEMMA CompactsFacts ==
  ASSUME NEW recs \in Seq(Emittable)
  PROVE  /\ Compacts(recs) \in Seq(CompactRecord)
         /\ Compacts(<< >>) = << >>
         /\ \A r \in Emittable : Compacts(Append(recs, r)) = Append(Compacts(recs), Compact(r))
<1>1. \A i \in 1 .. Len(recs) : Compact(recs[i]) \in CompactRecord
  BY CompactType
<1>2. Compacts(recs) \in Seq(CompactRecord) /\ Len(Compacts(recs)) = Len(recs)
  BY <1>1 DEF Compacts
<1>3. Compacts(<< >>) = << >>
  BY DEF Compacts
<1>4. ASSUME NEW r \in Emittable
      PROVE  Compacts(Append(recs, r)) = Append(Compacts(recs), Compact(r))
  <2>1. Compact(r) \in CompactRecord
    BY CompactType
  <2> DEFINE a == Append(recs, r)
             b == Append(Compacts(recs), Compact(r))
  <2>2. /\ a \in Seq(Emittable) /\ Len(a) = Len(recs) + 1 /\ a[Len(recs) + 1] = r
        /\ \A i \in 1 .. Len(recs) : a[i] = recs[i]
    OBVIOUS
  <2>3. /\ b \in Seq(CompactRecord) /\ Len(b) = Len(recs) + 1 /\ b[Len(recs) + 1] = Compact(r)
        /\ \A i \in 1 .. Len(recs) : b[i] = Compacts(recs)[i]
    BY <1>2, <2>1, AppendProperties
  <2> HIDE DEF a, b
  <2>4. \A i \in 1 .. Len(a) : Compact(a[i]) \in CompactRecord
    BY <2>2, CompactType
  <2>5. Compacts(a) \in Seq(CompactRecord) /\ Len(Compacts(a)) = Len(a)
    BY <2>2, <2>4 DEF Compacts
  <2>6. ASSUME NEW i \in 1 .. Len(a) PROVE Compacts(a)[i] = b[i]
    <3>1. Compacts(a)[i] = Compact(a[i])
      BY DEF Compacts
    <3>2. CASE i \in 1 .. Len(recs)
      <4>1. Compacts(recs)[i] = Compact(recs[i])
        BY <3>2 DEF Compacts
      <4>2. QED
        BY <2>2, <2>3, <3>1, <3>2, <4>1
    <3>3. CASE i = Len(recs) + 1
      BY <2>2, <2>3, <3>1, <3>3
    <3>4. QED
      BY <2>2, <3>2, <3>3
  <2>7. Compacts(a) = b
    BY <2>2, <2>3, <2>5, <2>6, SeqEqual
  <2>8. QED
    BY <2>7 DEF a, b
<1>5. QED
  BY <1>2, <1>3, <1>4

\* Sealing records that are all due: nothing of them changes, a copy of the sealing
\* protector opens them, and counting from its position gives their positions.
SealsWell(p, recs) ==
  LET run == SealRun(p, recs)
  IN run.ok =>
       /\ run.recs = recs
       /\ OpenRun(p, recs) = [ok |-> TRUE, p |-> run.p]
       /\ DecodeRun(Counters(p).epoch, Counters(p).seq, Compacts(recs)) =
            [recs |-> recs, epoch |-> Counters(run.p).epoch, seq |-> Counters(run.p).seq]
       /\ IF recs = << >> THEN run.p = p
          ELSE HeaderIsDue(p, recs[1]) /\ Counters(run.p) = CountersAfter(recs[Len(recs)])
       /\ (\A i \in 1 .. Len(recs) : recs[i].type # "Close") /\ ~Closed(p) => ~Closed(run.p)

\* It does, whatever the records.
LEMMA SealedOpens ==
  ASSUME NEW p \in Sane, NEW recs \in Seq(Emittable)
  PROVE  SealsWell(p, recs)
<1> DEFINE T == {s \in Seq(Emittable) : SealsWell(p, s)}
           e == Counters(p).epoch
           n == Counters(p).seq
<1>1. e \in Nat /\ n \in Nat
  BY CountersType
<1>2. << >> \in T
  <2>1. << >> \in Seq(Emittable)
    OBVIOUS
  <2>2. SealRun(p, << >>) = SealStart(p) /\ OpenRun(p, << >>) = OpenStart(p)
    BY <2>1, SealRunLaws, OpenRunLaws
  <2>3. Compacts(<< >>) = << >> /\ << >> \in Seq(CompactRecord)
    BY <2>1, CompactsFacts
  <2>4. DecodeRun(e, n, << >>) = DecodeStart(e, n)
    <3> HIDE DEF e, n
    <3>1. QED
      BY <1>1, <2>3, DecodeRunLaws
  <2>5. SealsWell(p, << >>)
    BY <2>2, <2>3, <2>4 DEF SealsWell, SealStart, OpenStart, DecodeStart
  <2>6. QED
    BY <2>1, <2>5
<1>3. ASSUME NEW s \in Seq(Emittable), NEW r \in Emittable, s \in T PROVE Append(s, r) \in T
  <2> DEFINE run == SealRun(p, s)
             t == Append(s, r)
             q == finish_success(run.p, r)
  <2>1. run \in SealAcc /\ run.ok \in BOOLEAN /\ run.p \in Sane /\ SealRun(p, t) = SealStep(run, r)
    BY SealRunLaws DEF SealAcc
  <2>2. OpenRun(p, t) = OpenStep(OpenRun(p, s), r) /\ OpenRun(p, s) \in OpenAcc
    BY OpenRunLaws
  <2>3. /\ Compacts(t) = Append(Compacts(s), Compact(r)) /\ Compacts(s) \in Seq(CompactRecord)
        /\ Compact(r) \in CompactRecord
    BY CompactsFacts, CompactType
  <2>4. DecodeRun(e, n, Append(Compacts(s), Compact(r))) =
          DecodeStep(DecodeRun(e, n, Compacts(s)), Compact(r))
    <3> HIDE DEF e, n
    <3>1. QED
      BY <1>1, <2>3, DecodeRunLaws
  <2>5. /\ t \in Seq(Emittable) /\ Len(t) = Len(s) + 1 /\ t # << >> /\ t[Len(t)] = r
        /\ \A i \in 1 .. Len(s) : t[i] = s[i]
        /\ Len(s) \in Nat /\ (s # << >> => Len(s) > 0)
    OBVIOUS
  <2> HIDE DEF run, t
  <2>6. SUFFICES ASSUME SealRun(p, t).ok PROVE SealsWell(p, t)
    <3>1. ~SealRun(p, t).ok => SealsWell(p, t)
      BY DEF SealsWell
    <3>2. SealsWell(p, t) /\ t \in Seq(Emittable)
      BY <2>5, <2>6, <3>1
    <3>3. QED
      BY <3>2 DEF t
  <2>7. run.ok /\ HeaderIsDue(run.p, r)
    BY <2>1, <2>6, SealStepIs DEF SealAcc
  <2>8. SealRun(p, t) = [ok |-> TRUE, p |-> q, recs |-> Append(run.recs, r)]
    BY <2>1, <2>7, SealStepIs
  <2>9. q \in Sane /\ Counters(q) = CountersAfter(r) /\ (Closed(q) => Closed(run.p) \/ r.type = "Close")
    BY <2>1, <2>7, FinishFacts
  <2>10. SealsWell(p, s)
    BY <1>3
  <2>11. /\ run.recs = s
         /\ OpenRun(p, s) = [ok |-> TRUE, p |-> run.p]
         /\ DecodeRun(e, n, Compacts(s)) =
              [recs |-> s, epoch |-> Counters(run.p).epoch, seq |-> Counters(run.p).seq]
         /\ IF s = << >> THEN run.p = p
            ELSE HeaderIsDue(p, s[1]) /\ Counters(run.p) = CountersAfter(s[Len(s)])
         /\ (\A i \in 1 .. Len(s) : s[i].type # "Close") /\ ~Closed(p) => ~Closed(run.p)
    BY <2>7, <2>10 DEF SealsWell, run
  <2>12. OpenRun(p, t) = [ok |-> TRUE, p |-> q]
    <3>1. OpenRun(p, s).ok /\ OpenRun(p, s).p = run.p
      BY <2>11
    <3>2. QED
      BY <2>2, <2>7, <3>1, OpenStepIs
  <2>13. DecodeRun(e, n, Compacts(t)) = [recs |-> t, epoch |-> Counters(q).epoch, seq |-> Counters(q).seq]
    <3>1. r.epoch = Counters(run.p).epoch /\ r.seq = Counters(run.p).seq
      BY <2>7 DEF HeaderIsDue, Counters
    <3>2. [type |-> Compact(r).type, confirm |-> Compact(r).confirm, body |-> Compact(r).body,
           next |-> Compact(r).next, epoch |-> r.epoch, seq |-> r.seq] = r
      BY DEF Compact, Emittable, Record
    <3>3. DecodeRun(e, n, Compacts(t)) =
            DecodeStep([recs |-> s, epoch |-> r.epoch, seq |-> r.seq], Compact(r))
      BY <2>3, <2>4, <2>11, <3>1
    <3>4. DecodeStep([recs |-> s, epoch |-> r.epoch, seq |-> r.seq], Compact(r)) =
            [recs |-> Append(s, r), epoch |-> IF r.type = "Rekey" THEN r.epoch + 1 ELSE r.epoch,
             seq |-> IF r.type = "Rekey" THEN 0 ELSE r.seq + 1]
      BY <3>2 DEF DecodeStep, Compact
    <3>5. QED
      BY <2>9, <3>3, <3>4 DEF CountersAfter, t
  <2>14. HeaderIsDue(p, t[1]) /\ Counters(q) = CountersAfter(t[Len(t)])
    <3>1. CASE s = << >>
      BY <2>5, <2>7, <2>9, <2>11, <3>1
    <3>2. CASE s # << >>
      <4>1. t[1] = s[1]
        BY <2>5, <3>2
      <4>2. QED
        BY <2>5, <2>9, <2>11, <3>2, <4>1
    <3>3. QED
      BY <3>1, <3>2
  <2>15. ASSUME \A i \in 1 .. Len(t) : t[i].type # "Close", ~Closed(p) PROVE ~Closed(q)
    <3>1. \A i \in 1 .. Len(s) : i \in 1 .. Len(t) /\ s[i].type # "Close"
      BY <2>5, <2>15
    <3>2. r.type # "Close"
      <4>1. Len(t) \in 1 .. Len(t)
        BY <2>5
      <4>2. QED
        BY <2>5, <2>15, <4>1
    <3>3. QED
      BY <2>9, <2>11, <2>15, <3>1, <3>2
  <2>16. Append(run.recs, r) = t
    BY <2>11 DEF t
  <2> HIDE DEF q
  <2>17. QED
    BY <2>5, <2>8, <2>12, <2>13, <2>14, <2>15, <2>16 DEF SealsWell
<1> HIDE DEF T
<1>4. Seq(Emittable) \subseteq T
  BY <1>2, <1>3, SeqSetInduction
<1>5. QED
  BY <1>4 DEF T

\* One group sealed as a frame: all its records or nothing.
LEMMA ProtectFacts ==
  ASSUME NEW p \in Sane, NEW recs \in Group
  PROVE  LET out == protect_transport_records(p, recs)
         IN /\ out.ok <=> ~Closed(p) /\ SealRun(p, recs).ok
            /\ out.p \in Sane
            /\ ~out.ok => out.p = p
            /\ out.ok => /\ out.p = SealRun(p, recs).p
                         /\ Counters(out.p) = CountersAfter(recs[Len(recs)])
            /\ out.frame \in Frame
<1> DEFINE run == SealRun(p, recs)
<1>1. recs \in Seq(Emittable) /\ recs # << >> /\ Len(recs) > 0
  BY DEF Group
<1>2. run.p \in Sane /\ run.ok \in BOOLEAN
  BY <1>1, SealRunLaws DEF SealAcc
<1>3. run.ok => run.recs = recs /\ Counters(run.p) = CountersAfter(recs[Len(recs)])
  BY <1>1, SealedOpens DEF SealsWell
<1>4. protect_transport_records(p, recs).frame \in Frame
  BY <1>1 DEF Frame
<1> HIDE DEF run
<1>5. QED
  BY <1>1, <1>2, <1>3, <1>4 DEF protect_transport_records, run

\* A copy of the protector that sealed a frame opens it, and gets its records.
LEMMA FrameOpens ==
  ASSUME NEW p \in Sane, NEW recs \in Group, protect_transport_records(p, recs).ok
  PROVE  unprotect_transport_frame(p, protect_transport_records(p, recs).frame) =
           [ok |-> TRUE, p |-> protect_transport_records(p, recs).p, recs |-> recs]
<1> DEFINE run == SealRun(p, recs)
           out == protect_transport_records(p, recs)
           f == out.frame
<1>1. recs \in Seq(Emittable) /\ recs # << >> /\ Len(recs) \in Nat /\ Len(recs) > 0
  BY DEF Group
<1>2. run.ok /\ ~Closed(p)
  BY ProtectFacts
<1>3. /\ run.recs = recs
      /\ OpenRun(p, recs) = [ok |-> TRUE, p |-> run.p]
      /\ DecodeRun(Counters(p).epoch, Counters(p).seq, Compacts(recs)).recs = recs
      /\ HeaderIsDue(p, recs[1])
  <2>1. SealsWell(p, recs)
    BY <1>1, SealedOpens
  <2>2. QED
    BY <1>1, <1>2, <2>1 DEF SealsWell
<1> HIDE DEF run
<1>4. /\ f.epoch = recs[1].epoch /\ f.seq = recs[1].seq /\ f.count = Len(recs)
      /\ f.body = Compacts(recs)
      /\ f.key = FrameKey(ActiveRoot(p), f.epoch, f.seq, f.count)
      /\ out.p = run.p
  BY <1>1, <1>2, <1>3 DEF protect_transport_records, Compacts, run
<1> HIDE DEF out
<1>5. f.epoch = Counters(p).epoch /\ f.seq = Counters(p).seq
  BY <1>3, <1>4 DEF HeaderIsDue, Counters
<1>6. FrameIsDue(p, f)
  BY <1>1, <1>4, <1>5 DEF FrameIsDue, Counters
<1>7. decode_compact_transport_records(f) = recs
  BY <1>3, <1>4, <1>5 DEF decode_compact_transport_records, DecodeRun, DecodeStart
<1>8. unprotect_transport_frame(p, f) =
         LET opened == decode_compact_transport_records(f)
             end == OpenRun(p, opened)
         IN IF /\ FrameIsDue(p, f)
               /\ f.key = FrameKey(ActiveRoot(p), f.epoch, f.seq, f.count)
               /\ Len(opened) = f.count
               /\ end.ok
            THEN [ok |-> TRUE, p |-> end.p, recs |-> opened]
            ELSE [ok |-> FALSE, p |-> Fail(p), recs |-> << >>]
  BY DEF unprotect_transport_frame, OpenRun, OpenStart
<1>9. unprotect_transport_frame(p, f) = [ok |-> TRUE, p |-> run.p, recs |-> recs]
  BY <1>3, <1>4, <1>6, <1>7, <1>8
<1>10. QED
  BY <1>4, <1>9 DEF out

----------------------------------------------------------------------------
(* Packing. *)

\* A group that pack_record_groups may make.
Packed == {g \in Group : Len(g) > 1 => Load(g) <= PayloadCap}

PacksWell(recs) ==
  LET acc == PackRun(recs)
  IN /\ acc.groups \in Seq(Packed)
     /\ FlattenSeq(acc.groups) \o acc.current = recs
     /\ Load(acc.current) = acc.load
     /\ Len(acc.current) > 1 => acc.load <= PayloadCap

\* What the loop has to have made.
LEMMA PacksWellIf ==
  ASSUME NEW recs, NEW g, NEW c,
         PackRun(recs) = [groups |-> g, current |-> c, load |-> Load(c)],
         g \in Seq(Packed), FlattenSeq(g) \o c = recs, Len(c) > 1 => Load(c) <= PayloadCap
  PROVE  PacksWell(recs)
<1>1. PackRun(recs).groups = g /\ PackRun(recs).current = c /\ PackRun(recs).load = Load(c)
  OBVIOUS
<1>2. QED
  BY <1>1 DEF PacksWell

\* A packed group is a sequence of records.
LEMMA PackedTypes == ASSUME NEW gs \in Seq(Packed) PROVE gs \in Seq(Seq(Emittable)) /\ gs \in Seq(Group)
BY DEF Packed, Group

\* One record more is packed well, and nothing is lost when a group is closed.
LEMMA PackOne ==
  ASSUME NEW recs \in Seq(Emittable), NEW r \in Emittable, PacksWell(recs)
  PROVE  PacksWell(Append(recs, r))
<1> DEFINE acc == PackRun(recs)
           n == transport_payload_len(r)
           over == acc.current # << >> /\ acc.load + n > PayloadCap
           gs == IF over THEN Append(acc.groups, acc.current) ELSE acc.groups
           cs == IF over THEN <<r>> ELSE Append(acc.current, r)
           load == IF over THEN n ELSE acc.load + n
<1>1. PackRun(Append(recs, r)) = PackStep(acc, r) /\ acc \in PackAcc
  BY PackRunLaws
<1>2. PackStep(acc, r) = IF load >= PayloadCap
                         THEN [groups |-> Append(gs, cs), current |-> << >>, load |-> 0]
                         ELSE [groups |-> gs, current |-> cs, load |-> load]
  BY DEF PackStep
<1>3. /\ acc.groups \in Seq(Packed) /\ FlattenSeq(acc.groups) \o acc.current = recs
      /\ Load(acc.current) = acc.load /\ (Len(acc.current) > 1 => acc.load <= PayloadCap)
  BY DEF PacksWell
<1>4. acc.current \in Seq(Emittable) /\ acc.load \in Nat /\ n \in Nat
  BY <1>1, PayloadLen DEF PackAcc
<1>5. /\ FlattenSeq(acc.groups) \in Seq(Emittable) /\ acc.groups \in Seq(Seq(Emittable))
  BY <1>3, PackedTypes, FlattenType
<1> HIDE DEF acc, n
<1>6. Load(<<r>>) = n /\ Load(Append(acc.current, r)) = acc.load + n /\ Load(<< >>) = 0
  <2>1. << >> \in Seq(Emittable) /\ <<r>> = Append(<< >>, r)
    OBVIOUS
  <2>2. Load(<< >>) = 0
    BY <2>1, LoadLaws DEF NoLoad
  <2>3. Load(Append(<< >>, r)) = LoadStep(Load(<< >>), r)
    BY <2>1, LoadLaws
  <2>4. Load(Append(acc.current, r)) = LoadStep(Load(acc.current), r)
    BY <1>4, LoadLaws
  <2>5. QED
    BY <1>3, <1>4, <2>1, <2>2, <2>3, <2>4 DEF LoadStep, n
<1>7. /\ cs \in Group /\ Load(cs) = load
      /\ Len(cs) > 1 => load <= PayloadCap
  <2>1. CASE over
    BY <1>6, <2>1 DEF Group
  <2>2. CASE ~over
    <3>1. cs = Append(acc.current, r) /\ load = acc.load + n
      BY <2>2
    <3>2. Append(acc.current, r) \in Group /\ Len(Append(acc.current, r)) = Len(acc.current) + 1
      BY <1>4 DEF Group
    <3>3. acc.current = << >> => Len(acc.current) = 0
      OBVIOUS
    <3>4. acc.current # << >> => acc.load + n <= PayloadCap
      BY <1>4, <2>2, CapAssumption
    <3>5. QED
      BY <1>4, <1>6, <3>1, <3>2, <3>3, <3>4
  <2>3. QED
    BY <2>1, <2>2
<1>8. gs \in Seq(Packed) /\ FlattenSeq(gs) \o cs = Append(recs, r)
  <2>1. CASE over
    <3>1. acc.current \in Packed
      BY <1>3, <1>4, <2>1 DEF Packed, Group
    <3>2. gs = Append(acc.groups, acc.current) /\ cs = <<r>>
      BY <2>1
    <3>3. FlattenSeq(gs) = FlattenSeq(acc.groups) \o acc.current
      BY <1>4, <1>5, <3>2, FlattenAppend
    <3>4. gs \in Seq(Packed)
      BY <1>3, <3>1, <3>2
    <3>5. FlattenSeq(gs) \o cs = Append(recs, r)
      BY <1>3, <3>2, <3>3, AppendIsConcat
    <3>6. QED
      BY <3>4, <3>5
  <2>2. CASE ~over
    <3>1. gs = acc.groups /\ cs = Append(acc.current, r)
      BY <2>2
    <3>2. FlattenSeq(acc.groups) \o Append(acc.current, r) =
            Append(FlattenSeq(acc.groups) \o acc.current, r)
      <4> DEFINE a == FlattenSeq(acc.groups)
                 b == acc.current
      <4>1. a \in Seq(Emittable) /\ b \in Seq(Emittable)
        BY <1>4, <1>5
      <4> HIDE DEF a, b
      <4>2. a \o Append(b, r) = Append(a \o b, r)
        BY <4>1, AppendToConcat
      <4>3. QED
        BY <4>2 DEF a, b
    <3>3. QED
      BY <1>3, <3>1, <3>2
  <2>3. QED
    BY <2>1, <2>2
<1> HIDE DEF gs, cs, load
<1>9. load \in Nat /\ cs \in Seq(Emittable) /\ cs # << >>
  BY <1>4, <1>7 DEF load, Group
<1>10. CASE load >= PayloadCap
  <2>1. cs \in Packed
    BY <1>7 DEF Packed
  <2>2. Append(gs, cs) \in Seq(Packed)
    BY <1>8, <2>1
  <2>3. FlattenSeq(Append(gs, cs)) = FlattenSeq(gs) \o cs
    BY <1>8, <1>9, PackedTypes, FlattenAppend
  <2>4. FlattenSeq(Append(gs, cs)) \o << >> = Append(recs, r)
    BY <1>8, <2>3
  <2>5. Len(<< >>) = 0
    OBVIOUS
  <2>6. PackRun(Append(recs, r)) = [groups |-> Append(gs, cs), current |-> << >>, load |-> Load(<< >>)]
    BY <1>1, <1>2, <1>6, <1>10
  <2>7. Len(<< >>) > 1 => Load(<< >>) <= PayloadCap
    BY <2>5
  <2>8. QED
    BY <2>2, <2>4, <2>6, <2>7, PacksWellIf, Zenon
<1>11. CASE ~(load >= PayloadCap)
  BY <1>1, <1>2, <1>7, <1>8, <1>11, PacksWellIf
<1>12. QED
  BY <1>10, <1>11

\* Packing loses nothing, orders nothing anew and overfills no group of several.
LEMMA PackingFacts ==
  ASSUME NEW recs \in Seq(Emittable)
  PROVE  /\ pack_record_groups(recs) \in Seq(Packed)
         /\ FlattenSeq(pack_record_groups(recs)) = recs
<1> DEFINE T == {s \in Seq(Emittable) : PacksWell(s)}
<1>1. << >> \in T
  <2>1. << >> \in Seq(Emittable) /\ << >> \in Seq(Packed) /\ Len(<< >>) = 0
    OBVIOUS
  <2>2. PackRun(<< >>) = PackStart /\ Load(<< >>) = 0
    BY <2>1, PackRunLaws, LoadLaws DEF NoLoad
  <2>3. FlattenSeq(<< >>) \o << >> = << >>
    BY FlattenEmpty
  <2>4. PackRun(<< >>) = [groups |-> << >>, current |-> << >>, load |-> Load(<< >>)]
    BY <2>2 DEF PackStart
  <2>5. Len(<< >>) > 1 => Load(<< >>) <= PayloadCap
    BY <2>1
  <2>6. QED
    BY <2>1, <2>3, <2>4, <2>5, PacksWellIf, Zenon
<1>2. \A s \in Seq(Emittable), r \in Emittable : s \in T => Append(s, r) \in T
  BY PackOne
<1> HIDE DEF T
<1>3. Seq(Emittable) \subseteq T
  BY <1>1, <1>2, SeqSetInduction
<1>4. PacksWell(recs)
  BY <1>3 DEF T
<1> DEFINE acc == PackRun(recs)
<1>5. acc.current \in Seq(Emittable)
  BY PackRunLaws DEF PackAcc
<1>6. pack_record_groups(recs) = IF acc.current = << >> THEN acc.groups
                                 ELSE Append(acc.groups, acc.current)
  BY DEF pack_record_groups, PackRun, PackStart
<1>7. /\ acc.groups \in Seq(Packed) /\ FlattenSeq(acc.groups) \o acc.current = recs
      /\ Load(acc.current) = acc.load /\ (Len(acc.current) > 1 => acc.load <= PayloadCap)
  BY <1>4 DEF PacksWell
<1> HIDE DEF acc
<1>8. acc.groups \in Seq(Seq(Emittable)) /\ FlattenSeq(acc.groups) \in Seq(Emittable)
  BY <1>7, PackedTypes, FlattenType
<1>9. CASE acc.current = << >>
  BY <1>6, <1>7, <1>8, <1>9, ConcatEmptySeq
<1>10. CASE acc.current # << >>
  <2>1. acc.current \in Packed
    BY <1>5, <1>7, <1>10 DEF Packed, Group
  <2>2. Append(acc.groups, acc.current) \in Seq(Packed)
    BY <1>7, <2>1
  <2>3. FlattenSeq(Append(acc.groups, acc.current)) = FlattenSeq(acc.groups) \o acc.current
    BY <1>5, <1>8, FlattenAppend
  <2>4. QED
    BY <1>6, <1>7, <1>10, <2>2, <2>3
<1>11. QED
  BY <1>9, <1>10

----------------------------------------------------------------------------
(* Frames in flight. *)

\* p sealed the group g as the frame f, and became q.
Seals(p, g, q, f) ==
  LET out == protect_transport_records(p, g)
  IN out.ok /\ out.p = q /\ out.frame = f

\* The frames carry the groups, sealed by a protector that went through the states st.
Carries(frames, groups, st) ==
  /\ frames \in Seq(Frame) /\ groups \in Seq(Group) /\ Len(groups) = Len(frames)
  /\ st \in [0 .. Len(frames) -> Sane]
  /\ \A i \in 1 .. Len(frames) : Seals(st[i - 1], groups[i], st[i], frames[i])

\* Frames after frames.
LEMMA CarriesConcat ==
  ASSUME NEW f1, NEW g1, NEW s1, Carries(f1, g1, s1),
         NEW f2, NEW g2, NEW s2, Carries(f2, g2, s2), s1[Len(f1)] = s2[0]
  PROVE  \E st : /\ Carries(f1 \o f2, g1 \o g2, st)
                 /\ st[0] = s1[0] /\ st[Len(f1 \o f2)] = s2[Len(f2)]
<1> DEFINE m == Len(f1)
           n == Len(f2)
           st == [i \in 0 .. m + n |-> IF i <= m THEN s1[i] ELSE s2[i - m]]
<1>1. /\ m \in Nat /\ n \in Nat
      /\ f1 \in Seq(Frame) /\ g1 \in Seq(Group) /\ Len(g1) = m /\ s1 \in [0 .. m -> Sane]
      /\ f2 \in Seq(Frame) /\ g2 \in Seq(Group) /\ Len(g2) = n /\ s2 \in [0 .. n -> Sane]
  BY DEF Carries
<1>2. /\ \A i \in 1 .. m : Seals(s1[i - 1], g1[i], s1[i], f1[i])
      /\ \A i \in 1 .. n : Seals(s2[i - 1], g2[i], s2[i], f2[i])
  BY DEF Carries
<1>3. s1[m] = s2[0]
  OBVIOUS
<1> HIDE DEF m, n
<1>4. /\ f1 \o f2 \in Seq(Frame) /\ Len(f1 \o f2) = m + n
      /\ g1 \o g2 \in Seq(Group) /\ Len(g1 \o g2) = m + n
  BY <1>1, ConcatProperties DEF m, n
<1>5. m \in Nat /\ n \in Nat
  BY <1>1
<1>6. /\ \A i \in 1 .. m + n : (f1 \o f2)[i] = IF i <= m THEN f1[i] ELSE f2[i - m]
      /\ \A i \in 1 .. m + n : (g1 \o g2)[i] = IF i <= m THEN g1[i] ELSE g2[i - m]
  <2>1. m = Len(f1) /\ n = Len(f2)
    BY DEF m, n
  <2>2. QED
    BY <1>1, <2>1, ConcatProperties
<1>7. st \in [0 .. m + n -> Sane] /\ st[0] = s1[0] /\ st[m + n] = s2[n]
  BY <1>1, <1>3
<1>8. ASSUME NEW i \in 1 .. m + n PROVE Seals(st[i - 1], (g1 \o g2)[i], st[i], (f1 \o f2)[i])
  <2>1. CASE i <= m
    <3>1. i \in 1 .. m /\ st[i - 1] = s1[i - 1] /\ st[i] = s1[i]
      BY <1>1, <2>1
    <3>2. (f1 \o f2)[i] = f1[i] /\ (g1 \o g2)[i] = g1[i]
      BY <1>6, <2>1
    <3>3. QED
      BY <1>2, <3>1, <3>2
  <2>2. CASE i > m
    <3>1. i - m \in 1 .. n /\ (i - m) - 1 = (i - 1) - m
      BY <1>1, <2>2
    <3>2. st[i] = s2[i - m]
      BY <1>5, <2>2
    <3>3. st[i - 1] = s2[(i - m) - 1]
      <4>1. i - 1 \in 0 .. m + n /\ i - 1 >= m
        BY <1>5, <2>2
      <4>2. st[i - 1] = IF i - 1 <= m THEN s1[i - 1] ELSE s2[(i - 1) - m]
        BY <4>1
      <4>3. i - 1 <= m => i - 1 = m /\ (i - m) - 1 = 0
        BY <1>5, <4>1
      <4>4. QED
        BY <1>3, <3>1, <4>2, <4>3
    <3>4. (f1 \o f2)[i] = f2[i - m] /\ (g1 \o g2)[i] = g2[i - m]
      <4>1. ~(i <= m)
        BY <1>5, <2>2
      <4>2. QED
        BY <1>6, <4>1
    <3>5. Seals(s2[(i - m) - 1], g2[i - m], s2[i - m], f2[i - m])
      BY <1>2, <3>1
    <3>6. QED
      BY <3>2, <3>3, <3>4, <3>5
  <2>3. i <= m \/ i > m
    BY <1>5
  <2>4. QED
    BY <2>1, <2>2, <2>3
<1> HIDE DEF st
<1>9. Carries(f1 \o f2, g1 \o g2, st)
  BY <1>4, <1>7, <1>8 DEF Carries
<1>10. QED
  BY <1>4, <1>7, <1>9 DEF n

\* One frame.
LEMMA CarriesOne ==
  ASSUME NEW p \in Sane, NEW g \in Group, NEW q \in Sane, NEW f \in Frame, Seals(p, g, q, f)
  PROVE  \E st : Carries(<<f>>, <<g>>, st) /\ st[0] = p /\ st[1] = q
<1> DEFINE st == [i \in 0 .. 1 |-> IF i = 0 THEN p ELSE q]
<1>1. st \in [0 .. 1 -> Sane] /\ st[0] = p /\ st[1] = q
  OBVIOUS
<1>2. <<f>> \in Seq(Frame) /\ <<g>> \in Seq(Group) /\ Len(<<f>>) = 1 /\ Len(<<g>>) = 1
  OBVIOUS
<1>3. \A i \in 1 .. 1 : Seals(st[i - 1], <<g>>[i], st[i], <<f>>[i])
  <2>1. \A i \in 1 .. 1 : i = 1
    OBVIOUS
  <2>2. QED
    BY <1>1, <2>1
<1> HIDE DEF st
<1>4. Carries(<<f>>, <<g>>, st)
  BY <1>1, <1>2, <1>3 DEF Carries
<1>5. QED
  BY <1>1, <1>4

\* No frames.
LEMMA CarriesNone ==
  ASSUME NEW p \in Sane
  PROVE  \E st : Carries(<< >>, << >>, st) /\ st[0] = p
<1> DEFINE st == [i \in 0 .. 0 |-> p]
<1>1. st \in [0 .. 0 -> Sane] /\ st[0] = p
  OBVIOUS
<1>2. << >> \in Seq(Frame) /\ << >> \in Seq(Group) /\ Len(<< >>) = 0 /\ 1 .. 0 = {}
  OBVIOUS
<1> HIDE DEF st
<1>3. Carries(<< >>, << >>, st)
  BY <1>1, <1>2 DEF Carries
<1>4. QED
  BY <1>1, <1>3

\* Without its first frame.
LEMMA CarriesTail ==
  ASSUME NEW frames, NEW groups, NEW st, Carries(frames, groups, st), frames # << >>
  PROVE  /\ groups # << >> /\ Head(groups) \in Group /\ st[0] \in Sane /\ st[1] \in Sane
         /\ Seals(st[0], Head(groups), st[1], Head(frames))
         /\ \E tt : /\ Carries(Tail(frames), Tail(groups), tt)
                    /\ tt[0] = st[1] /\ tt[Len(Tail(frames))] = st[Len(frames)]
<1> DEFINE n == Len(frames)
           tt == [i \in 0 .. n - 1 |-> st[i + 1]]
<1>1. /\ n \in Nat /\ n > 0
      /\ frames \in Seq(Frame) /\ groups \in Seq(Group) /\ Len(groups) = n
      /\ st \in [0 .. n -> Sane]
      /\ \A i \in 1 .. n : Seals(st[i - 1], groups[i], st[i], frames[i])
  BY DEF Carries
<1>2. groups # << >> /\ Head(groups) = groups[1] /\ Head(frames) = frames[1] /\ 1 \in 1 .. n
  BY <1>1
<1>3. /\ Tail(frames) \in Seq(Frame) /\ Len(Tail(frames)) = n - 1
      /\ Tail(groups) \in Seq(Group) /\ Len(Tail(groups)) = n - 1
      /\ \A i \in 1 .. n - 1 : Tail(frames)[i] = frames[i + 1] /\ Tail(groups)[i] = groups[i + 1]
  BY <1>1, <1>2, HeadTailProperties
<1>4. Head(groups) \in Group /\ st[0] \in Sane /\ st[1] \in Sane /\ Seals(st[0], Head(groups), st[1], Head(frames))
  BY <1>1, <1>2
<1> HIDE DEF n
<1>5. /\ tt \in [0 .. n - 1 -> Sane] /\ tt[0] = st[1] /\ tt[n - 1] = st[n]
  BY <1>1
<1>6. ASSUME NEW i \in 1 .. n - 1 PROVE Seals(tt[i - 1], Tail(groups)[i], tt[i], Tail(frames)[i])
  <2>1. i + 1 \in 1 .. n /\ (i + 1) - 1 = i /\ tt[i - 1] = st[i] /\ tt[i] = st[i + 1]
    BY <1>1
  <2>2. Seals(st[i], groups[i + 1], st[i + 1], frames[i + 1])
    BY <1>1, <2>1
  <2>3. QED
    BY <1>3, <2>1, <2>2
<1> HIDE DEF tt
<1>7. Carries(Tail(frames), Tail(groups), tt)
  BY <1>3, <1>5, <1>6 DEF Carries
<1>8. QED
  BY <1>2, <1>3, <1>4, <1>5, <1>7 DEF n

----------------------------------------------------------------------------
(* Sealing groups. *)

\* Sealing groups gives frames that carry them, or it stops before a group and the
\* protector stays behind it.
GroupsWell(p, groups) ==
  LET run == GroupRun(p, groups)
      recs == FlattenSeq(groups)
  IN /\ run.ok => /\ \E st : /\ Carries(run.frames, groups, st)
                             /\ st[0] = p /\ st[Len(run.frames)] = run.p
                  /\ IF groups = << >> THEN run.p = p
                     ELSE recs # << >> /\ Counters(run.p) = CountersAfter(recs[Len(recs)])
     /\ ~run.ok => \/ run.p = p
                   \/ \E i \in 1 .. Len(recs) - 1 : Counters(run.p) = CountersAfter(recs[i])
     /\ groups # << >> /\ ~HeaderIsDue(p, groups[1][1]) => ~run.ok /\ run.p = p

\* One group more in the flattened groups.
LEMMA FlattenGroup ==
  ASSUME NEW gs \in Seq(Group), NEW g \in Group
  PROVE  /\ FlattenSeq(gs) \in Seq(Emittable) /\ g \in Seq(Emittable)
         /\ FlattenSeq(Append(gs, g)) = FlattenSeq(gs) \o g
         /\ Len(FlattenSeq(Append(gs, g))) = Len(FlattenSeq(gs)) + Len(g)
         /\ Len(g) > 0 /\ Len(g) \in Nat /\ Len(FlattenSeq(gs)) \in Nat
         /\ \A i \in 1 .. Len(FlattenSeq(gs)) :
              FlattenSeq(Append(gs, g))[i] = FlattenSeq(gs)[i]
         /\ FlattenSeq(Append(gs, g))[Len(FlattenSeq(Append(gs, g)))] = g[Len(g)]
<1>1. gs \in Seq(Seq(Emittable)) /\ g \in Seq(Emittable) /\ g # << >>
  BY DEF Group
<1> DEFINE a == FlattenSeq(gs)
           b == FlattenSeq(Append(gs, g))
<1>2. a \in Seq(Emittable) /\ b = a \o g
  BY <1>1, FlattenType, FlattenAppend
<1> HIDE DEF a, b
<1>3. Len(g) \in Nat /\ Len(g) > 0 /\ Len(a) \in Nat /\ Len(b) = Len(a) + Len(g)
  BY <1>1, <1>2
<1>4. \A i \in 1 .. Len(a) : b[i] = a[i]
  BY <1>1, <1>2, <1>3
<1>5. b[Len(b)] = g[Len(g)]
  BY <1>1, <1>2, <1>3
<1>6. QED
  BY <1>1, <1>2, <1>3, <1>4, <1>5 DEF a, b

\* One group more, when all before it were sealed.
LEMMA GroupsOneMore ==
  ASSUME NEW p \in Sane, NEW gs \in Seq(Group), NEW g \in Group,
         GroupsWell(p, gs), GroupRun(p, gs).ok
  PROVE  GroupsWell(p, Append(gs, g))
<1> DEFINE run == GroupRun(p, gs)
           next == GroupRun(p, Append(gs, g))
           out == protect_transport_records(run.p, g)
           recs == FlattenSeq(gs)
           all == FlattenSeq(Append(gs, g))
<1>1. run \in GroupAcc /\ next = GroupStep(run, g)
  BY GroupRunLaws
<1>2. run.p \in Sane /\ run.frames \in Seq(Frame) /\ run.ok
  BY <1>1 DEF GroupAcc
<1>3. next = [ok |-> out.ok, p |-> out.p,
              frames |-> IF out.ok THEN Append(run.frames, out.frame) ELSE run.frames]
  BY <1>1, <1>2 DEF GroupStep
<1>4. /\ recs \in Seq(Emittable) /\ Len(all) = Len(recs) + Len(g)
      /\ Len(g) > 0 /\ Len(g) \in Nat /\ Len(recs) \in Nat
      /\ \A i \in 1 .. Len(recs) : all[i] = recs[i]
      /\ all[Len(all)] = g[Len(g)]
  BY FlattenGroup
<1>5. /\ \E st : /\ Carries(run.frames, gs, st)
                 /\ st[0] = p /\ st[Len(run.frames)] = run.p
      /\ IF gs = << >> THEN run.p = p
         ELSE recs # << >> /\ Counters(run.p) = CountersAfter(recs[Len(recs)])
      /\ gs # << >> => HeaderIsDue(p, gs[1][1])
  BY <1>2 DEF GroupsWell
<1>6. /\ out.ok <=> ~Closed(run.p) /\ SealRun(run.p, g).ok
      /\ out.p \in Sane /\ out.frame \in Frame
      /\ ~out.ok => out.p = run.p
      /\ out.ok => Counters(out.p) = CountersAfter(g[Len(g)])
  BY <1>2, ProtectFacts
<1> HIDE DEF run, next, out, recs, all
<1>7. next.ok = out.ok /\ next.p = out.p /\ (out.ok => next.frames = Append(run.frames, out.frame))
  BY <1>3
<1>8. ASSUME out.ok PROVE \E st : /\ Carries(next.frames, Append(gs, g), st)
                                  /\ st[0] = p /\ st[Len(next.frames)] = next.p
  <2>1. PICK s1 : Carries(run.frames, gs, s1) /\ s1[0] = p /\ s1[Len(run.frames)] = run.p
    BY <1>5
  <2>2. Seals(run.p, g, out.p, out.frame)
    BY <1>8 DEF Seals, out
  <2>3. PICK s2 : Carries(<<out.frame>>, <<g>>, s2) /\ s2[0] = run.p /\ s2[1] = out.p
    BY <1>2, <1>6, <2>2, CarriesOne
  <2>4. Len(<<out.frame>>) = 1 /\ s1[Len(run.frames)] = s2[0]
    BY <2>1, <2>3
  <2>5. PICK st : /\ Carries(run.frames \o <<out.frame>>, gs \o <<g>>, st)
                  /\ st[0] = s1[0] /\ st[Len(run.frames \o <<out.frame>>)] = s2[Len(<<out.frame>>)]
    <3> DEFINE a == run.frames
               b == <<out.frame>>
               c == <<g>>
    <3>1. Carries(a, gs, s1) /\ Carries(b, c, s2) /\ s1[Len(a)] = s2[0]
      BY <2>1, <2>3
    <3> HIDE DEF a, b, c
    <3>2. \E st : /\ Carries(a \o b, gs \o c, st)
                  /\ st[0] = s1[0] /\ st[Len(a \o b)] = s2[Len(b)]
      BY <3>1, CarriesConcat
    <3>3. QED
      BY <3>2 DEF a, b, c
  <2>6. run.frames \o <<out.frame>> = next.frames
    BY <1>2, <1>6, <1>7, <1>8, AppendIsConcat
  <2>7. gs \o <<g>> = Append(gs, g)
    BY AppendIsConcat
  <2>8. QED
    BY <1>7, <2>1, <2>3, <2>4, <2>5, <2>6, <2>7
<1>9. ASSUME out.ok PROVE all # << >> /\ Counters(next.p) = CountersAfter(all[Len(all)])
  <2>1. Len(all) > 0
    BY <1>4
  <2>2. all # << >>
    BY <2>1
  <2>3. QED
    BY <1>4, <1>6, <1>7, <1>9, <2>2
<1>10. ASSUME ~out.ok
       PROVE  next.p = p \/ \E i \in 1 .. Len(all) - 1 : Counters(next.p) = CountersAfter(all[i])
  <2>1. next.p = run.p
    BY <1>6, <1>7, <1>10
  <2>2. CASE gs = << >>
    BY <1>5, <2>1, <2>2
  <2>3. CASE gs # << >>
    <3>1. recs # << >> /\ Counters(run.p) = CountersAfter(recs[Len(recs)])
      BY <1>5, <2>3
    <3>2. Len(recs) \in 1 .. Len(recs) /\ Len(recs) \in 1 .. Len(all) - 1
      BY <1>4, <3>1
    <3>3. all[Len(recs)] = recs[Len(recs)]
      BY <1>4, <3>2
    <3>4. QED
      BY <2>1, <3>1, <3>2, <3>3
  <2>4. QED
    BY <2>2, <2>3
<1>11. ASSUME ~HeaderIsDue(p, Append(gs, g)[1][1]) PROVE ~next.ok /\ next.p = p
  <2>1. gs = << >>
    <3>1. SUFFICES ASSUME gs # << >> PROVE FALSE
      OBVIOUS
    <3>2. Append(gs, g)[1] = gs[1]
      BY <3>1
    <3>3. QED
      BY <1>5, <1>11, <3>1, <3>2
  <2>2. Append(gs, g)[1] = g /\ run.p = p
    BY <1>5, <2>1
  <2>3. g \in Seq(Emittable) /\ g # << >>
    BY DEF Group
  <2>4. SealsWell(p, g)
    BY <2>3, SealedOpens
  <2>5. ~SealRun(p, g).ok
    BY <1>11, <2>2, <2>3, <2>4 DEF SealsWell
  <2>6. QED
    BY <1>6, <1>7, <2>2, <2>5
<1>12. Append(gs, g) # << >>
  BY AppendProperties
<1>13. QED
  BY <1>7, <1>8, <1>9, <1>10, <1>11, <1>12 DEF GroupsWell, next, all

\* ... and when one failed.
LEMMA GroupsFailed ==
  ASSUME NEW p \in Sane, NEW gs \in Seq(Group), NEW g \in Group,
         GroupsWell(p, gs), ~GroupRun(p, gs).ok
  PROVE  GroupsWell(p, Append(gs, g))
<1> DEFINE run == GroupRun(p, gs)
           next == GroupRun(p, Append(gs, g))
           recs == FlattenSeq(gs)
           all == FlattenSeq(Append(gs, g))
<1>1. next = run
  BY GroupRunLaws DEF GroupStep
<1>2. /\ Len(all) = Len(recs) + Len(g) /\ Len(g) > 0 /\ Len(g) \in Nat /\ Len(recs) \in Nat
      /\ \A i \in 1 .. Len(recs) : all[i] = recs[i]
  BY FlattenGroup
<1>3. /\ run.p = p \/ \E i \in 1 .. Len(recs) - 1 : Counters(run.p) = CountersAfter(recs[i])
      /\ gs # << >> /\ ~HeaderIsDue(p, gs[1][1]) => ~run.ok /\ run.p = p
      /\ ~run.ok
  BY DEF GroupsWell
<1>4. gs # << >>
  <2>1. GroupRun(p, << >>) = GroupStart(p)
    BY GroupRunLaws
  <2>2. QED
    BY <2>1 DEF GroupStart
<1>5. Append(gs, g)[1] = gs[1]
  BY <1>4
<1> HIDE DEF run, next, recs, all
<1>6. next.p = p \/ \E i \in 1 .. Len(all) - 1 : Counters(next.p) = CountersAfter(all[i])
  <2>1. \A i \in 1 .. Len(recs) - 1 : i \in 1 .. Len(all) - 1 /\ all[i] = recs[i]
    BY <1>2
  <2>2. QED
    BY <1>1, <1>3, <2>1
<1>7. QED
  BY <1>1, <1>3, <1>4, <1>5, <1>6 DEF GroupsWell, next, all

\* So every list of groups is sealed well.
LEMMA GroupsFacts ==
  ASSUME NEW p \in Sane, NEW groups \in Seq(Group)
  PROVE  GroupsWell(p, groups)
<1> DEFINE T == {gs \in Seq(Group) : GroupsWell(p, gs)}
<1>1. << >> \in T
  <2>1. << >> \in Seq(Group)
    OBVIOUS
  <2>2. GroupRun(p, << >>) = GroupStart(p)
    BY <2>1, GroupRunLaws
  <2>3. GroupRun(p, << >>).ok /\ GroupRun(p, << >>).p = p /\ GroupRun(p, << >>).frames = << >>
    BY <2>2 DEF GroupStart
  <2>4. PICK st : Carries(<< >>, << >>, st) /\ st[0] = p
    BY CarriesNone
  <2>5. Len(<< >>) = 0
    OBVIOUS
  <2>6. QED
    BY <2>1, <2>3, <2>4, <2>5 DEF GroupsWell
<1>2. \A gs \in Seq(Group), g \in Group : gs \in T => Append(gs, g) \in T
  BY GroupsOneMore, GroupsFailed
<1> HIDE DEF T
<1>3. Seq(Group) \subseteq T
  BY <1>1, <1>2, SeqSetInduction
<1>4. QED
  BY <1>3 DEF T

\* Sealing records in two runs.
SplitsWell(p, a, b) ==
  SealRun(p, a \o b).ok =>
    /\ SealRun(p, a).ok
    /\ SealRun(SealRun(p, a).p, b).ok
    /\ SealRun(p, a \o b).p = SealRun(SealRun(p, a).p, b).p

\* It does not matter where the run is split.
LEMMA SealSplit ==
  ASSUME NEW p \in Sane, NEW a \in Seq(Emittable), NEW b \in Seq(Emittable)
  PROVE  SplitsWell(p, a, b)
<1> DEFINE q == SealRun(p, a).p
           T == {s \in Seq(Emittable) : SplitsWell(p, a, s)}
<1>1. q \in Sane
  BY SealRunLaws DEF SealAcc
<1>2. << >> \in T
  <2>1. << >> \in Seq(Emittable) /\ a \o << >> = a
    BY ConcatEmptySeq
  <2>2. SealRun(q, << >>) = SealStart(q)
    <3> HIDE DEF q
    <3>1. QED
      BY <1>1, <2>1, SealRunLaws
  <2>3. QED
    BY <2>1, <2>2 DEF SplitsWell, SealStart
<1>3. ASSUME NEW s \in Seq(Emittable), NEW r \in Emittable, s \in T PROVE Append(s, r) \in T
  <2> DEFINE c == a \o s
  <2>1. c \in Seq(Emittable) /\ a \o Append(s, r) = Append(c, r)
    BY AppendToConcat
  <2>2. SealRun(p, Append(c, r)) = SealStep(SealRun(p, c), r) /\ SealRun(p, c) \in SealAcc
    <3> HIDE DEF c
    <3>1. QED
      BY <2>1, SealRunLaws
  <2>3. SealRun(q, Append(s, r)) = SealStep(SealRun(q, s), r) /\ SealRun(q, s) \in SealAcc
    <3> HIDE DEF q
    <3>1. QED
      BY <1>1, SealRunLaws
  <2>4. SplitsWell(p, a, s)
    BY <1>3
  <2>5. Append(s, r) \in Seq(Emittable)
    OBVIOUS
  <2>6. ASSUME SealRun(p, Append(c, r)).ok
        PROVE  /\ SealRun(p, a).ok /\ SealRun(q, Append(s, r)).ok
               /\ SealRun(p, Append(c, r)).p = SealRun(q, Append(s, r)).p
    <3>1. SealRun(p, c).ok /\ HeaderIsDue(SealRun(p, c).p, r)
      <4> DEFINE x == SealRun(p, c)
      <4> HIDE DEF x
      <4>1. x \in SealAcc /\ SealStep(x, r).ok
        BY <2>2, <2>6 DEF x
      <4>2. x.ok /\ HeaderIsDue(x.p, r)
        BY <4>1, SealStepIs DEF SealAcc
      <4>3. QED
        BY <4>2 DEF x
    <3>2. SealRun(p, a).ok /\ SealRun(q, s).ok /\ SealRun(p, c).p = SealRun(q, s).p
      BY <2>4, <3>1 DEF SplitsWell
    <3>3. SealStep(SealRun(p, c), r).p = finish_success(SealRun(p, c).p, r)
      BY <2>2, <3>1, SealStepIs
    <3>4. SealStep(SealRun(q, s), r).ok /\ SealStep(SealRun(q, s), r).p = finish_success(SealRun(q, s).p, r)
      BY <2>3, <3>1, <3>2, SealStepIs
    <3>5. QED
      BY <2>2, <2>3, <3>2, <3>3, <3>4
  <2>7. SplitsWell(p, a, Append(s, r))
    BY <2>1, <2>6 DEF SplitsWell
  <2>8. QED
    BY <2>5, <2>7
<1> HIDE DEF T
<1>4. Seq(Emittable) \subseteq T
  BY <1>2, <1>3, SeqSetInduction
<1>5. QED
  BY <1>4 DEF T

\* Grouping does not matter when the records can be sealed in one run and only the
\* last may be a Close.
GroupingIsFree(p, groups) ==
  LET recs == FlattenSeq(groups)
  IN SealRun(p, recs).ok /\ (\A i \in 1 .. Len(recs) - 1 : recs[i].type # "Close") =>
       GroupRun(p, groups).ok /\ GroupRun(p, groups).p = SealRun(p, recs).p

\* It does not, for an open protector.
LEMMA GroupsCareful ==
  ASSUME NEW p \in Sane, ~Closed(p), NEW groups \in Seq(Group)
  PROVE  GroupingIsFree(p, groups)
<1> DEFINE T == {gs \in Seq(Group) : GroupingIsFree(p, gs)}
<1>1. << >> \in T
  <2>1. << >> \in Seq(Group) /\ << >> \in Seq(Emittable)
    OBVIOUS
  <2>2. GroupRun(p, << >>) = GroupStart(p) /\ SealRun(p, << >>) = SealStart(p)
    BY <2>1, GroupRunLaws, SealRunLaws
  <2>3. QED
    BY <2>1, <2>2, FlattenEmpty DEF GroupingIsFree, GroupStart, SealStart
<1>2. ASSUME NEW gs \in Seq(Group), NEW g \in Group, gs \in T PROVE Append(gs, g) \in T
  <2> DEFINE recs == FlattenSeq(gs)
             all == FlattenSeq(Append(gs, g))
             run == GroupRun(p, gs)
  <2>1. /\ recs \in Seq(Emittable) /\ g \in Seq(Emittable) /\ all = recs \o g
        /\ Len(all) = Len(recs) + Len(g)
        /\ Len(g) > 0 /\ Len(g) \in Nat /\ Len(recs) \in Nat
        /\ \A i \in 1 .. Len(recs) : all[i] = recs[i]
    BY FlattenGroup
  <2>2. run \in GroupAcc /\ GroupRun(p, Append(gs, g)) = GroupStep(run, g)
    BY GroupRunLaws
  <2>3. GroupingIsFree(p, gs)
    BY <1>2
  <2> HIDE DEF run
  <2>4. ASSUME SealRun(p, all).ok, \A i \in 1 .. Len(all) - 1 : all[i].type # "Close"
        PROVE  GroupRun(p, Append(gs, g)).ok /\ GroupRun(p, Append(gs, g)).p = SealRun(p, all).p
    <3> HIDE DEF recs, all
    <3>1. SplitsWell(p, recs, g)
      BY <2>1, SealSplit
    <3>2. /\ SealRun(p, recs).ok /\ SealRun(SealRun(p, recs).p, g).ok
          /\ SealRun(p, all).p = SealRun(SealRun(p, recs).p, g).p
      BY <2>1, <2>4, <3>1 DEF SplitsWell
    <3>3. \A i \in 1 .. Len(recs) : recs[i].type # "Close"
      <4>1. \A i \in 1 .. Len(recs) : i \in 1 .. Len(all) - 1
        BY <2>1
      <4>2. QED
        BY <2>1, <2>4, <4>1
    <3>4. run.ok /\ run.p = SealRun(p, recs).p
      <4>1. \A i \in 1 .. Len(recs) - 1 : i \in 1 .. Len(recs)
        BY <2>1
      <4>2. QED
        BY <2>3, <3>2, <3>3, <4>1 DEF GroupingIsFree, run, recs
    <3>5. SealsWell(p, recs)
      BY <2>1, SealedOpens
    <3>6. ~Closed(run.p)
      BY <3>2, <3>3, <3>4, <3>5 DEF SealsWell
    <3>7. run.p \in Sane
      BY <2>2 DEF GroupAcc
    <3>8. /\ protect_transport_records(run.p, g).ok
          /\ protect_transport_records(run.p, g).p = SealRun(run.p, g).p
      BY <3>2, <3>4, <3>6, <3>7, ProtectFacts
    <3>9. QED
      BY <2>2, <3>2, <3>4, <3>8 DEF GroupStep
  <2>5. GroupingIsFree(p, Append(gs, g))
    BY <2>4 DEF GroupingIsFree
  <2>6. QED
    BY <2>5
<1> HIDE DEF T
<1>3. Seq(Group) \subseteq T
  BY <1>1, <1>2, SeqSetInduction
<1>4. QED
  BY <1>3 DEF T

----------------------------------------------------------------------------
(* The inductive invariant. *)

\* Positions, of counters and of records, in the order in which they are given.
Earlier(c, d) == c.epoch < d.epoch \/ (c.epoch = d.epoch /\ c.seq < d.seq)
NotLater(c, d) == Earlier(c, d) \/ (c.epoch = d.epoch /\ c.seq = d.seq)

PlainCounters ==
  {c \in [epoch : Nat, seq : Nat, confirm : BOOLEAN] : c.epoch > 0 /\ c.seq = 0 => c.confirm}

\* The plain session is past the records in the outbox, and the protector is not
\* past the plain session.
InOrder(pl, ob, pr) ==
  /\ \A i \in 1 .. Len(ob) : /\ NotLater(CountersAfter(ob[i]), pl)
                             /\ i < Len(ob) => Earlier(CountersAfter(ob[i]), pl)
  /\ NotLater(Counters(pr), pl)
  /\ ob # << >> => Earlier(Counters(pr), pl)

\* The protector waits for a record that will not be sent any more: no later send
\* succeeds.
Behind(pl, ob, pr) ==
  /\ Earlier(Counters(pr), pl)
  /\ \A i \in 1 .. Len(ob) : Earlier(Counters(pr), ob[i])

ClosedIn(em) == \E i \in DOMAIN em : em[i].type = "Close"

\* What a careful server keeps: the outbox can be sealed, and sealing it leads to
\* the counters of the plain session.
CarefulIn(pl, ob, em, pr) ==
  /\ SealRun(pr, ob).ok
  /\ Counters(SealRun(pr, ob).p) = pl
  /\ Closed(pr) => ob = << >> /\ ClosedIn(em)
  /\ \A i \in 1 .. Len(ob) - 1 : ob[i].type # "Close"
  /\ \A i \in 1 .. Len(ob) : ob[i].type = "Close" => ClosedIn(em)

\* The frames on the carrier take the peer to the connection's protector, and with
\* their records and the outbox the peer would have everything emitted; or the
\* connection's protector is behind for good.
InFlight(lk, pe, ac, pl, ob, em, pr) ==
  \E groups, st, rest :
    /\ Carries(lk, groups, st) /\ st[0] = pe
    /\ rest \in Seq(Emittable) /\ (ac \o FlattenSeq(groups)) \o rest = em
    /\ Behind(pl, ob, pr) \/ (st[Len(lk)] = pr /\ rest = ob)

PipelineInv ==
  /\ plain \in PlainCounters
  /\ prot \in Sane /\ peer \in Sane
  /\ outbox \in Seq(Emittable) /\ emitted \in Seq(Emittable) /\ accepted \in Seq(Emittable)
  /\ applied \in Seq(Record)
  /\ link \in Seq(Frame)
  /\ careless \in BOOLEAN
  /\ InOrder(plain, outbox, prot)
  /\ ~careless => CarefulIn(plain, outbox, emitted, prot)
  /\ \E rest \in Seq(Emittable) : accepted \o rest = emitted
  /\ ~Closed(peer) => InFlight(link, peer, accepted, plain, outbox, emitted, prot)

----------------------------------------------------------------------------
(* Emitting. *)

\* The counters after a record are later than the record.
LEMMA AfterFacts ==
  ASSUME NEW pl \in PlainCounters, NEW r \in Emittable, r.epoch = pl.epoch, r.seq = pl.seq
  PROVE  CountersAfter(r) \in PlainCounters /\ Earlier(pl, CountersAfter(r))
<1>1. pl.epoch \in Nat /\ pl.seq \in Nat
  BY DEF PlainCounters
<1>2. QED
  BY <1>1 DEF CountersAfter, PlainCounters, Earlier

\* A record at the position of the plain session keeps the order.
LEMMA OrderOneMore ==
  ASSUME NEW pl \in PlainCounters, NEW ob \in Seq(Emittable), NEW pr \in Sane, NEW r \in Emittable,
         r.epoch = pl.epoch, r.seq = pl.seq, InOrder(pl, ob, pr)
  PROVE  /\ InOrder(CountersAfter(r), Append(ob, r), pr)
         /\ Behind(pl, ob, pr) => Behind(CountersAfter(r), Append(ob, r), pr)
<1> DEFINE c == CountersAfter(r)
           new == Append(ob, r)
           k == Counters(pr)
<1>1. /\ new \in Seq(Emittable) /\ Len(new) = Len(ob) + 1 /\ new[Len(ob) + 1] = r
      /\ \A i \in 1 .. Len(ob) : new[i] = ob[i]
      /\ Len(ob) \in Nat
  OBVIOUS
<1>2. c \in PlainCounters /\ Earlier(pl, c)
  BY AfterFacts
<1>3. /\ c.epoch \in Nat /\ c.seq \in Nat /\ pl.epoch \in Nat /\ pl.seq \in Nat
      /\ k.epoch \in Nat /\ k.seq \in Nat
  BY <1>2, CountersType DEF PlainCounters
<1>4. \A i \in 1 .. Len(ob) : CountersAfter(ob[i]).epoch \in Nat /\ CountersAfter(ob[i]).seq \in Nat
  <2>1. \A i \in 1 .. Len(ob) : ob[i] \in Record
    BY DEF Emittable
  <2>2. \A i \in 1 .. Len(ob) : ob[i].epoch \in Nat /\ ob[i].seq \in Nat
    BY <2>1 DEF Record
  <2>3. QED
    BY <2>2 DEF CountersAfter
<1> HIDE DEF new, k
<1>5. ASSUME NEW i \in 1 .. Len(ob) PROVE Earlier(CountersAfter(ob[i]), c)
  <2>1. NotLater(CountersAfter(ob[i]), pl)
    BY DEF InOrder
  <2> DEFINE d == CountersAfter(ob[i])
  <2>2. d.epoch \in Nat /\ d.seq \in Nat
    BY <1>4
  <2> HIDE DEF d, c
  <2>3. Earlier(d, c)
    BY <1>2, <1>3, <2>1, <2>2 DEF NotLater, Earlier, d
  <2>4. QED
    BY <2>3 DEF d
<1>6. Earlier(k, c)
  <2>1. NotLater(k, pl)
    BY DEF InOrder, k
  <2> HIDE DEF c
  <2>2. QED
    BY <1>2, <1>3, <2>1 DEF NotLater, Earlier
<1>7. InOrder(c, new, pr)
  <2>1. NotLater(CountersAfter(r), c)
    BY <1>3 DEF NotLater
  <2>2. ASSUME NEW i \in 1 .. Len(new)
        PROVE  /\ NotLater(CountersAfter(new[i]), c)
               /\ i < Len(new) => Earlier(CountersAfter(new[i]), c)
    <3>1. CASE i \in 1 .. Len(ob)
      BY <1>1, <1>5, <3>1 DEF NotLater
    <3>2. CASE i = Len(ob) + 1
      BY <1>1, <2>1, <3>2
    <3>3. QED
      BY <1>1, <3>1, <3>2
  <2>3. NotLater(k, c)
    BY <1>6 DEF NotLater
  <2> HIDE DEF c
  <2>4. QED
    BY <1>6, <2>2, <2>3 DEF InOrder, k
<1>8. ASSUME Behind(pl, ob, pr) PROVE Behind(c, new, pr)
  <2>1. Earlier(k, r)
    BY <1>8 DEF Behind, Earlier, k
  <2>2. ASSUME NEW i \in 1 .. Len(new) PROVE Earlier(k, new[i])
    <3>1. CASE i \in 1 .. Len(ob)
      BY <1>1, <1>8, <3>1 DEF Behind, k
    <3>2. CASE i = Len(ob) + 1
      BY <1>1, <2>1, <3>2
    <3>3. QED
      BY <1>1, <3>1, <3>2
  <2> HIDE DEF c
  <2>3. QED
    BY <1>6, <2>2 DEF Behind, k
<1>9. QED
  BY <1>7, <1>8 DEF new

\* ... and a careful server stays careful.
LEMMA CarefulOneMore ==
  ASSUME NEW pl \in PlainCounters, NEW ob \in Seq(Emittable), NEW em \in Seq(Emittable),
         NEW pr \in Sane, NEW r \in Emittable,
         r.epoch = pl.epoch, r.seq = pl.seq, r.confirm = pl.confirm,
         CarefulIn(pl, ob, em, pr), ~ClosedIn(em)
  PROVE  CarefulIn(CountersAfter(r), Append(ob, r), Append(em, r), pr)
<1> DEFINE run == SealRun(pr, ob)
           new == Append(ob, r)
           nem == Append(em, r)
<1>1. /\ new \in Seq(Emittable) /\ Len(new) = Len(ob) + 1 /\ new[Len(ob) + 1] = r
      /\ \A i \in 1 .. Len(ob) : new[i] = ob[i]
      /\ Len(ob) \in Nat
  OBVIOUS
<1>2. r.type = "Close" => ClosedIn(nem)
  <2>1. Len(em) + 1 \in DOMAIN nem /\ nem[Len(em) + 1] = r
    OBVIOUS
  <2> HIDE DEF nem
  <2>2. QED
    BY <2>1 DEF ClosedIn
<1>3. /\ run.ok /\ Counters(run.p) = pl /\ ~Closed(pr)
      /\ \A i \in 1 .. Len(ob) : ob[i].type # "Close"
  BY DEF CarefulIn
<1>4. run \in SealAcc /\ SealRun(pr, new) = SealStep(run, r)
  BY SealRunLaws
<1> HIDE DEF run, new, nem
<1>5. run.p \in Sane
  BY <1>4 DEF SealAcc
<1>6. HeaderIsDue(run.p, r)
  <2>1. /\ expected_epoch_id(run.p) = pl.epoch /\ expected_seq_no(run.p) = pl.seq
        /\ post_rekey_confirm_required(run.p) = pl.confirm
    BY <1>3 DEF Counters
  <2>2. QED
    BY <2>1 DEF HeaderIsDue
<1>7. SealRun(pr, new) = [ok |-> TRUE, p |-> finish_success(run.p, r), recs |-> Append(run.recs, r)]
  BY <1>3, <1>4, <1>6, SealStepIs
<1>8. Counters(finish_success(run.p, r)) = CountersAfter(r)
  BY <1>5, <1>6, FinishFacts
<1>9. \A i \in 1 .. Len(new) - 1 : new[i].type # "Close"
  <2>1. \A i \in 1 .. Len(new) - 1 : i \in 1 .. Len(ob)
    BY <1>1
  <2>2. QED
    BY <1>1, <1>3, <2>1
<1>10. \A i \in 1 .. Len(new) : new[i].type = "Close" => ClosedIn(nem)
  <2>1. \A i \in 1 .. Len(new) : i \in 1 .. Len(ob) \/ i = Len(ob) + 1
    BY <1>1
  <2>2. QED
    BY <1>1, <1>2, <1>3, <2>1
<1>11. CarefulIn(CountersAfter(r), new, nem, pr)
  BY <1>3, <1>7, <1>8, <1>9, <1>10 DEF CarefulIn
<1>12. QED
  BY <1>11 DEF new, nem

\* What is in flight stays in flight when records are emitted.
LEMMA InFlightEmit ==
  ASSUME NEW lk, NEW pe, NEW ac \in Seq(Emittable), NEW pl, NEW ob \in Seq(Emittable),
         NEW em, NEW pr, InFlight(lk, pe, ac, pl, ob, em, pr),
         NEW recs \in Seq(Emittable), NEW pl2, Behind(pl, ob, pr) => Behind(pl2, ob \o recs, pr)
  PROVE  InFlight(lk, pe, ac, pl2, ob \o recs, em \o recs, pr)
<1>1. PICK groups, st, rest :
        /\ Carries(lk, groups, st) /\ st[0] = pe
        /\ rest \in Seq(Emittable) /\ (ac \o FlattenSeq(groups)) \o rest = em
        /\ Behind(pl, ob, pr) \/ (st[Len(lk)] = pr /\ rest = ob)
  BY DEF InFlight
<1>2. groups \in Seq(Seq(Emittable))
  BY <1>1 DEF Carries, Group
<1>3. FlattenSeq(groups) \in Seq(Emittable)
  BY <1>2, FlattenType
<1>4. ac \o FlattenSeq(groups) \in Seq(Emittable)
  BY <1>3
<1>5. (ac \o FlattenSeq(groups)) \o (rest \o recs) = em \o recs
  <2>1. /\ ac \in Seq(Emittable) /\ FlattenSeq(groups) \in Seq(Emittable)
        /\ rest \in Seq(Emittable) /\ recs \in Seq(Emittable)
    BY <1>1, <1>3
  <2> DEFINE whole == ac \o FlattenSeq(groups)
  <2>2. whole \in Seq(Emittable) /\ whole \o rest = em
    BY <1>1, <1>4
  <2> HIDE DEF whole
  <2>3. Joins(whole, rest, em)
    BY <2>2 DEF Joins
  <2>4. Joins(whole, rest \o recs, em \o recs)
    BY <2>1, <2>2, <2>3, Regroup
  <2>5. QED
    BY <2>4 DEF whole, Joins
<1>6. rest \o recs \in Seq(Emittable)
  BY <1>1
<1>7. Behind(pl2, ob \o recs, pr) \/ (st[Len(lk)] = pr /\ rest \o recs = ob \o recs)
  BY <1>1
<1>8. QED
  BY <1>1, <1>5, <1>6, <1>7 DEF InFlight

\* A step that emits records in their order keeps the invariant.
LEMMA EmitKeeps ==
  ASSUME PipelineInv, NEW recs \in Seq(Emittable), Emitted(recs),
         plain' \in PlainCounters, careless' \in BOOLEAN,
         InOrder(plain', outbox \o recs, prot),
         Behind(plain, outbox, prot) => Behind(plain', outbox \o recs, prot),
         ~careless' => CarefulIn(plain', outbox \o recs, emitted \o recs, prot)
  PROVE  PipelineInv'
<1>1. /\ outbox' = outbox \o recs /\ emitted' = emitted \o recs
      /\ UNCHANGED <<prot, link, peer, accepted, applied>>
  BY DEF Emitted
<1>2. outbox' \in Seq(Emittable) /\ emitted' \in Seq(Emittable)
  BY <1>1 DEF PipelineInv
<1>3. \E rest \in Seq(Emittable) : accepted' \o rest = emitted'
  <2>1. PICK rest \in Seq(Emittable) : accepted \o rest = emitted
    BY DEF PipelineInv
  <2>2. accepted \in Seq(Emittable) /\ rest \o recs \in Seq(Emittable)
    BY DEF PipelineInv
  <2>3. accepted \o (rest \o recs) = emitted \o recs
    <3>1. Joins(accepted, rest, emitted)
      BY <2>1 DEF Joins
    <3>2. Joins(accepted, rest \o recs, emitted \o recs)
      BY <2>2, <3>1, Regroup
    <3>3. QED
      BY <3>2 DEF Joins
  <2>4. QED
    BY <1>1, <2>2, <2>3
<1>4. ~Closed(peer') => InFlight(link', peer', accepted', plain', outbox', emitted', prot')
  <2>1. accepted \in Seq(Emittable) /\ outbox \in Seq(Emittable)
    BY DEF PipelineInv
  <2>2. ~Closed(peer) => InFlight(link, peer, accepted, plain, outbox, emitted, prot)
    BY DEF PipelineInv
  <2>3. ~Closed(peer) => InFlight(link, peer, accepted, plain', outbox \o recs, emitted \o recs, prot)
    BY <2>1, <2>2, InFlightEmit
  <2>4. QED
    BY <1>1, <2>3
<1>5. QED
  BY <1>1, <1>2, <1>3, <1>4 DEF PipelineInv

\* One record, at the counters of the plain session.
LEMMA EmitOne ==
  ASSUME PipelineInv, NEW r \in Emittable,
         r.epoch = plain.epoch, r.seq = plain.seq, r.confirm = plain.confirm,
         Emitted(<<r>>), plain' = CountersAfter(r), careless' = (careless \/ HasClosed)
  PROVE  PipelineInv'
<1>1. /\ plain \in PlainCounters /\ prot \in Sane /\ InOrder(plain, outbox, prot)
      /\ outbox \in Seq(Emittable) /\ emitted \in Seq(Emittable) /\ careless \in BOOLEAN
      /\ ~careless => CarefulIn(plain, outbox, emitted, prot)
  BY DEF PipelineInv
<1>2. /\ <<r>> \in Seq(Emittable)
      /\ outbox \o <<r>> = Append(outbox, r) /\ emitted \o <<r>> = Append(emitted, r)
  BY <1>1
<1>3. plain' \in PlainCounters
  BY <1>1, AfterFacts
<1>4. InOrder(plain', outbox \o <<r>>, prot)
  BY <1>1, <1>2, OrderOneMore
<1>5. Behind(plain, outbox, prot) => Behind(plain', outbox \o <<r>>, prot)
  BY <1>1, <1>2, OrderOneMore
<1>6. ASSUME ~careless' PROVE CarefulIn(plain', outbox \o <<r>>, emitted \o <<r>>, prot)
  <2>1. ~careless /\ ~ClosedIn(emitted)
    BY <1>6 DEF HasClosed, ClosedIn
  <2>2. QED
    BY <1>1, <1>2, <2>1, CarefulOneMore
<1>7. careless' \in BOOLEAN
  BY <1>1 DEF HasClosed
<1>8. QED
  BY <1>2, <1>3, <1>4, <1>5, <1>6, <1>7, EmitKeeps

\* Two records, one after the other.
LEMMA EmitTwo ==
  ASSUME PipelineInv, NEW r1 \in Emittable, NEW r2 \in Emittable,
         r1.epoch = plain.epoch, r1.seq = plain.seq, r1.type # "Close",
         r2.epoch = CountersAfter(r1).epoch, r2.seq = CountersAfter(r1).seq,
         Emitted(<<r1, r2>>), plain' = CountersAfter(r2), careless' \in BOOLEAN,
         ~careless' => /\ ~careless /\ ~HasClosed
                       /\ r1.confirm = plain.confirm /\ r2.confirm = CountersAfter(r1).confirm
  PROVE  PipelineInv'
<1> DEFINE c == CountersAfter(r1)
           ob == Append(outbox, r1)
           em == Append(emitted, r1)
<1>1. /\ plain \in PlainCounters /\ prot \in Sane /\ InOrder(plain, outbox, prot)
      /\ outbox \in Seq(Emittable) /\ emitted \in Seq(Emittable) /\ careless \in BOOLEAN
      /\ ~careless => CarefulIn(plain, outbox, emitted, prot)
  BY DEF PipelineInv
<1>2. ob \in Seq(Emittable) /\ em \in Seq(Emittable)
  BY <1>1
<1>3. /\ <<r1, r2>> \in Seq(Emittable)
      /\ outbox \o <<r1, r2>> = Append(ob, r2) /\ emitted \o <<r1, r2>> = Append(em, r2)
  <2>1. /\ <<r1, r2>> = Append(<<r1>>, r2) /\ <<r1>> \in Seq(Emittable)
        /\ outbox \o <<r1>> = ob /\ emitted \o <<r1>> = em
    BY <1>1
  <2>2. /\ outbox \o Append(<<r1>>, r2) = Append(outbox \o <<r1>>, r2)
        /\ emitted \o Append(<<r1>>, r2) = Append(emitted \o <<r1>>, r2)
    BY <1>1, <2>1, AppendToConcat
  <2>3. QED
    BY <2>1, <2>2
<1>4. c \in PlainCounters
  BY <1>1, AfterFacts
<1>5. /\ InOrder(c, ob, prot)
      /\ Behind(plain, outbox, prot) => Behind(c, ob, prot)
  BY <1>1, OrderOneMore
<1>6. ASSUME ~careless' PROVE CarefulIn(c, ob, em, prot) /\ ~ClosedIn(em)
  <2>1. ~careless /\ ~ClosedIn(emitted) /\ r1.confirm = plain.confirm
    BY <1>6 DEF HasClosed, ClosedIn
  <2>2. CarefulIn(c, ob, em, prot)
    BY <1>1, <2>1, CarefulOneMore
  <2>3. \A i \in 1 .. Len(em) : em[i].type # "Close"
    <3>1. /\ Len(em) = Len(emitted) + 1 /\ em[Len(emitted) + 1] = r1 /\ Len(emitted) \in Nat
          /\ \A i \in 1 .. Len(emitted) : em[i] = emitted[i]
          /\ DOMAIN emitted = 1 .. Len(emitted)
      BY <1>1
    <3>2. \A i \in 1 .. Len(emitted) : emitted[i].type # "Close"
      BY <2>1, <3>1 DEF ClosedIn
    <3> HIDE DEF em
    <3>3. \A i \in 1 .. Len(em) : i \in 1 .. Len(emitted) \/ i = Len(emitted) + 1
      BY <3>1
    <3>4. QED
      BY <3>1, <3>2, <3>3
  <2>4. DOMAIN em = 1 .. Len(em)
    BY <1>2
  <2>5. QED
    BY <2>2, <2>3, <2>4 DEF ClosedIn
<1> HIDE DEF c, ob, em
<1>7. plain' \in PlainCounters
  BY <1>4, AfterFacts DEF c
<1>8. /\ InOrder(plain', Append(ob, r2), prot)
      /\ Behind(c, ob, prot) => Behind(plain', Append(ob, r2), prot)
  BY <1>1, <1>2, <1>4, <1>5, OrderOneMore DEF c
<1>9. ~careless' => CarefulIn(plain', Append(ob, r2), Append(em, r2), prot)
  <2>1. r2.epoch = c.epoch /\ r2.seq = c.seq /\ (~careless' => r2.confirm = c.confirm)
    BY DEF c
  <2>2. QED
    BY <1>1, <1>2, <1>4, <1>6, <2>1, CarefulOneMore
<1>10. QED
  BY <1>3, <1>5, <1>7, <1>8, <1>9, EmitKeeps

\* An update of two fields of the counters.
LEMMA UpdateFacts ==
  ASSUME NEW c \in [epoch : Nat, seq : Nat, confirm : BOOLEAN], NEW n \in Nat, NEW b \in BOOLEAN,
         NEW d, d = [c EXCEPT !.seq = n, !.confirm = b]
  PROVE  d = [epoch |-> c.epoch, seq |-> n, confirm |-> b]
<1>1. /\ d \in [epoch : Nat, seq : Nat, confirm : BOOLEAN]
      /\ d.confirm = b /\ d.seq = n /\ d.epoch = c.epoch
  OBVIOUS
<1>2. \A x \in [epoch : Nat, seq : Nat, confirm : BOOLEAN] :
        x = [epoch |-> x.epoch, seq |-> x.seq, confirm |-> x.confirm]
  OBVIOUS
<1>3. QED
  BY <1>1, <1>2

\* The counters after an emit.
LEMMA AdvanceIs ==
  ASSUME NEW c \in [epoch : Nat, seq : Nat, confirm : BOOLEAN]
  PROVE  advance_after_emit(c) = [epoch |-> c.epoch, seq |-> c.seq + 1, confirm |-> FALSE]
<1> DEFINE n == c.seq + 1
           b == FALSE
           d == [c EXCEPT !.seq = n, !.confirm = b]
<1>1. n \in Nat /\ b \in BOOLEAN
  OBVIOUS
<1>2. advance_after_emit(c) = d
  BY DEF advance_after_emit
<1>3. d = [epoch |-> c.epoch, seq |-> n, confirm |-> b]
  <2> HIDE DEF n, b
  <2>1. QED
    BY <1>1, UpdateFacts
<1>4. QED
  BY <1>2, <1>3

\* The counters of the plain session after one emit, and after two.
LEMMA AdvanceFacts ==
  ASSUME PipelineInv
  PROVE  /\ plain.epoch \in Nat /\ plain.seq \in Nat /\ plain.confirm \in BOOLEAN
         /\ plain.epoch > 0 /\ plain.seq = 0 => plain.confirm
         /\ advance_after_emit(plain) =
              [epoch |-> plain.epoch, seq |-> plain.seq + 1, confirm |-> FALSE]
         /\ advance_after_emit(advance_after_emit(plain)) =
              [epoch |-> plain.epoch, seq |-> (plain.seq + 1) + 1, confirm |-> FALSE]
<1> DEFINE once == advance_after_emit(plain)
<1>1. /\ plain \in [epoch : Nat, seq : Nat, confirm : BOOLEAN]
      /\ plain.epoch > 0 /\ plain.seq = 0 => plain.confirm
  BY DEF PipelineInv, PlainCounters
<1>2. once = [epoch |-> plain.epoch, seq |-> plain.seq + 1, confirm |-> FALSE]
  BY <1>1, AdvanceIs
<1>3. once \in [epoch : Nat, seq : Nat, confirm : BOOLEAN]
  BY <1>1, <1>2
<1>4. once.epoch = plain.epoch /\ once.seq = plain.seq + 1
  BY <1>2
<1> HIDE DEF once
<1>5. advance_after_emit(once) = [epoch |-> plain.epoch, seq |-> (plain.seq + 1) + 1, confirm |-> FALSE]
  BY <1>3, <1>4, AdvanceIs
<1>6. QED
  BY <1>1, <1>2, <1>5 DEF once

\* A record with the header of the plain session can be emitted.
LEMMA HeaderFacts ==
  ASSUME PipelineInv, NEW type \in RecordType \ {"Rekey"}, NEW b \in Bodies, NEW r,
         r = header_context(type, b), validate(r)
  PROVE  /\ r \in Emittable
         /\ r.epoch = plain.epoch /\ r.seq = plain.seq /\ r.confirm = plain.confirm
         /\ r.type = type
         /\ CountersAfter(r) = advance_after_emit(plain)
<1>1. /\ plain.epoch \in Nat /\ plain.seq \in Nat /\ plain.confirm \in BOOLEAN
      /\ plain.epoch > 0 /\ plain.seq = 0 => plain.confirm
      /\ advance_after_emit(plain) = [epoch |-> plain.epoch, seq |-> plain.seq + 1, confirm |-> FALSE]
  BY AdvanceFacts
<1>2. r = [type |-> type, epoch |-> plain.epoch, seq |-> plain.seq, confirm |-> plain.confirm,
           body |-> b, next |-> 0]
  BY DEF header_context
<1>3. r \in Record /\ r.type # "Rekey"
  BY <1>1, <1>2 DEF Record, RecordType
<1>4. r \in Emittable
  BY <1>1, <1>2, <1>3 DEF Emittable
<1>5. QED
  BY <1>1, <1>2, <1>4 DEF CountersAfter

\* So can a record after it, which carries the same mark.
LEMMA SecondFacts ==
  ASSUME PipelineInv, NEW b \in Bodies, NEW r,
         r = [header_context("Exact", b) EXCEPT !.seq = plain.seq + 1]
  PROVE  /\ r \in Emittable
         /\ r.epoch = advance_after_emit(plain).epoch /\ r.seq = advance_after_emit(plain).seq
         /\ r.confirm = plain.confirm /\ advance_after_emit(plain).confirm = FALSE
         /\ CountersAfter(r) = advance_after_emit(advance_after_emit(plain))
<1>1. /\ plain.epoch \in Nat /\ plain.seq \in Nat /\ plain.confirm \in BOOLEAN
      /\ advance_after_emit(plain) = [epoch |-> plain.epoch, seq |-> plain.seq + 1, confirm |-> FALSE]
      /\ advance_after_emit(advance_after_emit(plain)) =
           [epoch |-> plain.epoch, seq |-> (plain.seq + 1) + 1, confirm |-> FALSE]
  BY AdvanceFacts
<1>2. r = [type |-> "Exact", epoch |-> plain.epoch, seq |-> plain.seq + 1,
           confirm |-> plain.confirm, body |-> b, next |-> 0]
  BY DEF header_context
<1>3. r \in Record /\ validate(r) /\ r.seq # 0 /\ r.type # "Rekey"
  BY <1>1, <1>2 DEF Record, RecordType, validate
<1>4. r \in Emittable
  BY <1>3 DEF Emittable
<1>5. CountersAfter(r) = [epoch |-> plain.epoch, seq |-> (plain.seq + 1) + 1, confirm |-> FALSE]
  <2>1. r.type = "Exact" /\ r.epoch = plain.epoch /\ r.seq = plain.seq + 1
    BY <1>2
  <2>2. QED
    BY <2>1 DEF CountersAfter
<1>6. QED
  BY <1>1, <1>2, <1>4, <1>5

\* Every emit that is one record.
LEMMA EmitPlainKeeps ==
  ASSUME PipelineInv, NEW type \in RecordType \ {"Rekey"}, EmitPlain(type)
  PROVE  PipelineInv'
<1>1. PICK b \in Bodies :
        /\ validate(header_context(type, b)) /\ Emitted(<<header_context(type, b)>>)
        /\ careless' = (careless \/ HasClosed) /\ plain' = advance_after_emit(plain)
  BY DEF EmitPlain
<1> DEFINE r == header_context(type, b)
<1>2. /\ r \in Emittable /\ r.epoch = plain.epoch /\ r.seq = plain.seq /\ r.confirm = plain.confirm
      /\ CountersAfter(r) = advance_after_emit(plain)
  BY <1>1, HeaderFacts
<1>3. Emitted(<<r>>) /\ plain' = CountersAfter(r)
  BY <1>1, <1>2
<1> HIDE DEF r
<1>4. QED
  BY <1>1, <1>2, <1>3, EmitOne

\* A new source: its SourceMeta record admits no confirm mark, so none was due.
LEMMA EmitSourceKeeps == ASSUME PipelineInv, EmitSource PROVE PipelineInv'
<1>1. PICK b1 \in Bodies, b2 \in Bodies :
        /\ validate(header_context("SourceMeta", b1))
        /\ Emitted(<<header_context("SourceMeta", b1),
                     [header_context("Exact", b2) EXCEPT !.seq = plain.seq + 1]>>)
        /\ careless' = (careless \/ HasClosed)
        /\ plain' = advance_after_emit(advance_after_emit(plain))
  BY DEF EmitSource
<1> DEFINE r1 == header_context("SourceMeta", b1)
           r2 == [header_context("Exact", b2) EXCEPT !.seq = plain.seq + 1]
<1>2. "SourceMeta" \in RecordType \ {"Rekey"}
  BY DEF RecordType
<1>3. /\ r1 \in Emittable /\ r2 \in Emittable
      /\ r1.epoch = plain.epoch /\ r1.seq = plain.seq /\ r1.confirm = plain.confirm
      /\ r1.type = "SourceMeta"
      /\ r2.epoch = CountersAfter(r1).epoch /\ r2.seq = CountersAfter(r1).seq
      /\ r2.confirm = plain.confirm /\ CountersAfter(r1).confirm = FALSE
      /\ CountersAfter(r2) = advance_after_emit(advance_after_emit(plain))
  <2>1. /\ r1 \in Emittable /\ CountersAfter(r1) = advance_after_emit(plain)
        /\ r1.epoch = plain.epoch /\ r1.seq = plain.seq /\ r1.confirm = plain.confirm
        /\ r1.type = "SourceMeta"
    <3> HIDE DEF r2
    <3>1. QED
      BY <1>1, <1>2, HeaderFacts
  <2>2. /\ r2 \in Emittable
        /\ r2.epoch = advance_after_emit(plain).epoch /\ r2.seq = advance_after_emit(plain).seq
        /\ r2.confirm = plain.confirm /\ advance_after_emit(plain).confirm = FALSE
        /\ CountersAfter(r2) = advance_after_emit(advance_after_emit(plain))
    BY SecondFacts
  <2> HIDE DEF r1, r2
  <2>3. QED
    BY <2>1, <2>2
<1>4. /\ Emitted(<<r1, r2>>) /\ validate(r1) /\ plain' = CountersAfter(r2)
  BY <1>1, <1>3
<1> HIDE DEF r1, r2
<1>5. r1.confirm = FALSE
  BY <1>3, <1>4 DEF validate, Emittable, Record
<1>6. careless' \in BOOLEAN
  BY <1>1 DEF PipelineInv, HasClosed
<1>7. QED
  BY <1>1, <1>3, <1>4, <1>5, <1>6, EmitTwo

\* Draining the control plane: careful when no confirmation is due.
LEMMA EmitControlKeeps == ASSUME PipelineInv, EmitPendingControlPlane PROVE PipelineInv'
<1>1. PICK b1 \in Bodies, b2 \in Bodies :
        /\ Emitted(<<header_context("Exact", b1),
                     [header_context("Exact", b2) EXCEPT !.seq = plain.seq + 1]>>)
        /\ careless' = (careless \/ plain.confirm \/ HasClosed)
        /\ plain' = advance_after_emit(advance_after_emit(plain))
  BY DEF EmitPendingControlPlane
<1> DEFINE r1 == header_context("Exact", b1)
           r2 == [header_context("Exact", b2) EXCEPT !.seq = plain.seq + 1]
<1>2. "Exact" \in RecordType \ {"Rekey"}
  BY DEF RecordType
<1>3. validate(r1)
  BY DEF validate, header_context
<1>4. /\ r1 \in Emittable /\ r2 \in Emittable
      /\ r1.epoch = plain.epoch /\ r1.seq = plain.seq /\ r1.confirm = plain.confirm
      /\ r1.type = "Exact"
      /\ r2.epoch = CountersAfter(r1).epoch /\ r2.seq = CountersAfter(r1).seq
      /\ r2.confirm = plain.confirm /\ CountersAfter(r1).confirm = FALSE
      /\ CountersAfter(r2) = advance_after_emit(advance_after_emit(plain))
  <2>1. /\ r1 \in Emittable /\ CountersAfter(r1) = advance_after_emit(plain)
        /\ r1.epoch = plain.epoch /\ r1.seq = plain.seq /\ r1.confirm = plain.confirm
        /\ r1.type = "Exact"
    <3> HIDE DEF r2
    <3>1. QED
      BY <1>2, <1>3, HeaderFacts
  <2>2. /\ r2 \in Emittable
        /\ r2.epoch = advance_after_emit(plain).epoch /\ r2.seq = advance_after_emit(plain).seq
        /\ r2.confirm = plain.confirm /\ advance_after_emit(plain).confirm = FALSE
        /\ CountersAfter(r2) = advance_after_emit(advance_after_emit(plain))
    BY SecondFacts
  <2> HIDE DEF r1, r2
  <2>3. QED
    BY <2>1, <2>2
<1>5. Emitted(<<r1, r2>>) /\ plain' = CountersAfter(r2)
  BY <1>1, <1>4
<1> HIDE DEF r1, r2
<1>6. careless \in BOOLEAN /\ plain.confirm \in BOOLEAN
  BY DEF PipelineInv, PlainCounters
<1>7. careless' \in BOOLEAN
  BY <1>1, <1>6 DEF HasClosed
<1>8. ~careless' => ~plain.confirm /\ ~careless /\ ~HasClosed
  BY <1>1
<1>9. QED
  BY <1>4, <1>5, <1>6, <1>7, <1>8, EmitTwo

\* A rekey: the next epoch starts at zero, waiting for its confirmation.
LEMMA EmitRekeyKeeps == ASSUME PipelineInv, EmitRekey PROVE PipelineInv'
<1>1. PICK s \in Seeds :
        /\ Emitted(<<[header_context("Rekey", s) EXCEPT !.next = plain.epoch + 1]>>)
        /\ plain' = AfterRekey(plain)
        /\ careless' = (careless \/ HasClosed)
  BY DEF EmitRekey
<1> DEFINE r == [header_context("Rekey", s) EXCEPT !.next = plain.epoch + 1]
<1>2. r = [type |-> "Rekey", epoch |-> plain.epoch, seq |-> plain.seq,
           confirm |-> plain.confirm, body |-> s, next |-> plain.epoch + 1]
  BY DEF header_context
<1>3. Emitted(<<r>>)
  BY <1>1
<1> HIDE DEF r
<1>4. /\ plain \in [epoch : Nat, seq : Nat, confirm : BOOLEAN]
      /\ plain.epoch > 0 /\ plain.seq = 0 => plain.confirm
  BY DEF PipelineInv, PlainCounters
<1>5. r \in Emittable
  BY <1>2, <1>4 DEF Emittable, Record, RecordType, validate
<1>6. CountersAfter(r) = AfterRekey(plain)
  BY <1>2, <1>4 DEF CountersAfter, AfterRekey
<1>7. r.epoch = plain.epoch /\ r.seq = plain.seq /\ r.confirm = plain.confirm
  BY <1>2
<1>8. plain' = CountersAfter(r)
  BY <1>1, <1>6
<1>9. QED
  BY <1>1, <1>3, <1>5, <1>7, <1>8, EmitOne

\* A trace that fails leaves a gap in the numbers, and the server careless.
LEMMA TraceKeeps == ASSUME PipelineInv, EmitTraceFails PROVE PipelineInv'
<1> DEFINE pl == plain'
<1>1. /\ plain \in PlainCounters /\ prot \in Sane /\ InOrder(plain, outbox, prot)
      /\ outbox \in Seq(Emittable)
  BY DEF PipelineInv
<1>2. /\ pl = [epoch |-> plain.epoch, seq |-> plain.seq + 1, confirm |-> FALSE]
      /\ plain.epoch \in Nat /\ plain.seq \in Nat
  BY <1>1 DEF EmitTraceFails, advance_after_emit, PlainCounters
<1>3. /\ UNCHANGED <<outbox, emitted, prot, link, peer, accepted, applied>> /\ careless' = TRUE
  BY DEF EmitTraceFails
<1> HIDE DEF pl
<1>4. pl \in PlainCounters
  BY <1>2 DEF PlainCounters
<1>5. \A c : /\ NotLater(c, plain) /\ c.seq \in Nat => NotLater(c, pl)
             /\ Earlier(c, plain) /\ c.seq \in Nat => Earlier(c, pl)
  <2>1. pl.epoch = plain.epoch /\ pl.seq = plain.seq + 1
    BY <1>2
  <2>2. QED
    BY <1>2, <2>1 DEF NotLater, Earlier
<1>6. Counters(prot).seq \in Nat
  BY <1>1, CountersType
<1>7. \A i \in 1 .. Len(outbox) : CountersAfter(outbox[i]).seq \in Nat
  <2>1. \A i \in 1 .. Len(outbox) : outbox[i] \in Record
    BY <1>1 DEF Emittable
  <2>2. \A i \in 1 .. Len(outbox) : outbox[i].seq \in Nat
    BY <2>1 DEF Record
  <2>3. QED
    BY <2>2 DEF CountersAfter
<1>8. InOrder(pl, outbox, prot)
  BY <1>1, <1>5, <1>6, <1>7 DEF InOrder
<1>9. Behind(plain, outbox, prot) => Behind(pl, outbox, prot)
  BY <1>5, <1>6 DEF Behind
<1>10. InFlight(link, peer, accepted, plain, outbox, emitted, prot) =>
         InFlight(link, peer, accepted, pl, outbox, emitted, prot)
  BY <1>9 DEF InFlight
<1>11. QED
  BY <1>3, <1>4, <1>8, <1>10 DEF PipelineInv, pl

----------------------------------------------------------------------------
(* Sending. *)

\* What a send does with the protector: the outbox packed into groups and sealed.
SendFacts(p, ob) ==
  LET run == ProtectGroups(p, ob)
      groups == pack_record_groups(ob)
  IN /\ run.p \in Sane
     /\ run.frames \in Seq(Frame)
     /\ groups \in Seq(Group)
     /\ FlattenSeq(groups) = ob
     /\ run.ok => /\ \E st : /\ Carries(run.frames, groups, st)
                             /\ st[0] = p /\ st[Len(run.frames)] = run.p
                  /\ Counters(run.p) = CountersAfter(ob[Len(ob)])
     /\ ~run.ok => \/ run.p = p
                   \/ \E i \in 1 .. Len(ob) - 1 : Counters(run.p) = CountersAfter(ob[i])
     /\ ~HeaderIsDue(p, ob[1]) => ~run.ok /\ run.p = p
     /\ /\ ~Closed(p) /\ SealRun(p, ob).ok
        /\ \A i \in 1 .. Len(ob) - 1 : ob[i].type # "Close"
        => run.ok /\ run.p = SealRun(p, ob).p

\* Every send of records does it.
LEMMA Sends ==
  ASSUME NEW p \in Sane, NEW ob \in Seq(Emittable), ob # << >>
  PROVE  SendFacts(p, ob)
<1> DEFINE groups == pack_record_groups(ob)
           run == GroupRun(p, groups)
<1>1. groups \in Seq(Packed) /\ FlattenSeq(groups) = ob
  BY PackingFacts
<1>2. ProtectGroups(p, ob) = run
  BY DEF ProtectGroups, GroupRun, GroupStart
<1> HIDE DEF groups
<1>3. groups \in Seq(Seq(Emittable)) /\ groups \in Seq(Group)
  BY <1>1, PackedTypes
<1>4. run \in GroupAcc
  BY <1>3, GroupRunLaws
<1>5. GroupsWell(p, groups)
  BY <1>3, GroupsFacts
<1>6. groups # << >>
  BY <1>1, FlattenEmpty
<1>7. ~Closed(p) => GroupingIsFree(p, groups)
  BY <1>3, GroupsCareful
<1>8. groups[1][1] = ob[1]
  <2>1. Head(groups) = groups[1] /\ groups[1] \in Group /\ Tail(groups) \in Seq(Seq(Emittable))
    BY <1>3, <1>6, HeadTailProperties
  <2> DEFINE h == groups[1]
             t == FlattenSeq(Tail(groups))
  <2>2. h \in Seq(Emittable) /\ Len(h) \in Nat /\ Len(h) > 0 /\ t \in Seq(Emittable)
    <3>1. t \in Seq(Emittable)
      BY <2>1, FlattenType
    <3>2. h \in Seq(Emittable) /\ h # << >>
      BY <2>1 DEF Group
    <3> HIDE DEF h, t
    <3>3. QED
      BY <3>1, <3>2
  <2>3. ob = h \o t
    BY <1>1, <1>3, <1>6, <2>1, FlattenCons
  <2> HIDE DEF h, t
  <2>4. ob[1] = h[1]
    BY <2>2, <2>3
  <2>5. QED
    BY <2>4 DEF h
<1> HIDE DEF run
<1>9. /\ run.p \in Sane /\ run.frames \in Seq(Frame)
  BY <1>4 DEF GroupAcc
<1>10. /\ run.ok => /\ \E st : /\ Carries(run.frames, groups, st)
                               /\ st[0] = p /\ st[Len(run.frames)] = run.p
                    /\ Counters(run.p) = CountersAfter(ob[Len(ob)])
       /\ ~run.ok => \/ run.p = p
                     \/ \E i \in 1 .. Len(ob) - 1 : Counters(run.p) = CountersAfter(ob[i])
       /\ ~HeaderIsDue(p, groups[1][1]) => ~run.ok /\ run.p = p
  BY <1>1, <1>5, <1>6 DEF GroupsWell, run
<1>11. /\ ~Closed(p) /\ SealRun(p, ob).ok
       /\ \A i \in 1 .. Len(ob) - 1 : ob[i].type # "Close"
       => run.ok /\ run.p = SealRun(p, ob).p
  BY <1>1, <1>7 DEF GroupingIsFree, run
<1>12. QED
  BY <1>1, <1>2, <1>3, <1>8, <1>9, <1>10, <1>11 DEF SendFacts, groups

\* A send that succeeds leaves the protector where its last record leaves it, and one
\* that fails leaves it before the plain session, for good.
LEMMA SendKeepsOrder ==
  ASSUME NEW pl \in PlainCounters, NEW pr \in Sane, NEW ob \in Seq(Emittable), ob # << >>,
         InOrder(pl, ob, pr)
  PROVE  LET run == ProtectGroups(pr, ob)
         IN /\ InOrder(pl, << >>, run.p)
            /\ ~run.ok => Behind(pl, << >>, run.p)
            /\ Behind(pl, ob, pr) => ~run.ok
<1> DEFINE run == ProtectGroups(pr, ob)
<1>1. SendFacts(pr, ob)
  BY Sends
<1>2. /\ run.p \in Sane
      /\ run.ok => Counters(run.p) = CountersAfter(ob[Len(ob)])
      /\ ~run.ok => \/ run.p = pr
                    \/ \E i \in 1 .. Len(ob) - 1 : Counters(run.p) = CountersAfter(ob[i])
      /\ ~HeaderIsDue(pr, ob[1]) => ~run.ok
  BY <1>1 DEF SendFacts
<1> HIDE DEF run
<1>3. /\ Len(ob) \in Nat /\ Len(ob) > 0 /\ Len(ob) \in 1 .. Len(ob) /\ 1 \in 1 .. Len(ob)
      /\ \A i \in 1 .. Len(ob) - 1 : i \in 1 .. Len(ob) /\ i < Len(ob)
      /\ Len(<< >>) = 0 /\ 1 .. 0 = {}
  OBVIOUS
<1>4. ~run.ok => Earlier(Counters(run.p), pl)
  BY <1>2, <1>3 DEF InOrder
<1>5. NotLater(Counters(run.p), pl)
  BY <1>2, <1>3, <1>4 DEF InOrder, NotLater
<1>6. ASSUME Behind(pl, ob, pr) PROVE ~run.ok
  <2>1. Earlier(Counters(pr), ob[1])
    BY <1>3, <1>6 DEF Behind
  <2>2. ob[1] \in Record
    BY <1>3 DEF Emittable
  <2>3. /\ ob[1].epoch \in Nat /\ ob[1].seq \in Nat
        /\ Counters(pr).epoch \in Nat /\ Counters(pr).seq \in Nat
    BY <2>2, CountersType DEF Record
  <2>4. ~HeaderIsDue(pr, ob[1])
    BY <2>1, <2>3 DEF Earlier, HeaderIsDue, Counters
  <2>5. QED
    BY <1>2, <2>4
<1>7. InOrder(pl, << >>, run.p)
  BY <1>3, <1>5 DEF InOrder
<1>8. ~run.ok => Behind(pl, << >>, run.p)
  BY <1>3, <1>4 DEF Behind
<1>9. QED
  BY <1>6, <1>7, <1>8 DEF run

\* A careful server's send succeeds, and leaves the protector in step.
LEMMA SendKeepsCareful ==
  ASSUME NEW pl, NEW pr \in Sane, NEW ob \in Seq(Emittable), NEW em, ob # << >>,
         CarefulIn(pl, ob, em, pr)
  PROVE  CarefulIn(pl, << >>, em, ProtectGroups(pr, ob).p)
<1> DEFINE run == ProtectGroups(pr, ob)
<1>1. /\ ~Closed(pr) /\ SealRun(pr, ob).ok /\ Counters(SealRun(pr, ob).p) = pl
      /\ \A i \in 1 .. Len(ob) - 1 : ob[i].type # "Close"
      /\ \A i \in 1 .. Len(ob) : ob[i].type = "Close" => ClosedIn(em)
  BY DEF CarefulIn
<1>2. SendFacts(pr, ob)
  BY Sends
<1>3. run.ok /\ run.p = SealRun(pr, ob).p /\ run.p \in Sane
  BY <1>1, <1>2 DEF SendFacts
<1> HIDE DEF run
<1>4. SealRun(run.p, << >>) = SealStart(run.p)
  <2>1. << >> \in Seq(Emittable)
    OBVIOUS
  <2>2. QED
    BY <1>3, <2>1, SealRunLaws
<1>5. Closed(run.p) => ClosedIn(em)
  <2>1. SealsWell(pr, ob)
    BY SealedOpens
  <2>2. (\A i \in 1 .. Len(ob) : ob[i].type # "Close") => ~Closed(run.p)
    BY <1>1, <1>3, <2>1 DEF SealsWell
  <2>3. QED
    BY <1>1, <2>2
<1>6. Len(<< >>) = 0 /\ 1 .. 0 = {} /\ 1 .. 0 - 1 = {}
  OBVIOUS
<1>7. CarefulIn(pl, << >>, em, run.p)
  BY <1>1, <1>3, <1>4, <1>5, <1>6 DEF CarefulIn, SealStart
<1>8. QED
  BY <1>7 DEF run

\* A send puts all records of the outbox on the carrier, or none.
LEMMA SendKeepsFlight ==
  ASSUME NEW pl \in PlainCounters, NEW pr \in Sane, NEW ob \in Seq(Emittable), ob # << >>,
         InOrder(pl, ob, pr), NEW lk, NEW pe, NEW ac \in Seq(Emittable), NEW em,
         InFlight(lk, pe, ac, pl, ob, em, pr)
  PROVE  LET run == ProtectGroups(pr, ob)
         IN InFlight(IF run.ok THEN lk \o run.frames ELSE lk, pe, ac, pl, << >>, em, run.p)
<1> DEFINE run == ProtectGroups(pr, ob)
           packed == pack_record_groups(ob)
<1>1. PICK groups, st, rest :
        /\ Carries(lk, groups, st) /\ st[0] = pe
        /\ rest \in Seq(Emittable) /\ (ac \o FlattenSeq(groups)) \o rest = em
        /\ Behind(pl, ob, pr) \/ (st[Len(lk)] = pr /\ rest = ob)
  BY DEF InFlight
<1>2. SendFacts(pr, ob)
  BY Sends
<1>3. /\ ~run.ok => Behind(pl, << >>, run.p)
      /\ Behind(pl, ob, pr) => ~run.ok
  BY SendKeepsOrder
<1>4. /\ packed \in Seq(Group) /\ FlattenSeq(packed) = ob
      /\ run.ok => \E s2 : /\ Carries(run.frames, packed, s2)
                           /\ s2[0] = pr /\ s2[Len(run.frames)] = run.p
  BY <1>2 DEF SendFacts
<1> HIDE DEF run, packed
<1>5. CASE ~run.ok
  <2>1. InFlight(lk, pe, ac, pl, << >>, em, run.p)
    BY <1>1, <1>3, <1>5 DEF InFlight
  <2>2. QED
    BY <1>5, <2>1 DEF run
<1>6. CASE run.ok
  <2>1. st[Len(lk)] = pr /\ rest = ob
    BY <1>1, <1>3, <1>6
  <2>2. PICK s2 : /\ Carries(run.frames, packed, s2)
                  /\ s2[0] = pr /\ s2[Len(run.frames)] = run.p
    BY <1>4, <1>6
  <2>3. PICK s3 : /\ Carries(lk \o run.frames, groups \o packed, s3)
                  /\ s3[0] = pe /\ s3[Len(lk \o run.frames)] = run.p
    <3> DEFINE fs == run.frames
    <3>1. Carries(lk, groups, st) /\ Carries(fs, packed, s2) /\ st[Len(lk)] = s2[0]
      BY <1>1, <2>1, <2>2
    <3> HIDE DEF fs
    <3>2. \E s3 : /\ Carries(lk \o fs, groups \o packed, s3)
                  /\ s3[0] = st[0] /\ s3[Len(lk \o fs)] = s2[Len(fs)]
      BY <3>1, CarriesConcat
    <3>3. QED
      BY <1>1, <2>2, <3>2 DEF fs
  <2>4. /\ groups \in Seq(Seq(Emittable)) /\ packed \in Seq(Seq(Emittable))
    BY <1>1, <1>4 DEF Carries, Group
  <2> DEFINE a == FlattenSeq(groups)
             all == FlattenSeq(groups \o packed)
  <2>5. a \in Seq(Emittable) /\ all = a \o ob
    BY <1>4, <2>4, FlattenType, FlattenConcat
  <2>6. (ac \o a) \o ob = em
    BY <1>1, <2>1
  <2> HIDE DEF a, all
  <2>7. ac \o all = em
    <3>1. ac \in Seq(Emittable) /\ a \in Seq(Emittable) /\ ob \in Seq(Emittable)
      BY <2>5
    <3>2. (ac \o a) \o ob = ac \o (a \o ob)
      BY <3>1, ConcatAssociative
    <3>3. QED
      BY <2>5, <2>6, <3>2
  <2>8. (ac \o all) \o << >> = em /\ << >> \in Seq(Emittable)
    <3>1. ac \o all \in Seq(Emittable)
      BY <2>5
    <3>2. QED
      BY <2>7, <3>1, ConcatEmptySeq
  <2>9. InFlight(lk \o run.frames, pe, ac, pl, << >>, em, run.p)
    BY <2>3, <2>8 DEF InFlight, all
  <2>10. QED
    BY <1>6, <2>9 DEF run
<1>7. QED
  BY <1>5, <1>6

\* send_plain_records keeps the invariant.
LEMMA SendKeeps == ASSUME PipelineInv, send_plain_records PROVE PipelineInv'
<1> DEFINE run == ProtectGroups(prot, outbox)
<1>1. /\ plain \in PlainCounters /\ prot \in Sane /\ outbox \in Seq(Emittable) /\ outbox # << >>
      /\ InOrder(plain, outbox, prot) /\ accepted \in Seq(Emittable)
      /\ ~careless => CarefulIn(plain, outbox, emitted, prot)
      /\ ~Closed(peer) => InFlight(link, peer, accepted, plain, outbox, emitted, prot)
      /\ link \in Seq(Frame)
  BY DEF PipelineInv, send_plain_records
<1>2. /\ outbox' = << >> /\ prot' = run.p
      /\ link' = IF run.ok THEN link \o run.frames ELSE link
      /\ UNCHANGED <<plain, emitted, peer, accepted, applied, careless>>
  BY DEF send_plain_records
<1>3. InOrder(plain, << >>, run.p)
  BY <1>1, SendKeepsOrder
<1>4. ~careless => CarefulIn(plain, << >>, emitted, run.p)
  BY <1>1, SendKeepsCareful
<1>5. ~Closed(peer) => InFlight(link', peer, accepted, plain, << >>, emitted, run.p)
  BY <1>1, <1>2, SendKeepsFlight
<1>6. SendFacts(prot, outbox)
  BY <1>1, Sends
<1>7. run.p \in Sane /\ run.frames \in Seq(Frame)
  BY <1>6 DEF SendFacts
<1> HIDE DEF run
<1>8. link' \in Seq(Frame) /\ << >> \in Seq(Emittable)
  BY <1>1, <1>2, <1>7
<1>9. QED
  BY <1>2, <1>3, <1>4, <1>5, <1>7, <1>8 DEF PipelineInv

----------------------------------------------------------------------------
(* Receiving. *)

\* What recv applies of the records of a frame is records.
LEMMA AppliedType == ASSUME NEW recs \in Seq(Emittable) PROVE AppliedOf(recs) \in Seq(Record)
<1>1. recs \in Seq(Record)
  BY DEF Emittable
<1>2. recs # << >> => <<Head(recs)>> \in Seq(Record)
  BY <1>1
<1>3. << >> \in Seq(Record)
  OBVIOUS
<1>4. QED
  BY <1>1, <1>2, <1>3 DEF AppliedOf, FirstRecord

\* An open peer opens the next frame, and the rest of the frames still fit.
LEMMA ReadOpens ==
  ASSUME NEW lk, lk # << >>, NEW pe, NEW ac \in Seq(Emittable), NEW pl, NEW ob, NEW em, NEW pr,
         InFlight(lk, pe, ac, pl, ob, em, pr)
  PROVE  LET out == unprotect_transport_frame(pe, Head(lk))
         IN /\ out.ok /\ out.p \in Sane /\ out.recs \in Seq(Emittable)
            /\ \E rest \in Seq(Emittable) : (ac \o out.recs) \o rest = em
            /\ InFlight(Tail(lk), out.p, ac \o out.recs, pl, ob, em, pr)
<1> DEFINE out == unprotect_transport_frame(pe, Head(lk))
<1>1. PICK groups, st, rest :
        /\ Carries(lk, groups, st) /\ st[0] = pe
        /\ rest \in Seq(Emittable) /\ (ac \o FlattenSeq(groups)) \o rest = em
        /\ Behind(pl, ob, pr) \/ (st[Len(lk)] = pr /\ rest = ob)
  BY DEF InFlight
<1>2. /\ groups # << >> /\ Head(groups) \in Group /\ st[0] \in Sane /\ st[1] \in Sane
      /\ Seals(st[0], Head(groups), st[1], Head(lk))
      /\ \E tt : /\ Carries(Tail(lk), Tail(groups), tt)
                 /\ tt[0] = st[1] /\ tt[Len(Tail(lk))] = st[Len(lk)]
  BY <1>1, CarriesTail
<1>3. out = [ok |-> TRUE, p |-> st[1], recs |-> Head(groups)]
  BY <1>1, <1>2, FrameOpens DEF Seals
<1> HIDE DEF out
<1>4. out.ok /\ out.p = st[1] /\ out.recs = Head(groups)
  BY <1>3
<1>5. groups \in Seq(Seq(Emittable)) /\ Head(groups) \in Seq(Emittable)
  BY <1>1, <1>2 DEF Carries, Group
<1> DEFINE h == Head(groups)
           t == FlattenSeq(Tail(groups))
           a == ac \o h
<1>6. /\ Tail(groups) \in Seq(Seq(Emittable)) /\ t \in Seq(Emittable)
      /\ FlattenSeq(groups) = h \o t /\ h \in Seq(Emittable)
  BY <1>2, <1>5, HeadTailProperties, FlattenType, FlattenCons
<1>7. (ac \o (h \o t)) \o rest = em
  BY <1>1, <1>6
<1> HIDE DEF h, t
<1>8. (ac \o h) \o t = ac \o (h \o t)
  <2>1. Together(Together(ac, h), t) = Together(ac, Together(h, t))
    BY <1>6, TogetherAssociative
  <2>2. QED
    BY <2>1 DEF Together
<1>9. a \in Seq(Emittable) /\ a \o t = ac \o (h \o t)
  BY <1>6, <1>8
<1> HIDE DEF a
<1>10. (a \o t) \o rest = em
  BY <1>7, <1>9
<1>11. a \o (t \o rest) = em /\ t \o rest \in Seq(Emittable)
  <2>1. (a \o t) \o rest = a \o (t \o rest)
    <3>1. a \in Seq(Emittable) /\ t \in Seq(Emittable) /\ rest \in Seq(Emittable)
      BY <1>1, <1>6, <1>9
    <3>2. QED
      BY <3>1, ConcatAssociative
  <2>2. QED
    BY <1>1, <1>6, <1>10, <2>1
<1>12. InFlight(Tail(lk), out.p, a, pl, ob, em, pr)
  <2>1. PICK tt : /\ Carries(Tail(lk), Tail(groups), tt)
                  /\ tt[0] = st[1] /\ tt[Len(Tail(lk))] = st[Len(lk)]
    BY <1>2
  <2>2. tt[0] = out.p /\ (Behind(pl, ob, pr) \/ (tt[Len(Tail(lk))] = pr /\ rest = ob))
    BY <1>1, <1>4, <2>1
  <2>3. QED
    BY <1>1, <1>10, <2>1, <2>2 DEF InFlight, t
<1>13. a = ac \o out.recs
  BY <1>4 DEF a, h
<1>14. out.recs \in Seq(Emittable) /\ out.p \in Sane
  BY <1>2, <1>4, <1>5
<1>15. QED
  BY <1>4, <1>11, <1>12, <1>13, <1>14 DEF out

\* ReadFrame keeps the invariant.
LEMMA ReadKeeps == ASSUME PipelineInv, ReadFrame PROVE PipelineInv'
<1> DEFINE out == unprotect_transport_frame(peer, Head(link))
<1>1. /\ link # << >> /\ ~Closed(peer) /\ link' = Tail(link) /\ peer' = out.p
      /\ accepted' = accepted \o out.recs
      /\ applied' = applied \o AppliedOf(out.recs)
      /\ UNCHANGED <<plain, outbox, emitted, prot, careless>>
  BY DEF ReadFrame
<1>2. /\ accepted \in Seq(Emittable) /\ applied \in Seq(Record) /\ link \in Seq(Frame)
      /\ InFlight(link, peer, accepted, plain, outbox, emitted, prot)
  BY <1>1 DEF PipelineInv
<1>3. /\ out.ok /\ out.p \in Sane /\ out.recs \in Seq(Emittable)
      /\ \E rest \in Seq(Emittable) : (accepted \o out.recs) \o rest = emitted
      /\ InFlight(Tail(link), out.p, accepted \o out.recs, plain, outbox, emitted, prot)
  BY <1>1, <1>2, ReadOpens
<1> HIDE DEF out
<1>4. AppliedOf(out.recs) \in Seq(Record)
  BY <1>3, AppliedType
<1>5. /\ accepted' \in Seq(Emittable) /\ applied' \in Seq(Record) /\ link' \in Seq(Frame)
  BY <1>1, <1>2, <1>3, <1>4
<1>6. QED
  BY <1>1, <1>3, <1>5 DEF PipelineInv

----------------------------------------------------------------------------
(* The theorems. *)

\* The new pipeline: nothing emitted, both protectors at the start.
LEMMA InitHolds == Init => PipelineInv
<1> SUFFICES ASSUME Init PROVE PipelineInv
  OBVIOUS
<1> DEFINE e == << >>
<1>1. /\ plain = [epoch |-> 0, seq |-> 0, confirm |-> FALSE] /\ outbox = e /\ emitted = e
      /\ prot = NewProtector /\ link = e /\ peer = NewProtector
      /\ accepted = e /\ applied = e /\ careless = FALSE
  BY DEF Init
<1>2. /\ NewProtector \in Protector /\ ~post_rekey_confirm_required(NewProtector)
      /\ ~Closed(NewProtector)
      /\ Counters(NewProtector) = [epoch |-> 0, seq |-> 0, confirm |-> FALSE]
  <2>1. << >> \in Root
    BY DEF Root
  <2>2. NoRekey \in PendingRekey
    BY <2>1 DEF NoRekey, PendingRekey
  <2>3. NewProtector \in Protector
    BY <2>1, <2>2 DEF NewProtector, Protector, StreamState
  <2>4. ~post_rekey_confirm_required(NewProtector) /\ ~Closed(NewProtector)
    BY DEF NewProtector, post_rekey_confirm_required, Closed
  <2>5. Counters(NewProtector) = [epoch |-> 0, seq |-> 0, confirm |-> FALSE]
    <3>1. post_rekey_confirm_required(NewProtector) = FALSE
      BY DEF NewProtector, post_rekey_confirm_required
    <3>2. expected_epoch_id(NewProtector) = 0 /\ expected_seq_no(NewProtector) = 0
      BY <2>4 DEF NewProtector, expected_epoch_id, expected_seq_no
    <3>3. QED
      BY <3>1, <3>2 DEF Counters
  <2>6. QED
    BY <2>3, <2>4, <2>5
<1>3. NewProtector \in Sane
  BY <1>2 DEF Sane
<1>4. /\ e \in Seq(Emittable) /\ e \in Seq(Record) /\ e \in Seq(Frame)
      /\ Len(e) = 0 /\ 1 .. 0 = {} /\ 1 .. 0 - 1 = {} /\ e \o e = e
  OBVIOUS
<1>5. FlattenSeq(e) = e
  BY FlattenEmpty
<1>6. SealRun(NewProtector, e) = SealStart(NewProtector)
  BY <1>3, <1>4, SealRunLaws
<1>7. PICK st : Carries(e, e, st) /\ st[0] = NewProtector
  BY <1>3, CarriesNone
<1>8. plain \in PlainCounters
  BY <1>1 DEF PlainCounters
<1> HIDE DEF e
<1>9. InOrder(plain, e, NewProtector)
  <2>1. Counters(NewProtector) = plain
    BY <1>1, <1>2
  <2>2. NotLater(Counters(NewProtector), plain)
    BY <2>1 DEF NotLater
  <2>3. e = << >>
    BY DEF e
  <2>4. QED
    BY <1>4, <2>2, <2>3 DEF InOrder
<1>10. CarefulIn(plain, e, e, NewProtector)
  BY <1>1, <1>2, <1>4, <1>6 DEF CarefulIn, SealStart
<1>11. InFlight(e, NewProtector, e, plain, e, e, NewProtector)
  BY <1>4, <1>5, <1>7 DEF InFlight
<1>12. QED
  BY <1>1, <1>3, <1>4, <1>8, <1>9, <1>10, <1>11 DEF PipelineInv

\* Every step keeps the invariant.
LEMMA StepKeeps == PipelineInv /\ [Next]_vars => PipelineInv'
<1> SUFFICES ASSUME PipelineInv, [Next]_vars PROVE PipelineInv'
  OBVIOUS
<1> USE DEF RecordType
<1>1. CASE EmitEvent
  BY <1>1, EmitPlainKeeps DEF EmitEvent
<1>2. CASE EmitRepair
  BY <1>2, EmitPlainKeeps DEF EmitRepair
<1>3. CASE EmitClose
  BY <1>3, EmitPlainKeeps DEF EmitClose
<1>4. CASE EmitSource
  BY <1>4, EmitSourceKeeps
<1>5. CASE EmitTraceFails
  BY <1>5, TraceKeeps
<1>6. CASE EmitRekey
  BY <1>6, EmitRekeyKeeps
<1>7. CASE EmitPendingControlPlane
  BY <1>7, EmitControlKeeps
<1>8. CASE send_plain_records
  BY <1>8, SendKeeps
<1>9. CASE ReadFrame
  BY <1>9, ReadKeeps
<1>10. CASE UNCHANGED vars
  BY <1>10 DEF vars, PipelineInv
<1>11. QED
  BY <1>1, <1>2, <1>3, <1>4, <1>5, <1>6, <1>7, <1>8, <1>9, <1>10 DEF Next

\* The frames in flight connect the protectors, and a careful plain session stays in
\* step with the connection's protector.
THEOREM PipelineInvariant == Spec => []PipelineInv
BY InitHolds, StepKeeps, PTL DEF Spec

\* The counters of the plain session and both protectors have their types whatever
\* order of emits, rekeys and failed sends led here.
THEOREM TypeCorrect == Spec => []TypeOK
<1>1. PipelineInv => TypeOK
  <2> SUFFICES ASSUME PipelineInv PROVE TypeOK
    OBVIOUS
  <2>1. Emittable \subseteq Record /\ Sane \subseteq Protector
    BY DEF Emittable, Sane
  <2>2. \A s \in Seq(Emittable) : s \in Seq(Record)
    BY <2>1
  <2>3. plain \in [epoch : Nat, seq : Nat, confirm : BOOLEAN]
    BY DEF PipelineInv, PlainCounters
  <2>4. QED
    BY <2>1, <2>2, <2>3 DEF PipelineInv, TypeOK
<1>2. QED
  BY <1>1, PipelineInvariant, PTL

\* Whatever sends failed, the client accepted a prefix of what the server emitted.
THEOREM PrefixAccepted == Spec => []AcceptedPrefix
<1>1. PipelineInv => AcceptedPrefix
  <2> SUFFICES ASSUME PipelineInv PROVE AcceptedPrefix
    OBVIOUS
  <2>1. PICK rest \in Seq(Emittable) : accepted \o rest = emitted
    BY DEF PipelineInv
  <2>2. accepted \in Seq(Emittable)
    BY DEF PipelineInv
  <2>3. QED
    BY <2>1, <2>2 DEF AcceptedPrefix, IsPrefix
<1>2. QED
  BY <1>1, PipelineInvariant, PTL

\* Packing loses no record, keeps their order and overfills no group of several.
THEOREM PackingLosesNothing == Spec => []PackingKeepsRecords
<1>1. PipelineInv => PackingKeepsRecords
  <2> SUFFICES ASSUME PipelineInv PROVE PackingKeepsRecords
    OBVIOUS
  <2> DEFINE groups == pack_record_groups(outbox)
  <2>1. groups \in Seq(Packed) /\ FlattenSeq(groups) = outbox
    BY PackingFacts DEF PipelineInv
  <2> HIDE DEF groups
  <2>2. \A i \in DOMAIN groups : groups[i] \in Packed
    BY <2>1
  <2>3. \A g \in Packed : Len(g) > 0 /\ (Len(g) > 1 => Load(g) <= PayloadCap)
    BY DEF Packed, Group
  <2>4. \A i \in DOMAIN groups :
          Len(groups[i]) > 0 /\ (Len(groups[i]) > 1 => Load(groups[i]) <= PayloadCap)
    BY <2>2, <2>3
  <2>5. QED
    BY <2>1, <2>4 DEF PackingKeepsRecords, groups, Load
<1>2. QED
  BY <1>1, PipelineInvariant, PTL

\* Once everything emitted was sent, a careful plain session and the protector that
\* advances independently of it agree.
THEOREM CountersAgree == Spec => []CountersInStep
<1>1. PipelineInv => CountersInStep
  <2> SUFFICES ASSUME PipelineInv, ~careless, outbox = << >>
               PROVE  plain = Counters(prot)
    BY DEF CountersInStep, Counters
  <2>1. CarefulIn(plain, << >>, emitted, prot) /\ prot \in Sane
    BY DEF PipelineInv
  <2>2. SealRun(prot, << >>) = SealStart(prot)
    <3>1. << >> \in Seq(Emittable)
      OBVIOUS
    <3>2. QED
      BY <2>1, <3>1, SealRunLaws
  <2>3. QED
    BY <2>1, <2>2 DEF CarefulIn, SealStart
<1>2. QED
  BY <1>1, PipelineInvariant, PTL

----------------------------------------------------------------------------
(* Frames of one record. *)

\* The largest of one number.
LEMMA MaxOfOne == Max({1}) = 1 /\ {1} \ {1} = {} /\ {1} # {}
<1>1. 1 .. 1 = {1} /\ 1 .. 1 \in SUBSET (1 .. 1)
  OBVIOUS
<1>2. Max(1 .. 1) = 1
  BY PeelInterval
<1>3. QED
  BY <1>1, <1>2

\* One record in the loop of protect_transport_records.
LEMMA SealOne ==
  ASSUME NEW start, NEW r
  PROVE  FoldLeft(SealStep, start, <<r>>) = SealStep(start, r)
<1> DEFINE seq == <<r>>
           Solves(h) ==
             h = [s \in SUBSET DOMAIN seq |->
                    IF s = {} THEN start ELSE SealStep(h[s \ {Max(s)}], seq[Max(s)])]
           it == CHOOSE h : Solves(h)
           end == SealStep(start, r)
           one == [s \in SUBSET DOMAIN seq |-> IF s = {} THEN start ELSE end]
<1>1. DOMAIN seq = {1} /\ seq[1] = r /\ SUBSET {1} = {{}, {1}}
  <2>1. Len(seq) = 1 /\ 1 .. 1 = {1}
    OBVIOUS
  <2>2. QED
    BY <2>1
<1>2. Max({1}) = 1 /\ {1} \ {1} = {} /\ {1} # {}
  BY MaxOfOne
<1>3. Solves(one)
  <2>1. one[{}] = start
    BY <1>1
  <2>2. \A s \in SUBSET DOMAIN seq :
          (IF s = {} THEN start ELSE end) =
            (IF s = {} THEN start ELSE SealStep(one[s \ {Max(s)}], seq[Max(s)]))
    <3> HIDE DEF one, seq
    <3>1. QED
      BY <1>1, <1>2, <2>1
  <2>3. QED
    BY <2>2
<1>4. Solves(it)
  <2> HIDE DEF Solves
  <2>1. QED
    BY <1>3, Zenon
<1>5. FoldLeft(SealStep, start, seq) = it[DOMAIN seq]
  BY DEF FoldLeft, MapThenFoldSet
<1> HIDE DEF it, seq
<1>6. it[{}] = start /\ it[{1}] = SealStep(it[{1} \ {1}], seq[1])
  BY <1>1, <1>2, <1>4
<1>7. QED
  BY <1>1, <1>2, <1>5, <1>6 DEF seq

\* One record in the loop of decode_compact_transport_records.
LEMMA DecodeOne ==
  ASSUME NEW start, NEW c
  PROVE  FoldLeft(DecodeStep, start, <<c>>) = DecodeStep(start, c)
<1> DEFINE seq == <<c>>
           Solves(h) ==
             h = [s \in SUBSET DOMAIN seq |->
                    IF s = {} THEN start ELSE DecodeStep(h[s \ {Max(s)}], seq[Max(s)])]
           it == CHOOSE h : Solves(h)
           end == DecodeStep(start, c)
           one == [s \in SUBSET DOMAIN seq |-> IF s = {} THEN start ELSE end]
<1>1. DOMAIN seq = {1} /\ seq[1] = c /\ SUBSET {1} = {{}, {1}}
  <2>1. Len(seq) = 1 /\ 1 .. 1 = {1}
    OBVIOUS
  <2>2. QED
    BY <2>1
<1>2. Max({1}) = 1 /\ {1} \ {1} = {} /\ {1} # {}
  BY MaxOfOne
<1>3. Solves(one)
  <2>1. one[{}] = start
    BY <1>1
  <2>2. \A s \in SUBSET DOMAIN seq :
          (IF s = {} THEN start ELSE end) =
            (IF s = {} THEN start ELSE DecodeStep(one[s \ {Max(s)}], seq[Max(s)]))
    <3> HIDE DEF one, seq
    <3>1. QED
      BY <1>1, <1>2, <2>1
  <2>3. QED
    BY <2>2
<1>4. Solves(it)
  <2> HIDE DEF Solves
  <2>1. QED
    BY <1>3, Zenon
<1>5. FoldLeft(DecodeStep, start, seq) = it[DOMAIN seq]
  BY DEF FoldLeft, MapThenFoldSet
<1> HIDE DEF it, seq
<1>6. it[{}] = start /\ it[{1}] = DecodeStep(it[{1} \ {1}], seq[1])
  BY <1>1, <1>2, <1>4
<1>7. QED
  BY <1>1, <1>2, <1>5, <1>6 DEF seq

\* One record in the loop of unprotect_transport_frame.
LEMMA OpenOne ==
  ASSUME NEW start, NEW r
  PROVE  FoldLeft(OpenStep, start, <<r>>) = OpenStep(start, r)
<1> DEFINE seq == <<r>>
           Solves(h) ==
             h = [s \in SUBSET DOMAIN seq |->
                    IF s = {} THEN start ELSE OpenStep(h[s \ {Max(s)}], seq[Max(s)])]
           it == CHOOSE h : Solves(h)
           end == OpenStep(start, r)
           one == [s \in SUBSET DOMAIN seq |-> IF s = {} THEN start ELSE end]
<1>1. DOMAIN seq = {1} /\ seq[1] = r /\ SUBSET {1} = {{}, {1}}
  <2>1. Len(seq) = 1 /\ 1 .. 1 = {1}
    OBVIOUS
  <2>2. QED
    BY <2>1
<1>2. Max({1}) = 1 /\ {1} \ {1} = {} /\ {1} # {}
  BY MaxOfOne
<1>3. Solves(one)
  <2>1. one[{}] = start
    BY <1>1
  <2>2. \A s \in SUBSET DOMAIN seq :
          (IF s = {} THEN start ELSE end) =
            (IF s = {} THEN start ELSE OpenStep(one[s \ {Max(s)}], seq[Max(s)]))
    <3> HIDE DEF one, seq
    <3>1. QED
      BY <1>1, <1>2, <2>1
  <2>3. QED
    BY <2>2
<1>4. Solves(it)
  <2> HIDE DEF Solves
  <2>1. QED
    BY <1>3, Zenon
<1>5. FoldLeft(OpenStep, start, seq) = it[DOMAIN seq]
  BY DEF FoldLeft, MapThenFoldSet
<1> HIDE DEF it, seq
<1>6. it[{}] = start /\ it[{1}] = OpenStep(it[{1} \ {1}], seq[1])
  BY <1>1, <1>2, <1>4
<1>7. QED
  BY <1>1, <1>2, <1>5, <1>6 DEF seq

----------------------------------------------------------------------------
(* Endpoints and their frames. *)

\* An endpoint of the SDK never rekeys.
Plain == {p \in Protector : p.pending = NoRekey /\ p.epoch = 0}

\* The frames it sends carry one record.
Content == {[type |-> "Exact", confirm |-> FALSE, body |-> b, next |-> 0] : b \in Bodies}

\* A frame with one record, under the key of its number.
SentFrame ==
  {f \in [epoch : Nat, seq : Nat, count : Nat, body : Seq(Content), key : Key] :
     f.epoch = 0 /\ f.count = 1 /\ Len(f.body) = 1 /\ f.key.seq = f.seq}

\* Such a protector waits for its next number and for no confirmation.
LEMMA PlainFacts ==
  ASSUME NEW p \in Plain
  PROVE  /\ p \in Protector /\ p.seq \in Nat /\ p.root \in Root
         /\ post_rekey_confirm_required(p) = FALSE
         /\ expected_epoch_id(p) = 0 /\ expected_seq_no(p) = p.seq
         /\ ActiveRoot(p) = p.root
<1>1. p \in Protector /\ p.pending = NoRekey /\ p.epoch = 0 /\ p.seq \in Nat /\ p.root \in Root
  BY DEF Plain, Protector
<1>2. post_rekey_confirm_required(p) = FALSE
  BY <1>1 DEF post_rekey_confirm_required
<1>3. QED
  BY <1>1, <1>2 DEF expected_epoch_id, expected_seq_no, ActiveRoot

\* One step of the ratchet.
LEMMA ExactAdvances ==
  ASSUME NEW p \in Plain, NEW r \in Record, r.type = "Exact", r.epoch = 0, r.seq = p.seq
  PROVE  /\ finish_success(p, r) = Advance(p, r) /\ ~FinishFails(p, r)
         /\ Advance(p, r) \in Plain /\ Advance(p, r).seq = p.seq + 1
<1>1. finish_success(p, r) = Advance(p, r) /\ ~FinishFails(p, r)
  BY DEF finish_success, FinishFails
<1> DEFINE q == Advance(p, r)
<1>2. NextRoot(ActiveRoot(p), r.epoch, r.seq) \in Root
  <2>1. r.epoch \in Nat /\ r.seq \in Nat /\ ActiveRoot(p) \in Root
    BY PlainFacts DEF Record
  <2>2. QED
    BY <2>1 DEF NextRoot, Root, Derivation
<1>3. NoRekey \in PendingRekey
  BY DEF NoRekey, PendingRekey, Root
<1>4. expected_epoch_id(p) = 0 /\ p.seq \in Nat
  BY PlainFacts
<1>5. /\ q \in Protector /\ q.pending = NoRekey /\ q.epoch = 0 /\ q.seq = p.seq + 1
  BY <1>2, <1>3, <1>4 DEF Advance, Protector, StreamState
<1> HIDE DEF q
<1>6. q \in Plain
  BY <1>5 DEF Plain
<1>7. QED
  BY <1>1, <1>5, <1>6 DEF q

\* A frame is sealed by an open protector, whatever the body, and moves it one step.
LEMMA SendOne ==
  ASSUME NEW p \in Plain, NEW b \in Bodies
  PROVE  LET out == protect_transport_records(p, <<build_exact_record(p, b)>>)
         IN /\ out.ok => /\ ~Closed(p)
                         /\ out.p \in Plain /\ out.p.seq = p.seq + 1
                         /\ out.frame \in SentFrame /\ out.frame.seq = p.seq
            /\ ~out.ok => out.p = p
<1> DEFINE r == build_exact_record(p, b)
           out == protect_transport_records(p, <<r>>)
           start == [ok |-> TRUE, p |-> p, recs |-> << >>]
           run == SealRun(p, <<r>>)
<1>1. r = [type |-> "Exact", epoch |-> 0, seq |-> p.seq, confirm |-> FALSE, body |-> b, next |-> 0]
  BY PlainFacts DEF build_exact_record
<1> HIDE DEF r
<1>2. r \in Record /\ r.type = "Exact" /\ r.epoch = 0 /\ r.seq = p.seq
  BY <1>1, PlainFacts DEF Record, RecordType
<1>3. prepare_record_for_epoch(p, r) = r
  <2>1. r.confirm = (r.confirm \/ post_rekey_confirm_required(p))
    BY <1>1, PlainFacts
  <2>2. r = [r EXCEPT !.confirm = r.confirm]
    BY <1>2 DEF Record
  <2>3. QED
    BY <2>1, <2>2, Zenon DEF prepare_record_for_epoch
<1>4. validate(r) /\ ~PrepareRefuses(p, r)
  BY <1>1, PlainFacts DEF validate, PrepareRefuses
<1>5. run = SealStep(start, r)
  BY SealOne DEF SealRun
<1>6. SealStep(start, r) = [ok |-> TRUE, p |-> Advance(p, r), recs |-> <<r>>]
  <2>1. Append(start.recs, r) = <<r>> /\ start.ok /\ start.p = p
    OBVIOUS
  <2> HIDE DEF start
  <2>2. QED
    BY <1>2, <1>3, <1>4, <2>1, ExactAdvances DEF SealStep
<1>7. run.ok /\ run.p = Advance(p, r) /\ run.recs = <<r>> /\ Len(run.recs) = 1 /\ run.recs[1] = r
  BY <1>5, <1>6
<1> HIDE DEF run
<1>8. CASE Closed(p)
  BY <1>8 DEF protect_transport_records, r
<1>9. CASE ~Closed(p)
  <2> DEFINE body == [i \in 1 .. 1 |-> Compact(run.recs[i])]
             f == [epoch |-> r.epoch, seq |-> r.seq, count |-> 1, body |-> body,
                   key |-> FrameKey(ActiveRoot(p), r.epoch, r.seq, 1)]
  <2>1. out = [ok |-> TRUE, p |-> run.p, frame |-> f]
    <3>1. out = LET n == Len(run.recs)
                IN IF Closed(p) \/ ~run.ok \/ n = 0
                   THEN [ok |-> FALSE, p |-> p, frame |-> NoFrame]
                   ELSE [ok |-> TRUE, p |-> run.p,
                         frame |-> [epoch |-> run.recs[1].epoch, seq |-> run.recs[1].seq, count |-> n,
                                    body |-> [i \in 1 .. n |-> Compact(run.recs[i])],
                                    key |-> FrameKey(ActiveRoot(p), run.recs[1].epoch, run.recs[1].seq, n)]]
      BY DEF protect_transport_records, run
    <3> HIDE DEF out
    <3>2. QED
      BY <1>7, <1>9, <3>1
  <2>2. body \in Seq(Content) /\ Len(body) = 1
    <3>1. Compact(r) \in Content
      BY <1>1 DEF Compact, Content
    <3>2. \A i \in 1 .. 1 : Compact(run.recs[i]) \in Content
      <4>1. \A i \in 1 .. 1 : i = 1
        OBVIOUS
      <4>2. QED
        BY <1>7, <3>1, <4>1
    <3>3. body \in [1 .. 1 -> Content]
      BY <3>2
    <3>4. QED
      BY <3>3
  <2> HIDE DEF body
  <2>3. FrameKey(ActiveRoot(p), r.epoch, r.seq, 1) \in Key
    <3>1. ActiveRoot(p) \in Root /\ r.epoch \in Nat /\ r.seq \in Nat
      BY <1>2, PlainFacts DEF Record
    <3>2. QED
      BY <3>1 DEF FrameKey, Key
  <2>4. FrameKey(ActiveRoot(p), r.epoch, r.seq, 1).seq = r.seq
    BY DEF FrameKey
  <2>5. f \in SentFrame /\ f.seq = p.seq
    <3> DEFINE k == FrameKey(ActiveRoot(p), r.epoch, r.seq, 1)
    <3>1. r.epoch = 0 /\ r.seq = p.seq /\ p.seq \in Nat
      BY <1>2, PlainFacts
    <3>2. k \in Key /\ k.seq = r.seq
      BY <2>3, <2>4
    <3> HIDE DEF k
    <3>3. f = [epoch |-> r.epoch, seq |-> r.seq, count |-> 1, body |-> body, key |-> k]
      BY DEF k
    <3> HIDE DEF f
    <3>4. f \in [epoch : Nat, seq : Nat, count : Nat, body : Seq(Content), key : Key]
      BY <2>2, <3>1, <3>2, <3>3
    <3>5. /\ f.epoch = 0 /\ f.count = 1 /\ Len(f.body) = 1 /\ f.key.seq = f.seq /\ f.seq = p.seq
      BY <2>2, <3>1, <3>2, <3>3
    <3>6. QED
      BY <3>4, <3>5 DEF SentFrame
  <2> HIDE DEF f
  <2>6. out.ok /\ out.p = Advance(p, r) /\ out.frame = f
    BY <1>7, <2>1
  <2> HIDE DEF out
  <2>7. QED
    BY <1>2, <1>9, <2>5, <2>6, ExactAdvances DEF out, r
<1>10. QED
  BY <1>8, <1>9

\* Such a frame opens to its one record, or it closes the stream.
LEMMA ReadOne ==
  ASSUME NEW p \in Plain, NEW f \in SentFrame
  PROVE  LET out == unprotect_transport_frame(p, f)
         IN /\ out.p \in Plain
            /\ \/ /\ out.p.seq = p.seq + 1
                  /\ \E r \in Record : FirstRecord(out.recs) = <<r>> /\ r.body = f.body[1].body
               \/ out.p.seq = p.seq /\ Closed(out.p) /\ FirstRecord(out.recs) = << >>
<1> DEFINE out == unprotect_transport_frame(p, f)
           recs == decode_compact_transport_records(f)
           c == f.body[1]
           r == [type |-> c.type, confirm |-> c.confirm, body |-> c.body,
                 next |-> c.next, epoch |-> f.epoch, seq |-> f.seq]
           start == [ok |-> TRUE, p |-> p]
           from == [recs |-> << >>, epoch |-> f.epoch, seq |-> f.seq]
<1>1. /\ f.epoch = 0 /\ f.seq \in Nat /\ f.count = 1 /\ Len(f.body) = 1
      /\ f.body \in Seq(Content)
  BY DEF SentFrame
<1>2. c \in Content /\ f.body = <<c>>
  BY <1>1
<1> HIDE DEF c
<1>3. /\ r \in Record /\ r.type = "Exact" /\ r.epoch = 0 /\ r.seq = f.seq /\ r.body = c.body
      /\ r.confirm = FALSE
  <2>1. PICK b \in Bodies : c = [type |-> "Exact", confirm |-> FALSE, body |-> b, next |-> 0]
    BY <1>2 DEF Content
  <2>2. r = [type |-> "Exact", confirm |-> FALSE, body |-> b, next |-> 0, epoch |-> 0, seq |-> f.seq]
    BY <1>1, <2>1
  <2> HIDE DEF r
  <2>3. QED
    BY <1>1, <2>1, <2>2 DEF Record, RecordType
<1>4. recs = <<r>>
  <2>1. recs = DecodeStep(from, c).recs
    <3> HIDE DEF from
    <3>1. FoldLeft(DecodeStep, from, <<c>>) = DecodeStep(from, c)
      BY DecodeOne
    <3>2. recs = FoldLeft(DecodeStep, from, <<c>>).recs
      BY <1>2 DEF decode_compact_transport_records, from
    <3>3. QED
      BY <3>1, <3>2
  <2>2. Append(from.recs, r) = <<r>> /\ from.epoch = f.epoch /\ from.seq = f.seq
    OBVIOUS
  <2>3. QED
    BY <2>1, <2>2 DEF DecodeStep
<1> HIDE DEF recs, r
<1>5. FoldLeft(OpenStep, start, recs) = OpenStep(start, r)
  <2> HIDE DEF start
  <2>1. QED
    BY <1>4, OpenOne
<1>6. FirstRecord(recs) = <<r>> /\ FirstRecord(<< >>) = << >>
  BY <1>4 DEF FirstRecord
<1>7. CASE /\ FrameIsDue(p, f)
           /\ f.key = FrameKey(ActiveRoot(p), f.epoch, f.seq, f.count)
           /\ Len(recs) = f.count
           /\ OpenStep(start, r).ok
  <2>1. out = [ok |-> TRUE, p |-> OpenStep(start, r).p, recs |-> recs]
    BY <1>5, <1>7 DEF unprotect_transport_frame, recs
  <2>2. r.seq = p.seq
    BY <1>3, <1>7, PlainFacts DEF FrameIsDue
  <2>3. OpenStep(start, r).p = Advance(p, r)
    BY <1>3, <1>7, <2>2, ExactAdvances DEF OpenStep
  <2>4. /\ out.p = Advance(p, r) /\ out.recs = recs
    BY <2>1, <2>3
  <2> HIDE DEF out
  <2>5. QED
    BY <1>3, <1>6, <2>2, <2>4, ExactAdvances DEF out, c
<1>8. CASE ~ /\ FrameIsDue(p, f)
             /\ f.key = FrameKey(ActiveRoot(p), f.epoch, f.seq, f.count)
             /\ Len(recs) = f.count
             /\ OpenStep(start, r).ok
  <2>1. out = [ok |-> FALSE, p |-> Fail(p), recs |-> << >>]
    BY <1>5, <1>8 DEF unprotect_transport_frame, recs
  <2>2. Fail(p) \in Plain /\ Fail(p).seq = p.seq /\ Closed(Fail(p))
    BY PlainFacts DEF Fail, Plain, Protector, StreamState, Closed
  <2>3. QED
    BY <1>6, <2>1, <2>2
<1>9. QED
  BY <1>7, <1>8

----------------------------------------------------------------------------
(* The inductive invariant. *)

\* What may be on a wire.
Item == [part : {"length", "body"}, frame : SentFrame]

\* After the first k of the frames, the rest is on the wire: a length and a body each,
\* the first without its length when that was read and not dropped with the read.
OnWire(w, frames, k, inside) ==
  \E d \in {0, 1} :
    /\ inside => d = 1
    /\ Len(w) = 2 * (Len(frames) - k) - d
    /\ \A j \in 1 .. Len(frames) - k :
         /\ w[2 * j - d] = BodyOf(frames[k + j])
         /\ 2 * j - 1 - d >= 1 => w[2 * j - 1 - d] = LengthOf(frames[k + j])

\* Frames of one direction have growing numbers, all before the next.
Numbered(frames, next) ==
  \A i \in 1 .. Len(frames) :
    frames[i].seq < next /\ \A j \in 1 .. i - 1 : frames[j].seq < frames[i].seq

\* What recv returned is what the first frames carried.
Received(records, frames) ==
  /\ Len(records) <= Len(frames)
  /\ \A i \in 1 .. Len(records) : records[i].body = frames[i].body[1].body

\* Types of the variables.
DuplexTypes ==
  /\ protector \in [Peers -> Plain]
  /\ sent \in [Peers -> Seq(SentFrame)]
  /\ got \in [Peers -> Seq(Record)]
  /\ wire \in [Peers -> Seq(Item)]
  /\ reading \in [Peers -> BOOLEAN]
  /\ broken \in [Peers -> BOOLEAN]
  /\ crossed \in BOOLEAN /\ cut \in BOOLEAN

\* One endpoint: its protector counts the frames of both directions, and unless it
\* gave up, what it has not received is on its wire.
EndInv(e) ==
  /\ protector[e].seq = Len(sent[e]) + Len(got[e])
  /\ Received(got[e], sent[Other(e)])
  /\ Numbered(sent[e], protector[e].seq)
  /\ ~broken[e] /\ ~Closed(protector[e]) => OnWire(wire[e], sent[Other(e)], Len(got[e]), reading[e])

\* As long as nobody sent before it had received all there was, no number was used in
\* both directions.
Apart(a, b) == \A i \in 1 .. Len(a), j \in 1 .. Len(b) : a[i].seq # b[j].seq

\* The inductive invariant.
DuplexInv ==
  /\ DuplexTypes
  /\ \A e \in Peers : EndInv(e)
  /\ ~crossed => Apart(sent["client"], sent["server"])

\* There are two endpoints.
LEMMA OtherFacts ==
  ASSUME NEW e \in Peers
  PROVE  /\ Other(e) \in Peers /\ Other(e) # e /\ Other(Other(e)) = e
         /\ \A f \in Peers : f = e \/ f = Other(e)
         /\ (e = "client" /\ Other(e) = "server") \/ (e = "server" /\ Other(e) = "client")
<1>1. \A x \in Peers : Other(x) \in Peers /\ Other(x) # x
  <2>1. SUFFICES ASSUME NEW x \in Peers PROVE Other(x) \in Peers /\ Other(x) # x
    OBVIOUS
  <2>2. \E f \in Peers : f # x
    BY DEF Peers
  <2>3. QED
    BY <2>2 DEF Other
<1>2. QED
  BY <1>1 DEF Peers

\* A frame more goes to the end of the wire.
LEMMA WireSend ==
  ASSUME NEW w \in Seq(Item), NEW frames \in Seq(SentFrame), NEW k \in Nat, k <= Len(frames),
         NEW inside, OnWire(w, frames, k, inside), NEW f \in SentFrame
  PROVE  OnWire(Append(Append(w, LengthOf(f)), BodyOf(f)), Append(frames, f), k, inside)
<1> DEFINE new == Append(Append(w, LengthOf(f)), BodyOf(f))
           all == Append(frames, f)
           n == Len(frames)
<1>1. PICK d \in {0, 1} :
        /\ inside => d = 1
        /\ Len(w) = 2 * (n - k) - d
        /\ \A j \in 1 .. n - k :
             /\ w[2 * j - d] = BodyOf(frames[k + j])
             /\ 2 * j - 1 - d >= 1 => w[2 * j - 1 - d] = LengthOf(frames[k + j])
  BY DEF OnWire
<1>2. n \in Nat /\ Len(w) \in Nat
  OBVIOUS
<1>3. /\ Len(all) = n + 1 /\ all[n + 1] = f
      /\ \A i \in 1 .. n : all[i] = frames[i]
  OBVIOUS
<1>4. LengthOf(f) \in Item /\ BodyOf(f) \in Item
  BY DEF LengthOf, BodyOf, Item
<1>5. /\ Len(new) = Len(w) + 2 /\ new[Len(w) + 1] = LengthOf(f) /\ new[Len(w) + 2] = BodyOf(f)
      /\ \A i \in 1 .. Len(w) : new[i] = w[i]
  <2> DEFINE a == LengthOf(f)
             b == BodyOf(f)
  <2> HIDE DEF a, b
  <2>1. a \in Item /\ b \in Item
    BY <1>4 DEF a, b
  <2>2. /\ Len(Append(Append(w, a), b)) = Len(w) + 2
        /\ Append(Append(w, a), b)[Len(w) + 1] = a /\ Append(Append(w, a), b)[Len(w) + 2] = b
        /\ \A i \in 1 .. Len(w) : Append(Append(w, a), b)[i] = w[i]
    BY <2>1
  <2>3. QED
    BY <2>2 DEF a, b
<1> HIDE DEF new, all, n
<1>6. ASSUME NEW j \in 1 .. n + 1 - k
      PROVE  /\ new[2 * j - d] = BodyOf(all[k + j])
             /\ 2 * j - 1 - d >= 1 => new[2 * j - 1 - d] = LengthOf(all[k + j])
  <2>1. CASE j \in 1 .. n - k
    <3>1. 2 * j - d \in 1 .. Len(w) /\ k + j \in 1 .. n
      BY <1>1, <1>2, <2>1
    <3>2. 2 * j - 1 - d >= 1 => 2 * j - 1 - d \in 1 .. Len(w)
      BY <3>1
    <3>3. QED
      BY <1>1, <1>3, <1>5, <2>1, <3>1, <3>2
  <2>2. CASE j = n + 1 - k
    <3>1. 2 * j - d = Len(w) + 2 /\ 2 * j - 1 - d = Len(w) + 1 /\ k + j = n + 1
      BY <1>1, <1>2, <2>2
    <3>2. QED
      BY <1>3, <1>5, <3>1
  <2>3. QED
    BY <1>2, <2>1, <2>2 DEF n
<1>7. Len(new) = 2 * (Len(all) - k) - d
  BY <1>1, <1>2, <1>3, <1>5
<1>8. OnWire(new, all, k, inside)
  <2>1. n + 1 - k = Len(all) - k
    BY <1>2, <1>3
  <2>2. \A j \in 1 .. Len(all) - k :
          /\ new[2 * j - d] = BodyOf(all[k + j])
          /\ 2 * j - 1 - d >= 1 => new[2 * j - 1 - d] = LengthOf(all[k + j])
    BY <1>6, <2>1
  <2>3. inside => d = 1
    BY <1>1
  <2>4. QED
    BY <1>7, <2>2, <2>3 DEF OnWire
<1>9. QED
  BY <1>8 DEF new, all

\* Reading a length.
LEMMA WireLength ==
  ASSUME NEW w \in Seq(Item), NEW frames \in Seq(SentFrame), NEW k \in Nat, k <= Len(frames),
         OnWire(w, frames, k, FALSE), w # << >>, Head(w).part = "length"
  PROVE  OnWire(Tail(w), frames, k, TRUE)
<1> DEFINE n == Len(frames)
           t == Tail(w)
<1>1. PICK d \in {0, 1} :
        /\ Len(w) = 2 * (n - k) - d
        /\ \A j \in 1 .. n - k :
             /\ w[2 * j - d] = BodyOf(frames[k + j])
             /\ 2 * j - 1 - d >= 1 => w[2 * j - 1 - d] = LengthOf(frames[k + j])
  BY DEF OnWire
<1>2. /\ n \in Nat /\ Len(w) \in Nat /\ Len(w) > 0 /\ Head(w) = w[1]
      /\ Len(t) = Len(w) - 1 /\ \A i \in 1 .. Len(w) - 1 : t[i] = w[i + 1]
  BY HeadTailProperties
<1> HIDE DEF n, t
<1>3. d = 0
  <2>1. SUFFICES ASSUME d = 1 PROVE FALSE
    OBVIOUS
  <2>2. 1 \in 1 .. n - k /\ 2 * 1 - d = 1
    BY <1>1, <1>2, <2>1
  <2>3. w[1] = BodyOf(frames[k + 1])
    BY <1>1, <2>2
  <2>4. QED
    BY <1>2, <2>3 DEF BodyOf
<1>4. ASSUME NEW j \in 1 .. n - k
      PROVE  /\ t[2 * j - 1] = BodyOf(frames[k + j])
             /\ 2 * j - 1 - 1 >= 1 => t[2 * j - 1 - 1] = LengthOf(frames[k + j])
  <2>1. 2 * j - 1 \in 1 .. Len(w) - 1 /\ (2 * j - 1) + 1 = 2 * j - d
    BY <1>1, <1>2, <1>3
  <2>2. 2 * j - 1 - 1 >= 1 => /\ 2 * j - 1 - 1 \in 1 .. Len(w) - 1
                              /\ (2 * j - 1 - 1) + 1 = 2 * j - 1 - d /\ 2 * j - 1 - d >= 1
    BY <1>3, <2>1
  <2>3. QED
    BY <1>1, <1>2, <2>1, <2>2
<1>5. Len(t) = 2 * (n - k) - 1
  BY <1>1, <1>2, <1>3
<1>6. QED
  BY <1>4, <1>5 DEF OnWire, n, t

\* Reading a body: it is that of the next frame.
LEMMA WireBody ==
  ASSUME NEW w \in Seq(Item), NEW frames \in Seq(SentFrame), NEW k \in Nat, k <= Len(frames),
         OnWire(w, frames, k, TRUE), w # << >>
  PROVE  /\ k < Len(frames) /\ Head(w).frame = frames[k + 1]
         /\ OnWire(Tail(w), frames, k + 1, FALSE)
<1> DEFINE n == Len(frames)
           t == Tail(w)
<1>1. /\ Len(w) = 2 * (n - k) - 1
      /\ \A j \in 1 .. n - k :
           /\ w[2 * j - 1] = BodyOf(frames[k + j])
           /\ 2 * j - 1 - 1 >= 1 => w[2 * j - 1 - 1] = LengthOf(frames[k + j])
  BY DEF OnWire
<1>2. /\ n \in Nat /\ Len(w) \in Nat /\ Len(w) > 0 /\ Head(w) = w[1]
      /\ Len(t) = Len(w) - 1 /\ \A i \in 1 .. Len(w) - 1 : t[i] = w[i + 1]
  BY HeadTailProperties
<1> HIDE DEF n, t
<1>3. k < n /\ Head(w).frame = frames[k + 1]
  <2>1. 1 \in 1 .. n - k /\ 2 * 1 - 1 = 1
    BY <1>1, <1>2
  <2>2. w[1] = BodyOf(frames[k + 1])
    BY <1>1, <2>1
  <2>3. QED
    BY <1>2, <2>1, <2>2 DEF BodyOf
<1>4. ASSUME NEW j \in 1 .. n - (k + 1)
      PROVE  /\ t[2 * j - 0] = BodyOf(frames[k + 1 + j])
             /\ 2 * j - 1 - 0 >= 1 => t[2 * j - 1 - 0] = LengthOf(frames[k + 1 + j])
  <2> DEFINE i == j + 1
  <2>1. i \in 1 .. n - k /\ k + i = k + 1 + j /\ 2 * i - 1 - 1 >= 1
    BY <1>2
  <2>2. /\ 2 * j - 0 \in 1 .. Len(w) - 1 /\ (2 * j - 0) + 1 = 2 * i - 1
        /\ 2 * j - 1 - 0 \in 1 .. Len(w) - 1 /\ (2 * j - 1 - 0) + 1 = 2 * i - 1 - 1
    BY <1>1, <1>2
  <2> HIDE DEF i
  <2>3. w[2 * i - 1] = BodyOf(frames[k + i]) /\ w[2 * i - 1 - 1] = LengthOf(frames[k + i])
    BY <1>1, <2>1
  <2>4. QED
    BY <1>2, <2>1, <2>2, <2>3
<1>5. Len(t) = 2 * (n - (k + 1)) - 0
  BY <1>1, <1>2
<1>6. OnWire(t, frames, k + 1, FALSE)
  BY <1>4, <1>5 DEF OnWire, n
<1>7. QED
  BY <1>3, <1>6 DEF n, t

----------------------------------------------------------------------------
(* The steps. *)

\* One number more.
LEMMA NumberedMore ==
  ASSUME NEW frames \in Seq(SentFrame), NEW n \in Nat, Numbered(frames, n),
         NEW f \in SentFrame, f.seq = n
  PROVE  Numbered(Append(frames, f), n + 1)
<1> DEFINE all == Append(frames, f)
           m == Len(frames)
<1>1. /\ m \in Nat /\ Len(all) = m + 1 /\ all[m + 1] = f
      /\ \A i \in 1 .. m : all[i] = frames[i] /\ frames[i] \in SentFrame
  OBVIOUS
<1>2. \A i \in 1 .. m : /\ all[i].seq \in Nat /\ all[i].seq < n
                        /\ \A j \in 1 .. i - 1 : all[j].seq < all[i].seq
  <2>1. SUFFICES ASSUME NEW i \in 1 .. m
                 PROVE  /\ all[i].seq \in Nat /\ all[i].seq < n
                        /\ \A j \in 1 .. i - 1 : all[j].seq < all[i].seq
    OBVIOUS
  <2>2. all[i].seq \in Nat
    BY <1>1 DEF SentFrame
  <2>3. \A j \in 1 .. i - 1 : j \in 1 .. m
    BY <1>1
  <2> HIDE DEF all
  <2>4. QED
    BY <1>1, <2>2, <2>3 DEF Numbered
<1> HIDE DEF all, m
<1>3. ASSUME NEW i \in 1 .. m + 1
      PROVE  all[i].seq < n + 1 /\ \A j \in 1 .. i - 1 : all[j].seq < all[i].seq
  <2>1. CASE i \in 1 .. m
    BY <1>2, <2>1
  <2>2. CASE i = m + 1
    <3>1. \A j \in 1 .. i - 1 : j \in 1 .. m
      BY <1>1, <2>2
    <3>2. QED
      BY <1>1, <1>2, <2>2, <3>1
  <2>3. QED
    BY <1>1, <2>1, <2>2
<1>4. QED
  BY <1>1, <1>3 DEF Numbered, all

\* send and send_batch keep the invariant.
LEMMA DuplexSendKeeps == ASSUME DuplexInv, NEW e \in Peers, Send(e) PROVE DuplexInv'
<1> DEFINE o == Other(e)
<1>1. PICK b \in Bodies :
        LET out == protect_transport_records(protector[e], <<build_exact_record(protector[e], b)>>)
        IN /\ protector' = [protector EXCEPT ![e] = out.p]
           /\ IF out.ok
              THEN /\ wire' = [wire EXCEPT ![o] =
                                 Append(Append(@, LengthOf(out.frame)), BodyOf(out.frame))]
                   /\ sent' = [sent EXCEPT ![e] = Append(@, out.frame)]
              ELSE UNCHANGED <<wire, sent>>
           /\ crossed' = (crossed \/ Len(got[e]) < Len(sent[o]))
           /\ UNCHANGED <<reading, broken, got, cut>>
  BY DEF Send
<1> DEFINE out == protect_transport_records(protector[e], <<build_exact_record(protector[e], b)>>)
           f == out.frame
<1>2. /\ DuplexTypes /\ EndInv(e) /\ EndInv(o) /\ o \in Peers /\ o # e
      /\ Other(o) = e /\ \A x \in Peers : x = e \/ x = o
  BY OtherFacts DEF DuplexInv
<1>3. /\ protector[e] \in Plain /\ protector[o] \in Plain /\ sent[e] \in Seq(SentFrame) /\ sent[o] \in Seq(SentFrame)
      /\ got[e] \in Seq(Record) /\ got[o] \in Seq(Record)
      /\ wire[e] \in Seq(Item) /\ wire[o] \in Seq(Item)
  BY <1>2 DEF DuplexTypes
<1>4. /\ out.ok => /\ ~Closed(protector[e])
                   /\ out.p \in Plain /\ out.p.seq = protector[e].seq + 1
                   /\ f \in SentFrame /\ f.seq = protector[e].seq
      /\ ~out.ok => out.p = protector[e]
  BY <1>3, SendOne
<1>5. /\ protector' = [protector EXCEPT ![e] = out.p]
      /\ out.ok => /\ wire' = [wire EXCEPT ![o] = Append(Append(wire[o], LengthOf(f)), BodyOf(f))]
                   /\ sent' = [sent EXCEPT ![e] = Append(sent[e], f)]
      /\ ~out.ok => UNCHANGED <<wire, sent>>
      /\ crossed' = (crossed \/ Len(got[e]) < Len(sent[o]))
      /\ UNCHANGED <<reading, broken, got, cut>>
  BY <1>1
<1> HIDE DEF out, f, o
<1>6. CASE ~out.ok
  <2>1. protector' = protector
    BY <1>2, <1>4, <1>5, <1>6 DEF DuplexTypes
  <2>2. UNCHANGED <<protector, wire, reading, broken, sent, got, cut>> /\ crossed' \in BOOLEAN
        /\ (crossed => crossed')
    BY <1>2, <1>5, <1>6, <2>1 DEF DuplexTypes
  <2>3. DuplexTypes'
    BY <1>2, <2>2 DEF DuplexTypes
  <2>4. \A x \in Peers : EndInv(x)'
    BY <2>2 DEF DuplexInv, EndInv
  <2>5. QED
    BY <2>2, <2>3, <2>4 DEF DuplexInv
<1>7. CASE out.ok
  <2> DEFINE more == Append(sent[e], f)
             bytes == Append(Append(wire[o], LengthOf(f)), BodyOf(f))
  <2>2. f \in SentFrame /\ f.seq = protector[e].seq /\ out.p.seq = protector[e].seq + 1 /\ ~Closed(protector[e])
        /\ out.p \in Plain
    BY <1>4, <1>7
  <2>3. more \in Seq(SentFrame)
    BY <1>3, <2>2
  <2>4. bytes \in Seq(Item)
    <3>1. LengthOf(f) \in Item /\ BodyOf(f) \in Item
      BY <2>2 DEF LengthOf, BodyOf, Item
    <3>2. QED
      BY <1>3, <3>1
  <2>6. /\ Len(more) = Len(sent[e]) + 1
        /\ \A i \in 1 .. Len(sent[e]) : more[i] = sent[e][i]
        /\ more[Len(sent[e]) + 1] = f
    BY <1>3, <2>2
  <2>11. /\ Len(sent[e]) \in Nat /\ Len(sent[o]) \in Nat /\ Len(got[e]) \in Nat /\ Len(got[o]) \in Nat
    BY <1>3
  <2>12. protector[e].seq \in Nat /\ protector[o].seq \in Nat
    BY <1>3, PlainFacts
  <2>13. sent' = [sent EXCEPT ![e] = more] /\ wire' = [wire EXCEPT ![o] = bytes]
    BY <1>5, <1>7
  <2>15. OnWire(wire[o], sent[e], Len(got[o]), reading[o]) /\ Len(got[o]) <= Len(sent[e])
         => OnWire(bytes, more, Len(got[o]), reading[o])
    BY <1>3, <2>2, <2>11, WireSend
  <2>14. Numbered(sent[e], protector[e].seq) => Numbered(more, protector[e].seq + 1)
    BY <1>3, <2>2, <2>12, NumberedMore
  <2> HIDE DEF more, bytes
  <2>1. /\ protector'[e] = out.p /\ protector'[o] = protector[o] /\ protector' \in [Peers -> Plain]
        /\ sent'[e] = more /\ sent'[o] = sent[o] /\ sent' \in [Peers -> Seq(SentFrame)]
        /\ wire'[o] = bytes /\ wire'[e] = wire[e] /\ wire' \in [Peers -> Seq(Item)]
    BY <1>2, <1>5, <2>2, <2>3, <2>4, <2>13 DEF DuplexTypes
  <2>5. DuplexTypes'
    BY <1>2, <1>5, <2>1 DEF DuplexTypes
  <2>7. EndInv(e)'
    <3>1. protector[e].seq = Len(sent[e]) + Len(got[e]) /\ Numbered(sent[e], protector[e].seq)
      BY <1>2 DEF EndInv
    <3>2. protector'[e].seq = Len(sent'[e]) + Len(got'[e])
      <4>1. protector'[e].seq = protector[e].seq + 1 /\ Len(sent'[e]) = Len(sent[e]) + 1 /\ Len(got'[e]) = Len(got[e])
        BY <1>5, <2>1, <2>2, <2>6
      <4>2. protector[e].seq = Len(sent[e]) + Len(got[e])
        BY <3>1
      <4>3. QED
        <5>1. protector[e].seq + 1 = (Len(sent[e]) + 1) + Len(got[e])
          <6> DEFINE k == Len(sent[e])
                     n == Len(got[e])
          <6>1. k \in Nat /\ n \in Nat /\ protector[e].seq = k + n
            BY <2>11, <4>2
          <6> HIDE DEF k, n
          <6>2. (k + n) + 1 = (k + 1) + n
            BY <6>1
          <6>3. QED
            BY <6>1, <6>2 DEF k, n
        <5>2. QED
          BY <4>1, <5>1, Zenon
    <3>3. Numbered(sent'[e], protector'[e].seq)
      BY <2>1, <2>2, <2>14, <3>1
    <3>4. Received(got'[e], sent'[o])
      BY <1>2, <1>5, <2>1 DEF EndInv, o
    <3>5. ~broken'[e] => OnWire(wire'[e], sent'[o], Len(got'[e]), reading'[e])
      BY <1>2, <1>5, <2>1, <2>2 DEF EndInv, o
    <3>6. QED
      BY <3>2, <3>3, <3>4, <3>5 DEF EndInv, o
  <2>8. EndInv(o)'
    <3>1. /\ protector'[o].seq = Len(sent'[o]) + Len(got'[o]) /\ Numbered(sent'[o], protector'[o].seq)
      BY <1>2, <1>5, <2>1 DEF EndInv
    <3>2. Received(got[o], sent[e])
      BY <1>2 DEF EndInv
    <3>3. Received(got'[o], sent'[e])
      <4>1. /\ Len(got[o]) <= Len(sent[e])
            /\ \A i \in 1 .. Len(got[o]) : got[o][i].body = sent[e][i].body[1].body
        BY <3>2 DEF Received
      <4>2. \A i \in 1 .. Len(got[o]) : i \in 1 .. Len(sent[e])
        BY <2>11, <4>1
      <4>3. Received(got[o], more)
        BY <2>6, <2>11, <4>1, <4>2 DEF Received
      <4>4. QED
        BY <1>5, <2>1, <4>3
    <3>4. ~broken[o] /\ ~Closed(protector[o]) => OnWire(wire[o], sent[e], Len(got[o]), reading[o])
      BY <1>2 DEF EndInv
    <3>5. ~broken'[o] /\ ~Closed(protector'[o]) => OnWire(wire'[o], sent'[e], Len(got'[o]), reading'[o])
      <4>1. Len(got[o]) <= Len(sent[e])
        BY <3>2 DEF Received
      <4>2. QED
        BY <1>5, <2>1, <2>15, <3>4, <4>1
    <3>6. QED
      BY <1>2, <3>1, <3>3, <3>5 DEF EndInv
  <2>9. ASSUME ~crossed' PROVE Apart(sent'["client"], sent'["server"])
    <3>1. ~crossed /\ ~(Len(got[e]) < Len(sent[o]))
      BY <1>5, <2>9
    <3>2. Apart(sent["client"], sent["server"])
      BY <3>1 DEF DuplexInv
    <3>3. Len(got[e]) = Len(sent[o])
      <4>1. Len(got[e]) <= Len(sent[o])
        BY <1>2 DEF EndInv, Received, o
      <4>2. QED
        BY <2>11, <3>1, <4>1
    <3>4. \A j \in 1 .. Len(sent[o]) : sent[o][j].seq < f.seq /\ sent[o][j].seq \in Nat
      <4>1. Len(got[o]) <= Len(sent[e])
        BY <1>2 DEF EndInv, Received
      <4>2. f.seq = Len(sent[e]) + Len(sent[o])
        BY <1>2, <2>2, <3>3 DEF EndInv
      <4>7. protector[o].seq = Len(sent[o]) + Len(got[o])
        BY <1>2 DEF EndInv
      <4>3. protector[o].seq <= f.seq
        BY <2>11, <4>1, <4>2, <4>7
      <4>4. \A j \in 1 .. Len(sent[o]) : sent[o][j].seq < protector[o].seq
        BY <1>2 DEF EndInv, Numbered
      <4>5. \A j \in 1 .. Len(sent[o]) : sent[o][j].seq \in Nat
        <5>1. \A j \in 1 .. Len(sent[o]) : sent[o][j] \in SentFrame
          BY <1>3
        <5>2. QED
          BY <5>1 DEF SentFrame
      <4>6. QED
        BY <2>2, <2>12, <4>3, <4>4, <4>5
    <3>5. \A i \in 1 .. Len(sent'[e]), j \in 1 .. Len(sent'[o]) : sent'[e][i].seq # sent'[o][j].seq
      <4>1. \A i \in 1 .. Len(sent[e]), j \in 1 .. Len(sent[o]) : sent[e][i].seq # sent[o][j].seq
        BY <3>2, OtherFacts DEF Apart, o
      <4>2. \A i \in 1 .. Len(sent'[e]) : i \in 1 .. Len(sent[e]) \/ i = Len(sent[e]) + 1
        BY <2>1, <2>6, <2>11
      <4>3. \A j \in 1 .. Len(sent[o]) : f.seq # sent[o][j].seq
        <5>1. f.seq \in Nat
          BY <2>2, <2>12
        <5>2. QED
          BY <3>4, <5>1
      <4>4. QED
        BY <2>1, <2>6, <4>1, <4>2, <4>3
    <3>6. QED
      BY <3>5, OtherFacts DEF Apart, o
  <2>10. QED
    BY <1>2, <2>5, <2>7, <2>8, <2>9 DEF DuplexInv
<1>8. QED
  BY <1>6, <1>7

\* What a read changes at one end leaves the other end alone.
LEMMA ReadElsewhere ==
  ASSUME DuplexInv, NEW e \in Peers, NEW x \in Peers, x # e,
         sent' = sent, protector'[x] = protector[x], got'[x] = got[x], wire'[x] = wire[x],
         reading'[x] = reading[x], broken'[x] = broken[x]
  PROVE  EndInv(x)'
BY DEF DuplexInv, EndInv

\* The first read keeps the invariant.
LEMMA LengthKeeps == ASSUME DuplexInv, NEW e \in Peers, ReadLength(e) PROVE DuplexInv'
<1> DEFINE w == wire[e]
           frames == sent[Other(e)]
<1>1. /\ DuplexTypes /\ EndInv(e) /\ Other(e) \in Peers
  BY OtherFacts DEF DuplexInv
<1>2. /\ w \in Seq(Item) /\ w # << >> /\ frames \in Seq(SentFrame) /\ got[e] \in Seq(Record)
      /\ reading[e] = FALSE /\ ~broken[e]
  BY <1>1 DEF DuplexTypes, ReadLength
<1>3. /\ UNCHANGED <<protector, sent, got, crossed, cut>>
      /\ wire' = [wire EXCEPT ![e] = Tail(w)]
      /\ \/ w[1].part = "length" /\ reading' = [reading EXCEPT ![e] = TRUE] /\ broken' = broken
         \/ broken' = [broken EXCEPT ![e] = TRUE] /\ reading' = reading
  <2>1. Head(w) = w[1]
    BY <1>2
  <2>2. QED
    BY <2>1 DEF ReadLength
<1>4. Tail(w) \in Seq(Item) /\ Head(w) = w[1]
  BY <1>2
<1> HIDE DEF w
<1>5. DuplexTypes'
  BY <1>1, <1>3, <1>4 DEF DuplexTypes
<1>6. EndInv(e)'
  <2>1. /\ protector[e].seq = Len(sent[e]) + Len(got[e]) /\ Received(got[e], frames)
        /\ Numbered(sent[e], protector[e].seq)
        /\ ~Closed(protector[e]) => OnWire(w, frames, Len(got[e]), FALSE)
    BY <1>1, <1>2 DEF EndInv, w
  <2>2. ASSUME ~broken'[e], ~Closed(protector[e])
        PROVE  OnWire(wire'[e], frames, Len(got[e]), reading'[e])
    <3>1. w[1].part = "length" /\ reading'[e] = TRUE
      BY <1>1, <1>3, <2>2 DEF DuplexTypes
    <3>2. wire'[e] = Tail(w)
      BY <1>1, <1>3 DEF DuplexTypes
    <3>3. Len(got[e]) \in Nat /\ Len(got[e]) <= Len(frames)
      BY <1>2, <2>1 DEF Received
    <3>4. OnWire(w, frames, Len(got[e]), FALSE)
      BY <2>1, <2>2
    <3> DEFINE k == Len(got[e])
    <3> HIDE DEF frames, k
    <3>5. OnWire(Tail(w), frames, k, TRUE)
      BY <1>2, <1>4, <3>1, <3>3, <3>4, WireLength DEF k
    <3>6. QED
      BY <3>1, <3>2, <3>5 DEF k
  <2>3. QED
    BY <1>3, <2>1, <2>2 DEF EndInv
<1>7. \A x \in Peers : x # e => EndInv(x)'
  <2>1. SUFFICES ASSUME NEW x \in Peers, x # e PROVE EndInv(x)'
    OBVIOUS
  <2>2. wire'[x] = wire[x] /\ reading'[x] = reading[x] /\ broken'[x] = broken[x]
    BY <1>1, <1>3, <2>1 DEF DuplexTypes
  <2>3. QED
    BY <1>3, <2>1, <2>2, ReadElsewhere
<1>8. QED
  BY <1>3, <1>5, <1>6, <1>7 DEF DuplexInv

\* The second read and the rest of recv keep it.
LEMMA BodyKeeps == ASSUME DuplexInv, NEW e \in Peers, ReadBody(e) PROVE DuplexInv'
<1> DEFINE w == wire[e]
           frames == sent[Other(e)]
           out == unprotect_transport_frame(protector[e], Head(w).frame)
           k == Len(got[e])
<1>1. /\ DuplexTypes /\ EndInv(e) /\ Other(e) \in Peers
  BY OtherFacts DEF DuplexInv
<1>2. /\ w \in Seq(Item) /\ w # << >> /\ frames \in Seq(SentFrame) /\ got[e] \in Seq(Record)
      /\ reading[e] = TRUE /\ ~broken[e] /\ protector[e] \in Plain
  BY <1>1 DEF DuplexTypes, ReadBody
<1>3. /\ UNCHANGED <<broken, sent, crossed, cut>>
      /\ wire' = [wire EXCEPT ![e] = Tail(w)]
      /\ reading' = [reading EXCEPT ![e] = FALSE]
      /\ Closed(protector[e]) => UNCHANGED <<protector, got>>
      /\ ~Closed(protector[e]) => /\ protector' = [protector EXCEPT ![e] = out.p]
                             /\ got' = [got EXCEPT ![e] = got[e] \o FirstRecord(out.recs)]
  BY DEF ReadBody
<1>4. Tail(w) \in Seq(Item) /\ Head(w).frame \in SentFrame
  <2>1. Tail(w) \in Seq(Item) /\ Head(w) \in Item
    BY <1>2
  <2>2. QED
    BY <2>1 DEF Item
<1>5. /\ out.p \in Plain
      /\ \/ /\ out.p.seq = protector[e].seq + 1
            /\ \E r \in Record : FirstRecord(out.recs) = <<r>> /\ r.body = Head(w).frame.body[1].body
         \/ out.p.seq = protector[e].seq /\ Closed(out.p) /\ FirstRecord(out.recs) = << >>
  BY <1>2, <1>4, ReadOne
<1> HIDE DEF out
<1>6. /\ protector[e].seq = Len(sent[e]) + k /\ Received(got[e], frames)
      /\ Numbered(sent[e], protector[e].seq)
      /\ ~Closed(protector[e]) => OnWire(w, frames, k, TRUE)
  BY <1>1, <1>2 DEF EndInv
<1>7. k \in Nat /\ k <= Len(frames) /\ Len(sent[e]) \in Nat /\ protector[e].seq \in Nat
  BY <1>1, <1>2, <1>6, PlainFacts DEF Received, DuplexTypes
<1>8. \A n \in Nat : n >= protector[e].seq => Numbered(sent[e], n)
  <2>1. \A i \in 1 .. Len(sent[e]) : sent[e][i].seq \in Nat
    <3>1. \A i \in 1 .. Len(sent[e]) : sent[e][i] \in SentFrame
      BY <1>1 DEF DuplexTypes
    <3>2. QED
      BY <3>1 DEF SentFrame
  <2>2. ASSUME NEW n \in Nat, n >= protector[e].seq PROVE Numbered(sent[e], n)
    <3>1. \A i \in 1 .. Len(sent[e]) : sent[e][i].seq < n
      <4>1. \A i \in 1 .. Len(sent[e]) : sent[e][i].seq < protector[e].seq
        BY <1>6 DEF Numbered
      <4>3. QED
        BY <1>7, <2>1, <2>2, <4>1
    <3>2. QED
      BY <1>6, <3>1 DEF Numbered
  <2>3. QED
    BY <2>2
<1> HIDE DEF w, frames, k
<1>9. /\ reading'[e] = FALSE /\ wire'[e] = Tail(w) /\ sent' = sent /\ broken' = broken
      /\ wire' \in [Peers -> Seq(Item)] /\ reading' \in [Peers -> BOOLEAN]
      /\ \A x \in Peers : x # e => wire'[x] = wire[x] /\ reading'[x] = reading[x]
  BY <1>1, <1>3, <1>4 DEF DuplexTypes
<1>10. CASE Closed(protector[e])
  <2>1. protector' = protector /\ got' = got
    BY <1>3, <1>10
  <2>2. DuplexTypes'
    BY <1>1, <1>3, <1>9, <2>1 DEF DuplexTypes
  <2>3. EndInv(e)'
    BY <1>1, <1>9, <1>10, <2>1 DEF EndInv
  <2>4. \A x \in Peers : x # e => EndInv(x)'
    BY <1>9, <2>1, ReadElsewhere
  <2>5. QED
    BY <1>3, <2>2, <2>3, <2>4 DEF DuplexInv
<1>11. CASE ~Closed(protector[e])
  <2>1. k < Len(frames) /\ Head(w).frame = frames[k + 1] /\ OnWire(Tail(w), frames, k + 1, FALSE)
    BY <1>2, <1>6, <1>7, <1>11, WireBody
  <2>2. /\ protector' = [protector EXCEPT ![e] = out.p]
        /\ got' = [got EXCEPT ![e] = got[e] \o FirstRecord(out.recs)]
    BY <1>3, <1>11
  <2>3. CASE /\ out.p.seq = protector[e].seq + 1
             /\ \E r \in Record : FirstRecord(out.recs) = <<r>> /\ r.body = Head(w).frame.body[1].body
    <3>1. PICK r \in Record : FirstRecord(out.recs) = <<r>> /\ r.body = frames[k + 1].body[1].body
      BY <2>1, <2>3
    <3>2. /\ got[e] \o <<r>> \in Seq(Record) /\ Len(got[e] \o <<r>>) = k + 1
          /\ (got[e] \o <<r>>)[k + 1] = r
          /\ \A i \in 1 .. k : (got[e] \o <<r>>)[i] = got[e][i]
      BY <1>2 DEF k
    <3>3. /\ protector'[e] = out.p /\ protector' \in [Peers -> Plain]
          /\ got'[e] = got[e] \o <<r>> /\ got' \in [Peers -> Seq(Record)]
          /\ \A x \in Peers : x # e => protector'[x] = protector[x] /\ got'[x] = got[x]
      BY <1>1, <1>5, <2>2, <3>1, <3>2 DEF DuplexTypes
    <3>4. Received(got'[e], frames)
      <4>1. \A i \in 1 .. k + 1 : i \in 1 .. k \/ i = k + 1
        BY <1>7
      <4>2. \A i \in 1 .. k : got[e][i].body = frames[i].body[1].body
        BY <1>6 DEF Received, k
      <4> DEFINE all == got[e] \o <<r>>
      <4>3. Len(all) = k + 1 /\ all[k + 1] = r /\ \A i \in 1 .. k : all[i] = got[e][i]
        BY <3>2
      <4> HIDE DEF all
      <4>4. \A i \in 1 .. k + 1 : all[i].body = frames[i].body[1].body
        BY <3>1, <4>1, <4>2, <4>3
      <4>5. Len(all) <= Len(frames)
        BY <1>7, <1>2, <2>1, <4>3
      <4>6. Received(all, frames)
        BY <4>3, <4>4, <4>5 DEF Received
      <4>7. QED
        BY <3>3, <4>6 DEF all
    <3>5. protector'[e].seq = Len(sent[e]) + Len(got'[e])
      <4>1. Len(got'[e]) = k + 1 /\ protector'[e].seq = protector[e].seq + 1
        BY <2>3, <3>2, <3>3
      <4>2. QED
        <5>1. protector[e].seq = Len(sent[e]) + k
          BY <1>6
        <5>2. QED
          BY <1>7, <4>1, <5>1
    <3>6. Numbered(sent[e], protector'[e].seq)
      BY <1>7, <1>8, <2>3, <3>3
    <3>7. OnWire(wire'[e], frames, Len(got'[e]), reading'[e])
      BY <1>9, <2>1, <3>2, <3>3
    <3>8. EndInv(e)'
      BY <1>9, <3>4, <3>5, <3>6, <3>7 DEF EndInv, frames
    <3>9. \A x \in Peers : x # e => EndInv(x)'
      BY <1>9, <3>3, ReadElsewhere
    <3>10. DuplexTypes'
      BY <1>1, <1>3, <1>9, <3>3 DEF DuplexTypes
    <3>11. QED
      BY <1>3, <3>8, <3>9, <3>10 DEF DuplexInv
  <2>4. CASE out.p.seq = protector[e].seq /\ Closed(out.p) /\ FirstRecord(out.recs) = << >>
    <3>1. got[e] \o << >> = got[e]
      BY <1>2
    <3>2. /\ protector'[e] = out.p /\ protector' \in [Peers -> Plain] /\ got' = got
          /\ \A x \in Peers : x # e => protector'[x] = protector[x]
      BY <1>1, <1>5, <2>2, <2>4, <3>1 DEF DuplexTypes
    <3>3. EndInv(e)'
      BY <1>6, <1>9, <2>4, <3>2 DEF EndInv, frames, k
    <3>4. \A x \in Peers : x # e => EndInv(x)'
      BY <1>9, <3>2, ReadElsewhere
    <3>5. DuplexTypes'
      BY <1>1, <1>3, <1>9, <3>2 DEF DuplexTypes
    <3>6. QED
      BY <1>3, <3>3, <3>4, <3>5 DEF DuplexInv
  <2>5. QED
    BY <1>5, <2>3, <2>4
<1>12. QED
  BY <1>10, <1>11

\* A read that is cut keeps it: the body stays on the wire without its length.
LEMMA TimeoutKeeps == ASSUME DuplexInv, NEW e \in Peers, Timeout(e) PROVE DuplexInv'
<1>1. DuplexTypes /\ EndInv(e) /\ Other(e) \in Peers
  BY OtherFacts DEF DuplexInv
<1>2. /\ reading[e] = TRUE /\ reading' = [reading EXCEPT ![e] = FALSE] /\ cut' = TRUE
      /\ UNCHANGED <<protector, wire, broken, sent, got, crossed>>
  BY <1>1 DEF Timeout, DuplexTypes
<1>3. reading'[e] = FALSE /\ \A x \in Peers : x # e => reading'[x] = reading[x]
  BY <1>1, <1>2 DEF DuplexTypes
<1>4. DuplexTypes'
  BY <1>1, <1>2 DEF DuplexTypes
<1>5. EndInv(e)'
  <2>1. \A w, frames, n : OnWire(w, frames, n, TRUE) => OnWire(w, frames, n, FALSE)
    BY DEF OnWire
  <2>2. QED
    BY <1>1, <1>2, <1>3, <2>1 DEF EndInv
<1>6. \A x \in Peers : x # e => EndInv(x)'
  BY <1>2, <1>3, ReadElsewhere
<1>7. QED
  BY <1>2, <1>4, <1>5, <1>6 DEF DuplexInv

\* A read after an error of the carrier keeps it: it can only close the stream.
LEMMA AstrayKeeps == ASSUME DuplexInv, NEW e \in Peers, ReadAstray(e) PROVE DuplexInv'
<1> DEFINE q == Fail(protector[e])
<1>1. DuplexTypes /\ EndInv(e) /\ protector[e] \in Plain
  BY DEF DuplexInv, DuplexTypes
<1>2. /\ protector' = [protector EXCEPT ![e] = q]
      /\ UNCHANGED <<wire, reading, broken, sent, got, crossed, cut>>
  BY DEF ReadAstray
<1>3. q \in Plain /\ q.seq = protector[e].seq /\ Closed(q)
  BY <1>1 DEF Fail, Closed, Plain, Protector, StreamState, PendingRekey
<1> HIDE DEF q
<1>4. protector'[e] = q /\ \A x \in Peers : x # e => protector'[x] = protector[x]
  BY <1>1, <1>2 DEF DuplexTypes
<1>5. DuplexTypes'
  BY <1>1, <1>2, <1>3 DEF DuplexTypes
<1>6. EndInv(e)'
  BY <1>1, <1>2, <1>3, <1>4 DEF EndInv
<1>7. \A x \in Peers : x # e => EndInv(x)'
  BY <1>2, <1>4, ReadElsewhere
<1>8. QED
  BY <1>2, <1>5, <1>6, <1>7 DEF DuplexInv

----------------------------------------------------------------------------
(* The theorems. *)

\* Two new endpoints.
LEMMA DuplexInitHolds == DuplexInit => DuplexInv
<1> SUFFICES ASSUME DuplexInit PROVE DuplexInv
  OBVIOUS
<1> DEFINE e == << >>
<1>1. /\ e \in Seq(SentFrame) /\ e \in Seq(Record) /\ e \in Seq(Item) /\ Len(e) = 0 /\ 1 .. 0 = {}
  OBVIOUS
<1>2. NewProtector \in Plain /\ NewProtector.seq = 0
  <2>1. << >> \in Root
    BY DEF Root
  <2>2. NoRekey \in PendingRekey
    BY <2>1 DEF NoRekey, PendingRekey
  <2>3. QED
    BY <2>1, <2>2 DEF NewProtector, Plain, Protector, StreamState
<1>3. /\ protector = [x \in Peers |-> NewProtector] /\ wire = [x \in Peers |-> e]
      /\ reading = [x \in Peers |-> FALSE] /\ broken = [x \in Peers |-> FALSE]
      /\ sent = [x \in Peers |-> e] /\ got = [x \in Peers |-> e] /\ crossed = FALSE /\ cut = FALSE
  BY DEF DuplexInit
<1> HIDE DEF e
<1>4. DuplexTypes
  BY <1>1, <1>2, <1>3 DEF DuplexTypes
<1>5. OnWire(e, e, 0, FALSE)
  <2>1. 0 \in {0, 1} /\ Len(e) = 2 * (Len(e) - 0) - 0 /\ 1 .. Len(e) - 0 = {}
    BY <1>1
  <2>2. QED
    BY <2>1 DEF OnWire
<1>6. ASSUME NEW x \in Peers PROVE EndInv(x)
  <2>1. Other(x) \in Peers
    BY OtherFacts
  <2>2. /\ protector[x] = NewProtector /\ sent[x] = e /\ sent[Other(x)] = e /\ got[x] = e /\ wire[x] = e
        /\ reading[x] = FALSE
    BY <1>3, <2>1
  <2>3. Received(e, e) /\ \A n : Numbered(e, n)
    BY <1>1 DEF Received, Numbered
  <2>4. NewProtector.seq = Len(e) + Len(e)
    BY <1>1, <1>2
  <2>5. OnWire(wire[x], sent[Other(x)], Len(got[x]), reading[x])
    BY <1>1, <1>5, <2>2
  <2>6. Received(got[x], sent[Other(x)]) /\ Numbered(sent[x], protector[x].seq)
    BY <2>2, <2>3
  <2>7. protector[x].seq = Len(sent[x]) + Len(got[x])
    BY <2>2, <2>4
  <2>8. QED
    BY <2>5, <2>6, <2>7 DEF EndInv
<1>7. Apart(sent["client"], sent["server"])
  BY <1>1, <1>3 DEF Apart, Peers
<1>8. QED
  BY <1>4, <1>6, <1>7 DEF DuplexInv

\* Every step keeps the invariant.
LEMMA DuplexStepKeeps == DuplexInv /\ [DuplexNext]_duplexVars => DuplexInv'
<1> SUFFICES ASSUME DuplexInv, [DuplexNext]_duplexVars PROVE DuplexInv'
  OBVIOUS
<1>1. CASE DuplexNext
  <2>1. PICK e \in Peers : Send(e) \/ ReadLength(e) \/ ReadBody(e) \/ Timeout(e) \/ ReadAstray(e)
    BY <1>1 DEF DuplexNext
  <2>2. QED
    BY <2>1, DuplexSendKeeps, LengthKeeps, BodyKeeps, TimeoutKeeps, AstrayKeeps
<1>2. CASE UNCHANGED duplexVars
  BY <1>2 DEF duplexVars, DuplexInv, DuplexTypes, EndInv
<1>3. QED
  BY <1>1, <1>2

\* What an endpoint has not received is on its wire, unless it gave up, and its
\* protector counts the frames of both directions.
THEOREM DuplexInvariant == DuplexSpec => []DuplexInv
BY DuplexInitHolds, DuplexStepKeeps, PTL DEF DuplexSpec

\* The two SDK endpoints keep their types.
THEOREM DuplexTyped == DuplexSpec => []DuplexTypeOK
<1>1. DuplexInv => DuplexTypeOK
  BY DEF DuplexInv, DuplexTypes, DuplexTypeOK, Plain
<1>2. QED
  BY <1>1, DuplexInvariant, PTL

\* recv returns a prefix of what the other end sent, in both directions, even when both
\* ends send at once or a read times out inside a frame.
THEOREM InOrderBothWays == DuplexSpec => []DuplexInOrder
<1>1. DuplexInv => DuplexInOrder
  <2> SUFFICES ASSUME DuplexInv, NEW e \in Peers
               PROVE  IsPrefix(BodiesGot(e), BodiesSent(Other(e)))
    BY DEF DuplexInOrder
  <2> DEFINE g == BodiesGot(e)
             s == BodiesSent(Other(e))
  <2>1. /\ got[e] \in Seq(Record) /\ sent[Other(e)] \in Seq(SentFrame) /\ Received(got[e], sent[Other(e)])
    BY OtherFacts DEF DuplexInv, DuplexTypes, EndInv
  <2>2. /\ \A i \in 1 .. Len(got[e]) : got[e][i].body = sent[Other(e)][i].body[1].body
        /\ Len(got[e]) <= Len(sent[Other(e)]) /\ Len(got[e]) \in Nat /\ Len(sent[Other(e)]) \in Nat
        /\ DOMAIN got[e] = 1 .. Len(got[e]) /\ DOMAIN sent[Other(e)] = 1 .. Len(sent[Other(e)])
    BY <2>1 DEF Received
  <2>3. /\ g = [i \in 1 .. Len(got[e]) |-> got[e][i].body]
        /\ s = [i \in 1 .. Len(sent[Other(e)]) |-> sent[Other(e)][i].body[1].body]
    BY <2>2 DEF BodiesGot, BodiesSent
  <2> DEFINE n == Len(got[e])
             m == Len(sent[Other(e)])
             S == {g[i] : i \in 1 .. n} \cup {s[i] : i \in 1 .. m}
  <2>4. g \in [1 .. n -> S] /\ s \in [1 .. m -> S] /\ n \in Nat /\ m \in Nat /\ n <= m
    BY <2>2, <2>3
  <2>6. \A i \in 1 .. n : g[i] = s[i]
    <3>1. \A i \in 1 .. n : i \in 1 .. m
      BY <2>4
    <3>2. QED
      BY <2>2, <2>3, <3>1
  <2> HIDE DEF g, s, n, m, S
  <2>7. g \in Seq(S) /\ s \in Seq(S) /\ Len(g) = n /\ Len(s) = m
    BY <2>4
  <2>8. SubSeq(g, 1, Len(g)) = [i \in 1 .. n |-> g[i]] /\ SubSeq(s, 1, Len(g)) = [i \in 1 .. n |-> s[i]]
    BY <2>4, <2>7
  <2>9. QED
    BY <2>4, <2>6, <2>7, <2>8 DEF IsPrefix, g, s
<1>2. QED
  BY <1>1, DuplexInvariant, PTL

\* No two frames of one end share a key, and no two of different ends as long as nobody
\* sends before recv has returned every frame of the other end.
THEOREM KeysApart == DuplexSpec => []KeysSharedOnce
<1>1. DuplexInv => KeysSharedOnce
  <2> SUFFICES ASSUME DuplexInv PROVE KeysSharedOnce
    OBVIOUS
  <2>1. ASSUME NEW e \in Peers, NEW i \in DOMAIN sent[e]
        PROVE  sent[e][i].key.seq = sent[e][i].seq /\ sent[e][i].seq \in Nat
    <3>1. sent[e] \in Seq(SentFrame)
      BY DEF DuplexInv, DuplexTypes
    <3>2. sent[e][i] \in SentFrame
      BY <3>1
    <3>3. QED
      BY <3>2 DEF SentFrame
  <2>2. ASSUME NEW e \in Peers, NEW i \in DOMAIN sent[e], NEW j \in DOMAIN sent[e],
               sent[e][i].key = sent[e][j].key
        PROVE  i = j
    <3>1. sent[e][i].seq = sent[e][j].seq /\ sent[e][i].seq \in Nat
      BY <2>1, <2>2
    <3>2. /\ i \in 1 .. Len(sent[e]) /\ j \in 1 .. Len(sent[e]) /\ Numbered(sent[e], protector[e].seq)
          /\ Len(sent[e]) \in Nat
      BY DEF DuplexInv, DuplexTypes, EndInv
    <3>3. ~(i < j) /\ ~(j < i)
      BY <3>1, <3>2 DEF Numbered
    <3>4. QED
      BY <3>2, <3>3
  <2>3. ASSUME ~crossed, NEW i \in DOMAIN sent["client"], NEW j \in DOMAIN sent["server"]
        PROVE  sent["client"][i].key # sent["server"][j].key
    <3>1. /\ "client" \in Peers /\ "server" \in Peers
      BY DEF Peers
    <3>2. Apart(sent["client"], sent["server"])
      BY <2>3 DEF DuplexInv
    <3>3. i \in 1 .. Len(sent["client"]) /\ j \in 1 .. Len(sent["server"])
      BY <3>1 DEF DuplexInv, DuplexTypes
    <3>4. sent["client"][i].seq # sent["server"][j].seq
      BY <3>2, <3>3 DEF Apart
    <3>5. QED
      BY <2>1, <3>1, <3>4
  <2>4. QED
    BY <2>2, <2>3 DEF KeysSharedOnce
<1>2. QED
  BY <1>1, DuplexInvariant, PTL
=============================================================================
