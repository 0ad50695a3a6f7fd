---------------------------- MODULE FrameProtector ----------------------------
(***************************************************************************)
(* The frame interface of the StreamProtector and the packing of records    *)
(* into frames (shared_protocol/src/protection.rs and transport.rs).  A      *)
(* frame seals several records under one key; its compact records carry no   *)
(* epoch and no sequence number, the receiver counts them from the header.   *)
(***************************************************************************)
EXTENDS StreamProtector, SequencesExt

CONSTANTS PayloadCap,  \* payload units a frame may carry (TransportMode's cap)
          Large        \* bodies of two payload units; the others have one

ASSUME CapAssumption == PayloadCap \in Nat

\* A compact record: what of a record travels inside a frame.
Compact(r) == [type |-> r.type, confirm |-> r.confirm, body |-> r.body, next |-> r.next]

NoFrame == [epoch |-> 0, seq |-> 0, count |-> 0, body |-> << >>,
            key |-> FrameKey(<< >>, 0, 0, 0)]

\* The loop of protect_transport_records over a working copy of the protector.
SealStep(acc, r) ==
  LET q == prepare_record_for_epoch(acc.p, r)
  IN IF ~acc.ok \/ ~validate(r) \/ PrepareRefuses(acc.p, r) \/ FinishFails(acc.p, q)
     THEN [acc EXCEPT !.ok = FALSE]
     ELSE [ok |-> TRUE, p |-> finish_success(acc.p, q), recs |-> Append(acc.recs, q)]

SealRun(p, recs) == FoldLeft(SealStep, [ok |-> TRUE, p |-> p, recs |-> << >>], recs)

\* protect_transport_records: all records or, on any error, nothing and the
\* protector as it was.
protect_transport_records(p, recs) ==
  LET run == SealRun(p, recs)
      n == Len(run.recs)
  IN IF Closed(p) \/ ~run.ok \/ n = 0
     THEN [ok |-> FALSE, p |-> p, frame |-> NoFrame]
     ELSE [ok |-> TRUE, p |-> run.p,
           frame |-> [epoch |-> run.recs[1].epoch, seq |-> run.recs[1].seq, count |-> n,
                      body |-> [i \in 1 .. n |-> Compact(run.recs[i])],
                      key |-> FrameKey(ActiveRoot(p), run.recs[1].epoch, run.recs[1].seq, n)]]

\* decode_compact_transport_records: the epoch goes up after a Rekey.
DecodeStep(acc, c) ==
  [recs  |-> Append(acc.recs, [type |-> c.type, confirm |-> c.confirm, body |-> c.body,
                               next |-> c.next, epoch |-> acc.epoch, seq |-> acc.seq]),
   epoch |-> IF c.type = "Rekey" THEN acc.epoch + 1 ELSE acc.epoch,
   seq   |-> IF c.type = "Rekey" THEN 0 ELSE acc.seq + 1]

\* Seeded fault: the payload is read from its end.
FaultyDecode(f) ==
  FoldLeft(DecodeStep, [recs |-> << >>, epoch |-> f.epoch, seq |-> f.seq], Reverse(f.body)).recs

decode_compact_transport_records(f) ==
  FoldLeft(DecodeStep, [recs |-> << >>, epoch |-> f.epoch, seq |-> f.seq], f.body).recs

\* active_root_for_transport_frame returns a root for the frame that is due next.
FrameIsDue(p, f) ==
  /\ f.count # 0
  /\ f.epoch = expected_epoch_id(p)
  /\ f.seq = expected_seq_no(p)

OpenStep(acc, r) ==
  IF ~acc.ok \/ ~validate(r) \/ ~HeaderIsDue(acc.p, r) \/ FinishFails(acc.p, r)
  THEN [acc EXCEPT !.ok = FALSE]
  ELSE [ok |-> TRUE, p |-> finish_success(acc.p, r)]

\* unprotect_transport_frame on an open stream: all the records, or an error
\* that closes the stream.
unprotect_transport_frame(p, f) ==
  LET recs == decode_compact_transport_records(f)
      run == FoldLeft(OpenStep, [ok |-> TRUE, p |-> p], recs)
  IN IF /\ FrameIsDue(p, f)
        /\ f.key = FrameKey(ActiveRoot(p), f.epoch, f.seq, f.count)
        /\ Len(recs) = f.count
        /\ run.ok
     THEN [ok |-> TRUE, p |-> run.p, recs |-> recs]
     ELSE [ok |-> FALSE, p |-> Fail(p), recs |-> << >>]

\* Seeded fault: the first record is skipped.
FaultyFirstRecord(recs) == IF recs = << >> THEN << >> ELSE Tail(recs)

\* The record of a frame that an SDK recv call returns.
FirstRecord(recs) == IF recs = << >> THEN << >> ELSE <<Head(recs)>>

----------------------------------------------------------------------------
(* Packing. *)

\* transport_payload_len: SourceMeta, Rekey and Close records count for nothing.
transport_payload_len(r) ==
  CASE r.type \notin {"Exact", "Repair"} -> 0
    [] r.body \in Large -> 2
    [] OTHER -> 1

\* Seeded fault: a group is closed only once it is full.
FaultyPackStep(acc, r) ==
  LET load == acc.load + transport_payload_len(r)
  IN IF load >= PayloadCap
     THEN [groups |-> Append(acc.groups, Append(acc.current, r)), current |-> << >>, load |-> 0]
     ELSE [groups |-> acc.groups, current |-> Append(acc.current, r), load |-> load]

\* One record of pack_record_groups: a group is closed before a record that
\* would overfill it and after the record that fills it.
PackStep(acc, r) ==
  LET len == transport_payload_len(r)
      over == acc.current # << >> /\ acc.load + len > PayloadCap
      groups == IF over THEN Append(acc.groups, acc.current) ELSE acc.groups
      current == IF over THEN <<r>> ELSE Append(acc.current, r)
      load == IF over THEN len ELSE acc.load + len
  IN IF load >= PayloadCap
     THEN [groups |-> Append(groups, current), current |-> << >>, load |-> 0]
     ELSE [groups |-> groups, current |-> current, load |-> load]

pack_record_groups(recs) ==
  LET acc == FoldLeft(PackStep, [groups |-> << >>, current |-> << >>, load |-> 0], recs)
  IN IF acc.current = << >> THEN acc.groups ELSE Append(acc.groups, acc.current)

\* The frames of a list of groups, protected one after the other.
GroupStep(acc, group) ==
  LET out == protect_transport_records(acc.p, group)
  IN IF ~acc.ok THEN acc
     ELSE [ok |-> out.ok, p |-> out.p,
           frames |-> IF out.ok THEN Append(acc.frames, out.frame) ELSE acc.frames]

ProtectGroups(p, recs) ==
  FoldLeft(GroupStep, [ok |-> TRUE, p |-> p, frames |-> << >>], pack_record_groups(recs))
=============================================================================
