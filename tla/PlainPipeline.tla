----------------------------- MODULE PlainPipeline -----------------------------
(***************************************************************************)
(* The server's transport path: a PlainServerSession numbers records with    *)
(* counters of its own, the connection packs them into groups and seals each *)
(* group as a frame with its protector, an ordered carrier moves the frames, *)
(* and a client opens them.  Sdk selects the client: PulzzClient::recv, or   *)
(* ClientSession::apply_protected_transport_frame, which receive_until_close *)
(* calls in a loop.                                                         *)
(***************************************************************************)
EXTENDS FrameProtector

CONSTANTS MaxRecords,  \* bound on the records emitted
          MaxDropped,  \* failing traces start below this sequence number only
          Sdk          \* the client is PulzzClient

ASSUME PipelineAssumption ==
  MaxRecords \in Nat /\ MaxDropped \in Nat /\ Sdk \in BOOLEAN

VARIABLES plain,     \* PlainServerSession: epoch_id, next_seq_no, pending_post_rekey_confirm
          outbox,    \* records emitted and not yet given to send_plain_records
          emitted,   \* every record emitted
          prot,      \* the connection's protector
          link,      \* frames on the carrier
          peer,      \* the client's protector
          accepted,  \* records the client's protector let through
          applied,   \* records applied to the client's state
          careless   \* history: the server drained its control plane into an unconfirmed
                     \* rekey, emitted after a Close, or traced an invalid event

vars == <<plain, outbox, emitted, prot, link, peer, accepted, applied, careless>>

Init ==
  /\ plain = [epoch |-> 0, seq |-> 0, confirm |-> FALSE]
  /\ outbox = << >>
  /\ emitted = << >>
  /\ prot = NewProtector
  /\ link = << >>
  /\ peer = NewProtector
  /\ accepted = << >>
  /\ applied = << >>
  /\ careless = FALSE

----------------------------------------------------------------------------
(* PlainServerSession. *)

header_context(type, body) ==
  [type |-> type, epoch |-> plain.epoch, seq |-> plain.seq, confirm |-> plain.confirm,
   body |-> body, next |-> 0]

advance_after_emit(c) == [c EXCEPT !.seq = @ + 1, !.confirm = FALSE]

HasClosed == \E i \in DOMAIN emitted : emitted[i].type = "Close"

Emitted(recs) ==
  /\ Len(emitted) + Len(recs) <= MaxRecords
  /\ outbox' = outbox \o recs
  /\ emitted' = emitted \o recs
  /\ UNCHANGED <<prot, link, peer, accepted, applied>>

\* A record whose validation fails is not emitted and does not advance.
EmitPlain(type) ==
  \E b \in Bodies :
    LET r == header_context(type, b)
    IN /\ validate(r)
       /\ Emitted(<<r>>)
       /\ careless' = (careless \/ HasClosed)
       /\ plain' = advance_after_emit(plain)

EmitEvent == EmitPlain("Exact")
EmitRepair == EmitPlain("Repair")
EmitClose == EmitPlain("Close")

\* A new source: its SourceMeta record, then its data.
EmitSource ==
  \E b1, b2 \in Bodies :
    LET meta == header_context("SourceMeta", b1)
    IN /\ validate(meta)
       /\ Emitted(<<meta, [header_context("Exact", b2) EXCEPT !.seq = plain.seq + 1]>>)
       /\ careless' = (careless \/ HasClosed)
       /\ plain' = advance_after_emit(advance_after_emit(plain))

\* A trace whose second event is for item 0: the call returns the error, and the
\* first record is dropped after the counters have moved past it.
EmitTraceFails ==
  /\ plain.seq < MaxDropped
  /\ plain' = advance_after_emit(plain)
  /\ careless' = TRUE
  /\ UNCHANGED <<outbox, emitted, prot, link, peer, accepted, applied>>

\* Seeded fault: the sequence goes on in the new epoch.
FaultyAfterRekey(c) == [epoch |-> c.epoch + 1, seq |-> c.seq + 1, confirm |-> TRUE]

AfterRekey(c) == [epoch |-> c.epoch + 1, seq |-> 0, confirm |-> TRUE]

EmitRekey ==
  \E s \in Seeds :
    /\ Emitted(<<[header_context("Rekey", s) EXCEPT !.next = plain.epoch + 1]>>)
    /\ plain' = AfterRekey(plain)
    /\ careless' = (careless \/ HasClosed)

\* Two queued control-plane records: both carry the confirm mark of the context
\* the drain started from.
EmitPendingControlPlane ==
  \E b1, b2 \in Bodies :
    /\ Emitted(<<header_context("Exact", b1),
                 [header_context("Exact", b2) EXCEPT !.seq = plain.seq + 1]>>)
    /\ plain' = advance_after_emit(advance_after_emit(plain))
    /\ careless' = (careless \/ plain.confirm \/ HasClosed)

----------------------------------------------------------------------------
(* The connection. *)

\* send_plain_records: every group is sealed before the first frame is sent, so
\* one group that fails takes the frames of the others with it.
send_plain_records ==
  LET run == ProtectGroups(prot, outbox)
  IN /\ outbox # << >>
     /\ outbox' = << >>
     /\ prot' = run.p
     /\ link' = IF run.ok THEN link \o run.frames ELSE link
     /\ UNCHANGED <<plain, emitted, peer, accepted, applied, careless>>

----------------------------------------------------------------------------
(* The client. *)

\* Seeded fault: only the first record of a frame is applied.
FaultyAppliedOf(recs) == FirstRecord(recs)

\* PulzzClient::recv applies the first record of a frame and keeps the others in
\* pending_recv, which it reads only when it has no transport.
AppliedOf(recs) == IF Sdk THEN FirstRecord(recs) ELSE recs

ReadFrame ==
  LET out == unprotect_transport_frame(peer, Head(link))
  IN /\ link # << >>
     /\ ~Closed(peer)
     /\ link' = Tail(link)
     /\ peer' = out.p
     /\ accepted' = accepted \o out.recs
     /\ applied' = applied \o AppliedOf(out.recs)
     /\ UNCHANGED <<plain, outbox, emitted, prot, careless>>

----------------------------------------------------------------------------
Next == \/ EmitEvent \/ EmitRepair \/ EmitSource \/ EmitTraceFails \/ EmitClose
        \/ EmitRekey \/ EmitPendingControlPlane
        \/ send_plain_records \/ ReadFrame

Spec == Init /\ [][Next]_vars

\* What only send_plain_records and only ReadFrame do, each enabled when they are.
OutboxSent == outbox # << >> /\ outbox' = << >>
FrameRead == link # << >> /\ ~Closed(peer) /\ link' = Tail(link)

\* The server sends what it emitted and the client keeps reading.
FairSpec == Spec /\ WF_outbox(OutboxSent) /\ WF_link(FrameRead)

----------------------------------------------------------------------------
\* Type invariant: the counters of header_context and both protectors stay counters,
\* whatever order of emits, rekeys and failed sends led here.
TypeOK ==
  /\ plain \in [epoch : Nat, seq : Nat, confirm : BOOLEAN]
  /\ prot \in Protector /\ peer \in Protector
  /\ emitted \in Seq(Record) /\ outbox \in Seq(Record)
  /\ accepted \in Seq(Record) /\ applied \in Seq(Record)

\* Whatever sends failed, what the client accepted is a prefix of what the server
\* emitted, with epochs and sequence numbers the client recovered by counting.
AcceptedPrefix == IsPrefix(accepted, emitted)

\* No group is empty, no group of several records is over the cap, and the groups
\* put together are the records in their order.
PackingKeepsRecords ==
  LET groups == pack_record_groups(outbox)
      load(g) == FoldLeft(LAMBDA n, r : n + transport_payload_len(r), 0, g)
  IN /\ FlattenSeq(groups) = outbox
     /\ \A i \in DOMAIN groups :
          Len(groups[i]) > 0 /\ (Len(groups[i]) > 1 => load(groups[i]) <= PayloadCap)

\* The plain session's counters and the connection's protector, which advance
\* independently, agree whenever everything emitted was sent, unless the server
\* was careless.
CountersInStep ==
  ~careless /\ outbox = << >> /\ ~Closed(prot) =>
    plain = [epoch |-> expected_epoch_id(prot), seq |-> expected_seq_no(prot),
             confirm |-> post_rekey_confirm_required(prot)]

\* Every record emitted is applied to the client's state in the end, unless the
\* server was careless.
EventuallyApplied ==
  \A n \in 1 .. MaxRecords : Len(emitted) >= n ~> Len(applied) >= n \/ careless

\* recv "unprotects it, applies each record to the client state": what was let
\* through the protector has been applied.
EachRecordApplied == applied = accepted
=============================================================================
