----------------------------- MODULE SecureStream -----------------------------
(***************************************************************************)
(* One protected stream: a ServerSession that emits records and a           *)
(* ClientSession that applies them, with the carrier between them.          *)
(* The carrier keeps every record ever released, so that it may lose,       *)
(* reorder, duplicate and alter them; until it does, it is the reliable     *)
(* ordered carrier (TCP, WebSocket, QUIC stream) the sessions run on.       *)
(***************************************************************************)
EXTENDS StreamProtector

CONSTANT MaxSent     \* bound on the records released (and on the ratchet steps of failing traces)

ASSUME BoundAssumption == MaxSent \in Nat

VARIABLES snd,       \* ServerSession.protector
          rcv,       \* ClientSession.protector
          sent,      \* the records released, each with the sender's protector around it
          delivered, \* the records the client's protector accepted
          careless,  \* history: the server has rekeyed or drained its control plane while
                     \* a rekey was unconfirmed, or traced an invalid event
          disordered \* history: the carrier has delivered out of order or altered a record

vars == <<snd, rcv, sent, delivered, careless, disordered>>

Entry == [w : Wire, pre : Protector, post : Protector]

Init == /\ snd = NewProtector
        /\ rcv = NewProtector
        /\ sent = << >>
        /\ delivered = << >>
        /\ careless = FALSE
        /\ disordered = FALSE

----------------------------------------------------------------------------
(* The server side. *)

\* A record of ServerSession: header_context fills epoch, sequence number and,
\* through HeaderContext::flags, the confirm flag.
PlainRecord(p, type, body) ==
  [type |-> type, epoch |-> expected_epoch_id(p), seq |-> expected_seq_no(p),
   confirm |-> post_rekey_confirm_required(p), body |-> body, next |-> 0]

RekeyRecord(p, seed) ==
  [PlainRecord(p, "Rekey", seed) EXCEPT !.next = make_rekey_payload(p)]

\* The batch header is built with no flag; the protector adds the confirm flag.
BatchRecord(p, body) == [PlainRecord(p, "Exact", body) EXCEPT !.confirm = FALSE]

\* The second of two control-plane records: the context, confirm flag included,
\* is that of the first, the sequence number is one more.
SecondControlRecord(p, body) ==
  [PlainRecord(p, "Exact", body) EXCEPT !.seq = expected_seq_no(p) + 1]

EntryOf(p, r) == [w |-> protect_record(p, r), pre |-> p, post |-> ProtectState(p, r)]

\* One protect_record call and the release of its result.  An error releases
\* nothing, whatever it did to the protector.
Protect(r) ==
  /\ ~Closed(snd)
  /\ validate(r)
  /\ Len(sent) < MaxSent
  /\ snd' = ProtectState(snd, r)
  /\ sent' = IF ProtectFails(snd, r) THEN sent ELSE Append(sent, EntryOf(snd, r))
  /\ UNCHANGED <<rcv, delivered, disordered>>

\* Whether this step is one a server that minds the protocol would not take.
Mark(fault) == careless' = (careless \/ fault)

EmitEvent == Mark(FALSE) /\ \E b \in Bodies : Protect(PlainRecord(snd, "Exact", b))

\* A Repair record: validation refuses it while a rekey is pending.
EmitRepair == Mark(FALSE) /\ \E b \in Bodies : Protect(PlainRecord(snd, "Repair", b))

EmitBatch == Mark(FALSE) /\ \E b \in Bodies : Protect(BatchRecord(snd, b))

EmitRekey ==
  /\ Mark(post_rekey_confirm_required(snd))
  /\ \E s \in Seeds : Protect(RekeyRecord(snd, s))

EmitClose == Mark(FALSE) /\ \E b \in Bodies : Protect(PlainRecord(snd, "Close", b))

\* Two protect_record calls of one handler: when the second record is not valid or
\* is refused, the handler returns the error and the first record is lost with it.
ProtectBoth(r1, r2, valid) ==
  LET mid == ProtectState(snd, r1)
  IN /\ ~Closed(snd)
     /\ validate(r1)
     /\ Len(sent) + 1 < MaxSent
     /\ snd' = IF valid THEN ProtectState(mid, r2) ELSE mid
     /\ sent' = IF ~valid \/ ProtectFails(mid, r2) THEN sent
                ELSE Append(Append(sent, EntryOf(snd, r1)), EntryOf(mid, r2))
     /\ UNCHANGED <<rcv, delivered, disordered>>

\* Two queued control-plane records; both have the context of the first.
EmitControlPlane ==
  \E b1 \in Bodies, b2 \in Bodies :
    /\ Mark(post_rekey_confirm_required(snd))
    /\ ProtectBoth(PlainRecord(snd, "Exact", b1), SecondControlRecord(snd, b2), TRUE)

\* A new source: its SourceMeta record, then its data.
EmitSource ==
  \E b1 \in Bodies, b2 \in Bodies :
    LET meta == PlainRecord(snd, "SourceMeta", b1)
    IN /\ Mark(FALSE)
       /\ ProtectBoth(meta, PlainRecord(ProtectState(snd, meta), "Exact", b2), TRUE)

\* Two events in one call.  An event for item 0 fails header validation.
EmitTrace ==
  \E b1 \in Bodies, b2 \in Bodies, valid \in BOOLEAN :
    LET first == PlainRecord(snd, "Exact", b1)
    IN /\ Mark(~valid)
       /\ ~valid => Len(snd.root) < MaxSent
       /\ ProtectBoth(first, PlainRecord(ProtectState(snd, first), "Exact", b2), valid)

----------------------------------------------------------------------------
(* The client side. *)

\* apply_protected_record: on success the record goes to the client's state,
\* on any error the protector closes.
Unprotect(w) ==
  /\ ~Closed(rcv)
  /\ rcv' = unprotect_record(rcv, w)
  /\ delivered' = IF UnprotectAccepts(rcv, w) THEN Append(delivered, w.rec) ELSE delivered
  /\ UNCHANGED <<snd, sent, careless>>

DeliverNext ==
  /\ Len(delivered) < Len(sent)
  /\ UNCHANGED disordered
  /\ Unprotect(sent[Len(delivered) + 1].w)

\* Loss, duplication and reordering: any record ever released may arrive now.
DeliverAny == disordered' = TRUE /\ \E i \in DOMAIN sent : Unprotect(sent[i].w)

\* A record whose clear header was rewritten to the one the client expects.
Rewritten(w) ==
  [w EXCEPT !.rec = [w.rec EXCEPT !.epoch = expected_epoch_id(rcv), !.seq = expected_seq_no(rcv),
                                  !.confirm = post_rekey_confirm_required(rcv)]]

DeliverRewritten == disordered' = TRUE /\ \E i \in DOMAIN sent : Unprotect(Rewritten(sent[i].w))

----------------------------------------------------------------------------
Emit == \/ EmitEvent \/ EmitRepair \/ EmitBatch \/ EmitRekey \/ EmitClose
        \/ EmitControlPlane \/ EmitSource \/ EmitTrace

Next == Emit \/ DeliverNext \/ DeliverAny \/ DeliverRewritten

Spec == Init /\ [][Next]_vars

\* The carrier keeps delivering and the client keeps reading.
FairSpec == Spec /\ WF_vars(DeliverNext)

----------------------------------------------------------------------------
\* The types of the two sessions and of the records between them.
StreamTypes ==
  /\ snd \in Protector
  /\ rcv \in Protector
  /\ sent \in Seq(Entry)
  /\ delivered \in Seq(Record)

\* Type invariant: both protectors and the histories have their types.
TypeOK ==
  /\ StreamTypes
  /\ careless \in BOOLEAN
  /\ disordered \in BOOLEAN

\* Whatever the carrier loses, repeats, reorders or rewrites, and whatever
\* protect_record calls failed at the sender, the client has accepted exactly
\* the first records released, in order: the ratchet leaves no way to accept an
\* old, a later or an altered record.
PrefixDelivery ==
  /\ Len(delivered) <= Len(sent)
  /\ \A i \in DOMAIN delivered : delivered[i] = sent[i].w.rec

\* No two released records are sealed under the same key: the nonce is derived
\* with the key, so a key may be used once only.
SingleUseKeys ==
  \A i \in DOMAIN sent, j \in DOMAIN sent : sent[i].w.key = sent[j].w.key => i = j

\* In what the client accepts, the confirm flag marks exactly the record after a
\* Rekey, which opens the next epoch at sequence number 0; every other record
\* continues its epoch.
EpochNumbering ==
  \A i \in DOMAIN delivered :
    IF i = 1 THEN delivered[1].epoch = 0 /\ delivered[1].seq = 0 /\ ~delivered[1].confirm
    ELSE IF delivered[i - 1].type = "Rekey"
         THEN /\ delivered[i].epoch = delivered[i - 1].epoch + 1
              /\ delivered[i].seq = 0
              /\ delivered[i].confirm
         ELSE /\ delivered[i].epoch = delivered[i - 1].epoch
              /\ delivered[i].seq = delivered[i - 1].seq + 1
              /\ ~delivered[i].confirm

\* The client's protector closes only because it accepted a Close record: it
\* never refuses what a careful server released on an ordered carrier.
NoFalseReject ==
  ~careless /\ ~disordered /\ Closed(rcv)
    => delivered # << >> /\ delivered[Len(delivered)].type = "Close"

\* A rekey asked for while one is pending is refused ("rekey is already pending")
\* and the stream goes on as if it had not been asked for.
RekeyRefusedWhilePending ==
  [][post_rekey_confirm_required(snd) /\ EmitRekey => snd' = snd]_vars

\* Every record a careful server releases on an ordered carrier is accepted by the
\* client in the end.
EventuallyDelivered ==
  \A n \in 1 .. MaxSent :
    Len(sent) >= n ~> Len(delivered) >= n \/ careless \/ disordered

\* The abstract stream: released and accepted records.
Abstract == INSTANCE OrderedDelivery
              WITH Message <- Record, out <- [i \in DOMAIN sent |-> sent[i].w.rec], in <- delivered

\* The protected stream implements ordered delivery of its records.
ImplementsOrderedDelivery == Abstract!Spec
=============================================================================
