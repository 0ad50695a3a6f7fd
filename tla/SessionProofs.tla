--------------------------- MODULE SessionProofs ---------------------------
(***************************************************************************)
(* Proofs about the two halves of a session: Bootstrap, in which the ends   *)
(* agree on a root, and SecureStream, the records that the root protects.   *)
(*                                                                         *)
(* SecureStream, for every set of bodies and seeds, every number of records *)
(* and whatever the carrier does: every successful step of the ratchet      *)
(* makes the active root longer, so the roots of the records released are   *)
(* pairwise different and so are their keys.  The client's protector is a   *)
(* copy of the sender's protector just after the last record accepted; the  *)
(* only record sealed under the root that copy holds is the next one, and   *)
(* accepting it takes the copy to the sender's protector after that record. *)
(*                                                                         *)
(* Bootstrap, for any number of attempts and accepts, whatever the network  *)
(* loses, repeats, mixes or delivers to a later attempt: both ends of a     *)
(* completed bootstrap have one root, and a hello completes one mutual      *)
(* session at most.  A frame is the message of the packet that completed    *)
(* it, or mixed from chunks of several, with nobody's key (InsertKeeps).    *)
(* In the mutual profile everything follows from the finish messages of     *)
(* the client: there is one to an attempt, it is signed over both hellos    *)
(* and itself, and the server completes the session that such a finish is   *)
(* about and no other (FinishTaken).  In the simple profile the server's    *)
(* nonce tells the sessions apart, and the transcript in the root holds     *)
(* the hello.                                                              *)
(***************************************************************************)
EXTENDS SecureStream, Bootstrap, FiniteSetTheorems, TLAPS

----------------------------------------------------------------------------
(* The inductive invariant. *)

\* The types of the records that PlainRecord is used for with a body.
PlainType == {"Exact", "SourceMeta", "Repair", "Close"}
USE DEF PlainType

Depth(p) == Len(ActiveRoot(p))

\* The sender's protector after the first n of the records released.
AfterIn(s, n) == IF n = 0 THEN NewProtector ELSE s[n].post
After(n) == AfterIn(sent, n)

\* A released record is one that its own sender would accept, and accepting it
\* leads where sealing it led.
EntryOK(e) ==
  /\ UnprotectAccepts(e.pre, e.w)
  /\ e.post = finish_success(e.pre, e.w.rec)

\* A protector is ahead of another when it is the same or failed calls have
\* moved its ratchet further.
Ahead(p, q) == p = q \/ Depth(p) > Depth(q)

\* The records s released by a sender whose protector is now p.
Released(s, p) ==
  /\ \A i \in DOMAIN s : EntryOK(s[i])
  /\ \A i \in DOMAIN s : Ahead(s[i].pre, AfterIn(s, i - 1))
  /\ \A i \in DOMAIN s, j \in DOMAIN s : i < j => Depth(s[i].post) <= Depth(s[j].pre)
  /\ \A i \in DOMAIN s : Depth(s[i].post) <= Depth(p)
  /\ Ahead(p, AfterIn(s, Len(s)))

ReceivedInv ==
  /\ Len(delivered) <= Len(sent)
  /\ \A i \in DOMAIN delivered : delivered[i] = sent[i].w.rec /\ sent[i].pre = After(i - 1)
  /\ Closed(rcv) \/ rcv = After(Len(delivered))

StreamInv == StreamTypes /\ Released(sent, snd) /\ ReceivedInv

----------------------------------------------------------------------------
(* The ratchet. *)

\* Advance yields a protector and a root one step longer than the active one.
LEMMA AdvanceFacts ==
  ASSUME NEW p \in Protector, NEW r \in Record
  PROVE  /\ Advance(p, r) \in Protector
         /\ Len(Advance(p, r).root) = Depth(p) + 1
         /\ ActiveRoot(p) \in Root
         /\ Advance(p, r).pending = NoRekey
<1>1. ActiveRoot(p) \in Root
  BY DEF ActiveRoot, Protector, PendingRekey
<1>2. expected_epoch_id(p) \in Nat
  BY DEF expected_epoch_id, Protector, PendingRekey
<1>3. /\ NextRoot(ActiveRoot(p), r.epoch, r.seq) \in Root
      /\ Len(NextRoot(ActiveRoot(p), r.epoch, r.seq)) = Len(ActiveRoot(p)) + 1
  BY <1>1 DEF NextRoot, Root, Derivation, Record
<1>4. NoRekey \in PendingRekey
  BY DEF NoRekey, PendingRekey, Root
<1>5. QED
  BY <1>1, <1>2, <1>3, <1>4 DEF Advance, Protector, Depth, Record, StreamState, Closed

\* A finished record leaves a protector whose active root is strictly longer.
LEMMA FinishFacts ==
  ASSUME NEW p \in Protector, NEW r \in Record
  PROVE  /\ finish_success(p, r) \in Protector
         /\ Depth(finish_success(p, r)) > Depth(p)
<1> DEFINE q == Advance(p, r)
<1>1. /\ q \in Protector
      /\ Len(q.root) = Depth(p) + 1
      /\ q.pending = NoRekey
  BY AdvanceFacts
<1>2. Depth(p) \in Nat
  BY AdvanceFacts DEF Depth, Root
<1> HIDE DEF q
<1>3. CASE r.type = "Rekey" /\ ~RekeyRefused(q, r)
  <2> DEFINE d == derive_rekey_root(q.root, q.epoch, r.body)
  <2>1. d \in Root /\ Len(d) = Len(q.root) + 1
    BY <1>1, <1>3 DEF derive_rekey_root, Root, Derivation, Protector, Record
  <2>2. r.next \in Nat /\ r.next # 0
    BY <1>1, <1>3 DEF RekeyRefused, Record, Protector
  <2>3. finish_success(p, r) = install_rekey(q, r)
    BY <1>3 DEF finish_success, q
  <2> DEFINE x == [epoch |-> r.next, root |-> d]
  <2>4. x \in PendingRekey /\ x # NoRekey /\ x.root = d
    BY <2>1, <2>2 DEF PendingRekey, NoRekey
  <2>5. install_rekey(q, r) = [q EXCEPT !.pending = x, !.state = "RekeyPending"]
    BY <1>3 DEF install_rekey
  <2> HIDE DEF d, x
  <2>6. /\ install_rekey(q, r) \in Protector
        /\ install_rekey(q, r).pending = x
    BY <1>1, <2>4, <2>5 DEF Protector, StreamState
  <2>7. ActiveRoot(install_rekey(q, r)) = d
    BY <2>4, <2>6 DEF ActiveRoot, post_rekey_confirm_required
  <2>8. QED
    BY <1>1, <1>2, <2>1, <2>3, <2>6, <2>7 DEF Depth
<1>4. CASE r.type = "Rekey" /\ RekeyRefused(q, r)
  <2>1. finish_success(p, r) = q
    BY <1>4 DEF finish_success, install_rekey, q
  <2>2. QED
    BY <1>1, <1>2, <2>1 DEF Depth, ActiveRoot, post_rekey_confirm_required
<1>5. CASE r.type = "Close"
  <2>1. finish_success(p, r) = [q EXCEPT !.state = "Closed"]
    BY <1>5 DEF finish_success, q
  <2>2. [q EXCEPT !.state = "Closed"] \in Protector
    BY <1>1 DEF Protector, StreamState
  <2>3. [q EXCEPT !.state = "Closed"].root = q.root /\ [q EXCEPT !.state = "Closed"].pending = NoRekey
    BY <1>1 DEF Protector
  <2>4. QED
    BY <1>1, <1>2, <2>1, <2>2, <2>3 DEF Depth, ActiveRoot, post_rekey_confirm_required
<1>6. CASE r.type # "Rekey" /\ r.type # "Close"
  <2>1. finish_success(p, r) = q
    BY <1>6 DEF finish_success, q
  <2>2. QED
    BY <1>1, <1>2, <2>1 DEF Depth, ActiveRoot, post_rekey_confirm_required
<1>7. QED
  BY <1>3, <1>4, <1>5, <1>6

\* The depth of a protector is a number.
LEMMA DepthNat == ASSUME NEW p \in Protector PROVE Depth(p) \in Nat
BY DEF Depth, ActiveRoot, Protector, PendingRekey, Root

\* Preparing a record keeps it a record.
LEMMA PrepareType ==
  ASSUME NEW p \in Protector, NEW r \in Record
  PROVE  prepare_record_for_epoch(p, r) \in Record
BY DEF prepare_record_for_epoch, Record, post_rekey_confirm_required

\* What protect_record leaves behind: the same protector or a deeper one.
LEMMA ProtectStateFacts ==
  ASSUME NEW p \in Protector, NEW r \in Record
  PROVE  ProtectState(p, r) \in Protector /\ Ahead(ProtectState(p, r), p)
BY PrepareType, FinishFacts DEF ProtectState, Ahead

\* A record that protect_record releases is one its own sender would accept.
LEMMA EntryFacts ==
  ASSUME NEW p \in Protector, NEW r \in Record,
         validate(prepare_record_for_epoch(p, r)), ~ProtectFails(p, r)
  PROVE  /\ EntryOf(p, r) \in Entry
         /\ EntryOf(p, r).pre = p
         /\ EntryOf(p, r).post = ProtectState(p, r)
         /\ EntryOK(EntryOf(p, r))
         /\ Depth(ProtectState(p, r)) > Depth(p)
<1> DEFINE q == prepare_record_for_epoch(p, r)
           w == seal_payload(p, q)
<1>1. q \in Record
  BY PrepareType
<1>2. ProtectState(p, r) = finish_success(p, q)
  BY DEF ProtectState, ProtectFails
<1>3. HeaderIsDue(p, q)
  BY DEF ProtectFails, PrepareRefuses, prepare_record_for_epoch, HeaderIsDue, Record,
         post_rekey_confirm_required
<1>4. ~FinishFails(p, q) /\ validate(q)
  BY DEF ProtectFails
<1>5. EntryOf(p, r) = [w |-> w, pre |-> p, post |-> finish_success(p, q)]
  BY <1>2 DEF EntryOf, protect_record
<1> HIDE DEF q
<1>6. w \in Wire
  <2>1. RecordKey(ActiveRoot(p), q.epoch, q.seq) \in Key
    BY <1>1, AdvanceFacts DEF RecordKey, Key, Record
  <2>2. aad_bytes(q) \in [type : RecordType, epoch : Nat, seq : Nat, confirm : BOOLEAN]
    BY <1>1 DEF aad_bytes, Record
  <2>3. QED
    BY <1>1, <2>1, <2>2 DEF seal_payload, Wire
<1>7. w.rec = q /\ open_payload(p, w)
  BY DEF seal_payload, open_payload
<1> HIDE DEF w
<1>8. UnprotectAccepts(p, w)
  BY <1>3, <1>4, <1>7 DEF UnprotectAccepts
<1>9. finish_success(p, q) \in Protector /\ Depth(finish_success(p, q)) > Depth(p)
  BY <1>1, FinishFacts
<1>10. QED
  BY <1>2, <1>5, <1>6, <1>7, <1>8, <1>9 DEF Entry, EntryOK

\* The protectors around the records released are protectors.
LEMMA EntryTypes ==
  ASSUME NEW s \in Seq(Entry), NEW i \in DOMAIN s
  PROVE  /\ s[i] \in Entry
         /\ s[i].pre \in Protector /\ s[i].post \in Protector
         /\ s[i].w \in Wire /\ s[i].w.rec \in Record
         /\ Depth(s[i].pre) \in Nat /\ Depth(s[i].post) \in Nat
<1>1. s[i] \in Entry
  OBVIOUS
<1>2. s[i].pre \in Protector /\ s[i].post \in Protector /\ s[i].w \in Wire
  BY <1>1 DEF Entry
<1>3. s[i].w.rec \in Record
  BY <1>2 DEF Wire
<1>4. QED
  BY <1>1, <1>2, <1>3, DepthNat

\* The sender starts with a protector.
LEMMA NewProtectorType == NewProtector \in Protector
<1>1. NoRekey \in PendingRekey
  BY DEF NoRekey, PendingRekey, Root
<1>2. QED
  BY <1>1 DEF NewProtector, Protector, StreamState, Root

\* The protector after n records released is a protector.
LEMMA AfterType ==
  ASSUME NEW s \in Seq(Entry), NEW n \in 0 .. Len(s)
  PROVE  AfterIn(s, n) \in Protector
<1>1. CASE n = 0
  BY <1>1, NewProtectorType DEF AfterIn
<1>2. CASE n # 0
  <2>1. n \in DOMAIN s
    BY <1>2
  <2>2. QED
    BY <1>2, <2>1, EntryTypes DEF AfterIn
<1>3. QED
  BY <1>1, <1>2

\* The invariant of the released records survives a call that releases nothing.
LEMMA ReleaseNothing ==
  ASSUME NEW s \in Seq(Entry), NEW p \in Protector, NEW q \in Protector,
         Released(s, p), Ahead(q, p)
  PROVE  Released(s, q)
<1>1. AfterIn(s, Len(s)) \in Protector
  BY AfterType
<1>2. Depth(AfterIn(s, Len(s))) \in Nat /\ Depth(p) \in Nat /\ Depth(q) \in Nat
  BY <1>1, DepthNat
<1>3. Depth(q) >= Depth(p)
  BY <1>2 DEF Ahead
<1>4. Ahead(q, AfterIn(s, Len(s)))
  BY <1>2 DEF Ahead, Released
<1>5. ASSUME NEW i \in DOMAIN s PROVE Depth(s[i].post) <= Depth(q)
  <2>1. Depth(s[i].post) \in Nat
    BY EntryTypes
  <2>2. QED
    BY <1>2, <1>3, <2>1 DEF Released
<1>6. QED
  BY <1>4, <1>5 DEF Released

\* ... and a call that releases one record.
LEMMA ReleaseOne ==
  ASSUME NEW s \in Seq(Entry), NEW p \in Protector, NEW e \in Entry,
         Released(s, p), EntryOK(e), e.pre = p
  PROVE  Released(Append(s, e), e.post)
<1> DEFINE t == Append(s, e)
<1>1. /\ t \in Seq(Entry)
      /\ Len(t) = Len(s) + 1
      /\ t[Len(t)] = e
      /\ \A i \in DOMAIN s : t[i] = s[i] /\ i \in DOMAIN t
      /\ \A i \in DOMAIN t : i \in DOMAIN s \/ i = Len(t)
  OBVIOUS
<1> HIDE DEF t
<1>2. Len(s) \in Nat /\ DOMAIN s = 1 .. Len(s) /\ DOMAIN t = 1 .. Len(t)
  BY <1>1
<1>3. \A n \in 0 .. Len(s) : AfterIn(t, n) = AfterIn(s, n)
  BY <1>1, <1>2 DEF AfterIn
<1>4. AfterIn(t, Len(t)) = e.post
  BY <1>1, <1>2 DEF AfterIn
<1>5. e.w.rec \in Record /\ e.post \in Protector
  BY DEF Entry, Wire
<1>6. Depth(e.post) > Depth(p) /\ Depth(e.post) \in Nat /\ Depth(p) \in Nat
  BY <1>5, FinishFacts, DepthNat DEF EntryOK
<1>7. \A i \in DOMAIN s : Depth(s[i].post) \in Nat /\ Depth(s[i].post) <= Depth(p)
  BY EntryTypes DEF Released
<1>8. \A i \in DOMAIN t : EntryOK(t[i])
  BY <1>1 DEF Released
<1>9. ASSUME NEW i \in DOMAIN t PROVE Ahead(t[i].pre, AfterIn(t, i - 1))
  <2>1. CASE i \in DOMAIN s
    BY <2>1, <1>1, <1>2, <1>3 DEF Released
  <2>2. CASE i = Len(t)
    <3>1. i - 1 = Len(s) /\ AfterIn(t, i - 1) = AfterIn(s, Len(s))
      BY <2>2, <1>1, <1>2, <1>3
    <3>2. QED
      BY <2>2, <3>1, <1>1 DEF Released
  <2>3. QED
    BY <2>1, <2>2, <1>1
<1>10. ASSUME NEW i \in DOMAIN t, NEW j \in DOMAIN t, i < j
       PROVE  Depth(t[i].post) <= Depth(t[j].pre)
  <2>1. i \in DOMAIN s
    BY <1>1, <1>2, <1>10
  <2>2. CASE j \in DOMAIN s
    BY <2>1, <2>2, <1>1, <1>10 DEF Released
  <2>3. CASE j = Len(t)
    BY <2>1, <2>3, <1>1, <1>7
  <2>4. QED
    BY <2>2, <2>3, <1>1
<1>11. ASSUME NEW i \in DOMAIN t PROVE Depth(t[i].post) <= Depth(e.post)
  <2>1. CASE i \in DOMAIN s
    BY <2>1, <1>1, <1>6, <1>7
  <2>2. CASE i = Len(t)
    BY <2>2, <1>1, <1>6
  <2>3. QED
    BY <2>1, <2>2, <1>1
<1>12. Ahead(e.post, AfterIn(t, Len(t)))
  BY <1>4 DEF Ahead
<1>13. Released(t, e.post)
  BY <1>8, <1>9, <1>10, <1>11, <1>12 DEF Released
<1>14. QED
  BY <1>13 DEF t

----------------------------------------------------------------------------
(* The steps of the sender. *)

\* ReceivedInv speaks of the first records released only, which no later step
\* changes.
LEMMA ReceivedKept ==
  ASSUME NEW s \in Seq(Entry), StreamTypes, ReceivedInv, UNCHANGED <<rcv, delivered>>, sent' = s,
         Len(s) >= Len(sent), \A i \in DOMAIN sent : s[i] = sent[i]
  PROVE  ReceivedInv'
<1>1. Len(sent) \in Nat /\ Len(delivered) \in Nat /\ Len(delivered) <= Len(sent) /\ Len(s) \in Nat
  BY DEF StreamTypes, ReceivedInv
<1>2. \A n \in 0 .. Len(sent) : After(n)' = After(n)
  BY <1>1 DEF After, AfterIn, StreamTypes
<1>3. \A i \in DOMAIN delivered : i \in DOMAIN sent /\ i - 1 \in 0 .. Len(sent) /\ sent'[i] = sent[i]
  BY <1>1 DEF StreamTypes
<1>4. Len(delivered)' <= Len(sent)'
  BY <1>1
<1>5. \A i \in DOMAIN delivered : delivered[i] = s[i].w.rec /\ s[i].pre = After(i - 1)'
  BY <1>2, <1>3 DEF ReceivedInv
<1>6. Closed(rcv) \/ rcv = After(Len(delivered))'
  BY <1>1, <1>2 DEF ReceivedInv
<1>7. QED
  BY <1>4, <1>5, <1>6 DEF ReceivedInv

\* One protect_record call keeps the invariant.
LEMMA ProtectStep ==
  ASSUME NEW r \in Record, StreamInv, Protect(r),
         validate(prepare_record_for_epoch(snd, r))
  PROVE  StreamInv'
<1>1. snd \in Protector /\ sent \in Seq(Entry) /\ Released(sent, snd) /\ StreamTypes /\ ReceivedInv
  BY DEF StreamInv, StreamTypes
<1>2. snd' \in Protector /\ Ahead(snd', snd)
  BY <1>1, ProtectStateFacts DEF Protect
<1>3. CASE ProtectFails(snd, r)
  <2>1. sent' = sent
    BY <1>3 DEF Protect
  <2>2. Released(sent', snd')
    BY <1>1, <1>2, <2>1, ReleaseNothing
  <2>3. ReceivedInv'
    BY <1>1, <2>1, ReceivedKept DEF Protect
  <2>4. StreamTypes'
    BY <1>1, <1>2, <2>1 DEF StreamTypes, Protect
  <2>5. QED
    BY <2>2, <2>3, <2>4 DEF StreamInv
<1>4. CASE ~ProtectFails(snd, r)
  <2> DEFINE e == EntryOf(snd, r)
  <2>1. sent' = Append(sent, e)
    BY <1>4 DEF Protect
  <2>2. e \in Entry /\ e.pre = snd /\ e.post = snd' /\ EntryOK(e)
    BY <1>1, <1>4, EntryFacts DEF Protect
  <2> HIDE DEF e
  <2>3. Released(sent', snd')
    BY <1>1, <2>1, <2>2, ReleaseOne
  <2>4. sent' \in Seq(Entry) /\ Len(sent') >= Len(sent) /\ \A i \in DOMAIN sent : sent'[i] = sent[i]
    BY <1>1, <2>1, <2>2
  <2>5. ReceivedInv'
    BY <1>1, <2>4, ReceivedKept DEF Protect
  <2>6. StreamTypes'
    BY <1>1, <1>2, <2>4 DEF StreamTypes, Protect
  <2>7. QED
    BY <2>3, <2>5, <2>6 DEF StreamInv
<1>5. QED
  BY <1>3, <1>4

\* The records of the sessions are records; preparing them adds no flag that
\* their type refuses.
LEMMA SessionRecords ==
  ASSUME NEW p \in Protector, NEW b \in Bodies
  PROVE  /\ \A t \in PlainType :
              /\ PlainRecord(p, t, b) \in Record
              /\ validate(PlainRecord(p, t, b))
                   => validate(prepare_record_for_epoch(p, PlainRecord(p, t, b)))
         /\ BatchRecord(p, b) \in Record
         /\ SecondControlRecord(p, b) \in Record
         /\ validate(prepare_record_for_epoch(p, BatchRecord(p, b)))
<1>1. /\ expected_epoch_id(p) \in Nat /\ expected_seq_no(p) \in Nat
      /\ post_rekey_confirm_required(p) \in BOOLEAN
  BY DEF expected_epoch_id, expected_seq_no, post_rekey_confirm_required, Protector, PendingRekey
<1>2. ASSUME NEW t \in PlainType PROVE PlainRecord(p, t, b) \in Record
  BY <1>1 DEF PlainRecord, Record, RecordType
<1>3. BatchRecord(p, b) \in Record /\ SecondControlRecord(p, b) \in Record
  <2> DEFINE q == PlainRecord(p, "Exact", b)
  <2>1. q \in Record /\ q.type = "Exact"
    BY <1>2 DEF PlainRecord
  <2> HIDE DEF q
  <2>2. [q EXCEPT !.confirm = FALSE] \in Record
    BY <2>1 DEF Record
  <2>3. [q EXCEPT !.seq = expected_seq_no(p) + 1] \in Record
    BY <1>1, <2>1 DEF Record
  <2>4. QED
    BY <2>2, <2>3 DEF BatchRecord, SecondControlRecord, q
<1>4. QED
  BY <1>2, <1>3 DEF validate, prepare_record_for_epoch, PlainRecord, BatchRecord, Record,
                    post_rekey_confirm_required

\* The Rekey record of emit_rekey is a record, whatever epoch it announces.
LEMMA SessionRekeys ==
  ASSUME NEW p \in Protector, NEW s \in Seeds
  PROVE  /\ RekeyRecord(p, s) \in Record
         /\ validate(prepare_record_for_epoch(p, RekeyRecord(p, s)))
<1>1. /\ expected_epoch_id(p) \in Nat /\ expected_seq_no(p) \in Nat
      /\ post_rekey_confirm_required(p) \in BOOLEAN /\ make_rekey_payload(p) \in Nat
  BY DEF expected_epoch_id, expected_seq_no, post_rekey_confirm_required, make_rekey_payload,
         Protector, PendingRekey
<1>2. PlainRecord(p, "Rekey", s) \in Record
  BY <1>1 DEF PlainRecord, Record, RecordType
<1>3. RekeyRecord(p, s) \in Record
  BY <1>1, <1>2 DEF RekeyRecord, Record
<1>4. QED
  BY <1>3 DEF validate, prepare_record_for_epoch, RekeyRecord, PlainRecord, Record

\* A handler with two records keeps the invariant, also when the second record is
\* not released and both are lost.
LEMMA PairStep ==
  ASSUME StreamInv, NEW r1 \in Record, NEW r2 \in Record, NEW valid \in BOOLEAN,
         ProtectBoth(r1, r2, valid), ~ProtectFails(snd, r1),
         validate(prepare_record_for_epoch(snd, r1)),
         validate(prepare_record_for_epoch(ProtectState(snd, r1), r2))
  PROVE  StreamInv'
<1>1. snd \in Protector /\ sent \in Seq(Entry) /\ Released(sent, snd) /\ StreamTypes /\ ReceivedInv
  BY DEF StreamInv, StreamTypes
<1> DEFINE mid == ProtectState(snd, r1)
           e1 == EntryOf(snd, r1)
           e2 == EntryOf(mid, r2)
<1>2. /\ snd' = IF valid THEN ProtectState(mid, r2) ELSE mid
      /\ sent' = IF ~valid \/ ProtectFails(mid, r2) THEN sent ELSE Append(Append(sent, e1), e2)
      /\ UNCHANGED <<rcv, delivered>>
  BY DEF ProtectBoth
<1>3. mid \in Protector /\ Ahead(mid, snd)
  BY <1>1, ProtectStateFacts
<1>4. snd' \in Protector /\ Ahead(snd', mid)
  <2>1. ProtectState(mid, r2) \in Protector /\ Ahead(ProtectState(mid, r2), mid)
    BY <1>3, ProtectStateFacts
  <2>2. Ahead(mid, mid)
    BY DEF Ahead
  <2>3. QED
    BY <1>2, <1>3, <2>1, <2>2
<1>5. e1 \in Entry /\ e1.pre = snd /\ e1.post = mid /\ EntryOK(e1)
  BY <1>1, EntryFacts
<1>6. CASE ~valid \/ ProtectFails(mid, r2)
  <2>1. sent' = sent
    BY <1>2, <1>6
  <2>2. Released(sent, mid)
    BY <1>1, <1>3, ReleaseNothing
  <2>3. Released(sent', snd')
    BY <1>1, <1>3, <1>4, <2>1, <2>2, ReleaseNothing
  <2>4. ReceivedInv'
    BY <1>1, <1>2, <2>1, ReceivedKept
  <2>5. StreamTypes'
    BY <1>1, <1>2, <1>4, <2>1 DEF StreamTypes
  <2>6. QED
    BY <2>3, <2>4, <2>5 DEF StreamInv
<1>7. CASE valid /\ ~ProtectFails(mid, r2)
  <2>1. sent' = Append(Append(sent, e1), e2) /\ snd' = ProtectState(mid, r2)
    BY <1>2, <1>7
  <2>2. e2 \in Entry /\ e2.pre = mid /\ e2.post = snd' /\ EntryOK(e2)
    BY <1>3, <1>7, <2>1, EntryFacts
  <2> HIDE DEF mid, e1, e2
  <2>3. Append(sent, e1) \in Seq(Entry) /\ Released(Append(sent, e1), mid)
    BY <1>1, <1>5, ReleaseOne
  <2>4. Released(sent', snd')
    BY <1>3, <2>1, <2>2, <2>3, ReleaseOne
  <2>5. sent' \in Seq(Entry) /\ Len(sent') >= Len(sent) /\ \A i \in DOMAIN sent : sent'[i] = sent[i]
    BY <1>1, <1>5, <2>1, <2>2
  <2>6. ReceivedInv'
    BY <1>1, <1>2, <2>5, ReceivedKept
  <2>7. StreamTypes'
    BY <1>1, <1>2, <1>4, <2>5 DEF StreamTypes
  <2>8. QED
    BY <2>4, <2>6, <2>7 DEF StreamInv
<1>8. QED
  BY <1>6, <1>7

\* A record that carries the protector's own context is released.
LEMMA PlainAccepted ==
  ASSUME NEW p \in Protector, NEW b \in Bodies, NEW t \in PlainType
  PROVE  ~ProtectFails(p, PlainRecord(p, t, b))
BY DEF ProtectFails, PrepareRefuses, FinishFails, prepare_record_for_epoch, PlainRecord

\* The protector after the first record of a handler is one.
LEMMA MidType ==
  ASSUME NEW p \in Protector, NEW b \in Bodies, NEW t \in PlainType
  PROVE  ProtectState(p, PlainRecord(p, t, b)) \in Protector
BY SessionRecords, ProtectStateFacts

\* An Exact record passes header validation with and without the confirm flag.
LEMMA ExactIsValid ==
  ASSUME NEW p, NEW r, r.type = "Exact", r \in Record
  PROVE  validate(prepare_record_for_epoch(p, r))
BY DEF validate, prepare_record_for_epoch, Record

\* Draining two control-plane records keeps the invariant.
LEMMA ControlPlaneStep == StreamInv /\ EmitControlPlane => StreamInv'
<1> SUFFICES ASSUME StreamInv, EmitControlPlane PROVE StreamInv'
  OBVIOUS
<1>1. snd \in Protector
  BY DEF StreamInv, StreamTypes
<1>2. PICK b1 \in Bodies, b2 \in Bodies :
        ProtectBoth(PlainRecord(snd, "Exact", b1), SecondControlRecord(snd, b2), TRUE)
  BY DEF EmitControlPlane
<1> DEFINE r1 == PlainRecord(snd, "Exact", b1)
           r2 == SecondControlRecord(snd, b2)
<1>3. r1 \in Record /\ r2 \in Record /\ r1.type = "Exact" /\ r2.type = "Exact"
  BY <1>1, SessionRecords DEF PlainRecord, SecondControlRecord
<1>4. ~ProtectFails(snd, r1)
  BY <1>1, PlainAccepted
<1> HIDE DEF r1, r2
<1>5. /\ validate(prepare_record_for_epoch(snd, r1))
      /\ validate(prepare_record_for_epoch(ProtectState(snd, r1), r2))
  BY <1>3, ExactIsValid
<1>6. QED
  BY <1>2, <1>3, <1>4, <1>5, PairStep DEF r1, r2

\* So does a SourceMeta record followed by its data.
LEMMA SourceStep == StreamInv /\ EmitSource => StreamInv'
<1> SUFFICES ASSUME StreamInv, EmitSource PROVE StreamInv'
  OBVIOUS
<1>1. snd \in Protector
  BY DEF StreamInv, StreamTypes
<1>2. PICK b1 \in Bodies, b2 \in Bodies :
        ProtectBoth(PlainRecord(snd, "SourceMeta", b1),
                    PlainRecord(ProtectState(snd, PlainRecord(snd, "SourceMeta", b1)), "Exact", b2), TRUE)
  BY DEF EmitSource
<1> DEFINE r1 == PlainRecord(snd, "SourceMeta", b1)
           mid == ProtectState(snd, r1)
           r2 == PlainRecord(mid, "Exact", b2)
<1>3. r1 \in Record /\ ~ProtectFails(snd, r1) /\ mid \in Protector
  BY <1>1, SessionRecords, PlainAccepted, MidType
<1>4. validate(r1)
  BY <1>2 DEF ProtectBoth
<1>5. validate(prepare_record_for_epoch(snd, r1))
  BY <1>1, <1>4, SessionRecords
<1> HIDE DEF mid
<1>6. r2 \in Record /\ r2.type = "Exact"
  BY <1>3, SessionRecords DEF PlainRecord
<1> HIDE DEF r1, r2
<1>7. validate(prepare_record_for_epoch(mid, r2))
  BY <1>6, ExactIsValid
<1>8. QED
  BY <1>2, <1>3, <1>5, <1>6, <1>7, PairStep DEF r1, mid, r2

\* So does a trace, also one that fails at its second event.
LEMMA TraceStep == StreamInv /\ EmitTrace => StreamInv'
<1> SUFFICES ASSUME StreamInv, EmitTrace PROVE StreamInv'
  OBVIOUS
<1>1. snd \in Protector
  BY DEF StreamInv, StreamTypes
<1>2. PICK b1 \in Bodies, b2 \in Bodies, valid \in BOOLEAN :
        ProtectBoth(PlainRecord(snd, "Exact", b1),
                    PlainRecord(ProtectState(snd, PlainRecord(snd, "Exact", b1)), "Exact", b2), valid)
  BY DEF EmitTrace
<1> DEFINE r1 == PlainRecord(snd, "Exact", b1)
           mid == ProtectState(snd, r1)
           r2 == PlainRecord(mid, "Exact", b2)
<1>3. r1 \in Record /\ r1.type = "Exact" /\ ~ProtectFails(snd, r1) /\ mid \in Protector
  BY <1>1, SessionRecords, PlainAccepted, MidType DEF PlainRecord
<1> HIDE DEF mid
<1>4. r2 \in Record /\ r2.type = "Exact"
  BY <1>3, SessionRecords DEF PlainRecord
<1> HIDE DEF r1, r2
<1>5. validate(prepare_record_for_epoch(snd, r1)) /\ validate(prepare_record_for_epoch(mid, r2))
  BY <1>3, <1>4, ExactIsValid
<1>6. QED
  BY <1>2, <1>3, <1>4, <1>5, PairStep DEF r1, mid, r2

----------------------------------------------------------------------------
(* The steps of the client. *)

\* A record that opens under the client's ratchet with its header unchanged is
\* the next one, and the client stands where the sender stood.
LEMMA OnlyNextOpens ==
  ASSUME StreamInv, ~Closed(rcv), NEW i \in DOMAIN sent, UnprotectAccepts(rcv, sent[i].w)
  PROVE  i = Len(delivered) + 1 /\ sent[i].pre = rcv
<1> DEFINE n == Len(delivered)
<1>1. /\ sent \in Seq(Entry) /\ n \in Nat /\ Len(sent) \in Nat /\ n <= Len(sent)
      /\ rcv = After(n) /\ rcv \in Protector /\ Released(sent, snd)
      /\ i \in 1 .. Len(sent)
  BY DEF StreamInv, StreamTypes, ReceivedInv
<1>2. \A k \in DOMAIN sent : Depth(sent[k].pre) \in Nat /\ Depth(sent[k].post) \in Nat
  BY <1>1, EntryTypes
<1>3. ASSUME NEW k \in DOMAIN sent PROVE Depth(sent[k].pre) < Depth(sent[k].post)
  <2>1. EntryOK(sent[k]) /\ sent[k].pre \in Protector /\ sent[k].w.rec \in Record
    BY <1>1, EntryTypes DEF Released
  <2>2. QED
    BY <1>2, <2>1, FinishFacts DEF EntryOK
<1>4. ActiveRoot(sent[i].pre) = ActiveRoot(rcv)
  <2>1. EntryOK(sent[i])
    BY <1>1 DEF Released
  <2>2. QED
    BY <2>1 DEF EntryOK, UnprotectAccepts, open_payload, RecordKey
<1>5. Depth(sent[i].pre) = Depth(rcv) /\ Depth(rcv) \in Nat
  BY <1>1, <1>4, DepthNat DEF Depth
<1>6. ~(i <= n)
  <2> SUFFICES ASSUME i <= n PROVE FALSE
    OBVIOUS
  <2>1. n \in DOMAIN sent /\ rcv = sent[n].post
    BY <1>1 DEF After, AfterIn
  <2>2. CASE i = n
    BY <1>2, <1>3, <1>5, <2>1, <2>2
  <2>3. CASE i < n
    <3>1. Depth(sent[i].post) <= Depth(sent[n].pre)
      BY <1>1, <2>1, <2>3 DEF Released
    <3>2. QED
      BY <1>2, <1>3, <1>5, <2>1, <3>1
  <2>4. QED
    BY <1>1, <2>2, <2>3
<1>7. ~(i > n + 1)
  <2> SUFFICES ASSUME i > n + 1 PROVE FALSE
    OBVIOUS
  <2>1. n + 1 \in DOMAIN sent /\ (n + 1) - 1 = n
    BY <1>1
  <2>2. Depth(sent[n + 1].post) <= Depth(sent[i].pre)
    BY <1>1, <2>1 DEF Released
  <2>3. Ahead(sent[n + 1].pre, After(n))
    BY <1>1, <2>1 DEF Released, After
  <2>4. Depth(sent[n + 1].pre) >= Depth(rcv)
    BY <1>1, <1>2, <1>5, <2>1, <2>3 DEF Ahead
  <2>5. QED
    BY <1>2, <1>3, <1>5, <2>1, <2>2, <2>4
<1>8. i = n + 1
  BY <1>1, <1>6, <1>7
<1>9. sent[i].pre = rcv
  <2>1. i - 1 = n /\ Ahead(sent[i].pre, After(n))
    BY <1>1, <1>8 DEF Released, After
  <2>2. QED
    BY <1>1, <1>5, <2>1 DEF Ahead
<1>10. QED
  BY <1>8, <1>9

\* A rewritten header that still passes as associated data is the header itself.
LEMMA SameHeader ==
  ASSUME NEW r \in Record, NEW p, NEW v,
         v = [r EXCEPT !.epoch = expected_epoch_id(p), !.seq = expected_seq_no(p),
                       !.confirm = post_rekey_confirm_required(p)],
         aad_bytes(v) = aad_bytes(r)
  PROVE  v = r
<1>1. /\ v.epoch = expected_epoch_id(p) /\ v.seq = expected_seq_no(p)
      /\ v.confirm = post_rekey_confirm_required(p)
  BY DEF Record
<1>2. /\ expected_epoch_id(p) = r.epoch /\ expected_seq_no(p) = r.seq
      /\ post_rekey_confirm_required(p) = r.confirm
  BY <1>1 DEF aad_bytes
<1>3. [r EXCEPT !.epoch = r.epoch, !.seq = r.seq, !.confirm = r.confirm] = r
  BY DEF Record
<1>4. QED
  BY <1>2, <1>3

\* The client keeps the invariant when a released record, or one with a rewritten
\* header, arrives.
LEMMA UnprotectStep ==
  ASSUME StreamInv, NEW i \in DOMAIN sent, NEW w, Unprotect(w),
         w = sent[i].w \/ w = Rewritten(sent[i].w)
  PROVE  StreamInv'
<1>1. /\ sent \in Seq(Entry) /\ rcv \in Protector /\ StreamTypes /\ Released(sent, snd)
      /\ delivered \in Seq(Record) /\ ReceivedInv /\ ~Closed(rcv)
      /\ UNCHANGED <<snd, sent>>
  BY DEF StreamInv, StreamTypes, Unprotect
<1>2. sent[i] \in Entry /\ sent[i].w \in Wire /\ sent[i].w.rec \in Record
  BY <1>1, EntryTypes
<1>3. CASE UnprotectAccepts(rcv, w)
  <2>1. w = sent[i].w
    <3>1. CASE w = Rewritten(sent[i].w)
      <4> DEFINE r == sent[i].w.rec
                 v == w.rec
      <4>1. /\ sent[i].w.aad = aad_bytes(r)
        BY <1>1 DEF Released, EntryOK, UnprotectAccepts, open_payload
      <4>2. w.aad = sent[i].w.aad /\ w.key = sent[i].w.key
        BY <3>1, <1>2 DEF Rewritten, Wire
      <4>3. v = [r EXCEPT !.epoch = expected_epoch_id(rcv), !.seq = expected_seq_no(rcv),
                          !.confirm = post_rekey_confirm_required(rcv)]
        BY <3>1, <1>2 DEF Rewritten, Wire
      <4>4. aad_bytes(v) = aad_bytes(r)
        BY <1>3, <4>1, <4>2 DEF UnprotectAccepts, open_payload
      <4> HIDE DEF r, v
      <4>5. r \in Record
        BY <1>2 DEF r
      <4>6. v = r
        BY <4>3, <4>4, <4>5, SameHeader
      <4>7. w = [sent[i].w EXCEPT !.rec = v]
        BY <3>1, <1>2, <4>3 DEF Rewritten, r, v
      <4>8. QED
        BY <1>2, <4>6, <4>7 DEF Wire, r
    <3>2. QED
      BY <3>1
  <2>2. i = Len(delivered) + 1 /\ sent[i].pre = rcv
    BY <1>1, <1>3, <2>1, OnlyNextOpens
  <2>3. rcv' = sent[i].post /\ rcv' \in Protector
    <3>1. EntryOK(sent[i]) /\ sent[i].post \in Protector
      BY <1>1, EntryTypes DEF Released
    <3>2. QED
      BY <1>3, <2>1, <2>2, <3>1 DEF Unprotect, unprotect_record, EntryOK
  <2>4. delivered' = Append(delivered, sent[i].w.rec)
    BY <1>3, <2>1 DEF Unprotect
  <2>5. /\ delivered' \in Seq(Record) /\ Len(delivered') = i
        /\ \A k \in DOMAIN delivered' : k \in DOMAIN delivered \/ k = i
        /\ \A k \in DOMAIN delivered : delivered'[k] = delivered[k]
        /\ delivered'[i] = sent[i].w.rec
    BY <1>1, <1>2, <2>2, <2>4
  <2>6. StreamTypes'
    BY <1>1, <2>3, <2>5 DEF StreamTypes
  <2>7. \A k : After(k)' = After(k)
    BY <1>1 DEF After, AfterIn
  <2>8. i - 1 = Len(delivered) /\ i <= Len(sent) /\ i # 0
    BY <1>1, <2>2
  <2>9. sent[i].pre = After(i - 1)
    BY <1>1, <2>2, <2>8 DEF ReceivedInv
  <2>10. \A k \in DOMAIN delivered' : delivered'[k] = sent[k].w.rec /\ sent[k].pre = After(k - 1)
    BY <1>1, <2>5, <2>9 DEF ReceivedInv
  <2>11. rcv' = After(Len(delivered'))
    BY <2>3, <2>5, <2>8 DEF After, AfterIn
  <2>12. ReceivedInv'
    BY <1>1, <2>5, <2>7, <2>8, <2>10, <2>11 DEF ReceivedInv
  <2>13. QED
    BY <1>1, <2>6, <2>12 DEF StreamInv
<1>4. CASE ~UnprotectAccepts(rcv, w)
  <2>1. rcv' = Fail(rcv) /\ delivered' = delivered
    BY <1>4 DEF Unprotect, unprotect_record
  <2>2. NoRekey \in PendingRekey
    BY DEF NoRekey, PendingRekey, Root
  <2>3. rcv' \in Protector /\ Closed(rcv')
    BY <1>1, <2>1, <2>2 DEF Fail, Protector, StreamState, Closed
  <2>4. StreamTypes'
    BY <1>1, <2>1, <2>3 DEF StreamTypes
  <2>5. ReceivedInv'
    BY <1>1, <2>1, <2>3 DEF ReceivedInv, After, AfterIn
  <2>6. QED
    BY <1>1, <2>4, <2>5 DEF StreamInv
<1>5. QED
  BY <1>3, <1>4

----------------------------------------------------------------------------
(* The invariant and what follows from it. *)

\* Every step keeps the invariant.
LEMMA StreamInvStep == StreamInv /\ [Next]_vars => StreamInv'
<1> SUFFICES ASSUME StreamInv, [Next]_vars PROVE StreamInv'
  OBVIOUS
<1>1. snd \in Protector
  BY DEF StreamInv, StreamTypes
<1>2. CASE EmitEvent
  <2>1. PICK b \in Bodies : Protect(PlainRecord(snd, "Exact", b))
    BY <1>2 DEF EmitEvent
  <2>2. QED
    BY <1>1, <2>1, SessionRecords, ProtectStep DEF Protect
<1>3. CASE EmitRepair
  <2>1. PICK b \in Bodies : Protect(PlainRecord(snd, "Repair", b))
    BY <1>3 DEF EmitRepair
  <2>2. QED
    BY <1>1, <2>1, SessionRecords, ProtectStep DEF Protect
<1>4. CASE EmitBatch
  <2>1. PICK b \in Bodies : Protect(BatchRecord(snd, b))
    BY <1>4 DEF EmitBatch
  <2>2. QED
    BY <1>1, <2>1, SessionRecords, ProtectStep
<1>5. CASE EmitRekey
  <2>1. PICK s \in Seeds : Protect(RekeyRecord(snd, s))
    BY <1>5 DEF EmitRekey
  <2>2. QED
    BY <1>1, <2>1, SessionRekeys, ProtectStep
<1>6. CASE EmitClose
  <2>1. PICK b \in Bodies : Protect(PlainRecord(snd, "Close", b))
    BY <1>6 DEF EmitClose
  <2>2. QED
    BY <1>1, <2>1, SessionRecords, ProtectStep DEF Protect
<1>7. CASE EmitControlPlane \/ EmitSource \/ EmitTrace
  BY <1>7, ControlPlaneStep, SourceStep, TraceStep
<1>8. CASE DeliverNext
  <2>1. Len(delivered) + 1 \in DOMAIN sent
    BY <1>8 DEF DeliverNext, StreamInv, StreamTypes
  <2>2. QED
    BY <1>8, <2>1, UnprotectStep DEF DeliverNext
<1>9. CASE DeliverAny
  BY <1>9, UnprotectStep DEF DeliverAny
<1>10. CASE DeliverRewritten
  BY <1>10, UnprotectStep DEF DeliverRewritten
<1>11. CASE UNCHANGED vars
  BY <1>11 DEF vars, StreamInv, StreamTypes, Released, ReceivedInv, EntryOK, After, AfterIn
<1>12. QED
  BY <1>2, <1>3, <1>4, <1>5, <1>6, <1>7, <1>8, <1>9, <1>10, <1>11 DEF Next, Emit

\* Two new sessions satisfy the invariant.
LEMMA StreamInvInit == Init => StreamInv
<1> SUFFICES ASSUME Init PROVE StreamInv
  OBVIOUS
<1>1. StreamTypes
  BY NewProtectorType DEF Init, StreamTypes
<1>2. Len(sent) = 0 /\ Len(delivered) = 0 /\ DOMAIN sent = {} /\ DOMAIN delivered = {}
  BY DEF Init
<1>3. Released(sent, snd)
  BY <1>2 DEF Released, Ahead, AfterIn, Init
<1>4. ReceivedInv
  BY <1>2 DEF ReceivedInv, After, AfterIn, Init
<1>5. QED
  BY <1>1, <1>3, <1>4 DEF StreamInv

\* The invariant holds in every reachable state of the stream.
THEOREM StreamInvariant == Spec => []StreamInv
BY StreamInvInit, StreamInvStep, PTL DEF Spec

\* An emit does not touch the carrier.
LEMMA EmitKeepsOrder == Emit => disordered' = disordered
  BY DEF Emit, EmitEvent, EmitRepair, EmitBatch, EmitRekey, EmitClose, EmitControlPlane, EmitSource,
         EmitTrace, Protect, ProtectBoth

\* Both protectors and the histories always have their types.
THEOREM TypeCorrect == Spec => []TypeOK
<1>1. StreamInv => StreamTypes
  BY DEF StreamInv
<1> DEFINE Histories == careless \in BOOLEAN /\ disordered \in BOOLEAN
<1>2. Init => Histories
  BY Zenon DEF Init
<1>3. ASSUME Histories, [Next]_vars PROVE Histories'
  <2>1. CASE Emit
    <3>1. disordered' \in BOOLEAN
      BY <1>3, <2>1, EmitKeepsOrder, Zenon
    <3>2. careless' \in BOOLEAN
      BY <2>1, Zenon DEF Emit, EmitEvent, EmitRepair, EmitBatch, EmitRekey, EmitClose,
                         EmitControlPlane, EmitSource, EmitTrace, Mark
    <3>3. QED
      BY <3>1, <3>2
  <2>2. CASE DeliverNext
    BY <1>3, <2>2, Zenon DEF DeliverNext, Unprotect
  <2>3. CASE DeliverAny \/ DeliverRewritten
    BY <1>3, <2>3, Zenon DEF DeliverAny, DeliverRewritten, Unprotect
  <2>4. CASE UNCHANGED vars
    BY <1>3, <2>4, Zenon DEF vars
  <2>5. QED
    BY <1>3, <2>1, <2>2, <2>3, <2>4 DEF Next
<1> HIDE DEF Histories
<1>4. StreamTypes /\ Histories => TypeOK
  BY Zenon DEF TypeOK, Histories
<1>5. QED
  BY <1>1, <1>2, <1>3, <1>4, StreamInvariant, PTL DEF Spec

\* Whatever the carrier does, unprotect_record accepts the released records in
\* order, each once and none skipped.
THEOREM PrefixDelivered == Spec => []PrefixDelivery
<1>1. StreamInv => PrefixDelivery
  BY DEF StreamInv, ReceivedInv, PrefixDelivery
<1>2. QED
  BY <1>1, StreamInvariant, PTL

\* protect_record never seals two released records under one key, also when
\* calls in between failed after moving the ratchet.
THEOREM KeysUsedOnce == Spec => []SingleUseKeys
<1>1. StreamInv => SingleUseKeys
  <2> SUFFICES ASSUME StreamInv, NEW i \in DOMAIN sent, NEW j \in DOMAIN sent,
                      sent[i].w.key = sent[j].w.key
               PROVE  i = j
    BY DEF SingleUseKeys
  <2>1. sent \in Seq(Entry) /\ Released(sent, snd)
    BY DEF StreamInv, StreamTypes
  <2>2. ASSUME NEW k \in DOMAIN sent
        PROVE  /\ Depth(sent[k].pre) \in Nat /\ Depth(sent[k].post) \in Nat
               /\ Depth(sent[k].pre) < Depth(sent[k].post)
               /\ sent[k].w.key.root = ActiveRoot(sent[k].pre)
    <3>1. EntryOK(sent[k]) /\ sent[k].pre \in Protector /\ sent[k].w.rec \in Record
      BY <2>1, EntryTypes DEF Released
    <3>2. Depth(sent[k].pre) \in Nat /\ Depth(sent[k].post) \in Nat
      BY <2>1, EntryTypes
    <3>3. QED
      BY <3>1, <3>2, FinishFacts DEF EntryOK, UnprotectAccepts, open_payload, RecordKey
  <2>3. Depth(sent[i].pre) = Depth(sent[j].pre)
    BY <2>2 DEF Depth
  <2>4. ASSUME NEW k \in DOMAIN sent, NEW m \in DOMAIN sent, k < m
        PROVE  Depth(sent[k].pre) < Depth(sent[m].pre)
    <3>1. Depth(sent[k].post) <= Depth(sent[m].pre)
      BY <2>1, <2>4 DEF Released
    <3>2. QED
      BY <2>2, <3>1
  <2>5. i \in Nat /\ j \in Nat
    BY <2>1
  <2>6. ~(i < j) /\ ~(j < i)
    BY <2>2, <2>3, <2>4
  <2>7. QED
    BY <2>5, <2>6
<1>2. QED
  BY <1>1, StreamInvariant, PTL

----------------------------------------------------------------------------
(* Epochs. *)

\* What finish_success makes the next header of.
LEMMA FinishExpects ==
  ASSUME NEW p \in Protector, NEW r \in Record, HeaderIsDue(p, r), ~FinishFails(p, r)
  PROVE  LET q == finish_success(p, r)
         IN IF r.type = "Rekey"
            THEN /\ post_rekey_confirm_required(q)
                 /\ expected_epoch_id(q) = r.epoch + 1
                 /\ expected_seq_no(q) = 0
            ELSE /\ ~post_rekey_confirm_required(q)
                 /\ expected_epoch_id(q) = r.epoch
                 /\ expected_seq_no(q) = r.seq + 1
<1> DEFINE a == Advance(p, r)
           q == finish_success(p, r)
<1>1. a \in Protector /\ a.pending = NoRekey
  BY AdvanceFacts
<1>2. a.epoch = r.epoch /\ a.seq = r.seq + 1
  BY DEF Advance, HeaderIsDue
<1>3. CASE r.type = "Rekey"
  <2>1. ~RekeyRefused(a, r)
    BY <1>3 DEF FinishFails
  <2>2. r.next = r.epoch + 1 /\ r.epoch \in Nat
    BY <1>2, <2>1 DEF RekeyRefused, Record
  <2> DEFINE x == [epoch |-> r.next, root |-> derive_rekey_root(a.root, a.epoch, r.body)]
  <2>3. q = [a EXCEPT !.pending = x, !.state = "RekeyPending"]
    BY <1>3, <2>1 DEF finish_success, install_rekey
  <2> HIDE DEF a, q
  <2>4. q.pending = x
    BY <1>1, <2>3 DEF Protector
  <2>5. x.epoch = r.epoch + 1 /\ x # NoRekey
    BY <2>2 DEF NoRekey
  <2> HIDE DEF x
  <2>6. QED
    BY <1>3, <2>4, <2>5 DEF post_rekey_confirm_required, expected_epoch_id, expected_seq_no, q
<1>4. CASE r.type # "Rekey"
  <2>1. q = a \/ q = [a EXCEPT !.state = "Closed"]
    BY <1>4 DEF finish_success
  <2> HIDE DEF a, q
  <2>2. q.pending = NoRekey /\ q.epoch = r.epoch /\ q.seq = r.seq + 1
    BY <1>1, <1>2, <2>1 DEF Protector
  <2>3. QED
    BY <1>4, <2>2 DEF post_rekey_confirm_required, expected_epoch_id, expected_seq_no, q
<1>5. QED
  BY <1>3, <1>4

\* The client sees epochs change at Rekey records only, each confirmed by the
\* very next record, and sequence numbers without a gap.
THEOREM EpochsNumbered == Spec => []EpochNumbering
<1>1. StreamInv => EpochNumbering
  <2> SUFFICES ASSUME StreamInv, NEW i \in DOMAIN delivered
               PROVE  IF i = 1
                      THEN delivered[1].epoch = 0 /\ delivered[1].seq = 0 /\ ~delivered[1].confirm
                      ELSE IF delivered[i - 1].type = "Rekey"
                           THEN /\ delivered[i].epoch = delivered[i - 1].epoch + 1
                                /\ delivered[i].seq = 0
                                /\ delivered[i].confirm
                           ELSE /\ delivered[i].epoch = delivered[i - 1].epoch
                                /\ delivered[i].seq = delivered[i - 1].seq + 1
                                /\ ~delivered[i].confirm
    BY DEF EpochNumbering
  <2>1. /\ sent \in Seq(Entry) /\ Released(sent, snd) /\ ReceivedInv /\ delivered \in Seq(Record)
        /\ Len(delivered) <= Len(sent) /\ i \in 1 .. Len(delivered)
    BY DEF StreamInv, StreamTypes, ReceivedInv
  <2>2. ASSUME NEW k \in DOMAIN delivered
        PROVE  /\ k \in DOMAIN sent
               /\ delivered[k] = sent[k].w.rec
               /\ sent[k].pre = After(k - 1)
               /\ EntryOK(sent[k]) /\ sent[k].pre \in Protector
               /\ HeaderIsDue(sent[k].pre, delivered[k]) /\ ~FinishFails(sent[k].pre, delivered[k])
    <3>1. k \in DOMAIN sent
      BY <2>1
    <3>2. QED
      BY <2>1, <3>1, EntryTypes DEF ReceivedInv, Released, EntryOK, UnprotectAccepts
  <2>3. CASE i = 1
    <3>1. sent[i].pre = NewProtector
      BY <2>2, <2>3 DEF After, AfterIn
    <3>2. QED
      BY <2>2, <2>3, <3>1 DEF HeaderIsDue, NewProtector, expected_epoch_id, expected_seq_no,
                              post_rekey_confirm_required
  <2>4. CASE i # 1
    <3>1. i - 1 \in DOMAIN delivered /\ i - 1 # 0
      BY <2>1, <2>4
    <3>2. sent[i].pre = finish_success(sent[i - 1].pre, delivered[i - 1])
      BY <2>2, <3>1 DEF After, AfterIn, EntryOK
    <3>3. delivered[i - 1] \in Record
      BY <2>1, <3>1
    <3>4. IF delivered[i - 1].type = "Rekey"
          THEN /\ post_rekey_confirm_required(sent[i].pre)
               /\ expected_epoch_id(sent[i].pre) = delivered[i - 1].epoch + 1
               /\ expected_seq_no(sent[i].pre) = 0
          ELSE /\ ~post_rekey_confirm_required(sent[i].pre)
               /\ expected_epoch_id(sent[i].pre) = delivered[i - 1].epoch
               /\ expected_seq_no(sent[i].pre) = delivered[i - 1].seq + 1
      BY <2>2, <3>1, <3>2, <3>3, FinishExpects
    <3>5. HeaderIsDue(sent[i].pre, delivered[i])
      BY <2>2
    <3>6. QED
      BY <2>4, <3>4, <3>5 DEF HeaderIsDue
  <2>5. QED
    BY <2>3, <2>4
<1>2. QED
  BY <1>1, StreamInvariant, PTL

----------------------------------------------------------------------------
(* Refinement. *)

\* The released records, as the abstract stream sees them.
Out == [i \in DOMAIN sent |-> sent[i].w.rec]

\* A sender step releases records at the end of the abstract stream, or none.
LEMMA EmitRefines ==
  ASSUME StreamInv, StreamInv', UNCHANGED delivered,
         Len(sent') >= Len(sent), \A i \in DOMAIN sent : sent'[i] = sent[i]
  PROVE  Abstract!Send
<1>1. sent \in Seq(Entry) /\ sent' \in Seq(Entry)
  BY DEF StreamInv, StreamTypes
<1>2. \A i \in DOMAIN sent : sent[i].w.rec \in Record
  BY <1>1, EntryTypes
<1>3. \A i \in DOMAIN sent' : sent'[i].w.rec \in Record
  BY <1>1, EntryTypes
<1>4. Out \in Seq(Record) /\ Len(Out) = Len(sent) /\ DOMAIN Out = DOMAIN sent
  BY <1>1, <1>2 DEF Out
<1>5. Out' \in Seq(Record) /\ Len(Out') = Len(sent') /\ DOMAIN Out' = DOMAIN sent'
  BY <1>1, <1>3 DEF Out
<1>6. \A i \in DOMAIN sent : i \in DOMAIN sent' /\ Out'[i] = Out[i]
  BY <1>1 DEF Out
<1>7. QED
  BY <1>4, <1>5, <1>6 DEF Abstract!Send, Out

\* An emitting step only adds to what was released.
LEMMA EmitAppends ==
  ASSUME sent \in Seq(Entry), sent' \in Seq(Entry), Emit
  PROVE  /\ UNCHANGED <<rcv, delivered>>
         /\ Len(sent') >= Len(sent)
         /\ \A i \in DOMAIN sent : sent'[i] = sent[i]
<1>1. ASSUME NEW r, Protect(r)
      PROVE  UNCHANGED <<rcv, delivered>> /\ \E e : sent' \in {sent, Append(sent, e)}
  BY <1>1 DEF Protect
<1>2. ASSUME NEW r1, NEW r2, NEW valid, ProtectBoth(r1, r2, valid)
      PROVE  UNCHANGED <<rcv, delivered>> /\ \E e, f : sent' \in {sent, Append(Append(sent, e), f)}
  BY <1>2 DEF ProtectBoth
<1>3. ASSUME NEW e, NEW f, sent' \in {sent, Append(sent, e), Append(Append(sent, e), f)}
      PROVE  Len(sent') >= Len(sent) /\ \A i \in DOMAIN sent : sent'[i] = sent[i]
  <2>1. CASE sent' = sent
    BY <2>1
  <2>2. CASE sent' = Append(sent, e)
    BY <2>2
  <2>3. CASE sent' = Append(Append(sent, e), f)
    <3> DEFINE m == Append(sent, e)
    <3>1. m \in Seq(Entry \cup {e}) /\ Len(m) = Len(sent) + 1 /\ \A i \in DOMAIN sent : m[i] = sent[i] /\ i \in DOMAIN m
      OBVIOUS
    <3> HIDE DEF m
    <3>2. Len(Append(m, f)) = Len(m) + 1 /\ \A i \in DOMAIN m : Append(m, f)[i] = m[i]
      BY <3>1
    <3>3. QED
      BY <2>3, <3>1, <3>2 DEF m
  <2>4. QED
    BY <1>3, <2>1, <2>2, <2>3
<1>4. CASE EmitEvent \/ EmitRepair \/ EmitBatch \/ EmitRekey \/ EmitClose
  <2>1. \E r : Protect(r)
    BY <1>4 DEF EmitEvent, EmitRepair, EmitBatch, EmitRekey, EmitClose
  <2>2. QED
    BY <1>1, <1>3, <2>1
<1>5. CASE EmitControlPlane \/ EmitSource \/ EmitTrace
  <2>1. \E r1, r2, valid : ProtectBoth(r1, r2, valid)
    BY <1>5 DEF EmitControlPlane, EmitSource, EmitTrace
  <2>2. QED
    BY <1>2, <1>3, <2>1
<1>6. QED
  BY <1>4, <1>5 DEF Emit

\* A client step accepts the next record of the abstract stream, or none.
LEMMA UnprotectRefines ==
  ASSUME StreamInv, StreamInv', NEW w, Unprotect(w)
  PROVE  Abstract!Receive \/ UNCHANGED <<Out, delivered>>
<1>1. /\ sent \in Seq(Entry) /\ delivered \in Seq(Record) /\ delivered' \in Seq(Record)
      /\ sent' = sent
      /\ delivered' = delivered \/ delivered' = Append(delivered, w.rec)
  BY DEF StreamInv, StreamTypes, Unprotect
<1>2. Out' = Out /\ DOMAIN Out = DOMAIN sent /\ Len(Out) = Len(sent)
  BY <1>1 DEF Out
<1>3. CASE delivered' = Append(delivered, w.rec)
  <2>1. Len(delivered') = Len(delivered) + 1 /\ delivered'[Len(delivered) + 1] = w.rec
    BY <1>1, <1>3
  <2>2. Len(delivered') <= Len(sent) /\ delivered'[Len(delivered) + 1] = sent[Len(delivered) + 1].w.rec
    BY <1>1, <2>1 DEF StreamInv, ReceivedInv
  <2>3. Len(delivered) < Len(Out) /\ Len(delivered) + 1 \in DOMAIN sent
    BY <1>1, <1>2, <2>1, <2>2
  <2>4. Out[Len(delivered) + 1] = w.rec
    BY <2>1, <2>2, <2>3 DEF Out
  <2>5. QED
    BY <1>2, <1>3, <2>3, <2>4 DEF Abstract!Receive, Out
<1>4. CASE delivered' = delivered
  BY <1>2, <1>4
<1>5. QED
  BY <1>1, <1>3, <1>4

\* The protected stream implements the ordered stream, over every carrier.
THEOREM Refinement == Spec => ImplementsOrderedDelivery
<1>1. Init => Abstract!Init
  <2> SUFFICES ASSUME Init PROVE Out = << >> /\ delivered = << >>
    BY DEF Abstract!Init, Out
  <2>1. DOMAIN sent = {}
    BY DEF Init
  <2>2. QED
    BY <2>1 DEF Init, Out
<1>2. StreamInv /\ StreamInv' /\ [Next]_vars => [Abstract!Next]_<<Out, delivered>>
  <2> SUFFICES ASSUME StreamInv, StreamInv', [Next]_vars
               PROVE  Abstract!Next \/ UNCHANGED <<Out, delivered>>
    OBVIOUS
  <2>1. CASE Emit
    <3>1. sent \in Seq(Entry) /\ sent' \in Seq(Entry)
      BY DEF StreamInv, StreamTypes
    <3>2. Abstract!Send
      BY <2>1, <3>1, EmitAppends, EmitRefines
    <3>3. QED
      BY <3>2 DEF Abstract!Next
  <2>2. CASE DeliverNext \/ DeliverAny \/ DeliverRewritten
    <3>1. \E w : Unprotect(w)
      BY <2>2 DEF DeliverNext, DeliverAny, DeliverRewritten
    <3>2. QED
      BY <3>1, UnprotectRefines DEF Abstract!Next
  <2>3. CASE UNCHANGED vars
    BY <2>3 DEF vars, Out
  <2>4. QED
    BY <2>1, <2>2, <2>3 DEF Next
<1>3. QED
  BY <1>1, <1>2, StreamInvariant, PTL DEF Spec, ImplementsOrderedDelivery, Abstract!Spec, Out

----------------------------------------------------------------------------
(* The ordered carrier with a careful server. *)

\* No call of a careful server fails after moving the ratchet, so its records
\* follow one another without a gap.
NoGap(s, p) ==
  /\ \A i \in DOMAIN s : s[i].pre = AfterIn(s, i - 1)
  /\ p = AfterIn(s, Len(s))

CarefulInv == ~careless => NoGap(sent, snd)

\* Releasing one record keeps the records gapless.
LEMMA NoGapOne ==
  ASSUME NEW s \in Seq(Entry), NEW p, NEW e \in Entry, NoGap(s, p), e.pre = p
  PROVE  NoGap(Append(s, e), e.post)
<1> DEFINE t == Append(s, e)
<1>1. /\ t \in Seq(Entry)
      /\ Len(t) = Len(s) + 1
      /\ t[Len(t)] = e
      /\ \A i \in DOMAIN s : t[i] = s[i]
      /\ \A i \in DOMAIN t : i \in DOMAIN s \/ i = Len(t)
      /\ Len(s) \in Nat /\ DOMAIN s = 1 .. Len(s) /\ DOMAIN t = 1 .. Len(t)
  OBVIOUS
<1> HIDE DEF t
<1>2. \A n \in 0 .. Len(s) : AfterIn(t, n) = AfterIn(s, n)
  BY <1>1 DEF AfterIn
<1>3. AfterIn(t, Len(t)) = e.post
  BY <1>1 DEF AfterIn
<1>4. ASSUME NEW i \in DOMAIN t PROVE t[i].pre = AfterIn(t, i - 1)
  <2>1. CASE i \in DOMAIN s
    BY <2>1, <1>1, <1>2 DEF NoGap
  <2>2. CASE i = Len(t)
    <3>1. AfterIn(t, i - 1) = AfterIn(s, Len(s))
      BY <2>2, <1>1, <1>2
    <3>2. QED
      BY <2>2, <3>1, <1>1 DEF NoGap
  <2>3. QED
    BY <2>1, <2>2, <1>1
<1>5. NoGap(t, e.post)
  BY <1>3, <1>4 DEF NoGap
<1>6. QED
  BY <1>5 DEF t

\* A rekey asked for when none is pending is not refused.
LEMMA CarefulRekey ==
  ASSUME NEW p \in Protector, NEW s \in Seeds, ~post_rekey_confirm_required(p)
  PROVE  ~ProtectFails(p, RekeyRecord(p, s))
<1> DEFINE r == RekeyRecord(p, s)
           q == prepare_record_for_epoch(p, r)
<1>1. r \in Record
  BY SessionRekeys
<1>2. /\ r.epoch = expected_epoch_id(p) /\ r.seq = expected_seq_no(p)
      /\ r.confirm = post_rekey_confirm_required(p) /\ r.next = p.epoch + 1
  BY DEF RekeyRecord, PlainRecord, make_rekey_payload
<1>3. ~PrepareRefuses(p, r)
  BY <1>2 DEF PrepareRefuses
<1>4. q.next = p.epoch + 1
  BY <1>1, <1>2 DEF prepare_record_for_epoch, Record
<1>5. Advance(p, q).epoch = p.epoch
  BY DEF Advance, expected_epoch_id
<1>6. ~FinishFails(p, q)
  BY <1>4, <1>5 DEF FinishFails, RekeyRefused
<1>7. QED
  BY <1>3, <1>6 DEF ProtectFails

\* One call of a careful server keeps the records gapless.
LEMMA CarefulProtect ==
  ASSUME StreamInv, NoGap(sent, snd), NEW r \in Record, Protect(r), ~ProtectFails(snd, r),
         validate(prepare_record_for_epoch(snd, r))
  PROVE  NoGap(sent', snd')
<1>1. snd \in Protector /\ sent \in Seq(Entry)
  BY DEF StreamInv, StreamTypes
<1> DEFINE e == EntryOf(snd, r)
<1>2. e \in Entry /\ e.pre = snd /\ e.post = snd' /\ sent' = Append(sent, e)
  BY <1>1, EntryFacts DEF Protect
<1> HIDE DEF e
<1>3. QED
  BY <1>1, <1>2, NoGapOne

\* A handler of a careful server releases both its records.
LEMMA CarefulPair ==
  ASSUME StreamInv, NoGap(sent, snd), NEW r1 \in Record, NEW r2 \in Record,
         ProtectBoth(r1, r2, TRUE), ~ProtectFails(snd, r1), ~ProtectFails(ProtectState(snd, r1), r2),
         validate(prepare_record_for_epoch(snd, r1)),
         validate(prepare_record_for_epoch(ProtectState(snd, r1), r2))
  PROVE  NoGap(sent', snd')
<1>1. snd \in Protector /\ sent \in Seq(Entry)
  BY DEF StreamInv, StreamTypes
<1> DEFINE mid == ProtectState(snd, r1)
           e1 == EntryOf(snd, r1)
           e2 == EntryOf(mid, r2)
<1>2. sent' = Append(Append(sent, e1), e2) /\ snd' = ProtectState(mid, r2)
  BY DEF ProtectBoth
<1>3. mid \in Protector
  BY <1>1, ProtectStateFacts
<1>4. e1 \in Entry /\ e1.pre = snd /\ e1.post = mid
  BY <1>1, EntryFacts
<1>5. e2 \in Entry /\ e2.pre = mid /\ e2.post = snd'
  BY <1>2, <1>3, EntryFacts
<1> HIDE DEF mid, e1, e2
<1>6. NoGap(Append(sent, e1), mid) /\ Append(sent, e1) \in Seq(Entry)
  BY <1>1, <1>4, NoGapOne
<1>7. QED
  BY <1>2, <1>5, <1>6, NoGapOne

\* Draining two control-plane records with no rekey pending releases both.
LEMMA CarefulDrain ==
  ASSUME StreamInv, NoGap(sent, snd), EmitControlPlane, ~post_rekey_confirm_required(snd)
  PROVE  NoGap(sent', snd')
<1>1. snd \in Protector
  BY DEF StreamInv, StreamTypes
<1>2. PICK b1 \in Bodies, b2 \in Bodies :
        ProtectBoth(PlainRecord(snd, "Exact", b1), SecondControlRecord(snd, b2), TRUE)
  BY DEF EmitControlPlane
<1> DEFINE r1 == PlainRecord(snd, "Exact", b1)
           r2 == SecondControlRecord(snd, b2)
           q1 == prepare_record_for_epoch(snd, r1)
           mid == ProtectState(snd, r1)
<1>3. /\ r1 \in Record /\ r2 \in Record
      /\ r1.type = "Exact" /\ r1.confirm = post_rekey_confirm_required(snd)
      /\ r1.epoch = expected_epoch_id(snd) /\ r1.seq = expected_seq_no(snd)
  BY <1>1, SessionRecords DEF PlainRecord
<1>4. /\ r2.type = "Exact" /\ r2.confirm = post_rekey_confirm_required(snd)
      /\ r2.epoch = expected_epoch_id(snd) /\ r2.seq = expected_seq_no(snd) + 1
  BY DEF SecondControlRecord, PlainRecord
<1>5. /\ q1 \in Record /\ q1.type = "Exact" /\ q1.epoch = r1.epoch /\ q1.seq = r1.seq
      /\ q1.confirm = post_rekey_confirm_required(snd)
  BY <1>1, <1>3, PrepareType DEF prepare_record_for_epoch, Record
<1> HIDE DEF r1, r2, q1
<1>6. ~PrepareRefuses(snd, r1) /\ ~FinishFails(snd, q1) /\ HeaderIsDue(snd, q1)
  BY <1>3, <1>5 DEF PrepareRefuses, FinishFails, HeaderIsDue
<1>7. ~ProtectFails(snd, r1) /\ mid = finish_success(snd, q1)
  BY <1>6 DEF ProtectFails, ProtectState, q1
<1>8. /\ ~post_rekey_confirm_required(mid)
      /\ expected_epoch_id(mid) = q1.epoch
      /\ expected_seq_no(mid) = q1.seq + 1
  BY <1>1, <1>5, <1>6, <1>7, FinishExpects
<1> HIDE DEF mid
<1>9. ~ProtectFails(mid, r2)
  <2>1. ~PrepareRefuses(mid, r2)
    BY <1>3, <1>4, <1>5, <1>8 DEF PrepareRefuses
  <2>2. ~FinishFails(mid, prepare_record_for_epoch(mid, r2))
    BY <1>3, <1>4 DEF FinishFails, prepare_record_for_epoch, Record
  <2>3. QED
    BY <2>1, <2>2 DEF ProtectFails
<1>10. validate(prepare_record_for_epoch(snd, r1)) /\ validate(prepare_record_for_epoch(mid, r2))
  BY <1>3, <1>4, ExactIsValid
<1>11. QED
  BY <1>2, <1>3, <1>7, <1>9, <1>10, CarefulPair DEF r1, r2, mid

\* The data of a source, or the second event of a valid trace, is never refused.
LEMMA CarefulSecond ==
  ASSUME StreamInv, NoGap(sent, snd), NEW t \in PlainType, NEW b1 \in Bodies, NEW b2 \in Bodies,
         ProtectBoth(PlainRecord(snd, t, b1),
                     PlainRecord(ProtectState(snd, PlainRecord(snd, t, b1)), "Exact", b2), TRUE)
  PROVE  NoGap(sent', snd')
<1>1. snd \in Protector
  BY DEF StreamInv, StreamTypes
<1> DEFINE r1 == PlainRecord(snd, t, b1)
           mid == ProtectState(snd, r1)
           r2 == PlainRecord(mid, "Exact", b2)
<1>2. r1 \in Record /\ ~ProtectFails(snd, r1) /\ mid \in Protector
  BY <1>1, SessionRecords, PlainAccepted, MidType
<1>3. validate(r1)
  BY DEF ProtectBoth
<1>4. validate(prepare_record_for_epoch(snd, r1))
  BY <1>1, <1>3, SessionRecords
<1> HIDE DEF mid
<1>5. r2 \in Record /\ r2.type = "Exact" /\ ~ProtectFails(mid, r2)
  BY <1>2, SessionRecords, PlainAccepted DEF PlainRecord
<1> HIDE DEF r1, r2
<1>6. validate(prepare_record_for_epoch(mid, r2))
  BY <1>5, ExactIsValid
<1>7. QED
  BY <1>2, <1>4, <1>5, <1>6, CarefulPair DEF r1, mid, r2

\* A careless server stays marked.
LEMMA CarelessStays == [Next]_vars /\ careless => careless'
<1> SUFFICES ASSUME [Next]_vars, careless PROVE careless'
  OBVIOUS
<1>1. CASE Emit
  BY <1>1 DEF Emit, EmitEvent, EmitRepair, EmitBatch, EmitRekey, EmitClose, EmitControlPlane,
              EmitSource, EmitTrace, Mark
<1>2. CASE DeliverNext \/ DeliverAny \/ DeliverRewritten
  BY <1>2 DEF DeliverNext, DeliverAny, DeliverRewritten, Unprotect
<1>3. CASE UNCHANGED vars
  BY <1>3 DEF vars
<1>4. QED
  BY <1>1, <1>2, <1>3 DEF Next

\* Every step of a careful server keeps the records gapless.
LEMMA CarefulStep == StreamInv /\ CarefulInv /\ [Next]_vars => CarefulInv'
<1> SUFFICES ASSUME StreamInv, CarefulInv, ~careless', [Next]_vars PROVE NoGap(sent', snd')
  BY DEF CarefulInv
<1>0. NoGap(sent, snd)
  BY CarelessStays DEF CarefulInv
<1>1. snd \in Protector
  BY DEF StreamInv, StreamTypes
<1>2. CASE EmitEvent
  <2>1. PICK b \in Bodies : Protect(PlainRecord(snd, "Exact", b))
    BY <1>2 DEF EmitEvent
  <2>2. ~ProtectFails(snd, PlainRecord(snd, "Exact", b))
    BY <1>1 DEF ProtectFails, PrepareRefuses, FinishFails, prepare_record_for_epoch, PlainRecord
  <2>3. QED
    BY <1>1, <2>1, <2>2, SessionRecords, <1>0, CarefulProtect DEF Protect
<1>3. CASE EmitRepair
  <2>1. PICK b \in Bodies : Protect(PlainRecord(snd, "Repair", b))
    BY <1>3 DEF EmitRepair
  <2>2. ~ProtectFails(snd, PlainRecord(snd, "Repair", b))
    BY <1>1 DEF ProtectFails, PrepareRefuses, FinishFails, prepare_record_for_epoch, PlainRecord
  <2>3. QED
    BY <1>1, <2>1, <2>2, SessionRecords, <1>0, CarefulProtect DEF Protect
<1>4. CASE EmitBatch
  <2>1. PICK b \in Bodies : Protect(BatchRecord(snd, b))
    BY <1>4 DEF EmitBatch
  <2>2. ~ProtectFails(snd, BatchRecord(snd, b))
    BY <1>1 DEF ProtectFails, PrepareRefuses, FinishFails, prepare_record_for_epoch, BatchRecord,
                PlainRecord
  <2>3. QED
    BY <1>1, <2>1, <2>2, SessionRecords, <1>0, CarefulProtect
<1>5. CASE EmitRekey
  <2>1. PICK s \in Seeds : Protect(RekeyRecord(snd, s))
    BY <1>5 DEF EmitRekey
  <2>2. ~ProtectFails(snd, RekeyRecord(snd, s))
    BY <1>1, <1>5, CarefulRekey DEF EmitRekey, Mark
  <2>3. QED
    BY <1>1, <2>1, <2>2, SessionRekeys, <1>0, CarefulProtect
<1>6. CASE EmitClose
  <2>1. PICK b \in Bodies : Protect(PlainRecord(snd, "Close", b))
    BY <1>6 DEF EmitClose
  <2>2. ~ProtectFails(snd, PlainRecord(snd, "Close", b))
    BY <1>1 DEF ProtectFails, PrepareRefuses, FinishFails, prepare_record_for_epoch, PlainRecord
  <2>3. QED
    BY <1>1, <2>1, <2>2, SessionRecords, <1>0, CarefulProtect DEF Protect
<1>7. CASE EmitControlPlane
  <2>1. ~post_rekey_confirm_required(snd)
    BY <1>7 DEF EmitControlPlane, Mark
  <2>2. QED
    BY <1>0, <1>7, <2>1, CarefulDrain
<1>8. CASE EmitSource
  BY <1>0, <1>8, CarefulSecond DEF EmitSource
<1>9. CASE EmitTrace
  <2>1. PICK b1 \in Bodies, b2 \in Bodies, valid \in BOOLEAN :
          /\ valid
          /\ ProtectBoth(PlainRecord(snd, "Exact", b1),
                         PlainRecord(ProtectState(snd, PlainRecord(snd, "Exact", b1)), "Exact", b2), valid)
    BY <1>9 DEF EmitTrace, Mark
  <2>2. valid = TRUE
    BY <2>1
  <2>3. QED
    BY <1>0, <2>1, <2>2, CarefulSecond
<1>10. CASE DeliverNext \/ DeliverAny \/ DeliverRewritten
  BY <1>0, <1>10 DEF DeliverNext, DeliverAny, DeliverRewritten, Unprotect
<1>11. CASE UNCHANGED vars
  BY <1>0, <1>11 DEF vars
<1>12. QED
  BY <1>2, <1>3, <1>4, <1>5, <1>6, <1>7, <1>8, <1>9, <1>10, <1>11 DEF Next, Emit

\* A stream that was open is closed by a Close record only.
LEMMA FinishCloses ==
  ASSUME NEW p \in Protector, NEW r \in Record, ~Closed(p), Closed(finish_success(p, r))
  PROVE  r.type = "Close"
<1>1. Advance(p, r) \in Protector /\ Advance(p, r).state = "Established"
  BY AdvanceFacts DEF Advance
<1>2. CASE r.type = "Rekey"
  <2>1. install_rekey(Advance(p, r), r).state # "Closed"
    BY <1>1 DEF install_rekey, Protector
  <2>2. QED
    BY <1>2, <2>1 DEF finish_success, Closed
<1>3. CASE r.type # "Rekey" /\ r.type # "Close"
  BY <1>1, <1>3 DEF finish_success, Closed
<1>4. QED
  BY <1>2, <1>3

\* On the ordered carrier the client of a careful server refuses nothing.
LEMMA AcceptStep ==
  StreamInv /\ StreamInv' /\ CarefulInv /\ NoFalseReject /\ [Next]_vars
    => NoFalseReject'
<1> SUFFICES ASSUME StreamInv, StreamInv', CarefulInv, NoFalseReject, [Next]_vars, ~careless',
                    ~disordered', Closed(rcv')
             PROVE  delivered' # << >> /\ delivered'[Len(delivered')].type = "Close"
  BY DEF NoFalseReject
<1>0. ~careless
  BY CarelessStays
<1>1. sent \in Seq(Entry) /\ sent' \in Seq(Entry) /\ delivered \in Seq(Record) /\ rcv \in Protector
  BY DEF StreamInv, StreamTypes
<1>2. CASE Emit
  BY <1>0, <1>1, <1>2, EmitAppends, EmitKeepsOrder DEF NoFalseReject
<1>3. CASE DeliverNext
  <2> DEFINE n == Len(delivered) + 1
             w == sent[n].w
  <2>1. n \in DOMAIN sent /\ n - 1 = Len(delivered) /\ Unprotect(w) /\ ~Closed(rcv)
    BY <1>1, <1>3 DEF DeliverNext, Unprotect
  <2>2. sent[n].pre = rcv
    <3>1. sent[n].pre = AfterIn(sent, n - 1)
      BY <1>0, <2>1 DEF CarefulInv, NoGap
    <3>2. rcv = AfterIn(sent, Len(delivered))
      BY <2>1 DEF StreamInv, ReceivedInv, After
    <3>3. QED
      BY <2>1, <3>1, <3>2
  <2>3. UnprotectAccepts(rcv, w) /\ w.rec \in Record
    BY <1>1, <2>1, <2>2, EntryTypes DEF StreamInv, Released, EntryOK
  <2>4. rcv' = finish_success(rcv, w.rec) /\ delivered' = Append(delivered, w.rec)
    BY <2>1, <2>3 DEF Unprotect, unprotect_record
  <2>5. delivered' # << >> /\ delivered'[Len(delivered')] = w.rec
    BY <1>1, <2>3, <2>4
  <2>6. Closed(rcv') => w.rec.type = "Close"
    BY <1>1, <2>1, <2>3, <2>4, FinishCloses
  <2>7. QED
    BY <2>5, <2>6
<1>4. CASE DeliverAny \/ DeliverRewritten
  BY <1>4 DEF DeliverAny, DeliverRewritten
<1>5. CASE UNCHANGED vars
  BY <1>0, <1>5 DEF vars, NoFalseReject
<1>6. QED
  BY <1>2, <1>3, <1>4, <1>5 DEF Next

\* As long as the carrier is ordered and the server confirms each rekey before the
\* next, unprotect_record never refuses a record the server released: the
\* client's stream closes by a Close record only.
THEOREM NothingRefused == Spec => []NoFalseReject
<1>1. Init => CarefulInv /\ NoFalseReject
  <2> SUFFICES ASSUME Init PROVE NoGap(sent, snd) /\ ~Closed(rcv)
    BY DEF CarefulInv, NoFalseReject
  <2>1. DOMAIN sent = {} /\ Len(sent) = 0
    BY DEF Init
  <2>2. QED
    BY <2>1 DEF Init, NoGap, AfterIn, Closed, NewProtector
<1>2. StreamInv /\ StreamInv' /\ CarefulInv /\ NoFalseReject /\ [Next]_vars
        => CarefulInv' /\ NoFalseReject'
  BY CarefulStep, AcceptStep
<1>3. QED
  BY <1>1, <1>2, StreamInvariant, PTL DEF Spec

----------------------------------------------------------------------------
(* Packets and buffers. *)

\* The messages whose packets were sent to one end.
Mail(packets, to) == {p.message : p \in {q \in packets : q.to = to}}

\* The message that mixed chunks decode to.
Garbled(m) == IF "key" \in DOMAIN m THEN [m EXCEPT !.key = NobodysKey]
              ELSE [m EXCEPT !.ciphertext = [to |-> NobodysKey, secret |-> << >>]]

\* A buffer holds some chunks of messages of one size, not as many as make a message.
IsBuffer(b) == b = [popped |-> b.popped, count |-> b.count, chunks |-> b.chunks]

Holds(b, mail) ==
  /\ IsBuffer(b)
  /\ b.count = 0 => b.chunks = << >>
  /\ b.count # 0 =>
       /\ b.count \in Nat
       /\ DOMAIN b.chunks \subseteq 1 .. b.count
       /\ Cardinality(DOMAIN b.chunks) # b.count
       /\ \A i \in DOMAIN b.chunks : b.chunks[i] \in mail /\ ChunkCount[b.chunks[i].kind] = b.count

\* What a frame is, when the packet completes it: the packet's message, or mixed.
Comes(frame, packet, mail) ==
  \/ frame = packet.message
  \/ \E m \in mail : frame = Garbled(m) /\ ChunkCount[m.kind] # 1

\* The messages by their fields.
IsMessage(m) ==
  \/ /\ m.kind \in {"ClientHello", "SimpleClientHello"}
     /\ m = [kind |-> m.kind, stream |-> m.stream, nonce |-> m.nonce, key |-> m.key,
             credential |-> m.credential]
  \/ /\ m.kind = "ServerHello"
     /\ m = [kind |-> m.kind, stream |-> m.stream, nonce |-> m.nonce, key |-> m.key,
             ciphertext |-> m.ciphertext, identity |-> m.identity]
  \/ /\ m.kind = "ClientFinish"
     /\ m = [kind |-> m.kind, stream |-> m.stream, ciphertext |-> m.ciphertext, signature |-> m.signature]
  \/ /\ m.kind = "ServerFinish"
     /\ m = [kind |-> m.kind, stream |-> m.stream, signature |-> m.signature]
  \/ /\ m.kind = "SimpleServerHello"
     /\ m = [kind |-> m.kind, stream |-> m.stream, nonce |-> m.nonce, ciphertext |-> m.ciphertext]

IsPacket(p) ==
  /\ p.to \in {"client", "server"}
  /\ IsMessage(p.message)
  /\ p.index \in 1 .. ChunkCount[p.message.kind]

\* The kinds of messages.
LEMMA MessageHasKind ==
  ASSUME NEW m, IsMessage(m)
  PROVE  m.kind \in MessageKinds /\ ChunkCount[m.kind] \in Nat \ {0}
<1>1. m.kind \in MessageKinds
  BY DEF IsMessage, MessageKinds
<1>2. QED
  BY <1>1, BootstrapAssumption

\* Mixing leaves the kind and, of a finish, the signature.
LEMMA GarbledKind ==
  ASSUME NEW m, IsMessage(m)
  PROVE  /\ Garbled(m).kind = m.kind
         /\ m.kind \in {"ClientHello", "SimpleClientHello"} => Garbled(m).key = NobodysKey
         /\ m.kind = "ClientFinish" =>
              /\ Garbled(m).ciphertext = [to |-> NobodysKey, secret |-> << >>]
              /\ Garbled(m).signature = m.signature
         /\ m.kind = "ServerFinish" => Garbled(m) = m
         /\ IsMessage(Garbled(m))
<1>1. CASE m.kind \in {"ClientHello", "SimpleClientHello"}
  BY <1>1 DEF IsMessage, Garbled
<1>2. CASE m.kind = "ServerHello"
  BY <1>2 DEF IsMessage, Garbled
<1>3. CASE m.kind = "ClientFinish"
  BY <1>3 DEF IsMessage, Garbled
<1>4. CASE m.kind = "ServerFinish"
  BY <1>4 DEF IsMessage, Garbled
<1>5. CASE m.kind = "SimpleServerHello"
  BY <1>5 DEF IsMessage, Garbled
<1>6. QED
  BY <1>1, <1>2, <1>3, <1>4, <1>5 DEF IsMessage

\* The mail of more packets.
LEMMA MailAdds ==
  ASSUME NEW packets, NEW to, NEW address, NEW m, IsMessage(m), NEW end
  PROVE  LET more == packets \cup PacketsOf(to, address, m)
         IN  /\ Mail(packets, end) \subseteq Mail(more, end)
             /\ m \in Mail(more, to)
             /\ \A x \in Mail(more, end) : x \in Mail(packets, end) \/ (x = m /\ end = to)
<1> DEFINE more == packets \cup PacketsOf(to, address, m)
           one == [to |-> to, address |-> address, message |-> m, index |-> 1]
<1>1. 1 \in 1 .. ChunkCount[m.kind]
  BY MessageHasKind
<1>2. one \in PacketsOf(to, address, m) /\ one.to = to /\ one.message = m
  BY <1>1 DEF PacketsOf
<1>3. \A p \in PacketsOf(to, address, m) : p.to = to /\ p.message = m
  BY DEF PacketsOf
<1>4. QED
  BY <1>2, <1>3 DEF Mail

\* The packets of a message.
LEMMA PacketsAre ==
  ASSUME NEW to \in {"client", "server"}, NEW address, NEW m, IsMessage(m)
  PROVE  \A p \in PacketsOf(to, address, m) :
           IsPacket(p) /\ p.to = to /\ p.address = address /\ p.message = m
BY DEF PacketsOf, IsPacket

\* A buffer keeps what it holds when there is more mail.
LEMMA HoldsMore ==
  ASSUME NEW b, NEW mail, Holds(b, mail), NEW more, mail \subseteq more
  PROVE  Holds(b, more)
BY DEF Holds

\* The buffer of a new attempt.
LEMMA HoldsNothing == \A mail : Holds(EmptyBuffer, mail)
BY DEF Holds, EmptyBuffer, IsBuffer

\* All numbers up to n, if they are n.
LEMMA FullRange ==
  ASSUME NEW n \in Nat, NEW S, S \subseteq 1 .. n, Cardinality(S) = n
  PROVE  S = 1 .. n
<1>1. IsFiniteSet(1 .. n) /\ Cardinality(1 .. n) = n
  BY FS_Interval
<1>2. QED
  BY <1>1, FS_Subset

\* Chunks that make a whole give a message that was sent or a mixed one.
LEMMA WholeFrame ==
  ASSUME NEW mail, NEW n \in Nat \ {0}, NEW chunks, DOMAIN chunks = 1 .. n,
         \A i \in 1 .. n : chunks[i] \in mail /\ IsMessage(chunks[i]) /\ ChunkCount[chunks[i].kind] = n,
         Frame(chunks).ok, NEW packet, NEW k \in 1 .. n, chunks[k] = packet.message
  PROVE  Comes(Frame(chunks).value, packet, mail)
<1>1. CASE \A i \in DOMAIN chunks : chunks[i] = chunks[1]
  <2>1. Frame(chunks) = Done(chunks[1])
    BY <1>1 DEF Frame
  <2>2. Frame(chunks).value = packet.message
    BY <1>1, <2>1 DEF Done
  <2>3. QED
    BY <2>2 DEF Comes
<1>2. CASE ~ \A i \in DOMAIN chunks : chunks[i] = chunks[1]
  <2>1. 1 \in 1 .. n /\ n # 1
    BY <1>2
  <2>2. Frame(chunks) = IF \A i \in DOMAIN chunks : chunks[i].kind = chunks[1].kind
                        THEN Done(Garbled(chunks[1])) ELSE Failed
    BY <1>2 DEF Frame, Garbled
  <2>3. Frame(chunks) = Done(Garbled(chunks[1]))
    BY <2>2 DEF Failed
  <2>4. Frame(chunks).value = Garbled(chunks[1])
    BY <2>3 DEF Done
  <2>5. chunks[1] \in mail /\ ChunkCount[chunks[1].kind] # 1
    BY <2>1
  <2>6. QED
    BY <2>4, <2>5 DEF Comes
<1>3. QED
  BY <1>1, <1>2

\* A buffer after both of its fields are set.
LEMMA BufferWith ==
  ASSUME NEW b, IsBuffer(b), NEW n, NEW x
  PROVE  [b EXCEPT !.count = n, !.chunks = x] = [popped |-> b.popped, count |-> n, chunks |-> x]
<1> DEFINE one == [b EXCEPT !.count = n]
<1>1. one = [popped |-> b.popped, count |-> n, chunks |-> b.chunks]
  BY DEF IsBuffer
<1>2. [b EXCEPT !.count = n, !.chunks = x] = [one EXCEPT !.chunks = x]
  OBVIOUS
<1> HIDE DEF one
<1>3. [one EXCEPT !.chunks = x] = [popped |-> b.popped, count |-> n, chunks |-> x]
  BY <1>1
<1>4. QED
  BY <1>2, <1>3

\* What insert_data leaves is a buffer, and what it hands over was sent or is mixed.
LEMMA InsertKeeps ==
  ASSUME NEW b, NEW mail, Holds(b, mail), \A m \in mail : IsMessage(m),
         NEW packet, IsPacket(packet), packet.message \in mail,
         Insert(b, packet).ok
  PROVE  LET given == Insert(b, packet).value
         IN  Holds(given.buffer, mail) /\ (given.frame.ok => Comes(given.frame.value, packet, mail))
<1> DEFINE count == ChunkCount[packet.message.kind]
           chunks == (IF packet.index \in DOMAIN b.chunks THEN b.chunks
                      ELSE [i \in DOMAIN b.chunks \cup {packet.index} |->
                              IF i = packet.index THEN packet.message ELSE b.chunks[i]])
           whole == Cardinality(DOMAIN chunks) = count
           more == [b EXCEPT !.count = count, !.chunks = chunks]
           none == [b EXCEPT !.count = 0, !.chunks = << >>]
<1>1. count \in Nat \ {0} /\ packet.index \in 1 .. count /\ IsMessage(packet.message)
  BY MessageHasKind DEF IsPacket
<1>2. b.count \in {0, count}
  BY DEF Insert, Failed
<1>3. /\ DOMAIN chunks \subseteq 1 .. count
      /\ \A i \in DOMAIN chunks : chunks[i] \in mail /\ ChunkCount[chunks[i].kind] = count
  <2>1. CASE b.count = 0
    <3>1. b.chunks = << >> /\ DOMAIN b.chunks = {}
      BY <2>1 DEF Holds
    <3>2. chunks = [i \in {packet.index} |-> packet.message]
      BY <3>1
    <3>3. QED
      BY <1>1, <3>2
  <2>2. CASE b.count = count
    <3>1. /\ DOMAIN b.chunks \subseteq 1 .. count
          /\ \A i \in DOMAIN b.chunks : b.chunks[i] \in mail /\ ChunkCount[b.chunks[i].kind] = count
      BY <1>1, <2>2 DEF Holds
    <3>2. QED
      BY <1>1, <3>1
  <2>3. QED
    BY <1>2, <2>1, <2>2
<1>4. whole => packet.index \in DOMAIN chunks /\ chunks[packet.index] = packet.message
  <2>1. CASE packet.index \in DOMAIN b.chunks
    <3>1. b.count = count /\ Cardinality(DOMAIN b.chunks) # count
      BY <1>1, <1>2, <2>1 DEF Holds
    <3>2. QED
      BY <2>1, <3>1
  <2>2. CASE packet.index \notin DOMAIN b.chunks
    BY <2>2
  <2>3. QED
    BY <2>1, <2>2
<1>5. /\ more = [popped |-> b.popped, count |-> count, chunks |-> chunks]
      /\ none = [popped |-> b.popped, count |-> 0, chunks |-> << >>]
  <2>1. IsBuffer(b)
    BY DEF Holds
  <2> HIDE DEF count, chunks
  <2>2. more = [popped |-> b.popped, count |-> count, chunks |-> chunks]
    BY <2>1, BufferWith
  <2> DEFINE zero == 0
             empty == << >>
  <2> HIDE DEF zero, empty
  <2>3. [b EXCEPT !.count = zero, !.chunks = empty] = [popped |-> b.popped, count |-> zero, chunks |-> empty]
    BY <2>1, BufferWith
  <2>4. QED
    BY <2>2, <2>3 DEF zero, empty
<1>6. Insert(b, packet) =
        IF ~ whole THEN Done([buffer |-> more, frame |-> Failed])
        ELSE IF b.popped THEN Done([buffer |-> none, frame |-> Failed])
        ELSE IF ~ Frame(chunks).ok THEN Failed
        ELSE Done([buffer |-> [popped |-> TRUE, count |-> 0, chunks |-> << >>], frame |-> Frame(chunks)])
  BY <1>2 DEF Insert
<1> HIDE DEF more, none
<1>7. CASE ~ whole
  <2>1. Insert(b, packet).value = [buffer |-> more, frame |-> Failed]
    BY <1>6, <1>7 DEF Done
  <2>2. Holds(more, mail)
    <3> HIDE DEF chunks, count
    <3>1. QED
      BY <1>1, <1>3, <1>5, <1>7 DEF Holds, IsBuffer
  <2>3. QED
    BY <2>1, <2>2 DEF Failed
<1>8. CASE whole /\ b.popped
  <2>1. Insert(b, packet).value = [buffer |-> none, frame |-> Failed]
    BY <1>6, <1>8 DEF Done
  <2>2. Holds(none, mail)
    BY <1>5 DEF Holds, IsBuffer
  <2>3. QED
    BY <2>1, <2>2 DEF Failed
<1>9. CASE whole /\ ~ b.popped
  <2>1. Frame(chunks).ok
    BY <1>6, <1>9 DEF Failed
  <2>2. Insert(b, packet).value =
          [buffer |-> [popped |-> TRUE, count |-> 0, chunks |-> << >>], frame |-> Frame(chunks)]
    BY <1>6, <1>9, <2>1 DEF Done
  <2>3. Holds([popped |-> TRUE, count |-> 0, chunks |-> << >>], mail)
    BY DEF Holds, IsBuffer
  <2>4. Comes(Frame(chunks).value, packet, mail)
    <3>1. packet.index \in 1 .. count /\ chunks[packet.index] = packet.message
      BY <1>1, <1>4, <1>9
    <3>2. DOMAIN chunks \subseteq 1 .. count /\ Cardinality(DOMAIN chunks) = count /\ count \in Nat \ {0}
      BY <1>1, <1>3, <1>9
    <3>3. \A i \in DOMAIN chunks :
            chunks[i] \in mail /\ IsMessage(chunks[i]) /\ ChunkCount[chunks[i].kind] = count
      BY <1>3
    <3> HIDE DEF chunks, count
    <3>4. DOMAIN chunks = 1 .. count
      BY <3>2, FullRange
    <3>5. QED
      BY <2>1, <3>1, <3>2, <3>3, <3>4, WholeFrame
  <2>5. QED
    BY <2>2, <2>3, <2>4
<1>10. QED
  BY <1>7, <1>8, <1>9

----------------------------------------------------------------------------
(* The mutual profile. *)

HelloOf(cr, a) == ClientHello("mutual", a, a, cr)

\* What a finish answers: its attempt, the hello of the server, the transcript and
\* the session.
AttemptOf(f) == f.signature.text[2].nonce
AnswerOf(f) == f.signature.text[3]
FinishSecret(a, sh) == Encapsulate(sh.key, <<"client-finish", a>>)
FinishTo(cr, a, sh) ==
  ClientFinish(FinishSecret(a, sh),
               Signature(cr.key, client_finish_signable_bytes(HelloOf(cr, a), sh, FinishSecret(a, sh))))
TranscriptOf(cr, f) == <<HelloOf(cr, AttemptOf(f)), AnswerOf(f), f>>
RootOf(cr, f, secret) == derive_pq_mutual_root(secret, f.ciphertext.secret, TranscriptOf(cr, f))
SessionOf(cr, f) ==
  Completed(RootOf(cr, f, AnswerOf(f).ciphertext.secret), AttemptOf(f), AnswerOf(f).nonce)

\* The hello of the server was meant for the attempt.
Answers(sh, a) ==
  /\ sh.key = sh.nonce
  /\ sh.ciphertext = Encapsulate(a, <<"server-hello", sh.nonce, a>>)

Finishes(packets) == {m \in Mail(packets, "server") : m.kind = "ClientFinish"}

\* Every finish is one of the client's, and there is one to an attempt.
FinishesOK(packets, cr, attempt) ==
  /\ \A f \in Finishes(packets) :
       AttemptOf(f) \in 1 .. attempt /\ f = FinishTo(cr, AttemptOf(f), AnswerOf(f))
  /\ \A f, g \in Finishes(packets) : AttemptOf(f) = AttemptOf(g) => f = g

\* The finish messages of the server are about completed sessions.
ServerFinishesOK(packets, cr, sessions) ==
  \A m \in Mail(packets, "client") : m.kind = "ServerFinish" =>
    \E f \in Finishes(packets) :
      /\ m.signature = Signature(Identity.key, server_finish_signable_bytes(TranscriptOf(cr, f)))
      /\ SessionOf(cr, f) \in sessions /\ Answers(AnswerOf(f), AttemptOf(f))

SessionsOK(packets, cr, sessions) ==
  \A s \in sessions :
    \E f \in Finishes(packets) : s = SessionOf(cr, f) /\ Answers(AnswerOf(f), AttemptOf(f))

\* What the client has after its finish.
Finished(c, packets) ==
  \E f \in Finishes(packets) :
    /\ AttemptOf(f) = c.attempt
    /\ c.state.transcript = TranscriptOf(c.state.credential, f)
    /\ c.state.server_nonce = AnswerOf(f).nonce
    /\ c.state.root = RootOf(c.state.credential, f, Decapsulate(c.attempt, AnswerOf(f).ciphertext))

MutualClient(c, packets) ==
  /\ c.phase = "hello" => \A f \in Finishes(packets) : AttemptOf(f) # c.attempt
  /\ c.phase \in {"finish", "connected"} => Finished(c, packets)

\* What the server has after its hello.
Responded(s) ==
  /\ s.response = ServerHello(Identity, s.nonce, s.nonce,
                              Encapsulate(s.hello.key, <<"server-hello", s.nonce, s.hello.nonce>>))
  /\ s.secret = <<s.hello.key, <<"server-hello", s.nonce, s.hello.nonce>>>>

MutualInv ==
  /\ \A m \in Mail(net, "server") : m.kind \in {"ClientHello", "ClientFinish"}
  /\ \A m \in Mail(net, "client") : m.kind \in {"ServerHello", "ServerFinish"}
  /\ FinishesOK(net, client.state.credential, client.attempt)
  /\ ServerFinishesOK(net, client.state.credential, done.server)
  /\ SessionsOK(net, client.state.credential, done.server)
  /\ MutualClient(client, net)
  /\ server.phase = "finish" => Responded(server.state)
  /\ done.client \subseteq done.server

----------------------------------------------------------------------------
(* The simple profile. *)

SimpleHello(profile, cr, a) == ClientHello(profile, a, a, cr)
HelloIn(s) == s.root[5][1]

SimpleSecret(h, n) == Encapsulate(h.key, <<"simple-server-hello", n, h.nonce>>)
SimpleResponse(h, n) == SimpleServerHello(n, SimpleSecret(h, n))
SimpleSession(h, n) ==
  Completed(derive_pq_simple_root(SimpleSecret(h, n).secret, <<h, SimpleResponse(h, n)>>), h.nonce, n)

\* The nonces the server has used.
Used(s, n) == IF s.phase = "closed" THEN n <= 100 + s.accept ELSE n < 100 + s.accept

\* The server's sessions have each a nonce of their own.
SimpleSessionsOK(s, sessions) ==
  /\ \A t \in sessions :
       /\ t = SimpleSession(HelloIn(t), t.server_nonce)
       /\ t.server_nonce \in Int /\ Used(s, t.server_nonce)
  /\ \A t, u \in sessions : t.server_nonce = u.server_nonce => t = u

SimplePackets(profile, cr, packets, sessions) ==
  \A p \in packets :
    \/ /\ p.to = "server" /\ p.address \in Nat \ {0}
       /\ p.message = SimpleHello(profile, cr, p.address)
    \/ /\ p.to = "client"
       /\ \E t \in sessions :
            /\ p.message = SimpleResponse(HelloIn(t), t.server_nonce)
            /\ HelloIn(t).key # NobodysKey => HelloIn(t) = SimpleHello(profile, cr, p.address)

SimpleCompleted(completed, sessions) ==
  \A c \in completed :
    \E t \in sessions : c.server_nonce = t.server_nonce /\ (HelloIn(t).key # NobodysKey => c.root = t.root)

\* The server's hello of the simple profile is not cut: a ciphertext of 1088 bytes, a
\* nonce and a name fit a datagram of 1200.
OneChunk == ChunkCount["SimpleServerHello"] = 1

SimpleInv ==
  /\ SimplePackets(Profile, client.state.credential, net, done.server)
  /\ SimpleSessionsOK(server, done.server)
  /\ OneChunk => SimpleCompleted(done.client, done.server)

----------------------------------------------------------------------------
IsClient(c) == c = [attempt |-> c.attempt, phase |-> c.phase, buffer |-> c.buffer, state |-> c.state]

IsState(st) ==
  st = [profile |-> st.profile, nonce |-> st.nonce, credential |-> st.credential, hello |-> st.hello,
        server_nonce |-> st.server_nonce, transcript |-> st.transcript, root |-> st.root]

ClientOK(c) ==
  /\ IsClient(c) /\ IsState(c.state)
  /\ c.attempt \in Nat
  /\ c.phase \in {"idle", "hello", "finish", "connected", "failed"}
  /\ c.phase # "idle" => c.attempt # 0
  /\ c.state.nonce = c.attempt
  /\ c.state.hello = ClientHello(c.state.profile, c.attempt, c.attempt, c.state.credential)

IsServer(s) ==
  s = [accept |-> s.accept, phase |-> s.phase, peer |-> s.peer, buffer |-> s.buffer, state |-> s.state]

ServerOK(s) ==
  /\ IsServer(s)
  /\ s.accept \in Nat \ {0}
  /\ s.phase \in {"hello", "finish", "closed"}

BaseInv ==
  /\ ClientOK(client)
  /\ ServerOK(server)
  /\ done = [client |-> done.client, server |-> done.server]
  /\ \A p \in net : IsPacket(p)
  /\ Holds(client.buffer, Mail(net, "client"))
  /\ Holds(server.buffer, Mail(net, "server"))

BootInv ==
  /\ BaseInv
  /\ Profile = "mutual" => MutualInv
  /\ Profile # "mutual" => SimpleInv

----------------------------------------------------------------------------
(* Records with some fields set. *)

\* The client after its finish, and the server after a hello.
ClientAfter(c, ph, b, st) == [c EXCEPT !.phase = ph, !.buffer = b, !.state = st]
ServerAfter(s, ph, pe, b, st) == [s EXCEPT !.phase = ph, !.peer = pe, !.buffer = b, !.state = st]

\* The client in another phase or with another buffer.
LEMMA ClientWith ==
  ASSUME NEW c, IsClient(c), NEW ph, NEW b
  PROVE  /\ [c EXCEPT !.phase = ph] =
              [attempt |-> c.attempt, phase |-> ph, buffer |-> c.buffer, state |-> c.state]
         /\ [c EXCEPT !.buffer = b] =
              [attempt |-> c.attempt, phase |-> c.phase, buffer |-> b, state |-> c.state]
BY DEF IsClient

\* The client with all but its attempt new.
LEMMA ClientAfterIs ==
  ASSUME NEW c, IsClient(c), NEW ph, NEW b, NEW st
  PROVE  ClientAfter(c, ph, b, st) = [attempt |-> c.attempt, phase |-> ph, buffer |-> b, state |-> st]
<1> DEFINE one == [c EXCEPT !.phase = ph]
           two == [one EXCEPT !.buffer = b]
<1>1. one = [attempt |-> c.attempt, phase |-> ph, buffer |-> c.buffer, state |-> c.state]
  BY DEF IsClient
<1>2. [c EXCEPT !.phase = ph, !.buffer = b, !.state = st] = [two EXCEPT !.state = st]
  OBVIOUS
<1> HIDE DEF one
<1>3. two = [attempt |-> c.attempt, phase |-> ph, buffer |-> b, state |-> c.state]
  BY <1>1
<1> HIDE DEF two
<1>4. [two EXCEPT !.state = st] = [attempt |-> c.attempt, phase |-> ph, buffer |-> b, state |-> st]
  BY <1>3
<1>5. QED
  BY <1>2, <1>4 DEF ClientAfter

\* The state of the client after its finish.
StateAfter(s, n, t, r) == [s EXCEPT !.server_nonce = n, !.transcript = t, !.root = r]

\* Its other fields stay.
LEMMA StateWith ==
  ASSUME NEW s, IsState(s), NEW n, NEW t, NEW r
  PROVE  StateAfter(s, n, t, r) =
           [profile |-> s.profile, nonce |-> s.nonce, credential |-> s.credential, hello |-> s.hello,
            server_nonce |-> n, transcript |-> t, root |-> r]
<1> DEFINE one == [s EXCEPT !.server_nonce = n]
           two == [one EXCEPT !.transcript = t]
<1>1. one = [profile |-> s.profile, nonce |-> s.nonce, credential |-> s.credential, hello |-> s.hello,
             server_nonce |-> n, transcript |-> s.transcript, root |-> s.root]
  BY DEF IsState
<1>2. [s EXCEPT !.server_nonce = n, !.transcript = t, !.root = r] = [two EXCEPT !.root = r]
  OBVIOUS
<1> HIDE DEF one
<1>3. two = [profile |-> s.profile, nonce |-> s.nonce, credential |-> s.credential, hello |-> s.hello,
             server_nonce |-> n, transcript |-> t, root |-> s.root]
  BY <1>1
<1> HIDE DEF two
<1>4. [two EXCEPT !.root = r] =
        [profile |-> s.profile, nonce |-> s.nonce, credential |-> s.credential, hello |-> s.hello,
         server_nonce |-> n, transcript |-> t, root |-> r]
  BY <1>3
<1>5. QED
  BY <1>2, <1>4 DEF StateAfter

\* The server after a hello.
LEMMA ServerAfterIs ==
  ASSUME NEW s, IsServer(s), NEW ph, NEW pe, NEW b, NEW st
  PROVE  ServerAfter(s, ph, pe, b, st) =
           [accept |-> s.accept, phase |-> ph, peer |-> pe, buffer |-> b, state |-> st]
<1> DEFINE one == [s EXCEPT !.phase = ph]
           peered == [one EXCEPT !.peer = pe]
           three == [peered EXCEPT !.buffer = b]
<1>1. one = [accept |-> s.accept, phase |-> ph, peer |-> s.peer, buffer |-> s.buffer, state |-> s.state]
  BY DEF IsServer
<1>2. [s EXCEPT !.phase = ph, !.peer = pe, !.buffer = b, !.state = st] = [three EXCEPT !.state = st]
  OBVIOUS
<1> HIDE DEF one
<1>3. peered = [accept |-> s.accept, phase |-> ph, peer |-> pe, buffer |-> s.buffer, state |-> s.state]
  BY <1>1
<1> HIDE DEF peered
<1>4. three = [accept |-> s.accept, phase |-> ph, peer |-> pe, buffer |-> b, state |-> s.state]
  BY <1>3
<1> HIDE DEF three
<1>5. [three EXCEPT !.state = st] =
        [accept |-> s.accept, phase |-> ph, peer |-> pe, buffer |-> b, state |-> st]
  BY <1>4
<1>6. QED
  BY <1>2, <1>5 DEF ServerAfter

\* The server at the end.
LEMMA ServerEnds ==
  ASSUME NEW s, IsServer(s), NEW ph, NEW b, NEW st
  PROVE  [s EXCEPT !.phase = ph, !.buffer = b, !.state = st] =
           [accept |-> s.accept, phase |-> ph, peer |-> s.peer, buffer |-> b, state |-> st]
<1> DEFINE one == [s EXCEPT !.phase = ph]
           two == [one EXCEPT !.buffer = b]
<1>1. one = [accept |-> s.accept, phase |-> ph, peer |-> s.peer, buffer |-> s.buffer, state |-> s.state]
  BY DEF IsServer
<1>2. [s EXCEPT !.phase = ph, !.buffer = b, !.state = st] = [two EXCEPT !.state = st]
  OBVIOUS
<1> HIDE DEF one
<1>3. two = [accept |-> s.accept, phase |-> ph, peer |-> s.peer, buffer |-> b, state |-> s.state]
  BY <1>1
<1> HIDE DEF two
<1>4. [two EXCEPT !.state = st] =
        [accept |-> s.accept, phase |-> ph, peer |-> s.peer, buffer |-> b, state |-> st]
  BY <1>3
<1>5. QED
  BY <1>2, <1>4

\* The next accept: every nonce used so far stays used, and so does this one's.
LEMMA NextAcceptIs ==
  ASSUME ServerOK(server), server.phase # "closed"
  PROVE  /\ ServerOK(NextAccept)
         /\ NextAccept.phase # "finish"
         /\ NextAccept.buffer = EmptyBuffer
         /\ \A n \in Int : Used(server, n) => Used(NextAccept, n)
         /\ Used(NextAccept, ServerNonce) /\ ~ Used(server, ServerNonce) /\ ServerNonce \in Int
<1>1. server.accept \in Nat \ {0} /\ IsServer(server)
  BY DEF ServerOK
<1>2. CASE server.accept < MaxAccepts
  <2>1. NextAccept = [accept |-> server.accept + 1, phase |-> "hello", peer |-> 0, buffer |-> EmptyBuffer,
                      state |-> << >>]
    BY <1>2 DEF NextAccept
  <2>2. QED
    BY <1>1, <2>1 DEF ServerOK, IsServer, Used, ServerNonce
<1>3. CASE ~ (server.accept < MaxAccepts)
  <2> DEFINE ph == "closed"
             b == EmptyBuffer
             st == << >>
  <2>1. NextAccept = [server EXCEPT !.phase = ph, !.buffer = b, !.state = st]
    BY <1>3 DEF NextAccept
  <2> HIDE DEF ph, b, st
  <2>2. NextAccept = [accept |-> server.accept, phase |-> ph, peer |-> server.peer, buffer |-> b, state |-> st]
    BY <1>1, <2>1, ServerEnds
  <2>3. QED
    BY <1>1, <2>2 DEF ServerOK, IsServer, Used, ServerNonce, ph, b
<1>4. QED
  BY <1>2, <1>3

\* A client that moves on within its attempt.
LEMMA ClientMoves ==
  ASSUME NEW c, ClientOK(c), c.phase # "idle",
         NEW ph \in {"hello", "finish", "connected", "failed"}, NEW b,
         NEW st, IsState(st), st.nonce = c.state.nonce, st.hello = c.state.hello,
         st.profile = c.state.profile, st.credential = c.state.credential
  PROVE  ClientOK([attempt |-> c.attempt, phase |-> ph, buffer |-> b, state |-> st])
BY DEF ClientOK, IsClient

----------------------------------------------------------------------------
(* Steps of the mutual profile. *)

\* What a finish of the client says of itself.
LEMMA FinishSays ==
  ASSUME NEW cr, NEW a, NEW sh, NEW f, f = FinishTo(cr, a, sh)
  PROVE  /\ IsMessage(f) /\ f.kind = "ClientFinish"
         /\ AttemptOf(f) = a /\ AnswerOf(f) = sh
         /\ f.ciphertext = FinishSecret(a, sh)
         /\ f.signature = Signature(cr.key, client_finish_signable_bytes(HelloOf(cr, a), sh, f.ciphertext))
<1> DEFINE ct == FinishSecret(a, sh)
           text == client_finish_signable_bytes(HelloOf(cr, a), sh, ct)
           sig == Signature(cr.key, text)
<1>1. f = [kind |-> "ClientFinish", stream |-> StreamId, ciphertext |-> ct, signature |-> sig]
  BY DEF FinishTo, ClientFinish
<1>2. sig.text = text
  BY DEF Signature
<1>3. text[2] = HelloOf(cr, a) /\ text[3] = sh
  BY DEF client_finish_signable_bytes
<1>4. HelloOf(cr, a).nonce = a
  BY DEF HelloOf, ClientHello
<1> HIDE DEF ct, text, sig
<1>5. f.ciphertext = ct /\ f.signature = sig /\ f.kind = "ClientFinish" /\ IsMessage(f)
  BY <1>1 DEF IsMessage
<1>6. AttemptOf(f) = a /\ AnswerOf(f) = sh
  BY <1>2, <1>3, <1>4, <1>5 DEF AttemptOf, AnswerOf
<1>7. QED
  BY <1>5, <1>6 DEF ct, text, sig

\* Only a finish for the server is one more finish.
LEMMA SameFinishes ==
  ASSUME NEW packets, NEW to, NEW address, NEW m, IsMessage(m), to # "server" \/ m.kind # "ClientFinish"
  PROVE  Finishes(packets \cup PacketsOf(to, address, m)) = Finishes(packets)
<1> DEFINE more == packets \cup PacketsOf(to, address, m)
           end == "server"
<1> HIDE DEF end
<1>1. /\ Mail(packets, end) \subseteq Mail(more, end)
      /\ \A x \in Mail(more, end) : x \in Mail(packets, end) \/ (x = m /\ end = to)
  BY MailAdds
<1>2. QED
  BY <1>1 DEF Finishes, end

\* Neither end sends or completes anything, and a state is kept or given up.
LEMMA QuietMutual ==
  ASSUME MutualInv, UNCHANGED <<net, done>>,
         client'.attempt = client.attempt, client'.state = client.state,
         client'.phase \in {client.phase, "failed"},
         server'.phase = "finish" => server.phase = "finish" /\ server'.state = server.state
  PROVE  MutualInv'
<1>1. MutualClient(client', net)
  BY DEF MutualInv, MutualClient, Finished
<1>2. QED
  BY <1>1 DEF MutualInv

\* A new attempt has no finish yet.
LEMMA ConnectMutual ==
  ASSUME ClientOK(client), Profile = "mutual", MutualInv, Connect
  PROVE  MutualInv'
<1> DEFINE cr == client.state.credential
           a == client.attempt + 1
           hello == ClientHello("mutual", a, a, cr)
<1>1. /\ client'.attempt = a /\ client'.phase = "hello" /\ client'.state.credential = cr
      /\ net' = net \cup PacketsOf("server", a, hello) /\ UNCHANGED <<server, done>>
  BY DEF Connect, start, Profile
<1>2. IsMessage(hello) /\ hello.kind = "ClientHello"
  BY DEF ClientHello, IsMessage
<1>3. client.attempt \in Nat
  BY DEF ClientOK
<1> HIDE DEF hello
<1>4. Finishes(net') = Finishes(net)
  BY <1>1, <1>2, SameFinishes
<1>5. /\ \A m \in Mail(net', "server") : m \in Mail(net, "server") \/ m = hello
      /\ \A m \in Mail(net', "client") : m \in Mail(net, "client")
  BY <1>1, <1>2, MailAdds
<1>6. FinishesOK(net', cr, a)
  BY <1>3, <1>4 DEF MutualInv, FinishesOK
<1>7. MutualClient(client', net')
  BY <1>1, <1>3, <1>4 DEF MutualInv, FinishesOK, MutualClient
<1>8. ServerFinishesOK(net', cr, done.server) /\ SessionsOK(net', cr, done.server)
  BY <1>4, <1>5 DEF MutualInv, ServerFinishesOK, SessionsOK
<1>9. QED
  BY <1>1, <1>2, <1>5, <1>6, <1>7, <1>8 DEF MutualInv

\* The client's finish is the only one of its attempt, and its state is made of it.
LEMMA FinishMutual ==
  ASSUME ClientOK(client), Profile = "mutual", MutualInv, client.phase = "hello",
         NEW sh, HandleServerHello(client.state, sh, Identity, now).ok,
         client'.attempt = client.attempt, client'.phase = "finish",
         client'.state = HandleServerHello(client.state, sh, Identity, now).value.state,
         net' = net \cup PacketsOf("server", client.attempt,
                                   HandleServerHello(client.state, sh, Identity, now).value.finish),
         UNCHANGED <<server, done>>
  PROVE  LET st == client.state
             next == HandleServerHello(client.state, sh, Identity, now).value
         IN  /\ MutualInv'
             /\ IsMessage(next.finish)
             /\ IsState(next.state) /\ next.state.nonce = st.nonce /\ next.state.hello = st.hello
             /\ next.state.profile = st.profile /\ next.state.credential = st.credential
<1> DEFINE cr == client.state.credential
           a == client.attempt
           st == client.state
           ct == FinishSecret(a, sh)
           f == FinishTo(cr, a, sh)
           transcript == <<HelloOf(cr, a), sh, f>>
           root == derive_pq_mutual_root(Decapsulate(a, sh.ciphertext), ct.secret, transcript)
<1>1. a \in Nat /\ st.nonce = a /\ st.hello = HelloOf(cr, a) /\ IsState(st) /\ a # 0
  BY DEF ClientOK, Profile, HelloOf
<1>2. HandleServerHello(st, sh, Identity, now) =
        Done([finish |-> f, state |-> StateAfter(st, sh.nonce, transcript, root)])
  BY <1>1 DEF HandleServerHello, Failed, FinishTo, FinishSecret, StateAfter
<1> DEFINE n == sh.nonce
<1> HIDE DEF transcript, root, n
<1>3. StateAfter(st, n, transcript, root) =
        [profile |-> st.profile, nonce |-> st.nonce, credential |-> st.credential, hello |-> st.hello,
         server_nonce |-> n, transcript |-> transcript, root |-> root]
  <2>1. IsState(st)
    BY <1>1
  <2> HIDE DEF st
  <2>2. QED
    BY <2>1, StateWith
<1> HIDE DEF f
<1>4. HandleServerHello(st, sh, Identity, now).value.finish = f
  BY <1>2 DEF Done
<1>5. HandleServerHello(st, sh, Identity, now).value.state =
        [profile |-> st.profile, nonce |-> st.nonce, credential |-> st.credential, hello |-> st.hello,
         server_nonce |-> n, transcript |-> transcript, root |-> root]
  BY <1>2, <1>3 DEF Done, n
<1>6. /\ client'.state.transcript = transcript /\ client'.state.root = root
      /\ client'.state.server_nonce = n /\ client'.state.credential = cr
  BY <1>5
<1>7. /\ IsMessage(f) /\ f.kind = "ClientFinish"
      /\ AttemptOf(f) = a /\ AnswerOf(f) = sh /\ f.ciphertext = ct
  BY FinishSays DEF f
<1>8. /\ Mail(net, "server") \subseteq Mail(net', "server") /\ f \in Mail(net', "server")
      /\ \A x \in Mail(net', "server") : x \in Mail(net, "server") \/ x = f
      /\ \A x \in Mail(net', "client") : x \in Mail(net, "client")
  BY <1>4, <1>7, MailAdds
<1>9. /\ Finishes(net) \subseteq Finishes(net') /\ f \in Finishes(net')
      /\ \A x \in Finishes(net') : x \in Finishes(net) \/ x = f
  BY <1>7, <1>8 DEF Finishes
<1>10. \A x \in Finishes(net) : AttemptOf(x) # a
  BY DEF MutualInv, MutualClient
<1>11. FinishesOK(net', cr, a)
  <2>1. f = FinishTo(cr, AttemptOf(f), AnswerOf(f)) /\ AttemptOf(f) \in 1 .. a
    BY <1>1, <1>7 DEF f
  <2>2. FinishesOK(net, cr, a)
    BY DEF MutualInv
  <2>3. \A x \in Finishes(net') : AttemptOf(x) \in 1 .. a /\ x = FinishTo(cr, AttemptOf(x), AnswerOf(x))
    BY <2>1, <2>2, <1>9 DEF FinishesOK
  <2>4. AttemptOf(f) = a
    BY <1>7
  <2>5. \A x, y \in Finishes(net') : AttemptOf(x) = AttemptOf(y) => x = y
    BY <2>2, <2>4, <1>9, <1>10 DEF FinishesOK
  <2>6. QED
    BY <2>3, <2>5 DEF FinishesOK
<1>12. Finished(client', net')
  <2>1. transcript = TranscriptOf(cr, f)
    BY <1>7 DEF transcript, TranscriptOf
  <2>2. root = RootOf(cr, f, Decapsulate(a, AnswerOf(f).ciphertext))
    BY <1>7, <2>1 DEF root, RootOf
  <2>3. QED
    BY <1>6, <1>7, <1>9, <2>1, <2>2 DEF Finished, n
<1>13. ServerFinishesOK(net', cr, done.server) /\ SessionsOK(net', cr, done.server)
  BY <1>8, <1>9 DEF MutualInv, ServerFinishesOK, SessionsOK
<1>14. MutualInv'
  BY <1>4, <1>6, <1>7, <1>8, <1>11, <1>12, <1>13 DEF MutualInv, MutualClient
<1>15. QED
  BY <1>4, <1>5, <1>7, <1>14 DEF IsState

\* What is received of one kind is mail of that kind or mixed from it.
LEMMA ComesByKind ==
  ASSUME NEW mail, \A m \in mail : IsMessage(m), NEW packet, packet.message \in mail,
         NEW frame, Comes(frame, packet, mail)
  PROVE  \/ frame = packet.message
         \/ \E m \in mail : frame = Garbled(m) /\ frame.kind = m.kind /\ ChunkCount[m.kind] # 1
BY GarbledKind DEF Comes

\* A finish of the server that the client takes is about its own session.
LEMMA ConnectedMutual ==
  ASSUME ClientOK(client), MutualInv, client.phase = "finish",
         done = [client |-> done.client, server |-> done.server],
         NEW m \in Mail(net, "client"), m.kind = "ServerFinish",
         handle_server_finish(client.state, m, Identity).ok,
         client'.attempt = client.attempt, client'.phase = "connected", client'.state = client.state,
         done' = [done EXCEPT !.client = @ \cup {handle_server_finish(client.state, m, Identity).value}],
         UNCHANGED <<server, net>>
  PROVE  MutualInv'
<1> DEFINE cr == client.state.credential
           st == client.state
           session == Completed(st.root, st.nonce, st.server_nonce)
<1>1. /\ m.signature = Signature(Identity.key, server_finish_signable_bytes(st.transcript))
      /\ handle_server_finish(st, m, Identity).value = session
  BY DEF handle_server_finish, Failed, Done
<1>2. PICK f \in Finishes(net) :
        /\ AttemptOf(f) = client.attempt
        /\ st.transcript = TranscriptOf(cr, f)
        /\ st.server_nonce = AnswerOf(f).nonce
        /\ st.root = RootOf(cr, f, Decapsulate(client.attempt, AnswerOf(f).ciphertext))
  BY DEF MutualInv, MutualClient, Finished
<1>3. PICK g \in Finishes(net) :
        /\ m.signature = Signature(Identity.key, server_finish_signable_bytes(TranscriptOf(cr, g)))
        /\ SessionOf(cr, g) \in done.server /\ Answers(AnswerOf(g), AttemptOf(g))
  BY DEF MutualInv, ServerFinishesOK
<1>4. TranscriptOf(cr, f) = TranscriptOf(cr, g)
  <2> DEFINE t == TranscriptOf(cr, f)
             u == TranscriptOf(cr, g)
  <2>1. Signature(Identity.key, server_finish_signable_bytes(t)) =
          Signature(Identity.key, server_finish_signable_bytes(u))
    BY <1>1, <1>2, <1>3
  <2> HIDE DEF t, u
  <2>2. server_finish_signable_bytes(t) = server_finish_signable_bytes(u)
    BY <2>1 DEF Signature
  <2>3. t = u
    BY <2>2 DEF server_finish_signable_bytes
  <2>4. QED
    BY <2>3 DEF t, u
<1>5. f = g
  BY <1>4 DEF TranscriptOf
<1>6. Decapsulate(client.attempt, AnswerOf(f).ciphertext) = AnswerOf(f).ciphertext.secret
  <2>1. AnswerOf(f).ciphertext = Encapsulate(AttemptOf(f), <<"server-hello", AnswerOf(f).nonce, AttemptOf(f)>>)
    BY <1>3, <1>5 DEF Answers
  <2>2. AnswerOf(f).ciphertext.to = client.attempt
    BY <1>2, <2>1 DEF Encapsulate
  <2>3. QED
    BY <2>2 DEF Decapsulate
<1>7. session = SessionOf(cr, f)
  <2>1. st.nonce = client.attempt
    BY DEF ClientOK
  <2>2. QED
    BY <1>2, <1>6, <2>1 DEF SessionOf
<1>8. done' = [client |-> done.client \cup {session}, server |-> done.server]
  <2> DEFINE all == done.client \cup {session}
  <2>1. done' = [done EXCEPT !.client = all]
    BY <1>1
  <2> HIDE DEF all
  <2>2. QED
    BY <2>1 DEF all
<1> HIDE DEF session
<1>9. done'.client \subseteq done'.server /\ done'.server = done.server
  BY <1>3, <1>5, <1>7, <1>8 DEF MutualInv
<1>10. MutualClient(client', net)
  BY DEF MutualInv, MutualClient, Finished
<1>11. QED
  BY <1>9, <1>10 DEF MutualInv

\* The server's answer to a hello.
LEMMA HelloMutual ==
  ASSUME MutualInv, NEW h, NEW address,
         RespondToClientHello(Identity, cache, h, now, ServerNonce).ok,
         server'.state = RespondToClientHello(Identity, cache, h, now, ServerNonce).value.state,
         net' = net \cup PacketsOf("client", address,
                                   RespondToClientHello(Identity, cache, h, now, ServerNonce).value.outbound),
         UNCHANGED <<client, done>>
  PROVE  MutualInv' /\ IsMessage(RespondToClientHello(Identity, cache, h, now, ServerNonce).value.outbound)
<1> DEFINE n == ServerNonce
           ct == Encapsulate(h.key, <<"server-hello", n, h.nonce>>)
           response == ServerHello(Identity, n, n, ct)
           st == [hello |-> h, response |-> response, nonce |-> n, secret |-> ct.secret]
           result == RespondToClientHello(Identity, cache, h, now, n)
<1>1. result.value.outbound = response /\ result.value.state = st
  BY DEF RespondToClientHello, Failed, Done
<1>2. Responded(st)
  BY DEF Responded, Encapsulate
<1>3. IsMessage(response) /\ response.kind = "ServerHello"
  <2> HIDE DEF n, ct
  <2>1. QED
    BY DEF ServerHello, IsMessage
<1> HIDE DEF n, response, st, result
<1>4. server'.state = st /\ net' = net \cup PacketsOf("client", address, response)
  BY <1>1 DEF result, n
<1>5. Finishes(net') = Finishes(net)
  BY <1>3, <1>4, SameFinishes
<1>6. /\ \A m \in Mail(net', "server") : m \in Mail(net, "server")
      /\ \A m \in Mail(net', "client") : m \in Mail(net, "client") \/ m = response
  BY <1>3, <1>4, MailAdds
<1>7. MutualClient(client, net')
  BY <1>5 DEF MutualInv, MutualClient, Finished
<1>8. /\ FinishesOK(net', client.state.credential, client.attempt)
      /\ ServerFinishesOK(net', client.state.credential, done.server)
      /\ SessionsOK(net', client.state.credential, done.server)
  BY <1>3, <1>5, <1>6 DEF MutualInv, FinishesOK, ServerFinishesOK, SessionsOK
<1>9. QED
  BY <1>1, <1>2, <1>3, <1>4, <1>6, <1>7, <1>8 DEF MutualInv, n, result

\* A finish that the server takes was sent as it is, for the hello and the response of
\* the accept.
LEMMA FinishTaken ==
  ASSUME MutualInv, Responded(server.state), \A m \in Mail(net, "server") : IsMessage(m),
         NEW f, f.kind = "ClientFinish",
         f \in Mail(net, "server") \/ \E m \in Mail(net, "server") : f = Garbled(m) /\ f.kind = m.kind,
         handle_client_finish(server.state, f, Identity).ok
  PROVE  LET cr == client.state.credential
             taken == handle_client_finish(server.state, f, Identity).value
         IN  /\ f \in Finishes(net)
             /\ Answers(AnswerOf(f), AttemptOf(f))
             /\ taken.completed = SessionOf(cr, f)
             /\ taken.outbound =
                  ServerFinish(Signature(Identity.key, server_finish_signable_bytes(TranscriptOf(cr, f))))
<1> DEFINE cr == client.state.credential
           s == server.state
           taken == handle_client_finish(s, f, Identity).value
           transcript == <<s.hello, s.response, f>>
<1>1. /\ f.signature = Signature(s.hello.credential.key,
                                 client_finish_signable_bytes(s.hello, s.response, f.ciphertext))
      /\ taken.completed = Completed(derive_pq_mutual_root(s.secret, Decapsulate(s.nonce, f.ciphertext), transcript),
                                     s.hello.nonce, s.nonce)
      /\ taken.outbound = ServerFinish(Signature(Identity.key, server_finish_signable_bytes(transcript)))
  BY DEF handle_client_finish, Failed, Done
<1>2. ASSUME NEW m \in Finishes(net), f.signature = m.signature
      PROVE  /\ s.hello = HelloOf(cr, AttemptOf(m)) /\ s.response = AnswerOf(m)
             /\ f.ciphertext = FinishSecret(AttemptOf(m), AnswerOf(m))
  <2> DEFINE a == AttemptOf(m)
             sh == AnswerOf(m)
             h == HelloOf(cr, a)
             text == client_finish_signable_bytes(h, sh, m.ciphertext)
             read == client_finish_signable_bytes(s.hello, s.response, f.ciphertext)
  <2>1. m = FinishTo(cr, a, sh)
    BY DEF MutualInv, FinishesOK
  <2> HIDE DEF a, sh
  <2>2. m.signature = Signature(cr.key, text) /\ m.ciphertext = FinishSecret(a, sh)
    BY <2>1, FinishSays
  <2> HIDE DEF h
  <2>3. text = read
    BY <1>1, <1>2, <2>2 DEF Signature
  <2>4. h = s.hello /\ sh = s.response /\ m.ciphertext = f.ciphertext
    BY <2>3 DEF client_finish_signable_bytes
  <2>5. QED
    BY <2>2, <2>4 DEF a, sh, h
<1>3. f \in Finishes(net)
  <2>1. CASE f \in Mail(net, "server")
    BY <2>1 DEF Finishes
  <2>2. ASSUME NEW m \in Mail(net, "server"), f = Garbled(m), f.kind = m.kind PROVE FALSE
    <3>1. m.kind = "ClientFinish" /\ IsMessage(m)
      BY <2>2
    <3>2. m \in Finishes(net) /\ f.signature = m.signature /\ f.ciphertext.secret = << >>
      BY <2>2, <3>1, GarbledKind DEF Finishes
    <3>3. f.ciphertext = FinishSecret(AttemptOf(m), AnswerOf(m))
      BY <1>2, <3>2
    <3> DEFINE x == AnswerOf(m).key
               y == <<"client-finish", AttemptOf(m)>>
    <3>4. f.ciphertext.secret = <<x, y>>
      BY <3>3 DEF FinishSecret, Encapsulate
    <3> HIDE DEF x, y
    <3>5. <<x, y>> # << >>
      OBVIOUS
    <3>6. QED
      BY <3>2, <3>4, <3>5
  <2>3. QED
    BY <2>1, <2>2
<1> DEFINE a == AttemptOf(f)
           sh == AnswerOf(f)
<1>4. /\ s.hello = HelloOf(cr, a) /\ s.response = sh /\ f.ciphertext = FinishSecret(a, sh)
  BY <1>2, <1>3
<1>5. s.hello.nonce = a /\ s.hello.key = a
  BY <1>4 DEF HelloOf, ClientHello
<1> HIDE DEF s, a, sh
<1>6. /\ sh = ServerHello(Identity, s.nonce, s.nonce, Encapsulate(a, <<"server-hello", s.nonce, a>>))
      /\ s.secret = <<a, <<"server-hello", s.nonce, a>>>>
  BY <1>4, <1>5 DEF Responded, s
<1>7. /\ sh.nonce = s.nonce /\ sh.key = s.nonce
      /\ sh.ciphertext = Encapsulate(a, <<"server-hello", s.nonce, a>>)
  BY <1>6 DEF ServerHello
<1>8. Answers(sh, a)
  BY <1>7 DEF Answers
<1>9. s.secret = sh.ciphertext.secret
  BY <1>6, <1>7 DEF Encapsulate
<1>10. Decapsulate(s.nonce, f.ciphertext) = f.ciphertext.secret
  <2>1. f.ciphertext.to = s.nonce
    BY <1>4, <1>7 DEF FinishSecret, Encapsulate
  <2>2. QED
    BY <2>1 DEF Decapsulate
<1>11. transcript = TranscriptOf(cr, f)
  BY <1>4 DEF TranscriptOf, a, sh
<1>12. taken.completed = SessionOf(cr, f)
  BY <1>1, <1>5, <1>7, <1>9, <1>10, <1>11 DEF SessionOf, RootOf, a, sh
<1>13. QED
  BY <1>1, <1>3, <1>8, <1>11, <1>12 DEF a, sh, s

\* A session more, with the server's finish about it on its way.
LEMMA AcceptedMutual ==
  ASSUME MutualInv, done = [client |-> done.client, server |-> done.server],
         NEW f \in Finishes(net), Answers(AnswerOf(f), AttemptOf(f)), NEW address, NEW m,
         m = ServerFinish(Signature(Identity.key,
               server_finish_signable_bytes(TranscriptOf(client.state.credential, f)))),
         NEW session, session = SessionOf(client.state.credential, f),
         done' = [done EXCEPT !.server = @ \cup {session}],
         net' = net \cup PacketsOf("client", address, m),
         server'.phase # "finish", UNCHANGED client
  PROVE  MutualInv' /\ IsMessage(m)
<1> DEFINE cr == client.state.credential
           sig == Signature(Identity.key, server_finish_signable_bytes(TranscriptOf(cr, f)))
<1>1. m.signature = sig /\ m.kind = "ServerFinish" /\ IsMessage(m)
  <2> HIDE DEF sig
  <2>1. m = ServerFinish(sig)
    BY DEF sig
  <2>2. QED
    BY <2>1 DEF ServerFinish, IsMessage
<1>2. Finishes(net') = Finishes(net)
  BY <1>1, SameFinishes
<1>3. /\ \A x \in Mail(net', "server") : x \in Mail(net, "server")
      /\ \A x \in Mail(net', "client") : x \in Mail(net, "client") \/ x = m
  BY <1>1, MailAdds
<1>4. done'.client = done.client /\ done'.server = done.server \cup {session}
  <2> DEFINE all == done.server \cup {session}
  <2>1. done' = [done EXCEPT !.server = all]
    OBVIOUS
  <2> HIDE DEF all
  <2>2. done' = [client |-> done.client, server |-> all]
    BY <2>1
  <2>3. QED
    BY <2>2 DEF all
<1>5. MutualClient(client, net')
  BY <1>2 DEF MutualInv, MutualClient, Finished
<1>6. FinishesOK(net', cr, client.attempt)
  BY <1>2 DEF MutualInv, FinishesOK
<1>7. SessionsOK(net', cr, done'.server)
  BY <1>2, <1>4 DEF MutualInv, SessionsOK
<1>8. ServerFinishesOK(net', cr, done'.server)
  <2>1. ASSUME NEW x \in Mail(net', "client"), x.kind = "ServerFinish"
        PROVE  \E g \in Finishes(net) :
                 /\ x.signature = Signature(Identity.key, server_finish_signable_bytes(TranscriptOf(cr, g)))
                 /\ SessionOf(cr, g) \in done'.server /\ Answers(AnswerOf(g), AttemptOf(g))
    <3>1. CASE x = m
      BY <1>1, <1>4, <3>1
    <3>2. CASE x \in Mail(net, "client")
      BY <1>4, <2>1, <3>2 DEF MutualInv, ServerFinishesOK
    <3>3. QED
      BY <1>3, <3>1, <3>2
  <2>2. QED
    BY <1>2, <2>1 DEF ServerFinishesOK
<1>9. QED
  BY <1>1, <1>3, <1>4, <1>5, <1>6, <1>7, <1>8 DEF MutualInv

----------------------------------------------------------------------------
(* Steps of the simple profile. *)

\* Neither end sends or completes anything.
LEMMA QuietSimple ==
  ASSUME SimpleInv, UNCHANGED <<net, done>>, client'.state = client.state,
         \A n \in Int : Used(server, n) => Used(server', n)
  PROVE  SimpleInv'
<1>1. SimpleSessionsOK(server', done.server)
  BY DEF SimpleInv, SimpleSessionsOK
<1>2. QED
  BY <1>1 DEF SimpleInv, Profile

\* The packets of a new attempt.
LEMMA ConnectSimple ==
  ASSUME ClientOK(client), Profile # "mutual", SimpleInv, Connect
  PROVE  SimpleInv'
<1> DEFINE cr == client.state.credential
           a == client.attempt + 1
           hello == SimpleHello(Profile, cr, a)
<1>1. /\ client'.state.credential = cr /\ client'.state.profile = Profile
      /\ net' = net \cup PacketsOf("server", a, hello) /\ UNCHANGED <<server, done>>
  BY DEF Connect, start, Profile, SimpleHello
<1>2. IsMessage(hello) /\ a \in Nat \ {0}
  BY DEF SimpleHello, ClientHello, IsMessage, ClientOK
<1> HIDE DEF hello
<1>3. \A p \in PacketsOf("server", a, hello) : p.to = "server" /\ p.address = a /\ p.message = hello
  BY DEF PacketsOf
<1>4. SimplePackets(Profile, cr, net', done.server)
  BY <1>1, <1>2, <1>3 DEF SimpleInv, SimplePackets, hello
<1>5. QED
  BY <1>1, <1>4 DEF SimpleInv, Profile

\* A response as it was sent is to the client's hello, or to a mixed one.
LEMMA ConnectedSimple ==
  ASSUME ClientOK(client), SimpleInv, Profile # "mutual",
         done = [client |-> done.client, server |-> done.server],
         NEW p \in net, p.to = "client", p.address = client.attempt,
         NEW m, OneChunk => m = p.message,
         HandleSimpleServerHello(client.state, m).ok, client.attempt # 0,
         client'.state = client.state,
         done' = [done EXCEPT !.client = @ \cup {HandleSimpleServerHello(client.state, m).value}],
         UNCHANGED <<server, net>>
  PROVE  SimpleInv'
<1> DEFINE cr == client.state.credential
           st == client.state
           session == HandleSimpleServerHello(st, m).value
           root == derive_pq_simple_root(Decapsulate(st.nonce, m.ciphertext), <<st.hello, m>>)
<1>1. session = Completed(root, st.nonce, m.nonce)
  BY DEF HandleSimpleServerHello, Failed, Done
<1>2. PICK t \in done.server :
        /\ p.message = SimpleResponse(HelloIn(t), t.server_nonce)
        /\ HelloIn(t).key # NobodysKey => HelloIn(t) = SimpleHello(Profile, cr, p.address)
  BY DEF SimpleInv, SimplePackets
<1>3. t = SimpleSession(HelloIn(t), t.server_nonce)
  BY DEF SimpleInv, SimpleSessionsOK
<1> DEFINE h == HelloIn(t)
           n == t.server_nonce
<1> HIDE DEF h, n
<1>4. /\ OneChunk => m = SimpleResponse(h, n)
      /\ t = SimpleSession(h, n)
      /\ h.key # NobodysKey => h = SimpleHello(Profile, cr, p.address)
  BY <1>2, <1>3 DEF h, n
<1>5. OneChunk => m.nonce = n /\ m.ciphertext = SimpleSecret(h, n)
  BY <1>4 DEF SimpleResponse, SimpleServerHello
<1>6. OneChunk /\ h.key # NobodysKey => root = t.root
  <2> SUFFICES ASSUME OneChunk, h.key # NobodysKey PROVE root = t.root
    OBVIOUS
  <2>1. h = st.hello /\ h.key = client.attempt /\ st.nonce = client.attempt
    BY <1>4 DEF ClientOK, SimpleHello, ClientHello, Profile
  <2>2. m.ciphertext.to = st.nonce
    BY <1>5, <2>1 DEF SimpleSecret, Encapsulate
  <2>3. Decapsulate(st.nonce, m.ciphertext) = SimpleSecret(h, n).secret
    BY <1>5, <2>2 DEF Decapsulate
  <2>4. t.root = derive_pq_simple_root(SimpleSecret(h, n).secret, <<h, SimpleResponse(h, n)>>)
    BY <1>4 DEF SimpleSession, Completed
  <2>5. QED
    BY <1>4, <2>1, <2>3, <2>4
<1>7. OneChunk => session.server_nonce = n /\ session.root = root
  BY <1>1, <1>5 DEF Completed
<1>8. done'.client = done.client \cup {session} /\ done'.server = done.server
  <2> DEFINE all == done.client \cup {session}
  <2>1. done' = [done EXCEPT !.client = all]
    OBVIOUS
  <2> HIDE DEF all
  <2>2. done' = [client |-> all, server |-> done.server]
    BY <2>1
  <2>3. QED
    BY <2>2 DEF all
<1> HIDE DEF session, root
<1>9. OneChunk => SimpleCompleted(done'.client, done.server)
  <2> SUFFICES ASSUME OneChunk PROVE SimpleCompleted(done'.client, done.server)
    OBVIOUS
  <2>1. \E u \in done.server :
          session.server_nonce = u.server_nonce /\ (HelloIn(u).key # NobodysKey => session.root = u.root)
    BY <1>6, <1>7 DEF h, n
  <2>2. QED
    BY <1>8, <2>1 DEF SimpleInv, SimpleCompleted
<1>10. QED
  BY <1>8, <1>9 DEF SimpleInv, Profile

\* A session with a new nonce, for a hello of the client or a mixed one.
LEMMA AcceptedSimple ==
  ASSUME SimpleInv, done = [client |-> done.client, server |-> done.server],
         NEW h, NEW address, h.key = NobodysKey \/ h = SimpleHello(Profile, client.state.credential, address),
         respond_to_simple_client_hello(h, ServerNonce).ok,
         done' = [done EXCEPT !.server = @ \cup {respond_to_simple_client_hello(h, ServerNonce).value.completed}],
         net' = net \cup PacketsOf("client", address,
                                   respond_to_simple_client_hello(h, ServerNonce).value.outbound),
         \A n \in Int : Used(server, n) => Used(server', n),
         Used(server', ServerNonce), ~ Used(server, ServerNonce), ServerNonce \in Int,
         UNCHANGED client
  PROVE  SimpleInv' /\ IsMessage(respond_to_simple_client_hello(h, ServerNonce).value.outbound)
<1> DEFINE n == ServerNonce
           m == SimpleResponse(h, n)
           session == SimpleSession(h, n)
           cr == client.state.credential
<1>1. /\ respond_to_simple_client_hello(h, n).value.completed = session
      /\ respond_to_simple_client_hello(h, n).value.outbound = m
  BY DEF respond_to_simple_client_hello, Failed, Done, SimpleSession, SimpleResponse, SimpleSecret
<1>2. done'.client = done.client /\ done'.server = done.server \cup {session}
  <2> DEFINE all == done.server \cup {session}
  <2>1. done' = [done EXCEPT !.server = all]
    BY <1>1
  <2> HIDE DEF all
  <2>2. done' = [client |-> done.client, server |-> all]
    BY <2>1
  <2>3. QED
    BY <2>2 DEF all
<1> HIDE DEF n
<1>3. IsMessage(m)
  BY DEF SimpleResponse, SimpleServerHello, IsMessage
<1>4. session.server_nonce = n /\ HelloIn(session) = h
  <2> DEFINE secret == SimpleSecret(h, n).secret
  <2> HIDE DEF secret, m
  <2>1. session = Completed(<<"simple", StreamId, Direction, secret, <<h, m>>>>, h.nonce, n)
    BY DEF SimpleSession, derive_pq_simple_root, secret, m
  <2>2. QED
    BY <2>1 DEF Completed, HelloIn
<1> HIDE DEF m, session
<1>5. \A p \in PacketsOf("client", address, m) : p.to = "client" /\ p.address = address /\ p.message = m
  BY DEF PacketsOf
<1>6. net' = net \cup PacketsOf("client", address, m)
  BY <1>1 DEF n
<1>7. /\ m = SimpleResponse(HelloIn(session), session.server_nonce)
      /\ session = SimpleSession(HelloIn(session), session.server_nonce)
  BY <1>4 DEF m, session
<1>8. SimplePackets(Profile, cr, net', done'.server)
  <2>1. ASSUME NEW p \in net'
        PROVE  \/ /\ p.to = "server" /\ p.address \in Nat \ {0}
                  /\ p.message = SimpleHello(Profile, cr, p.address)
               \/ /\ p.to = "client"
                  /\ \E t \in done'.server :
                       /\ p.message = SimpleResponse(HelloIn(t), t.server_nonce)
                       /\ HelloIn(t).key # NobodysKey => HelloIn(t) = SimpleHello(Profile, cr, p.address)
    <3>1. CASE p \in net
      BY <1>2, <3>1 DEF SimpleInv, SimplePackets
    <3>2. CASE p \in PacketsOf("client", address, m)
      <4>1. p.to = "client" /\ p.address = address /\ p.message = m
        BY <1>5, <3>2
      <4>2. session \in done'.server
        BY <1>2
      <4>3. HelloIn(session).key # NobodysKey => HelloIn(session) = SimpleHello(Profile, cr, p.address)
        BY <1>4, <4>1
      <4>4. QED
        BY <1>7, <4>1, <4>2, <4>3
    <3>3. QED
      BY <1>6, <3>1, <3>2
  <2>2. QED
    BY <2>1 DEF SimplePackets
<1>9. SimpleSessionsOK(server', done'.server)
  <2>1. \A t \in done.server : t.server_nonce \in Int /\ Used(server, t.server_nonce) /\ t.server_nonce # n
    BY DEF SimpleInv, SimpleSessionsOK, n
  <2>2. \A t \in done'.server : t = SimpleSession(HelloIn(t), t.server_nonce)
    BY <1>2, <1>7 DEF SimpleInv, SimpleSessionsOK
  <2>3. \A t \in done'.server : t.server_nonce \in Int /\ Used(server', t.server_nonce)
    BY <1>2, <1>4, <2>1 DEF n
  <2>4. \A t, u \in done'.server : t.server_nonce = u.server_nonce => t = u
    BY <1>2, <1>4, <2>1 DEF SimpleInv, SimpleSessionsOK
  <2>5. QED
    BY <2>2, <2>3, <2>4 DEF SimpleSessionsOK
<1>10. OneChunk => SimpleCompleted(done'.client, done'.server)
  BY <1>2 DEF SimpleInv, SimpleCompleted
<1>11. QED
  BY <1>1, <1>3, <1>8, <1>9, <1>10 DEF SimpleInv, Profile, n

----------------------------------------------------------------------------
(* Every step. *)

\* All mail is made of messages.
LEMMA MailIs ==
  ASSUME BaseInv, NEW end
  PROVE  /\ \A m \in Mail(net, end) : IsMessage(m)
         /\ \A p \in net : p.to = end => p.message \in Mail(net, end)
BY DEF BaseInv, IsPacket, Mail

\* The mail of a simple bootstrap.
LEMMA SimpleMail ==
  ASSUME SimpleInv, Profile # "mutual"
  PROVE  /\ \A m \in Mail(net, "client") : m.kind = "SimpleServerHello"
         /\ \A m \in Mail(net, "server") : m.kind = "SimpleClientHello"
<1>1. \A t : SimpleResponse(HelloIn(t), t.server_nonce).kind = "SimpleServerHello"
  BY DEF SimpleResponse, SimpleServerHello
<1>2. \A a : SimpleHello(Profile, client.state.credential, a).kind = "SimpleClientHello"
  BY DEF SimpleHello, ClientHello
<1>3. QED
  BY <1>1, <1>2 DEF SimpleInv, SimplePackets, Mail

\* A step in which nothing is sent or completed.
LEMMA QuietKeeps ==
  ASSUME BootInv, UNCHANGED <<net, done>>,
         ClientOK(client'), ServerOK(server'),
         client'.attempt = client.attempt, client'.state = client.state,
         client'.phase \in {client.phase, "failed"},
         server'.phase = "finish" => server.phase = "finish" /\ server'.state = server.state,
         \A n \in Int : Used(server, n) => Used(server', n),
         Holds(client'.buffer, Mail(net, "client")), Holds(server'.buffer, Mail(net, "server"))
  PROVE  BootInv'
<1>1. BaseInv'
  BY DEF BootInv, BaseInv
<1>2. Profile' = Profile
  BY DEF Profile
<1>3. Profile = "mutual" => MutualInv'
  BY QuietMutual DEF BootInv
<1>4. Profile # "mutual" => SimpleInv'
  BY QuietSimple DEF BootInv
<1>5. QED
  BY <1>1, <1>2, <1>3, <1>4 DEF BootInv

\* The client gives up or waits on.
LEMMA ClientWaits ==
  ASSUME BootInv, client.phase \in {"hello", "finish"}, UNCHANGED <<server, net, done>>,
         \/ client' = [client EXCEPT !.phase = "failed"]
         \/ \E b : client' = [client EXCEPT !.buffer = b] /\ Holds(b, Mail(net, "client"))
  PROVE  BootInv'
<1>1. ClientOK(client) /\ IsClient(client) /\ Holds(client.buffer, Mail(net, "client"))
  BY DEF BootInv, BaseInv, ClientOK
<1>2. \E ph \in {client.phase, "failed"} : \E b :
        /\ client' = [attempt |-> client.attempt, phase |-> ph, buffer |-> b, state |-> client.state]
        /\ Holds(b, Mail(net, "client"))
  <2>1. CASE client' = [client EXCEPT !.phase = "failed"]
    <3> DEFINE f == "failed"
    <3> HIDE DEF f
    <3>1. [client EXCEPT !.phase = f] =
            [attempt |-> client.attempt, phase |-> f, buffer |-> client.buffer, state |-> client.state]
      BY <1>1, ClientWith
    <3>2. client' =
            [attempt |-> client.attempt, phase |-> f, buffer |-> client.buffer, state |-> client.state]
      BY <2>1, <3>1 DEF f
    <3>3. QED
      BY <1>1, <3>2 DEF f
  <2>2. ASSUME NEW b, client' = [client EXCEPT !.buffer = b], Holds(b, Mail(net, "client"))
        PROVE  /\ client' = [attempt |-> client.attempt, phase |-> client.phase, buffer |-> b, state |-> client.state]
               /\ Holds(b, Mail(net, "client"))
    BY <1>1, <2>2, ClientWith
  <2>3. QED
    BY <2>1, <2>2
<1>3. PICK ph \in {client.phase, "failed"} : \E b :
        /\ client' = [attempt |-> client.attempt, phase |-> ph, buffer |-> b, state |-> client.state]
        /\ Holds(b, Mail(net, "client"))
  BY <1>2
<1>4. PICK b : /\ client' = [attempt |-> client.attempt, phase |-> ph, buffer |-> b, state |-> client.state]
               /\ Holds(b, Mail(net, "client"))
  BY <1>3
<1>5. ClientOK(client')
  BY <1>1, <1>3, <1>4 DEF ClientOK, IsClient
<1>6. ServerOK(server) /\ Holds(server.buffer, Mail(net, "server"))
  BY DEF BootInv, BaseInv
<1>7. QED
  BY <1>3, <1>4, <1>5, <1>6, QuietKeeps

\* The server gives up or waits on.
LEMMA ServerWaits ==
  ASSUME BootInv, server.phase \in {"hello", "finish"}, UNCHANGED <<client, net, done>>,
         \/ server' = NextAccept
         \/ \E b : server' = [server EXCEPT !.buffer = b] /\ Holds(b, Mail(net, "server"))
  PROVE  BootInv'
<1>1. ServerOK(server) /\ IsServer(server)
  BY DEF BootInv, BaseInv, ServerOK
<1>2. ClientOK(client) /\ Holds(client.buffer, Mail(net, "client"))
  BY DEF BootInv, BaseInv
<1>3. CASE server' = NextAccept
  <2>1. /\ ServerOK(server') /\ server'.phase # "finish"
        /\ \A n \in Int : Used(server, n) => Used(server', n)
        /\ server'.buffer = EmptyBuffer
    BY <1>1, <1>3, NextAcceptIs
  <2>2. Holds(server'.buffer, Mail(net, "server"))
    BY <2>1, HoldsNothing
  <2>3. QED
    BY <1>2, <2>1, <2>2, QuietKeeps
<1>4. ASSUME NEW b, server' = [server EXCEPT !.buffer = b], Holds(b, Mail(net, "server"))
      PROVE  BootInv'
  <2>1. server' = [accept |-> server.accept, phase |-> server.phase, peer |-> server.peer, buffer |-> b,
                   state |-> server.state]
    BY <1>1, <1>4 DEF IsServer
  <2>2. ServerOK(server') /\ \A n \in Int : Used(server, n) => Used(server', n)
    BY <1>1, <2>1 DEF ServerOK, IsServer, Used
  <2>3. QED
    BY <1>2, <1>4, <2>1, <2>2, QuietKeeps
<1>5. QED
  BY <1>3, <1>4

\* What is sent keeps the packets and the buffers as they were.
LEMMA SendKeeps ==
  ASSUME BaseInv, NEW to \in {"client", "server"}, NEW address, NEW m, IsMessage(m),
         net' = net \cup PacketsOf(to, address, m)
  PROVE  /\ \A p \in net' : IsPacket(p)
         /\ \A b, end : Holds(b, Mail(net, end)) => Holds(b, Mail(net', end))
<1>1. \A p \in PacketsOf(to, address, m) : IsPacket(p)
  BY PacketsAre
<1>2. \A end : Mail(net, end) \subseteq Mail(net', end)
  BY MailAdds
<1>3. QED
  BY <1>1, <1>2, HoldsMore DEF BaseInv

\* The next attempt.
LEMMA ConnectKeeps ==
  ASSUME BootInv, Connect
  PROVE  BootInv'
<1> DEFINE a == client.attempt + 1
           cr == client.state.credential
           st == start(Profile, a, cr)
           hello == ClientHello(Profile, a, a, cr)
<1>1. ClientOK(client) /\ BaseInv
  BY DEF BootInv, BaseInv
<1>2. a \in Nat /\ a # 0
  BY <1>1 DEF ClientOK
<1>3. /\ st = [profile |-> Profile, nonce |-> a, credential |-> cr, hello |-> hello,
               server_nonce |-> 0, transcript |-> << >>, root |-> << >>]
      /\ client' = [attempt |-> a, phase |-> "hello", buffer |-> EmptyBuffer, state |-> st]
      /\ net' = net \cup PacketsOf("server", a, st.hello) /\ UNCHANGED <<server, done>>
  BY DEF Connect, start
<1>4. IsMessage(hello)
  BY DEF ClientHello, IsMessage
<1> HIDE DEF st
<1>5. st.hello = hello /\ IsState(st) /\ st.nonce = a /\ st.profile = Profile /\ st.credential = cr
  BY <1>3 DEF IsState
<1> HIDE DEF hello
<1>6. ClientOK(client')
  BY <1>2, <1>3, <1>5 DEF ClientOK, IsClient, hello
<1>7. net' = net \cup PacketsOf("server", a, hello)
  BY <1>3, <1>5
<1>8. /\ \A p \in net' : IsPacket(p)
      /\ \A b, end : Holds(b, Mail(net, end)) => Holds(b, Mail(net', end))
  BY <1>1, <1>4, <1>7, SendKeeps
<1>9. BaseInv'
  <2>1. Holds(client'.buffer, Mail(net', "client"))
    BY <1>3, HoldsNothing
  <2>2. Holds(server'.buffer, Mail(net', "server"))
    BY <1>1, <1>3, <1>8 DEF BaseInv
  <2>3. QED
    BY <1>1, <1>3, <1>6, <1>8, <2>1, <2>2 DEF BaseInv
<1>10. Profile' = Profile
  BY <1>3, <1>5 DEF Profile
<1>11. QED
  BY <1>1, <1>9, <1>10, ConnectMutual, ConnectSimple DEF BootInv

\* A packet that the client receives.
LEMMA ClientReceives ==
  ASSUME BootInv, NEW packet \in net, ClientReceive(packet)
  PROVE  BootInv'
<1> DEFINE mail == Mail(net, "client")
           inserted == Insert(client.buffer, packet)
           frame == inserted.value.frame.value
<1>1. /\ BaseInv /\ ClientOK(client) /\ ServerOK(server) /\ Holds(client.buffer, mail) /\ IsPacket(packet)
      /\ done = [client |-> done.client, server |-> done.server]
      /\ Holds(server.buffer, Mail(net, "server"))
  BY DEF BootInv, BaseInv
<1>2. packet.to = "client" /\ packet.address = client.attempt /\ client.phase \in {"hello", "finish"}
  BY DEF ClientReceive
<1>3. packet.message \in mail /\ \A m \in mail : IsMessage(m)
  BY <1>1, <1>2, MailIs
<1>4. client.attempt # 0 /\ client.attempt \in Nat /\ IsClient(client) /\ client.phase # "idle"
  BY <1>1, <1>2 DEF ClientOK
<1>5. CASE ClientFails
  BY <1>2, <1>5, ClientWaits DEF ClientFails
<1>6. CASE /\ inserted.ok
           /\ client' = [client EXCEPT !.buffer = inserted.value.buffer]
           /\ UNCHANGED <<server, net, now, cache, done>>
  <2>1. Holds(inserted.value.buffer, mail)
    <3> HIDE DEF mail
    <3>1. QED
      BY <1>1, <1>3, <1>6, InsertKeeps
  <2>2. QED
    BY <1>2, <1>6, <2>1, ClientWaits
<1>7. CASE /\ inserted.ok /\ inserted.value.frame.ok /\ frame.kind = ClientExpects
           /\ ClientHandles(frame) /\ ~ ClientFails
  <2>1. Comes(frame, packet, mail)
    <3> HIDE DEF mail
    <3>1. QED
      BY <1>1, <1>3, <1>7, InsertKeeps
  <2> HIDE DEF inserted, frame
  <2>2. \/ frame = packet.message
        \/ \E m \in mail : frame = Garbled(m) /\ frame.kind = m.kind /\ ChunkCount[m.kind] # 1
    <3> HIDE DEF mail
    <3>1. QED
      BY <1>3, <2>1, ComesByKind
  <2>3. \E m \in mail : frame.kind = m.kind
    BY <1>3, <2>2
  <2>4. CASE frame.kind = "ServerHello"
    <3>1. client.phase = "hello" /\ Profile = "mutual"
      BY <1>2, <1>7, <2>4 DEF ClientExpects
    <3> DEFINE result == HandleServerHello(client.state, frame, Identity, now)
               st == result.value.state
               finish == result.value.finish
    <3>2. /\ result.ok
          /\ client' = [client EXCEPT !.phase = "finish", !.buffer = EmptyBuffer, !.state = st]
          /\ net' = net \cup PacketsOf("server", client.attempt, finish)
          /\ UNCHANGED <<server, now, cache, done>>
      BY <1>7, <2>4 DEF ClientHandles
    <3>3. client' = [attempt |-> client.attempt, phase |-> "finish", buffer |-> EmptyBuffer, state |-> st]
      <4> DEFINE ph == "finish"
                 b == EmptyBuffer
      <4> HIDE DEF ph, b, st
      <4>1. ClientAfter(client, ph, b, st) =
              [attempt |-> client.attempt, phase |-> ph, buffer |-> b, state |-> st]
        <5>1. IsClient(client)
          BY <1>4
        <5>2. QED
          BY <5>1, ClientAfterIs
      <4>2. QED
        BY <3>2, <4>1 DEF ph, b, ClientAfter
    <3>4. /\ MutualInv' /\ IsMessage(finish)
          /\ IsState(st) /\ st.nonce = client.state.nonce /\ st.hello = client.state.hello
          /\ st.profile = client.state.profile /\ st.credential = client.state.credential
      <4>1. MutualInv
        BY <3>1 DEF BootInv
      <4>2. client'.attempt = client.attempt /\ client'.phase = "finish" /\ client'.state = st
        BY <3>3
      <4>3. QED
        BY <1>1, <3>1, <3>2, <4>1, <4>2, FinishMutual
    <3> HIDE DEF st, finish, result
    <3>5. ClientOK(client')
      BY <1>1, <1>4, <3>3, <3>4, ClientMoves
    <3>6. /\ \A p \in net' : IsPacket(p)
          /\ \A b, end : Holds(b, Mail(net, end)) => Holds(b, Mail(net', end))
      BY <1>1, <3>2, <3>4, SendKeeps
    <3>7. BaseInv'
      BY <1>1, <3>2, <3>3, <3>5, <3>6, HoldsNothing DEF BaseInv
    <3>8. Profile' = Profile
      BY <3>3, <3>4 DEF Profile
    <3>9. QED
      BY <3>1, <3>4, <3>7, <3>8 DEF BootInv
  <2>5. CASE frame.kind = "ServerFinish"
    <3>1. client.phase = "finish"
      BY <1>2, <1>7, <2>5 DEF ClientExpects
    <3>2. Profile = "mutual"
      BY <2>3, <2>5, SimpleMail DEF BootInv
    <3>3. frame \in mail
      BY <1>3, <2>2, <2>5, GarbledKind
    <3> DEFINE result == handle_server_finish(client.state, frame, Identity)
    <3>4. result.ok /\ Connected(result.value)
      BY <1>7, <2>5 DEF ClientHandles
    <3>5. client' = [attempt |-> client.attempt, phase |-> "connected", buffer |-> client.buffer,
                     state |-> client.state]
      BY <1>4, <3>4 DEF Connected, IsClient
    <3>6. MutualInv'
      <4>1. MutualInv
        BY <3>2 DEF BootInv
      <4>2. client'.attempt = client.attempt /\ client'.phase = "connected" /\ client'.state = client.state
        BY <3>5
      <4>3. /\ done' = [done EXCEPT !.client = @ \cup {result.value}]
            /\ UNCHANGED <<server, net>>
        BY <3>4 DEF Connected
      <4>4. QED
        BY <1>1, <2>5, <3>1, <3>3, <3>4, <4>1, <4>2, <4>3, ConnectedMutual
    <3>7. BaseInv'
      <4>1. ClientOK(client')
        BY <1>1, <1>4, <3>5 DEF ClientOK, IsClient
      <4>2. done' = [client |-> done'.client, server |-> done'.server]
        <5> DEFINE all == done.client \cup {result.value}
        <5>1. done' = [done EXCEPT !.client = all]
          BY <3>4 DEF Connected
        <5> HIDE DEF all
        <5>2. QED
          BY <1>1, <5>1
      <4>3. QED
        BY <1>1, <3>4, <3>5, <4>1, <4>2 DEF BaseInv, Connected
    <3>8. Profile' = Profile
      BY <3>5 DEF Profile
    <3>9. QED
      BY <3>2, <3>6, <3>7, <3>8 DEF BootInv
  <2>6. CASE frame.kind = "SimpleServerHello"
    <3>1. Profile # "mutual"
      BY <1>2, <1>7, <2>6 DEF ClientExpects
    <3>2. OneChunk => frame = packet.message
      BY <2>2, <2>6 DEF OneChunk
    <3> DEFINE result == HandleSimpleServerHello(client.state, frame)
    <3>3. result.ok /\ Connected(result.value)
      BY <1>7, <2>6 DEF ClientHandles
    <3>4. client' = [attempt |-> client.attempt, phase |-> "connected", buffer |-> client.buffer,
                     state |-> client.state]
      BY <1>4, <3>3 DEF Connected, IsClient
    <3>5. SimpleInv'
      <4>1. SimpleInv
        BY <3>1 DEF BootInv
      <4>2. client'.state = client.state
        BY <3>4
      <4>3. /\ done' = [done EXCEPT !.client = @ \cup {result.value}]
            /\ UNCHANGED <<server, net>>
        BY <3>3 DEF Connected
      <4>4. QED
        BY <1>1, <1>2, <1>4, <3>1, <3>2, <3>3, <4>1, <4>2, <4>3, ConnectedSimple
    <3>6. BaseInv'
      <4>1. ClientOK(client')
        BY <1>1, <1>4, <3>4 DEF ClientOK, IsClient
      <4>2. done' = [client |-> done'.client, server |-> done'.server]
        <5> DEFINE all == done.client \cup {result.value}
        <5>1. done' = [done EXCEPT !.client = all]
          BY <3>3 DEF Connected
        <5> HIDE DEF all
        <5>2. QED
          BY <1>1, <5>1
      <4>3. QED
        BY <1>1, <3>3, <3>4, <4>1, <4>2 DEF BaseInv, Connected
    <3>7. Profile' = Profile
      BY <3>4 DEF Profile
    <3>8. QED
      BY <3>1, <3>5, <3>6, <3>7 DEF BootInv
  <2>7. QED
    BY <1>7, <2>4, <2>5, <2>6 DEF ClientExpects
<1>8. QED
  BY <1>5, <1>6, <1>7 DEF ClientReceive

\* A packet that the server receives.
LEMMA ServerReceives ==
  ASSUME BootInv, NEW packet \in net, ServerReceive(packet)
  PROVE  BootInv'
<1> DEFINE mail == Mail(net, "server")
           inserted == Insert(server.buffer, packet)
           frame == inserted.value.frame.value
<1>1. /\ BaseInv /\ ClientOK(client) /\ ServerOK(server) /\ Holds(server.buffer, mail) /\ IsPacket(packet)
      /\ done = [client |-> done.client, server |-> done.server]
      /\ Holds(client.buffer, Mail(net, "client"))
  BY DEF BootInv, BaseInv
<1>2. packet.to = "server" /\ server.phase \in {"hello", "finish"}
  BY DEF ServerReceive
<1>3. packet.message \in mail /\ \A m \in mail : IsMessage(m)
  BY <1>1, <1>2, MailIs
<1>4. IsServer(server) /\ server.phase # "closed"
  BY <1>1, <1>2 DEF ServerOK
<1>5. CASE ServerFails
  BY <1>2, <1>5, ServerWaits DEF ServerFails
<1>6. CASE /\ inserted.ok
           /\ server' = [server EXCEPT !.buffer = inserted.value.buffer]
           /\ UNCHANGED <<client, net, now, cache, done>>
  <2>1. Holds(inserted.value.buffer, mail)
    <3> HIDE DEF mail
    <3>1. QED
      BY <1>1, <1>3, <1>6, InsertKeeps
  <2>2. QED
    BY <1>2, <1>6, <2>1, ServerWaits
<1>7. CASE /\ inserted.ok /\ inserted.value.frame.ok /\ frame.kind = ServerExpects
           /\ ServerHandles(frame, packet.address) /\ ~ ServerFails
  <2>1. Comes(frame, packet, mail)
    <3> HIDE DEF mail
    <3>1. QED
      BY <1>1, <1>3, <1>7, InsertKeeps
  <2> DEFINE address == packet.address
  <2> HIDE DEF inserted, frame
  <2>2. \/ frame = packet.message
        \/ \E m \in mail : frame = Garbled(m) /\ frame.kind = m.kind /\ ChunkCount[m.kind] # 1
    <3> HIDE DEF mail
    <3>1. QED
      BY <1>3, <2>1, ComesByKind
  <2>3. \E m \in mail : frame.kind = m.kind
    BY <1>3, <2>2
  <2>4. CASE frame.kind = "ClientHello"
    <3>1. Profile = "mutual"
      BY <1>2, <1>7, <2>4 DEF ServerExpects
    <3> DEFINE result == RespondToClientHello(Identity, cache, frame, now, ServerNonce)
               st == result.value.state
               m == result.value.outbound
    <3>2. /\ result.ok
          /\ server' = [server EXCEPT !.phase = "finish", !.peer = address, !.buffer = EmptyBuffer, !.state = st]
          /\ net' = net \cup PacketsOf("client", address, m)
          /\ UNCHANGED <<client, now, done>>
      BY <1>7, <2>4 DEF ServerHandles
    <3>3. server' = [accept |-> server.accept, phase |-> "finish", peer |-> address, buffer |-> EmptyBuffer,
                     state |-> st]
      <4> DEFINE ph == "finish"
                 b == EmptyBuffer
      <4> HIDE DEF ph, b, st, address
      <4>1. ServerAfter(server, ph, address, b, st) =
              [accept |-> server.accept, phase |-> ph, peer |-> address, buffer |-> b, state |-> st]
        <5>1. IsServer(server)
          BY <1>4
        <5>2. QED
          BY <5>1, ServerAfterIs
      <4>2. QED
        BY <3>2, <4>1 DEF ph, b, ServerAfter
    <3>4. MutualInv' /\ IsMessage(m)
      <4>1. MutualInv
        BY <3>1 DEF BootInv
      <4>2. server'.state = st
        BY <3>3
      <4> HIDE DEF address
      <4>3. QED
        BY <3>2, <4>1, <4>2, HelloMutual
    <3> HIDE DEF st, m, result
    <3>5. ServerOK(server')
      BY <1>1, <3>3 DEF ServerOK, IsServer
    <3>6. /\ \A p \in net' : IsPacket(p)
          /\ \A b, end : Holds(b, Mail(net, end)) => Holds(b, Mail(net', end))
      BY <1>1, <3>2, <3>4, SendKeeps
    <3>7. BaseInv'
      BY <1>1, <3>2, <3>3, <3>5, <3>6, HoldsNothing DEF BaseInv
    <3>8. Profile' = Profile
      BY <3>2 DEF Profile
    <3>9. QED
      BY <3>1, <3>4, <3>7, <3>8 DEF BootInv
  <2>5. CASE frame.kind = "ClientFinish"
    <3>1. server.phase = "finish"
      BY <1>2, <1>7, <2>5 DEF ServerExpects
    <3>2. Profile = "mutual" /\ MutualInv
      BY <2>3, <2>5, SimpleMail DEF BootInv
    <3> DEFINE result == handle_client_finish(server.state, frame, Identity)
               session == result.value.completed
               m == result.value.outbound
               cr == client.state.credential
    <3>3. result.ok /\ Accepted(session, address, m)
      BY <1>7, <2>5 DEF ServerHandles
    <3>4. /\ frame \in Finishes(net) /\ Answers(AnswerOf(frame), AttemptOf(frame))
          /\ session = SessionOf(cr, frame)
          /\ m = ServerFinish(Signature(Identity.key, server_finish_signable_bytes(TranscriptOf(cr, frame))))
      <4>1. Responded(server.state)
        BY <3>1, <3>2 DEF MutualInv
      <4>2. frame \in mail \/ \E x \in mail : frame = Garbled(x) /\ frame.kind = x.kind
        BY <1>3, <2>2
      <4>3. QED
        BY <1>3, <2>5, <3>2, <3>3, <4>1, <4>2, FinishTaken
    <3>5. /\ server' = NextAccept /\ UNCHANGED client
          /\ done' = [done EXCEPT !.server = @ \cup {session}]
          /\ net' = net \cup PacketsOf("client", address, m)
      BY <3>3 DEF Accepted
    <3>6. ServerOK(server') /\ server'.phase # "finish" /\ server'.buffer = EmptyBuffer
      BY <1>1, <1>4, <3>5, NextAcceptIs
    <3> HIDE DEF session, m, result, address
    <3>7. MutualInv' /\ IsMessage(m)
      BY <1>1, <3>2, <3>4, <3>5, <3>6, AcceptedMutual
    <3>8. done' = [client |-> done'.client, server |-> done'.server]
      <4> DEFINE all == done.server \cup {session}
      <4>1. done' = [done EXCEPT !.server = all]
        BY <3>5
      <4> HIDE DEF all
      <4>2. QED
        BY <1>1, <4>1
    <3>9. /\ \A p \in net' : IsPacket(p)
          /\ \A b, end : Holds(b, Mail(net, end)) => Holds(b, Mail(net', end))
      BY <1>1, <3>5, <3>7, SendKeeps
    <3>10. BaseInv'
      BY <1>1, <3>5, <3>6, <3>8, <3>9, HoldsNothing DEF BaseInv
    <3>11. Profile' = Profile
      BY <3>5 DEF Profile
    <3>12. QED
      BY <3>2, <3>7, <3>10, <3>11 DEF BootInv
  <2>6. CASE frame.kind = "SimpleClientHello"
    <3>1. Profile # "mutual" /\ SimpleInv
      BY <1>2, <1>7, <2>6 DEF ServerExpects, BootInv
    <3> DEFINE result == respond_to_simple_client_hello(frame, ServerNonce)
               session == result.value.completed
               m == result.value.outbound
    <3>2. result.ok /\ Accepted(session, address, m)
      BY <1>7, <2>6 DEF ServerHandles
    <3>3. frame.key = NobodysKey \/ frame = SimpleHello(Profile, client.state.credential, address)
      <4>1. CASE frame = packet.message
        BY <1>2, <3>1, <4>1 DEF SimpleInv, SimplePackets
      <4>2. ASSUME NEW x \in mail, frame = Garbled(x), frame.kind = x.kind PROVE frame.key = NobodysKey
        BY <1>3, <2>6, <4>2, GarbledKind
      <4>3. QED
        BY <2>2, <4>1, <4>2
    <3>4. /\ server' = NextAccept /\ UNCHANGED client
          /\ done' = [done EXCEPT !.server = @ \cup {session}]
          /\ net' = net \cup PacketsOf("client", address, m)
      BY <3>2 DEF Accepted
    <3>5. /\ ServerOK(server') /\ server'.buffer = EmptyBuffer
          /\ \A n \in Int : Used(server, n) => Used(server', n)
          /\ Used(server', ServerNonce) /\ ~ Used(server, ServerNonce) /\ ServerNonce \in Int
      BY <1>1, <1>4, <3>4, NextAcceptIs
    <3> HIDE DEF address
    <3>6. SimpleInv' /\ IsMessage(m)
      BY <1>1, <3>1, <3>2, <3>3, <3>4, <3>5, AcceptedSimple
    <3> HIDE DEF session, m, result
    <3>7. done' = [client |-> done'.client, server |-> done'.server]
      <4> DEFINE all == done.server \cup {session}
      <4>1. done' = [done EXCEPT !.server = all]
        BY <3>4
      <4> HIDE DEF all
      <4>2. QED
        BY <1>1, <4>1
    <3>8. /\ \A p \in net' : IsPacket(p)
          /\ \A b, end : Holds(b, Mail(net, end)) => Holds(b, Mail(net', end))
      BY <1>1, <3>4, <3>6, SendKeeps
    <3>9. BaseInv'
      BY <1>1, <3>4, <3>5, <3>7, <3>8, HoldsNothing DEF BaseInv
    <3>10. Profile' = Profile
      BY <3>4 DEF Profile
    <3>11. QED
      BY <3>1, <3>6, <3>9, <3>10 DEF BootInv
  <2>7. QED
    BY <1>7, <2>4, <2>5, <2>6 DEF ServerExpects
<1>8. QED
  BY <1>5, <1>6, <1>7 DEF ServerReceive

----------------------------------------------------------------------------
(* The theorems. *)

\* Nothing has been sent.
LEMMA InitHolds == BootstrapInit => BootInv
<1> SUFFICES ASSUME BootstrapInit PROVE BootInv
  OBVIOUS
<1>1. PICK profile \in Profiles, credential \in Credentials :
        client = [attempt |-> 0, phase |-> "idle", buffer |-> EmptyBuffer, state |-> start(profile, 0, credential)]
  BY DEF BootstrapInit
<1>2. /\ server = [accept |-> 1, phase |-> "hello", peer |-> 0, buffer |-> EmptyBuffer, state |-> << >>]
      /\ net = {} /\ done = [client |-> {}, server |-> {}]
  BY DEF BootstrapInit
<1> DEFINE hello == ClientHello(profile, 0, 0, credential)
           st == [profile |-> profile, nonce |-> 0, credential |-> credential, hello |-> hello,
                  server_nonce |-> 0, transcript |-> << >>, root |-> << >>]
<1>3. client = [attempt |-> 0, phase |-> "idle", buffer |-> EmptyBuffer, state |-> st]
  BY <1>1 DEF start
<1> HIDE DEF hello
<1>4. IsState(st) /\ st.nonce = 0 /\ st.hello = hello /\ st.profile = profile /\ st.credential = credential
  BY DEF IsState
<1> HIDE DEF st
<1>5. ClientOK(client)
  BY <1>3, <1>4 DEF ClientOK, IsClient, hello
<1>6. ServerOK(server)
  BY <1>2 DEF ServerOK, IsServer
<1>7. BaseInv
  BY <1>2, <1>3, <1>5, <1>6, HoldsNothing DEF BaseInv
<1>8. \A end : Mail(net, end) = {}
  BY <1>2 DEF Mail
<1>9. Finishes(net) = {}
  BY <1>8 DEF Finishes
<1>10. MutualInv
  BY <1>2, <1>3, <1>8, <1>9
     DEF MutualInv, FinishesOK, ServerFinishesOK, SessionsOK, MutualClient
<1>11. SimpleInv
  BY <1>2 DEF SimpleInv, SimplePackets, SimpleSessionsOK, SimpleCompleted
<1>12. QED
  BY <1>7, <1>10, <1>11 DEF BootInv

\* Every step keeps the invariant.
LEMMA StepKeeps == BootInv /\ [BootstrapNext]_bootstrapVars => BootInv'
<1> SUFFICES ASSUME BootInv, [BootstrapNext]_bootstrapVars PROVE BootInv'
  OBVIOUS
<1>1. CASE Connect
  BY <1>1, ConnectKeeps
<1>2. CASE ClientTimeout
  BY <1>2, ClientWaits DEF ClientTimeout, ClientFails
<1>3. CASE ServerTimeout
  BY <1>3, ServerWaits DEF ServerTimeout, ServerFails
<1>4. CASE UNCHANGED <<client, server, net, done>>
  <2>1. /\ ClientOK(client) /\ ServerOK(server)
        /\ Holds(client.buffer, Mail(net, "client")) /\ Holds(server.buffer, Mail(net, "server"))
    BY DEF BootInv, BaseInv
  <2>2. QED
    BY <1>4, <2>1, QuietKeeps
<1>5. CASE \E packet \in net : ClientReceive(packet) \/ ServerReceive(packet)
  BY <1>5, ClientReceives, ServerReceives
<1>6. QED
  BY <1>1, <1>2, <1>3, <1>4, <1>5 DEF BootstrapNext, Tick, bootstrapVars

\* Every message that may still arrive is one an end sent, or is refused, and every
\* session of the server is told by the client's finish it was completed with.
THEOREM BootstrapInvariant == BootstrapSpec => []BootInv
BY InitHolds, StepKeeps, PTL DEF BootstrapSpec

\* The client answers one server hello in an attempt, so a hello that is repeated never
\* completes a second mutual session, whatever the replay cache holds.
THEOREM OneSession == BootstrapSpec => []OneSessionPerHello
<1>1. BootInv => OneSessionPerHello
  <2> SUFFICES ASSUME BootInv, NEW s \in done.server, NEW t \in done.server,
                      Profile = "mutual", s.client_nonce = t.client_nonce
               PROVE  s = t
    BY DEF OneSessionPerHello
  <2> DEFINE cr == client.state.credential
  <2>1. PICK f \in Finishes(net) : s = SessionOf(cr, f)
    BY DEF BootInv, MutualInv, SessionsOK
  <2>2. PICK g \in Finishes(net) : t = SessionOf(cr, g)
    BY DEF BootInv, MutualInv, SessionsOK
  <2>3. s.client_nonce = AttemptOf(f) /\ t.client_nonce = AttemptOf(g)
    BY <2>1, <2>2 DEF SessionOf, Completed
  <2>4. f = g
    BY <2>3 DEF BootInv, MutualInv, FinishesOK
  <2>5. QED
    BY <2>1, <2>2, <2>4
<1>2. QED
  BY <1>1, BootstrapInvariant, PTL

\* What a mutual bootstrap and a simple one say about the roots of both ends.
MutualRootsAgree ==
  Profile = "mutual" =>
    /\ done.client \subseteq done.server
    /\ \A s \in done.server :
         (client.attempt = s.client_nonce /\ client.phase \in {"finish", "connected"}) =>
            client.state.root = s.root /\ client.state.server_nonce = s.server_nonce

\* Both ends of a mutual bootstrap have one root, however its messages are cut.
THEOREM MutualAgrees == BootstrapSpec => []MutualRootsAgree
<1>1. BootInv => MutualRootsAgree
  <2> SUFFICES ASSUME BootInv, Profile = "mutual" PROVE
                 /\ done.client \subseteq done.server
                 /\ \A s \in done.server :
                      (client.attempt = s.client_nonce /\ client.phase \in {"finish", "connected"}) =>
                         client.state.root = s.root /\ client.state.server_nonce = s.server_nonce
    BY DEF MutualRootsAgree
  <2>1. done.client \subseteq done.server
    BY DEF BootInv, MutualInv
  <2>2. ASSUME NEW s \in done.server, client.attempt = s.client_nonce, client.phase \in {"finish", "connected"}
        PROVE  client.state.root = s.root /\ client.state.server_nonce = s.server_nonce
    <3> DEFINE cr == client.state.credential
               a == client.attempt
    <3>1. PICK f \in Finishes(net) : s = SessionOf(cr, f) /\ Answers(AnswerOf(f), AttemptOf(f))
      BY DEF BootInv, MutualInv, SessionsOK
    <3>2. PICK g \in Finishes(net) :
            /\ AttemptOf(g) = a
            /\ client.state.server_nonce = AnswerOf(g).nonce
            /\ client.state.root = RootOf(cr, g, Decapsulate(a, AnswerOf(g).ciphertext))
      BY <2>2 DEF BootInv, MutualInv, MutualClient, Finished
    <3>3. /\ s.client_nonce = AttemptOf(f) /\ s.server_nonce = AnswerOf(f).nonce
          /\ s.root = RootOf(cr, f, AnswerOf(f).ciphertext.secret)
      BY <3>1 DEF SessionOf, Completed
    <3>4. f = g
      BY <2>2, <3>2, <3>3 DEF BootInv, MutualInv, FinishesOK
    <3>5. AnswerOf(f).ciphertext.to = AttemptOf(f)
      BY <3>1 DEF Answers, Encapsulate
    <3>6. Decapsulate(a, AnswerOf(f).ciphertext) = AnswerOf(f).ciphertext.secret
      BY <3>2, <3>4, <3>5 DEF Decapsulate
    <3>7. QED
      BY <3>2, <3>3, <3>4, <3>6
  <2>3. QED
    BY <2>1, <2>2
<1>2. QED
  BY <1>1, BootstrapInvariant, PTL

\* Both ends have one root, in either profile.
THEOREM RootsAreOne == ASSUME OneChunk PROVE BootstrapSpec => []RootsAgree
<1>1. BootInv /\ MutualRootsAgree => RootsAgree
  <2> SUFFICES ASSUME BootInv, MutualRootsAgree PROVE RootsAgree
    OBVIOUS
  <2>1. ASSUME Profile = "simple"
        PROVE  /\ \A c \in done.client, s \in done.server :
                    (c.server_nonce = s.server_nonce /\ s.root[5][1].key # NobodysKey) => c.root = s.root
               /\ \A s, t \in done.server : s.root = t.root => s = t
    <3>1. SimpleInv
      BY <2>1 DEF BootInv
    <3>2. \A s, t \in done.server : s.server_nonce = t.server_nonce => s = t
      BY <3>1 DEF SimpleInv, SimpleSessionsOK
    <3>3. ASSUME NEW c \in done.client, NEW s \in done.server,
                 c.server_nonce = s.server_nonce, s.root[5][1].key # NobodysKey
          PROVE  c.root = s.root
      <4>1. PICK t \in done.server :
              c.server_nonce = t.server_nonce /\ (HelloIn(t).key # NobodysKey => c.root = t.root)
        BY <3>1, OneChunk DEF SimpleInv, SimpleCompleted
      <4>2. QED
        BY <3>2, <3>3, <4>1 DEF HelloIn
    <3>4. ASSUME NEW s \in done.server, NEW t \in done.server, s.root = t.root PROVE s = t
      <4>1. \A u \in done.server : u.root[5][2].nonce = u.server_nonce
        <5>1. ASSUME NEW u \in done.server PROVE u.root[5][2].nonce = u.server_nonce
          <6> DEFINE h == HelloIn(u)
                     n == u.server_nonce
                     m == SimpleResponse(h, n)
                     secret == SimpleSecret(h, n).secret
          <6>1. u = SimpleSession(h, n)
            BY <3>1 DEF SimpleInv, SimpleSessionsOK
          <6>2. m.nonce = n
            BY DEF SimpleResponse, SimpleServerHello
          <6> HIDE DEF h, n
          <6>3. u = Completed(<<"simple", StreamId, Direction, secret, <<h, m>>>>, h.nonce, n)
            BY <6>1 DEF SimpleSession, derive_pq_simple_root
          <6> HIDE DEF m, secret
          <6>4. u.root[5][2] = m
            BY <6>3 DEF Completed
          <6>5. QED
            BY <6>2, <6>4 DEF n
        <5>2. QED
          BY <5>1
      <4>2. QED
        BY <3>2, <3>4, <4>1
    <3>5. QED
      BY <3>3, <3>4
  <2>2. QED
    BY <2>1 DEF RootsAgree, MutualRootsAgree
<1>2. QED
  BY <1>1, BootstrapInvariant, MutualAgrees, PTL
=============================================================================
