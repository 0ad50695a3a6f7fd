--------------------------- MODULE StreamProtector ---------------------------
(***************************************************************************)
(* The key ratchet of shared_protocol/src/protection.rs.  A StreamProtector *)
(* is a value: every method of the Rust type is an operator from protectors *)
(* to protectors, and the modules that hold protectors as state use them.   *)
(*                                                                         *)
(* HKDF and ChaCha20-Poly1305 are ideal.  A root is the list of the         *)
(* derivations that led to it, so two roots are equal only when the same    *)
(* derivations were made; a key is named by what it was derived from; a     *)
(* sealed payload opens under the key and the associated data it was        *)
(* sealed with and under no other.                                         *)
(*                                                                         *)
(* Definitions named Faulty... are seeded faults, each a plausible mistake   *)
(* in the operation defined after it.  No specification uses them; they      *)
(* show that the properties notice the mistake.                             *)
(***************************************************************************)
EXTENDS Integers, Sequences

CONSTANTS Bodies,   \* plaintexts of ordinary records
          Seeds,    \* random rekey seeds
          NoSeed    \* the mark of a derivation that uses no seed

ASSUME SeedAssumption == NoSeed \notin Seeds

----------------------------------------------------------------------------
(* Records.  "Exact" stands for every record type whose header may carry    *)
(* POST_REKEY_CONFIRM (data, batch, predictive, resync, memory records); a   *)
(* SourceMeta or Repair header admits no flag.  A rekey record carries its   *)
(* seed in "body" and the announced epoch in "next"; the others have         *)
(* next = 0.                                                                *)

RecordType == {"Exact", "SourceMeta", "Repair", "Rekey", "Close"}

Record ==
  {r \in [type : RecordType, epoch : Nat, seq : Nat, confirm : BOOLEAN,
          body : Bodies \cup Seeds, next : Nat] : r.type = "Rekey" => r.body \in Seeds}

\* The fields authenticated as associated data.
aad_bytes(r) == [type |-> r.type, epoch |-> r.epoch, seq |-> r.seq, confirm |-> r.confirm]

\* Header validation: SourceMeta and Repair headers admit no flag at all.
validate(r) == r.type \in {"SourceMeta", "Repair"} => ~r.confirm

----------------------------------------------------------------------------
(* Roots and keys. *)

Derivation == [epoch : Nat, seq : Nat, seed : Seeds \cup {NoSeed}]
Root == Seq(Derivation)

NextRoot(root, epoch, seq) == Append(root, [epoch |-> epoch, seq |-> seq, seed |-> NoSeed])

derive_rekey_root(root, epoch, seed) == Append(root, [epoch |-> epoch, seq |-> 0, seed |-> seed])

\* Seeded fault: one key for the whole stream.
FaultyRecordKey(root, epoch, seq) ==
  [label |-> "record", root |-> << >>, epoch |-> 0, seq |-> 0, count |-> 0]

RecordKey(root, epoch, seq) ==
  [label |-> "record", root |-> root, epoch |-> epoch, seq |-> seq, count |-> 0]

\* Seeded fault: the frame key does not depend on the root or the position.
FaultyFrameKey(root, epoch, seq, count) ==
  [label |-> "frame", root |-> << >>, epoch |-> 0, seq |-> 0, count |-> count]

FrameKey(root, epoch, seq, count) ==
  [label |-> "frame", root |-> root, epoch |-> epoch, seq |-> seq, count |-> count]

Key == [label : {"record", "frame"}, root : Root, epoch : Nat, seq : Nat, count : Nat]

----------------------------------------------------------------------------
(* The protector. *)

NoRekey == [epoch |-> 0, root |-> << >>]

PendingRekey == [epoch : Nat, root : Root]

StreamState == {"Opening", "Established", "RekeyPending", "Closed"}

Protector == [state : StreamState, epoch : Nat, seq : Nat, root : Root, pending : PendingRekey]

NewProtector ==
  [state |-> "Opening", epoch |-> 0, seq |-> 0, root |-> << >>, pending |-> NoRekey]

Closed(p) == p.state = "Closed"

post_rekey_confirm_required(p) == p.pending # NoRekey

expected_epoch_id(p) == IF post_rekey_confirm_required(p) THEN p.pending.epoch ELSE p.epoch

expected_seq_no(p) == IF post_rekey_confirm_required(p) THEN 0 ELSE p.seq

\* The root the next record is keyed from.
ActiveRoot(p) == IF post_rekey_confirm_required(p) THEN p.pending.root ELSE p.root

\* prepare_record_for_epoch: the confirm flag is added when a rekey is pending
\* and refused when none is; epoch and sequence number must be the next ones.
PrepareRefuses(p, r) ==
  \/ r.confirm /\ ~post_rekey_confirm_required(p)
  \/ r.epoch # expected_epoch_id(p)
  \/ r.seq # expected_seq_no(p)

\* Seeded fault: the confirm flag is not added.
FaultyPrepare(p, r) == r

prepare_record_for_epoch(p, r) ==
  [r EXCEPT !.confirm = r.confirm \/ post_rekey_confirm_required(p)]

\* Seeded fault: the receiver does not expect the sequence to restart.
FaultyHeaderIsDue(p, r) ==
  /\ r.confirm <=> post_rekey_confirm_required(p)
  /\ r.epoch = expected_epoch_id(p)
  /\ r.seq = p.seq

\* active_root_for returns a root only for the header that is due next.
HeaderIsDue(p, r) ==
  /\ r.confirm <=> post_rekey_confirm_required(p)
  /\ r.epoch = expected_epoch_id(p)
  /\ r.seq = expected_seq_no(p)

\* Seeded fault: the sequence number counts on across a rekey.
FaultyAdvanceOn(p, r) ==
  [state |-> "Established", epoch |-> expected_epoch_id(p), seq |-> p.seq + 1,
   root |-> NextRoot(ActiveRoot(p), r.epoch, r.seq), pending |-> NoRekey]

\* The first half of finish_success: the pending rekey, if any, takes effect
\* and the ratchet moves one step.
Advance(p, r) ==
  [state   |-> IF Closed(p) /\ ~post_rekey_confirm_required(p) THEN "Closed" ELSE "Established",
   epoch   |-> expected_epoch_id(p),
   seq     |-> r.seq + 1,
   root    |-> NextRoot(ActiveRoot(p), r.epoch, r.seq),
   pending |-> NoRekey]

\* The payload of a rekey must announce the epoch after the current one.
RekeyRefused(p, r) == r.next # p.epoch + 1

install_rekey(p, r) ==
  IF RekeyRefused(p, r) THEN p
  ELSE [p EXCEPT !.pending = [epoch |-> r.next,
                              root |-> derive_rekey_root(p.root, p.epoch, r.body)],
                 !.state = "RekeyPending"]

\* finish_success returns an error for a refused rekey only, and by then the
\* first half has already moved the protector.
FinishFails(p, r) == r.type = "Rekey" /\ RekeyRefused(Advance(p, r), r)

finish_success(p, r) ==
  CASE r.type = "Rekey" -> install_rekey(Advance(p, r), r)
    [] r.type = "Close" -> [Advance(p, r) EXCEPT !.state = "Closed"]
    [] OTHER -> Advance(p, r)

\* Seeded fault: an error leaves the stream open.
FaultyFail(p) == p

\* fail: any error while unprotecting closes the stream for good.
Fail(p) == [p EXCEPT !.pending = NoRekey, !.state = "Closed"]

----------------------------------------------------------------------------
(* The record interface. *)

\* A protected record on the wire: its header is in clear (part of rec), its
\* payload is sealed under key with aad.
Wire ==
  [rec : Record, key : Key,
   aad : [type : RecordType, epoch : Nat, seq : Nat, confirm : BOOLEAN]]

seal_payload(p, r) ==
  [rec |-> r, key |-> RecordKey(ActiveRoot(p), r.epoch, r.seq), aad |-> aad_bytes(r)]

open_payload(p, w) ==
  /\ w.key = RecordKey(ActiveRoot(p), w.rec.epoch, w.rec.seq)
  /\ w.aad = aad_bytes(w.rec)

\* protect_record on an open stream: an error found before the ratchet moves
\* leaves the protector alone, the error of finish_success does not.
ProtectFails(p, r) ==
  \/ PrepareRefuses(p, r)
  \/ FinishFails(p, prepare_record_for_epoch(p, r))

ProtectState(p, r) ==
  IF PrepareRefuses(p, r) THEN p ELSE finish_success(p, prepare_record_for_epoch(p, r))

protect_record(p, r) == seal_payload(p, prepare_record_for_epoch(p, r))

\* Seeded fault: the tag is not verified.
FaultyUnprotectAccepts(p, w) ==
  /\ validate(w.rec)
  /\ HeaderIsDue(p, w.rec)
  /\ ~FinishFails(p, w.rec)

\* unprotect_record on an open stream.
UnprotectAccepts(p, w) ==
  /\ validate(w.rec)
  /\ HeaderIsDue(p, w.rec)
  /\ open_payload(p, w)
  /\ ~FinishFails(p, w.rec)

\* Seeded fault: the ratchet does not move on success.
FaultyUnprotect(p, w) == IF UnprotectAccepts(p, w) THEN p ELSE Fail(p)

unprotect_record(p, w) ==
  IF UnprotectAccepts(p, w) THEN finish_success(p, w.rec) ELSE Fail(p)

\* make_rekey_payload announces the epoch after the CURRENT one, also while a
\* rekey is pending.
make_rekey_payload(p) == p.epoch + 1
=============================================================================
