---------------------------- MODULE DatagramState ----------------------------
(***************************************************************************)
(* The buffers of the datagram transport (shared_protocol/src/datagram.rs):  *)
(* fragmentation of a transport frame, the sender's window of messages that  *)
(* may still be repaired, and the receiver's reassembly buffer.              *)
(* A frame is a sequence of payload units; a message is a frame under its    *)
(* message id.  Ids and chunk indices start at 0, as in the code.            *)
(***************************************************************************)
EXTENDS Integers, FiniteSets, Sequences, SequencesExt

CONSTANTS ChunkSize,     \* target_datagram_payload_size_bytes
          MaxChunks,     \* max_chunks_per_message
          MaxInFlight,   \* max_in_flight_messages
          MaxAttempts    \* max_repair_attempts

ASSUME ReliabilityAssumption ==
  /\ ChunkSize \in Nat \ {0}
  /\ MaxChunks \in Nat \ {0}
  /\ MaxInFlight \in Nat
  /\ MaxAttempts \in Nat

----------------------------------------------------------------------------
(* Packets. *)

DataPacket(id, index, count, payload) ==
  [kind |-> "Data", id |-> id, index |-> index, count |-> count, payload |-> payload]

AckPacket(id) == [kind |-> "Ack", id |-> id]

RepairPacket(id, ranges) == [kind |-> "RepairRequest", id |-> id, ranges |-> ranges]

ClosePacket == [kind |-> "Close"]

----------------------------------------------------------------------------
(* Fragmentation. *)

\* Seeded fault: division rounds down.
FaultyChunkCount(frame) == Len(frame) \div ChunkSize

ChunkCount(frame) == (Len(frame) + ChunkSize - 1) \div ChunkSize

fragment_transport_frame(frame) ==
  [i \in 1 .. ChunkCount(frame) |->
     SubSeq(frame, (i - 1) * ChunkSize + 1,
            IF i * ChunkSize < Len(frame) THEN i * ChunkSize ELSE Len(frame))]

PacketsOf(id, chunks) ==
  {DataPacket(id, i - 1, Len(chunks), chunks[i]) : i \in DOMAIN chunks}

----------------------------------------------------------------------------
(* The sender's window: a function from message ids to pending messages. *)

Pending(chunks) == [chunks |-> chunks, repair_attempts |-> 0]

\* The oldest messages fall out of a window that is over its limit.
WindowInsert(window, id, chunks) ==
  LET ids == DOMAIN window \cup {id}
      kept == {k \in ids : Cardinality({j \in ids : j >= k}) <= MaxInFlight}
  IN [k \in kept |-> IF k = id THEN Pending(chunks) ELSE window[k]]

acknowledge(window, id) == [k \in DOMAIN window \ {id} |-> window[k]]

repair_packets_for_message(id, pending, ranges) ==
  {p \in PacketsOf(id, pending.chunks) :
     \E i \in DOMAIN ranges : ranges[i].first <= p.index /\ p.index <= ranges[i].last}

----------------------------------------------------------------------------
(* The reassembly buffer. *)

EmptyBuffer == [expected |-> 0, partial |-> << >>, completed |-> << >>]

\* A partial message with one more chunk; the first copy of a chunk is kept.
PartialInsert(part, index, payload) ==
  [part EXCEPT !.received =
     [i \in DOMAIN part.received \cup {index} |->
        IF i \in DOMAIN part.received THEN part.received[i] ELSE payload]]

\* One index of the loop of missing_ranges; start = -1 outside a gap.
RangeStep(part, acc, index) ==
  LET present == index \in DOMAIN part.received
  IN IF ~present /\ acc.start = -1 THEN [acc EXCEPT !.start = index]
     ELSE IF present /\ acc.start # -1
     THEN [start |-> -1,
           ranges |-> Append(acc.ranges, [first |-> acc.start, last |-> index - 1])]
     ELSE acc

\* Seeded fault: a gap at the end is not reported.
FaultyMissingRanges(part) ==
  LET step(acc, index) == RangeStep(part, acc, index)
  IN FoldLeft(step, [start |-> -1, ranges |-> << >>],
              [i \in 1 .. part.chunk_count |-> i - 1]).ranges

missing_ranges(part) ==
  LET step(acc, index) == RangeStep(part, acc, index)
      acc == FoldLeft(step, [start |-> -1, ranges |-> << >>],
                      [i \in 1 .. part.chunk_count |-> i - 1])
  IN IF acc.start = -1 THEN acc.ranges
     ELSE Append(acc.ranges, [first |-> acc.start, last |-> part.chunk_count - 1])

\* The chunks of a whole message, in order of their index.
into_payload(part) == FlattenSeq([i \in 1 .. part.chunk_count |-> part.received[i - 1]])

PartialFor(buf, p) ==
  IF p.id \in DOMAIN buf.partial THEN buf.partial[p.id]
  ELSE [chunk_count |-> p.count, received |-> << >>]

Completes(buf, p) ==
  Cardinality(DOMAIN PartialInsert(PartialFor(buf, p), p.index, p.payload).received) = p.count

\* insert_data knows nothing of messages already handed over: their chunks open
\* a new partial message, or complete it at once.
insert_data(buf, p) ==
  LET part == PartialInsert(PartialFor(buf, p), p.index, p.payload)
      others == DOMAIN buf.partial \ {p.id}
  IN IF Completes(buf, p)
     THEN [buf EXCEPT !.partial = [k \in others |-> buf.partial[k]],
                      !.completed = [k \in DOMAIN buf.completed \cup {p.id} |->
                                       IF k = p.id THEN into_payload(part) ELSE buf.completed[k]]]
     ELSE [buf EXCEPT !.partial = [k \in others \cup {p.id} |->
                                     IF k = p.id THEN part ELSE buf.partial[k]]]

\* Seeded fault: one message is handed over at a time.
FaultyReadyRun(buf) == IF buf.expected \in DOMAIN buf.completed THEN 1 ELSE 0

\* How many messages pop_next_ready hands over before it returns None.
ReadyRun(buf) ==
  CHOOSE n \in 0 .. Cardinality(DOMAIN buf.completed) :
    /\ \A k \in 0 .. n - 1 : buf.expected + k \in DOMAIN buf.completed
    /\ buf.expected + n \notin DOMAIN buf.completed

ReadyFrames(buf) == [i \in 1 .. ReadyRun(buf) |-> buf.completed[buf.expected + i - 1]]

\* The buffer after the ready messages were popped.
AfterReady(buf) ==
  LET n == ReadyRun(buf)
      left == DOMAIN buf.completed \ (buf.expected .. buf.expected + n - 1)
  IN [buf EXCEPT !.expected = @ + n, !.completed = [k \in left |-> buf.completed[k]]]

\* Seeded fault: a message is acknowledged when its first chunk arrives.
FaultyAcksFor(buf, p) == {AckPacket(p.id)}

\* The acknowledgements take_acknowledged hands out after insert_data.
AcksFor(buf, p) == IF Completes(buf, p) THEN {AckPacket(p.id)} ELSE {}
=============================================================================
