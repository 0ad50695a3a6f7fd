----------------------------- MODULE DatagramLink -----------------------------
(***************************************************************************)
(* Two datagram sessions, one sending transport frames and one reading them  *)
(* (DatagramServerCore and DatagramClientCore over DatagramTransportState),   *)
(* with a network that loses, repeats and reorders datagrams between them.   *)
(***************************************************************************)
EXTENDS DatagramState

CONSTANTS Frames,     \* frames the application may send
          MaxFrames,  \* bound on the frames sent
          MaxLost,    \* bound on the datagrams lost
          MaxDup,     \* bound on the datagrams delivered again
          KeepsOne,   \* the network delivers at least one chunk of every message
          Patient,    \* the repair timeout is longer than any datagram's delay
          MayClose    \* the sender may close the session

ASSUME LinkAssumption ==
  /\ \A f \in Frames : f \in Seq(Range(f))
  /\ MaxFrames \in Nat /\ MaxLost \in Nat /\ MaxDup \in Nat
  /\ KeepsOne \in BOOLEAN /\ Patient \in BOOLEAN /\ MayClose \in BOOLEAN

VARIABLES snd,        \* the sending session
          rcv,        \* the reading session
          net,        \* datagrams in flight, in both directions
          log,        \* log[i] is the frame that was given message id i - 1
          delivered,  \* frames read_transport_frame returned
          lost, dups  \* how often the network misbehaved

vars == <<snd, rcv, net, log, delivered, lost, dups>>

Init ==
  /\ snd = [next |-> 0, window |-> << >>, closed |-> FALSE, failed |-> FALSE]
  /\ rcv = [buf |-> EmptyBuffer, attempts |-> << >>, closed |-> FALSE, failed |-> FALSE]
  /\ net = {}
  /\ log = << >>
  /\ delivered = << >>
  /\ lost = 0
  /\ dups = 0

Active(s) == ~s.closed /\ ~s.failed

----------------------------------------------------------------------------
(* The sending session. *)

TooLarge(frame) == ChunkCount(frame) > MaxChunks

\* encode_transport_frame takes the message id before it fragments, so a frame
\* that is too large uses one up.
encode_transport_frame(frame) ==
  LET chunks == fragment_transport_frame(frame)
  IN /\ Active(snd)
     /\ Len(log) < MaxFrames
     /\ log' = Append(log, frame)
     /\ IF TooLarge(frame)
        THEN /\ snd' = [snd EXCEPT !.next = @ + 1]
             /\ UNCHANGED net
        ELSE /\ snd' = [snd EXCEPT !.next = @ + 1,
                                   !.window = WindowInsert(@, snd.next, chunks)]
             /\ net' = net \cup PacketsOf(snd.next, chunks)
     /\ UNCHANGED <<rcv, delivered, lost, dups>>

SendFrame == \E f \in Frames : encode_transport_frame(f)

\* Several frames in one call, the last too large: the call returns the error, and
\* the chunks of the frame before it, already in the window, are never sent.
encode_transport_frames ==
  \E f, g \in Frames :
    /\ Active(snd)
    /\ Len(log) + 1 < MaxFrames
    /\ ~TooLarge(f) /\ TooLarge(g)
    /\ log' = Append(Append(log, f), g)
    /\ snd' = [snd EXCEPT !.next = @ + 2,
                          !.window = WindowInsert(@, snd.next, fragment_transport_frame(f))]
    /\ UNCHANGED <<rcv, net, delivered, lost, dups>>

\* A datagram that arrives leaves the network, unless the network repeats it.
Arrives(p, out) ==
  \/ net' = (net \ {p}) \cup out /\ UNCHANGED dups
  \/ dups < MaxDup /\ dups' = dups + 1 /\ net' = net \cup out

RecvAck ==
  \E p \in net :
    /\ p.kind = "Ack"
    /\ Active(snd)
    /\ snd' = [snd EXCEPT !.window = acknowledge(@, p.id)]
    /\ Arrives(p, {})
    /\ UNCHANGED <<rcv, log, delivered, lost>>

\* A repair request: each one counts against the message's budget.
RecvRepair ==
  \E p \in net :
    /\ p.kind = "RepairRequest"
    /\ Active(snd)
    /\ IF p.id \notin DOMAIN snd.window
       THEN Arrives(p, {}) /\ UNCHANGED snd
       ELSE LET pending == [snd.window[p.id] EXCEPT !.repair_attempts = @ + 1]
                over == pending.repair_attempts > MaxAttempts
            IN /\ snd' = [snd EXCEPT !.window[p.id] = pending, !.failed = over]
               /\ Arrives(p, IF over THEN {}
                             ELSE repair_packets_for_message(p.id, pending, p.ranges))
    /\ UNCHANGED <<rcv, log, delivered, lost>>

\* close: one Close datagram, not repeated and not acknowledged.
encode_close ==
  /\ MayClose
  /\ Active(snd)
  /\ snd' = [snd EXCEPT !.closed = TRUE]
  /\ net' = net \cup {ClosePacket}
  /\ UNCHANGED <<rcv, log, delivered, lost, dups>>

----------------------------------------------------------------------------
(* The reading session: the loop of read_transport_frame. *)

\* A chunk: insert it, acknowledge the message it completes, hand over what is
\* ready.  A chunk count that differs from the first one seen is an error.
RecvData ==
  \E p \in net :
    /\ p.kind = "Data"
    /\ Active(rcv)
    /\ IF PartialFor(rcv.buf, p).chunk_count # p.count
       THEN rcv' = [rcv EXCEPT !.failed = TRUE] /\ Arrives(p, {}) /\ UNCHANGED delivered
       ELSE LET buf == insert_data(rcv.buf, p)
            IN /\ rcv' = [rcv EXCEPT !.buf = AfterReady(buf)]
               /\ delivered' = delivered \o ReadyFrames(buf)
               /\ Arrives(p, AcksFor(rcv.buf, p))
    /\ UNCHANGED <<snd, log, lost>>

RecvClose ==
  /\ ClosePacket \in net
  /\ Active(rcv)
  /\ rcv' = [rcv EXCEPT !.closed = TRUE]
  /\ Arrives(ClosePacket, {})
  /\ UNCHANGED <<snd, log, delivered, lost>>

DataInFlight == {p \in net : p.kind = "Data"}

\* One request for every partial message.
RepairRequests(buf) ==
  {RepairPacket(id, missing_ranges(buf.partial[id])) : id \in DOMAIN buf.partial}

\* No datagram within repair_timeout_ms: build_repair_requests.  A message over
\* its budget is an error that ends the session.
RepairTimeout ==
  LET ids == DOMAIN rcv.buf.partial
      attempts == [k \in DOMAIN rcv.attempts \cup ids |->
                     (IF k \in DOMAIN rcv.attempts THEN rcv.attempts[k] ELSE 0)
                       + (IF k \in ids THEN 1 ELSE 0)]
      over == \E id \in ids : attempts[id] > MaxAttempts
  IN /\ Active(rcv)
     /\ ids # {}
     /\ Patient => net = {}
     /\ rcv' = [rcv EXCEPT !.attempts = attempts, !.failed = over]
     /\ net' = IF over THEN net ELSE net \cup RepairRequests(rcv.buf)
     /\ UNCHANGED <<snd, log, delivered, lost, dups>>

----------------------------------------------------------------------------
(* The network. *)

\* Some other chunk of the message of p is in flight or has arrived.
OtherChunkLeft(p) ==
  \/ \E q \in DataInFlight \ {p} : q.id = p.id
  \/ p.id \in DOMAIN rcv.buf.partial \cup DOMAIN rcv.buf.completed
  \/ p.id < rcv.buf.expected

Lose ==
  /\ lost < MaxLost
  /\ lost' = lost + 1
  /\ \E p \in net :
       /\ net' = net \ {p}
       /\ KeepsOne /\ p.kind = "Data" => OtherChunkLeft(p)
  /\ UNCHANGED <<snd, rcv, log, delivered, dups>>

----------------------------------------------------------------------------
Next == \/ SendFrame \/ encode_transport_frames \/ RecvAck \/ RecvRepair \/ encode_close
        \/ RecvData \/ RecvClose \/ RepairTimeout \/ Lose

Spec == Init /\ [][Next]_vars

\* Datagrams that are not lost arrive, and both sessions keep reading.
FairSpec == Spec /\ WF_vars(RecvData) /\ WF_vars(RecvRepair) /\ WF_vars(RecvAck)
                 /\ WF_vars(RepairTimeout)

----------------------------------------------------------------------------
PacketTypeOK(p) ==
  \/ p.kind = "Data" /\ p.index \in 0 .. p.count - 1
  \/ p.kind = "Ack" /\ p.id \in Nat
  \/ p.kind = "RepairRequest" /\ p.ranges # << >>
  \/ p = ClosePacket

\* Type invariant: the window stays within max_in_flight_messages, both ends speak of
\* message ids that were given out, and next_expected counts what was handed over.
TypeOK ==
  /\ snd.next = Len(log)
  /\ DOMAIN snd.window \subseteq 0 .. snd.next - 1
  /\ Cardinality(DOMAIN snd.window) <= MaxInFlight
  /\ DOMAIN rcv.buf.partial \cup DOMAIN rcv.buf.completed \subseteq 0 .. Len(log) - 1
  /\ rcv.buf.expected = Len(delivered)
  /\ \A p \in net : PacketTypeOK(p)

\* Frames come out whole, in the order they were sent and once each, whatever the
\* network loses, repeats or reorders and however often chunks are sent again.
FramesInOrder ==
  /\ Len(delivered) <= Len(log)
  /\ \A i \in DOMAIN delivered : delivered[i] = log[i]

\* A message leaves the send window, where repairs are served from, only when the
\* reader has the whole of it, as long as the window never overflowed: no
\* acknowledgement is ever premature.
RetiredIsWhole ==
  Len(log) <= MaxInFlight =>
    \A id \in 0 .. Len(log) - 1 :
      \/ id \in DOMAIN snd.window
      \/ TooLarge(log[id + 1])
      \/ id < rcv.buf.expected
      \/ id \in DOMAIN rcv.buf.completed

\* Neither session gives up: the repair budget is enough for the losses.
BudgetSuffices == ~snd.failed /\ ~rcv.failed

\* Every frame sent is delivered in the end.
EventuallyDelivered ==
  \A n \in 1 .. MaxFrames : Len(log) >= n ~> Len(delivered) >= n

\* A chunk that arrives again is ignored: the reader gives up only on a message
\* it has not handed over yet.
DuplicatesHarmless ==
  rcv.failed => \E id \in DOMAIN rcv.buf.partial : id >= rcv.buf.expected
=============================================================================
