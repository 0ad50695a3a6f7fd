-------------------------- MODULE DatagramLinkProofs --------------------------
(***************************************************************************)
(* Proofs about DatagramLink: over a network that loses, repeats and         *)
(* reorders datagrams, frames come out whole, in order and once each, and   *)
(* the sender retires a frame only when the receiver holds all of it.        *)
(*                                                                         *)
(* The invariant LinkInv says that every datagram that may still arrive is  *)
(* true: a chunk is a piece of the frame that was sent under its id, and an *)
(* acknowledgement names a frame the receiver holds.  A partial frame holds *)
(* pieces of its frame and a completed one is that frame, so what the       *)
(* receiver hands over is the log up to its next expected id.               *)
(***************************************************************************)
EXTENDS DatagramLink, Induction, FiniteSetTheorems

----------------------------------------------------------------------------
(* Frames and their chunks. *)

\* What frames are made of.
Units == UNION {Range(f) : f \in Frames}

\* The i-th chunk of a frame.
Piece(frame, i) ==
  SubSeq(frame, (i - 1) * ChunkSize + 1,
         IF i * ChunkSize < Len(frame) THEN i * ChunkSize ELSE Len(frame))

\* Where the first k chunks of a frame end.
EndOf(frame, k) == IF k * ChunkSize < Len(frame) THEN k * ChunkSize ELSE Len(frame)

\* A frame is a sequence of units.
LEMMA FrameIsSeq == ASSUME NEW f \in Frames PROVE f \in Seq(Units)
<1>1. f \in Seq(Range(f)) /\ Range(f) \subseteq Units
  BY LinkAssumption DEF Units
<1>2. QED
  BY <1>1

\* The chunks cover the frame, and the last one is not empty.
LEMMA ChunksCover ==
  ASSUME NEW f \in Seq(Units)
  PROVE  /\ ChunkCount(f) \in Nat /\ ChunkCount(f) * ChunkSize >= Len(f)
         /\ \A k \in Nat : k < ChunkCount(f) => k * ChunkSize < Len(f)
<1> DEFINE n == ChunkCount(f)
           L == Len(f)
           C == ChunkSize
<1>1. L \in Nat /\ C \in Nat \ {0} /\ n = (L + C - 1) \div C
  BY ReliabilityAssumption DEF ChunkCount
<1> HIDE DEF n, L, C
<1>2. n \in Nat /\ n * C >= L /\ (n - 1) * C < L
  BY <1>1
<1>3. ASSUME NEW k \in Nat, k < n PROVE k * C < L
  <2>1. n - 1 \in Nat /\ k <= n - 1
    BY <1>2, <1>3
  <2>2. \A a, b, c \in Nat : a <= b => a * c <= b * c
    OBVIOUS
  <2>3. k * C <= (n - 1) * C /\ k * C \in Nat /\ (n - 1) * C \in Nat
    BY <1>1, <2>1, <2>2
  <2>4. QED
    BY <1>1, <1>2, <2>3
<1>4. QED
  BY <1>2, <1>3 DEF n, L, C

\* Two parts of a sequence one after the other.
LEMMA SubSeqConcat ==
  ASSUME NEW s \in Seq(Units), NEW a \in Nat, NEW b \in Nat, a <= b, b <= Len(s)
  PROVE  SubSeq(s, 1, a) \o SubSeq(s, a + 1, b) = SubSeq(s, 1, b)
<1> DEFINE m == 1
<1>1. m \in 1 .. Len(s) + 1 /\ a \in m - 1 .. Len(s) /\ b \in a .. Len(s)
  OBVIOUS
<1> HIDE DEF m
<1>2. SubSeq(s, m, a) \o SubSeq(s, a + 1, b) = SubSeq(s, m, b)
  BY <1>1, ConcatAdjacentSubSeq
<1>3. QED
  BY <1>2 DEF m

\* A chunk is a sequence of units.
LEMMA PieceType ==
  ASSUME NEW f \in Seq(Units), NEW i \in 1 .. ChunkCount(f)
  PROVE  /\ Piece(f, i) = SubSeq(f, (i - 1) * ChunkSize + 1, EndOf(f, i))
         /\ Piece(f, i) \in Seq(Units)
         /\ EndOf(f, i - 1) = (i - 1) * ChunkSize /\ EndOf(f, i) \in 0 .. Len(f)
         /\ EndOf(f, i - 1) \in Nat /\ EndOf(f, i - 1) <= EndOf(f, i)
<1>1. Piece(f, i) = SubSeq(f, (i - 1) * ChunkSize + 1, EndOf(f, i))
  BY DEF Piece, EndOf
<1> DEFINE a == (i - 1) * ChunkSize
           c == i * ChunkSize
           L == Len(f)
<1>2. i \in Nat /\ i - 1 \in Nat /\ i - 1 < ChunkCount(f)
  BY ChunksCover
<1>3. a < L
  BY <1>2, ChunksCover
<1>4. a \in Nat /\ c \in Nat /\ a <= c /\ L \in Nat
  <2>1. \A x, y \in Nat : x >= 1 => (x - 1) * y \in Nat /\ x * y \in Nat /\ (x - 1) * y <= x * y
    OBVIOUS
  <2>2. QED
    BY <1>2, <2>1, ReliabilityAssumption
<1>5. EndOf(f, i - 1) = a /\ EndOf(f, i) = IF c < L THEN c ELSE L
  BY <1>3 DEF EndOf
<1> HIDE DEF a, c, L
<1>6. EndOf(f, i) \in 0 .. L /\ a <= EndOf(f, i)
  BY <1>3, <1>4, <1>5
<1>7. SubSeq(f, a + 1, EndOf(f, i)) \in Seq(Units)
  <2> DEFINE e == EndOf(f, i)
  <2>1. e \in 0 .. L /\ a \in Nat /\ L = Len(f)
    BY <1>4, <1>6 DEF L
  <2> HIDE DEF e
  <2>2. SubSeq(f, a + 1, e) \in Seq(Units)
    BY <2>1
  <2>3. QED
    BY <2>2 DEF e
<1>8. QED
  BY <1>1, <1>4, <1>5, <1>6, <1>7 DEF a, L

\* The chunks put together are the frame.
LEMMA ChunksFlatten ==
  ASSUME NEW f \in Seq(Units)
  PROVE  FlattenSeq(fragment_transport_frame(f)) = f
<1> DEFINE n == ChunkCount(f)
           first(k) == [i \in 1 .. k |-> Piece(f, i)]
           T == {k \in 0 .. n : FlattenSeq(first(k)) = SubSeq(f, 1, EndOf(f, k))}
<1>1. n \in Nat /\ ChunkSize \in Nat
  BY ChunksCover, ReliabilityAssumption
<1>2. \A k \in 0 .. n : first(k) \in Seq(Seq(Units))
  <2>1. ASSUME NEW k \in 0 .. n PROVE first(k) \in Seq(Seq(Units))
    <3>1. \A i \in 1 .. k : Piece(f, i) \in Seq(Units)
      BY <1>1, PieceType
    <3>2. first(k) \in [1 .. k -> Seq(Units)]
      BY <3>1
    <3>3. QED
      BY <1>1, <3>2
  <2>2. QED
    BY <2>1
<1>3. 0 \in T
  <2>1. first(0) = << >>
    OBVIOUS
  <2>2. EndOf(f, 0) = 0
    BY <1>1 DEF EndOf
  <2>3. SubSeq(f, 1, 0) = << >>
    OBVIOUS
  <2>4. QED
    <3>1. FlattenSeq(first(0)) = << >>
      BY <2>1, FlattenEmpty, Zenon
    <3>2. SubSeq(f, 1, EndOf(f, 0)) = << >>
      BY <2>2, <2>3
    <3> HIDE DEF first
    <3>3. 0 \in 0 .. n
      BY <1>1
    <3>4. QED
      BY <3>1, <3>2, <3>3
<1>4. ASSUME NEW k \in 0 .. n, k \in T, k < n PROVE k + 1 \in T
  <2>1. k + 1 \in 1 .. n /\ k + 1 \in 0 .. n /\ (k + 1) - 1 = k
    BY <1>1, <1>4
  <2>2. first(k + 1) = Append(first(k), Piece(f, k + 1))
    <3>1. first(k + 1) = [i \in 1 .. k + 1 |-> Piece(f, i)] /\ Len(first(k)) = k
      BY <1>1
    <3>2. QED
      BY <1>1, <2>1, <3>1
  <2>3. FlattenSeq(first(k)) = SubSeq(f, 1, EndOf(f, k))
    BY <1>4
  <2>4. /\ Piece(f, k + 1) \in Seq(Units) /\ Piece(f, k + 1) = SubSeq(f, EndOf(f, k) + 1, EndOf(f, k + 1))
        /\ EndOf(f, k) \in Nat /\ EndOf(f, k + 1) \in 0 .. Len(f) /\ EndOf(f, k) <= EndOf(f, k + 1)
    BY <2>1, PieceType
  <2> HIDE DEF first
  <2>5. FlattenSeq(Append(first(k), Piece(f, k + 1))) = FlattenSeq(first(k)) \o Piece(f, k + 1)
    BY <1>2, <2>4, FlattenAppend
  <2>6. SubSeq(f, 1, EndOf(f, k)) \o SubSeq(f, EndOf(f, k) + 1, EndOf(f, k + 1)) = SubSeq(f, 1, EndOf(f, k + 1))
    <3> DEFINE x == EndOf(f, k)
               y == EndOf(f, k + 1)
    <3>1. x \in Nat /\ y \in Nat /\ x <= y /\ y <= Len(f)
      BY <2>4
    <3> HIDE DEF x, y
    <3>2. SubSeq(f, 1, x) \o SubSeq(f, x + 1, y) = SubSeq(f, 1, y)
      BY <3>1, SubSeqConcat
    <3>3. QED
      BY <3>2 DEF x, y
  <2>7. FlattenSeq(first(k + 1)) = SubSeq(f, 1, EndOf(f, k + 1))
    BY <2>2, <2>3, <2>4, <2>5, <2>6
  <2>8. QED
    BY <2>1, <2>7
<1> HIDE DEF T
<1>5. 0 .. n \subseteq T
  BY <1>1, <1>3, <1>4, IntervalInduction
<1>6. FlattenSeq(first(n)) = SubSeq(f, 1, EndOf(f, n))
  BY <1>1, <1>5 DEF T
<1>7. EndOf(f, n) = Len(f)
  <2>1. n * ChunkSize >= Len(f) /\ Len(f) \in Nat /\ n * ChunkSize \in Int
    BY <1>1, ChunksCover
  <2>2. QED
    BY <2>1 DEF EndOf
<1>8. SubSeq(f, 1, Len(f)) = f
  OBVIOUS
<1>9. fragment_transport_frame(f) = first(n)
  BY DEF fragment_transport_frame, Piece
<1>10. QED
  BY <1>6, <1>7, <1>8, <1>9

----------------------------------------------------------------------------
(* The inductive invariant. *)

\* The message ids that were given out, and those of frames that were sent.
Ids(l) == 0 .. Len(l) - 1

\* A message that was sent: it has an id that was given out and was not refused.
Message(l, id) == id \in Ids(l) /\ ~TooLarge(l[id + 1])

\* The reader has the whole message.
Whole(buf, id) == id < buf.expected \/ id \in DOMAIN buf.completed

\* A chunk of a message that was sent.
IsChunk(l, p) ==
  /\ p = DataPacket(p.id, p.index, p.count, p.payload)
  /\ p.kind = "Data"
  /\ Message(l, p.id)
  /\ p.count = ChunkCount(l[p.id + 1])
  /\ p.index \in 0 .. p.count - 1
  /\ p.payload = Piece(l[p.id + 1], p.index + 1)

\* A datagram in flight.
PacketInv(l, buf, p) ==
  \/ IsChunk(l, p)
  \/ p.kind = "Ack" /\ p.id \in Ids(l) /\ Whole(buf, p.id)
  \/ p.kind = "RepairRequest" /\ p.id \in Ids(l) /\ p.ranges # << >>
  \/ p = ClosePacket

\* Some chunks of a message, but not all.
PartialInv(frame, part) ==
  /\ part = [chunk_count |-> part.chunk_count, received |-> part.received]
  /\ part.chunk_count = ChunkCount(frame)
  /\ DOMAIN part.received \subseteq 0 .. ChunkCount(frame) - 1
  /\ Cardinality(DOMAIN part.received) # ChunkCount(frame)
  /\ \A i \in DOMAIN part.received : part.received[i] = Piece(frame, i + 1)

\* The reassembly buffer: parts and whole messages as they were sent.
BufferInv(l, buf) ==
  /\ buf = [expected |-> buf.expected, partial |-> buf.partial, completed |-> buf.completed]
  /\ buf.expected \in 0 .. Len(l)
  /\ \A id \in DOMAIN buf.partial : Message(l, id) /\ PartialInv(l[id + 1], buf.partial[id])
  /\ \A id \in DOMAIN buf.completed : id \in Ids(l) /\ buf.completed[id] = l[id + 1]

\* A message that may be repaired.
PendingInv(frame, pending) ==
  /\ pending = [chunks |-> pending.chunks, repair_attempts |-> pending.repair_attempts]
  /\ pending.chunks = fragment_transport_frame(frame)

\* The send window.
WindowInv(l, window) ==
  /\ \A id \in DOMAIN window : Message(l, id) /\ PendingInv(l[id + 1], window[id])
  /\ Cardinality(DOMAIN window) <= MaxInFlight

\* A message that is not in the window was acknowledged.
Retired(l, window, buf) ==
  Len(l) <= MaxInFlight =>
    \A id \in Ids(l) : id \in DOMAIN window \/ TooLarge(l[id + 1]) \/ Whole(buf, id)

\* The inductive invariant.
LinkInv ==
  /\ log \in Seq(Frames)
  /\ snd = [next |-> snd.next, window |-> snd.window, closed |-> snd.closed, failed |-> snd.failed]
  /\ rcv = [buf |-> rcv.buf, attempts |-> rcv.attempts, closed |-> rcv.closed, failed |-> rcv.failed]
  /\ snd.next = Len(log)
  /\ WindowInv(log, snd.window)
  /\ BufferInv(log, rcv.buf)
  /\ \A p \in net : PacketInv(log, rcv.buf, p)
  /\ delivered = [i \in 1 .. rcv.buf.expected |-> log[i]]
  /\ Retired(log, snd.window, rcv.buf)

\* A log with more frames.
Longer(l, m) ==
  /\ l \in Seq(Frames) /\ m \in Seq(Frames)
  /\ Len(l) <= Len(m)
  /\ \A i \in 1 .. Len(l) : m[i] = l[i]

\* Ids keep their frames.
LEMMA LongerIds ==
  ASSUME NEW l, NEW m, Longer(l, m), NEW id \in Ids(l)
  PROVE  id \in Ids(m) /\ m[id + 1] = l[id + 1] /\ (Message(l, id) => Message(m, id))
<1>1. Len(l) \in Nat /\ Len(m) \in Nat /\ Len(l) <= Len(m) /\ \A i \in 1 .. Len(l) : m[i] = l[i]
  BY DEF Longer
<1>2. id + 1 \in 1 .. Len(l) /\ id \in 0 .. Len(m) - 1
  BY <1>1 DEF Ids
<1>3. QED
  BY <1>1, <1>2 DEF Message, Ids

\* What was in flight, in the buffer and in the window stays as it was sent.
LEMMA LongerPacket ==
  ASSUME NEW l, NEW m, Longer(l, m), NEW buf, NEW p, PacketInv(l, buf, p)
  PROVE  PacketInv(m, buf, p)
<1>1. CASE IsChunk(l, p)
  <2>1. p.id \in Ids(l) /\ Message(l, p.id)
    BY <1>1 DEF IsChunk, Message
  <2>2. Message(m, p.id) /\ m[p.id + 1] = l[p.id + 1]
    BY <2>1, LongerIds
  <2>3. IsChunk(m, p)
    BY <1>1, <2>2 DEF IsChunk
  <2>4. QED
    BY <2>3 DEF PacketInv
<1>2. CASE p.kind = "Ack" /\ p.id \in Ids(l) /\ Whole(buf, p.id)
  BY <1>2, LongerIds DEF PacketInv
<1>3. CASE p.kind = "RepairRequest" /\ p.id \in Ids(l) /\ p.ranges # << >>
  BY <1>3, LongerIds DEF PacketInv
<1>4. CASE p = ClosePacket
  BY <1>4 DEF PacketInv
<1>5. QED
  BY <1>1, <1>2, <1>3, <1>4 DEF PacketInv

\* The same of the buffer.
LEMMA LongerBuffer ==
  ASSUME NEW l, NEW m, Longer(l, m), NEW buf, BufferInv(l, buf)
  PROVE  BufferInv(m, buf)
<1>1. buf.expected \in 0 .. Len(m)
  BY DEF Longer, BufferInv
<1>2. ASSUME NEW id \in DOMAIN buf.partial
      PROVE  Message(m, id) /\ PartialInv(m[id + 1], buf.partial[id])
  <2>1. Message(l, id) /\ id \in Ids(l) /\ PartialInv(l[id + 1], buf.partial[id])
    BY DEF BufferInv, Message
  <2>2. Message(m, id) /\ m[id + 1] = l[id + 1]
    BY <2>1, LongerIds
  <2>3. QED
    BY <2>1, <2>2
<1>3. ASSUME NEW id \in DOMAIN buf.completed
      PROVE  id \in Ids(m) /\ buf.completed[id] = m[id + 1]
  <2>1. id \in Ids(l) /\ buf.completed[id] = l[id + 1]
    BY DEF BufferInv
  <2>2. QED
    BY <2>1, LongerIds
<1>4. QED
  BY <1>1, <1>2, <1>3 DEF BufferInv

\* The same of the messages in the window.
LEMMA LongerWindow ==
  ASSUME NEW l, NEW m, Longer(l, m), NEW window, WindowInv(l, window)
  PROVE  WindowInv(m, window)
<1>1. ASSUME NEW id \in DOMAIN window
      PROVE  Message(m, id) /\ PendingInv(m[id + 1], window[id])
  <2>1. Message(l, id) /\ id \in Ids(l) /\ PendingInv(l[id + 1], window[id])
    BY DEF WindowInv, Message
  <2>2. Message(m, id) /\ m[id + 1] = l[id + 1]
    BY <2>1, LongerIds
  <2>3. QED
    BY <2>1, <2>2
<1>2. QED
  BY <1>1 DEF WindowInv

----------------------------------------------------------------------------
(* The window. *)

\* As many ids as the bound.
LEMMA IdsCount == ASSUME NEW n \in Nat PROVE IsFiniteSet(0 .. n - 1) /\ Cardinality(0 .. n - 1) = n
<1> DEFINE z == 0
<1>1. z \in Int /\ n - 1 \in Int /\ (IF z > n - 1 THEN 0 ELSE (n - 1) - z + 1) = n
  OBVIOUS
<1> HIDE DEF z
<1>2. IsFiniteSet(z .. n - 1) /\ Cardinality(z .. n - 1) = IF z > n - 1 THEN 0 ELSE (n - 1) - z + 1
  BY <1>1, FS_Interval
<1>3. QED
  BY <1>1, <1>2 DEF z

\* The newest ids that fit are as many as fit, and all of them when all fit.
LEMMA NewestFit ==
  ASSUME NEW ids \in SUBSET Nat, IsFiniteSet(ids)
  PROVE  LET kept == {k \in ids : Cardinality({j \in ids : j >= k}) <= MaxInFlight}
         IN /\ Cardinality(kept) <= MaxInFlight
            /\ Cardinality(ids) <= MaxInFlight => kept = ids
<1> DEFINE from(k) == {j \in ids : j >= k}
           kept == {k \in ids : Cardinality(from(k)) <= MaxInFlight}
<1>1. \A s \in SUBSET ids : IsFiniteSet(s) /\ Cardinality(s) \in Nat /\ Cardinality(s) <= Cardinality(ids)
  BY FS_Subset, FS_CardinalityType
<1>2. Cardinality(kept) <= MaxInFlight
  <2>1. CASE kept = {}
    <3> HIDE DEF kept
    <3>1. Cardinality(kept) = 0
      BY <2>1, FS_EmptySet
    <3>2. QED
      BY <3>1, ReliabilityAssumption
  <2>2. CASE kept # {}
    <3>1. kept \in SUBSET Nat
      OBVIOUS
    <3>2. PICK m \in kept : \A k \in kept : m <= k
      <4> HIDE DEF kept
      <4>1. QED
        BY <2>2, <3>1, LeastNumber
    <3>3. from(m) \in SUBSET ids /\ kept \in SUBSET from(m)
      BY <3>1, <3>2
    <3>4. Cardinality(from(m)) <= MaxInFlight
      BY <3>2
    <3> HIDE DEF kept, from
    <3>5. IsFiniteSet(from(m)) /\ Cardinality(from(m)) \in Nat
      BY <1>1, <3>3
    <3>6. Cardinality(kept) <= Cardinality(from(m)) /\ IsFiniteSet(kept)
      BY <3>3, <3>5, FS_Subset
    <3>7. Cardinality(kept) \in Nat
      BY <3>6, FS_CardinalityType
    <3>8. QED
      BY <3>4, <3>5, <3>6, <3>7, ReliabilityAssumption
  <2>3. QED
    BY <2>1, <2>2
<1>3. ASSUME Cardinality(ids) <= MaxInFlight PROVE kept = ids
  <2>1. \A k \in ids : from(k) \in SUBSET ids
    OBVIOUS
  <2> HIDE DEF from
  <2>2. \A k \in ids : Cardinality(from(k)) <= Cardinality(ids) /\ Cardinality(from(k)) \in Nat
    BY <1>1, <2>1
  <2>3. Cardinality(ids) \in Nat
    BY FS_CardinalityType
  <2>4. \A k \in ids : Cardinality(from(k)) <= MaxInFlight
    BY <1>3, <2>2, <2>3, ReliabilityAssumption
  <2>5. QED
    BY <2>4
<1>4. QED
  BY <1>2, <1>3

\* A frame that fits enters the window; nothing else does, and nothing falls out
\* as long as all messages fit.
LEMMA WindowMore ==
  ASSUME NEW l, NEW m, Longer(l, m), NEW window, WindowInv(l, window),
         Message(m, Len(l)), NEW f, f = m[Len(l) + 1]
  PROVE  LET new == WindowInsert(window, Len(l), fragment_transport_frame(f))
         IN /\ WindowInv(m, new)
            /\ Len(m) <= MaxInFlight => DOMAIN new = DOMAIN window \cup {Len(l)}
<1> DEFINE id == Len(l)
           chunks == fragment_transport_frame(f)
           ids == DOMAIN window \cup {id}
           kept == {k \in ids : Cardinality({j \in ids : j >= k}) <= MaxInFlight}
           new == WindowInsert(window, id, chunks)
<1>1. new = [k \in kept |-> IF k = id THEN Pending(chunks) ELSE window[k]] /\ DOMAIN new = kept
  BY DEF WindowInsert
<1>2. WindowInv(m, window)
  BY LongerWindow
<1>3. ids \in SUBSET (0 .. Len(m) - 1) /\ Len(m) \in Nat
  BY <1>2 DEF WindowInv, Message, Ids, Longer
<1>4. ids \in SUBSET Nat /\ IsFiniteSet(ids) /\ Cardinality(ids) <= Len(m) /\ Cardinality(ids) \in Nat
  <2>1. IsFiniteSet(0 .. Len(m) - 1) /\ Cardinality(0 .. Len(m) - 1) = Len(m)
    BY <1>3, IdsCount
  <2> DEFINE all == 0 .. Len(m) - 1
  <2>2. all \subseteq Nat
    BY <1>3
  <2> HIDE DEF ids, all
  <2>3. IsFiniteSet(ids) /\ Cardinality(ids) <= Cardinality(all)
    BY <1>3, <2>1, FS_Subset DEF all
  <2>4. QED
    BY <1>3, <2>1, <2>2, <2>3, FS_CardinalityType DEF all
<1>5. Cardinality(kept) <= MaxInFlight /\ (Cardinality(ids) <= MaxInFlight => kept = ids)
  <2> HIDE DEF ids
  <2>1. QED
    BY <1>4, NewestFit
<1>6. ASSUME NEW k \in DOMAIN new PROVE Message(m, k) /\ PendingInv(m[k + 1], new[k])
  <2>1. k \in ids /\ new[k] = IF k = id THEN Pending(chunks) ELSE window[k]
    BY <1>1
  <2>2. CASE k = id
    BY <2>1, <2>2 DEF Pending, PendingInv
  <2>3. CASE k # id
    BY <1>2, <2>1, <2>3 DEF WindowInv
  <2>4. QED
    BY <2>2, <2>3
<1>7. Len(m) <= MaxInFlight => DOMAIN new = ids
  <2> HIDE DEF ids, kept
  <2>1. QED
    BY <1>1, <1>3, <1>4, <1>5, ReliabilityAssumption
<1>8. QED
  BY <1>1, <1>5, <1>6, <1>7 DEF WindowInv

\* The new message was not repaired yet, and the others stay as they are.
LEMMA WindowEntries ==
  ASSUME NEW window, NEW id, NEW chunks, NEW new, new = WindowInsert(window, id, chunks),
         NEW k \in DOMAIN new
  PROVE  \/ k \in DOMAIN window /\ new[k] = window[k]
         \/ k = id /\ new[k].repair_attempts = 0
<1> DEFINE ids == DOMAIN window \cup {id}
           kept == {j \in ids : Cardinality({i \in ids : i >= j}) <= MaxInFlight}
<1>1. new = [j \in kept |-> IF j = id THEN Pending(chunks) ELSE window[j]]
  BY DEF WindowInsert
<1>2. \A j \in kept : j \in ids
  OBVIOUS
<1> HIDE DEF kept
<1>3. QED
  BY <1>1, <1>2 DEF Pending

\* The chunks of a message.
LEMMA PacketsAreChunks ==
  ASSUME NEW l, NEW id, Message(l, id), l \in Seq(Frames),
         NEW p \in PacketsOf(id, fragment_transport_frame(l[id + 1]))
  PROVE  IsChunk(l, p)
<1> DEFINE f == l[id + 1]
           chunks == fragment_transport_frame(f)
<1>1. id + 1 \in 1 .. Len(l)
  BY DEF Message, Ids
<1>2. f \in Seq(Units)
  BY <1>1, FrameIsSeq
<1>3. ChunkCount(f) \in Nat
  BY <1>2, ChunksCover
<1> HIDE DEF f
<1>4. Len(chunks) = ChunkCount(f) /\ DOMAIN chunks = 1 .. ChunkCount(f)
      /\ \A i \in 1 .. ChunkCount(f) : chunks[i] = Piece(f, i)
  <2>1. chunks = [i \in 1 .. ChunkCount(f) |-> Piece(f, i)]
    BY DEF fragment_transport_frame, Piece
  <2> HIDE DEF chunks
  <2>2. QED
    BY <1>3, <2>1
<1>5. PICK i \in DOMAIN chunks : p = DataPacket(id, i - 1, Len(chunks), chunks[i])
  BY DEF PacketsOf, f
<1>6. /\ p.kind = "Data" /\ p.id = id /\ p.index = i - 1 /\ p.count = ChunkCount(f)
      /\ p.payload = Piece(f, i) /\ i \in 1 .. ChunkCount(f)
  BY <1>4, <1>5 DEF DataPacket
<1>7. p.index \in 0 .. p.count - 1 /\ p.index + 1 = i
  BY <1>3, <1>6
<1>8. p = DataPacket(p.id, p.index, p.count, p.payload)
  BY <1>4, <1>5, <1>6
<1>9. QED
  BY <1>6, <1>7, <1>8 DEF IsChunk, f

----------------------------------------------------------------------------
(* The reassembly buffer. *)

\* Records with these fields.
BufferShape(E, P, C) == [expected : E, partial : P, completed : C]
\* Such a record is its fields.
LEMMA BufferShapeIs ==
  ASSUME NEW E, NEW P, NEW C, NEW z \in BufferShape(E, P, C)
  PROVE z = [expected |-> z.expected, partial |-> z.partial, completed |-> z.completed]
BY DEF BufferShape

\* The fields of a buffer after an update.
LEMMA BufferFields ==
  ASSUME NEW buf, buf = [expected |-> buf.expected, partial |-> buf.partial, completed |-> buf.completed],
         NEW x, NEW y
  PROVE  /\ [buf EXCEPT !.partial = x] = [expected |-> buf.expected, partial |-> x, completed |-> buf.completed]
         /\ [buf EXCEPT !.partial = x, !.completed = y] =
              [expected |-> buf.expected, partial |-> x, completed |-> y]
         /\ [buf EXCEPT !.expected = x, !.completed = y] =
              [expected |-> x, partial |-> buf.partial, completed |-> y]
<1> DEFINE E == {buf.expected, x}
           P == {buf.partial, x}
           C == {buf.completed, y}
           one == [buf EXCEPT !.partial = x]
           two == [buf EXCEPT !.partial = x, !.completed = y]
           three == [buf EXCEPT !.expected = x, !.completed = y]
<1>1. buf \in BufferShape(E, P, C)
  BY DEF BufferShape
<1>2. one \in BufferShape(E, P, C) /\ one.expected = buf.expected /\ one.partial = x /\ one.completed = buf.completed
  BY <1>1 DEF BufferShape
<1>3. two \in BufferShape(E, P, C) /\ two.expected = buf.expected /\ two.partial = x /\ two.completed = y
  BY <1>1 DEF BufferShape
<1>4. three \in BufferShape(E, P, C) /\ three.expected = x /\ three.partial = buf.partial /\ three.completed = y
  BY <1>1 DEF BufferShape
<1> HIDE DEF one, two, three, E, P, C
<1>5. one = [expected |-> buf.expected, partial |-> x, completed |-> buf.completed]
  BY <1>2, BufferShapeIs
<1>6. two = [expected |-> buf.expected, partial |-> x, completed |-> y]
  BY <1>3, BufferShapeIs
<1>7. three = [expected |-> x, partial |-> buf.partial, completed |-> y]
  BY <1>4, BufferShapeIs
<1>8. QED
  BY <1>5, <1>6, <1>7 DEF one, two, three

\* A chunk more in a partial message.
LEMMA PartWithChunk ==
  ASSUME NEW l, NEW buf, BufferInv(l, buf), NEW p, IsChunk(l, p)
  PROVE  LET part == PartialInsert(PartialFor(buf, p), p.index, p.payload)
         IN /\ part = [chunk_count |-> part.chunk_count, received |-> part.received]
            /\ part.chunk_count = p.count
            /\ DOMAIN part.received \subseteq 0 .. p.count - 1
            /\ \A i \in DOMAIN part.received : part.received[i] = Piece(l[p.id + 1], i + 1)
<1> DEFINE old == PartialFor(buf, p)
           part == PartialInsert(old, p.index, p.payload)
           got == [i \in DOMAIN old.received \cup {p.index} |->
                     IF i \in DOMAIN old.received THEN old.received[i] ELSE p.payload]
<1>1. /\ old = [chunk_count |-> old.chunk_count, received |-> old.received]
      /\ old.chunk_count = p.count
      /\ DOMAIN old.received \subseteq 0 .. p.count - 1
      /\ \A i \in DOMAIN old.received : old.received[i] = Piece(l[p.id + 1], i + 1)
  <2>1. CASE p.id \in DOMAIN buf.partial
    <3>1. old = buf.partial[p.id] /\ PartialInv(l[p.id + 1], buf.partial[p.id]) /\ p.count = ChunkCount(l[p.id + 1])
      BY <2>1 DEF PartialFor, BufferInv, IsChunk
    <3> HIDE DEF old
    <3>2. QED
      BY <3>1 DEF PartialInv
  <2>2. CASE p.id \notin DOMAIN buf.partial
    <3>1. old = [chunk_count |-> p.count, received |-> << >>]
      BY <2>2 DEF PartialFor
    <3>2. DOMAIN << >> = {}
      OBVIOUS
    <3> HIDE DEF old
    <3>3. QED
      BY <3>1, <3>2
  <2>3. QED
    BY <2>1, <2>2
<1> HIDE DEF old
<1>2. part = [old EXCEPT !.received = got]
  BY DEF PartialInsert
<1>3. /\ DOMAIN got = DOMAIN old.received \cup {p.index}
      /\ \A i \in DOMAIN got : got[i] = IF i \in DOMAIN old.received THEN old.received[i] ELSE p.payload
  OBVIOUS
<1> HIDE DEF got, part
<1>4. part = [chunk_count |-> p.count, received |-> got]
  BY <1>1, <1>2
<1>5. p.index \in 0 .. p.count - 1 /\ p.payload = Piece(l[p.id + 1], p.index + 1)
  BY DEF IsChunk
<1>6. \A i \in DOMAIN got : got[i] = Piece(l[p.id + 1], i + 1)
  BY <1>1, <1>3, <1>5
<1>7. QED
  BY <1>1, <1>3, <1>4, <1>5, <1>6 DEF part, old

\* With as many chunks as the message has, the payload is the frame.
LEMMA WholePart ==
  ASSUME NEW f \in Seq(Units), NEW part,
         part.chunk_count = ChunkCount(f),
         DOMAIN part.received \subseteq 0 .. ChunkCount(f) - 1,
         \A i \in DOMAIN part.received : part.received[i] = Piece(f, i + 1),
         Cardinality(DOMAIN part.received) = ChunkCount(f)
  PROVE  into_payload(part) = f
<1> DEFINE n == ChunkCount(f)
           D == DOMAIN part.received
<1>1. n \in Nat
  BY ChunksCover
<1> HIDE DEF n
<1>2. D = 0 .. n - 1
  <2> DEFINE all == 0 .. n - 1
  <2>1. IsFiniteSet(all) /\ Cardinality(all) = n
    BY <1>1, IdsCount
  <2>2. D \in SUBSET all /\ Cardinality(D) = n
    BY DEF n
  <2> HIDE DEF all, D
  <2>3. all = D
    BY <2>1, <2>2, FS_Subset
  <2>4. QED
    BY <2>3 DEF all
<1>3. \A i \in 1 .. n : part.received[i - 1] = Piece(f, i)
  <2>1. \A i \in 1 .. n : i - 1 \in D /\ (i - 1) + 1 = i
    BY <1>1, <1>2
  <2>2. \A j \in D : part.received[j] = Piece(f, j + 1)
    OBVIOUS
  <2> HIDE DEF D
  <2>3. QED
    BY <2>1, <2>2
<1>4. into_payload(part) = FlattenSeq([i \in 1 .. n |-> part.received[i - 1]])
  BY DEF into_payload, n
<1>5. [i \in 1 .. n |-> part.received[i - 1]] = fragment_transport_frame(f)
  <2>1. fragment_transport_frame(f) = [i \in 1 .. n |-> Piece(f, i)]
    BY DEF fragment_transport_frame, Piece, n
  <2>2. QED
    BY <1>3, <2>1
<1>6. FlattenSeq(fragment_transport_frame(f)) = f
  BY ChunksFlatten
<1>7. QED
  BY <1>4, <1>5, <1>6

\* What insert_data makes of the buffer.
LEMMA InsertKeeps ==
  ASSUME NEW l \in Seq(Frames), NEW buf, BufferInv(l, buf), NEW p, IsChunk(l, p)
  PROVE  LET new == insert_data(buf, p)
         IN /\ BufferInv(l, new) /\ new.expected = buf.expected
            /\ DOMAIN buf.completed \subseteq DOMAIN new.completed
            /\ Completes(buf, p) => p.id \in DOMAIN new.completed
<1> DEFINE part == PartialInsert(PartialFor(buf, p), p.index, p.payload)
           f == l[p.id + 1]
           others == DOMAIN buf.partial \ {p.id}
           new == insert_data(buf, p)
<1>1. /\ Message(l, p.id) /\ p.id \in Ids(l) /\ p.count = ChunkCount(f)
      /\ buf = [expected |-> buf.expected, partial |-> buf.partial, completed |-> buf.completed]
      /\ buf.expected \in 0 .. Len(l)
      /\ \A id \in DOMAIN buf.partial : Message(l, id) /\ PartialInv(l[id + 1], buf.partial[id])
      /\ \A id \in DOMAIN buf.completed : id \in Ids(l) /\ buf.completed[id] = l[id + 1]
  BY DEF IsChunk, Message, BufferInv
<1>2. f \in Seq(Units)
  <2>1. p.id + 1 \in 1 .. Len(l)
    BY <1>1 DEF Ids
  <2>2. QED
    BY <2>1, FrameIsSeq
<1>3. /\ part = [chunk_count |-> part.chunk_count, received |-> part.received]
      /\ part.chunk_count = p.count
      /\ DOMAIN part.received \subseteq 0 .. p.count - 1
      /\ \A i \in DOMAIN part.received : part.received[i] = Piece(f, i + 1)
  BY PartWithChunk
<1>4. Completes(buf, p) <=> Cardinality(DOMAIN part.received) = p.count
  BY DEF Completes
<1> HIDE DEF part, f
<1>5. CASE Completes(buf, p)
  <2> DEFINE x == [k \in others |-> buf.partial[k]]
             y == [k \in DOMAIN buf.completed \cup {p.id} |->
                     IF k = p.id THEN into_payload(part) ELSE buf.completed[k]]
  <2>1. new = [buf EXCEPT !.partial = x, !.completed = y]
    BY <1>5 DEF insert_data, part
  <2>2. /\ DOMAIN x = others /\ \A k \in others : x[k] = buf.partial[k]
        /\ DOMAIN y = DOMAIN buf.completed \cup {p.id}
        /\ \A k \in DOMAIN y : y[k] = IF k = p.id THEN into_payload(part) ELSE buf.completed[k]
    OBVIOUS
  <2>3. into_payload(part) = f
    BY <1>1, <1>2, <1>3, <1>4, <1>5, WholePart
  <2> HIDE DEF x, y, new
  <2>4. new = [expected |-> buf.expected, partial |-> x, completed |-> y]
    BY <1>1, <2>1, BufferFields
  <2>5. \A k \in DOMAIN y : k \in Ids(l) /\ y[k] = l[k + 1]
    BY <1>1, <2>2, <2>3 DEF f
  <2>6. BufferInv(l, new)
    BY <1>1, <2>2, <2>4, <2>5 DEF BufferInv
  <2>7. QED
    BY <2>2, <2>4, <2>6 DEF new
<1>6. CASE ~Completes(buf, p)
  <2> DEFINE x == [k \in others \cup {p.id} |-> IF k = p.id THEN part ELSE buf.partial[k]]
  <2>1. new = [buf EXCEPT !.partial = x]
    BY <1>6 DEF insert_data, part
  <2>2. /\ DOMAIN x = others \cup {p.id}
        /\ \A k \in DOMAIN x : x[k] = IF k = p.id THEN part ELSE buf.partial[k]
    OBVIOUS
  <2>3. PartialInv(f, part)
    BY <1>1, <1>3, <1>4, <1>6 DEF PartialInv
  <2> HIDE DEF x, new
  <2>4. new = [expected |-> buf.expected, partial |-> x, completed |-> buf.completed]
    BY <1>1, <2>1, BufferFields
  <2>5. \A k \in DOMAIN x : Message(l, k) /\ PartialInv(l[k + 1], x[k])
    BY <1>1, <2>2, <2>3 DEF f
  <2>6. BufferInv(l, new)
    BY <1>1, <2>4, <2>5 DEF BufferInv
  <2>7. QED
    BY <1>6, <2>4, <2>6 DEF new
<1>7. QED
  BY <1>5, <1>6

\* pop_next_ready stops at the first message that is missing.
LEMMA RunFacts ==
  ASSUME NEW l \in Seq(Frames), NEW buf, BufferInv(l, buf)
  PROVE  /\ ReadyRun(buf) \in Nat
         /\ \A k \in 0 .. ReadyRun(buf) - 1 : buf.expected + k \in DOMAIN buf.completed
         /\ buf.expected + ReadyRun(buf) <= Len(l)
<1> DEFINE D == DOMAIN buf.completed
           e == buf.expected
           S == {j \in Nat : e + j \notin D}
           Stops(n) == (\A k \in 0 .. n - 1 : e + k \in D) /\ e + n \notin D
<1>1. /\ Len(l) \in Nat /\ e \in 0 .. Len(l) /\ D \subseteq 0 .. Len(l) - 1
  BY DEF BufferInv, Ids
<1> HIDE DEF D, e
<1>2. IsFiniteSet(D)
  BY <1>1, IdsCount, FS_Subset
<1>3. Len(l) \in S /\ S \subseteq Nat
  BY <1>1
<1>4. PICK m \in S : \A k \in S : m <= k
  <2> HIDE DEF S
  <2>1. QED
    BY <1>3, LeastNumber
<1>5. m \in Nat /\ e + m \notin D /\ \A k \in 0 .. m - 1 : e + k \in D
  BY <1>4
<1>6. m \in 0 .. Cardinality(D)
  <2> DEFINE t == e .. e + m - 1
             last == e + m - 1
  <2>1. e \in Int /\ last \in Int /\ (IF e > last THEN 0 ELSE last - e + 1) = m
    BY <1>1, <1>5
  <2>2. t \subseteq D
    <3>1. \A i \in t : i - e \in 0 .. m - 1 /\ e + (i - e) = i
      BY <1>1, <1>5
    <3>2. QED
      BY <1>5, <3>1
  <2> HIDE DEF last
  <2>3. Cardinality(e .. last) = m
    BY <2>1, FS_Interval
  <2>4. t = e .. last
    BY DEF last
  <2> HIDE DEF t
  <2>5. Cardinality(t) <= Cardinality(D) /\ Cardinality(D) \in Nat
    BY <1>2, <2>2, FS_Subset, FS_CardinalityType
  <2>6. QED
    BY <1>5, <2>3, <2>4, <2>5
<1>7. ReadyRun(buf) = CHOOSE n \in 0 .. Cardinality(D) : Stops(n)
  BY DEF ReadyRun, D, e
<1>8. Stops(m)
  BY <1>5
<1>9. ReadyRun(buf) \in 0 .. Cardinality(D) /\ Stops(ReadyRun(buf))
  <2> HIDE DEF Stops
  <2>1. QED
    BY <1>6, <1>7, <1>8
<1>10. ReadyRun(buf) \in Nat
  BY <1>2, <1>9, FS_CardinalityType
<1>11. e + ReadyRun(buf) <= Len(l)
  <2> DEFINE n == ReadyRun(buf)
  <2>1. CASE n = 0
    BY <1>1, <2>1
  <2>2. CASE n # 0
    <3>1. n - 1 \in 0 .. n - 1
      BY <1>10, <2>2
    <3>2. e + (n - 1) \in D
      BY <1>9, <3>1
    <3>3. QED
      BY <1>1, <1>10, <3>2
  <2>3. QED
    BY <2>1, <2>2
<1>12. QED
  BY <1>9, <1>10, <1>11 DEF D, e

\* The first frames of the log and the next ones.
LEMMA NextFrames ==
  ASSUME NEW l \in Seq(Frames), NEW e \in Nat, NEW n \in Nat, e + n <= Len(l),
         NEW b \in [1 .. n -> Frames], \A i \in 1 .. n : b[i] = l[e + i]
  PROVE  [i \in 1 .. e |-> l[i]] \o b = [i \in 1 .. e + n |-> l[i]]
<1> DEFINE first(m) == [i \in 1 .. m |-> l[i]]
           m == e + n
<1>1. ASSUME NEW k \in Nat, k <= Len(l)
      PROVE  first(k) \in Seq(Frames) /\ Len(first(k)) = k /\ \A i \in 1 .. k : first(k)[i] = l[i]
  <2>1. \A i \in 1 .. k : l[i] \in Frames
    BY <1>1
  <2>2. first(k) \in [1 .. k -> Frames]
    BY <2>1
  <2>3. QED
    BY <1>1, <2>2
<1>2. m \in Nat /\ m <= Len(l) /\ e <= Len(l) /\ m = e + n
  OBVIOUS
<1> HIDE DEF first, m
<1>3. /\ first(e) \in Seq(Frames) /\ Len(first(e)) = e /\ \A i \in 1 .. e : first(e)[i] = l[i]
      /\ first(m) \in Seq(Frames) /\ Len(first(m)) = m /\ \A i \in 1 .. m : first(m)[i] = l[i]
  BY <1>1, <1>2
<1>4. b \in Seq(Frames) /\ Len(b) = n
  OBVIOUS
<1> DEFINE all == first(e) \o b
<1>5. /\ all \in Seq(Frames) /\ Len(all) = e + n
      /\ \A i \in 1 .. e + n : all[i] = IF i <= e THEN first(e)[i] ELSE b[i - e]
  <2> DEFINE a == first(e)
  <2>1. a \in Seq(Frames) /\ Len(a) = e
    BY <1>3
  <2> HIDE DEF a
  <2>2. /\ a \o b \in Seq(Frames) /\ Len(a \o b) = Len(a) + Len(b)
        /\ \A i \in 1 .. Len(a) + Len(b) : (a \o b)[i] = IF i <= Len(a) THEN a[i] ELSE b[i - Len(a)]
    BY <1>4, <2>1, ConcatProperties
  <2>3. QED
    BY <1>4, <2>1, <2>2 DEF a
<1> HIDE DEF all
<1>6. ASSUME NEW i \in 1 .. m PROVE all[i] = l[i]
  <2>1. CASE i <= e
    BY <1>2, <1>3, <1>5, <2>1
  <2>2. CASE ~(i <= e)
    <3>1. i - e \in 1 .. n /\ e + (i - e) = i
      BY <1>2, <2>2
    <3>2. all[i] = b[i - e]
      BY <1>2, <1>5, <2>2
    <3>3. b[i - e] = l[e + (i - e)]
      BY <3>1
    <3>4. QED
      BY <3>1, <3>2, <3>3
  <2>3. QED
    BY <2>1, <2>2
<1>7. all = first(m)
  <2>1. Len(all) = Len(first(m)) /\ \A i \in 1 .. Len(all) : all[i] = first(m)[i]
    BY <1>2, <1>3, <1>5, <1>6
  <2>2. QED
    BY <1>3, <1>5, <2>1, SeqEqual
<1>8. QED
  BY <1>7 DEF all, first, m

\* What is handed over are the next frames, and the rest of the buffer stays.
LEMMA ReadyKeeps ==
  ASSUME NEW l \in Seq(Frames), NEW buf, BufferInv(l, buf)
  PROVE  /\ BufferInv(l, AfterReady(buf))
         /\ [i \in 1 .. buf.expected |-> l[i]] \o ReadyFrames(buf) =
              [i \in 1 .. AfterReady(buf).expected |-> l[i]]
         /\ \A id \in Ids(l) : Whole(buf, id) => Whole(AfterReady(buf), id)
<1> DEFINE n == ReadyRun(buf)
           e == buf.expected
           left == DOMAIN buf.completed \ (e .. e + n - 1)
           y == [k \in left |-> buf.completed[k]]
           new == AfterReady(buf)
<1>1. /\ n \in Nat /\ e + n <= Len(l) /\ \A k \in 0 .. n - 1 : e + k \in DOMAIN buf.completed
  BY RunFacts
<1>2. /\ buf = [expected |-> buf.expected, partial |-> buf.partial, completed |-> buf.completed]
      /\ e \in 0 .. Len(l) /\ Len(l) \in Nat
      /\ \A id \in DOMAIN buf.partial : Message(l, id) /\ PartialInv(l[id + 1], buf.partial[id])
      /\ \A id \in DOMAIN buf.completed : id \in Ids(l) /\ buf.completed[id] = l[id + 1]
  BY DEF BufferInv
<1>3. new = [buf EXCEPT !.expected = e + n, !.completed = y]
  BY DEF AfterReady
<1>4. DOMAIN y = left /\ \A k \in left : y[k] = buf.completed[k]
  OBVIOUS
<1>5. ReadyFrames(buf) = [i \in 1 .. n |-> buf.completed[e + i - 1]]
  BY DEF ReadyFrames
<1> HIDE DEF n, y, new
<1>6. new = [expected |-> e + n, partial |-> buf.partial, completed |-> y]
  <2> DEFINE x == e + n
  <2> HIDE DEF x
  <2>1. [buf EXCEPT !.expected = x, !.completed = y] = [expected |-> x, partial |-> buf.partial, completed |-> y]
    BY <1>2, BufferFields
  <2>2. QED
    BY <1>3, <2>1 DEF x
<1>7. BufferInv(l, new)
  <2>1. new.expected \in 0 .. Len(l) /\ new.partial = buf.partial /\ new.completed = y
        /\ new = [expected |-> new.expected, partial |-> new.partial, completed |-> new.completed]
    BY <1>1, <1>2, <1>6
  <2>2. \A id \in DOMAIN y : id \in Ids(l) /\ y[id] = l[id + 1]
    BY <1>2, <1>4
  <2>3. QED
    BY <1>2, <2>1, <2>2 DEF BufferInv
<1>8. [i \in 1 .. e |-> l[i]] \o ReadyFrames(buf) = [i \in 1 .. e + n |-> l[i]]
  <2>1. ASSUME NEW i \in 1 .. n PROVE ReadyFrames(buf)[i] = l[e + i] /\ e + i \in 1 .. Len(l)
    <3>1. i - 1 \in 0 .. n - 1 /\ e + (i - 1) = e + i - 1 /\ e + i \in 1 .. Len(l)
      BY <1>1, <1>2
    <3>2. e + i - 1 \in DOMAIN buf.completed
      BY <1>1, <3>1
    <3>3. buf.completed[e + i - 1] = l[(e + i - 1) + 1]
      BY <1>2, <3>2
    <3>4. (e + i - 1) + 1 = e + i
      BY <1>2
    <3>5. ReadyFrames(buf)[i] = buf.completed[e + i - 1]
      BY <1>5
    <3>6. QED
      BY <3>1, <3>3, <3>4, <3>5
  <2>2. ReadyFrames(buf) \in [1 .. n -> Frames]
    BY <1>5, <2>1
  <2>3. e \in Nat
    BY <1>2
  <2> DEFINE b == ReadyFrames(buf)
             base == e
  <2>4. /\ base \in Nat /\ n \in Nat /\ base + n <= Len(l) /\ b \in [1 .. n -> Frames]
        /\ \A i \in 1 .. n : b[i] = l[base + i]
    BY <1>1, <2>1, <2>2, <2>3
  <2> HIDE DEF b, base
  <2>5. [i \in 1 .. base |-> l[i]] \o b = [i \in 1 .. base + n |-> l[i]]
    BY <2>4, NextFrames
  <2>6. QED
    BY <2>5 DEF b, base
<1>9. ASSUME NEW id \in Ids(l), Whole(buf, id) PROVE Whole(new, id)
  <2>1. id < e \/ id \in DOMAIN buf.completed
    BY <1>9 DEF Whole
  <2>2. id \in Nat
    BY <1>2 DEF Ids
  <2>3. CASE id < e
    BY <1>1, <1>2, <1>6, <2>2, <2>3 DEF Whole
  <2>4. CASE id \in left
    BY <1>4, <1>6, <2>4 DEF Whole
  <2>5. CASE id \in e .. e + n - 1
    BY <1>1, <1>2, <1>6, <2>2, <2>5 DEF Whole
  <2>6. QED
    BY <2>1, <2>3, <2>4, <2>5
<1>10. QED
  <2>1. AfterReady(buf) = new /\ new.expected = e + n
    BY <1>6 DEF new
  <2>2. [i \in 1 .. e |-> l[i]] \o ReadyFrames(buf) = [i \in 1 .. new.expected |-> l[i]]
    BY <1>8, <2>1
  <2> HIDE DEF e
  <2>3. QED
    BY <1>7, <1>9, <2>1, <2>2 DEF e

----------------------------------------------------------------------------
(* What is missing. *)

\* A range of missing chunks.
Gap == [first : Int, last : Int]

\* The state of the scan that gathers the ranges of missing chunks.
Scan == [start : Int, ranges : Seq(Gap)]

\* The scan of missing_ranges before the first index, and its step as a function.
NoGap == [start |-> -1, ranges |-> << >>]
\* One step of that scan, as a function.
ScanStep(part) == [x \in Scan \X Int |-> RangeStep(part, x[1], x[2])]

\* The chunk numbers, in the order the scan visits them.
Indices(part) == [i \in 1 .. part.chunk_count |-> i - 1]

\* A step of the scan.
LEMMA ScanStepIs ==
  ASSUME NEW part
  PROVE  /\ ScanStep(part) \in Steps(Scan, Int) /\ NoGap \in Scan
         /\ \A a \in Scan, x \in Int : ScanStep(part)[<<a, x>>] = RangeStep(part, a, x)
<1>1. << >> \in Seq(Gap)
  OBVIOUS
<1>2. NoGap \in Scan
  BY <1>1 DEF NoGap, Scan
<1>3. ASSUME NEW a \in Scan, NEW x \in Int PROVE RangeStep(part, a, x) \in Scan
  <2>1. a.start \in Int /\ a.ranges \in Seq(Gap)
    BY DEF Scan
  <2>2. [a EXCEPT !.start = x] \in Scan
    BY DEF Scan
  <2>3. [first |-> a.start, last |-> x - 1] \in Gap
    BY <2>1 DEF Gap
  <2> DEFINE gap == [first |-> a.start, last |-> x - 1]
  <2> HIDE DEF gap
  <2>4. Append(a.ranges, gap) \in Seq(Gap)
    BY <2>1, <2>3 DEF gap
  <2>5. [start |-> -1, ranges |-> Append(a.ranges, gap)] \in Scan
    BY <2>4 DEF Scan
  <2>6. QED
    BY <2>2, <2>5 DEF RangeStep, gap
<1>4. QED
  BY <1>2, <1>3 DEF ScanStep, Steps

\* missing_ranges scans the indices and closes the last gap.
LEMMA MissingIs ==
  ASSUME NEW part, part.chunk_count \in Nat
  PROVE  LET acc == Result(ScanStep(part), Scan, NoGap, Indices(part))
         IN missing_ranges(part) = IF acc.start = -1 THEN acc.ranges
                                   ELSE Append(acc.ranges, [first |-> acc.start,
                                                            last |-> part.chunk_count - 1])
<1> DEFINE seq == Indices(part)
           Solves(h) ==
             h = [s \in SUBSET DOMAIN seq |->
                    IF s = {} THEN NoGap ELSE RangeStep(part, h[s \ {Max(s)}], seq[Max(s)])]
           it == CHOOSE h : Solves(h)
<1>1. ScanStep(part) \in Steps(Scan, Int) /\ NoGap \in Scan /\ seq \in Seq(Int)
  <2>1. seq \in Seq(Int)
    BY DEF Indices
  <2>2. QED
    BY <2>1, ScanStepIs
<1>2. missing_ranges(part) =
        IF it[DOMAIN seq].start = -1 THEN it[DOMAIN seq].ranges
        ELSE Append(it[DOMAIN seq].ranges, [first |-> it[DOMAIN seq].start,
                                            last |-> part.chunk_count - 1])
  BY Zenon DEF missing_ranges, FoldLeft, MapThenFoldSet, Indices, NoGap
<1> HIDE DEF seq
<1>3. PICK h : PeelsOf(ScanStep(part), Scan, Int, NoGap, seq, h)
  BY <1>1, PeelOfExists
<1>4. Solves(h)
  BY <1>3 DEF PeelsOf, ScanStep
<1>5. Solves(it)
  <2> HIDE DEF Solves
  <2>1. QED
    BY <1>4, Zenon
<1> HIDE DEF it
<1>6. it[{}] = NoGap
  BY <1>5
<1>7. ASSUME NEW d \in SUBSET DOMAIN seq, d # {}, it[d \ {Max(d)}] \in Scan
      PROVE  it[d] = ScanStep(part)[<<it[d \ {Max(d)}], seq[Max(d)]>>]
  <2>1. it[d] = RangeStep(part, it[d \ {Max(d)}], seq[Max(d)])
    BY <1>5, <1>7
  <2>2. seq[Max(d)] \in Int
    BY <1>3, <1>7 DEF PeelsOf
  <2>3. QED
    BY <1>7, <2>1, <2>2 DEF ScanStep
<1>8. PeelsTo(ScanStep(part), Scan, NoGap, seq, it)
  BY <1>6, <1>7 DEF PeelsTo
<1>9. it[DOMAIN seq] = Result(ScanStep(part), Scan, NoGap, seq)
  BY <1>1, <1>8, PeelIsResult
<1>10. QED
  BY <1>2, <1>9 DEF seq

\* A chunk number within the ranges.
Covers(ranges, i) == \E r \in DOMAIN ranges : ranges[r].first <= i /\ i <= ranges[r].last

\* A range more covers its chunks more.
LEMMA CoversMore ==
  ASSUME NEW s \in Seq(Gap), NEW gap \in Gap, NEW i \in Int
  PROVE  Covers(Append(s, gap), i) <=> Covers(s, i) \/ (gap.first <= i /\ i <= gap.last)
<1> DEFINE t == Append(s, gap)
<1>1. /\ Len(s) \in Nat /\ DOMAIN s = 1 .. Len(s) /\ DOMAIN t = 1 .. Len(s) + 1
      /\ t[Len(s) + 1] = gap /\ \A r \in 1 .. Len(s) : t[r] = s[r]
  OBVIOUS
<1> HIDE DEF t
<1>2. DOMAIN t = DOMAIN s \cup {Len(s) + 1}
  BY <1>1
<1>3. QED
  BY <1>1, <1>2 DEF Covers, t

\* What the scan knows before index k: the missing chunks so far are those of the
\* ranges and those of the gap that is open.
ScanKnows(part, acc, k) ==
  /\ acc \in Scan
  /\ acc.start \in -1 .. k - 1
  /\ \A r \in DOMAIN acc.ranges : acc.ranges[r].last < k
  /\ \A i \in 0 .. k - 1 :
       i \notin DOMAIN part.received <=> Covers(acc.ranges, i) \/ (acc.start # -1 /\ acc.start <= i)

\* One index more.
LEMMA ScanKnowsMore ==
  ASSUME NEW part, NEW k \in Nat, NEW acc, ScanKnows(part, acc, k)
  PROVE  ScanKnows(part, RangeStep(part, acc, k), k + 1)
<1> DEFINE new == RangeStep(part, acc, k)
           gap == [first |-> acc.start, last |-> k - 1]
<1>1. /\ acc \in Scan /\ acc.start \in Int /\ acc.ranges \in Seq(Gap) /\ acc.start \in -1 .. k - 1
      /\ \A r \in DOMAIN acc.ranges : acc.ranges[r].last < k /\ acc.ranges[r] \in Gap
  BY DEF ScanKnows, Scan
<1>2. ~Covers(acc.ranges, k)
  BY <1>1 DEF Covers, Gap
<1>3. \A r \in DOMAIN acc.ranges : acc.ranges[r].last < k + 1
  BY <1>1 DEF Gap
<1>4. \A i \in 0 .. (k + 1) - 1 : i \in 0 .. k - 1 \/ i = k
  OBVIOUS
<1>5. CASE k \notin DOMAIN part.received /\ acc.start = -1
  <2>1. new = [acc EXCEPT !.start = k]
    BY <1>5 DEF RangeStep
  <2>2. new \in Scan /\ new.start = k /\ new.ranges = acc.ranges
    BY <1>1, <2>1 DEF Scan
  <2> HIDE DEF new
  <2>3. QED
    BY <1>1, <1>3, <1>4, <1>5, <2>2 DEF ScanKnows, new
<1>6. CASE k \in DOMAIN part.received /\ acc.start # -1
  <2>1. new = [start |-> -1, ranges |-> Append(acc.ranges, gap)]
    BY <1>6 DEF RangeStep
  <2>2. gap \in Gap /\ gap.first = acc.start /\ gap.last = k - 1
    BY <1>1 DEF Gap
  <2> HIDE DEF gap, new
  <2>3. Append(acc.ranges, gap) \in Seq(Gap)
    BY <1>1, <2>2
  <2>4. new \in Scan /\ new.start = -1 /\ new.ranges = Append(acc.ranges, gap)
    BY <2>1, <2>3 DEF Scan
  <2>5. \A i \in Int : Covers(new.ranges, i) <=> Covers(acc.ranges, i) \/ (acc.start <= i /\ i <= k - 1)
    BY <1>1, <2>2, <2>4, CoversMore
  <2>6. \A r \in DOMAIN new.ranges : new.ranges[r].last < k + 1
    <3> DEFINE t == new.ranges
               s == acc.ranges
    <3>1. t = Append(s, gap) /\ s \in Seq(Gap)
      BY <1>1, <2>4
    <3> HIDE DEF t, s
    <3>2. DOMAIN t = 1 .. Len(s) + 1 /\ t[Len(s) + 1] = gap /\ \A r \in 1 .. Len(s) : t[r] = s[r]
      BY <2>2, <3>1
    <3>3. \A r \in DOMAIN t : r \in DOMAIN s \/ r = Len(s) + 1
      BY <3>1, <3>2
    <3>4. QED
      BY <1>3, <2>2, <3>1, <3>2, <3>3 DEF t, s
  <2>7. QED
    BY <1>1, <1>2, <1>4, <1>6, <2>4, <2>5, <2>6 DEF ScanKnows, new
<1>7. CASE ~(k \notin DOMAIN part.received /\ acc.start = -1) /\ ~(k \in DOMAIN part.received /\ acc.start # -1)
  <2>1. new = acc
    BY <1>7 DEF RangeStep
  <2> HIDE DEF new
  <2>2. QED
    BY <1>1, <1>2, <1>3, <1>4, <1>7, <2>1 DEF ScanKnows, new
<1>8. QED
  BY <1>5, <1>6, <1>7

\* The missing ranges cover the chunks that are missing, and no other.
LEMMA MissingCovers ==
  ASSUME NEW part, part.chunk_count \in Nat
  PROVE  \A j \in 0 .. part.chunk_count - 1 :
           Covers(missing_ranges(part), j) <=> j \notin DOMAIN part.received
<1> DEFINE n == part.chunk_count
           seq == Indices(part)
<1>1. /\ seq \in Seq(Int) /\ Len(seq) = n /\ \A i \in 1 .. n : seq[i] = i - 1
      /\ ScanStep(part) \in Steps(Scan, Int) /\ NoGap \in Scan
  BY ScanStepIs DEF Indices
<1>2. PICK g : RunOf(ScanStep(part), Scan, NoGap, seq, g)
  <2> HIDE DEF seq
  <2>1. QED
    BY <1>1, RunOfExists
<1>3. Result(ScanStep(part), Scan, NoGap, seq) = g[n]
  <2> HIDE DEF seq, n
  <2>1. QED
    BY <1>1, <1>2, ResultIs
<1> HIDE DEF seq
<1>4. ASSUME NEW i \in 1 .. n PROVE g[i] = RangeStep(part, g[i - 1], i - 1)
  <2>1. g[i] = ScanStep(part)[<<g[i - 1], seq[i]>>] /\ g[i - 1] \in Scan
    BY <1>1, <1>2, <1>4 DEF RunOf
  <2>2. seq[i] = i - 1 /\ i - 1 \in Int
    BY <1>1, <1>4
  <2>3. QED
    BY <2>1, <2>2, ScanStepIs
<1>5. n \in Nat
  OBVIOUS
<1> HIDE DEF n
<1> DEFINE T == {k \in 0 .. n : ScanKnows(part, g[k], k)}
<1>6. 0 \in T
  <2>1. g[0] = NoGap
    BY <1>1, <1>2 DEF RunOf
  <2>2. NoGap \in Scan /\ NoGap.start = -1 /\ NoGap.ranges = << >> /\ DOMAIN << >> = {}
    BY <1>1 DEF NoGap
  <2> HIDE DEF NoGap
  <2>3. ScanKnows(part, NoGap, 0)
    BY <2>2 DEF ScanKnows
  <2>4. QED
    BY <1>5, <2>1, <2>3
<1>7. ASSUME NEW k \in 0 .. n, k \in T, k < n PROVE k + 1 \in T
  <2>1. k + 1 \in 1 .. n /\ (k + 1) - 1 = k /\ k + 1 \in 0 .. n /\ k \in Nat
    BY <1>5, <1>7
  <2>2. g[k + 1] = RangeStep(part, g[k], k)
    BY <1>4, <2>1
  <2>3. ScanKnows(part, RangeStep(part, g[k], k), k + 1)
    BY <1>7, <2>1, ScanKnowsMore
  <2>4. QED
    BY <2>1, <2>2, <2>3
<1>8. 0 .. n \subseteq T
  <2> HIDE DEF T
  <2>1. QED
    BY <1>5, <1>6, <1>7, IntervalInduction
<1>9. ScanKnows(part, g[n], n)
  <2>1. n \in 0 .. n
    BY <1>5
  <2>2. QED
    BY <1>8, <2>1
<1> DEFINE acc == g[n]
           last == [first |-> acc.start, last |-> n - 1]
<1>10. missing_ranges(part) = IF acc.start = -1 THEN acc.ranges ELSE Append(acc.ranges, last)
  BY <1>3, MissingIs DEF seq, n
<1>11. last \in Gap /\ acc.ranges \in Seq(Gap) /\ last.first = acc.start /\ last.last = n - 1
  BY <1>5, <1>9 DEF ScanKnows, Scan, Gap
<1> HIDE DEF last, acc
<1>12. \A i \in Int : Covers(Append(acc.ranges, last), i)
                        <=> Covers(acc.ranges, i) \/ (acc.start <= i /\ i <= n - 1)
  BY <1>11, CoversMore
<1>13. \A i \in 0 .. n - 1 :
         i \notin DOMAIN part.received <=> Covers(acc.ranges, i) \/ (acc.start # -1 /\ acc.start <= i)
  BY <1>9 DEF ScanKnows, acc
<1>14. QED
  BY <1>5, <1>10, <1>12, <1>13 DEF n

\* A part that lacks a chunk has a missing range.
LEMMA MissingSome ==
  ASSUME NEW part, part.chunk_count \in Nat,
         NEW j \in 0 .. part.chunk_count - 1, j \notin DOMAIN part.received
  PROVE  missing_ranges(part) # << >>
<1>1. Covers(missing_ranges(part), j)
  BY MissingCovers
<1>2. QED
  BY <1>1 DEF Covers

----------------------------------------------------------------------------
(* The two sessions. *)

\* Records with the fields of the two sessions.
SenderShape(N, W, C, F) == [next : N, window : W, closed : C, failed : F]
\* A reading session whose fields come from the given sets.
ReaderShape(B, A, C, F) == [buf : B, attempts : A, closed : C, failed : F]

\* Such a record is its fields.
LEMMA SenderShapeIs ==
  ASSUME NEW N, NEW W, NEW C, NEW F, NEW z \in SenderShape(N, W, C, F)
  PROVE  z = [next |-> z.next, window |-> z.window, closed |-> z.closed, failed |-> z.failed]
BY DEF SenderShape

\* The same of the reading session.
LEMMA ReaderShapeIs ==
  ASSUME NEW B, NEW A, NEW C, NEW F, NEW z \in ReaderShape(B, A, C, F)
  PROVE  z = [buf |-> z.buf, attempts |-> z.attempts, closed |-> z.closed, failed |-> z.failed]
BY DEF ReaderShape

\* A record with the fields of the sending session.
IsSender(s) == s = [next |-> s.next, window |-> s.window, closed |-> s.closed, failed |-> s.failed]

\* A record with the fields of the reading session.
IsReader(s) == s = [buf |-> s.buf, attempts |-> s.attempts, closed |-> s.closed, failed |-> s.failed]

\* The sending session with the next id ...
LEMMA SenderNext ==
  ASSUME NEW s, IsSender(s), NEW n
  PROVE  LET z == [s EXCEPT !.next = n]
         IN IsSender(z) /\ z.next = n /\ z.window = s.window /\ z.failed = s.failed
<1> DEFINE z == [s EXCEPT !.next = n]
           N == {s.next, n}
           W == {s.window}
           C == {s.closed}
           F == {s.failed}
<1>1. s \in SenderShape(N, W, C, F)
  BY DEF SenderShape, IsSender
<1>2. z \in SenderShape(N, W, C, F) /\ z.next = n /\ z.window = s.window /\ z.failed = s.failed
  BY <1>1 DEF SenderShape
<1> HIDE DEF z, N, W, C, F
<1>3. IsSender(z)
  BY <1>2, SenderShapeIs DEF IsSender
<1>4. QED
  BY <1>2, <1>3 DEF z

\* An update of two fields.
Sends(s, n, w) == [s EXCEPT !.next = n, !.window = w]

\* ... with a message in its window as well ...
LEMMA SenderSends ==
  ASSUME NEW s, IsSender(s), NEW n, NEW w
  PROVE  LET z == Sends(s, n, w)
         IN IsSender(z) /\ z.next = n /\ z.window = w /\ z.failed = s.failed
<1> DEFINE z == Sends(s, n, w)
           N == {s.next, n}
           W == {s.window, w}
           C == {s.closed}
           F == {s.failed}
<1>1. s \in SenderShape(N, W, C, F)
  BY DEF SenderShape, IsSender
<1>2. z \in SenderShape(N, W, C, F) /\ z.next = n /\ z.window = w /\ z.failed = s.failed
  BY <1>1 DEF Sends, SenderShape
<1> HIDE DEF z, N, W, C, F
<1>3. IsSender(z)
  BY <1>2, SenderShapeIs DEF IsSender
<1>4. QED
  BY <1>2, <1>3 DEF z

\* ... with another window ...
LEMMA SenderWindow ==
  ASSUME NEW s, IsSender(s), NEW w
  PROVE  LET z == [s EXCEPT !.window = w]
         IN IsSender(z) /\ z.next = s.next /\ z.window = w /\ z.failed = s.failed
<1> DEFINE z == [s EXCEPT !.window = w]
           N == {s.next}
           W == {s.window, w}
           C == {s.closed}
           F == {s.failed}
<1>1. s \in SenderShape(N, W, C, F)
  BY DEF SenderShape, IsSender
<1>2. z \in SenderShape(N, W, C, F) /\ z.next = s.next /\ z.window = w /\ z.failed = s.failed
  BY <1>1 DEF SenderShape
<1> HIDE DEF z, N, W, C, F
<1>3. IsSender(z)
  BY <1>2, SenderShapeIs DEF IsSender
<1>4. QED
  BY <1>2, <1>3 DEF z

\* ... closed ...
LEMMA SenderCloses ==
  ASSUME NEW s, IsSender(s)
  PROVE  LET z == [s EXCEPT !.closed = TRUE]
         IN IsSender(z) /\ z.next = s.next /\ z.window = s.window /\ z.failed = s.failed
<1> DEFINE z == [s EXCEPT !.closed = TRUE]
           N == {s.next}
           W == {s.window}
           C == {s.closed, TRUE}
           F == {s.failed}
<1>1. s \in SenderShape(N, W, C, F)
  BY DEF SenderShape, IsSender
<1>2. z \in SenderShape(N, W, C, F) /\ z.next = s.next /\ z.window = s.window /\ z.failed = s.failed
  BY <1>1 DEF SenderShape
<1> HIDE DEF z, N, W, C, F
<1>3. IsSender(z)
  BY <1>2, SenderShapeIs DEF IsSender
<1>4. QED
  BY <1>2, <1>3 DEF z

\* An update of two fields.
Repairs(s, id, w, x) == [s EXCEPT !.window[id] = w, !.failed = x]

\* ... and with another pending message.
LEMMA SenderRepairs ==
  ASSUME NEW s, IsSender(s), NEW id, NEW w, NEW x
  PROVE  LET z == Repairs(s, id, w, x)
         IN IsSender(z) /\ z.next = s.next /\ z.window = [s.window EXCEPT ![id] = w] /\ z.failed = x
<1> DEFINE z == Repairs(s, id, w, x)
           N == {s.next}
           W == {s.window, [s.window EXCEPT ![id] = w]}
           C == {s.closed}
           F == {s.failed, x}
<1>1. s \in SenderShape(N, W, C, F)
  BY DEF SenderShape, IsSender
<1>2. z \in SenderShape(N, W, C, F) /\ z.next = s.next /\ z.window = [s.window EXCEPT ![id] = w] /\ z.failed = x
  BY <1>1 DEF Repairs, SenderShape
<1> HIDE DEF z, N, W, C, F
<1>3. IsSender(z)
  BY <1>2, SenderShapeIs DEF IsSender
<1>4. QED
  BY <1>2, <1>3 DEF z

\* The reading session when it gives up ...
LEMMA ReaderFails ==
  ASSUME NEW s, IsReader(s)
  PROVE  LET z == [s EXCEPT !.failed = TRUE]
         IN IsReader(z) /\ z.buf = s.buf
<1> DEFINE z == [s EXCEPT !.failed = TRUE]
           B == {s.buf}
           A == {s.attempts}
           C == {s.closed}
           F == {s.failed, TRUE}
<1>1. s \in ReaderShape(B, A, C, F)
  BY DEF ReaderShape, IsReader
<1>2. z \in ReaderShape(B, A, C, F) /\ z.buf = s.buf
  BY <1>1 DEF ReaderShape
<1> HIDE DEF z, B, A, C, F
<1>3. IsReader(z)
  BY <1>2, ReaderShapeIs DEF IsReader
<1>4. QED
  BY <1>2, <1>3 DEF z

\* ... when it is closed ...
LEMMA ReaderCloses ==
  ASSUME NEW s, IsReader(s)
  PROVE  LET z == [s EXCEPT !.closed = TRUE]
         IN IsReader(z) /\ z.buf = s.buf /\ z.attempts = s.attempts /\ z.failed = s.failed
<1> DEFINE z == [s EXCEPT !.closed = TRUE]
           B == {s.buf}
           A == {s.attempts}
           C == {s.closed, TRUE}
           F == {s.failed}
<1>1. s \in ReaderShape(B, A, C, F)
  BY DEF ReaderShape, IsReader
<1>2. z \in ReaderShape(B, A, C, F) /\ z.buf = s.buf /\ z.attempts = s.attempts /\ z.failed = s.failed
  BY <1>1 DEF ReaderShape
<1> HIDE DEF z, B, A, C, F
<1>3. IsReader(z)
  BY <1>2, ReaderShapeIs DEF IsReader
<1>4. QED
  BY <1>2, <1>3 DEF z

\* ... with another buffer ...
LEMMA ReaderBuffers ==
  ASSUME NEW s, IsReader(s), NEW b
  PROVE  LET z == [s EXCEPT !.buf = b]
         IN IsReader(z) /\ z.buf = b /\ z.attempts = s.attempts /\ z.failed = s.failed
<1> DEFINE z == [s EXCEPT !.buf = b]
           B == {s.buf, b}
           A == {s.attempts}
           C == {s.closed}
           F == {s.failed}
<1>1. s \in ReaderShape(B, A, C, F)
  BY DEF ReaderShape, IsReader
<1>2. z \in ReaderShape(B, A, C, F) /\ z.buf = b /\ z.attempts = s.attempts /\ z.failed = s.failed
  BY <1>1 DEF ReaderShape
<1> HIDE DEF z, B, A, C, F
<1>3. IsReader(z)
  BY <1>2, ReaderShapeIs DEF IsReader
<1>4. QED
  BY <1>2, <1>3 DEF z

\* An update of two fields.
Asks(s, a, x) == [s EXCEPT !.attempts = a, !.failed = x]

\* ... and when it has asked for repairs.
LEMMA ReaderAsks ==
  ASSUME NEW s, IsReader(s), NEW a, NEW x
  PROVE  LET z == Asks(s, a, x)
         IN IsReader(z) /\ z.buf = s.buf /\ z.attempts = a /\ z.failed = x
<1> DEFINE z == Asks(s, a, x)
           B == {s.buf}
           A == {s.attempts, a}
           C == {s.closed}
           F == {s.failed, x}
<1>1. s \in ReaderShape(B, A, C, F)
  BY DEF ReaderShape, IsReader
<1>2. z \in ReaderShape(B, A, C, F) /\ z.buf = s.buf /\ z.attempts = a /\ z.failed = x
  BY <1>1 DEF Asks, ReaderShape
<1> HIDE DEF z, B, A, C, F
<1>3. IsReader(z)
  BY <1>2, ReaderShapeIs DEF IsReader
<1>4. QED
  BY <1>2, <1>3 DEF z

----------------------------------------------------------------------------
(* The steps. *)

\* The frames handed over, when the log grows.
LEMMA LogGrows ==
  ASSUME LinkInv, Longer(log, log'), UNCHANGED <<rcv, delivered>>
  PROVE  /\ BufferInv(log', rcv.buf)
         /\ delivered = [i \in 1 .. rcv.buf.expected |-> log'[i]]
         /\ \A p \in net : PacketInv(log', rcv.buf, p)
         /\ WindowInv(log', snd.window)
<1>1. /\ BufferInv(log, rcv.buf) /\ WindowInv(log, snd.window)
      /\ delivered = [i \in 1 .. rcv.buf.expected |-> log[i]]
      /\ \A p \in net : PacketInv(log, rcv.buf, p)
  BY DEF LinkInv
<1>2. \A i \in 1 .. rcv.buf.expected : log'[i] = log[i]
  <2>1. rcv.buf.expected \in 0 .. Len(log)
    BY <1>1 DEF BufferInv
  <2>2. Len(log) \in Nat /\ \A i \in 1 .. Len(log) : log'[i] = log[i]
    BY DEF Longer
  <2>3. \A i \in 1 .. rcv.buf.expected : i \in 1 .. Len(log)
    BY <2>1, <2>2
  <2>4. QED
    BY <2>2, <2>3
<1>3. delivered = [i \in 1 .. rcv.buf.expected |-> log'[i]]
  BY <1>1, <1>2
<1>4. QED
  BY <1>1, <1>3, LongerBuffer, LongerPacket, LongerWindow

\* A log that grows, and the ids of the old and of the new frames.
LEMMA Grown ==
  ASSUME NEW l \in Seq(Frames), NEW f \in Frames
  PROVE  /\ Longer(l, Append(l, f)) /\ Len(Append(l, f)) = Len(l) + 1
         /\ Append(l, f)[Len(l) + 1] = f
         /\ Ids(Append(l, f)) = Ids(l) \cup {Len(l)}
<1> DEFINE m == Append(l, f)
<1>1. /\ m \in Seq(Frames) /\ Len(m) = Len(l) + 1 /\ m[Len(l) + 1] = f /\ Len(l) \in Nat
      /\ \A i \in 1 .. Len(l) : m[i] = l[i]
  OBVIOUS
<1> HIDE DEF m
<1>2. Longer(l, m)
  BY <1>1 DEF Longer
<1>3. Ids(m) = Ids(l) \cup {Len(l)}
  BY <1>1 DEF Ids
<1>4. QED
  BY <1>1, <1>2, <1>3 DEF m

\* Ids of the log before still have left the window only when they may.
LEMMA RetiredMore ==
  ASSUME NEW l, NEW m, Longer(l, m), NEW buf, NEW window, Retired(l, window, buf), NEW wide,
         DOMAIN window \subseteq DOMAIN wide, Len(m) <= MaxInFlight, NEW id \in Ids(l)
  PROVE  id \in DOMAIN wide \/ TooLarge(m[id + 1]) \/ Whole(buf, id)
<1>1. m[id + 1] = l[id + 1]
  BY LongerIds
<1>2. Len(l) <= MaxInFlight
  BY ReliabilityAssumption DEF Longer
<1>3. id \in DOMAIN window \/ TooLarge(l[id + 1]) \/ Whole(buf, id)
  BY <1>2 DEF Retired
<1>4. QED
  BY <1>1, <1>3

\* encode_transport_frame.
LEMMA SendKeeps == ASSUME LinkInv, SendFrame PROVE LinkInv'
<1>1. PICK f \in Frames : encode_transport_frame(f)
  BY DEF SendFrame
<1> DEFINE chunks == fragment_transport_frame(f)
           w == WindowInsert(snd.window, snd.next, chunks)
<1>2. /\ log' = Append(log, f) /\ UNCHANGED <<rcv, delivered>>
      /\ TooLarge(f) => snd' = [snd EXCEPT !.next = snd.next + 1] /\ net' = net
      /\ ~TooLarge(f) => /\ snd' = [snd EXCEPT !.next = snd.next + 1, !.window = w]
                         /\ net' = net \cup PacketsOf(snd.next, chunks)
  BY <1>1 DEF encode_transport_frame
<1>3. /\ log \in Seq(Frames) /\ IsSender(snd) /\ IsReader(rcv) /\ snd.next = Len(log)
      /\ WindowInv(log, snd.window) /\ Retired(log, snd.window, rcv.buf)
  BY DEF LinkInv, IsSender, IsReader
<1>4. /\ Longer(log, log') /\ Len(log') = Len(log) + 1 /\ log'[Len(log) + 1] = f
      /\ Ids(log') = Ids(log) \cup {Len(log)} /\ log' \in Seq(Frames)
  BY <1>2, <1>3, Grown DEF Longer
<1>5. /\ BufferInv(log', rcv.buf)
      /\ delivered = [i \in 1 .. rcv.buf.expected |-> log'[i]]
      /\ \A p \in net : PacketInv(log', rcv.buf, p)
      /\ WindowInv(log', snd.window)
  BY <1>2, <1>4, LogGrows
<1> HIDE DEF w, chunks
<1>6. CASE TooLarge(f)
  <2>1. IsSender(snd') /\ snd'.next = snd.next + 1 /\ snd'.window = snd.window
    <3> DEFINE n == snd.next + 1
    <3> HIDE DEF n
    <3>1. snd' = [snd EXCEPT !.next = n] /\ IsSender(snd)
      BY <1>2, <1>3, <1>6 DEF n
    <3>2. IsSender(snd') /\ snd'.next = n /\ snd'.window = snd.window
      BY <3>1, SenderNext
    <3>3. QED
      BY <3>2 DEF n
  <2>2. Retired(log', snd.window, rcv.buf)
    <3>1. ASSUME Len(log') <= MaxInFlight, NEW id \in Ids(log')
          PROVE  id \in DOMAIN snd.window \/ TooLarge(log'[id + 1]) \/ Whole(rcv.buf, id)
      <4>1. CASE id \in Ids(log)
        BY <1>3, <1>4, <3>1, <4>1, RetiredMore
      <4>2. CASE id = Len(log)
        BY <1>4, <1>6, <4>2
      <4>3. QED
        BY <1>4, <3>1, <4>1, <4>2
    <3>2. QED
      BY <3>1 DEF Retired
  <2>3. QED
    BY <1>2, <1>3, <1>4, <1>5, <1>6, <2>1, <2>2 DEF LinkInv, IsSender, IsReader
<1>7. CASE ~TooLarge(f)
  <2>1. IsSender(snd') /\ snd'.next = snd.next + 1 /\ snd'.window = w
    <3> DEFINE n == snd.next + 1
    <3> HIDE DEF n
    <3>1. snd' = [snd EXCEPT !.next = n, !.window = w] /\ IsSender(snd)
      BY <1>2, <1>3, <1>7 DEF n
    <3>2. IsSender(snd') /\ snd'.next = n /\ snd'.window = w
      <4>1. snd' = Sends(snd, n, w)
        BY <3>1 DEF Sends
      <4>2. QED
        BY <3>1, <4>1, SenderSends
    <3>3. QED
      BY <3>2 DEF n
  <2>2. Message(log', Len(log))
    BY <1>4, <1>7 DEF Message
  <2>3. WindowInv(log', w) /\ (Len(log') <= MaxInFlight => DOMAIN w = DOMAIN snd.window \cup {Len(log)})
    BY <1>3, <1>4, <2>2, WindowMore DEF w, chunks
  <2>4. Retired(log', w, rcv.buf)
    <3>1. ASSUME Len(log') <= MaxInFlight, NEW id \in Ids(log')
          PROVE  id \in DOMAIN w \/ TooLarge(log'[id + 1]) \/ Whole(rcv.buf, id)
      <4>1. CASE id \in Ids(log)
        BY <1>3, <1>4, <2>3, <3>1, <4>1, RetiredMore
      <4>2. CASE id = Len(log)
        BY <2>3, <3>1, <4>2
      <4>3. QED
        BY <1>4, <3>1, <4>1, <4>2
    <3>2. QED
      BY <3>1 DEF Retired
  <2>5. \A p \in PacketsOf(Len(log), chunks) : PacketInv(log', rcv.buf, p)
    BY <1>4, <2>2, PacketsAreChunks DEF chunks, PacketInv
  <2>6. \A p \in net' : PacketInv(log', rcv.buf, p)
    BY <1>2, <1>3, <1>5, <1>7, <2>5
  <2>7. QED
    BY <1>2, <1>3, <1>4, <1>5, <2>1, <2>3, <2>4, <2>6 DEF LinkInv, IsSender, IsReader
<1>8. QED
  BY <1>6, <1>7

\* encode_transport_frames, when the last frame is too large.
LEMMA SendManyKeeps == ASSUME LinkInv, encode_transport_frames PROVE LinkInv'
<1>1. PICK f \in Frames, g \in Frames :
        /\ ~TooLarge(f) /\ TooLarge(g)
        /\ log' = Append(Append(log, f), g)
        /\ snd' = [snd EXCEPT !.next = snd.next + 2,
                              !.window = WindowInsert(snd.window, snd.next, fragment_transport_frame(f))]
        /\ UNCHANGED <<rcv, net, delivered>>
  BY DEF encode_transport_frames
<1> DEFINE w == WindowInsert(snd.window, snd.next, fragment_transport_frame(f))
           n == Len(log)
           mid == Append(log, f)
<1>2. /\ log \in Seq(Frames) /\ IsSender(snd) /\ IsReader(rcv) /\ snd.next = n
      /\ WindowInv(log, snd.window) /\ Retired(log, snd.window, rcv.buf)
  BY DEF LinkInv, IsSender, IsReader
<1>3. /\ Longer(log, mid) /\ Len(mid) = n + 1 /\ mid[n + 1] = f /\ mid \in Seq(Frames)
      /\ Ids(mid) = Ids(log) \cup {n}
  BY <1>2, Grown DEF Longer
<1> HIDE DEF mid
<1>4. /\ Longer(mid, log') /\ Len(log') = n + 2 /\ log'[n + 2] = g /\ log' \in Seq(Frames)
      /\ Ids(log') = Ids(log) \cup {n, n + 1}
  <2>1. /\ Longer(mid, log') /\ Len(log') = Len(mid) + 1 /\ log'[Len(mid) + 1] = g
        /\ Ids(log') = Ids(mid) \cup {Len(mid)}
    BY <1>1, <1>3, Grown DEF mid
  <2>2. (n + 1) + 1 = n + 2
    BY <1>2
  <2>3. QED
    BY <1>3, <2>1, <2>2 DEF Longer
<1>5. Longer(log, log') /\ log'[n + 1] = f
  <2>1. /\ n \in Nat /\ \A i \in 1 .. n + 1 : log'[i] = mid[i]
        /\ \A i \in 1 .. n : mid[i] = log[i]
    BY <1>2, <1>3, <1>4 DEF Longer
  <2>2. n + 1 \in 1 .. n + 1 /\ \A i \in 1 .. n : i \in 1 .. n + 1
    BY <2>1
  <2>3. \A i \in 1 .. n : log'[i] = log[i]
    BY <2>1, <2>2
  <2>4. log'[n + 1] = f
    BY <1>3, <2>1, <2>2
  <2>5. Len(log) <= Len(log')
    BY <1>4, <2>1
  <2>6. QED
    BY <1>2, <1>4, <2>3, <2>4, <2>5 DEF Longer
<1>6. /\ BufferInv(log', rcv.buf)
      /\ delivered = [i \in 1 .. rcv.buf.expected |-> log'[i]]
      /\ \A p \in net : PacketInv(log', rcv.buf, p)
  BY <1>1, <1>5, LogGrows
<1>7. Message(log', n)
  BY <1>1, <1>4, <1>5 DEF Message
<1>8. WindowInv(log', w) /\ (Len(log') <= MaxInFlight => DOMAIN w = DOMAIN snd.window \cup {n})
  BY <1>2, <1>5, <1>7, WindowMore
<1> HIDE DEF w
<1>9. IsSender(snd') /\ snd'.next = n + 2 /\ snd'.window = w
  <2> DEFINE m == snd.next + 2
  <2>1. snd' = [snd EXCEPT !.next = m, !.window = w] /\ IsSender(snd) /\ m = n + 2
    BY <1>1, <1>2 DEF w
  <2> HIDE DEF m
  <2>2. IsSender(snd') /\ snd'.next = m /\ snd'.window = w
    <3>1. snd' = Sends(snd, m, w)
      BY <2>1 DEF Sends
    <3>2. QED
      BY <2>1, <3>1, SenderSends
  <2>3. QED
    BY <2>1, <2>2
<1>10. Retired(log', w, rcv.buf)
  <2>1. ASSUME Len(log') <= MaxInFlight, NEW id \in Ids(log')
        PROVE  id \in DOMAIN w \/ TooLarge(log'[id + 1]) \/ Whole(rcv.buf, id)
    <3>1. CASE id \in Ids(log)
      BY <1>2, <1>5, <1>8, <2>1, <3>1, RetiredMore
    <3>2. CASE id = n
      BY <1>8, <2>1, <3>2
    <3>3. CASE id = n + 1
      <4>1. (n + 1) + 1 = n + 2
        BY <1>2
      <4>2. QED
        BY <1>1, <1>4, <3>3, <4>1
    <3>4. QED
      BY <1>4, <2>1, <3>1, <3>2, <3>3
  <2>2. QED
    BY <2>1 DEF Retired
<1>11. QED
  BY <1>1, <1>2, <1>4, <1>6, <1>8, <1>9, <1>10 DEF LinkInv, IsSender, IsReader

\* What is in flight after a datagram arrived.
LEMMA ArrivesIn == ASSUME NEW p, NEW out, Arrives(p, out) PROVE net' \subseteq net \cup out
BY DEF Arrives

\* The parts of the invariant.
LEMMA LinkParts ==
  ASSUME LinkInv
  PROVE  /\ log \in Seq(Frames) /\ Len(log) \in Nat
         /\ IsSender(snd) /\ IsReader(rcv) /\ snd.next = Len(log)
         /\ WindowInv(log, snd.window) /\ BufferInv(log, rcv.buf)
         /\ Retired(log, snd.window, rcv.buf)
         /\ delivered = [i \in 1 .. rcv.buf.expected |-> log[i]]
         /\ \A p \in net : PacketInv(log, rcv.buf, p)
BY DEF LinkInv, IsSender, IsReader

\* A session that changes nothing else keeps the invariant.
LEMMA SenderKeeps ==
  ASSUME LinkInv, UNCHANGED <<rcv, log, delivered>>,
         IsSender(snd'), snd'.next = snd.next,
         WindowInv(log, snd'.window), Retired(log, snd'.window, rcv.buf),
         NEW out, net' \subseteq net \cup out, \A p \in out : PacketInv(log, rcv.buf, p)
  PROVE  LinkInv'
BY LinkParts DEF LinkInv, IsSender, IsReader

\* The same of the reader when it hands nothing over.
LEMMA ReaderKeeps ==
  ASSUME LinkInv, UNCHANGED <<snd, log, delivered>>,
         IsReader(rcv'), rcv'.buf = rcv.buf,
         NEW out, net' \subseteq net \cup out, \A p \in out : PacketInv(log, rcv.buf, p)
  PROVE  LinkInv'
BY LinkParts DEF LinkInv, IsSender, IsReader

\* A datagram of each kind.
LEMMA PacketKinds ==
  ASSUME NEW l, NEW buf, NEW p, PacketInv(l, buf, p)
  PROVE  /\ p.kind = "Data" => IsChunk(l, p)
         /\ p.kind = "Ack" => p.id \in Ids(l) /\ Whole(buf, p.id)
         /\ p.kind = "RepairRequest" => p.id \in Ids(l) /\ p.ranges # << >>
<1>1. ClosePacket.kind = "Close"
  BY DEF ClosePacket
<1>2. QED
  BY <1>1 DEF PacketInv, IsChunk

\* An acknowledgement.
LEMMA AckKeeps == ASSUME LinkInv, RecvAck PROVE LinkInv'
<1>1. PICK p \in net :
        /\ p.kind = "Ack"
        /\ snd' = [snd EXCEPT !.window = acknowledge(snd.window, p.id)]
        /\ Arrives(p, {})
        /\ UNCHANGED <<rcv, log, delivered>>
  BY DEF RecvAck
<1> DEFINE w == acknowledge(snd.window, p.id)
<1>2. p.id \in Ids(log) /\ Whole(rcv.buf, p.id)
  BY <1>1, LinkParts, PacketKinds
<1>3. DOMAIN w = DOMAIN snd.window \ {p.id} /\ \A k \in DOMAIN w : w[k] = snd.window[k]
  BY DEF acknowledge
<1> HIDE DEF w
<1>4. IsSender(snd') /\ snd'.next = snd.next /\ snd'.window = w
  BY <1>1, LinkParts, SenderWindow DEF w
<1>5. WindowInv(log, w)
  <2>1. /\ Cardinality(DOMAIN snd.window) <= MaxInFlight /\ DOMAIN snd.window \subseteq 0 .. Len(log) - 1
        /\ \A id \in DOMAIN snd.window : Message(log, id) /\ PendingInv(log[id + 1], snd.window[id])
    BY LinkParts DEF WindowInv, Message, Ids
  <2>2. IsFiniteSet(DOMAIN snd.window)
    <3> DEFINE D == DOMAIN snd.window
               all == 0 .. Len(log) - 1
    <3>1. IsFiniteSet(all)
      BY LinkParts, IdsCount
    <3>2. D \in SUBSET all
      BY <2>1
    <3> HIDE DEF D, all
    <3>3. IsFiniteSet(D)
      BY <3>1, <3>2, FS_Subset
    <3>4. QED
      BY <3>3 DEF D
  <2> DEFINE D == DOMAIN snd.window
             E == DOMAIN w
  <2>3. E \in SUBSET D
    BY <1>3
  <2> HIDE DEF D, E
  <2>4. Cardinality(E) <= Cardinality(D) /\ IsFiniteSet(E) /\ IsFiniteSet(D)
    BY <2>2, <2>3, FS_Subset DEF D
  <2>5. Cardinality(E) \in Nat /\ Cardinality(D) \in Nat
    BY <2>4, FS_CardinalityType
  <2>6. Cardinality(DOMAIN w) <= MaxInFlight
    BY <2>1, <2>4, <2>5, ReliabilityAssumption DEF D, E
  <2>7. QED
    BY <1>3, <2>1, <2>6 DEF WindowInv
<1>6. Retired(log, w, rcv.buf)
  <2>1. Retired(log, snd.window, rcv.buf)
    BY LinkParts
  <2>2. QED
    BY <1>2, <1>3, <2>1 DEF Retired
<1>7. net' \subseteq net \cup {}
  BY <1>1, ArrivesIn
<1>8. QED
  BY <1>1, <1>4, <1>5, <1>6, <1>7, SenderKeeps

\* A repair request.
LEMMA RepairKeeps == ASSUME LinkInv, RecvRepair PROVE LinkInv'
<1>1. PICK p \in net :
        /\ p.kind = "RepairRequest"
        /\ IF p.id \notin DOMAIN snd.window
           THEN Arrives(p, {}) /\ UNCHANGED snd
           ELSE LET pending == [snd.window[p.id] EXCEPT !.repair_attempts = @ + 1]
                    over == pending.repair_attempts > MaxAttempts
                IN /\ snd' = [snd EXCEPT !.window[p.id] = pending, !.failed = over]
                   /\ Arrives(p, IF over THEN {}
                                 ELSE repair_packets_for_message(p.id, pending, p.ranges))
        /\ UNCHANGED <<rcv, log, delivered>>
  BY DEF RecvRepair
<1>2. CASE p.id \notin DOMAIN snd.window
  <2>1. net' \subseteq net \cup {} /\ snd' = snd
    BY <1>1, <1>2, ArrivesIn
  <2>2. QED
    BY <1>1, <2>1, LinkParts, SenderKeeps
<1>3. CASE p.id \in DOMAIN snd.window
  <2> DEFINE old == snd.window[p.id]
             pending == [old EXCEPT !.repair_attempts = old.repair_attempts + 1]
             over == pending.repair_attempts > MaxAttempts
             out == IF over THEN {} ELSE repair_packets_for_message(p.id, pending, p.ranges)
             f == log[p.id + 1]
             w == [snd.window EXCEPT ![p.id] = pending]
  <2>1. /\ snd' = [snd EXCEPT !.window[p.id] = pending, !.failed = over]
        /\ Arrives(p, out)
    BY <1>1, <1>3
  <2>2. Message(log, p.id) /\ PendingInv(f, old) /\ Cardinality(DOMAIN snd.window) <= MaxInFlight
    BY <1>3, LinkParts DEF WindowInv
  <2>3. PendingInv(f, pending) /\ pending.chunks = fragment_transport_frame(f)
    <3>1. old = [chunks |-> old.chunks, repair_attempts |-> old.repair_attempts]
          /\ old.chunks = fragment_transport_frame(f)
      BY <2>2 DEF PendingInv
    <3> DEFINE n == old.repair_attempts + 1
    <3> HIDE DEF old, n
    <3>2. [old EXCEPT !.repair_attempts = n] = [chunks |-> old.chunks, repair_attempts |-> n]
      BY <3>1
    <3>3. pending = [chunks |-> old.chunks, repair_attempts |-> n]
      BY <3>2 DEF n
    <3> HIDE DEF pending
    <3>4. QED
      BY <3>1, <3>3 DEF PendingInv
  <2> HIDE DEF pending, over, old
  <2>4. /\ DOMAIN w = DOMAIN snd.window
        /\ \A k \in DOMAIN w : w[k] = IF k = p.id THEN pending ELSE snd.window[k]
    OBVIOUS
  <2>5. IsSender(snd') /\ snd'.next = snd.next /\ snd'.window = w
    <3> DEFINE k == p.id
    <3> HIDE DEF k
    <3>1. snd' = Repairs(snd, k, pending, over)
      BY <2>1 DEF Repairs, k
    <3>2. IsSender(snd)
      BY LinkParts
    <3> DEFINE z == Repairs(snd, k, pending, over)
    <3> HIDE DEF w
    <3>3. IsSender(z) /\ z.next = snd.next /\ z.window = [snd.window EXCEPT ![k] = pending]
      BY <3>2, SenderRepairs
    <3>4. w = [snd.window EXCEPT ![k] = pending]
      BY DEF w, k
    <3> HIDE DEF z
    <3>5. QED
      BY <3>1, <3>3, <3>4 DEF z
  <2> HIDE DEF w
  <2>6. WindowInv(log, w)
    <3>1. \A k \in DOMAIN snd.window : Message(log, k) /\ PendingInv(log[k + 1], snd.window[k])
      BY LinkParts DEF WindowInv
    <3>2. QED
      BY <2>2, <2>3, <2>4, <3>1 DEF WindowInv
  <2>7. Retired(log, w, rcv.buf)
    BY <2>4, LinkParts DEF Retired
  <2>8. \A q \in out : PacketInv(log, rcv.buf, q)
    <3>1. out \subseteq PacketsOf(p.id, fragment_transport_frame(f))
      BY <2>3 DEF repair_packets_for_message
    <3> HIDE DEF out
    <3>2. \A q \in out : IsChunk(log, q)
      BY <2>2, <3>1, LinkParts, PacketsAreChunks
    <3>3. QED
      BY <3>2 DEF PacketInv
  <2>9. net' \subseteq net \cup out
    BY <2>1, ArrivesIn
  <2> HIDE DEF out
  <2>10. QED
    BY <1>1, <2>5, <2>6, <2>7, <2>8, <2>9, SenderKeeps
<1>4. QED
  BY <1>2, <1>3

\* close.
LEMMA CloseKeeps == ASSUME LinkInv, encode_close PROVE LinkInv'
<1>1. /\ snd' = [snd EXCEPT !.closed = TRUE] /\ net' = net \cup {ClosePacket}
      /\ UNCHANGED <<rcv, log, delivered>>
  BY DEF encode_close
<1>2. IsSender(snd') /\ snd'.next = snd.next /\ snd'.window = snd.window
  BY <1>1, LinkParts, SenderCloses
<1>3. \A q \in {ClosePacket} : PacketInv(log, rcv.buf, q)
  BY DEF PacketInv
<1>4. QED
  BY <1>1, <1>2, <1>3, LinkParts, SenderKeeps

\* A chunk arrives.
LEMMA DataKeeps == ASSUME LinkInv, RecvData PROVE LinkInv'
<1>1. PICK p \in net :
        /\ p.kind = "Data"
        /\ IF PartialFor(rcv.buf, p).chunk_count # p.count
           THEN rcv' = [rcv EXCEPT !.failed = TRUE] /\ Arrives(p, {}) /\ UNCHANGED delivered
           ELSE LET buf == insert_data(rcv.buf, p)
                IN /\ rcv' = [rcv EXCEPT !.buf = AfterReady(buf)]
                   /\ delivered' = delivered \o ReadyFrames(buf)
                   /\ Arrives(p, AcksFor(rcv.buf, p))
        /\ UNCHANGED <<snd, log>>
  BY DEF RecvData
<1>2. CASE PartialFor(rcv.buf, p).chunk_count # p.count
  <2>1. IsReader(rcv') /\ rcv'.buf = rcv.buf
    BY <1>1, <1>2, LinkParts, ReaderFails
  <2> DEFINE out == {}
  <2>2. Arrives(p, out) /\ UNCHANGED <<snd, log, delivered>>
    BY <1>1, <1>2
  <2>3. \A q \in out : PacketInv(log, rcv.buf, q)
    OBVIOUS
  <2> HIDE DEF out
  <2>4. net' \subseteq net \cup out
    BY <2>2, ArrivesIn
  <2>5. QED
    BY <1>1, <1>2, <2>1, <2>2, <2>3, <2>4, ReaderKeeps
<1>3. CASE PartialFor(rcv.buf, p).chunk_count = p.count
  <2> DEFINE mid == insert_data(rcv.buf, p)
             new == AfterReady(mid)
             out == AcksFor(rcv.buf, p)
  <2>1. /\ rcv' = [rcv EXCEPT !.buf = new] /\ delivered' = delivered \o ReadyFrames(mid)
        /\ Arrives(p, out) /\ UNCHANGED <<snd, log>>
    BY <1>1, <1>3
  <2>2. IsChunk(log, p)
    BY <1>1, LinkParts, PacketKinds
  <2>3. /\ BufferInv(log, mid) /\ mid.expected = rcv.buf.expected
        /\ DOMAIN rcv.buf.completed \subseteq DOMAIN mid.completed
        /\ Completes(rcv.buf, p) => p.id \in DOMAIN mid.completed
    BY <2>2, LinkParts, InsertKeeps
  <2> HIDE DEF mid
  <2>4. /\ BufferInv(log, new)
        /\ [i \in 1 .. mid.expected |-> log[i]] \o ReadyFrames(mid) = [i \in 1 .. new.expected |-> log[i]]
        /\ \A id \in Ids(log) : Whole(mid, id) => Whole(new, id)
    BY <2>3, LinkParts, ReadyKeeps
  <2> HIDE DEF new
  <2>5. \A id \in Ids(log) : Whole(rcv.buf, id) => Whole(new, id)
    BY <2>3, <2>4 DEF Whole
  <2>6. IsReader(rcv') /\ rcv'.buf = new
    BY <2>1, LinkParts, ReaderBuffers
  <2>7. delivered' = [i \in 1 .. new.expected |-> log[i]]
    BY <2>1, <2>3, <2>4, LinkParts
  <2>8. \A q \in net : PacketInv(log, new, q)
    <3>1. \A q \in net : PacketInv(log, rcv.buf, q)
      BY LinkParts
    <3>2. QED
      BY <2>5, <3>1 DEF PacketInv
  <2>9. \A q \in out : PacketInv(log, new, q)
    <3>1. SUFFICES ASSUME NEW q \in out PROVE PacketInv(log, new, q)
      OBVIOUS
    <3>2. Completes(rcv.buf, p) /\ q = AckPacket(p.id)
      BY <3>1 DEF AcksFor
    <3>3. q.kind = "Ack" /\ q.id = p.id
      BY <3>2 DEF AckPacket
    <3>4. p.id \in Ids(log) /\ Whole(mid, p.id)
      BY <2>2, <2>3, <3>2 DEF IsChunk, Message, Whole
    <3>5. QED
      BY <2>4, <3>3, <3>4 DEF PacketInv
  <2>10. net' \subseteq net \cup out
    BY <2>1, ArrivesIn
  <2>11. \A q \in net' : PacketInv(log, new, q)
    BY <2>8, <2>9, <2>10
  <2>12. Retired(log, snd.window, new)
    <3>1. Retired(log, snd.window, rcv.buf)
      BY LinkParts
    <3>2. QED
      BY <2>5, <3>1 DEF Retired
  <2>13. QED
    BY <2>1, <2>4, <2>6, <2>7, <2>11, <2>12, LinkParts DEF LinkInv, IsSender, IsReader
<1>4. QED
  BY <1>2, <1>3

\* The other end closed.
LEMMA RecvCloseKeeps == ASSUME LinkInv, RecvClose PROVE LinkInv'
<1>1. rcv' = [rcv EXCEPT !.closed = TRUE] /\ Arrives(ClosePacket, {}) /\ UNCHANGED <<snd, log, delivered>>
  BY DEF RecvClose
<1>2. IsReader(rcv') /\ rcv'.buf = rcv.buf
  BY <1>1, LinkParts, ReaderCloses
<1>3. net' \subseteq net \cup {}
  BY <1>1, ArrivesIn
<1>4. QED
  BY <1>1, <1>2, <1>3, ReaderKeeps

\* A message of the buffer that is not whole lacks a chunk.
LEMMA PartLacks ==
  ASSUME NEW f \in Seq(Units), NEW part, PartialInv(f, part)
  PROVE  /\ missing_ranges(part) # << >>
         /\ \E j \in 0 .. ChunkCount(f) - 1 : j \notin DOMAIN part.received
<1> DEFINE n == ChunkCount(f)
           D == DOMAIN part.received
<1>1. n \in Nat /\ part.chunk_count = n /\ D \subseteq 0 .. n - 1 /\ Cardinality(D) # n
  BY ChunksCover DEF PartialInv
<1> HIDE DEF n, D
<1>2. D # 0 .. n - 1
  BY <1>1, IdsCount
<1>3. PICK j \in 0 .. n - 1 : j \notin D
  BY <1>1, <1>2
<1>4. QED
  BY <1>1, <1>3, MissingSome DEF D, n

\* No datagram within the repair timeout.
LEMMA TimeoutKeeps == ASSUME LinkInv, RepairTimeout PROVE LinkInv'
<1>1. PICK attempts, over :
        /\ rcv' = [rcv EXCEPT !.attempts = attempts, !.failed = over]
        /\ net' = IF over THEN net ELSE net \cup RepairRequests(rcv.buf)
        /\ UNCHANGED <<snd, log, delivered>>
  BY DEF RepairTimeout
<1>2. IsReader(rcv') /\ rcv'.buf = rcv.buf
  <2>1. rcv' = Asks(rcv, attempts, over)
    BY <1>1 DEF Asks
  <2>2. QED
    BY <2>1, LinkParts, ReaderAsks
<1>3. \A q \in RepairRequests(rcv.buf) : PacketInv(log, rcv.buf, q)
  <2>1. SUFFICES ASSUME NEW id \in DOMAIN rcv.buf.partial, NEW q,
                        q = RepairPacket(id, missing_ranges(rcv.buf.partial[id]))
                 PROVE  PacketInv(log, rcv.buf, q)
    BY DEF RepairRequests
  <2>2. Message(log, id) /\ PartialInv(log[id + 1], rcv.buf.partial[id]) /\ id \in Ids(log)
    BY LinkParts DEF BufferInv, Message
  <2>3. log[id + 1] \in Seq(Units)
    <3>1. id + 1 \in 1 .. Len(log)
      BY <2>2, LinkParts DEF Ids
    <3>2. QED
      BY <3>1, LinkParts, FrameIsSeq
  <2>4. missing_ranges(rcv.buf.partial[id]) # << >>
    BY <2>2, <2>3, PartLacks
  <2>5. q.kind = "RepairRequest" /\ q.id = id /\ q.ranges = missing_ranges(rcv.buf.partial[id])
    BY <2>1 DEF RepairPacket
  <2>6. QED
    BY <2>2, <2>4, <2>5 DEF PacketInv
<1>4. net' \subseteq net \cup RepairRequests(rcv.buf)
  BY <1>1
<1>5. QED
  BY <1>1, <1>2, <1>3, <1>4, ReaderKeeps

\* A datagram is lost.
LEMMA LoseKeeps == ASSUME LinkInv, Lose PROVE LinkInv'
<1>1. net' \subseteq net \cup {} /\ UNCHANGED <<snd, rcv, log, delivered>>
  BY DEF Lose
<1>2. QED
  BY <1>1, LinkParts, SenderKeeps

\* Two new sessions.
LEMMA InitHolds == Init => LinkInv
<1> SUFFICES ASSUME Init PROVE LinkInv
  OBVIOUS
<1> DEFINE e == << >>
<1>1. e \in Seq(Frames) /\ Len(e) = 0 /\ DOMAIN e = {} /\ 1 .. 0 = {} /\ e = [i \in 1 .. 0 |-> e[i]]
  OBVIOUS
<1>2. /\ snd = [next |-> 0, window |-> e, closed |-> FALSE, failed |-> FALSE]
      /\ rcv = [buf |-> EmptyBuffer, attempts |-> e, closed |-> FALSE, failed |-> FALSE]
      /\ EmptyBuffer = [expected |-> 0, partial |-> e, completed |-> e]
      /\ net = {} /\ log = e /\ delivered = e
  BY DEF Init, EmptyBuffer
<1> HIDE DEF e
<1>3. IsSender(snd) /\ IsReader(rcv) /\ snd.next = 0 /\ snd.window = e /\ rcv.buf = EmptyBuffer
  BY <1>2 DEF IsSender, IsReader
<1>4. BufferInv(e, EmptyBuffer)
  BY <1>1, <1>2 DEF BufferInv
<1>5. WindowInv(e, e)
  <2>1. Cardinality(DOMAIN e) = 0
    BY <1>1, FS_EmptySet
  <2>2. QED
    BY <1>1, <2>1, ReliabilityAssumption DEF WindowInv
<1>6. Retired(e, e, EmptyBuffer)
  BY <1>1 DEF Retired, Ids
<1>7. delivered = [i \in 1 .. rcv.buf.expected |-> log[i]]
  BY <1>1, <1>2, <1>3
<1>8. QED
  BY <1>1, <1>2, <1>3, <1>4, <1>5, <1>6, <1>7 DEF LinkInv, IsSender, IsReader

\* Every step keeps the invariant.
LEMMA StepKeeps == LinkInv /\ [Next]_vars => LinkInv'
<1> SUFFICES ASSUME LinkInv, [Next]_vars PROVE LinkInv'
  OBVIOUS
<1>1. CASE Next
  BY <1>1, SendKeeps, SendManyKeeps, AckKeeps, RepairKeeps, CloseKeeps, DataKeeps, RecvCloseKeeps,
     TimeoutKeeps, LoseKeeps DEF Next
<1>2. CASE UNCHANGED vars
  BY <1>2 DEF vars, LinkInv
<1>3. QED
  BY <1>1, <1>2

----------------------------------------------------------------------------
(* The repair budget.  What every attempt at repair is paid with is a datagram  *)
(* that was lost: a message that has spent as many attempts as datagrams were   *)
(* lost has every one of its chunks, or has them in flight, or has asked for    *)
(* them.                                                                        *)

\* The network and the limits the budget is enough for: no datagram is slower than
\* the repair timeout or delivered twice, no message leaves the window, and a message
\* may be repaired as often as datagrams are lost.
Affordable == Patient /\ MaxDup = 0 /\ MaxLost <= MaxAttempts /\ MaxFrames <= MaxInFlight

\* The chunk numbers of a message.
Indexes(l, id) == 0 .. ChunkCount(l[id + 1]) - 1

\* The reader has the chunk, the network has it, or the network has a request for it.
Got(buf, id, i) == id \in DOMAIN buf.partial /\ i \in DOMAIN buf.partial[id].received
\* The network has the chunk.
Flying(q, id, i) == \E p \in q : p.kind = "Data" /\ p.id = id /\ p.index = i
\* The network has a request for the chunk.
Asked(q, id, i) == \E p \in q : p.kind = "RepairRequest" /\ p.id = id /\ Covers(p.ranges, i)
\* The network has a request for chunks of the message.
Requested(q, id) == \E p \in q : p.kind = "RepairRequest" /\ p.id = id

\* Something of the message is in flight or was read.
Touched(buf, q, id) == id \in DOMAIN buf.partial \/ \E p \in q : p.kind = "Data" /\ p.id = id

\* A chunk of the message is nowhere.
Lacking(l, buf, q, id) ==
  \E i \in Indexes(l, id) : ~Got(buf, id, i) /\ ~Flying(q, id, i) /\ ~Asked(q, id, i)

\* How often repair of the message was asked for.
Spent(att, id) == IF id \in DOMAIN att THEN att[id] ELSE 0

\* Every chunk is in one place at most: what is in flight was not read, what is asked
\* for is neither in flight nor read, and it is asked for once.
Once(l, buf, q) ==
  /\ \A id \in DOMAIN buf.partial : ~Whole(buf, id)
  /\ \A p \in q : p.kind = "Data" => ~Whole(buf, p.id) /\ ~Got(buf, p.id, p.index)
  /\ \A p \in q : p.kind = "RepairRequest" =>
       /\ p.id \in DOMAIN buf.partial
       /\ \E i \in Indexes(l, p.id) : Covers(p.ranges, i)
       /\ \A i \in Indexes(l, p.id) : Covers(p.ranges, i) => ~Got(buf, p.id, i) /\ ~Flying(q, p.id, i)
  /\ \A p, r \in q : p.kind = "RepairRequest" /\ r.kind = "RepairRequest" /\ p.id = r.id => p = r

\* The attempts of both sessions, when n datagrams were lost.
Paid(l, window, buf, att, q, n) ==
  /\ \A id \in DOMAIN att : att[id] \in 0 .. n
  /\ \A id \in Ids(l) : Touched(buf, q, id) /\ Lacking(l, buf, q, id) => Spent(att, id) < n
  /\ \A id \in DOMAIN window :
       /\ window[id].repair_attempts \in Nat
       /\ window[id].repair_attempts <= Spent(att, id)
       /\ Requested(q, id) => window[id].repair_attempts < Spent(att, id)

\* The inductive invariant, next to that of the link.
BudgetInv ==
  /\ ~snd.failed /\ ~rcv.failed
  /\ lost \in 0 .. MaxLost /\ dups = 0 /\ Len(log) <= MaxFrames
  /\ Once(log, rcv.buf, net)
  /\ Paid(log, snd.window, rcv.buf, rcv.attempts, net, lost)

\* Attempts are counted in natural numbers, up to the losses.
LEMMA SpentType ==
  ASSUME NEW att, NEW n \in Nat, \A id \in DOMAIN att : att[id] \in 0 .. n, NEW id
  PROVE  Spent(att, id) \in 0 .. n
BY DEF Spent

\* A datagram that arrives is in flight no more.
LEMMA ArrivesOnce ==
  ASSUME Affordable, BudgetInv, NEW p, NEW out, Arrives(p, out)
  PROVE  net' = (net \ {p}) \cup out /\ dups' = 0
BY DEF Arrives, Affordable, BudgetInv

\* Steps that move neither chunks nor requests, and open no message.
LEMMA QuietPays ==
  ASSUME NEW l, NEW buf, NEW q, NEW r, NEW window, NEW w, NEW att, NEW n,
         \A p : p.kind = "Data" \/ p.kind = "RepairRequest" => (p \in q <=> p \in r),
         \A id \in DOMAIN w : id \in DOMAIN window /\ w[id] = window[id],
         Once(l, buf, q), Paid(l, window, buf, att, q, n)
  PROVE  Once(l, buf, r) /\ Paid(l, w, buf, att, r, n)
<1>1. \A id, i : (Flying(r, id, i) <=> Flying(q, id, i)) /\ (Asked(r, id, i) <=> Asked(q, id, i))
  BY DEF Flying, Asked
<1>2. \A id : (Requested(r, id) <=> Requested(q, id)) /\ (Touched(buf, r, id) <=> Touched(buf, q, id))
  BY DEF Requested, Touched
<1>3. Once(l, buf, r)
  BY <1>1 DEF Once
<1>4. Paid(l, w, buf, att, r, n)
  BY <1>1, <1>2 DEF Paid, Lacking
<1>5. QED
  BY <1>3, <1>4

\* The messages of the link: who is speaking of what.
LEMMA SpokenOf ==
  ASSUME NEW l \in Seq(Frames), NEW buf, BufferInv(l, buf), NEW q, \A p \in q : PacketInv(l, buf, p)
  PROVE  /\ \A p \in q : p.kind = "Data" => IsChunk(l, p) /\ p.id \in Ids(l) /\ p.index \in Indexes(l, p.id)
         /\ \A p \in q : p.kind = "RepairRequest" => p.id \in Ids(l)
         /\ \A id \in DOMAIN buf.partial : id \in Ids(l) /\ Message(l, id)
         /\ \A id \in Nat : id \notin Ids(l) => ~Whole(buf, id)
<1>1. ASSUME NEW p \in q, p.kind = "Data"
      PROVE  IsChunk(l, p) /\ p.id \in Ids(l) /\ p.index \in Indexes(l, p.id)
  <2>1. PacketInv(l, buf, p)
    OBVIOUS
  <2>2. p # ClosePacket
    BY <1>1 DEF ClosePacket
  <2>3. IsChunk(l, p)
    BY <1>1, <2>1, <2>2 DEF PacketInv
  <2>4. QED
    BY <2>3 DEF IsChunk, Message, Indexes
<1>2. ASSUME NEW p \in q, p.kind = "RepairRequest" PROVE p.id \in Ids(l)
  <2>1. PacketInv(l, buf, p)
    OBVIOUS
  <2>2. p # ClosePacket
    BY <1>2 DEF ClosePacket
  <2>3. QED
    BY <1>2, <2>1, <2>2 DEF PacketInv, IsChunk
<1>3. \A id \in DOMAIN buf.partial : id \in Ids(l) /\ Message(l, id)
  BY DEF BufferInv, Message
<1>4. ASSUME NEW id \in Nat, id \notin Ids(l) PROVE ~Whole(buf, id)
  <2>1. buf.expected \in 0 .. Len(l) /\ Len(l) \in Nat /\ ~(id \in 0 .. Len(l) - 1)
    BY <1>4 DEF BufferInv, Ids
  <2>2. id \notin DOMAIN buf.completed
    BY <1>4 DEF BufferInv
  <2>3. ~(id < buf.expected)
    BY <2>1
  <2>4. QED
    BY <2>2, <2>3 DEF Whole
<1>5. QED
  BY <1>1, <1>2, <1>3, <1>4

\* New messages, sent whole or not at all.
LEMMA SendPays ==
  ASSUME NEW l, NEW m, Longer(l, m), NEW buf, BufferInv(l, buf),
         NEW q, \A p \in q : PacketInv(l, buf, p),
         NEW window, NEW w, NEW att, NEW n \in Nat,
         Once(l, buf, q), Paid(l, window, buf, att, q, n),
         NEW out,
         \A p \in out : /\ IsChunk(m, p) /\ p.id \in Nat /\ p.id \notin Ids(l)
                        /\ \A i \in Indexes(m, p.id) : Flying(out, p.id, i),
         \A id \in DOMAIN w : \/ id \in DOMAIN window /\ w[id] = window[id]
                              \/ id \notin Ids(l) /\ w[id].repair_attempts = 0
  PROVE  Once(m, buf, q \cup out) /\ Paid(m, w, buf, att, q \cup out, n)
<1> DEFINE r == q \cup out
<1>1. l \in Seq(Frames)
  BY DEF Longer
<1>2. /\ \A p \in q : p.kind = "Data" => IsChunk(l, p) /\ p.id \in Ids(l) /\ p.index \in Indexes(l, p.id)
      /\ \A p \in q : p.kind = "RepairRequest" => p.id \in Ids(l)
      /\ \A id \in DOMAIN buf.partial : id \in Ids(l) /\ Message(l, id)
      /\ \A id \in Nat : id \notin Ids(l) => ~Whole(buf, id)
  BY <1>1, SpokenOf
<1>3. \A id \in Ids(l) : Indexes(m, id) = Indexes(l, id) /\ id \in Ids(m)
  BY LongerIds DEF Indexes
<1>4. \A p \in out : p.kind = "Data"
  BY DEF IsChunk
<1>5. \A p : p.kind = "RepairRequest" => (p \in r <=> p \in q)
  BY <1>4
<1>6. \A id, i : Asked(r, id, i) <=> Asked(q, id, i)
  BY <1>5 DEF Asked
<1>7. \A id : Requested(r, id) <=> Requested(q, id)
  BY <1>5 DEF Requested
<1>8. \A id \in Ids(l) : \A i : Flying(r, id, i) <=> Flying(q, id, i)
  BY DEF Flying
<1>9. Once(m, buf, r)
  <2>1. \A p \in out : ~Whole(buf, p.id) /\ ~Got(buf, p.id, p.index)
    BY <1>2 DEF Got
  <2>2. ASSUME NEW p \in r, p.kind = "RepairRequest"
        PROVE  /\ p.id \in DOMAIN buf.partial
               /\ \E i \in Indexes(m, p.id) : Covers(p.ranges, i)
               /\ \A i \in Indexes(m, p.id) : Covers(p.ranges, i) => ~Got(buf, p.id, i) /\ ~Flying(r, p.id, i)
    <3>1. p \in q /\ p.id \in Ids(l)
      BY <1>2, <1>5, <2>2
    <3>2. QED
      BY <1>3, <1>8, <2>2, <3>1 DEF Once
  <2>3. \A p, s \in r : p.kind = "RepairRequest" /\ s.kind = "RepairRequest" /\ p.id = s.id => p = s
    BY <1>5 DEF Once
  <2>4. \A p \in q : p.kind = "Data" => ~Whole(buf, p.id) /\ ~Got(buf, p.id, p.index)
    BY DEF Once
  <2>5. \A id \in DOMAIN buf.partial : ~Whole(buf, id)
    BY DEF Once
  <2>6. QED
    BY <2>1, <2>2, <2>3, <2>4, <2>5 DEF Once
<1>10. ASSUME NEW id \in Ids(m), Touched(buf, r, id), Lacking(m, buf, r, id) PROVE Spent(att, id) < n
  <2>1. CASE id \in Ids(l)
    <3>1. Touched(buf, q, id)
      BY <1>10, <2>1 DEF Touched
    <3>2. Lacking(l, buf, q, id)
      BY <1>3, <1>6, <1>8, <1>10, <2>1 DEF Lacking
    <3>3. QED
      BY <2>1, <3>1, <3>2 DEF Paid
  <2>2. CASE id \notin Ids(l)
    <3>1. PICK p \in out : p.id = id
      BY <1>2, <1>10, <2>2 DEF Touched
    <3>2. \A i \in Indexes(m, id) : Flying(r, id, i)
      BY <3>1 DEF Flying
    <3>3. QED
      BY <1>10, <3>2 DEF Lacking
  <2>3. QED
    BY <2>1, <2>2
<1>11. ASSUME NEW id \in DOMAIN w
       PROVE  /\ w[id].repair_attempts \in Nat
              /\ w[id].repair_attempts <= Spent(att, id)
              /\ Requested(r, id) => w[id].repair_attempts < Spent(att, id)
  <2>1. CASE id \in DOMAIN window /\ w[id] = window[id]
    BY <1>7, <2>1 DEF Paid
  <2>2. CASE id \notin Ids(l) /\ w[id].repair_attempts = 0
    <3>1. Spent(att, id) \in 0 .. n
      BY SpentType DEF Paid
    <3>2. ~Requested(r, id)
      BY <1>2, <1>7, <2>2 DEF Requested
    <3>3. QED
      BY <2>2, <3>1, <3>2
  <2>3. QED
    BY <2>1, <2>2
<1>12. \A id \in DOMAIN att : att[id] \in 0 .. n
  BY DEF Paid
<1>13. Paid(m, w, buf, att, r, n)
  BY <1>10, <1>11, <1>12 DEF Paid
<1>14. QED
  BY <1>9, <1>13

\* A packet of every chunk.
LEMMA PacketOfEach ==
  ASSUME NEW l \in Seq(Frames), NEW id, Message(l, id), NEW i \in Indexes(l, id)
  PROVE  Flying(PacketsOf(id, fragment_transport_frame(l[id + 1])), id, i)
<1> DEFINE f == l[id + 1]
           chunks == fragment_transport_frame(f)
           p == DataPacket(id, (i + 1) - 1, Len(chunks), chunks[i + 1])
<1>1. id + 1 \in 1 .. Len(l)
  BY DEF Message, Ids
<1>2. f \in Seq(Units)
  BY <1>1, FrameIsSeq
<1>3. ChunkCount(f) \in Nat
  BY <1>2, ChunksCover
<1>4. DOMAIN chunks = 1 .. ChunkCount(f)
  BY DEF fragment_transport_frame
<1>5. i + 1 \in DOMAIN chunks /\ (i + 1) - 1 = i
  BY <1>3, <1>4 DEF Indexes
<1> HIDE DEF chunks
<1>6. p \in PacketsOf(id, chunks)
  BY <1>5 DEF PacketsOf
<1>7. p.kind = "Data" /\ p.id = id /\ p.index = i
  BY <1>5 DEF DataPacket
<1> HIDE DEF p
<1>8. QED
  BY <1>6, <1>7 DEF chunks, Flying

\* encode_transport_frame.
LEMMA SendBudget == ASSUME Affordable, LinkInv, BudgetInv, SendFrame PROVE BudgetInv'
<1>1. PICK f \in Frames : encode_transport_frame(f)
  BY DEF SendFrame
<1> DEFINE chunks == fragment_transport_frame(f)
           w == WindowInsert(snd.window, snd.next, chunks)
<1>2. /\ log' = Append(log, f) /\ UNCHANGED <<rcv, lost, dups>> /\ Len(log) < MaxFrames
      /\ TooLarge(f) => snd' = [snd EXCEPT !.next = snd.next + 1] /\ net' = net
      /\ ~TooLarge(f) => /\ snd' = [snd EXCEPT !.next = snd.next + 1, !.window = w]
                         /\ net' = net \cup PacketsOf(snd.next, chunks)
  BY <1>1 DEF encode_transport_frame
<1>3. /\ log \in Seq(Frames) /\ IsSender(snd) /\ snd.next = Len(log) /\ BufferInv(log, rcv.buf)
      /\ \A p \in net : PacketInv(log, rcv.buf, p)
  BY LinkParts
<1>4. /\ Longer(log, log') /\ Len(log') = Len(log) + 1 /\ log'[Len(log) + 1] = f
      /\ Ids(log') = Ids(log) \cup {Len(log)} /\ log' \in Seq(Frames) /\ Len(log) \notin Ids(log)
  BY <1>2, <1>3, Grown DEF Longer, Ids
<1>5. /\ ~snd.failed /\ ~rcv.failed /\ lost \in 0 .. MaxLost /\ lost \in Nat /\ dups = 0
      /\ Once(log, rcv.buf, net)
      /\ Paid(log, snd.window, rcv.buf, rcv.attempts, net, lost)
  BY LinkAssumption DEF BudgetInv
<1>6. Len(log') <= MaxFrames
  BY <1>2, <1>3, <1>4, LinkAssumption
<1> HIDE DEF w, chunks
<1>7. CASE TooLarge(f)
  <2>1. snd'.window = snd.window /\ snd'.failed = snd.failed
    <3> DEFINE n == snd.next + 1
    <3> HIDE DEF n
    <3>1. snd' = [snd EXCEPT !.next = n] /\ IsSender(snd)
      BY <1>2, <1>3, <1>7 DEF n
    <3>2. QED
      BY <3>1, SenderNext
  <2> DEFINE out == {}
  <2>2. net' = net \cup out /\ \A p \in out : FALSE
    BY <1>2, <1>7
  <2> HIDE DEF out
  <2>3. Once(log', rcv.buf, net') /\ Paid(log', snd.window, rcv.buf, rcv.attempts, net', lost)
    BY <1>3, <1>4, <1>5, <2>2, SendPays
  <2>4. QED
    BY <1>2, <1>5, <1>6, <2>1, <2>3 DEF BudgetInv
<1>8. CASE ~TooLarge(f)
  <2>1. snd'.window = w /\ snd'.failed = snd.failed
    <3> DEFINE n == snd.next + 1
    <3> HIDE DEF n
    <3>1. snd' = Sends(snd, n, w) /\ IsSender(snd)
      BY <1>2, <1>3, <1>8 DEF n, Sends
    <3>2. QED
      BY <3>1, SenderSends
  <2> DEFINE out == PacketsOf(Len(log), chunks)
  <2>2. Message(log', Len(log))
    BY <1>4, <1>8 DEF Message
  <2>3. ASSUME NEW p \in out PROVE IsChunk(log', p) /\ p.id = Len(log)
    <3>1. IsChunk(log', p)
      BY <1>4, <2>2, PacketsAreChunks DEF chunks
    <3>2. QED
      BY <3>1 DEF PacketsOf, DataPacket
  <2>4. ASSUME NEW i \in Indexes(log', Len(log)) PROVE Flying(out, Len(log), i)
    <3>1. Flying(PacketsOf(Len(log), fragment_transport_frame(log'[Len(log) + 1])), Len(log), i)
      BY <1>4, <2>2, PacketOfEach
    <3>2. QED
      BY <1>4, <3>1 DEF chunks
  <2> HIDE DEF out
  <2>5. \A id \in DOMAIN w : \/ id \in DOMAIN snd.window /\ w[id] = snd.window[id]
                             \/ id \notin Ids(log) /\ w[id].repair_attempts = 0
    BY <1>3, <1>4, WindowEntries DEF w
  <2>6. Len(log) \in Nat /\ net' = net \cup out
    BY <1>2, <1>3, <1>8 DEF out
  <2>7. \A p \in out : /\ IsChunk(log', p) /\ p.id \in Nat /\ p.id \notin Ids(log)
                       /\ \A i \in Indexes(log', p.id) : Flying(out, p.id, i)
    BY <1>4, <2>3, <2>4, <2>6
  <2>8. Once(log', rcv.buf, net') /\ Paid(log', w, rcv.buf, rcv.attempts, net', lost)
    <3>1. /\ Longer(log, log') /\ BufferInv(log, rcv.buf) /\ \A p \in net : PacketInv(log, rcv.buf, p)
          /\ Once(log, rcv.buf, net) /\ lost \in Nat
          /\ Paid(log, snd.window, rcv.buf, rcv.attempts, net, lost)
      BY <1>3, <1>4, <1>5
    <3>2. Once(log', rcv.buf, net \cup out) /\ Paid(log', w, rcv.buf, rcv.attempts, net \cup out, lost)
      BY <2>5, <2>7, <3>1, SendPays
    <3>3. QED
      BY <2>6, <3>2
  <2>9. QED
    BY <1>2, <1>5, <1>6, <2>1, <2>8 DEF BudgetInv
<1>9. QED
  BY <1>7, <1>8

\* encode_transport_frames, when the last frame is too large.
LEMMA SendManyBudget ==
  ASSUME Affordable, LinkInv, BudgetInv, encode_transport_frames PROVE BudgetInv'
<1>1. PICK f \in Frames, g \in Frames :
        /\ log' = Append(Append(log, f), g) /\ Len(log) + 1 < MaxFrames
        /\ snd' = [snd EXCEPT !.next = snd.next + 2,
                              !.window = WindowInsert(snd.window, snd.next, fragment_transport_frame(f))]
        /\ UNCHANGED <<rcv, net, lost, dups>>
  BY DEF encode_transport_frames
<1> DEFINE w == WindowInsert(snd.window, snd.next, fragment_transport_frame(f))
           n == Len(log)
           mid == Append(log, f)
<1>2. /\ log \in Seq(Frames) /\ IsSender(snd) /\ snd.next = n /\ BufferInv(log, rcv.buf)
      /\ \A p \in net : PacketInv(log, rcv.buf, p)
  BY LinkParts
<1>3. /\ mid \in Seq(Frames) /\ Len(mid) = n + 1 /\ n \in Nat
      /\ log' \in Seq(Frames) /\ Len(log') = n + 2
      /\ \A i \in 1 .. n : mid[i] = log[i]
      /\ \A i \in 1 .. n + 1 : log'[i] = mid[i]
  <2>1. Longer(log, mid) /\ Len(mid) = n + 1 /\ n \in Nat
    BY <1>2, Grown
  <2> HIDE DEF mid
  <2>2. log' = Append(mid, g) /\ mid \in Seq(Frames)
    BY <1>1, <2>1 DEF mid, Longer
  <2>3. Longer(mid, log') /\ Len(log') = Len(mid) + 1
    BY <2>2, Grown
  <2>4. QED
    BY <2>1, <2>3 DEF Longer
<1> HIDE DEF mid
<1>4. Longer(log, log')
  BY <1>2, <1>3 DEF Longer
<1>5. /\ ~snd.failed /\ ~rcv.failed /\ lost \in 0 .. MaxLost /\ lost \in Nat /\ dups = 0
      /\ Once(log, rcv.buf, net)
      /\ Paid(log, snd.window, rcv.buf, rcv.attempts, net, lost)
  BY LinkAssumption DEF BudgetInv
<1>6. Len(log') <= MaxFrames
  BY <1>1, <1>3, LinkAssumption
<1>7. \A id \in DOMAIN w : \/ id \in DOMAIN snd.window /\ w[id] = snd.window[id]
                           \/ id \notin Ids(log) /\ w[id].repair_attempts = 0
  <2>1. n \notin Ids(log)
    BY <1>3 DEF Ids
  <2>2. QED
    BY <1>2, <2>1, WindowEntries
<1> HIDE DEF w
<1>8. snd'.window = w /\ snd'.failed = snd.failed
  <2> DEFINE m == snd.next + 2
  <2>1. snd' = [snd EXCEPT !.next = m, !.window = w] /\ IsSender(snd)
    BY <1>1, <1>2 DEF w
  <2> HIDE DEF m
  <2>2. snd' = Sends(snd, m, w)
    BY <2>1 DEF Sends
  <2>3. QED
    BY <2>1, <2>2, SenderSends
<1> DEFINE out == {}
<1>9. net' = net \cup out /\ \A p \in out : FALSE
  BY <1>1
<1> HIDE DEF out
<1>10. Once(log', rcv.buf, net') /\ Paid(log', w, rcv.buf, rcv.attempts, net', lost)
  BY <1>2, <1>4, <1>5, <1>7, <1>9, SendPays
<1>11. QED
  BY <1>1, <1>5, <1>6, <1>8, <1>10 DEF BudgetInv

\* An acknowledgement.
LEMMA AckBudget == ASSUME Affordable, LinkInv, BudgetInv, RecvAck PROVE BudgetInv'
<1>1. PICK p \in net : /\ p.kind = "Ack" /\ snd' = [snd EXCEPT !.window = acknowledge(snd.window, p.id)]
                       /\ Arrives(p, {}) /\ UNCHANGED <<rcv, log, lost>>
  BY DEF RecvAck
<1> DEFINE w == acknowledge(snd.window, p.id)
<1>2. \A id \in DOMAIN w : id \in DOMAIN snd.window /\ w[id] = snd.window[id]
  BY DEF acknowledge
<1> HIDE DEF w
<1>3. snd'.window = w /\ snd'.failed = snd.failed
  BY <1>1, LinkParts, SenderWindow DEF w
<1>4. net' = (net \ {p}) \cup {} /\ dups' = 0
  BY <1>1, ArrivesOnce
<1>5. \A q : q.kind = "Data" \/ q.kind = "RepairRequest" => (q \in net <=> q \in net')
  BY <1>1, <1>4
<1>6. Once(log, rcv.buf, net') /\ Paid(log, w, rcv.buf, rcv.attempts, net', lost)
  BY <1>2, <1>5, QuietPays DEF BudgetInv
<1>7. QED
  BY <1>1, <1>3, <1>4, <1>6 DEF BudgetInv

\* close.
LEMMA CloseBudget == ASSUME Affordable, LinkInv, BudgetInv, encode_close PROVE BudgetInv'
<1>1. /\ snd' = [snd EXCEPT !.closed = TRUE] /\ net' = net \cup {ClosePacket}
      /\ UNCHANGED <<rcv, log, lost, dups>>
  BY DEF encode_close
<1>2. snd'.window = snd.window /\ snd'.failed = snd.failed
  BY <1>1, LinkParts, SenderCloses
<1>3. \A q : q.kind = "Data" \/ q.kind = "RepairRequest" => (q \in net <=> q \in net')
  BY <1>1 DEF ClosePacket
<1>4. Once(log, rcv.buf, net') /\ Paid(log, snd.window, rcv.buf, rcv.attempts, net', lost)
  BY <1>3, QuietPays DEF BudgetInv
<1>5. QED
  BY <1>1, <1>2, <1>4 DEF BudgetInv

\* The other end closed.
LEMMA RecvCloseBudget == ASSUME Affordable, LinkInv, BudgetInv, RecvClose PROVE BudgetInv'
<1>1. rcv' = [rcv EXCEPT !.closed = TRUE] /\ Arrives(ClosePacket, {}) /\ UNCHANGED <<snd, log, lost>>
  BY DEF RecvClose
<1>2. rcv'.buf = rcv.buf /\ rcv'.attempts = rcv.attempts /\ rcv'.failed = rcv.failed
  BY <1>1, LinkParts, ReaderCloses
<1>3. net' = (net \ {ClosePacket}) \cup {} /\ dups' = 0
  BY <1>1, ArrivesOnce
<1>4. \A q : q.kind = "Data" \/ q.kind = "RepairRequest" => (q \in net <=> q \in net')
  BY <1>3 DEF ClosePacket
<1>5. Once(log, rcv.buf, net') /\ Paid(log, snd.window, rcv.buf, rcv.attempts, net', lost)
  BY <1>4, QuietPays DEF BudgetInv
<1>6. QED
  BY <1>1, <1>2, <1>3, <1>5 DEF BudgetInv

\* What insert_data makes of the chunks the buffer has.
LEMMA InsertTracks ==
  ASSUME NEW l \in Seq(Frames), NEW buf, BufferInv(l, buf), NEW p, IsChunk(l, p)
  PROVE  LET new == insert_data(buf, p)
             done == Completes(buf, p)
         IN /\ new.expected = buf.expected
            /\ \A id : id \in DOMAIN new.partial <=>
                         (id \in DOMAIN buf.partial \/ id = p.id) /\ ~(done /\ id = p.id)
            /\ \A id \in DOMAIN new.partial : \A i :
                 Got(new, id, i) <=> Got(buf, id, i) \/ (id = p.id /\ i = p.index)
            /\ \A id : id \in DOMAIN new.completed <=> id \in DOMAIN buf.completed \/ (done /\ id = p.id)
            /\ done => \A i \in Indexes(l, p.id) : Got(buf, p.id, i) \/ i = p.index
<1> DEFINE old == PartialFor(buf, p)
           part == PartialInsert(old, p.index, p.payload)
           others == DOMAIN buf.partial \ {p.id}
           new == insert_data(buf, p)
<1>1. /\ buf = [expected |-> buf.expected, partial |-> buf.partial, completed |-> buf.completed]
      /\ Message(l, p.id) /\ p.count = ChunkCount(l[p.id + 1])
      /\ \A id \in DOMAIN buf.partial : Message(l, id) /\ PartialInv(l[id + 1], buf.partial[id])
  BY DEF IsChunk, BufferInv
<1>2. /\ DOMAIN part.received \subseteq 0 .. p.count - 1
      /\ DOMAIN part.received = DOMAIN old.received \cup {p.index}
      /\ \A i : i \in DOMAIN old.received <=> Got(buf, p.id, i)
  <2>1. DOMAIN part.received \subseteq 0 .. p.count - 1
    BY PartWithChunk
  <2>2. /\ old = [chunk_count |-> old.chunk_count, received |-> old.received]
        /\ \A i : i \in DOMAIN old.received <=> Got(buf, p.id, i)
    <3>1. CASE p.id \in DOMAIN buf.partial
      <4>1. old = buf.partial[p.id] /\ PartialInv(l[p.id + 1], buf.partial[p.id])
        BY <1>1, <3>1 DEF PartialFor
      <4> HIDE DEF old
      <4>2. QED
        BY <3>1, <4>1 DEF PartialInv, Got
    <3>2. CASE p.id \notin DOMAIN buf.partial
      <4>1. old = [chunk_count |-> p.count, received |-> << >>] /\ DOMAIN << >> = {}
        BY <3>2 DEF PartialFor
      <4> HIDE DEF old
      <4>2. QED
        BY <3>2, <4>1 DEF Got
    <3>3. QED
      BY <3>1, <3>2
  <2> DEFINE got == [i \in DOMAIN old.received \cup {p.index} |->
                       IF i \in DOMAIN old.received THEN old.received[i] ELSE p.payload]
  <2> HIDE DEF old
  <2>3. part = [old EXCEPT !.received = got] /\ DOMAIN got = DOMAIN old.received \cup {p.index}
    BY DEF PartialInsert
  <2> HIDE DEF got
  <2>4. DOMAIN part.received = DOMAIN old.received \cup {p.index}
    BY <2>2, <2>3
  <2>5. QED
    BY <2>1, <2>2, <2>4
<1>3. Completes(buf, p) <=> Cardinality(DOMAIN part.received) = p.count
  BY DEF Completes
<1> HIDE DEF part, old
<1>4. CASE Completes(buf, p)
  <2> DEFINE x == [k \in others |-> buf.partial[k]]
             y == [k \in DOMAIN buf.completed \cup {p.id} |->
                     IF k = p.id THEN into_payload(part) ELSE buf.completed[k]]
  <2>1. new = [buf EXCEPT !.partial = x, !.completed = y]
    BY <1>4 DEF insert_data, part, old
  <2>2. /\ DOMAIN x = others /\ \A k \in others : x[k] = buf.partial[k]
        /\ DOMAIN y = DOMAIN buf.completed \cup {p.id}
    OBVIOUS
  <2> HIDE DEF x, y, new
  <2>3. new = [expected |-> buf.expected, partial |-> x, completed |-> y]
    BY <1>1, <2>1, BufferFields
  <2>4. new.expected = buf.expected /\ new.partial = x /\ new.completed = y
    BY <2>3
  <2>5. ASSUME NEW i \in Indexes(l, p.id) PROVE Got(buf, p.id, i) \/ i = p.index
    <3> DEFINE D == DOMAIN part.received
               all == 0 .. p.count - 1
    <3>1. p.count \in Nat
      <4>1. p.id + 1 \in 1 .. Len(l)
        BY <1>1 DEF Message, Ids
      <4>2. QED
        BY <1>1, <4>1, FrameIsSeq, ChunksCover
    <3>2. IsFiniteSet(all) /\ Cardinality(all) = p.count
      BY <3>1, IdsCount
    <3>3. D \in SUBSET all /\ Cardinality(D) = p.count
      BY <1>2, <1>3, <1>4
    <3>4. i \in all
      BY <1>1 DEF Indexes
    <3> HIDE DEF D, all
    <3>5. all = D
      BY <3>2, <3>3, FS_Subset
    <3>6. QED
      BY <1>2, <3>4, <3>5 DEF D
  <2>6. QED
    BY <1>4, <2>2, <2>4, <2>5 DEF new, Got
<1>5. CASE ~Completes(buf, p)
  <2> DEFINE x == [k \in others \cup {p.id} |-> IF k = p.id THEN part ELSE buf.partial[k]]
  <2>1. new = [buf EXCEPT !.partial = x]
    BY <1>5 DEF insert_data, part, old
  <2>2. /\ DOMAIN x = others \cup {p.id}
        /\ \A k \in DOMAIN x : x[k] = IF k = p.id THEN part ELSE buf.partial[k]
    OBVIOUS
  <2> HIDE DEF x, new
  <2>3. new = [expected |-> buf.expected, partial |-> x, completed |-> buf.completed]
    BY <1>1, <2>1, BufferFields
  <2>4. new.expected = buf.expected /\ new.partial = x /\ new.completed = buf.completed
    BY <2>3
  <2>5. QED
    BY <1>2, <1>5, <2>2, <2>4 DEF new, Got
<1>6. QED
  BY <1>4, <1>5

\* Handing over makes no message whole, and leaves the parts alone.
LEMMA ReadyTracks ==
  ASSUME NEW l \in Seq(Frames), NEW buf, BufferInv(l, buf)
  PROVE  /\ AfterReady(buf).partial = buf.partial
         /\ \A id \in Ids(l) : Whole(AfterReady(buf), id) => Whole(buf, id)
<1> DEFINE n == ReadyRun(buf)
           e == buf.expected
           left == DOMAIN buf.completed \ (e .. e + n - 1)
           y == [k \in left |-> buf.completed[k]]
           new == AfterReady(buf)
<1>1. /\ n \in Nat /\ \A k \in 0 .. n - 1 : e + k \in DOMAIN buf.completed
  BY RunFacts
<1>2. /\ buf = [expected |-> buf.expected, partial |-> buf.partial, completed |-> buf.completed]
      /\ e \in Nat
  BY DEF BufferInv
<1>3. new = [buf EXCEPT !.expected = e + n, !.completed = y] /\ DOMAIN y = left
  BY DEF AfterReady
<1> HIDE DEF n, y, new, e
<1> DEFINE x == e + n
<1> HIDE DEF x
<1>4. new = [expected |-> x, partial |-> buf.partial, completed |-> y]
  BY <1>2, <1>3, BufferFields DEF x
<1>5. new.expected = x /\ new.partial = buf.partial /\ new.completed = y
  BY <1>4
<1>6. ASSUME NEW id \in Ids(l), Whole(new, id) PROVE Whole(buf, id)
  <2>1. id < e + n \/ id \in left
    BY <1>3, <1>5, <1>6 DEF Whole, x
  <2>2. CASE id \in left \/ id < e
    BY <2>2 DEF Whole, e
  <2>3. CASE ~(id < e) /\ id < e + n
    <3>1. id - e \in 0 .. n - 1 /\ e + (id - e) = id
      BY <1>1, <1>2, <2>3 DEF Ids
    <3>2. QED
      BY <1>1, <3>1 DEF Whole
  <2>4. QED
    BY <2>1, <2>2, <2>3
<1>7. QED
  BY <1>5, <1>6 DEF new

\* A chunk moves from the network to the buffer.
LEMMA ChunkPays ==
  ASSUME NEW l \in Seq(Frames), NEW buf, BufferInv(l, buf),
         NEW q, \A p \in q : PacketInv(l, buf, p),
         NEW window, NEW att, NEW n, Once(l, buf, q), Paid(l, window, buf, att, q, n),
         NEW p \in q, p.kind = "Data", NEW done \in BOOLEAN,
         NEW new, BufferInv(l, new),
         \A id : id \in DOMAIN new.partial <=>
                   (id \in DOMAIN buf.partial \/ id = p.id) /\ ~(done /\ id = p.id),
         \A id \in DOMAIN new.partial : \A i :
           Got(new, id, i) <=> Got(buf, id, i) \/ (id = p.id /\ i = p.index),
         \A id \in Ids(l) : Whole(new, id) => Whole(buf, id) \/ (done /\ id = p.id),
         done => \A i \in Indexes(l, p.id) : Got(buf, p.id, i) \/ i = p.index,
         NEW acks, \A a \in acks : a.kind = "Ack"
  PROVE  Once(l, new, (q \ {p}) \cup acks) /\ Paid(l, window, new, att, (q \ {p}) \cup acks, n)
<1> DEFINE r == (q \ {p}) \cup acks
<1>1. /\ \A s \in q : s.kind = "Data" => IsChunk(l, s) /\ s.id \in Ids(l) /\ s.index \in Indexes(l, s.id)
      /\ \A s \in q : s.kind = "RepairRequest" => s.id \in Ids(l)
      /\ \A id \in DOMAIN buf.partial : id \in Ids(l)
      /\ \A id \in DOMAIN new.partial : id \in Ids(l)
  BY SpokenOf
<1>2. \A s : s.kind = "Data" => (s \in r <=> s \in q /\ s # p)
  OBVIOUS
<1>3. \A s : s.kind = "RepairRequest" => (s \in r <=> s \in q)
  OBVIOUS
<1> HIDE DEF r
<1>4. ASSUME NEW s \in q, s.kind = "Data", s.id = p.id, s.index = p.index PROVE s = p
  BY <1>1, <1>4 DEF IsChunk
<1>5. \A id, i : Flying(r, id, i) => Flying(q, id, i)
  BY <1>2 DEF Flying
<1>6. \A id, i : Flying(q, id, i) => Flying(r, id, i) \/ (id = p.id /\ i = p.index)
  BY <1>2 DEF Flying
<1>7. \A id, i : Asked(r, id, i) <=> Asked(q, id, i)
  BY <1>3 DEF Asked
<1>8. \A id : Requested(r, id) <=> Requested(q, id)
  BY <1>3 DEF Requested
<1>9. Flying(q, p.id, p.index)
  BY DEF Flying
<1>10. /\ \A id \in DOMAIN buf.partial : ~Whole(buf, id)
       /\ \A s \in q : s.kind = "Data" => ~Whole(buf, s.id) /\ ~Got(buf, s.id, s.index)
       /\ \A s \in q : s.kind = "RepairRequest" =>
            /\ s.id \in DOMAIN buf.partial
            /\ \E i \in Indexes(l, s.id) : Covers(s.ranges, i)
            /\ \A i \in Indexes(l, s.id) : Covers(s.ranges, i) => ~Got(buf, s.id, i) /\ ~Flying(q, s.id, i)
       /\ \A s, t \in q : s.kind = "RepairRequest" /\ t.kind = "RepairRequest" /\ s.id = t.id => s = t
  BY DEF Once
<1>11. ASSUME done, NEW s \in r, s.kind = "Data" PROVE s.id # p.id
  BY <1>1, <1>2, <1>4, <1>10, <1>11
<1>12. ASSUME done, NEW s \in q, s.kind = "RepairRequest" PROVE s.id # p.id
  BY <1>9, <1>10, <1>12
<1>13. Once(l, new, r)
  <2>1. \A id \in DOMAIN new.partial : ~Whole(new, id)
    BY <1>1, <1>10
  <2>2. ASSUME NEW s \in r, s.kind = "Data" PROVE ~Whole(new, s.id) /\ ~Got(new, s.id, s.index)
    <3>1. s \in q /\ s # p /\ ~Whole(buf, s.id) /\ ~Got(buf, s.id, s.index) /\ s.id \in Ids(l)
      BY <1>1, <1>2, <1>10, <2>2
    <3>2. ~Whole(new, s.id)
      BY <1>11, <2>2, <3>1
    <3>3. ~Got(new, s.id, s.index)
      BY <1>4, <2>2, <3>1 DEF Got
    <3>4. QED
      BY <3>2, <3>3
  <2>3. ASSUME NEW s \in r, s.kind = "RepairRequest"
        PROVE  /\ s.id \in DOMAIN new.partial
               /\ \E i \in Indexes(l, s.id) : Covers(s.ranges, i)
               /\ \A i \in Indexes(l, s.id) : Covers(s.ranges, i) => ~Got(new, s.id, i) /\ ~Flying(r, s.id, i)
    <3>1. s \in q /\ s.id \in DOMAIN buf.partial
      BY <1>3, <1>10, <2>3
    <3>2. s.id \in DOMAIN new.partial
      BY <1>12, <2>3, <3>1
    <3>3. ASSUME NEW i \in Indexes(l, s.id), Covers(s.ranges, i)
          PROVE  ~Got(new, s.id, i) /\ ~Flying(r, s.id, i)
      <4>1. ~Got(buf, s.id, i) /\ ~Flying(q, s.id, i)
        BY <1>10, <2>3, <3>1, <3>3
      <4>2. QED
        BY <1>5, <1>9, <3>2, <4>1
    <3>4. QED
      BY <1>10, <2>3, <3>1, <3>2, <3>3
  <2>4. \A s, t \in r : s.kind = "RepairRequest" /\ t.kind = "RepairRequest" /\ s.id = t.id => s = t
    BY <1>3, <1>10
  <2>5. QED
    BY <2>1, <2>2, <2>3, <2>4 DEF Once
<1>14. ASSUME NEW id \in Ids(l), Touched(new, r, id), Lacking(l, new, r, id) PROVE Spent(att, id) < n
  <2>1. Touched(buf, q, id)
    BY <1>2, <1>14 DEF Touched
  <2>2. ~(done /\ id = p.id)
    BY <1>11, <1>14 DEF Touched
  <2>3. PICK i \in Indexes(l, id) : ~Got(new, id, i) /\ ~Flying(r, id, i) /\ ~Asked(r, id, i)
    BY <1>14 DEF Lacking
  <2>4. ~Got(buf, id, i)
    BY <2>2, <2>3 DEF Got
  <2>5. ~Flying(q, id, i)
    BY <1>6, <2>2, <2>3
  <2>6. Lacking(l, buf, q, id)
    BY <1>7, <2>3, <2>4, <2>5 DEF Lacking
  <2>7. QED
    BY <2>1, <2>6 DEF Paid
<1>15. Paid(l, window, new, att, r, n)
  BY <1>8, <1>14 DEF Paid
<1>16. QED
  BY <1>13, <1>15 DEF r

\* A chunk arrives.
LEMMA DataBudget == ASSUME Affordable, LinkInv, BudgetInv, RecvData PROVE BudgetInv'
<1>1. PICK p \in net :
        /\ p.kind = "Data"
        /\ IF PartialFor(rcv.buf, p).chunk_count # p.count
           THEN rcv' = [rcv EXCEPT !.failed = TRUE]
           ELSE /\ rcv' = [rcv EXCEPT !.buf = AfterReady(insert_data(rcv.buf, p))]
                /\ Arrives(p, AcksFor(rcv.buf, p))
        /\ UNCHANGED <<snd, log, lost>>
  BY DEF RecvData
<1> DEFINE buf == rcv.buf
           mid == insert_data(buf, p)
           new == AfterReady(mid)
           done == Completes(buf, p)
           acks == AcksFor(buf, p)
<1>2. /\ log \in Seq(Frames) /\ BufferInv(log, buf) /\ \A q \in net : PacketInv(log, buf, q)
      /\ IsReader(rcv)
  BY LinkParts
<1>3. IsChunk(log, p) /\ p.id \in Ids(log)
  BY <1>1, <1>2, SpokenOf
<1>4. PartialFor(buf, p).chunk_count = p.count
  BY <1>2, <1>3 DEF PartialFor, BufferInv, PartialInv, IsChunk
<1>5. /\ rcv' = [rcv EXCEPT !.buf = new] /\ Arrives(p, acks)
  BY <1>1, <1>4
<1>6. /\ BufferInv(log, mid) /\ mid.expected = buf.expected
      /\ \A id : id \in DOMAIN mid.partial <=>
                   (id \in DOMAIN buf.partial \/ id = p.id) /\ ~(done /\ id = p.id)
      /\ \A id \in DOMAIN mid.partial : \A i :
           Got(mid, id, i) <=> Got(buf, id, i) \/ (id = p.id /\ i = p.index)
      /\ \A id : id \in DOMAIN mid.completed <=> id \in DOMAIN buf.completed \/ (done /\ id = p.id)
      /\ done => \A i \in Indexes(log, p.id) : Got(buf, p.id, i) \/ i = p.index
  <2>1. BufferInv(log, mid)
    BY <1>2, <1>3, InsertKeeps
  <2>2. /\ mid.expected = buf.expected
        /\ \A id : id \in DOMAIN mid.partial <=>
                     (id \in DOMAIN buf.partial \/ id = p.id) /\ ~(done /\ id = p.id)
        /\ \A id \in DOMAIN mid.partial : \A i :
             Got(mid, id, i) <=> Got(buf, id, i) \/ (id = p.id /\ i = p.index)
        /\ \A id : id \in DOMAIN mid.completed <=> id \in DOMAIN buf.completed \/ (done /\ id = p.id)
        /\ done => \A i \in Indexes(log, p.id) : Got(buf, p.id, i) \/ i = p.index
    <3>1. log \in Seq(Frames) /\ BufferInv(log, buf) /\ IsChunk(log, p)
      BY <1>2, <1>3
    <3> HIDE DEF buf
    <3>2. QED
      BY <3>1, InsertTracks, Zenon
  <2>3. QED
    BY <2>1, <2>2
<1> HIDE DEF mid
<1>7. /\ BufferInv(log, new) /\ new.partial = mid.partial
      /\ \A id \in Ids(log) : Whole(new, id) => Whole(mid, id)
  BY <1>2, <1>6, ReadyKeeps, ReadyTracks
<1> HIDE DEF new
<1>8. /\ \A id : id \in DOMAIN new.partial <=>
                   (id \in DOMAIN buf.partial \/ id = p.id) /\ ~(done /\ id = p.id)
      /\ \A id \in DOMAIN new.partial : \A i :
           Got(new, id, i) <=> Got(buf, id, i) \/ (id = p.id /\ i = p.index)
  BY <1>6, <1>7 DEF Got
<1>9. \A id \in Ids(log) : Whole(new, id) => Whole(buf, id) \/ (done /\ id = p.id)
  BY <1>6, <1>7 DEF Whole
<1>10. \A a \in acks : a.kind = "Ack"
  BY DEF AcksFor, AckPacket
<1>11. net' = (net \ {p}) \cup acks /\ dups' = 0
  BY <1>5, ArrivesOnce
<1>12. done \in BOOLEAN
  BY DEF Completes
<1>13. rcv'.buf = new /\ rcv'.attempts = rcv.attempts /\ rcv'.failed = rcv.failed
  BY <1>2, <1>5, ReaderBuffers
<1>14. Once(log, buf, net) /\ Paid(log, snd.window, buf, rcv.attempts, net, lost)
  BY DEF BudgetInv
<1>15. Once(log, new, net') /\ Paid(log, snd.window, new, rcv.attempts, net', lost)
  <2> HIDE DEF done, acks, buf
  <2>1. done => \A i \in Indexes(log, p.id) : Got(buf, p.id, i) \/ i = p.index
    BY <1>6
  <2>2. BufferInv(log, new)
    BY <1>7
  <2>3. /\ Once(log, new, (net \ {p}) \cup acks)
        /\ Paid(log, snd.window, new, rcv.attempts, (net \ {p}) \cup acks, lost)
    BY <1>1, <1>2, <1>8, <1>9, <1>10, <1>12, <1>14, <2>1, <2>2, ChunkPays
  <2>4. QED
    BY <1>11, <2>3
<1>16. QED
  BY <1>1, <1>11, <1>13, <1>15 DEF BudgetInv

\* A request becomes the chunks it asks for.
LEMMA RepairPays ==
  ASSUME NEW l, NEW buf, NEW q, NEW window, NEW w, NEW att, NEW n,
         Once(l, buf, q), Paid(l, window, buf, att, q, n),
         NEW p \in q, p.kind = "RepairRequest", p.id \in DOMAIN window,
         DOMAIN w = DOMAIN window,
         \A id \in DOMAIN w : id # p.id => w[id] = window[id],
         w[p.id].repair_attempts = window[p.id].repair_attempts + 1,
         Spent(att, p.id) \in Nat,
         NEW out,
         \A s \in out : /\ s.kind = "Data" /\ s.id = p.id /\ s.index \in Indexes(l, p.id)
                        /\ Covers(p.ranges, s.index),
         \A i \in Indexes(l, p.id) : Covers(p.ranges, i) => Flying(out, p.id, i)
  PROVE  Once(l, buf, (q \ {p}) \cup out) /\ Paid(l, w, buf, att, (q \ {p}) \cup out, n)
<1> DEFINE r == (q \ {p}) \cup out
<1>1. \A s : s.kind = "Data" => (s \in r <=> s \in q \/ s \in out)
  OBVIOUS
<1>2. \A s : s.kind = "RepairRequest" => (s \in r <=> s \in q /\ s # p)
  OBVIOUS
<1> HIDE DEF r
<1>3. /\ \A id \in DOMAIN buf.partial : ~Whole(buf, id)
      /\ \A s \in q : s.kind = "Data" => ~Whole(buf, s.id) /\ ~Got(buf, s.id, s.index)
      /\ \A s \in q : s.kind = "RepairRequest" =>
           /\ s.id \in DOMAIN buf.partial
           /\ \E i \in Indexes(l, s.id) : Covers(s.ranges, i)
           /\ \A i \in Indexes(l, s.id) : Covers(s.ranges, i) => ~Got(buf, s.id, i) /\ ~Flying(q, s.id, i)
      /\ \A s, t \in q : s.kind = "RepairRequest" /\ t.kind = "RepairRequest" /\ s.id = t.id => s = t
  BY DEF Once
<1>4. \A s \in q : s.kind = "RepairRequest" /\ s # p => s.id # p.id
  BY <1>3
<1>5. \A id, i : Flying(r, id, i) => Flying(q, id, i) \/ id = p.id
  BY <1>1 DEF Flying
<1>6. \A id, i : Flying(q, id, i) \/ Flying(out, id, i) => Flying(r, id, i)
  BY <1>1 DEF Flying
<1>7. \A i \in Indexes(l, p.id) : Asked(q, p.id, i) => Flying(r, p.id, i)
  <2>1. ASSUME NEW i \in Indexes(l, p.id), Asked(q, p.id, i) PROVE Flying(r, p.id, i)
    <3>1. Covers(p.ranges, i)
      BY <1>4, <2>1 DEF Asked
    <3>2. QED
      BY <1>6, <3>1
  <2>2. QED
    BY <2>1
<1>8. \A id, i : id # p.id => (Asked(r, id, i) <=> Asked(q, id, i))
  BY <1>2 DEF Asked
<1>9. Once(l, buf, r)
  <2>1. ASSUME NEW s \in r, s.kind = "Data" PROVE ~Whole(buf, s.id) /\ ~Got(buf, s.id, s.index)
    <3>1. CASE s \in q
      BY <1>3, <2>1, <3>1
    <3>2. CASE s \in out
      BY <1>3, <3>2
    <3>3. QED
      BY <1>1, <2>1, <3>1, <3>2
  <2>2. ASSUME NEW s \in r, s.kind = "RepairRequest"
        PROVE  /\ s.id \in DOMAIN buf.partial
               /\ \E i \in Indexes(l, s.id) : Covers(s.ranges, i)
               /\ \A i \in Indexes(l, s.id) : Covers(s.ranges, i) => ~Got(buf, s.id, i) /\ ~Flying(r, s.id, i)
    <3>1. s \in q /\ s.id # p.id
      BY <1>2, <1>4, <2>2
    <3>2. QED
      BY <1>3, <1>5, <2>2, <3>1
  <2>3. \A s, t \in r : s.kind = "RepairRequest" /\ t.kind = "RepairRequest" /\ s.id = t.id => s = t
    BY <1>2, <1>3
  <2>4. QED
    BY <1>3, <2>1, <2>2, <2>3 DEF Once
<1>10. ASSUME NEW id \in Ids(l), Touched(buf, r, id), Lacking(l, buf, r, id) PROVE Spent(att, id) < n
  <2>1. Touched(buf, q, id)
    BY <1>1, <1>3, <1>10 DEF Touched
  <2>2. PICK i \in Indexes(l, id) : ~Got(buf, id, i) /\ ~Flying(r, id, i) /\ ~Asked(r, id, i)
    BY <1>10 DEF Lacking
  <2>3. ~Flying(q, id, i)
    BY <1>6, <2>2
  <2>4. ~Asked(q, id, i)
    BY <1>7, <1>8, <2>2
  <2>5. QED
    BY <2>1, <2>2, <2>3, <2>4 DEF Paid, Lacking
<1>11. ASSUME NEW id \in DOMAIN w
       PROVE  /\ w[id].repair_attempts \in Nat
              /\ w[id].repair_attempts <= Spent(att, id)
              /\ Requested(r, id) => w[id].repair_attempts < Spent(att, id)
  <2>1. /\ id \in DOMAIN window /\ window[id].repair_attempts \in Nat
        /\ window[id].repair_attempts <= Spent(att, id)
        /\ Requested(q, id) => window[id].repair_attempts < Spent(att, id)
    BY <1>11 DEF Paid
  <2>2. CASE id = p.id
    <3>1. Requested(q, id) /\ ~Requested(r, id)
      BY <1>2, <1>4, <2>2 DEF Requested
    <3>2. QED
      BY <2>1, <2>2, <3>1
  <2>3. CASE id # p.id
    <3>1. Requested(r, id) => Requested(q, id)
      BY <1>2 DEF Requested
    <3>2. QED
      BY <1>11, <2>1, <2>3, <3>1
  <2>4. QED
    BY <2>2, <2>3
<1>12. Paid(l, w, buf, att, r, n)
  BY <1>10, <1>11 DEF Paid
<1>13. QED
  BY <1>9, <1>12 DEF r

\* A repair request.
LEMMA RepairBudget == ASSUME Affordable, LinkInv, BudgetInv, RecvRepair PROVE BudgetInv'
<1>1. PICK p \in net :
        /\ p.kind = "RepairRequest"
        /\ IF p.id \notin DOMAIN snd.window
           THEN TRUE
           ELSE LET pending == [snd.window[p.id] EXCEPT !.repair_attempts = @ + 1]
                    over == pending.repair_attempts > MaxAttempts
                IN /\ snd' = [snd EXCEPT !.window[p.id] = pending, !.failed = over]
                   /\ Arrives(p, IF over THEN {}
                                 ELSE repair_packets_for_message(p.id, pending, p.ranges))
        /\ UNCHANGED <<rcv, log, lost>>
  BY DEF RecvRepair
<1> DEFINE buf == rcv.buf
           f == log[p.id + 1]
           old == snd.window[p.id]
           pending == [old EXCEPT !.repair_attempts = old.repair_attempts + 1]
           over == pending.repair_attempts > MaxAttempts
           out == repair_packets_for_message(p.id, pending, p.ranges)
           w == [snd.window EXCEPT ![p.id] = pending]
<1>2. /\ log \in Seq(Frames) /\ BufferInv(log, buf) /\ \A q \in net : PacketInv(log, buf, q)
      /\ IsSender(snd) /\ Retired(log, snd.window, buf) /\ WindowInv(log, snd.window)
      /\ Len(log) \in Nat
  BY LinkParts
<1>3. /\ Once(log, buf, net) /\ Paid(log, snd.window, buf, rcv.attempts, net, lost)
      /\ lost \in 0 .. MaxLost /\ lost \in Nat /\ Len(log) <= MaxFrames /\ ~snd.failed /\ ~rcv.failed
      /\ MaxLost <= MaxAttempts /\ MaxFrames <= MaxInFlight
  BY LinkAssumption DEF BudgetInv, Affordable
<1>4. p.id \in DOMAIN buf.partial /\ p.id \in Ids(log) /\ Message(log, p.id) /\ ~Whole(buf, p.id)
  BY <1>1, <1>2, <1>3, SpokenOf DEF Once
<1>5. p.id \in DOMAIN snd.window
  <2>1. Len(log) <= MaxInFlight
    BY <1>2, <1>3, LinkAssumption, ReliabilityAssumption
  <2>2. QED
    BY <1>2, <1>4, <2>1 DEF Retired, Message
<1>6. snd' = [snd EXCEPT !.window[p.id] = pending, !.failed = over] /\ Arrives(p, IF over THEN {} ELSE out)
  BY <1>1, <1>5
<1>7. PendingInv(f, old)
  BY <1>2, <1>5 DEF WindowInv
<1>8. /\ pending.chunks = fragment_transport_frame(f)
      /\ pending.repair_attempts = old.repair_attempts + 1
  <2>1. old = [chunks |-> old.chunks, repair_attempts |-> old.repair_attempts]
        /\ old.chunks = fragment_transport_frame(f)
    BY <1>7 DEF PendingInv
  <2> DEFINE n == old.repair_attempts + 1
  <2> HIDE DEF old, n
  <2>2. [old EXCEPT !.repair_attempts = n] = [chunks |-> old.chunks, repair_attempts |-> n]
    BY <2>1
  <2>3. pending = [chunks |-> old.chunks, repair_attempts |-> n]
    BY <2>2 DEF n
  <2> HIDE DEF pending
  <2>4. QED
    BY <2>1, <2>3 DEF n
<1>9. Spent(rcv.attempts, p.id) \in 0 .. lost
  BY <1>3, SpentType DEF Paid
<1>10. old.repair_attempts \in Nat /\ old.repair_attempts < Spent(rcv.attempts, p.id)
  <2>1. Requested(net, p.id)
    BY <1>1 DEF Requested
  <2>2. QED
    BY <1>3, <1>5, <2>1 DEF Paid
<1>11. over = FALSE
  BY <1>3, <1>8, <1>9, <1>10, LinkAssumption, ReliabilityAssumption
<1> HIDE DEF pending, old, over
<1>12. /\ DOMAIN w = DOMAIN snd.window /\ w[p.id] = pending
       /\ \A id \in DOMAIN w : id # p.id => w[id] = snd.window[id]
  BY <1>5
<1>13. snd'.window = w /\ snd'.failed = FALSE
  <2> DEFINE k == p.id
             x == over
  <2> HIDE DEF k, x
  <2>1. snd' = Repairs(snd, k, pending, x)
    BY <1>6 DEF Repairs, k, x
  <2> DEFINE z == Repairs(snd, k, pending, x)
  <2> HIDE DEF w
  <2>2. z.window = [snd.window EXCEPT ![k] = pending] /\ z.failed = x
    BY <1>2, SenderRepairs
  <2>3. w = [snd.window EXCEPT ![k] = pending]
    BY DEF w, k
  <2> HIDE DEF z
  <2>4. QED
    BY <1>11, <2>1, <2>2, <2>3 DEF x, z
<1>14. net' = (net \ {p}) \cup out /\ dups' = 0
  <2>1. Arrives(p, out)
    BY <1>6, <1>11
  <2>2. QED
    BY <2>1, ArrivesOnce
<1> HIDE DEF w
<1>15. out = {s \in PacketsOf(p.id, fragment_transport_frame(f)) : Covers(p.ranges, s.index)}
  BY <1>8 DEF repair_packets_for_message, Covers
<1>16. ASSUME NEW s \in out
       PROVE  /\ s.kind = "Data" /\ s.id = p.id /\ s.index \in Indexes(log, p.id)
              /\ Covers(p.ranges, s.index)
  <2>1. s \in PacketsOf(p.id, fragment_transport_frame(f)) /\ Covers(p.ranges, s.index)
    BY <1>15
  <2>2. IsChunk(log, s)
    BY <1>2, <1>4, <2>1, PacketsAreChunks
  <2>3. s.id = p.id
    BY <2>1 DEF PacketsOf, DataPacket
  <2>4. QED
    BY <2>1, <2>2, <2>3 DEF IsChunk, Indexes
<1>17. ASSUME NEW i \in Indexes(log, p.id), Covers(p.ranges, i) PROVE Flying(out, p.id, i)
  <2>1. Flying(PacketsOf(p.id, fragment_transport_frame(f)), p.id, i)
    BY <1>2, <1>4, PacketOfEach
  <2>2. QED
    BY <1>15, <1>17, <2>1 DEF Flying
<1> HIDE DEF out
<1>18. Once(log, buf, net') /\ Paid(log, w, buf, rcv.attempts, net', lost)
  <2>1. w[p.id].repair_attempts = snd.window[p.id].repair_attempts + 1
    BY <1>8, <1>12 DEF old
  <2>2. Spent(rcv.attempts, p.id) \in Nat
    BY <1>3, <1>9
  <2>3. /\ Once(log, buf, (net \ {p}) \cup out)
        /\ Paid(log, w, buf, rcv.attempts, (net \ {p}) \cup out, lost)
    BY <1>1, <1>3, <1>5, <1>12, <1>16, <1>17, <2>1, <2>2, RepairPays
  <2>4. QED
    BY <1>14, <2>3
<1>19. QED
  BY <1>1, <1>3, <1>13, <1>14, <1>18 DEF BudgetInv

\* The repair timeout: what is missing was lost, and is asked for.
LEMMA TimeoutBudget == ASSUME Affordable, LinkInv, BudgetInv, RepairTimeout PROVE BudgetInv'
<1> DEFINE buf == rcv.buf
           ids == DOMAIN buf.partial
           att == rcv.attempts
           more == [k \in DOMAIN att \cup ids |->
                      (IF k \in DOMAIN att THEN att[k] ELSE 0) + (IF k \in ids THEN 1 ELSE 0)]
           over == \E id \in ids : more[id] > MaxAttempts
           r == RepairRequests(buf)
<1>1. /\ rcv' = [rcv EXCEPT !.attempts = more, !.failed = over]
      /\ net' = IF over THEN net ELSE net \cup r
      /\ Patient => net = {}
      /\ UNCHANGED <<snd, log, lost, dups>>
  BY DEF RepairTimeout
<1>2. /\ log \in Seq(Frames) /\ BufferInv(log, buf) /\ IsReader(rcv)
      /\ \A id \in ids : id \in Ids(log) /\ Message(log, id) /\ PartialInv(log[id + 1], buf.partial[id])
  BY LinkParts DEF BufferInv, Message
<1>3. /\ Once(log, buf, net) /\ Paid(log, snd.window, buf, att, net, lost)
      /\ lost \in 0 .. MaxLost /\ lost \in Nat /\ ~snd.failed /\ ~rcv.failed
      /\ MaxLost <= MaxAttempts /\ net = {} /\ dups = 0 /\ Len(log) <= MaxFrames
  BY <1>1, LinkAssumption DEF BudgetInv, Affordable
<1>4. ASSUME NEW id \in ids
      PROVE  /\ \A i \in Indexes(log, id) :
                  Covers(missing_ranges(buf.partial[id]), i) <=> ~Got(buf, id, i)
             /\ \E i \in Indexes(log, id) : ~Got(buf, id, i)
  <2>1. id \in Ids(log) /\ PartialInv(log[id + 1], buf.partial[id])
    BY <1>2
  <2>2. log[id + 1] \in Seq(Units)
    <3>1. id + 1 \in 1 .. Len(log)
      BY <1>2, <2>1 DEF Ids
    <3>2. QED
      BY <1>2, <3>1, FrameIsSeq
  <2>3. ChunkCount(log[id + 1]) \in Nat /\ buf.partial[id].chunk_count = ChunkCount(log[id + 1])
    BY <2>1, <2>2, ChunksCover DEF PartialInv
  <2>4. \A i \in Indexes(log, id) : Got(buf, id, i) <=> i \in DOMAIN buf.partial[id].received
    BY DEF Got
  <2>5. \E i \in Indexes(log, id) : i \notin DOMAIN buf.partial[id].received
    BY <2>1, <2>2, PartLacks DEF Indexes
  <2>6. \A i \in Indexes(log, id) :
          Covers(missing_ranges(buf.partial[id]), i) <=> i \notin DOMAIN buf.partial[id].received
    BY <2>3, MissingCovers DEF Indexes
  <2>7. QED
    BY <2>4, <2>5, <2>6
<1>5. ASSUME NEW id \in ids PROVE Spent(att, id) < lost
  <2>1. Touched(buf, net, id)
    BY DEF Touched
  <2>2. Lacking(log, buf, net, id)
    BY <1>3, <1>4 DEF Lacking, Flying, Asked
  <2>3. QED
    BY <1>2, <1>3, <2>1, <2>2 DEF Paid
<1>6. \A id : Spent(att, id) \in 0 .. lost
  BY <1>3, SpentType DEF Paid
<1>7. \A id \in DOMAIN more : more[id] = Spent(att, id) + (IF id \in ids THEN 1 ELSE 0)
  BY DEF Spent
<1>8. \A id : Spent(more, id) = Spent(att, id) + (IF id \in ids THEN 1 ELSE 0)
  <2>1. ASSUME NEW id PROVE Spent(more, id) = Spent(att, id) + (IF id \in ids THEN 1 ELSE 0)
    <3>1. CASE id \in DOMAIN more
      BY <1>7, <3>1 DEF Spent
    <3>2. CASE id \notin DOMAIN more
      BY <3>2 DEF Spent
    <3>3. QED
      BY <3>1, <3>2
  <2>2. QED
    BY <2>1
<1>9. DOMAIN more = DOMAIN att \cup ids
  OBVIOUS
<1> HIDE DEF more
<1>10. \A id \in DOMAIN more : more[id] \in 0 .. lost
  BY <1>3, <1>5, <1>6, <1>7
<1>11. over = FALSE
  BY <1>3, <1>9, <1>10, LinkAssumption, ReliabilityAssumption
<1> HIDE DEF over
<1>12. net' = r
  BY <1>1, <1>3, <1>11
<1>13. rcv'.buf = buf /\ rcv'.attempts = more /\ rcv'.failed = FALSE
  <2>1. rcv' = Asks(rcv, more, over)
    BY <1>1 DEF Asks
  <2>2. QED
    BY <1>2, <1>11, <2>1, ReaderAsks
<1>14. ASSUME NEW p \in r
       PROVE  /\ p.kind = "RepairRequest" /\ p.id \in ids
              /\ p = RepairPacket(p.id, missing_ranges(buf.partial[p.id]))
              /\ p.ranges = missing_ranges(buf.partial[p.id])
  BY DEF RepairRequests, RepairPacket
<1>15. ASSUME NEW id \in ids, NEW i \in Indexes(log, id), ~Got(buf, id, i) PROVE Asked(r, id, i)
  <2> DEFINE p == RepairPacket(id, missing_ranges(buf.partial[id]))
  <2>1. p \in r
    BY DEF RepairRequests
  <2>2. p.kind = "RepairRequest" /\ p.id = id /\ p.ranges = missing_ranges(buf.partial[id])
    BY DEF RepairPacket
  <2>3. Covers(p.ranges, i)
    BY <1>4, <1>15, <2>2
  <2> HIDE DEF p, r
  <2>4. QED
    BY <2>1, <2>2, <2>3 DEF Asked
<1> HIDE DEF r
<1>16. \A id, i : ~Flying(r, id, i)
  BY <1>14 DEF Flying
<1>17. Once(log, buf, r)
  <2>1. ASSUME NEW p \in r
        PROVE  /\ p.id \in ids
               /\ \E i \in Indexes(log, p.id) : Covers(p.ranges, i)
               /\ \A i \in Indexes(log, p.id) : Covers(p.ranges, i) => ~Got(buf, p.id, i)
    BY <1>4, <1>14
  <2>2. \A p, s \in r : p.id = s.id => p = s
    BY <1>14
  <2>3. \A id \in ids : ~Whole(buf, id)
    BY <1>3 DEF Once
  <2>4. QED
    BY <1>14, <1>16, <2>1, <2>2, <2>3 DEF Once
<1>18. Paid(log, snd.window, buf, more, r, lost)
  <2>1. ASSUME NEW id \in Ids(log), Touched(buf, r, id), Lacking(log, buf, r, id) PROVE FALSE
    <3>1. id \in ids
      BY <1>14, <2>1 DEF Touched
    <3>2. QED
      BY <1>15, <2>1, <3>1 DEF Lacking
  <2>2. ASSUME NEW id \in DOMAIN snd.window
        PROVE  /\ snd.window[id].repair_attempts \in Nat
               /\ snd.window[id].repair_attempts <= Spent(more, id)
               /\ Requested(r, id) => snd.window[id].repair_attempts < Spent(more, id)
    <3>1. snd.window[id].repair_attempts \in Nat /\ snd.window[id].repair_attempts <= Spent(att, id)
      BY <1>3 DEF Paid
    <3>2. Spent(att, id) \in Nat
      BY <1>3, <1>6
    <3>3. Requested(r, id) => id \in ids
      BY <1>14 DEF Requested
    <3>4. QED
      BY <1>8, <3>1, <3>2, <3>3
  <2>3. QED
    BY <1>10, <2>1, <2>2 DEF Paid
<1>19. QED
  BY <1>1, <1>3, <1>12, <1>13, <1>17, <1>18 DEF BudgetInv

\* A datagram is lost, and pays for an attempt.
LEMMA LoseBudget == ASSUME Affordable, LinkInv, BudgetInv, Lose PROVE BudgetInv'
<1>1. PICK p \in net : /\ net' = net \ {p} /\ lost' = lost + 1 /\ lost < MaxLost
                       /\ UNCHANGED <<snd, rcv, log, dups>>
  BY DEF Lose
<1>2. /\ Once(log, rcv.buf, net) /\ Paid(log, snd.window, rcv.buf, rcv.attempts, net, lost)
      /\ lost \in Nat /\ lost' \in 0 .. MaxLost /\ lost' = lost + 1
  BY <1>1, LinkAssumption DEF BudgetInv
<1>3. \A id, i : Flying(net', id, i) => Flying(net, id, i)
  BY <1>1 DEF Flying
<1>4. \A id : Requested(net', id) => Requested(net, id)
  BY <1>1 DEF Requested
<1>5. Once(log, rcv.buf, net')
  BY <1>1, <1>2, <1>3 DEF Once
<1>6. \A id : Spent(rcv.attempts, id) \in 0 .. lost
  BY <1>2, SpentType DEF Paid
<1>7. Paid(log, snd.window, rcv.buf, rcv.attempts, net', lost')
  <2>1. \A id \in DOMAIN rcv.attempts : rcv.attempts[id] \in 0 .. lost'
    BY <1>2 DEF Paid
  <2>2. \A id \in Ids(log) : Spent(rcv.attempts, id) < lost'
    BY <1>2, <1>6
  <2>3. QED
    BY <1>2, <1>4, <2>1, <2>2 DEF Paid
<1>8. QED
  BY <1>1, <1>2, <1>5, <1>7 DEF BudgetInv

\* Two new sessions have spent nothing.
LEMMA BudgetInit == ASSUME Affordable, Init PROVE BudgetInv
<1> DEFINE e == << >>
<1>1. DOMAIN e = {} /\ Len(e) = 0
  OBVIOUS
<1>2. /\ snd = [next |-> 0, window |-> e, closed |-> FALSE, failed |-> FALSE]
      /\ rcv = [buf |-> EmptyBuffer, attempts |-> e, closed |-> FALSE, failed |-> FALSE]
      /\ EmptyBuffer = [expected |-> 0, partial |-> e, completed |-> e]
      /\ net = {} /\ log = e /\ lost = 0 /\ dups = 0
  BY DEF Init, EmptyBuffer
<1> HIDE DEF e
<1>3. /\ snd.window = e /\ ~snd.failed /\ rcv.buf.partial = e /\ rcv.attempts = e /\ ~rcv.failed
      /\ Ids(log) = {}
  BY <1>1, <1>2 DEF Ids
<1>4. Once(log, rcv.buf, net)
  BY <1>1, <1>2, <1>3 DEF Once
<1>5. Paid(log, snd.window, rcv.buf, rcv.attempts, net, lost)
  BY <1>1, <1>2, <1>3 DEF Paid
<1>6. QED
  BY <1>1, <1>2, <1>3, <1>4, <1>5, LinkAssumption DEF BudgetInv

\* Every step keeps within the budget.
LEMMA BudgetStep == Affordable => (LinkInv /\ BudgetInv /\ [Next]_vars => BudgetInv')
<1> SUFFICES ASSUME Affordable, LinkInv, BudgetInv, [Next]_vars PROVE BudgetInv'
  OBVIOUS
<1>1. CASE Next
  BY <1>1, SendBudget, SendManyBudget, AckBudget, RepairBudget, CloseBudget, DataBudget,
     RecvCloseBudget, TimeoutBudget, LoseBudget DEF Next
<1>2. CASE UNCHANGED vars
  BY <1>2 DEF vars, BudgetInv
<1>3. QED
  BY <1>1, <1>2

----------------------------------------------------------------------------
(* The theorems. *)

\* What is in flight, in the reassembly buffer and in the send window stays as it was
\* sent, and a message leaves the window only when the reader has the whole of it.
THEOREM LinkInvariant == Spec => []LinkInv
BY InitHolds, StepKeeps, PTL DEF Spec

\* Frames come out whole, in order and once each, whatever the network does.
THEOREM DeliveredInOrder == Spec => []FramesInOrder
<1>1. LinkInv => FramesInOrder
  <2> SUFFICES ASSUME LinkInv PROVE FramesInOrder
    OBVIOUS
  <2> DEFINE e == rcv.buf.expected
  <2>1. e \in 0 .. Len(log) /\ Len(log) \in Nat /\ delivered = [i \in 1 .. e |-> log[i]]
    BY LinkParts DEF BufferInv
  <2> HIDE DEF e
  <2>2. e \in Nat /\ DOMAIN delivered = 1 .. e /\ Len(delivered) = e
    BY <2>1
  <2>3. \A i \in DOMAIN delivered : delivered[i] = log[i]
    BY <2>1
  <2>4. QED
    BY <2>1, <2>2, <2>3 DEF FramesInOrder
<1>2. QED
  BY <1>1, LinkInvariant, PTL

\* No acknowledgement is premature.
THEOREM NothingRetiredEarly == Spec => []RetiredIsWhole
<1>1. LinkInv => RetiredIsWhole
  BY DEF LinkInv, Retired, RetiredIsWhole, Whole, Ids
<1>2. QED
  BY <1>1, LinkInvariant, PTL

\* The window stays within its limit, and both ends speak of ids that were given out.
THEOREM TypeCorrect == Spec => []TypeOK
<1>1. LinkInv => TypeOK
  <2> SUFFICES ASSUME LinkInv PROVE TypeOK
    OBVIOUS
  <2>1. /\ snd.next = Len(log) /\ DOMAIN snd.window \subseteq 0 .. Len(log) - 1
        /\ Cardinality(DOMAIN snd.window) <= MaxInFlight
    BY LinkParts DEF WindowInv, Message, Ids
  <2>2. DOMAIN rcv.buf.partial \cup DOMAIN rcv.buf.completed \subseteq 0 .. Len(log) - 1
    BY LinkParts DEF BufferInv, Message, Ids
  <2>3. rcv.buf.expected = Len(delivered)
    <3> DEFINE e == rcv.buf.expected
    <3>1. e \in 0 .. Len(log) /\ Len(log) \in Nat /\ delivered = [i \in 1 .. e |-> log[i]]
      BY LinkParts DEF BufferInv
    <3> HIDE DEF e
    <3>2. Len(delivered) = e
      BY <3>1
    <3>3. QED
      BY <3>2 DEF e
  <2>4. ASSUME NEW p \in net PROVE PacketTypeOK(p)
    <3>1. PacketInv(log, rcv.buf, p)
      BY LinkParts
    <3>2. IsChunk(log, p) => PacketTypeOK(p)
      BY DEF IsChunk, PacketTypeOK
    <3>3. Ids(log) \subseteq Nat
      BY LinkParts DEF Ids
    <3>4. QED
      BY <3>1, <3>2, <3>3 DEF PacketInv, PacketTypeOK
  <2>5. QED
    BY <2>1, <2>2, <2>3, <2>4 DEF TypeOK
<1>2. QED
  BY <1>1, LinkInvariant, PTL

\* The repair budget is enough: as long as no datagram is slower than the repair timeout
\* or delivered twice, no message leaves the window unacknowledged and no more datagrams
\* are lost than a message may be repaired, neither session gives up.
THEOREM BudgetIsEnough ==
  ASSUME Patient, MaxDup = 0, MaxLost <= MaxAttempts, MaxFrames <= MaxInFlight
  PROVE  Spec => []BudgetSuffices
<1>1. Affordable
  BY DEF Affordable
<1>2. Init => LinkInv /\ BudgetInv
  BY <1>1, InitHolds, BudgetInit
<1>3. LinkInv /\ BudgetInv /\ [Next]_vars => LinkInv' /\ BudgetInv'
  BY <1>1, StepKeeps, BudgetStep
<1>4. BudgetInv => BudgetSuffices
  BY DEF BudgetInv, BudgetSuffices
<1>5. QED
  BY <1>2, <1>3, <1>4, PTL DEF Spec
=============================================================================
