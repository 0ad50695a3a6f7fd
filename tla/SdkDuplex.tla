------------------------------ MODULE SdkDuplex ------------------------------
(***************************************************************************)
(* Two SDK endpoints on one TCP connection: PulzzClient (sdk/src/client.rs)   *)
(* and PulzzSession (sdk/src/session.rs).  Each has one StreamProtector for   *)
(* both directions, sends a record as a frame of its own, and reads frames    *)
(* as a length followed by a body (shared_protocol/src/carrier.rs).          *)
(***************************************************************************)
EXTENDS FrameProtector

CONSTANT MaxSends  \* bound on the frames sent, both directions together

ASSUME DuplexAssumption == MaxSends \in Nat

Peers == {"client", "server"}
Other(e) == CHOOSE f \in Peers : f # e

VARIABLES protector,     \* protector[e]: the endpoint's protector
          wire,     \* wire[e]: the bytes on their way to e, a length and a body per frame
          reading,  \* reading[e]: recv has consumed a length and waits for the body
          broken,   \* broken[e]: the carrier of e returned an error
          sent,     \* sent[e]: the frames e sent
          got,      \* got[e]: the records recv returned at e
          crossed,  \* history: an endpoint sent before recv had returned all the other sent
          cut       \* history: a recv timed out inside a frame

duplexVars == <<protector, wire, reading, broken, sent, got, crossed, cut>>

DuplexInit ==
  /\ protector = [e \in Peers |-> NewProtector]
  /\ wire = [e \in Peers |-> << >>]
  /\ reading = [e \in Peers |-> FALSE]
  /\ broken = [e \in Peers |-> FALSE]
  /\ sent = [e \in Peers |-> << >>]
  /\ got = [e \in Peers |-> << >>]
  /\ crossed = FALSE
  /\ cut = FALSE

LengthOf(f) == [part |-> "length", frame |-> f]
BodyOf(f) == [part |-> "body", frame |-> f]

\* build_exact_record: the epoch is always 0, the sequence number is the
\* protector's, no flags.
build_exact_record(p, b) ==
  [type |-> "Exact", epoch |-> 0, seq |-> expected_seq_no(p), confirm |-> FALSE,
   body |-> b, next |-> 0]

\* send and send_batch.
Send(e) ==
  \E b \in Bodies :
    LET out == protect_transport_records(protector[e], <<build_exact_record(protector[e], b)>>)
    IN /\ Len(sent["client"]) + Len(sent["server"]) < MaxSends
       /\ protector' = [protector EXCEPT ![e] = out.p]
       /\ IF out.ok
          THEN /\ wire' = [wire EXCEPT ![Other(e)] =
                             Append(Append(@, LengthOf(out.frame)), BodyOf(out.frame))]
               /\ sent' = [sent EXCEPT ![e] = Append(@, out.frame)]
          ELSE UNCHANGED <<wire, sent>>
       /\ crossed' = (crossed \/ Len(got[e]) < Len(sent[Other(e)]))
       /\ UNCHANGED <<reading, broken, got, cut>>

\* The first read of read_length_prefixed_frame.  Bytes of a frame taken for a
\* length start with the frame magic, which is over any frame limit.
ReadLength(e) ==
  /\ ~broken[e] /\ ~reading[e]
  /\ wire[e] # << >>
  /\ wire' = [wire EXCEPT ![e] = Tail(@)]
  /\ IF Head(wire[e]).part = "length"
     THEN reading' = [reading EXCEPT ![e] = TRUE] /\ UNCHANGED broken
     ELSE broken' = [broken EXCEPT ![e] = TRUE] /\ UNCHANGED reading
  /\ UNCHANGED <<protector, sent, got, crossed, cut>>

\* The second read, and the rest of recv.
ReadBody(e) ==
  LET out == unprotect_transport_frame(protector[e], Head(wire[e]).frame)
  IN /\ ~broken[e] /\ reading[e]
     /\ wire[e] # << >>
     /\ wire' = [wire EXCEPT ![e] = Tail(@)]
     /\ reading' = [reading EXCEPT ![e] = FALSE]
     /\ IF Closed(protector[e]) THEN UNCHANGED <<protector, got>>
        ELSE /\ protector' = [protector EXCEPT ![e] = out.p]
             /\ got' = [got EXCEPT ![e] = @ \o FirstRecord(out.recs)]
     /\ UNCHANGED <<broken, sent, crossed, cut>>

\* timeout() drops the read future, and a length it has consumed is gone with it.
Timeout(e) ==
  /\ ~broken[e] /\ reading[e]
  /\ reading' = [reading EXCEPT ![e] = FALSE]
  /\ cut' = TRUE
  /\ UNCHANGED <<protector, wire, broken, sent, got, crossed>>

\* recv again after the carrier's error: it takes ciphertext for lengths, and either
\* fails once more or hands over bytes that are no frame, which closes the stream.
\* (Ciphertext is taken never to line up with the length of a later frame.)
ReadAstray(e) ==
  /\ broken[e] /\ ~Closed(protector[e])
  /\ protector' = [protector EXCEPT ![e] = Fail(@)]
  /\ UNCHANGED <<wire, reading, broken, sent, got, crossed, cut>>

DuplexNext ==
  \E e \in Peers : Send(e) \/ ReadLength(e) \/ ReadBody(e) \/ Timeout(e) \/ ReadAstray(e)

DuplexSpec == DuplexInit /\ [][DuplexNext]_duplexVars

\* What the two reads do: each takes one item off the wire.
Reads(e) == ~broken[e] /\ wire[e] # << >> /\ wire' = [wire EXCEPT ![e] = Tail(@)]

\* Both endpoints keep calling recv.
DuplexFairSpec == DuplexSpec /\ \A e \in Peers : WF_wire(Reads(e))

----------------------------------------------------------------------------
\* Type invariant of the two endpoints.
DuplexTypeOK ==
  /\ protector \in [Peers -> Protector]
  /\ got \in [Peers -> Seq(Record)]
  /\ reading \in [Peers -> BOOLEAN]
  /\ broken \in [Peers -> BOOLEAN]
  /\ crossed \in BOOLEAN /\ cut \in BOOLEAN

BodiesSent(e) == [i \in DOMAIN sent[e] |-> sent[e][i].body[1].body]
BodiesGot(e) == [i \in DOMAIN got[e] |-> got[e][i].body]

\* What recv returns at one end is a prefix of what was sent at the other, in both
\* directions, even when both ends send at once or reads time out.
DuplexInOrder == \A e \in Peers : IsPrefix(BodiesGot(e), BodiesSent(Other(e)))

\* One ratchet serves both directions: no two frames of one end are sealed under the
\* same key, and no two of different ends as long as nobody sends before recv has
\* returned every frame of the other end, be it on its way, cut or refused.
KeysSharedOnce ==
  /\ \A e \in Peers : \A i, j \in DOMAIN sent[e] : sent[e][i].key = sent[e][j].key => i = j
  /\ ~crossed => \A i \in DOMAIN sent["client"], j \in DOMAIN sent["server"] :
                   sent["client"][i].key # sent["server"][j].key

\* Every frame sent is returned by recv at the other end, unless an endpoint sent too
\* early or a read was cut.
EventuallyReceived ==
  \A e \in Peers : \A n \in 1 .. MaxSends :
    Len(sent[e]) >= n ~> Len(got[Other(e)]) >= n \/ crossed \/ cut

\* The pair of protectors "can be used for BOTH protect (send) AND unprotect (recv) in
\* both directions": with no read cut, no endpoint ever refuses a frame.
PairWorks == ~cut => \A e \in Peers : ~Closed(protector[e])

\* A recv that times out can be called again: the carrier goes on where it was.
TimeoutLosesNothing == \A e \in Peers : ~broken[e]
=============================================================================
