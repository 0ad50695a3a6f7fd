----------------------------- MODULE Bootstrap -----------------------------
(***************************************************************************)
(* The secure bootstrap over UDP (server/src/datagram_transport.rs,        *)
(* client/src/datagram.rs): one client that tries again after a failure,   *)
(* from a new socket, and one server that accepts one session after the    *)
(* other.  Packets are lost, repeated, delayed and reordered, also from    *)
(* one attempt into the next.                                              *)
(*                                                                         *)
(* Every bootstrap message is message 0 of a reassembly buffer that is     *)
(* made for receiving it, whatever its kind.                               *)
(***************************************************************************)
EXTENDS Handshake

CONSTANTS Profiles, Credentials, Identity,
          ChunkCount,        \* the chunks that a message of each kind is cut into
          MaxAttempts,       \* max_attempts of the reconnect policy
          MaxAccepts,        \* bound on the sessions the server accepts
          MaxTime            \* bound on the clock

ASSUME BootstrapAssumption ==
    /\ MaxAttempts \in Nat \ {0} /\ MaxAccepts \in Nat /\ ClockSkew \in Nat
    /\ ChunkCount \in [MessageKinds -> Nat \ {0}]

VARIABLES client,            \* the attempt under way
          server,            \* the accept under way
          net,               \* every packet ever sent
          now, cache,
          done               \* the completed bootstraps of each end

bootstrapVars == <<client, server, net, now, cache, done>>

EmptyBuffer == [popped |-> FALSE, count |-> 0, chunks |-> << >>]

BootstrapInit ==
  /\ \E profile \in Profiles, credential \in Credentials :
       client = [attempt |-> 0, phase |-> "idle", buffer |-> EmptyBuffer,
                 state |-> start(profile, 0, credential)]
  /\ server = [accept |-> 1, phase |-> "hello", peer |-> 0, buffer |-> EmptyBuffer, state |-> << >>]
  /\ net = {} /\ now = 0 /\ cache = {}
  /\ done = [client |-> {}, server |-> {}]

Profile == client.state.profile

(***************************************************************************)
(* Packets.                                                                *)
(***************************************************************************)
\* fragment_transport_frame of message 0.  A client's address is its attempt.
PacketsOf(to, address, message) ==
    {[to |-> to, address |-> address, message |-> message, index |-> i] : i \in 1 .. ChunkCount[message.kind]}

\* Chunks of different messages of one kind decode to a message nobody sent: its
\* nonce is that of the first chunk and its key is nobody's.
Frame(chunks) ==
    CASE \A i \in DOMAIN chunks : chunks[i] = chunks[1] -> Done(chunks[1])
      [] OTHER ->
           IF \A i \in DOMAIN chunks : chunks[i].kind = chunks[1].kind
           THEN IF "key" \in DOMAIN chunks[1] THEN Done([chunks[1] EXCEPT !.key = NobodysKey])
                ELSE Done([chunks[1] EXCEPT !.ciphertext = [to |-> NobodysKey, secret |-> << >>]])
           ELSE Failed

\* insert_data and pop_next_ready: an error, or the buffer with the frame it gave
\* if there is one.  After the first frame the buffer expects message 1.
Insert(buffer, packet) ==
    LET count == ChunkCount[packet.message.kind]
        chunks == (IF packet.index \in DOMAIN buffer.chunks THEN buffer.chunks
                   ELSE [i \in DOMAIN buffer.chunks \cup {packet.index} |->
                           IF i = packet.index THEN packet.message ELSE buffer.chunks[i]])
        whole == Cardinality(DOMAIN chunks) = count
    IN  IF buffer.count \notin {0, count} THEN Failed
        ELSE IF ~ whole THEN Done([buffer |-> [buffer EXCEPT !.count = count, !.chunks = chunks], frame |-> Failed])
        ELSE IF buffer.popped THEN Done([buffer |-> [buffer EXCEPT !.count = 0, !.chunks = << >>], frame |-> Failed])
        ELSE IF ~ Frame(chunks).ok THEN Failed
        ELSE Done([buffer |-> [popped |-> TRUE, count |-> 0, chunks |-> << >>], frame |-> Frame(chunks)])

(***************************************************************************)
(* The client.                                                             *)
(***************************************************************************)
\* connect_datagram_with_retries: the next attempt, with a new nonce and socket.
Connect ==
    LET state == start(Profile, client.attempt + 1, client.state.credential)
    IN  /\ client.phase \in {"idle", "failed"} /\ client.attempt < MaxAttempts
        /\ client' = [attempt |-> client.attempt + 1, phase |-> "hello", buffer |-> EmptyBuffer, state |-> state]
        /\ net' = net \cup PacketsOf("server", client.attempt + 1, state.hello)
        /\ UNCHANGED <<server, now, cache, done>>

ClientFails == /\ client' = [client EXCEPT !.phase = "failed"]
               /\ UNCHANGED <<server, net, now, cache, done>>

\* The kind that the attempt waits for; another kind is dropped.
ClientExpects == CASE client.phase = "finish" -> "ServerFinish"
                   [] client.phase # "finish" -> IF Profile = "mutual" THEN "ServerHello" ELSE "SimpleServerHello"

Connected(completed) ==
    /\ client' = [client EXCEPT !.phase = "connected"]
    /\ done' = [done EXCEPT !.client = @ \cup {completed}]
    /\ UNCHANGED <<server, net, now, cache>>

ClientHandles(message) ==
    CASE message.kind = "ServerHello" ->
           LET result == HandleServerHello(client.state, message, Identity, now)
           IN  IF result.ok
               THEN /\ client' = [client EXCEPT !.phase = "finish", !.buffer = EmptyBuffer,
                                                !.state = result.value.state]
                    /\ net' = net \cup PacketsOf("server", client.attempt, result.value.finish)
                    /\ UNCHANGED <<server, now, cache, done>>
               ELSE ClientFails
      [] message.kind = "ServerFinish" ->
           LET result == handle_server_finish(client.state, message, Identity)
           IN  IF result.ok THEN Connected(result.value) ELSE ClientFails
      [] message.kind = "SimpleServerHello" ->
           LET result == HandleSimpleServerHello(client.state, message)
           IN  IF result.ok THEN Connected(result.value) ELSE ClientFails

ClientReceive(packet) ==
    LET inserted == Insert(client.buffer, packet)
    IN  /\ client.phase \in {"hello", "finish"}
        /\ packet.to = "client" /\ packet.address = client.attempt
        /\ IF ~ inserted.ok THEN ClientFails
           ELSE IF inserted.value.frame.ok /\ inserted.value.frame.value.kind = ClientExpects
           THEN ClientHandles(inserted.value.frame.value)
           ELSE /\ client' = [client EXCEPT !.buffer = inserted.value.buffer]
                /\ UNCHANGED <<server, net, now, cache, done>>

\* Faulty: only the wait for the hello is bounded.
FaultyClientTimeout == client.phase = "hello" /\ ClientFails

ClientTimeout == client.phase \in {"hello", "finish"} /\ ClientFails

(***************************************************************************)
(* The server.                                                             *)
(***************************************************************************)
\* accept_udp_session is called again, until MaxAccepts.
NextAccept == IF server.accept < MaxAccepts
              THEN [accept |-> server.accept + 1, phase |-> "hello", peer |-> 0, buffer |-> EmptyBuffer,
                    state |-> << >>]
              ELSE [server EXCEPT !.phase = "closed", !.buffer = EmptyBuffer, !.state = << >>]

ServerFails == server' = NextAccept /\ UNCHANGED <<client, net, now, cache, done>>

ServerExpects == CASE server.phase = "finish" -> "ClientFinish"
                   [] server.phase # "finish" -> IF Profile = "mutual" THEN "ClientHello" ELSE "SimpleClientHello"

Accepted(completed, address, outbound) ==
    /\ server' = NextAccept
    /\ done' = [done EXCEPT !.server = @ \cup {completed}]
    /\ net' = net \cup PacketsOf("client", address, outbound)
    /\ UNCHANGED <<client, now, cache>>

ServerNonce == 100 + server.accept

ServerHandles(message, address) ==
    CASE message.kind = "ClientHello" ->
           LET result == RespondToClientHello(Identity, cache, message, now, ServerNonce)
           IN  IF result.ok
               THEN /\ server' = [server EXCEPT !.phase = "finish", !.peer = address, !.buffer = EmptyBuffer,
                                                !.state = result.value.state]
                    /\ cache' = result.value.cache
                    /\ net' = net \cup PacketsOf("client", address, result.value.outbound)
                    /\ UNCHANGED <<client, now, done>>
               ELSE ServerFails
      [] message.kind = "ClientFinish" ->
           LET result == handle_client_finish(server.state, message, Identity)
           IN  IF result.ok THEN Accepted(result.value.completed, address, result.value.outbound) ELSE ServerFails
      [] message.kind = "SimpleClientHello" ->
           LET result == respond_to_simple_client_hello(message, ServerNonce)
           IN  IF result.ok THEN Accepted(result.value.completed, address, result.value.outbound) ELSE ServerFails

\* A hello may come from any address, and so may each of its chunks.
ServerReceive(packet) ==
    LET inserted == Insert(server.buffer, packet)
    IN  /\ server.phase \in {"hello", "finish"}
        /\ packet.to = "server" /\ (server.phase = "finish" => packet.address = server.peer)
        /\ IF ~ inserted.ok THEN ServerFails
           ELSE IF inserted.value.frame.ok /\ inserted.value.frame.value.kind = ServerExpects
           THEN ServerHandles(inserted.value.frame.value, packet.address)
           ELSE /\ server' = [server EXCEPT !.buffer = inserted.value.buffer]
                /\ UNCHANGED <<client, net, now, cache, done>>

ServerTimeout == server.phase \in {"hello", "finish"} /\ ServerFails

Tick == now < MaxTime /\ now' = now + 1 /\ UNCHANGED <<client, server, net, cache, done>>

BootstrapNext ==
  \/ Connect \/ ClientTimeout \/ ServerTimeout \/ Tick
  \/ \E packet \in net : ClientReceive(packet) \/ ServerReceive(packet)

BootstrapSpec == BootstrapInit /\ [][BootstrapNext]_bootstrapVars
                               /\ WF_bootstrapVars(Connect) /\ WF_bootstrapVars(ClientTimeout)

(***************************************************************************)
(* Properties.                                                             *)
(***************************************************************************)
\* A mutual bootstrap that the client completed was completed by the server with
\* the same root, and one that the server completed is known to the client with
\* that root.  Both ends of a simple bootstrap derive the same root if the server
\* took the hello that the client sent, and no two sessions of a server share one
\* (handle_client_finish, handle_server_finish, derive_pq_simple_root).
RootsAgree ==
    /\ Profile = "mutual" =>
        /\ done.client \subseteq done.server
        /\ \A s \in done.server :
              (client.attempt = s.client_nonce /\ client.phase \in {"finish", "connected"}) =>
                  client.state.root = s.root /\ client.state.server_nonce = s.server_nonce
    /\ Profile = "simple" =>
        /\ \A c \in done.client, s \in done.server :
              (c.server_nonce = s.server_nonce /\ s.root[5][1].key # NobodysKey) => c.root = s.root
        /\ \A s, t \in done.server : s.root = t.root => s = t

\* A hello that arrives again, after its session was completed or abandoned, in a
\* later accept, never completes a second mutual session: whatever becomes of the
\* replay cache, the client answers one server nonce only (check_and_insert).
OneSessionPerHello ==
    \A s, t \in done.server : (Profile = "mutual" /\ s.client_nonce = t.client_nonce) => s = t

\* The client ends up connected or has used up its attempts: a lost or poisoned
\* message cannot make it wait for ever (receive_udp_bootstrap_message).
EventuallySettled == <>(client.phase = "connected" \/ (client.phase = "failed" /\ client.attempt = MaxAttempts))
=============================================================================
