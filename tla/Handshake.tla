----------------------------- MODULE Handshake -----------------------------
(***************************************************************************)
(* The messages of the secure bootstrap and what each end makes of them    *)
(* (shared_protocol/src/bootstrap.rs): the mutual profile, with its four   *)
(* messages, and the simple one, with two.                                 *)
(*                                                                         *)
(* Cryptography is ideal.  A key pair is its seed, a ciphertext carries    *)
(* the secret for one seed and gives any other holder a secret of its own  *)
(* (ML-KEM rejects implicitly), a signature is the signer and the text,    *)
(* a transcript hash is the list of messages.                              *)
(***************************************************************************)
EXTENDS Integers, Sequences, FiniteSets

CONSTANTS ClockSkew,         \* clock_skew_secs
          StreamId, Direction, Issuer,
          RevokedClientIds

Failed == [ok |-> FALSE]

Done(value) == [ok |-> TRUE, value |-> value]

(***************************************************************************)
(* Keys, credentials and the replay cache.                                 *)
(***************************************************************************)
NobodysKey == 0

Encapsulate(key, parts) == [to |-> key, secret |-> <<key, parts>>]

Decapsulate(seed, ciphertext) ==
    IF ciphertext.to = seed THEN ciphertext.secret ELSE <<seed, <<"rejected", ciphertext>>>>

Signature(signer, text) == [signer |-> signer, text |-> text]

\* Signed by the issuer over all its other fields.
issue_client_credential(clientId, scope, issuedAt, expiresAt) ==
    [client_id |-> clientId, issuer |-> Issuer, scope |-> scope,
     issued_at |-> issuedAt, expires_at |-> expiresAt, key |-> clientId]

issue_server_identity(serverId, issuedAt, expiresAt) ==
    [server_id |-> serverId, issued_at |-> issuedAt, expires_at |-> expiresAt, key |-> serverId]

ScopeAllows(scope) ==
    /\ scope.stream \in {"any", StreamId}
    /\ Direction \in scope.directions

\* The validity check that identities and credentials share.
Valid(bundle, now) == bundle.issued_at <= now + ClockSkew /\ bundle.expires_at + ClockSkew >= now

validate_server_identity_bundle(identity, now) == Valid(identity, now)

validate_client_credential_bundle(credential, identity, now) ==
    /\ credential.issuer = identity.server_id
    /\ Valid(credential, now)
    /\ ScopeAllows(credential.scope)

\* Entries are keyed by client, client nonce and server nonce, and kept until
\* the credential expires, without the skew that its validity is granted.
prune_expired(cache, now) == {e \in cache : e.expires_at >= now}

check_and_insert(cache, key, expiresAt, now) ==
    IF \E e \in prune_expired(cache, now) : e.key = key THEN Failed
    ELSE Done(prune_expired(cache, now) \cup {[key |-> key, expires_at |-> expiresAt]})

(***************************************************************************)
(* Messages.                                                               *)
(***************************************************************************)
MessageKinds == {"ClientHello", "ServerHello", "ClientFinish", "ServerFinish",
                 "SimpleClientHello", "SimpleServerHello"}

ClientHello(profile, nonce, key, credential) ==
    [kind |-> IF profile = "mutual" THEN "ClientHello" ELSE "SimpleClientHello",
     stream |-> StreamId, nonce |-> nonce, key |-> key, credential |-> credential]

ServerHello(identity, nonce, key, ciphertext) ==
    [kind |-> "ServerHello", stream |-> StreamId, nonce |-> nonce, key |-> key,
     ciphertext |-> ciphertext, identity |-> identity]

ClientFinish(ciphertext, signature) ==
    [kind |-> "ClientFinish", stream |-> StreamId, ciphertext |-> ciphertext, signature |-> signature]

ServerFinish(signature) == [kind |-> "ServerFinish", stream |-> StreamId, signature |-> signature]

SimpleServerHello(nonce, ciphertext) ==
    [kind |-> "SimpleServerHello", stream |-> StreamId, nonce |-> nonce, ciphertext |-> ciphertext]

\* Faulty: the client signs its own messages only.
FaultyClientFinishSignable(hello, serverHello, ciphertext) == <<"client_finish", hello, ciphertext>>

\* The finish message is signed without its signature.
client_finish_signable_bytes(hello, serverHello, ciphertext) ==
    <<"client_finish", hello, serverHello, ciphertext>>

server_finish_signable_bytes(transcript) == <<"server_finish", StreamId, Direction, transcript>>

derive_pq_mutual_root(serverToClient, clientToServer, transcript) ==
    <<"mutual", StreamId, Direction, serverToClient, clientToServer, transcript>>

derive_pq_simple_root(secret, transcript) == <<"simple", StreamId, Direction, secret, transcript>>

Completed(root, clientNonce, serverNonce) ==
    [root |-> root, client_nonce |-> clientNonce, server_nonce |-> serverNonce]

(***************************************************************************)
(* The client's handlers.  A client state holds the nonce, which is its    *)
(* key seed too, and the hello; after ServerHello also the rest.           *)
(***************************************************************************)
start(profile, nonce, credential) ==
    [profile |-> profile, nonce |-> nonce, credential |-> credential,
     hello |-> ClientHello(profile, nonce, nonce, credential),
     server_nonce |-> 0, transcript |-> <<>>, root |-> <<>>]

HandleServerHello(state, hello, expected, now) ==
    LET ciphertext == Encapsulate(hello.key, <<"client-finish", state.nonce>>)
        signable == client_finish_signable_bytes(state.hello, hello, ciphertext)
        finish == ClientFinish(ciphertext, Signature(state.credential.key, signable))
        transcript == <<state.hello, hello, finish>>
    IN  IF /\ hello.stream = StreamId /\ hello.identity = expected
           /\ validate_server_identity_bundle(hello.identity, now)
        THEN Done([finish |-> finish,
                   state |-> [state EXCEPT !.server_nonce = hello.nonce, !.transcript = transcript,
                                !.root = derive_pq_mutual_root(Decapsulate(state.nonce, hello.ciphertext),
                                                               ciphertext.secret, transcript)]])
        ELSE Failed

handle_server_finish(state, finish, expected) ==
    IF /\ state.transcript # <<>>
       /\ finish.signature = Signature(expected.key, server_finish_signable_bytes(state.transcript))
    THEN Done(Completed(state.root, state.nonce, state.server_nonce)) ELSE Failed

HandleSimpleServerHello(state, hello) ==
    IF hello.stream = StreamId
    THEN Done(Completed(derive_pq_simple_root(Decapsulate(state.nonce, hello.ciphertext), <<state.hello, hello>>),
                        state.nonce, hello.nonce))
    ELSE Failed

(***************************************************************************)
(* The server's handlers.                                                  *)
(***************************************************************************)
RespondToClientHello(identity, cache, hello, now, nonce) ==
    LET key == [client |-> hello.credential.client_id, client_nonce |-> hello.nonce, server_nonce |-> nonce]
        entered == check_and_insert(cache, key, hello.credential.expires_at, now)
        ciphertext == Encapsulate(hello.key, <<"server-hello", nonce, hello.nonce>>)
        response == ServerHello(identity, nonce, nonce, ciphertext)
    IN  IF /\ hello.stream = StreamId
           /\ validate_server_identity_bundle(identity, now)
           /\ validate_client_credential_bundle(hello.credential, identity, now)
           /\ hello.credential.client_id \notin RevokedClientIds
           /\ entered.ok
        THEN Done([cache |-> entered.value, outbound |-> response,
                   state |-> [hello |-> hello, response |-> response, nonce |-> nonce,
                              secret |-> ciphertext.secret]])
        ELSE Failed

\* Faulty: the signature of the finish is not checked.
FaultyHandleClientFinish(state, finish, identity) ==
    LET transcript == <<state.hello, state.response, finish>>
    IN  IF finish.stream = StreamId
        THEN Done([completed |-> Completed(
                      derive_pq_mutual_root(state.secret, Decapsulate(state.nonce, finish.ciphertext), transcript),
                      state.hello.nonce, state.nonce),
                   outbound |-> ServerFinish(Signature(identity.key, server_finish_signable_bytes(transcript)))])
        ELSE Failed

handle_client_finish(state, finish, identity) ==
    LET transcript == <<state.hello, state.response, finish>>
        signable == client_finish_signable_bytes(state.hello, state.response, finish.ciphertext)
    IN  IF /\ finish.stream = StreamId
           /\ finish.signature = Signature(state.hello.credential.key, signable)
        THEN Done([completed |-> Completed(
                      derive_pq_mutual_root(state.secret, Decapsulate(state.nonce, finish.ciphertext), transcript),
                      state.hello.nonce, state.nonce),
                   outbound |-> ServerFinish(Signature(identity.key, server_finish_signable_bytes(transcript)))])
        ELSE Failed

respond_to_simple_client_hello(hello, nonce) ==
    LET ciphertext == Encapsulate(hello.key, <<"simple-server-hello", nonce, hello.nonce>>)
        response == SimpleServerHello(nonce, ciphertext)
    IN  IF hello.stream = StreamId
        THEN Done([outbound |-> response,
                   completed |-> Completed(derive_pq_simple_root(ciphertext.secret, <<hello, response>>),
                                           hello.nonce, nonce)])
        ELSE Failed

=============================================================================
