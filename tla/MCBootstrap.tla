---------------------------- MODULE MCBootstrap ----------------------------
(* Two attempts, two accepts; messages of two chunks and of one. *)
EXTENDS Bootstrap

Any == [stream |-> "any", directions |-> {"c2s", "s2c"}]

MCCredentials == {issue_client_credential("alice", Any, 0, 0),
                  issue_client_credential("carol", Any, 0, 2),
                  issue_client_credential("bob", [stream |-> "any", directions |-> {"s2c"}], 0, 2)}

MCIdentity == issue_server_identity("server", 0, 0)

MCChunkCount == [ClientHello |-> 2, SimpleClientHello |-> 2, ServerHello |-> 2, SimpleServerHello |-> 1,
                 ClientFinish |-> 2, ServerFinish |-> 1]
=============================================================================
