---------------------------- MODULE MCExactPath ----------------------------
(* Two items; a flat JSON object, the same with another value, one with     *)
(* another key and a blank behind the colon, and a short text.              *)
EXTENDS ExactPath

MCUnquoted == ("a" :> "a'") @@ ("b" :> "b'") @@ ("x" :> "x'")

MCDocs == {<<"{", "a", ":", "1", "}">>,
           <<"{", "a", ":", "x", "}">>,
           <<"{", "b", ":", " ", "x", "}">>,
           <<"t", "u">>}

Symmetric == Permutations(Items)
=============================================================================
