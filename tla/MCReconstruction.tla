-------------------------- MODULE MCReconstruction --------------------------
(* Byte strings over two letters and two delimiters; graphs of three nodes. *)
EXTENDS Reconstruction

Strings(n) == UNION {[1 .. k -> {"a", "b", ","}] : k \in 1 .. n}

MCPayloads == Strings(3) \cup {<<"a", ",", "b", ",", "a">>, <<"b", ",", "a", ",", "a">>, <<"a", "b", "a", "b", "a", "b">>,
                               <<"a", "|", "a">>, <<"a", "b", "|", "a", "b">>, <<"b", "a", "a", "b">>,
                               <<"a", "a", "b", "b">>, <<"a", ",", ",", "a">>}

MCMaterials == {<<"a">>, <<"a", "b">>, <<"b", "a", ",">>, <<"a", ",", ",", "b">>,
                <<"a", "b", "b", "a">>, <<"a", ",", "b", ",", "a">>}

Inner(kind, children) == PrgNode(kind, <<>>, "none", children)

Leaves == {PrgNode("Literal", <<"a">>, "none", <<>>), [PrgNode("Literal", <<"a", "b">>, "none", <<>>) EXCEPT !.len = 1],
           PrgNode("AtomRef", <<>>, "known", <<>>), PrgNode("AtomRef", <<>>, "unknown", <<>>)}

Roots == {Inner("Concat", <<2, 3>>), Inner("Concat", <<2, 2>>), Inner("Concat", <<1>>), Inner("Concat", <<>>),
          [Inner("Repeat", <<2>>) EXCEPT !.times = 2], [Inner("Repeat", <<3, 1>>) EXCEPT !.times = 0],
          [Inner("Select", <<2, 3>>) EXCEPT !.index = 1], [Inner("Select", <<2>>) EXCEPT !.index = 1],
          [Inner("Permute", <<2, 3>>) EXCEPT !.permutation = <<1, 0, 1>>],
          [PrgNode("Patch", <<"b">>, "none", <<2>>) EXCEPT !.offset = 1]}

Middles == {Inner("Concat", <<3, 3>>), Inner("Concat", <<1>>), Inner("Repeat", <<>>),
            [PrgNode("Patch", <<"b">>, "none", <<3>>) EXCEPT !.remove = 1], PrgNode("SchemaRef", <<>>, "s1", <<>>),
            PrgNode("SchemaRef", <<>>, "s2", <<>>)}

Thirds == Leaves \cup {Inner("Concat", <<2>>), Inner("Guard", <<4>>)}

MCGraphs == {PrgGraph(1, cap, len, <<first, second, third>>) :
                cap \in 0 .. 2, len \in 1 .. 3, first \in Roots, second \in Middles \cup Leaves, third \in Thirds}

Schema(kind, ref) ==
    SchemaDefPayload(reconstruct_graph_from_schema([cap |-> 1, len |-> 1, nodes |-> <<[kind |-> kind, ref |-> ref, len |-> 1]>>]))

Layer(weights, divisor, relu) ==
    [weights |-> weights, bias |-> [o \in DOMAIN weights |-> 1], input_zero |-> 2, output_zero |-> 1,
     divisor |-> divisor, relu |-> relu, min |-> -9, max |-> 9]

MCFamily == [analysis |-> <<Layer(<<<<1, 2, -1>>, <<-2, 1, 1>>>>, 1, TRUE), Layer(<<<<1, 1>>, <<1, -1>>>>, 2, FALSE)>>,
             synthesis |-> <<Layer(<<<<2, 1>>, <<1, 0>>, <<-1, 1>>>>, 1, FALSE)>>,
             levels |-> <<-2, 0, 3>>, small_range |-> 1, sparse_percent |-> 50]

MCItems == {[kind |-> kind, bytes |-> bytes] :
                kind \in {"Json", "Binary"},
                bytes \in {<<>>, <<7>>, <<0, 3>>, <<1, 2, 3>>, <<4, 4, 5, 5>>, <<5, 7, 0, 2, 6>>, <<6, 0, 1, 7, 7, 7>>,
                           <<2, 2, 1, 2, 2, 1, 6>>}}

MCBatches == UNION {[1 .. n -> {item \in MCItems : Len(item.bytes) < 4}] : n \in 0 .. 3}

MCHeld == [substrate |-> [id \in {"known"} |-> <<"a">>], assembly |-> << >>, transform |-> << >>, episode |-> << >>,
           dictionary |-> << >>,
           schema |-> [s1 |-> Schema("AtomFragment", "known"), s2 |-> Schema("Schema", "s2")]]
=============================================================================
