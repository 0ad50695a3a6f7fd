---------------------------- MODULE RouteGraphs ----------------------------
(***************************************************************************)
(* The graphs a record may carry instead of bytes, and how the receiver    *)
(* carries them out (shared_protocol/src/state.rs): predictive             *)
(* reconstruction graphs, graphs of substrate objects, hybrid routes,      *)
(* and assembly bodies; and the schemas that both ends turn into graphs    *)
(* (server/src/lib.rs, client/src/lib.rs).                                 *)
(*                                                                         *)
(* What the receiver holds is a record `held' of partial functions, one    *)
(* for each kind of object that a reference can name.                      *)
(***************************************************************************)
EXTENDS Catalog

Lookup(store, id) == IF id \in DOMAIN store THEN Done(store[id]) ELSE Failed

\* The bytes of the parts one after the other, an error if one of them is.
JoinAll(parts) ==
    IF \A i \in DOMAIN parts : parts[i].ok
    THEN Done(FlattenSeq([i \in DOMAIN parts |-> parts[i].value]))
    ELSE Failed

(***************************************************************************)
(* Predictive reconstruction graphs.  A node is found by its identifier,   *)
(* so that a graph is a function of them.                                  *)
(***************************************************************************)
PrgNode(kind, bytes, ref, children) ==
    [kind |-> kind, len |-> 0, bytes |-> bytes, ref |-> ref, children |-> children,
     index |-> 0, times |-> 0, permutation |-> <<>>, offset |-> 0, remove |-> 0]

PrgGraph(root, cap, len, nodes) == [root |-> root, cap |-> cap, len |-> len, nodes |-> nodes]

RefStore == [AtomRef |-> "substrate", RangeRef |-> "substrate", BundleRef |-> "substrate",
             AssemblyRef |-> "assembly", Expand |-> "assembly", TransformRef |-> "transform",
             EpisodeRef |-> "episode"]

\* What a node makes of the results of its children.
NodeResult(node, parts) ==
    CASE node.kind \in {"Concat", "Commit", "Guard", "Branch"} -> JoinAll(parts)
      [] node.kind = "Repeat" -> JoinAll([i \in 1 .. node.times |-> parts[1]])
      [] node.kind = "Select" -> parts[1]
      [] node.kind = "Permute" ->
            IF \A i \in DOMAIN node.permutation : node.permutation[i] + 1 \in DOMAIN parts
            THEN JoinAll([i \in DOMAIN node.permutation |-> parts[node.permutation[i] + 1]])
            ELSE Failed
      [] node.kind = "Patch" -> Splice(parts[1].value, node.offset, node.remove, node.bytes)

Single == {"Repeat", "Patch", "Select"}

\* The children a node is evaluated over, the first, the selected or all of them.
Evaluated(node) ==
    LET at == IF node.kind = "Select" THEN node.index + 1 ELSE 1
    IN  IF node.kind \notin Single THEN node.children
        ELSE IF at \in DOMAIN node.children THEN <<node.children[at]>> ELSE <<>>

\* Faulty: the node at the depth cap is cut off.
FaultyWithinDepth(graph, active) == Cardinality(active) < graph.cap

WithinDepth(graph, active) == Cardinality(active) <= graph.cap

SchemaOutput(outputs, id) == IF id \in DOMAIN outputs THEN outputs[id] ELSE Failed

\* What a node that is not cut off is worth: a leaf, what it says or refers to,
\* another node, what it makes of its children.  `outputs' has what the schemas
\* that a node may refer to are worth.
NodeValue(node, held, outputs, parts) ==
    CASE node.kind \in {"Literal", "SlotFill"} -> Done(node.bytes)
      [] node.kind = "Noop" -> Done(<<>>)
      [] node.kind \in DOMAIN RefStore -> Lookup(held[RefStore[node.kind]], node.ref)
      [] node.kind = "SchemaRef" -> SchemaOutput(outputs, node.ref)
      [] OTHER -> IF /\ node.kind \in Single => parts # <<>>
                     /\ \A i \in DOMAIN parts : parts[i].ok
                  THEN NodeResult(node, parts) ELSE Failed

\* What a node is worth when `below' has the worth of every node below it; its
\* length may be announced.
NodeWorth(graph, id, held, outputs, below) ==
    LET node == graph.nodes[id]
        children == Evaluated(node)
        parts == [i \in DOMAIN children |->
                    IF children[i] \in DOMAIN graph.nodes THEN below[children[i]] ELSE Failed]
        result == NodeValue(node, held, outputs, parts)
    IN  IF result.ok /\ (node.len # 0 => Len(result.value) = node.len) THEN result ELSE Failed

\* execute_prg_node: `active' is the path from the root, and its length the depth.
execute_prg_nodes(graph, held, outputs) ==
    LET ids == DOMAIN graph.nodes
        Run[active \in SUBSET ids] ==
          [id \in ids |-> IF WithinDepth(graph, active) /\ id \notin active
                          THEN NodeWorth(graph, id, held, outputs, Run[active \cup {id}])
                          ELSE Failed]
    IN  Run[{}]

\* execute_prg, with PredictiveReconstructionGraph::validate before it.
execute_prg(graph, held, outputs) ==
    IF graph.root \notin DOMAIN graph.nodes THEN Failed
    ELSE LET out == execute_prg_nodes(graph, held, outputs)[graph.root]
         IN  IF out.ok /\ Len(out.value) = graph.len THEN out ELSE Failed

(***************************************************************************)
(* Schemas.  Only the identifiers of a schema's nodes and their references *)
(* survive in the graph: prg_node_from_schema_node leaves the children     *)
(* empty, and the root is the first node.                                  *)
(***************************************************************************)
prg_node_from_schema_node(node) ==
    LET kind == CASE node.kind = "Assembly" -> "AssemblyRef"
                  [] node.kind = "Transform" -> "TransformRef"
                  [] node.kind = "Schema" -> "SchemaRef"
                  [] node.kind \in {"EpisodeHint", "ReplayHint"} -> "EpisodeRef"
                  [] node.kind = "ExactRange" -> "RangeRef"
                  [] node.kind = "ExactBundle" -> "BundleRef"
                  [] OTHER -> "AtomRef"
    IN  [PrgNode(kind, <<>>, node.ref, <<>>) EXCEPT !.len = node.len]

reconstruct_graph_from_schema(schema) ==
    PrgGraph(1, schema.cap, schema.len,
             [i \in DOMAIN schema.nodes |-> prg_node_from_schema_node(schema.nodes[i])])

\* SchemaDefPayload::new: the node table in order, and an edge for every child.
SchemaDefPayload(graph) ==
    [table |-> graph.nodes, cap |-> graph.cap, len |-> graph.len,
     edges |-> FlattenSeq([id \in DOMAIN graph.nodes |->
                             [k \in DOMAIN graph.nodes[id].children |-> <<id, graph.nodes[id].children[k]>>]])]

\* The graph that both ends make of a definition: edges that the node table
\* lacks are added, and the root is the first node that is nobody's child.
schema_payload_graph(payload) ==
    LET AddEdge(nodes, edge) ==
          IF edge[1] \in DOMAIN nodes /\ edge[2] \notin ToSet(nodes[edge[1]].children)
          THEN [nodes EXCEPT ![edge[1]].children = Append(@, edge[2])] ELSE nodes
        nodes == FoldLeft(AddEdge, payload.table, payload.edges)
        orphans == {id \in DOMAIN nodes : \A i \in DOMAIN payload.edges : payload.edges[i][2] # id}
        root == IF orphans = {} THEN 1 ELSE CHOOSE id \in orphans : \A other \in orphans : id <= other
    IN  PrgGraph(root, payload.cap, payload.len, nodes)

\* resolve_schema_output_inner, for every schema the receiver holds: `active' are
\* the schemas being expanded.
resolve_schema_output(held) ==
    LET ids == DOMAIN held.schema
        Output[active \in SUBSET ids] ==
          [id \in ids |->
             IF id \in active THEN Failed
             ELSE execute_prg(schema_payload_graph(held.schema[id]), held, Output[active \cup {id}])]
    IN  Output[{}]

(***************************************************************************)
(* Graphs of substrate objects: one object, or a node that joins them.     *)
(***************************************************************************)
SubstrateObject(ref, len) == [ref |-> ref, len |-> len]

TotalLen(objects) == FoldSeq(LAMBDA o, n : o.len + n, 0, objects)

from_objects(objects) ==
    LET material == [i \in DOMAIN objects |-> [kind |-> "Material", object |-> objects[i], len |-> objects[i].len]]
    IN  [len |-> TotalLen(objects), materials |-> material,
         children |-> IF Len(objects) > 1 THEN [i \in DOMAIN objects |-> i] ELSE <<>>]

execute_substrate_route_graph(graph, substrate) ==
    LET Material(i) ==
          LET out == Lookup(substrate, graph.materials[i].object.ref)
          IN  IF out.ok /\ Len(out.value) = graph.materials[i].len THEN out ELSE Failed
        out == IF graph.children = <<>> THEN Material(1)
               ELSE JoinAll([k \in DOMAIN graph.children |-> Material(graph.children[k])])
    IN  IF graph.materials # <<>> /\ out.ok /\ Len(out.value) = graph.len THEN out ELSE Failed

(***************************************************************************)
(* Assembly bodies.                                                        *)
(***************************************************************************)
expand_assembly_body(body, substrate) ==
    JoinAll([i \in DOMAIN body |-> IF body[i].kind = "SubstrateSpan" THEN Lookup(substrate, body[i].ref)
                                   ELSE Done(body[i].bytes)])

(***************************************************************************)
(* Hybrid routes: components one after the other.                          *)
(***************************************************************************)
execute_hybrid_route(route, held) ==
    LET Add(out, c) ==
          LET more == CASE c.kind = "Literal" -> Done(c.bytes)
                        [] c.kind = "Substrate" -> Lookup(held.substrate, c.ref)
                        [] c.kind = "SubstrateGraph" -> execute_substrate_route_graph(c.graph, held.substrate)
                        [] c.kind = "Assembly" -> Lookup(held.assembly, c.ref)
                        [] c.kind = "Transform" -> Lookup(held.transform, c.ref)
                        [] c.kind = "DictionaryTokens" ->
                             LET entries == Lookup(held.dictionary, c.ref)
                             IN  IF entries.ok THEN JoinAll([i \in DOMAIN c.tokens |-> Lookup(entries.value, c.tokens[i])])
                                 ELSE Failed
                        [] c.kind = "Schema" ->
                             execute_prg(c.graph, held, resolve_schema_output(held))
          IN  CASE ~ out.ok -> Failed
                [] out.ok /\ c.kind = "ResidualPatch" -> Splice(out.value, c.offset, c.remove, c.bytes)
                [] out.ok /\ c.kind # "ResidualPatch" -> JoinAll(<<out, more>>)
        out == FoldLeft(Add, Done(<<>>), route.components)
    IN  IF out.ok /\ Len(out.value) = route.len THEN out ELSE Failed

=============================================================================
