-------------------------- MODULE DependencyGraph --------------------------
(***************************************************************************)
(* The dependency graph of the Zig runtime's features                      *)
(* (dependency_graph.zig): validate checks a configuration against a list  *)
(* of edges and then searches the required edges for a cycle, depth first  *)
(* with three colours.  The state is the input: a configuration and a list *)
(* of edges that grows.                                                    *)
(***************************************************************************)
EXTENDS Naturals, SequencesExt, Relation

CONSTANTS FeatureSeq,  \* the features in the order of their enum
          MaxEdges     \* bound: edges of the graph

VARIABLES enabled, edges

vars == <<enabled, edges>>

Feature == ToSet(FeatureSeq)
Edge == [from : Feature, to : Feature, relation : {"required", "optional", "conflicts"}]

Init == enabled \in SUBSET Feature /\ edges = <<>>

\* The caller's list of edges.
AddEdge(e) ==
    /\ Len(edges) < MaxEdges
    /\ edges' = Append(edges, e)
    /\ UNCHANGED enabled

Next == \E e \in Edge : AddEdge(e)

Spec == Init /\ [][Next]_vars

-----------------------------------------------------------------------------
\* The result of a search that has met a cycle, in place of the colours.
DependencyCycle == <<>>

SeenBefore(colour) == colour # 0
OnPath(colour) == colour = 1

RECURSIVE visit(_, _)
visit(node, colors) ==
    CASE OnPath(colors[node]) -> DependencyCycle
      [] colors[node] = 2 -> colors
      [] OTHER ->
           LET required(e) == e.relation = "required" /\ e.from = node
               try(found, e) == IF found = DependencyCycle THEN found ELSE visit(e.to, found)
               after == FoldLeft(try, [colors EXCEPT ![node] = 1], SelectSeq(edges, required))
           IN  IF after = DependencyCycle THEN after ELSE [after EXCEPT ![node] = 2]

detectCycles ==
    LET from(found, f) == IF found # DependencyCycle /\ found[f] = 0 THEN visit(f, found) ELSE found
    IN  FoldLeft(from, [f \in Feature |-> 0], FeatureSeq) = DependencyCycle

Missing(e) == e.relation = "required" /\ e.from \in enabled /\ e.to \notin enabled
Conflicting(e) == e.relation = "conflicts" /\ {e.from, e.to} \subseteq enabled

validate ==
    /\ \A i \in DOMAIN edges : ~Missing(edges[i]) /\ ~Conflicting(edges[i])
    /\ ~detectCycles

-----------------------------------------------------------------------------
Requires == [f, g \in Feature |->
    [from |-> f, to |-> g, relation |-> "required"] \in ToSet(edges)]

\* The search finds a cycle exactly when some feature requires itself, directly
\* or through others, whatever the order of the edges and however many paths lead
\* to one feature.
CyclesFound == detectCycles <=> \E f \in Feature : TransitiveClosure(Requires, Feature)[f, f]

\* "Required edges define bootstrap order": the features of a configuration that
\* validate accepts can be started one after the other, each one after
\* everything it requires.
ValidatedBoots ==
    validate => \E order \in [enabled -> 1..Len(FeatureSeq)] :
        \A f \in enabled, g \in Feature :
            Requires[f, g] => g \in enabled /\ order[g] < order[f]
=============================================================================
