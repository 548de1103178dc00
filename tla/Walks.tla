--------------------------------- MODULE Walks ---------------------------------
(***************************************************************************)
(* What is read from the graph of entities and from the trace graph:       *)
(* how rows become nodes and edges, the neighbours of an entity, the path  *)
(* between two, the overview with its pages and the walk from a claim to   *)
(* its sources.  Pure algorithms over a graph that does not change         *)
(* meanwhile; Knowledge, Provenance and TraceLinks have how it changes.    *)
(*                                                                         *)
(* A graph has a set of nodes and numbered edges <<source, target>>, in    *)
(* the order in which the store has got them.  An edge may end where there *)
(* is no node.                                                             *)
(***************************************************************************)
EXTENDS Naturals, FiniteSets, SequencesExt

CONSTANTS
    Entities,
    Pairs,          \* those that may be related
    Steps,          \* bound on the length of a walk, and on the trace graph
    Limits

ASSUME WalksAssumption ==
    /\ IsFiniteSet(Entities) /\ Pairs \subseteq Entities \X Entities
    /\ Steps \in Nat \ {0} /\ Limits \subseteq Nat \ {0}

-----------------------------------------------------------------------------
(* From rows to the graph                                                  *)

\* One document with one chunk, and the entities, which may share a type.  A mention
\* names the document and perhaps the chunk.
Bases == [visible : BOOLEAN, mention : [Entities -> {"no", "document", "chunk"}],
          type : [Entities -> {"person", "place"}], related : SUBSET Pairs]

\* Only documents in the knowledge base are nodes, and so are their chunks.
NodesOf(base) ==
    Entities \cup {"person", "place"}
             \cup (IF base.visible THEN {"document", "chunk"} ELSE {})

\* Mentions are edges whether or not their document is a node.
EdgesOf(base) ==
    (IF base.visible THEN <<<<"document", "chunk">>>> ELSE <<>>)
    \o SetToSeq({<<base.type[e], e>> : e \in Entities})
    \o SetToSeq({<<e, "document">> : e \in {e \in Entities : base.mention[e] # "no"}})
    \o SetToSeq({<<e, "chunk">> : e \in {e \in Entities : base.mention[e] = "chunk"}})
    \o SetToSeq(base.related)

Graph(nodes, edges) == [node |-> nodes, edge |-> edges]
Synced(base) == Graph(NodesOf(base), EdgesOf(base))

-----------------------------------------------------------------------------
(* Edges, in order, and what is behind them                                *)

Ends(e) == {e[1], e[2]}
OtherEnd(e, n) == IF e[1] = n THEN e[2] ELSE e[1]
\* _incident_edges, whichever way they point.
Incident(g, n) == {i \in DOMAIN g.edge : n \in Ends(g.edge[i])}

\* What a loop over edges has met before edge i.
Earlier(edges, i) == {j \in edges : j < i}

\* Edges, each with the node it leads to: the first ones to a node that is not known.
Firsts(to, known) ==
    {i \in DOMAIN to : to[i] \notin known /\ \A j \in Earlier(DOMAIN to, i) : to[j] # to[i]}

\* A queue keeps what has been taken from it: pop k takes its member k.  What is found
\* at numbered edges is appended in their order.
Behind(queue, found) ==
    queue \o [k \in 1..Cardinality(DOMAIN found) |->
                 found[CHOOSE i \in DOMAIN found :
                          Cardinality(Earlier(DOMAIN found, i)) = k - 1]]

-----------------------------------------------------------------------------
(* The store                                                               *)

\* One pop in neighbors: a full answer ends the scan of the node's edges, after the one
\* that filled it.  What is selected has been queued, with its depth.
Selected(queue) == {from.node : from \in ToSet(queue)}
Look(g, kinds, limit, s, k) ==
    LET from == s.queue[k]
        leads == {i \in Incident(g, from.node) : OtherEnd(g.edge[i], from.node) \in kinds}
        to == [i \in leads |-> OtherEnd(g.edge[i], from.node)]
        taken == {i \in leads :
                     LET met == Earlier(leads, i) IN
                     met = {} \/ Cardinality(Selected(s.queue) \cup {to[j] : j \in met}) < limit}
        sooner == {past.node : past \in {past \in ToSet(s.queue) : past.depth <= from.depth + 1}}
        new == Firsts([i \in taken |-> to[i]], sooner) IN
    [queue |-> Behind(s.queue, [i \in new |-> [node |-> to[i], depth |-> from.depth + 1]]),
     edges |-> s.edges \cup taken]

\* The walk ends when the answer has more than it may, so it may have one too many.
Neighbors(g, start, depth, limit, kinds) ==
    LET walk[k \in 0..Cardinality(g.node)] ==
            IF k = 0 THEN [queue |-> <<[node |-> start, depth |-> 0]>>, edges |-> {}]
            ELSE LET s == walk[k - 1] IN
                 IF k > Len(s.queue) \/ Cardinality(Selected(s.queue)) > limit THEN s
                 ELSE IF s.queue[k].depth >= depth THEN s
                 ELSE Look(g, g.node \cap kinds, limit, s, k)
        last == walk[Cardinality(g.node)]
    IN IF start \notin g.node THEN [nodes |-> {}, edges |-> {}]
       ELSE [nodes |-> Selected(last.queue), edges |-> last.edges]

\* One pop in path, which goes through ends without a node too, and then cannot show
\* them.
Try(g, target, s, k) ==
    LET from == s.queue[k]
        to == [i \in Incident(g, Last(from.nodes)) |-> OtherEnd(g.edge[i], Last(from.nodes))]
        here == [i \in DOMAIN to |-> [nodes |-> Append(from.nodes, to[i]),
                                      edges |-> Append(from.edges, i)]]
        goal == {i \in DOMAIN to : to[i] = target}
        new == Firsts(to, {Last(past.nodes) : past \in ToSet(s.queue)}) IN
    IF goal = {} THEN [s EXCEPT !.queue = Behind(@, [i \in new |-> here[i]])]
    ELSE [s EXCEPT !.found = {here[i] : i \in {i \in goal : Earlier(goal, i) = {}}}]

\* None, or one.
Path(g, source, target, depth) ==
    LET most == Cardinality(g.node \cup UNION {Ends(g.edge[i]) : i \in DOMAIN g.edge})
        walk[k \in 0..most] ==
            IF k = 0 THEN [queue |-> <<[nodes |-> <<source>>, edges |-> <<>>]>>, found |-> {}]
            ELSE LET s == walk[k - 1] IN
                 IF k > Len(s.queue) \/ s.found # {} THEN s
                 ELSE IF Len(s.queue[k].edges) >= depth THEN s
                 ELSE Try(g, target, s, k)
    IN IF {source, target} \subseteq g.node THEN walk[most].found ELSE {}
Failed(g, found) == \E path \in found : ~(ToSet(path.nodes) \subseteq g.node)

\* search for everything: the nodes with most edges first, then in the order of the
\* store.  A loop counts twice.
Degree(g, n) ==
    LET inner == {i \in DOMAIN g.edge : Ends(g.edge[i]) \subseteq g.node} IN
    Cardinality({i \in inner : g.edge[i][1] = n})
    + Cardinality({i \in inner : g.edge[i][2] = n})
Preferred(g, n) ==
    {m \in g.node : Degree(g, m) > Degree(g, n) \/ (Degree(g, m) = Degree(g, n) /\ m < n)}
Search(g, limit) == {n \in g.node : Cardinality(Preferred(g, n)) < limit}

-----------------------------------------------------------------------------
(* The trace graph                                                         *)

\* The edges between nodes that are shown.
Page(g, nodes, more) ==
    [nodes |-> nodes, more |-> more,
     edges |-> {i \in DOMAIN g.edge : Ends(g.edge[i]) \subseteq nodes}]

\* overview: the first page comes from the store, unless there is a filter or the
\* store fails ...
StorePage(g, limit) ==
    LET found == Search(g, limit + 1) IN
    Page(g, {n \in found : Cardinality(Preferred(g, n)) < limit}, Cardinality(found) > limit)

\* ... and the others from the rows, in the order of their identifiers.
RowPage(g, offset, limit) ==
    LET place(n) == Cardinality({m \in g.node : m <= n}) IN
    Page(g, {n \in g.node : offset < place(n) /\ place(n) <= offset + limit},
         \E n \in g.node : place(n) > offset + limit)

\* (fault) An edge that leads out of a full answer is dropped unnoticed.
FollowUnnoticed(g, ahead, max, s, k) ==
    LET from == {i \in DOMAIN g.edge : g.edge[i][3 - ahead] = s.queue[k]}
        new == Firsts([i \in from |-> g.edge[i][ahead]], ToSet(s.queue))
        room == {i \in new : Len(s.queue) + Cardinality(Earlier(new, i)) < max}
        queue == Behind(s.queue, [i \in room |-> g.edge[i][ahead]])
        taken == {i \in from : g.edge[i][ahead] \in ToSet(queue)} IN
    [queue |-> queue, edges |-> s.edges \cup taken, more |-> s.more]

\* One pop in trace, which goes along the edges or against them; edges to nodes for
\* which there is no room are left out.
Follow(g, ahead, max, s, k) ==
    LET from == {i \in DOMAIN g.edge : g.edge[i][3 - ahead] = s.queue[k]}
        new == Firsts([i \in from |-> g.edge[i][ahead]], ToSet(s.queue))
        room == {i \in new : Len(s.queue) + Cardinality(Earlier(new, i)) < max}
        queue == Behind(s.queue, [i \in room |-> g.edge[i][ahead]])
        taken == {i \in from : g.edge[i][ahead] \in ToSet(queue)} IN
    [queue |-> queue, edges |-> s.edges \cup taken, more |-> s.more \/ taken # from]

Trace(g, start, ahead, max) ==
    LET walk[k \in 0..Cardinality(g.node)] ==
            IF k = 0 THEN [queue |-> <<start>>, edges |-> {}, more |-> FALSE]
            ELSE LET s == walk[k - 1] IN
                 IF k > Len(s.queue) THEN s ELSE Follow(g, ahead, max, s, k)
        last == walk[Cardinality(g.node)]
    IN [nodes |-> ToSet(last.queue), edges |-> last.edges, more |-> last.more]

-----------------------------------------------------------------------------
(* Properties, over small graphs                                           *)

\* What can be reached over edges that may be taken, with the number of steps.
Around(g, start, kinds) ==
    LET ball[k \in 0..Steps] ==
            IF k = 0 THEN {start}
            ELSE LET inner == ball[k - 1] IN
                 inner \cup {n \in kinds : \E i \in Incident(g, n) :
                                OtherEnd(g.edge[i], n) \in inner}
    IN ball

\* The neighbours of an entity are at most one more than were asked for, each has an
\* edge to another one, and if they are fewer than the limit none is missing.
NeighborsComplete ==
    \A base \in Bases, e \in Entities, depth \in 1..Steps, limit \in Limits :
        LET g == Synced(base) IN
        \A kinds \in {g.node, Entities} :
            LET out == Neighbors(g, e, depth, limit, kinds)
                ball == Around(g, e, g.node \cap kinds) IN
            /\ Cardinality(out.nodes) <= limit + 1
            /\ out.nodes \subseteq ball[depth] /\ e \in out.nodes
            /\ out.nodes = {e} \cup UNION {Ends(g.edge[i]) : i \in out.edges}
            /\ Cardinality(out.nodes) < limit => out.nodes = ball[depth]

\* A path that is shown is a shortest one, none is shown only if there is none as short
\* as was asked for, and the answer fails only for documents outside the knowledge base.
PathsAreShortest ==
    \A base \in Bases, s \in Entities, t \in Entities, depth \in 1..Steps :
        LET g == Synced(base)
            found == Path(g, s, t, depth)
            ball == Around(g, s, g.node \cup {"document", "chunk"}) IN
        s # t =>
            /\ found = {} <=> t \notin ball[depth]
            /\ Failed(g, found) => ~base.visible
            /\ \A p \in found :
                  /\ t \notin ball[Len(p.edges) - 1] /\ Last(p.nodes) = t
                  /\ \A k \in DOMAIN p.edges :
                        Ends(g.edge[p.edges[k]]) = {p.nodes[k], p.nodes[k + 1]}

\* Edge (s - 1) * Steps + t leads from s to t.
TraceGraphs ==
    {Graph(1..Steps, [i \in some |-> <<((i - 1) \div Steps) + 1, ((i - 1) % Steps) + 1>>]) :
        some \in SUBSET (1..Steps * Steps)}

\* A trace has every edge between the nodes it shows, and if it does not say that there
\* is more it has every node that can be reached.
TracesClose ==
    \A g \in TraceGraphs, start \in 1..Steps, ahead \in 1..2, max \in Limits :
        LET out == Trace(g, start, ahead, max) IN
        /\ Cardinality(out.nodes) <= max /\ start \in out.nodes
        /\ out.edges = {i \in DOMAIN g.edge : Ends(g.edge[i]) \subseteq out.nodes}
        /\ ~out.more => \A i \in DOMAIN g.edge :
                           g.edge[i][3 - ahead] \in out.nodes => g.edge[i][ahead] \in out.nodes

\* The pages of rows have every node once, and a first page from the store has a node
\* without edges only when every node with one is on it.
OverviewsComplete ==
    \A g \in TraceGraphs, limit \in Limits :
        LET pages == [k \in 1..Steps |-> RowPage(g, (k - 1) * limit, limit)]
            first == StorePage(g, limit) IN
        /\ \A n \in g.node : Cardinality({k \in 1..Steps : n \in pages[k].nodes}) = 1
        /\ \A k \in 1..Steps : pages[k].more <=> \E j \in k + 1..Steps : pages[j].nodes # {}
        /\ \A n \in first.nodes, m \in g.node \ first.nodes : Degree(g, n) >= Degree(g, m)
        /\ first.more <=> first.nodes # g.node

GraphRead == NeighborsComplete /\ PathsAreShortest /\ TracesClose /\ OverviewsComplete
=============================================================================
