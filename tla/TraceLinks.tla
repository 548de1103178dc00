------------------------------ MODULE TraceLinks ------------------------------
(***************************************************************************)
(* The versions of one provenance link, that is of one source, target and  *)
(* relation.  TraceLinkService.create inserts a new edge above the latest, *)
(* which the new one supersedes; review raises an edge's version in place, *)
(* under an optimistic lock, and appends to its history.  An edge's        *)
(* identifier is derived from the version it is created with, and versions *)
(* are unique within a link.  Request handlers (plain def, so in threads)  *)
(* and the task worker do this at the same time, and graph queries project *)
(* the latest edge into the graph store of the process.                    *)
(*                                                                         *)
(* A transaction's rows are invisible until it commits, and whoever would  *)
(* collide with them waits, so an insert or update is one step with its    *)
(* commit.  Confidence, rationale, metadata and evidence are one content.  *)
(***************************************************************************)
EXTENDS Integers, Sequences

CONSTANTS
    Sessions,       \* database sessions that create and review
    Readers,        \* sessions that project the link into the graph store
    Contents,       \* what an edge may say
    MaxVersion,     \* bound on version_no
    MaxRestarts,    \* bound on process restarts
    NoContent

ASSUME TraceLinksAssumption ==
    MaxVersion \in Nat \ {0} /\ MaxRestarts \in Nat /\ NoContent \notin Contents

VARIABLES
    version,    \* version_no of each edge, 0 before it is inserted
    status,     \* its review_status
    content,
    parent,     \* supersedes_id
    history,    \* trace_edge_review rows of each edge
    at,         \* what each session is doing
    seen,       \* edge and version it relies on
    want,       \* content it is about to insert
    previous,   \* review_status it has read
    raced,      \* edges inserted two reviews after their predecessor was read
    graph,      \* edges in the graph store, version 0 for none
    taken,      \* row a reader has loaded and not yet projected
    crossed,    \* have two projections overlapped since the store was made?
    restarts

edgeVars == <<version, status, content, parent, history>>
sessionVars == <<at, seen, want, previous>>
graphVars == <<graph, taken, crossed>>
vars == <<edgeVars, sessionVars, graphVars, raced, restarts>>

\* An edge is named by the version it was created with.
Edges == 1..MaxVersion
NoEdge == 0
ReviewStatus == {"pending_review", "confirmed", "rejected"}
\* new_status of confirm, reject, mark_conflict and reset_pending.
Decisions == ReviewStatus
Existing == {e \in Edges : version[e] # 0}
VersionOf(e) == IF e = NoEdge THEN 0 ELSE version[e]
Projected(e) == [edge |-> e, version |-> version[e], status |-> status[e]]
Nothing == [edge |-> NoEdge, version |-> 0, status |-> "pending_review"]

IsLatest(e) ==
    IF Existing = {} THEN e = NoEdge
    ELSE e \in Existing /\ \A f \in Existing : version[f] <= version[e]

Init ==
    /\ version = [e \in Edges |-> 0]
    /\ status = [e \in Edges |-> "pending_review"]
    /\ content = [e \in Edges |-> NoContent]
    /\ parent = [e \in Edges |-> NoEdge]
    /\ history = [e \in Edges |-> <<>>]
    /\ at = [c \in Sessions |-> "idle"]
    /\ seen = [c \in Sessions |-> [edge |-> NoEdge, version |-> 0]]
    /\ want = [c \in Sessions |-> NoContent]
    /\ previous = [c \in Sessions |-> "pending_review"]
    /\ raced = {}
    /\ graph = [e \in Edges |-> Nothing]
    /\ taken = [r \in Readers |-> Nothing]
    /\ crossed = FALSE
    /\ restarts = 0

\* The session has nothing left to do with the link.
Release(c) ==
    /\ at' = [at EXCEPT ![c] = "idle"]
    /\ seen' = [seen EXCEPT ![c] = [edge |-> NoEdge, version |-> 0]]
    /\ want' = [want EXCEPT ![c] = NoContent]
    /\ previous' = [previous EXCEPT ![c] = "pending_review"]

-----------------------------------------------------------------------------
(* create                                                                  *)

\* The latest edge is read; if it says the same, that is all.
ReadLatest(c, k) ==
    /\ at[c] = "idle"
    /\ \E e \in Edges \cup {NoEdge} :
          /\ IsLatest(e) /\ (e # NoEdge => content[e] # k)
          /\ seen' = [seen EXCEPT ![c] = [edge |-> e, version |-> VersionOf(e)]]
    /\ at' = [at EXCEPT ![c] = "create"]
    /\ want' = [want EXCEPT ![c] = k]
    /\ UNCHANGED <<edgeVars, previous, graphVars, raced, restarts>>

\* The primary key and uq_trace_edge_version allow the insert.
Free(n) == n \in Edges /\ version[n] = 0 /\ \A e \in Edges : version[e] # n

InsertEdge(c, s) ==
    LET n == seen[c].version + 1 IN
    /\ at[c] = "create" /\ Free(n)
    /\ version' = [version EXCEPT ![n] = n]
    /\ status' = [status EXCEPT ![n] = s]
    /\ content' = [content EXCEPT ![n] = want[c]]
    /\ parent' = [parent EXCEPT ![n] = seen[c].edge]
    /\ raced' = IF VersionOf(seen[c].edge) > n THEN raced \cup {n} ELSE raced
    /\ Release(c)
    /\ UNCHANGED <<history, graphVars, restarts>>

-----------------------------------------------------------------------------
(* review                                                                  *)

\* The caller passes a version that it has seen the edge at.
ReadEdge(c, e, n) ==
    /\ at[c] = "idle" /\ e \in Existing /\ n \in e..version[e]
    /\ at' = [at EXCEPT ![c] = "review"]
    /\ seen' = [seen EXCEPT ![c] = [edge |-> e, version |-> n]]
    /\ previous' = [previous EXCEPT ![c] = status[e]]
    /\ UNCHANGED <<edgeVars, want, graphVars, raced, restarts>>

SetStatus(e, n, c, s) ==
    /\ version' = [version EXCEPT ![e] = n]
    /\ status' = [status EXCEPT ![e] = s]
    /\ history' = [history EXCEPT ![e] = Append(@, [previous |-> previous[c], new |-> s])]
    /\ Release(c)
    /\ UNCHANGED <<content, parent, graphVars, raced, restarts>>

\* (fault) The update is not guarded by the version.
UpdateEdgeUnguarded(c, s) ==
    LET e == seen[c].edge
        n == version[e] + 1
    IN
    /\ at[c] = "review"
    /\ n \in Edges /\ \A f \in Edges : version[f] # n
    /\ SetStatus(e, n, c, s)

\* (fault) Two edges of the link may have the same version.
UpdateEdgeColliding(c, s) ==
    LET e == seen[c].edge
        n == seen[c].version + 1
    IN
    /\ at[c] = "review" /\ version[e] = seen[c].version
    /\ n \in Edges
    /\ SetStatus(e, n, c, s)

\* The row is changed if it still has the caller's version.
UpdateEdge(c, s) ==
    LET e == seen[c].edge
        n == seen[c].version + 1
    IN
    /\ at[c] = "review" /\ version[e] = seen[c].version
    /\ n \in Edges /\ \A f \in Edges : version[f] # n
    /\ SetStatus(e, n, c, s)

\* A collision, a stale version or anything else undoes the transaction.
Rollback(c) ==
    /\ at[c] # "idle"
    /\ Release(c)
    /\ UNCHANGED <<edgeVars, graphVars, raced, restarts>>

-----------------------------------------------------------------------------
(* The projection                                                          *)

\* sync_workspace reads the latest edge ...
ReadRows(r) ==
    /\ taken[r] = Nothing
    /\ \E e \in Existing : IsLatest(e) /\ taken' = [taken EXCEPT ![r] = Projected(e)]
    /\ crossed' = (crossed \/ \E q \in Readers : taken[q] # Nothing)
    /\ UNCHANGED <<edgeVars, sessionVars, graph, raced, restarts>>

\* (fault) The version is read again when the edge is written.
UpsertRefreshed(r) ==
    /\ taken[r] # Nothing
    /\ graph' = [graph EXCEPT ![taken[r].edge] = [taken[r] EXCEPT !.version = version[taken[r].edge]]]
    /\ taken' = [taken EXCEPT ![r] = Nothing]
    /\ UNCHANGED <<edgeVars, sessionVars, crossed, raced, restarts>>

\* ... and upserts it by identifier.
Upsert(r) ==
    /\ taken[r] # Nothing
    /\ graph' = [graph EXCEPT ![taken[r].edge] = taken[r]]
    /\ taken' = [taken EXCEPT ![r] = Nothing]
    /\ UNCHANGED <<edgeVars, sessionVars, crossed, raced, restarts>>

\* The graph store and all sessions live in the process.
Restart ==
    /\ restarts < MaxRestarts /\ restarts' = restarts + 1
    /\ graph' = [e \in Edges |-> Nothing]
    /\ taken' = [r \in Readers |-> Nothing]
    /\ crossed' = FALSE
    /\ at' = [c \in Sessions |-> "idle"]
    /\ seen' = [c \in Sessions |-> [edge |-> NoEdge, version |-> 0]]
    /\ want' = [c \in Sessions |-> NoContent]
    /\ previous' = [c \in Sessions |-> "pending_review"]
    /\ UNCHANGED <<edgeVars, raced>>

-----------------------------------------------------------------------------

Create(c) == (\E k \in Contents : ReadLatest(c, k)) \/ (\E s \in ReviewStatus : InsertEdge(c, s))
Review(c) == \/ \E e \in Edges : \E n \in Edges : ReadEdge(c, e, n)
             \/ \E s \in Decisions : UpdateEdge(c, s)
Project(r) == ReadRows(r) \/ Upsert(r)

Next == \/ \E c \in Sessions : Create(c) \/ Review(c) \/ Rollback(c)
        \/ \E r \in Readers : Project(r)
        \/ Restart

Spec == Init /\ [][Next]_vars

-----------------------------------------------------------------------------
(* Properties                                                              *)

Row == [edge : Edges \cup {NoEdge}, version : 0..MaxVersion, status : ReviewStatus]
Histories == Seq([previous : ReviewStatus, new : ReviewStatus])

TypeOK ==
    /\ version \in [Edges -> 0..MaxVersion]
    /\ status \in [Edges -> ReviewStatus]
    /\ content \in [Edges -> Contents \cup {NoContent}]
    /\ parent \in [Edges -> Edges \cup {NoEdge}]
    /\ history \in [Edges -> Histories]
    /\ at \in [Sessions -> {"idle", "create", "review"}]
    /\ seen \in [Sessions -> [edge : Edges \cup {NoEdge}, version : 0..MaxVersion]]
    /\ want \in [Sessions -> Contents \cup {NoContent}]
    /\ previous \in [Sessions -> ReviewStatus]
    /\ raced \subseteq Edges
    /\ graph \in [Edges -> Row] /\ taken \in [Readers -> Row] /\ crossed \in BOOLEAN
    /\ restarts \in 0..MaxRestarts

\* However often edges are reviewed, an edge created later has the higher version:
\* the edge that queries and the projection take for the latest is the one created
\* last, never one that has been superseded.  Two reviews between the reading of a
\* predecessor and the insert break this.
LatestIsNewest ==
    raced = {} => \A e, f \in Existing : e < f => version[e] < version[f]

\* Concurrent creators do not fork the chain: an edge has one successor at most, and
\* there is one first edge.
OneSuccessor ==
    raced = {} => \A e, f \in Existing : parent[e] = parent[f] => e = f

\* The reviews of an edge follow one another: each starts from the status the one
\* before has left, none is missing, and the last one is in force.
ReviewsAreSerial ==
    \A e \in Existing :
       /\ version[e] = e + Len(history[e])
       /\ \A i \in 2..Len(history[e]) : history[e][i].previous = history[e][i - 1].new
       /\ history[e] # <<>> => status[e] = history[e][Len(history[e])].new

\* The status an edge had at version n.
StatusAt(e, n) ==
    IF n = e + Len(history[e]) THEN status[e] ELSE history[e][n - e + 1].previous

\* The graph store shows an edge as it was at the version it shows, whichever of two
\* projections was written last; and unless two have overlapped, nobody is about to
\* write an older version of an edge than the store has.
ProjectedWasTrue ==
    /\ \A e \in Edges : graph[e] # Nothing =>
           /\ graph[e].version \in e..version[e]
           /\ graph[e].status = StatusAt(e, graph[e].version)
    /\ \A r \in Readers : ~crossed /\ taken[r] # Nothing =>
           graph[taken[r].edge].version <= taken[r].version

=============================================================================
