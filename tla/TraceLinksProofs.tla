--------------------------- MODULE TraceLinksProofs ---------------------------
(***************************************************************************)
(* The versions of a link, for any number of sessions and readers and any  *)
(* bound.  The order of versions rests on what a creating session knows:   *)
(* an edge inserted since it read its predecessor has either taken the     *)
(* identifier it wants or been preceded by a review of that predecessor.   *)
(* The histories rest on the optimistic lock, and the projection on the    *)
(* histories: what was true of an edge at a version stays true of it.      *)
(***************************************************************************)
EXTENDS TraceLinks, TLAPS

UniqueVersions == \A e, f \in Existing : version[e] = version[f] => e = f

\* An edge starts at the version that names it.
FromBirth == \A e \in Existing : e <= version[e] /\ parent[e] < e

Predecessor(c) ==
    /\ seen[c].edge \in Existing \cup {NoEdge}
    /\ seen[c].edge <= seen[c].version
    /\ seen[c].version <= VersionOf(seen[c].edge)

\* What a creating session has read is overtaken by nothing it would not collide with.
CreatorsCollide ==
    \A c \in Sessions : at[c] = "create" =>
        /\ Predecessor(c)
        /\ raced = {} => \A f \in Existing : f > seen[c].edge =>
              \/ seen[c].version + 1 \in Existing
              \/ VersionOf(seen[c].edge) > seen[c].version

\* A reviewing session knows the status of the version it names.
ReviewersKnow ==
    \A c \in Sessions : at[c] = "review" =>
        /\ seen[c].edge \in Existing
        /\ seen[c].version <= version[seen[c].edge]
        /\ seen[c].version = version[seen[c].edge] => previous[c] = status[seen[c].edge]

OrderInv ==
    /\ TypeOK /\ UniqueVersions /\ FromBirth /\ CreatorsCollide
    /\ LatestIsNewest /\ OneSuccessor

\* The rows of an edge's history follow one another and end in status s.
Serial(h, s) ==
    /\ \A i \in 2..Len(h) : h[i].previous = h[i - 1].new
    /\ h # <<>> => s = h[Len(h)].new

Unreviewed == \A e \in Edges \ Existing : history[e] = <<>>

HistoryInv == TypeOK /\ ReviewersKnow /\ Unreviewed /\ ReviewsAreSerial

WasTrue(row) ==
    /\ row.edge \in Existing
    /\ row.version \in row.edge..version[row.edge]
    /\ row.status = StatusAt(row.edge, row.version)

\* Projections that have not overlapped bring the store forward.
OneByOne ==
    ~crossed =>
        /\ \A q, r \in Readers : taken[q] # Nothing /\ taken[r] # Nothing => q = r
        /\ \A r \in Readers : taken[r] # Nothing =>
              graph[taken[r].edge].version <= taken[r].version

GraphInv ==
    /\ HistoryInv
    /\ \A e \in Edges : graph[e] # Nothing => graph[e].edge = e /\ WasTrue(graph[e])
    /\ \A r \in Readers : taken[r] # Nothing => WasTrue(taken[r])
    /\ OneByOne

-----------------------------------------------------------------------------

LEMMA TypeInit == Init => TypeOK
  <1> SUFFICES ASSUME Init PROVE TypeOK
    OBVIOUS
  <1>1. history \in [Edges -> Histories]
    BY DEF Init, Histories
  <1>2. Nothing \in Row
    BY TraceLinksAssumption DEF Nothing, Row, NoEdge, ReviewStatus
  <1>3. graph \in [Edges -> Row] /\ taken \in [Readers -> Row]
    BY <1>2 DEF Init
  <1>4. crossed \in BOOLEAN
    BY DEF Init
  <1>5. QED
    BY <1>1, <1>3, <1>4, TraceLinksAssumption DEF Init, TypeOK, NoEdge, ReviewStatus

LEMMA TypeStep == TypeOK /\ [Next]_vars => TypeOK'
  <1> SUFFICES ASSUME TypeOK, [Next]_vars PROVE TypeOK'
    OBVIOUS
  <1> USE TraceLinksAssumption DEF TypeOK, NoEdge
  <1>1. ASSUME NEW c \in Sessions, NEW k \in Contents, ReadLatest(c, k) PROVE TypeOK'
    <2>1. PICK e \in Edges \cup {NoEdge} :
            seen' = [seen EXCEPT ![c] = [edge |-> e, version |-> VersionOf(e)]]
      BY <1>1 DEF ReadLatest
    <2>2. VersionOf(e) \in 0..MaxVersion
      BY DEF VersionOf
    <2>3. QED
      BY <1>1, <2>1, <2>2 DEF ReadLatest, edgeVars, graphVars
  <1>2. ASSUME NEW c \in Sessions, NEW s \in ReviewStatus, InsertEdge(c, s) PROVE TypeOK'
    <2>1. version' \in [Edges -> 0..MaxVersion] /\ parent' \in [Edges -> Edges \cup {NoEdge}]
      BY <1>2 DEF InsertEdge, Free, Edges
    <2>2. seen' \in [Sessions -> [edge : Edges \cup {NoEdge}, version : 0..MaxVersion]]
      BY <1>2 DEF InsertEdge, Release
    <2>3. previous' \in [Sessions -> ReviewStatus] /\ raced' \subseteq Edges
      BY <1>2 DEF InsertEdge, Free, Release, ReviewStatus
    <2>4. QED
      BY <1>2, <2>1, <2>2, <2>3 DEF InsertEdge, Release, graphVars
  <1>3. ASSUME NEW c \in Sessions, NEW e \in Edges, NEW n \in Edges, ReadEdge(c, e, n)
        PROVE TypeOK'
    BY <1>3 DEF ReadEdge, Edges, edgeVars, graphVars
  <1>4. ASSUME NEW c \in Sessions, NEW s \in Decisions, UpdateEdge(c, s) PROVE TypeOK'
    <2> DEFINE review == [previous |-> previous[c], new |-> s]
    <2>1. \A h \in Histories : Append(h, review) \in Histories
      BY DEF Decisions, Histories
    <2>2. history' \in [Edges -> Histories]
      BY <1>4, <2>1 DEF UpdateEdge, SetStatus
    <2>3. version' \in [Edges -> 0..MaxVersion]
      <3>1. seen[c].version + 1 \in 0..MaxVersion
        BY <1>4 DEF UpdateEdge, Edges
      <3>2. QED
        BY <1>4, <3>1 DEF UpdateEdge, SetStatus
    <2>4. status' \in [Edges -> ReviewStatus] /\ previous' \in [Sessions -> ReviewStatus]
      <3>1. status' \in [Edges -> ReviewStatus]
        BY <1>4 DEF UpdateEdge, SetStatus, Decisions
      <3>2. previous' \in [Sessions -> ReviewStatus]
        BY <1>4 DEF UpdateEdge, SetStatus, Release, ReviewStatus
      <3>3. QED
        BY <3>1, <3>2
    <2>5. seen' \in [Sessions -> [edge : Edges \cup {NoEdge}, version : 0..MaxVersion]]
      BY <1>4 DEF UpdateEdge, SetStatus, Release
    <2>6. at' \in [Sessions -> {"idle", "create", "review"}]
          /\ want' \in [Sessions -> Contents \cup {NoContent}]
      BY <1>4 DEF UpdateEdge, SetStatus, Release
    <2>7. UNCHANGED <<content, parent, graphVars, raced, restarts>>
      BY <1>4 DEF UpdateEdge, SetStatus
    <2>8. QED
      BY <2>2, <2>3, <2>4, <2>5, <2>6, <2>7 DEF graphVars
  <1>5. ASSUME NEW c \in Sessions, Rollback(c) PROVE TypeOK'
    BY <1>5 DEF Rollback, Release, ReviewStatus, edgeVars, graphVars
  <1>6. ASSUME NEW r \in Readers, ReadRows(r) PROVE TypeOK'
    BY <1>6 DEF ReadRows, Projected, Row, Existing, edgeVars, sessionVars
  <1>7. ASSUME NEW r \in Readers, Upsert(r) PROVE TypeOK'
    <2>1. Nothing \in Row
      BY DEF Nothing, Row, ReviewStatus
    <2>2. graph' \in [Edges -> Row] /\ taken' \in [Readers -> Row]
      BY <1>7, <2>1 DEF Upsert
    <2>3. QED
      BY <1>7, <2>2 DEF Upsert, edgeVars, sessionVars
  <1>8. CASE Restart
    <2>1. Nothing \in Row /\ "pending_review" \in ReviewStatus
      BY DEF Nothing, Row, ReviewStatus
    <2>2. graph' \in [Edges -> Row] /\ taken' \in [Readers -> Row]
      BY <1>8, <2>1 DEF Restart
    <2>3. crossed' \in BOOLEAN
      BY <1>8 DEF Restart
    <2>4. QED
      BY <1>8, <2>1, <2>2, <2>3 DEF Restart, edgeVars
  <1>9. CASE UNCHANGED vars
    BY <1>9 DEF vars, edgeVars, sessionVars, graphVars
  <1>10. QED
    BY <1>1, <1>2, <1>3, <1>4, <1>5, <1>6, <1>7, <1>8, <1>9
    DEF Next, Create, Review, Project

\* Every state is well typed.
THEOREM LinksTyped == Spec => []TypeOK
  BY TypeInit, TypeStep, PTL DEF Spec

-----------------------------------------------------------------------------
(* The order of versions *)

\* What the proofs below use of the type invariant.
LEMMA Typed ==
  ASSUME TypeOK
  PROVE  /\ Edges \subseteq Nat /\ 0 \notin Edges
         /\ \A e \in Edges : version[e] \in Nat
         /\ \A e \in Edges : parent[e] \in Nat
         /\ \A c \in Sessions : seen[c].edge \in Edges \cup {NoEdge}
         /\ \A c \in Sessions : seen[c].edge \in Nat
         /\ \A c \in Sessions : seen[c].version \in Nat
  <1>1. Edges \subseteq Nat /\ 0 \notin Edges
    BY DEF Edges
  <1>2. \A e \in Edges : version[e] \in Nat
    BY DEF TypeOK
  <1>3. \A x \in Edges \cup {NoEdge} : x \in Nat
    BY DEF Edges, NoEdge
  <1>4. \A e \in Edges : parent[e] \in Nat
    BY <1>3 DEF TypeOK
  <1>5. \A c \in Sessions : seen[c].edge \in Edges \cup {NoEdge}
    BY DEF TypeOK
  <1>6. \A c \in Sessions : seen[c].version \in Nat
    BY DEF TypeOK
  <1>7. QED
    BY <1>1, <1>2, <1>3, <1>4, <1>5, <1>6

LEMMA OrderInit == Init => OrderInv
  <1> SUFFICES ASSUME Init PROVE OrderInv
    OBVIOUS
  <1>1. Existing = {}
    BY DEF Init, Existing
  <1>2. QED
    BY <1>1, TypeInit
    DEF Init, OrderInv, UniqueVersions, FromBirth, CreatorsCollide, LatestIsNewest, OneSuccessor

\* A step that touches no edge and lets no session start to create.
LEMMA OrderFrame ==
  ASSUME OrderInv, TypeOK', UNCHANGED <<version, parent, raced>>,
         \A c \in Sessions : at'[c] = "create" => at[c] = "create" /\ seen'[c] = seen[c]
  PROVE  OrderInv'
  <1>1. Existing' = Existing /\ UniqueVersions' /\ FromBirth' /\ LatestIsNewest' /\ OneSuccessor'
    BY DEF OrderInv, Existing, UniqueVersions, FromBirth, LatestIsNewest, OneSuccessor
  <1>2. CreatorsCollide'
    BY <1>1 DEF OrderInv, CreatorsCollide, Predecessor, VersionOf
  <1>3. QED
    BY <1>1, <1>2 DEF OrderInv

\* An edge inserted without a race is above and after all others.
LEMMA InsertIsOnTop ==
  ASSUME OrderInv, NEW c \in Sessions, NEW s \in ReviewStatus, InsertEdge(c, s), raced' = {}
  PROVE  \A f \in Existing : /\ f <= seen[c].edge /\ f <= seen[c].version
                             /\ version[f] <= seen[c].version
                             /\ VersionOf(seen[c].edge) = seen[c].version
  <1> DEFINE e == seen[c].edge
             w == seen[c].version
  <1>1. TypeOK /\ w \in Nat /\ e \in Nat /\ VersionOf(e) \in Nat
    BY Typed DEF OrderInv, VersionOf
  <1>2. w + 1 \in Edges /\ w + 1 \notin Existing /\ VersionOf(e) <= w + 1 /\ raced = {}
    BY <1>1 DEF InsertEdge, Free, Existing
  <1>3. Predecessor(c) /\ e <= w /\ VersionOf(e) = w
    <2>1. Predecessor(c)
      BY DEF InsertEdge, OrderInv, CreatorsCollide
    <2>2. e \in Edges => version[e] # w + 1
      BY DEF InsertEdge, Free
    <2>3. VersionOf(e) # w + 1
      BY <1>1, <2>1, <2>2 DEF Predecessor, VersionOf, Existing
    <2>4. QED
      BY <1>1, <1>2, <2>1, <2>3 DEF Predecessor
  <1>4. ASSUME NEW f \in Existing PROVE f <= e
    <2>1. f \in Nat /\ ~(f > e)
      BY <1>1, <1>2, <1>3, Typed DEF InsertEdge, OrderInv, CreatorsCollide, Existing
    <2>2. QED
      BY <1>1, <2>1
  <1>5. ASSUME NEW f \in Existing PROVE version[f] <= w
    <2>1. f \in Nat /\ f # 0 /\ version[f] \in Nat /\ f <= e
      BY <1>1, <1>4, Typed DEF Existing
    <2>2. e \in Existing /\ version[e] = w
      BY <1>1, <1>3, <2>1 DEF Predecessor, VersionOf, NoEdge
    <2>3. f = e \/ version[f] < version[e]
      BY <1>1, <1>2, <2>1, <2>2 DEF OrderInv, LatestIsNewest
    <2>4. QED
      BY <1>1, <2>1, <2>2, <2>3
  <1>6. QED
    <2>1. \A f \in Existing : f \in Nat
      BY <1>1, Typed DEF Existing
    <2>2. QED
      BY <1>1, <1>3, <1>4, <1>5, <2>1

LEMMA OrderInsert ==
  ASSUME OrderInv, TypeOK', NEW c \in Sessions, NEW s \in ReviewStatus, InsertEdge(c, s)
  PROVE  OrderInv'
  <1> DEFINE e == seen[c].edge
             w == seen[c].version
             n == w + 1
  <1> USE TraceLinksAssumption DEF Edges, NoEdge
  <1>1. w \in Nat /\ n \in Edges /\ n \notin Existing /\ (\A f \in Edges : version[f] # n)
          /\ e \in Nat /\ e <= w /\ Predecessor(c)
    BY DEF InsertEdge, Free, OrderInv, TypeOK, Existing, CreatorsCollide, Predecessor
  <1>2. Existing' = Existing \cup {n} /\ version'[n] = n /\ parent'[n] = e
          /\ \A f \in Existing : version'[f] = version[f] /\ parent'[f] = parent[f]
    BY <1>1 DEF InsertEdge, Existing, OrderInv, TypeOK
  <1>3. UniqueVersions'
    BY <1>1, <1>2 DEF UniqueVersions, OrderInv, Existing
  <1>4. FromBirth'
    BY <1>1, <1>2 DEF FromBirth, OrderInv, Existing
  <1>5. ASSUME raced' = {} PROVE
          /\ raced = {}
          /\ \A f \in Existing : f <= e /\ f <= w /\ version[f] <= w /\ VersionOf(e) = w
    BY <1>5, InsertIsOnTop DEF InsertEdge
  <1>6. LatestIsNewest'
    <2>1. SUFFICES ASSUME raced' = {}, NEW f \in Existing', NEW g \in Existing', f < g
                   PROVE version'[f] < version'[g]
      BY DEF LatestIsNewest
    <2>2. CASE f \in Existing /\ g \in Existing
      BY <1>2, <1>5, <2>1, <2>2 DEF OrderInv, LatestIsNewest
    <2>3. CASE g = n /\ f \in Existing
      BY <1>1, <1>2, <1>5, <2>1, <2>3 DEF OrderInv, TypeOK, Existing
    <2>4. CASE f = n
      BY <1>1, <1>2, <1>5, <2>1, <2>4 DEF Existing
    <2>5. QED
      BY <1>2, <2>2, <2>3, <2>4
  <1>7. OneSuccessor'
    <2>1. ASSUME raced' = {}, NEW f \in Existing PROVE parent[f] # e
      BY <1>1, <1>5, <2>1 DEF OrderInv, FromBirth, Existing, TypeOK
    <2>2. QED
      BY <1>2, <1>5, <2>1 DEF OneSuccessor, OrderInv
  <1>8. CreatorsCollide'
    <2>1. SUFFICES ASSUME NEW d \in Sessions, at'[d] = "create"
                   PROVE /\ Predecessor(d)'
                         /\ raced' = {} => \A f \in Existing' : f > seen'[d].edge =>
                               \/ seen'[d].version + 1 \in Existing'
                               \/ VersionOf(seen[d].edge)' > seen'[d].version
      BY DEF CreatorsCollide
    <2>2. d # c /\ at[d] = "create" /\ seen'[d] = seen[d]
      BY <2>1 DEF InsertEdge, Release, OrderInv, TypeOK
    <2>3. Predecessor(d) /\ VersionOf(seen[d].edge)' = VersionOf(seen[d].edge)
      BY <1>2, <2>2 DEF OrderInv, CreatorsCollide, Predecessor, VersionOf
    <2>4. Predecessor(d)'
      BY <1>2, <2>2, <2>3 DEF Predecessor
    <2>5. ASSUME raced' = {}, NEW f \in Existing', f > seen[d].edge,
                 ~(VersionOf(seen[d].edge) > seen[d].version)
          PROVE seen[d].version + 1 \in Existing'
      <3>1. CASE \E g \in Existing : g > seen[d].edge
        BY <1>2, <1>5, <2>2, <2>5, <3>1 DEF OrderInv, CreatorsCollide
      <3>2. CASE ~ \E g \in Existing : g > seen[d].edge
        <4>1. seen[d].edge = e
          <5>1. seen[d].edge \in Nat /\ (e \in Existing => e <= seen[d].edge)
            BY <3>2, <1>1, Typed DEF OrderInv
          <5>2. seen[d].edge \in Existing => seen[d].edge <= e
            BY <1>5, <2>5
          <5>3. QED
            BY <1>1, <2>3, <5>1, <5>2 DEF Predecessor
        <4>2. VersionOf(e) = w
          BY <1>1, <1>5, <2>5 DEF Predecessor, VersionOf
        <4>3. seen[d].version = w
          BY <4>1, <4>2, <2>3, <2>5, <1>1 DEF Predecessor, OrderInv, TypeOK
        <4>4. QED
          BY <4>3, <1>2
      <3>3. QED
        BY <3>1, <3>2
    <2>6. QED
      BY <2>2, <2>3, <2>4, <2>5
  <1>9. QED
    BY <1>3, <1>4, <1>6, <1>7, <1>8 DEF OrderInv

LEMMA OrderUpdate ==
  ASSUME OrderInv, TypeOK', ReviewersKnow, NEW c \in Sessions, NEW s \in Decisions,
         UpdateEdge(c, s)
  PROVE  OrderInv'
  <1> DEFINE e == seen[c].edge
             n == seen[c].version + 1
  <1> USE TraceLinksAssumption DEF Edges, NoEdge
  <1>1. e \in Existing /\ version[e] = n - 1 /\ n \in Edges
          /\ (\A f \in Edges : version[f] # n) /\ version[e] \in Nat /\ n = version[e] + 1
    BY DEF UpdateEdge, ReviewersKnow, OrderInv, TypeOK, Existing
  <1>2. Existing' = Existing /\ version'[e] = n /\ parent' = parent /\ raced' = raced
          /\ \A f \in Existing \ {e} : version'[f] = version[f]
    BY <1>1 DEF UpdateEdge, SetStatus, Existing, OrderInv, TypeOK
  <1>3. \A f \in Existing : version[f] \in Nat /\ version'[f] \in Nat /\ version'[f] >= version[f]
    <2>1. \A f \in Existing : version[f] \in Nat
      BY Typed DEF OrderInv, Existing
    <2>2. QED
      BY <1>1, <1>2, <2>1
  <1>4. UniqueVersions'
    BY <1>1, <1>2 DEF UniqueVersions, OrderInv, Existing
  <1>5. FromBirth'
    BY <1>1, <1>2, <1>3 DEF FromBirth, OrderInv, Existing
  <1>6. LatestIsNewest'
    BY <1>1, <1>2, <1>3 DEF LatestIsNewest, OrderInv, Existing
  <1>7. OneSuccessor'
    BY <1>2 DEF OneSuccessor, OrderInv
  <1>8. CreatorsCollide'
    <2>1. SUFFICES ASSUME NEW d \in Sessions, at'[d] = "create"
                   PROVE /\ Predecessor(d)'
                         /\ raced' = {} => \A f \in Existing' : f > seen'[d].edge =>
                               \/ seen'[d].version + 1 \in Existing'
                               \/ VersionOf(seen[d].edge)' > seen'[d].version
      BY DEF CreatorsCollide
    <2>2. at[d] = "create" /\ seen'[d] = seen[d] /\ seen[d].version \in Nat
      BY <2>1 DEF UpdateEdge, SetStatus, Release, OrderInv, TypeOK
    <2>3. Predecessor(d)
      BY <2>2 DEF OrderInv, CreatorsCollide
    <2>4. /\ VersionOf(seen[d].edge)' \in Nat /\ VersionOf(seen[d].edge) \in Nat
          /\ VersionOf(seen[d].edge)' >= VersionOf(seen[d].edge)
      BY <1>3, <2>2, <2>3 DEF Predecessor, VersionOf
    <2>5. Predecessor(d)'
      BY <1>2, <2>2, <2>3, <2>4 DEF Predecessor
    <2>6. QED
      BY <1>2, <2>2, <2>4, <2>5 DEF OrderInv, CreatorsCollide
  <1>9. QED
    BY <1>4, <1>5, <1>6, <1>7, <1>8 DEF OrderInv

\* What a session that begins to create reads is the latest edge, so nothing is above.
LEMMA OrderRead ==
  ASSUME OrderInv, TypeOK', NEW c \in Sessions, NEW k \in Contents, ReadLatest(c, k)
  PROVE  OrderInv'
  <1>1. PICK e \in Edges \cup {NoEdge} :
          IsLatest(e) /\ seen' = [seen EXCEPT ![c] = [edge |-> e, version |-> VersionOf(e)]]
    BY DEF ReadLatest
  <1>2. Existing' = Existing /\ UNCHANGED <<version, parent, raced>>
    BY DEF ReadLatest, edgeVars, Existing
  <1>3. UniqueVersions' /\ FromBirth' /\ LatestIsNewest' /\ OneSuccessor'
    BY <1>2 DEF OrderInv, UniqueVersions, FromBirth, LatestIsNewest, OneSuccessor
  <1>4. seen'[c].edge = e /\ seen'[c].version = VersionOf(e)
    BY <1>1 DEF OrderInv, TypeOK
  <1>5. e \in Existing \cup {NoEdge} /\ e \in Nat /\ VersionOf(e) \in Nat
    BY <1>1, Typed DEF IsLatest, OrderInv, VersionOf, NoEdge
  <1>6. e <= VersionOf(e)
    BY <1>5 DEF OrderInv, FromBirth, VersionOf, NoEdge, Existing
  <1>7. raced = {} => ~ \E f \in Existing : f > e
    <2>1. SUFFICES ASSUME raced = {}, NEW f \in Existing, f > e PROVE FALSE
      OBVIOUS
    <2>2. e \in Existing /\ version[f] <= version[e]
      BY <1>1 DEF IsLatest
    <2>3. version[e] < version[f] /\ version[e] \in Nat /\ version[f] \in Nat
      BY <1>5, <2>1, <2>2, Typed DEF OrderInv, LatestIsNewest, Existing
    <2>4. QED
      BY <2>2, <2>3
  <1>8. CreatorsCollide'
    <2>1. SUFFICES ASSUME NEW d \in Sessions, at'[d] = "create"
                   PROVE /\ Predecessor(d)'
                         /\ raced' = {} => \A f \in Existing' : f > seen'[d].edge =>
                               \/ seen'[d].version + 1 \in Existing'
                               \/ VersionOf(seen[d].edge)' > seen'[d].version
      BY DEF CreatorsCollide
    <2>2. CASE d = c
      BY <1>2, <1>4, <1>5, <1>6, <1>7, <2>2 DEF Predecessor, VersionOf
    <2>3. CASE d # c
      <3>1. at[d] = "create" /\ seen'[d] = seen[d]
        BY <1>1, <2>1, <2>3 DEF ReadLatest, OrderInv, TypeOK
      <3>2. QED
        BY <1>2, <3>1 DEF OrderInv, CreatorsCollide, Predecessor, VersionOf
    <2>4. QED
      BY <2>2, <2>3
  <1>9. QED
    BY <1>3, <1>8 DEF OrderInv

-----------------------------------------------------------------------------
(* Histories *)

LEMMA SerialAppend ==
  ASSUME NEW h \in Histories, NEW s \in ReviewStatus, NEW t \in ReviewStatus, Serial(h, s)
  PROVE  LET g == Append(h, [previous |-> s, new |-> t]) IN
         /\ Len(h) \in Nat /\ Len(g) = Len(h) + 1 /\ Serial(g, t)
         /\ \A i \in 1..Len(h) : g[i] = h[i]
         /\ g[Len(h) + 1].previous = s
  <1> DEFINE r == [previous |-> s, new |-> t]
             g == Append(h, r)
  <1>1. h \in Seq([previous : ReviewStatus, new : ReviewStatus]) /\ r.previous = s /\ r.new = t
          /\ r \in [previous : ReviewStatus, new : ReviewStatus]
    BY DEF Histories
  <1> HIDE DEF r
  <1>2. /\ Len(h) \in Nat /\ Len(g) = Len(h) + 1 /\ g[Len(h) + 1] = r
        /\ \A i \in 1..Len(h) : g[i] = h[i]
    BY <1>1
  <1>3. \A i \in 2..Len(g) : g[i].previous = g[i - 1].new
    <2>1. SUFFICES ASSUME NEW i \in 2..Len(g) PROVE g[i].previous = g[i - 1].new
      OBVIOUS
    <2>2. CASE i \in 2..Len(h)
      BY <1>2, <2>2 DEF Serial
    <2>3. CASE i = Len(h) + 1
      <3>1. h # <<>> /\ i - 1 \in 1..Len(h)
        BY <1>1, <1>2, <2>3
      <3>2. QED
        BY <1>1, <1>2, <2>3, <3>1 DEF Serial
    <2>4. QED
      BY <1>2, <2>2, <2>3
  <1>4. Serial(g, t)
    BY <1>1, <1>2, <1>3 DEF Serial
  <1>5. QED
    BY <1>1, <1>2, <1>4 DEF r

LEMMA HistoryInit == Init => HistoryInv
  <1> SUFFICES ASSUME Init PROVE HistoryInv
    OBVIOUS
  <1>1. Existing = {} /\ \A e \in Edges : history[e] = <<>>
    BY DEF Init, Existing
  <1>2. \A c \in Sessions : at[c] # "review"
    BY DEF Init
  <1>3. QED
    BY <1>1, <1>2, TypeInit DEF HistoryInv, ReviewersKnow, Unreviewed, ReviewsAreSerial

\* A step that changes no version and no status and lets no session start to review.
LEMMA HistoryFrame ==
  ASSUME HistoryInv, TypeOK', UNCHANGED <<version, status, history>>,
         \A c \in Sessions : at'[c] = "review" =>
             at[c] = "review" /\ seen'[c] = seen[c] /\ previous'[c] = previous[c]
  PROVE  HistoryInv'
  <1>1. Existing' = Existing /\ Unreviewed' /\ ReviewsAreSerial'
    BY DEF HistoryInv, Existing, Unreviewed, ReviewsAreSerial
  <1>2. ReviewersKnow'
    BY <1>1 DEF HistoryInv, ReviewersKnow
  <1>3. QED
    BY <1>1, <1>2 DEF HistoryInv

LEMMA HistoryInsert ==
  ASSUME HistoryInv, TypeOK', NEW c \in Sessions, NEW s \in ReviewStatus, InsertEdge(c, s)
  PROVE  HistoryInv'
  <1> DEFINE n == seen[c].version + 1
  <1>1. n \in Edges /\ n \notin Existing /\ history' = history /\ history[n] = <<>>
    BY DEF InsertEdge, Free, HistoryInv, Unreviewed, Existing
  <1>2. Existing' = Existing \cup {n} /\ version'[n] = n
          /\ \A f \in Existing : version'[f] = version[f] /\ status'[f] = status[f]
    BY <1>1, Typed DEF InsertEdge, Existing, HistoryInv, TypeOK
  <1>3. Unreviewed'
    BY <1>1, <1>2 DEF HistoryInv, Unreviewed
  <1>4. ReviewersKnow'
    <2>1. \A d \in Sessions : at'[d] = "review" =>
              at[d] = "review" /\ seen'[d] = seen[d] /\ previous'[d] = previous[d]
      BY DEF InsertEdge, Release, HistoryInv, TypeOK
    <2>2. QED
      BY <1>2, <2>1 DEF HistoryInv, ReviewersKnow
  <1>5. ReviewsAreSerial'
    <2>1. n = n + Len(history[n]) /\ 2..Len(history[n]) = {}
      BY <1>1, Typed DEF HistoryInv
    <2>2. QED
      BY <1>1, <1>2, <2>1 DEF HistoryInv, ReviewsAreSerial
  <1>6. QED
    BY <1>3, <1>4, <1>5 DEF HistoryInv

\* A review finds the status it names and adds one row to the history.
LEMMA UpdateAppends ==
  ASSUME HistoryInv, NEW c \in Sessions, NEW s \in Decisions, UpdateEdge(c, s)
  PROVE  LET e == seen[c].edge IN
         /\ e \in Existing /\ Existing' = Existing
         /\ version'[e] = version[e] + 1 /\ version[e] \in Nat
         /\ status'[e] = s /\ status[e] \in ReviewStatus /\ s \in ReviewStatus
         /\ history[e] \in Histories
         /\ history'[e] = Append(history[e], [previous |-> status[e], new |-> s])
         /\ \A f \in Edges \ {e} : /\ version'[f] = version[f] /\ status'[f] = status[f]
                                   /\ history'[f] = history[f]
  <1> DEFINE e == seen[c].edge
  <1>1. e \in Existing /\ e \in Edges /\ version[e] = seen[c].version /\ previous[c] = status[e]
    BY DEF UpdateEdge, HistoryInv, ReviewersKnow, Existing
  <1>2. version[e] \in Nat
    BY <1>1, Typed DEF HistoryInv
  <1>3. version'[e] = version[e] + 1 /\ status'[e] = s
          /\ history'[e] = Append(history[e], [previous |-> status[e], new |-> s])
    BY <1>1 DEF UpdateEdge, SetStatus, HistoryInv, TypeOK
  <1>4. \A f \in Edges \ {e} : /\ version'[f] = version[f] /\ status'[f] = status[f]
                               /\ history'[f] = history[f]
    BY <1>1 DEF UpdateEdge, SetStatus, HistoryInv, TypeOK
  <1>5. Existing' = Existing
    BY <1>1, <1>2, <1>3, <1>4 DEF Existing
  <1>6. status[e] \in ReviewStatus /\ s \in ReviewStatus /\ history[e] \in Histories
    BY <1>1 DEF Decisions, HistoryInv, TypeOK
  <1>7. QED
    BY <1>1, <1>2, <1>3, <1>4, <1>5, <1>6

LEMMA HistoryUpdate ==
  ASSUME HistoryInv, TypeOK', NEW c \in Sessions, NEW s \in Decisions, UpdateEdge(c, s)
  PROVE  HistoryInv'
  <1> DEFINE e == seen[c].edge
             h == history[e]
  <1>1. /\ e \in Existing /\ Existing' = Existing
        /\ version'[e] = version[e] + 1 /\ version[e] \in Nat
        /\ status'[e] = s /\ status[e] \in ReviewStatus /\ s \in ReviewStatus
        /\ h \in Histories
        /\ history'[e] = Append(h, [previous |-> status[e], new |-> s])
        /\ \A f \in Edges \ {e} : /\ version'[f] = version[f] /\ status'[f] = status[f]
                                  /\ history'[f] = history[f]
    BY UpdateAppends
  <1>2. Unreviewed'
    BY <1>1 DEF HistoryInv, Unreviewed
  <1>3. ReviewersKnow'
    <2>1. SUFFICES ASSUME NEW d \in Sessions, at'[d] = "review"
                   PROVE /\ seen'[d].edge \in Existing'
                         /\ seen'[d].version <= version'[seen'[d].edge]
                         /\ seen'[d].version = version'[seen'[d].edge]
                              => previous'[d] = status'[seen'[d].edge]
      BY DEF ReviewersKnow
    <2>2. at[d] = "review" /\ seen'[d] = seen[d] /\ previous'[d] = previous[d]
      BY <2>1 DEF UpdateEdge, SetStatus, Release, HistoryInv, TypeOK
    <2>3. seen[d].edge \in Existing /\ seen[d].version <= version[seen[d].edge]
            /\ seen[d].version \in Nat
      BY <2>2, Typed DEF HistoryInv, ReviewersKnow
    <2>4. CASE seen[d].edge = e
      <3>1. seen[d].version <= version[e]
        BY <2>3, <2>4
      <3>2. seen[d].version <= version[e] + 1 /\ seen[d].version # version[e] + 1
        BY <1>1, <2>3, <3>1
      <3>3. QED
        BY <1>1, <2>2, <2>3, <2>4, <3>2
    <2>5. CASE seen[d].edge # e
      BY <1>1, <2>2, <2>3, <2>5 DEF HistoryInv, ReviewersKnow, Existing
    <2>6. QED
      BY <2>4, <2>5
  <1>4. ReviewsAreSerial'
    <2>1. Serial(h, status[e]) /\ version[e] = e + Len(h)
      BY <1>1 DEF HistoryInv, ReviewsAreSerial, Serial
    <2>2. Len(h) \in Nat /\ Len(history'[e]) = Len(h) + 1 /\ Serial(history'[e], s)
      BY <1>1, <2>1, SerialAppend
    <2>3. e \in Nat
      BY Typed DEF HistoryInv
    <2>4. version'[e] = e + Len(history'[e]) /\ Serial(history'[e], status'[e])
      <3>1. Serial(history'[e], status'[e])
        BY <1>1, <2>2
      <3>2. version'[e] = (e + Len(h)) + 1 /\ Len(history'[e]) = Len(h) + 1
        BY <1>1, <2>1, <2>2
      <3>3. version'[e] = e + Len(history'[e])
        BY <2>2, <2>3, <3>2
      <3>4. QED
        BY <3>1, <3>3
    <2>5. SUFFICES ASSUME NEW f \in Existing'
                   PROVE version'[f] = f + Len(history'[f]) /\ Serial(history'[f], status'[f])
      BY DEF ReviewsAreSerial, Serial
    <2>6. CASE f = e
      BY <2>4, <2>6
    <2>7. CASE f # e
      <3>1. f \in Existing /\ f \in Edges
        BY <1>1 DEF Existing
      <3>2. version[f] = f + Len(history[f]) /\ Serial(history[f], status[f])
        BY <3>1 DEF HistoryInv, ReviewsAreSerial, Serial
      <3>3. QED
        BY <1>1, <2>7, <3>1, <3>2
    <2>8. QED
      BY <2>6, <2>7
  <1>5. QED
    BY <1>2, <1>3, <1>4 DEF HistoryInv

LEMMA HistoryRead ==
  ASSUME HistoryInv, TypeOK', NEW c \in Sessions, NEW e \in Edges, NEW n \in Edges,
         ReadEdge(c, e, n)
  PROVE  HistoryInv'
  <1>1. Existing' = Existing /\ Unreviewed' /\ ReviewsAreSerial'
    BY DEF ReadEdge, edgeVars, HistoryInv, Existing, Unreviewed, ReviewsAreSerial
  <1>2. e \in Existing /\ n <= version[e] /\ UNCHANGED <<version, status>>
    BY Typed DEF ReadEdge, HistoryInv, edgeVars
  <1>3. seen'[c].edge = e /\ seen'[c].version = n /\ previous'[c] = status[e]
    BY DEF ReadEdge, HistoryInv, TypeOK
  <1>4. \A d \in Sessions \ {c} : /\ at'[d] = at[d] /\ seen'[d] = seen[d]
                                  /\ previous'[d] = previous[d]
    BY DEF ReadEdge, HistoryInv, TypeOK
  <1>5. ReviewersKnow'
    BY <1>1, <1>2, <1>3, <1>4 DEF ReviewersKnow, HistoryInv
  <1>6. QED
    BY <1>1, <1>5 DEF HistoryInv

-----------------------------------------------------------------------------
(* Every step *)

LEMMA HistoryStep == HistoryInv /\ [Next]_vars => HistoryInv'
  <1> SUFFICES ASSUME HistoryInv, [Next]_vars PROVE HistoryInv'
    OBVIOUS
  <1>1. TypeOK /\ TypeOK'
    BY TypeStep DEF HistoryInv
  <1>2. ASSUME NEW c \in Sessions, NEW k \in Contents, ReadLatest(c, k) PROVE HistoryInv'
    BY <1>1, <1>2, HistoryFrame DEF ReadLatest, edgeVars, TypeOK
  <1>3. ASSUME NEW c \in Sessions, NEW s \in ReviewStatus, InsertEdge(c, s) PROVE HistoryInv'
    BY <1>1, <1>3, HistoryInsert
  <1>4. ASSUME NEW c \in Sessions, NEW e \in Edges, NEW n \in Edges, ReadEdge(c, e, n)
        PROVE HistoryInv'
    BY <1>1, <1>4, HistoryRead
  <1>5. ASSUME NEW c \in Sessions, NEW s \in Decisions, UpdateEdge(c, s) PROVE HistoryInv'
    BY <1>1, <1>5, HistoryUpdate
  <1>6. ASSUME NEW c \in Sessions, Rollback(c) PROVE HistoryInv'
    BY <1>1, <1>6, HistoryFrame DEF Rollback, Release, edgeVars, TypeOK
  <1>7. ASSUME NEW r \in Readers, Project(r) PROVE HistoryInv'
    BY <1>1, <1>7, HistoryFrame DEF Project, ReadRows, Upsert, edgeVars, sessionVars
  <1>8. CASE Restart
    BY <1>1, <1>8, HistoryFrame DEF Restart, edgeVars
  <1>9. CASE UNCHANGED vars
    BY <1>1, <1>9, HistoryFrame DEF vars, edgeVars, sessionVars
  <1>10. QED
    BY <1>2, <1>3, <1>4, <1>5, <1>6, <1>7, <1>8, <1>9 DEF Next, Create, Review

\* The reviews of an edge are a chain of status changes that ends in its status.
THEOREM ReviewHistory == Spec => []ReviewsAreSerial
  <1>1. HistoryInv => ReviewsAreSerial
    BY DEF HistoryInv
  <1>2. QED
    BY <1>1, HistoryInit, HistoryStep, PTL DEF Spec

LEMMA OrderStep == OrderInv /\ HistoryInv /\ [Next]_vars => OrderInv'
  <1> SUFFICES ASSUME OrderInv, HistoryInv, [Next]_vars PROVE OrderInv'
    OBVIOUS
  <1>1. TypeOK /\ TypeOK'
    BY TypeStep DEF HistoryInv
  <1>2. ASSUME NEW c \in Sessions, NEW k \in Contents, ReadLatest(c, k) PROVE OrderInv'
    BY <1>1, <1>2, OrderRead
  <1>3. ASSUME NEW c \in Sessions, NEW s \in ReviewStatus, InsertEdge(c, s) PROVE OrderInv'
    BY <1>1, <1>3, OrderInsert
  <1>4. ASSUME NEW c \in Sessions, NEW e \in Edges, NEW n \in Edges, ReadEdge(c, e, n)
        PROVE OrderInv'
    BY <1>1, <1>4, OrderFrame DEF ReadEdge, edgeVars, TypeOK
  <1>5. ASSUME NEW c \in Sessions, NEW s \in Decisions, UpdateEdge(c, s) PROVE OrderInv'
    BY <1>1, <1>5, OrderUpdate DEF HistoryInv
  <1>6. ASSUME NEW c \in Sessions, Rollback(c) PROVE OrderInv'
    BY <1>1, <1>6, OrderFrame DEF Rollback, Release, edgeVars, TypeOK
  <1>7. ASSUME NEW r \in Readers, Project(r) PROVE OrderInv'
    BY <1>1, <1>7, OrderFrame DEF Project, ReadRows, Upsert, edgeVars, sessionVars
  <1>8. CASE Restart
    BY <1>1, <1>8, OrderFrame DEF Restart, edgeVars
  <1>9. CASE UNCHANGED vars
    BY <1>1, <1>9, OrderFrame DEF vars, edgeVars, sessionVars
  <1>10. QED
    BY <1>2, <1>3, <1>4, <1>5, <1>6, <1>7, <1>8, <1>9 DEF Next, Create, Review

\* Unless an insert raced two reviews, a newer edge has the higher version.
THEOREM NewestIsLatest == Spec => []LatestIsNewest
  <1>1. OrderInv => LatestIsNewest
    BY DEF OrderInv
  <1>2. QED
    BY <1>1, OrderInit, OrderStep, HistoryInit, HistoryStep, PTL DEF Spec

\* Unless an insert raced two reviews, concurrent creators do not fork the chain.
THEOREM ChainDoesNotFork == Spec => []OneSuccessor
  <1>1. OrderInv => OneSuccessor
    BY DEF OrderInv
  <1>2. QED
    BY <1>1, OrderInit, OrderStep, HistoryInit, HistoryStep, PTL DEF Spec

-----------------------------------------------------------------------------
(* The projection *)

\* What was true of an edge at a version stays true of it at that version.
LEMMA TruthStays ==
  ASSUME HistoryInv, [Next]_vars, NEW row, WasTrue(row)
  PROVE  WasTrue(row)'
  <1> DEFINE e == row.edge
  <1>1. e \in Existing /\ e \in Edges /\ e \in Nat /\ version[e] \in Nat
    BY Typed DEF WasTrue, HistoryInv, Existing
  <1>2. ASSUME version'[e] = version[e], UNCHANGED <<status[e], history[e]>>
        PROVE  WasTrue(row)'
    BY <1>1, <1>2 DEF WasTrue, StatusAt, Existing
  <1>3. ASSUME NEW c \in Sessions, NEW s \in ReviewStatus, InsertEdge(c, s) PROVE WasTrue(row)'
    <2>1. seen[c].version + 1 # e
      BY <1>1, <1>3 DEF InsertEdge, Free, Existing
    <2>2. version'[e] = version[e] /\ UNCHANGED <<status[e], history[e]>>
      BY <1>1, <1>3, <2>1 DEF InsertEdge, HistoryInv, TypeOK
    <2>3. QED
      BY <1>2, <2>2
  <1>4. ASSUME NEW c \in Sessions, NEW s \in Decisions, UpdateEdge(c, s) PROVE WasTrue(row)'
    <2> DEFINE f == seen[c].edge
    <2>1. /\ f \in Existing /\ Existing' = Existing
          /\ version'[f] = version[f] + 1 /\ version[f] \in Nat
          /\ status'[f] = s /\ status[f] \in ReviewStatus /\ s \in ReviewStatus
          /\ history[f] \in Histories
          /\ history'[f] = Append(history[f], [previous |-> status[f], new |-> s])
          /\ \A g \in Edges \ {f} : /\ version'[g] = version[g] /\ status'[g] = status[g]
                                    /\ history'[g] = history[g]
      BY <1>4, UpdateAppends
    <2> HIDE DEF f
    <2>2. CASE f = e
      <3> DEFINE h == history[e]
                 v == row.version
      <3>1. /\ Existing' = Existing /\ version'[e] = version[e] + 1
            /\ status[e] \in ReviewStatus /\ s \in ReviewStatus /\ h \in Histories
            /\ history'[e] = Append(h, [previous |-> status[e], new |-> s])
        BY <2>1, <2>2
      <3>2. Serial(h, status[e]) /\ version[e] = e + Len(h)
        BY <1>1 DEF HistoryInv, ReviewsAreSerial, Serial
      <3>3. /\ Len(h) \in Nat /\ Len(history'[e]) = Len(h) + 1
            /\ \A i \in 1..Len(h) : history'[e][i] = h[i]
            /\ history'[e][Len(h) + 1].previous = status[e]
        BY <3>1, <3>2, SerialAppend
      <3>4. v \in e..version[e] /\ row.status = StatusAt(e, v)
        BY DEF WasTrue
      <3>5. v # e + Len(history'[e])
        BY <1>1, <3>2, <3>3, <3>4
      <3>6. history'[e][v - e + 1].previous = row.status
        <4>1. CASE v = e + Len(h)
          <5>1. v - e + 1 = Len(h) + 1 /\ row.status = status[e]
            BY <1>1, <3>3, <3>4, <4>1 DEF StatusAt
          <5>2. QED
            BY <3>3, <5>1
        <4>2. CASE v # e + Len(h)
          <5>1. v - e + 1 \in 1..Len(h) /\ row.status = h[v - e + 1].previous
            BY <1>1, <3>2, <3>3, <3>4, <4>2 DEF StatusAt
          <5>2. QED
            BY <3>3, <5>1
        <4>3. QED
          BY <4>1, <4>2
      <3>7. v \in e..version'[e] /\ e \in Existing'
        BY <1>1, <3>1, <3>4
      <3>8. QED
        BY <3>5, <3>6, <3>7 DEF WasTrue, StatusAt
    <2>3. CASE f # e
      <3>1. version'[e] = version[e] /\ UNCHANGED <<status[e], history[e]>>
        BY <1>1, <2>1, <2>3
      <3>2. QED
        BY <1>2, <3>1
    <2>4. QED
      BY <2>2, <2>3
  <1>5. CASE UNCHANGED edgeVars
    BY <1>2, <1>5 DEF edgeVars
  <1>6. QED
    BY <1>3, <1>4, <1>5
    DEF Next, Create, Review, Project, ReadLatest, ReadEdge, Rollback, ReadRows, Upsert, Restart,
        vars

LEMMA GraphInit == Init => GraphInv
  <1> SUFFICES ASSUME Init PROVE GraphInv
    OBVIOUS
  <1>1. (\A e \in Edges : graph[e] = Nothing) /\ \A r \in Readers : taken[r] = Nothing
    BY DEF Init
  <1>2. QED
    BY <1>1, HistoryInit DEF GraphInv, OneByOne

LEMMA GraphStep == GraphInv /\ [Next]_vars => GraphInv'
  <1> SUFFICES ASSUME GraphInv, [Next]_vars PROVE GraphInv'
    OBVIOUS
  <1>1. HistoryInv /\ HistoryInv' /\ \A row : WasTrue(row) => WasTrue(row)'
    BY HistoryStep, TruthStays DEF GraphInv
  <1>2. ASSUME UNCHANGED graphVars PROVE GraphInv'
    BY <1>1, <1>2 DEF GraphInv, OneByOne, graphVars
  <1>3. ASSUME NEW r \in Readers, ReadRows(r) PROVE GraphInv'
    <2>1. PICK e \in Existing : taken' = [taken EXCEPT ![r] = Projected(e)]
      BY <1>3 DEF ReadRows
    <2>2. WasTrue(Projected(e))
      <3>1. e \in Edges /\ e \in Nat /\ version[e] \in Nat /\ version[e] = e + Len(history[e])
        BY Typed, <1>1 DEF HistoryInv, ReviewsAreSerial, Existing
      <3>2. e <= version[e]
        <4>1. Len(history[e]) \in Nat
          BY <1>1, <3>1 DEF HistoryInv, TypeOK, Histories
        <4>2. QED
          BY <3>1, <4>1
      <3>3. QED
        BY <3>1, <3>2 DEF WasTrue, Projected, StatusAt
    <2>3. \A q \in Readers : taken'[q] # Nothing => taken'[q] = Projected(e) \/ taken'[q] = taken[q]
      BY <2>1 DEF GraphInv, HistoryInv, TypeOK
    <2>4. graph' = graph
      BY <1>3 DEF ReadRows
    <2>5. OneByOne'
      <3>1. SUFFICES ASSUME ~crossed'
                     PROVE  \A q \in Readers : taken'[q] # Nothing =>
                               q = r /\ graph'[taken'[q].edge].version <= taken'[q].version
        BY DEF OneByOne
      <3>2. \A q \in Readers : taken[q] = Nothing
        BY <1>3, <3>1 DEF ReadRows
      <3>3. \A q \in Readers : taken'[q] # Nothing => q = r /\ taken'[q] = Projected(e)
        BY <2>1, <3>2 DEF GraphInv, HistoryInv, TypeOK
      <3>4. graph[e].version <= version[e]
        <4>1. e \in Edges /\ e \in Nat /\ version[e] \in Nat
          BY Typed, <1>1 DEF HistoryInv, Existing
        <4>2. CASE graph[e] = Nothing
          BY <4>1, <4>2 DEF Nothing
        <4>3. CASE graph[e] # Nothing
          BY <4>1, <4>3 DEF GraphInv, WasTrue
        <4>4. QED
          BY <4>2, <4>3
      <3>5. QED
        BY <2>4, <3>3, <3>4 DEF Projected
    <2>6. QED
      BY <1>1, <2>2, <2>3, <2>4, <2>5 DEF GraphInv
  <1>4. ASSUME NEW r \in Readers, Upsert(r) PROVE GraphInv'
    <2>1. WasTrue(taken[r])
      BY <1>4 DEF Upsert, GraphInv
    <2>2. \A e \in Edges : graph'[e] = graph[e] \/ (graph'[e] = taken[r] /\ e = taken[r].edge)
      BY <1>4 DEF Upsert, GraphInv, HistoryInv, TypeOK
    <2>3. \A q \in Readers : taken'[q] = Nothing \/ taken'[q] = taken[q]
      BY <1>4 DEF Upsert, GraphInv, HistoryInv, TypeOK
    <2>4. OneByOne'
      <3>1. \A q \in Readers : taken'[q] # Nothing => q # r /\ taken[q] # Nothing
        BY <1>4, <2>3 DEF Upsert, GraphInv, HistoryInv, TypeOK
      <3>2. ~crossed' => \A q \in Readers : taken'[q] = Nothing
        BY <1>4, <3>1 DEF Upsert, GraphInv, OneByOne
      <3>3. QED
        BY <3>2 DEF OneByOne
    <2>5. QED
      BY <1>1, <2>1, <2>2, <2>3, <2>4 DEF GraphInv
  <1>5. CASE Restart
    <2>1. (\A e \in Edges : graph'[e] = Nothing) /\ \A r \in Readers : taken'[r] = Nothing
      BY <1>5 DEF Restart
    <2>2. QED
      BY <1>1, <2>1 DEF GraphInv, OneByOne
  <1>6. QED
    BY <1>2, <1>3, <1>4, <1>5
    DEF Next, Create, Review, Project, ReadLatest, InsertEdge, ReadEdge, UpdateEdge, SetStatus,
        Rollback, vars

\* The graph store shows an edge as it was at the version it shows, and goes back only
\* where projections have overlapped.
THEOREM ProjectionTruth == Spec => []ProjectedWasTrue
  <1>1. GraphInv => ProjectedWasTrue
    <2>1. SUFFICES ASSUME GraphInv, NEW e \in Edges, graph[e] # Nothing
                   PROVE /\ graph[e].version \in e..version[e]
                         /\ graph[e].status = StatusAt(e, graph[e].version)
      BY DEF ProjectedWasTrue, GraphInv, OneByOne
    <2>2. graph[e].edge = e /\ WasTrue(graph[e])
      BY <2>1 DEF GraphInv
    <2>3. QED
      BY <2>2 DEF WasTrue
  <1>2. QED
    BY <1>1, GraphInit, GraphStep, PTL DEF Spec
=============================================================================
