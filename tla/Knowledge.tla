------------------------------ MODULE Knowledge ------------------------------
(***************************************************************************)
(* Entities, what the text mentions of them and the relations between      *)
(* them. The worker extracts one document chunk by chunk: it looks an      *)
(* entity up, asks a model for minutes and commits what it decided before. *)
(* Meanwhile requests merge, clean up and edit the same rows, each in one  *)
(* commit, an automatic merge in one commit per pair. The requests run on  *)
(* one event loop, so only the worker comes between two commits of one.    *)
(* The database refuses a row that points at an entity that is gone: the   *)
(* deployments use PostgreSQL.  SQLite, the default without a setting,     *)
(* would need foreign_keys, which nothing switches on, and is not modelled.*)
(* What happens to the queue's rows otherwise is TaskQueue.                *)
(***************************************************************************)
EXTENDS FiniteSets, Naturals

CONSTANTS
    Ids,            \* identifiers of entities
    Known,          \* those that earlier documents have used
    Names,          \* names a text can mention
    Stocks,         \* those names that come with a profile row
    Alike,          \* pairs of names whose words overlap by half
    Last,           \* the document's last chunk; each mentions and relates once
    NoId,           \* not an identifier
    MaxAsks         \* bound on requests

ASSUME KnowledgeAssumption ==
    /\ Stocks \subseteq Names /\ Alike \subseteq Names \X Names
    /\ IsFiniteSet(Ids) /\ Last \in Nat \ {0} /\ Known \subseteq Ids
    /\ NoId \notin Ids \cup Names /\ MaxAsks \in Nat

VARIABLES
    entity,         \* the row of each entity
    profiled,       \* entities that a profile or a chain node points at
    mention,        \* what each chunk mentions
    relation,       \* what each chunk relates
    graph,          \* entities among the nodes of the graph store
    job,            \* the document's two rows of the queue
    worker,         \* what the worker does
    review,         \* the automatic merge that is under way
    excused,        \* chunks that mention nothing or whose rows a cleanup removed
    asks

rows == <<entity, profiled, mention, relation>>
vars == <<rows, graph, job, worker, review, excused, asks>>

Row == [name : Names, norm : Names, aliases : SUBSET Names]
Unused == [name |-> NoId, norm |-> NoId, aliases |-> {}]
Gone == [name |-> NoId, norm |-> NoId, aliases |-> {NoId}]
Absent == {Unused, Gone}
Chunks == 1..Last
NoMention == [of |-> NoId, name |-> NoId]
NoRelation == <<NoId, NoId>>
NoHold == [id |-> NoId, row |-> Gone]
Idle == [at |-> "idle", chunk |-> 0, failed |-> {}, target |-> NoId,
         item |-> NoId, other |-> NoId, held |-> NoHold, seen |-> {}]
NoReview == [pairs |-> {}, consumed |-> {}]

Live == {e \in Ids : entity[e] \notin Absent}
Keys(row) == {row.name, row.norm} \cup row.aliases
Touches(r, E) == r[1] \in E \/ r[2] \in E

NewRow(n) == [name |-> n, norm |-> n, aliases |-> {}]
Injective(f) == \A x, y \in DOMAIN f : f[x] = f[y] => x = y

Init ==
    /\ \E f \in [Known -> Names] :
          /\ Injective(f)
          /\ entity = [e \in Ids |-> IF e \in Known THEN NewRow(f[e]) ELSE Unused]
          /\ profiled = {e \in Known : f[e] \in Stocks}
    /\ graph = Known /\ excused = [mentions |-> {}, relations |-> {}]
    /\ mention = [c \in Chunks |-> NoMention]
    /\ relation = [c \in Chunks |-> NoRelation]
    /\ job = [entities |-> "pending", relations |-> "pending"]
    /\ worker = Idle /\ review = NoReview /\ asks = 0

-----------------------------------------------------------------------------
(* The worker: entities                                                    *)

StartEntities ==
    /\ worker.at = "idle" /\ job.entities = "pending"
    /\ job' = [job EXCEPT !.entities = "running"]
    /\ worker' = [Idle EXCEPT !.at = "entities", !.chunk = 1]
    /\ UNCHANGED <<rows, graph, review, excused, asks>>

\* The session does not expire: an entity it still holds is not read again.
View(e) == IF worker.held.id = e THEN worker.held.row ELSE entity[e]

ByNorm(n) == {e \in Live : entity[e].norm = n}
ByAlias(n) == {e \in Live : n \in Keys(View(e))}
ByModel(n) == {e \in Live : <<n, View(e).name>> \in Alike}
Fresh == {CHOOSE e \in Ids : entity[e] = Unused}

\* resolve: the name, then the aliases, then what the model says, else a new one.
Resolved(n) ==
    IF ByNorm(n) # {} THEN ByNorm(n)
    ELSE IF ByAlias(n) # {} THEN ByAlias(n)
    ELSE ByModel(n) \cup (IF \E e \in Ids : entity[e] = Unused THEN Fresh ELSE {})

\* The item of a chunk is resolved while the transaction is open.
Look(n) ==
    /\ worker.at = "entities" /\ worker.chunk \in Chunks
    /\ \E e \in Resolved(n) :
          worker' = [worker EXCEPT !.at = "write", !.target = e, !.item = n,
                                   !.held = [id |-> e, row |-> View(e)]]
    /\ UNCHANGED <<rows, graph, job, review, excused, asks>>

\* The rules and the model find nothing in a chunk, or the model's answer fails.
Barren(failed) ==
    LET c == worker.chunk IN
    /\ worker.at \in {"entities", "relations"} /\ c \in Chunks
    /\ worker' = [worker EXCEPT !.chunk = @ + 1,
                                !.failed = IF failed THEN @ \cup {c} ELSE @]
    /\ excused' = IF worker.at = "entities" THEN [excused EXCEPT !.mentions = @ \cup {c}]
                  ELSE excused
    /\ UNCHANGED <<rows, graph, job, review, asks>>

\* _merge_into: aliases are written as a whole, and only if the session's copy grew.
Folded(row, n) == [row EXCEPT !.aliases = @ \cup {n}]

\* (faults) The handler rolls back and goes on with the next chunk.
RolledBack == [worker EXCEPT !.at = "entities", !.chunk = @ + 1]

\* The chunk's exception is swallowed and the session never rolled back: every
\* later statement fails, the last of them the one that would end the job.
Poisoned == Idle

\* A mention of an entity that is gone is refused by its foreign key.
CommitEntity ==
    LET e == worker.target  n == worker.item  c == worker.chunk  row == worker.held.row
        new == IF row = Unused THEN NewRow(n) ELSE Folded(row, n)
    IN
    /\ worker.at = "write"
    /\ IF entity[e] = Gone
       THEN worker' = Poisoned /\ UNCHANGED rows
       ELSE /\ entity' = CASE row = Unused -> [entity EXCEPT ![e] = new]
                           [] row # Unused /\ new # row ->
                                 [entity EXCEPT ![e].aliases = new.aliases]
                           [] OTHER -> entity
            /\ profiled' = IF n \in Stocks THEN profiled \cup {e} ELSE profiled
            /\ mention' = [mention EXCEPT ![c] = [of |-> e, name |-> n]]
            /\ worker' = [worker EXCEPT !.at = "entities", !.chunk = @ + 1,
                                        !.held = [id |-> e, row |-> new]]
            /\ UNCHANGED relation
    /\ UNCHANGED <<graph, job, review, excused, asks>>

\* The document's last job refreshes the graph; the order of the two is open.
AfterExtraction(other) ==
    IF job[other] = "pending" THEN Idle ELSE [Idle EXCEPT !.at = "sync", !.seen = Live]

\* Every chunk failed: the job has failed, and no graph is refreshed.
FailEntities ==
    /\ worker.at = "entities" /\ worker.chunk > Last /\ worker.failed = Chunks
    /\ job' = [job EXCEPT !.entities = "failed"]
    /\ worker' = Idle
    /\ UNCHANGED <<rows, graph, review, excused, asks>>

\* The document's entities are listed and enriched, then the model translates them.
Touch ==
    /\ worker.at = "entities" /\ worker.chunk > Last /\ worker.failed # Chunks
    /\ worker' = [worker EXCEPT !.at = "translate",
                       !.seen = {mention[c].of : c \in {c \in Chunks : mention[c] # NoMention}}]
    /\ UNCHANGED <<rows, graph, job, review, excused, asks>>

\* A row the translation rewrites may be gone by then; its failure is swallowed too.
Translate(E) ==
    /\ worker.at = "translate" /\ E \subseteq worker.seen
    /\ IF E \subseteq Live
       THEN worker' = AfterExtraction("relations") /\ job' = [job EXCEPT !.entities = "succeeded"]
       ELSE worker' = Poisoned /\ UNCHANGED job
    /\ UNCHANGED <<rows, graph, review, excused, asks>>

-----------------------------------------------------------------------------
(* The worker: relations and the graph                                     *)

StartRelations ==
    /\ worker.at = "idle" /\ job.relations = "pending"
    /\ job' = [job EXCEPT !.relations = "running"]
    /\ worker' = [Idle EXCEPT !.at = "relations", !.chunk = 1]
    /\ UNCHANGED <<rows, graph, review, excused, asks>>

\* _find_entity: any entity with the normalized name, else one with the name.
Found(n) == IF ByNorm(n) # {} THEN ByNorm(n) ELSE {e \in Live : entity[e].name = n}

LookRelation(from, to) ==
    /\ worker.at = "relations" /\ worker.chunk \in Chunks
    /\ \E s \in Found(from), t \in Found(to) :
          worker' = [worker EXCEPT !.at = "relate", !.target = s, !.other = t]
    /\ UNCHANGED <<rows, graph, job, review, excused, asks>>

CommitRelation ==
    /\ worker.at = "relate"
    /\ IF {worker.target, worker.other} \subseteq Live
       THEN /\ relation' = [relation EXCEPT ![worker.chunk] = <<worker.target, worker.other>>]
            /\ worker' = [worker EXCEPT !.at = "relations", !.chunk = @ + 1]
       ELSE worker' = Poisoned /\ UNCHANGED relation
    /\ UNCHANGED <<entity, profiled, mention, graph, job, review, excused, asks>>

EndRelations ==
    /\ worker.at = "relations" /\ worker.chunk > Last
    /\ IF worker.failed = Chunks
       THEN /\ job' = [job EXCEPT !.relations = "failed"]
            /\ worker' = Idle
       ELSE /\ job' = [job EXCEPT !.relations = "succeeded"]
            /\ worker' = AfterExtraction("entities")
    /\ UNCHANGED <<rows, graph, review, excused, asks>>

\* sync_workspace: what was read is upserted; nothing ever leaves the store.
SyncWorkspace ==
    /\ worker.at = "sync"
    /\ graph' = graph \cup worker.seen
    /\ worker' = Idle
    /\ UNCHANGED <<rows, job, review, excused, asks>>

-----------------------------------------------------------------------------
(* Requests                                                                *)

Ask == review = NoReview /\ asks < MaxAsks /\ asks' = asks + 1
Others == UNCHANGED <<job, worker>>

Moved(r, keep, gone) == [i \in {1, 2} |-> IF r[i] = gone THEN keep ELSE r[i]]
AsPair(f) == <<f[1], f[2]>>

RepointMentions(keep, gone) ==
    [c \in Chunks |-> IF mention[c].of = gone THEN [mention[c] EXCEPT !.of = keep]
                      ELSE mention[c]]

\* (faults) The merge deletes every relation of the entity that goes.
DroppedRelations(keep, gone) ==
    [c \in Chunks |-> IF Touches(relation[c], {gone}) THEN NoRelation ELSE relation[c]]

\* What is left of a relation's ends, and the relations that would come to the same.
Image(c, keep, gone) == AsPair(Moved(relation[c], keep, gone))
Same(c, keep, gone) == {d \in Chunks : /\ Touches(relation[d], {keep})
                                       /\ Image(d, keep, gone) = Image(c, keep, gone)}
AnyOf(S) == CHOOSE d \in S : TRUE

\* _repoint_relations: self-loops go. The duplicates are searched for before the
\* moved rows are flushed, so only rows that touched keep all along collapse; which
\* of them stays is not told apart.
RepointRelations(keep, gone) ==
    LET Stays(c) == Touches(relation[c], {keep}) => c = AnyOf(Same(c, keep, gone))
        Loop(c) == /\ Touches(relation[c], {gone})
                   /\ Image(c, keep, gone)[1] = Image(c, keep, gone)[2]
    IN [c \in Chunks |-> IF Stays(c) /\ ~Loop(c) THEN Image(c, keep, gone) ELSE NoRelation]

MergeFields(keep, gone) ==
    [entity EXCEPT ![keep].aliases = @ \cup Keys(entity[gone]), ![gone] = Gone]

\* merge: one commit, then a sync. A profile of the entity that goes forbids it.
Mergeable(keep, gone) == keep # gone /\ {keep, gone} \subseteq Live /\ gone \notin profiled

Merged(keep, gone) ==
    /\ entity' = MergeFields(keep, gone)
    /\ mention' = RepointMentions(keep, gone)
    /\ relation' = RepointRelations(keep, gone)
    /\ graph' = graph \cup (Live \ {gone})
    /\ UNCHANGED <<profiled, excused>>

Merge(keep, gone) ==
    /\ Ask /\ Mergeable(keep, gone)
    /\ Merged(keep, gone)
    /\ Others /\ UNCHANGED review

\* auto_merge: the confirmed pairs are fixed before the first of them is merged.
\* Only one side of a pair comes first in the listing.
Candidates == {P \in SUBSET (Live \X Live) :
                  \A p \in P : /\ p[1] # p[2] /\ <<p[2], p[1]>> \notin P
                               /\ <<entity[p[1]].name, entity[p[2]].name>> \in Alike}

AutoMerge(P) ==
    /\ Ask /\ P \in Candidates /\ P # {}
    /\ review' = [pairs |-> P, consumed |-> {}]
    /\ Others /\ UNCHANGED <<rows, graph, excused>>

\* (faults) Only the entity that goes is looked up among the consumed.
SkippedByGone(p) == p[2] \in review.consumed

Skipped(p) == p[1] \in review.consumed \/ p[2] \in review.consumed

After(P, C) == IF P = {} THEN NoReview ELSE [pairs |-> P, consumed |-> C]

\* A merge the database refuses ends the request; the earlier ones stay.
NextPair(p) ==
    /\ p \in review.pairs
    /\ CASE Skipped(p) ->
              /\ review' = After(review.pairs \ {p}, review.consumed)
              /\ UNCHANGED <<rows, graph, excused>>
         [] ~Skipped(p) /\ Mergeable(p[1], p[2]) ->
              /\ review' = After(review.pairs \ {p}, review.consumed \cup {p[2]})
              /\ Merged(p[1], p[2])
         [] OTHER -> review' = NoReview /\ UNCHANGED <<rows, graph, excused>>
    /\ Others /\ UNCHANGED asks

\* cleanup: fragments and what the model calls invalid, with all that points there.
Cleanup(E) ==
    LET unsaid == {c \in Chunks : mention[c].of \in E}
        cut == {c \in Chunks : Touches(relation[c], E)} IN
    /\ Ask /\ E # {} /\ E \subseteq Live \ profiled
    /\ entity' = [e \in Ids |-> IF e \in E THEN Gone ELSE entity[e]]
    /\ mention' = [c \in Chunks |-> IF c \in unsaid THEN NoMention ELSE mention[c]]
    /\ relation' = [c \in Chunks |-> IF c \in cut THEN NoRelation ELSE relation[c]]
    /\ graph' = graph \cup (Live \ E)
    /\ excused' = [mentions |-> excused.mentions \cup unsaid,
                   relations |-> excused.relations \cup cut]
    /\ Others /\ UNCHANGED <<profiled, review>>

\* update_entity: a new name, or the aliases cleared; the normalized name stays.
Edited(row) == {[row EXCEPT !.name = n] : n \in Names}
                   \cup {[row EXCEPT !.aliases = {}]}

UpdateEntity(e, row) ==
    /\ Ask /\ e \in Live /\ row \in Edited(entity[e]) \ {entity[e]}
    /\ entity' = [entity EXCEPT ![e] = row]
    /\ Others /\ UNCHANGED <<profiled, mention, relation, graph, review, excused>>

-----------------------------------------------------------------------------
WorkerStep ==
    \/ StartEntities \/ CommitEntity \/ FailEntities \/ Touch
    \/ StartRelations \/ CommitRelation \/ EndRelations \/ SyncWorkspace
    \/ \E n \in Names : Look(n)
    \/ \E failed \in BOOLEAN : Barren(failed)
    \/ \E E \in SUBSET Ids : Translate(E)
    \/ \E from, to \in Names : LookRelation(from, to)

Request ==
    \/ \E keep, gone \in Ids : Merge(keep, gone)
    \/ \E P \in SUBSET (Ids \X Ids) : AutoMerge(P)
    \/ \E p \in Ids \X Ids : NextPair(p)
    \/ \E E \in SUBSET Ids : Cleanup(E)
    \/ \E e \in Ids : \E row \in Edited(entity[e]) : UpdateEntity(e, row)

Next == WorkerStep \/ Request
Spec == Init /\ [][Next]_vars

-----------------------------------------------------------------------------
(* Properties                                                              *)

\* Every variable has its type.
TypeOK ==
    /\ entity \in [Ids -> Row \cup Absent] /\ profiled \subseteq Ids /\ graph \subseteq Ids
    /\ mention \in [Chunks -> [of : Ids, name : Names] \cup {NoMention}]
    /\ relation \in [Chunks -> (Ids \X Ids) \cup {NoRelation}]
    /\ job \in [{"entities", "relations"} -> {"pending", "running", "succeeded", "failed"}]
    /\ worker.at \in {"idle", "entities", "write", "translate", "relations", "relate", "sync"}
    /\ review \in [pairs : SUBSET (Ids \X Ids), consumed : SUBSET Ids]
    /\ excused \in [mentions : SUBSET Chunks, relations : SUBSET Chunks] /\ asks \in 0..MaxAsks

\* A row of the extraction job says succeeded only if every chunk that yielded an
\* item has its mention, unless a cleanup removed it since, and once both jobs say
\* so and the worker rests the graph store has every entity that is mentioned:
\* a chunk whose commit the database refused may not be reported as done.
SucceededIsExtracted ==
    /\ job.entities = "succeeded" => \A c \in Chunks : mention[c] # NoMention \/ c \in excused.mentions
    /\ (job.relations = "succeeded" /\ worker.at = "idle")
         => \A c \in Chunks : mention[c] # NoMention => mention[c].of \in graph

\* No step loses evidence: a mention stays, with its entity or with the one that
\* entity was merged into, and a relation between two entities stays, as the same
\* row or as an equal one, unless a cleanup removed what it touches or its ends
\* were merged. The worker adds rows between any two commits of a merge.
Heir(e, f) ==
    \/ f = e
    \/ e \in Live /\ entity'[e] = Gone /\ f \in Live /\ Keys(entity[e]) \subseteq Keys(entity'[f])

EvidenceConserved ==
    [][\A c \in Chunks :
         /\ (mention[c] # NoMention /\ c \notin excused.mentions') =>
               mention'[c].name = mention[c].name /\ Heir(mention[c].of, mention'[c].of)
         /\ (relation[c] # NoRelation /\ c \notin excused.relations') =>
               \/ \E d \in Chunks : /\ Heir(relation[c][1], relation'[d][1])
                                    /\ Heir(relation[c][2], relation'[d][2])
               \/ \E e \in Ids : Heir(relation[c][1], e) /\ Heir(relation[c][2], e)]_vars

\* An automatic merge never meets an entity that one of its own merges took away:
\* the pairs it will still work on exist.
AutoMergeGoesOn == \A p \in review.pairs : ~Skipped(p) => {p[1], p[2]} \subseteq Live

=============================================================================
