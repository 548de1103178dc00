--------------------------- MODULE KnowledgeProofs ---------------------------
(***************************************************************************)
(* What the extraction of a document and the care of entities keep of each *)
(* other's work, for any number of chunks, entities, names and requests.   *)
(***************************************************************************)
EXTENDS Knowledge, TLAPS

Mentions(c) == mention[c] # NoMention
MentionsIn(S) == \A c \in Chunks : Mentions(c) => mention[c].of \in S

\* Every chunk has its mention or an excuse.
Extracted == \A c \in Chunks : Mentions(c) \/ c \in excused.mentions

-----------------------------------------------------------------------------
(* Types                                                                   *)

Stages == {"idle", "entities", "write", "translate", "relations", "relate", "sync"}
WorkerType ==
    [at : Stages, chunk : Nat, failed : SUBSET Chunks, target : Ids \cup {NoId},
     item : Names \cup {NoId}, other : Ids \cup {NoId},
     held : [id : Ids \cup {NoId}, row : Row \cup Absent], seen : SUBSET Ids]
MentionType == [of : Ids, name : Names] \cup {NoMention}
RelationType == (Ids \X Ids) \cup {NoRelation}

RowsTyped ==
    /\ entity \in [Ids -> Row \cup Absent] /\ profiled \subseteq Ids
    /\ mention \in [Chunks -> MentionType] /\ relation \in [Chunks -> RelationType]

Typed == TypeOK /\ worker \in WorkerType

\* The worker holds the entity it is to write, as it found it or as it wrote one last.
Holding ==
    /\ worker.held.id \in Ids =>
         IF worker.held.row = Unused THEN worker.at = "write" /\ entity[worker.held.id] = Unused
         ELSE worker.held.row # Gone /\ entity[worker.held.id] # Unused
    /\ worker.at = "write" => /\ worker.target \in Ids /\ worker.held.id = worker.target
                              /\ worker.item \in Names
    /\ worker.at \in {"write", "relate"} => worker.chunk \in Chunks

\* A row of the queue that runs is the worker's, one that waits has found nothing, and
\* the worker is where its chunk says.
JobsTold ==
    /\ worker.at \in {"entities", "write", "translate"} => job["entities"] = "running"
    /\ worker.at \in {"relations", "relate"} => job["relations"] = "running"
    /\ job["entities"] = "pending" => \A c \in Chunks : ~Mentions(c)
    /\ job["relations"] = "pending" => \A c \in Chunks : relation[c] = NoRelation
    /\ worker.at \in {"entities", "write"} => \A c \in Chunks :
          /\ c >= worker.chunk => ~Mentions(c)
          /\ c < worker.chunk => Mentions(c) \/ c \in excused.mentions
          /\ c \in worker.failed => c < worker.chunk /\ ~Mentions(c)
    /\ worker.at \in {"relations", "relate"} =>
          \A c \in Chunks : c >= worker.chunk => relation[c] = NoRelation
    /\ worker.at = "translate" \/ job["entities"] = "succeeded" => Extracted

MentionsLive == MentionsIn(Live)

\* What is mentioned is in the graph store or on its way there.  A removal fills the
\* store itself, so an extraction that fails because of one leaves nothing out.
Synced ==
    /\ worker.at = "idle" /\ job["relations"] = "succeeded" => MentionsIn(graph)
    /\ worker.at = "sync" => MentionsIn(graph \cup worker.seen)
    /\ worker.at = "write" /\ entity[worker.target] = Gone => MentionsIn(graph)
    /\ worker.at = "translate" /\ ~(worker.seen \subseteq Live) => MentionsIn(graph)

IInv == Typed /\ Holding /\ JobsTold /\ MentionsLive /\ Synced /\ AutoMergeGoesOn

\* A row of an entity is none of the marks for no row.
LEMMA RowsAreReal ==
  /\ \A r \in Row : r # Unused /\ r # Gone /\ r \notin Absent
  /\ Unused # Gone
  /\ \A m \in [of : Ids, name : Names] : m # NoMention
  /\ \A e \in Ids : e # NoId
  /\ NoMention.of = NoId
  BY KnowledgeAssumption DEF KnowledgeAssumption, Row, Unused, Gone, Absent, NoMention

LEMMA LiveRows ==
  ASSUME RowsTyped
  PROVE  /\ Live \subseteq Ids
         /\ \A e \in Ids : e \in Live <=> entity[e] \in Row
         /\ \A e \in Ids : e \in Live <=> entity[e] # Unused /\ entity[e] # Gone
         /\ \A e \in Live : Keys(entity[e]) \subseteq Names
<1>1. \A e \in Ids : entity[e] \in Row \cup Absent BY DEF RowsTyped
<1>2. \A e \in Ids : e \in Live <=> entity[e] # Unused /\ entity[e] # Gone
  BY DEF Live, Absent
<1>3. \A e \in Ids : e \in Live <=> entity[e] \in Row
  BY <1>1, <1>2, RowsAreReal DEF Absent
<1>4. \A e \in Live : Keys(entity[e]) \subseteq Names
  BY <1>3 DEF Keys, Row, Live
<1>5. QED BY <1>2, <1>3, <1>4 DEF Live

LEMMA TypedRows == TypeOK => RowsTyped
  BY DEF TypeOK, RowsTyped, MentionType, RelationType

LEMMA InitInv == Init => IInv
<1> SUFFICES ASSUME Init PROVE IInv
  OBVIOUS
<1>1. PICK f \in [Known -> Names] :
         /\ entity = [e \in Ids |-> IF e \in Known THEN NewRow(f[e]) ELSE Unused]
         /\ profiled = {e \in Known : f[e] \in Stocks}
  BY DEF Init
<1>2. entity \in [Ids -> Row \cup Absent] BY <1>1 DEF NewRow, Row, Absent
<1>3. /\ mention = [c \in Chunks |-> NoMention] /\ relation = [c \in Chunks |-> NoRelation]
      /\ job = [entities |-> "pending", relations |-> "pending"] /\ worker = Idle
      /\ review = NoReview /\ asks = 0 /\ graph = Known
      /\ excused = [mentions |-> {}, relations |-> {}]
  BY DEF Init
<1>4. Typed
  <2>1. profiled \subseteq Ids /\ graph \subseteq Ids
    BY <1>1, <1>3, KnowledgeAssumption DEF KnowledgeAssumption
  <2>2. job \in [{"entities", "relations"} -> {"pending", "running", "succeeded", "failed"}]
    BY <1>3
  <2>3. worker \in WorkerType BY <1>3 DEF Idle, NoHold, WorkerType, Stages, Absent
  <2>4. asks \in 0..MaxAsks BY <1>3, KnowledgeAssumption DEF KnowledgeAssumption
  <2>5. QED BY <1>2, <1>3, <2>1, <2>2, <2>3, <2>4 DEF Typed, TypeOK, NoReview, Idle
<1>5. Holding /\ JobsTold /\ Synced
  <2>1. worker.at = "idle" /\ worker.held.id = NoId BY <1>3 DEF Idle, NoHold
  <2>2. job["entities"] = "pending" /\ job["relations"] = "pending" BY <1>3
  <2>3. QED BY <1>3, <2>1, <2>2, RowsAreReal DEF Holding, JobsTold, Synced, Mentions
<1>6. MentionsLive BY <1>3 DEF MentionsLive, MentionsIn, Mentions
<1>7. AutoMergeGoesOn BY <1>3 DEF AutoMergeGoesOn, NoReview
<1>8. QED BY <1>4, <1>5, <1>6, <1>7 DEF IInv

-----------------------------------------------------------------------------
(* Evidence                                                                *)

\* What EvidenceConserved asks of a step.
Conserved ==
    \A c \in Chunks :
       /\ (mention[c] # NoMention /\ c \notin excused.mentions') =>
             mention'[c].name = mention[c].name /\ Heir(mention[c].of, mention'[c].of)
       /\ (relation[c] # NoRelation /\ c \notin excused.relations') =>
             \/ \E d \in Chunks : /\ Heir(relation[c][1], relation'[d][1])
                                  /\ Heir(relation[c][2], relation'[d][2])
             \/ \E e \in Ids : Heir(relation[c][1], e) /\ Heir(relation[c][2], e)

\* A step that leaves every mention and relation where it is.
LEMMA RowsStay ==
  ASSUME \A c \in Chunks : /\ Mentions(c) => mention'[c] = mention[c]
                           /\ relation[c] # NoRelation => relation'[c] = relation[c]
  PROVE  Conserved
  BY DEF Conserved, Mentions, Heir

-----------------------------------------------------------------------------
(* Requests                                                                *)

\* What a request may do to the rows while the worker stands still: entities go and are
\* not made, mentions go with an excuse, and what is left of them is in the store
\* when an entity has gone.
Considerate ==
    /\ job' = job /\ worker' = worker
    /\ \A e \in Ids : entity'[e] = Unused <=> entity[e] = Unused
    /\ \A c \in Chunks : /\ Mentions(c)' => Mentions(c)
                         /\ Mentions(c) => Mentions(c)' \/ c \in excused'.mentions
                         /\ relation[c] = NoRelation => relation'[c] = NoRelation
    /\ excused.mentions \subseteq excused'.mentions
    /\ MentionsIn(Live)'
    /\ \/ MentionsIn(graph)'
       \/ /\ mention' = mention /\ graph' = graph /\ Live' = Live
          /\ \A e \in Ids : entity'[e] = Gone => entity[e] = Gone

LEMMA RequestKeeps ==
  ASSUME Typed, Holding, JobsTold, MentionsLive, Synced, Considerate
  PROVE  Holding' /\ JobsTold' /\ MentionsLive' /\ Synced'
<1>1. worker' = worker /\ job' = job BY DEF Considerate
<1>2. Holding' BY <1>1 DEF Holding, Considerate
<1>3. \A c \in Chunks : Mentions(c) \/ c \in excused.mentions
                           => Mentions(c)' \/ c \in excused'.mentions
  BY DEF Considerate
<1>4. \A c \in Chunks : ~Mentions(c) => ~Mentions(c)' BY DEF Considerate
<1>5. Extracted => Extracted' BY <1>3 DEF Extracted
<1>6. JobsTold'
  BY <1>1, <1>3, <1>4, <1>5 DEF JobsTold, Considerate
<1>7. MentionsLive' BY DEF Considerate, MentionsLive
<1>8. Synced'
  <2>1. CASE MentionsIn(graph)'
    BY <2>1 DEF Synced, MentionsIn
  <2>2. CASE /\ mention' = mention /\ graph' = graph /\ Live' = Live
             /\ \A e \in Ids : entity'[e] = Gone => entity[e] = Gone
    BY <1>1, <2>2 DEF Synced, MentionsIn, Mentions, Holding
  <2>3. QED BY <2>1, <2>2 DEF Considerate
<1>9. QED BY <1>2, <1>6, <1>7, <1>8

-----------------------------------------------------------------------------
(* Two entities become one                                                 *)

LEMMA MergeEntities ==
  ASSUME RowsTyped, NEW keep \in Ids, NEW gone \in Ids, Mergeable(keep, gone),
         Merged(keep, gone)
  PROVE  /\ entity' \in [Ids -> Row \cup Absent] /\ Live' = Live \ {gone}
         /\ entity'[gone] = Gone /\ Keys(entity[gone]) \subseteq Keys(entity'[keep])
         /\ keep \in Live /\ gone \in Live /\ keep # gone
         /\ \A e \in Ids : entity'[e] = Unused <=> entity[e] = Unused
<1>1. keep \in Live /\ gone \in Live /\ keep # gone BY DEF Mergeable
<1>2. entity[keep] \in Row /\ entity[gone] \in Row /\ Keys(entity[gone]) \subseteq Names
  BY <1>1, LiveRows
<1>3. PICK row : row = [entity[keep] EXCEPT !.aliases = @ \cup Keys(entity[gone])]
  OBVIOUS
<1>4. row \in Row /\ Keys(entity[gone]) \subseteq Keys(row) BY <1>2, <1>3 DEF Row, Keys
<1>5. /\ entity' \in [Ids -> Row \cup Absent] /\ entity'[gone] = Gone /\ entity'[keep] = row
      /\ \A e \in Ids \ {keep, gone} : entity'[e] = entity[e]
  BY <1>1, <1>3, <1>4 DEF Merged, MergeFields, RowsTyped, Absent
<1>6. Live' = Live \ {gone}
  <2>1. row \notin Absent /\ entity[keep] \notin Absent /\ Gone \in Absent
    BY <1>2, <1>4, RowsAreReal DEF Absent
  <2>2. QED BY <1>1, <1>5, <2>1 DEF Live
<1>7. \A e \in Ids : entity'[e] = Unused <=> entity[e] = Unused
  BY <1>2, <1>4, <1>5, RowsAreReal
<1>8. QED BY <1>1, <1>4, <1>5, <1>6, <1>7

LEMMA MergeMentions ==
  ASSUME RowsTyped, MentionsLive, NEW keep \in Ids, NEW gone \in Ids, Mergeable(keep, gone),
         Merged(keep, gone)
  PROVE  /\ mention' \in [Chunks -> MentionType]
         /\ \A c \in Chunks : /\ Mentions(c)' <=> Mentions(c)
                              /\ Mentions(c) => /\ mention'[c].name = mention[c].name
                                                /\ Heir(mention[c].of, mention'[c].of)
                                                /\ mention'[c].of \in Live \ {gone}
<1>1. /\ keep \in Live /\ gone \in Live /\ keep # gone /\ entity'[gone] = Gone
      /\ Keys(entity[gone]) \subseteq Keys(entity'[keep])
  BY MergeEntities
<1>2. ASSUME NEW c \in Chunks
      PROVE  /\ mention'[c] \in MentionType /\ (Mentions(c)' <=> Mentions(c))
             /\ Mentions(c) => /\ mention'[c].name = mention[c].name
                               /\ Heir(mention[c].of, mention'[c].of)
                               /\ mention'[c].of \in Live \ {gone}
  <2>1. mention'[c] = IF mention[c].of = gone THEN [mention[c] EXCEPT !.of = keep] ELSE mention[c]
    BY DEF Merged, RepointMentions
  <2>2. mention[c] \in MentionType BY DEF RowsTyped
  <2>3. CASE mention[c].of = gone
    <3>1. mention[c] \in [of : Ids, name : Names]
      BY <2>2, <2>3, RowsAreReal DEF MentionType
    <3>2. mention'[c] \in [of : Ids, name : Names] /\ mention'[c].of = keep
          /\ mention'[c].name = mention[c].name
      BY <2>1, <2>3, <3>1
    <3>3. Mentions(c)' /\ Mentions(c) BY <3>1, <3>2, RowsAreReal DEF Mentions
    <3>4. Heir(mention[c].of, mention'[c].of) BY <1>1, <2>3, <3>2 DEF Heir
    <3>5. QED BY <1>1, <3>2, <3>3, <3>4 DEF MentionType
  <2>4. CASE mention[c].of # gone
    <3>1. mention'[c] = mention[c] BY <2>1, <2>4
    <3>2. QED BY <2>2, <2>4, <3>1 DEF Mentions, Heir, MentionsLive, MentionsIn
  <2>5. QED BY <2>3, <2>4
<1>3. mention' \in [Chunks -> MentionType]
  BY <1>2 DEF Merged, RepointMentions
<1>4. QED BY <1>2, <1>3

\* Where a relation's end is after the merge.
LEMMA ImageIs ==
  ASSUME RowsTyped, NEW keep \in Ids, NEW gone \in Ids, NEW c \in Chunks
  PROVE  /\ Image(c, keep, gone) = <<IF relation[c][1] = gone THEN keep ELSE relation[c][1],
                                     IF relation[c][2] = gone THEN keep ELSE relation[c][2]>>
         /\ relation[c] = NoRelation => Image(c, keep, gone) = NoRelation
         /\ relation[c] # NoRelation => relation[c] \in Ids \X Ids
                                        /\ Image(c, keep, gone) \in Ids \X Ids
<1>1. relation[c] \in RelationType BY DEF RowsTyped
<1>2. Image(c, keep, gone) = <<IF relation[c][1] = gone THEN keep ELSE relation[c][1],
                               IF relation[c][2] = gone THEN keep ELSE relation[c][2]>>
  BY DEF Image, AsPair, Moved
<1>3. relation[c] = NoRelation => Image(c, keep, gone) = NoRelation
  BY <1>2, RowsAreReal DEF NoRelation
<1>4. QED BY <1>1, <1>2, <1>3 DEF RelationType

\* Of relations that come to the same one is kept, and each of them knows which.
LEMMA OneOfTheSame ==
  ASSUME NEW keep \in Ids, NEW gone \in Ids, NEW c \in Chunks, Touches(relation[c], {keep})
  PROVE  \E d \in Same(c, keep, gone) :
            /\ d \in Chunks /\ Touches(relation[d], {keep})
            /\ Image(d, keep, gone) = Image(c, keep, gone)
            /\ d = AnyOf(Same(d, keep, gone)) /\ d = AnyOf(Same(c, keep, gone))
<1>1. c \in Same(c, keep, gone) BY DEF Same
<1>2. AnyOf(Same(c, keep, gone)) \in Same(c, keep, gone) BY <1>1 DEF AnyOf
<1>3. PICK d : d = AnyOf(Same(c, keep, gone)) OBVIOUS
<1>4. d \in Chunks /\ Touches(relation[d], {keep}) /\ Image(d, keep, gone) = Image(c, keep, gone)
  BY <1>2, <1>3 DEF Same
<1>5. Same(d, keep, gone) = Same(c, keep, gone) BY <1>4 DEF Same
<1>6. d = AnyOf(Same(d, keep, gone)) BY <1>3, <1>5
<1>7. QED BY <1>2, <1>3, <1>4, <1>6

LEMMA MergeRelations ==
  ASSUME RowsTyped, NEW keep \in Ids, NEW gone \in Ids, Mergeable(keep, gone),
         Merged(keep, gone)
  PROVE  /\ relation' \in [Chunks -> RelationType]
         /\ \A c \in Chunks : relation[c] = NoRelation => relation'[c] = NoRelation
         /\ \A c \in Chunks : relation[c] # NoRelation =>
               \/ \E d \in Chunks : /\ Heir(relation[c][1], relation'[d][1])
                                    /\ Heir(relation[c][2], relation'[d][2])
               \/ \E e \in Ids : Heir(relation[c][1], e) /\ Heir(relation[c][2], e)
<1> DEFINE Loops(c) == Touches(relation[c], {gone})
                       /\ Image(c, keep, gone)[1] = Image(c, keep, gone)[2]
           Kept(c) == Touches(relation[c], {keep}) => c = AnyOf(Same(c, keep, gone))
<1>1. \A c \in Chunks : relation'[c] = IF Kept(c) /\ ~Loops(c) THEN Image(c, keep, gone)
                                       ELSE NoRelation
  BY DEF Merged, RepointRelations
<1>2. relation' \in [Chunks -> RelationType]
  BY <1>1, ImageIs DEF Merged, RepointRelations, RelationType
<1>3. \A c \in Chunks : relation[c] = NoRelation => relation'[c] = NoRelation
  BY <1>1, ImageIs
<1>4. /\ Heir(gone, keep) /\ \A e : Heir(e, e)
  BY MergeEntities DEF Heir
<1>5. ASSUME NEW c \in Chunks, relation[c] # NoRelation
      PROVE  /\ Heir(relation[c][1], Image(c, keep, gone)[1])
             /\ Heir(relation[c][2], Image(c, keep, gone)[2])
             /\ Image(c, keep, gone) \in Ids \X Ids
  <2>1. PICK p : p = Image(c, keep, gone) OBVIOUS
  <2>2. p[1] = (IF relation[c][1] = gone THEN keep ELSE relation[c][1])
        /\ p[2] = (IF relation[c][2] = gone THEN keep ELSE relation[c][2])
        /\ p \in Ids \X Ids
    <3>1. p \in Ids \X Ids BY <1>5, <2>1, ImageIs
    <3>2. p = <<IF relation[c][1] = gone THEN keep ELSE relation[c][1],
                IF relation[c][2] = gone THEN keep ELSE relation[c][2]>>
      BY <2>1, ImageIs
    <3>3. QED BY <3>1, <3>2
  <2>3. Heir(relation[c][1], p[1])
    <3>1. CASE relation[c][1] = gone BY <1>4, <2>2, <3>1
    <3>2. CASE relation[c][1] # gone BY <1>4, <2>2, <3>2
    <3>3. QED BY <3>1, <3>2
  <2>4. Heir(relation[c][2], p[2])
    <3>1. CASE relation[c][2] = gone BY <1>4, <2>2, <3>1
    <3>2. CASE relation[c][2] # gone BY <1>4, <2>2, <3>2
    <3>3. QED BY <3>1, <3>2
  <2>5. QED BY <2>1, <2>2, <2>3, <2>4
<1>6. ASSUME NEW c \in Chunks, relation[c] # NoRelation
      PROVE  \/ \E d \in Chunks : /\ Heir(relation[c][1], relation'[d][1])
                                  /\ Heir(relation[c][2], relation'[d][2])
             \/ \E e \in Ids : Heir(relation[c][1], e) /\ Heir(relation[c][2], e)
  <2>1. PICK p \in Ids \X Ids : /\ p = Image(c, keep, gone)
                                /\ Heir(relation[c][1], p[1]) /\ Heir(relation[c][2], p[2])
    BY <1>5, <1>6
  <2>2. CASE p[1] = p[2] BY <2>1, <2>2
  <2>3. CASE p[1] # p[2] /\ Kept(c)
    <3>1. relation'[c] = p BY <1>1, <2>1, <2>3
    <3>2. QED BY <2>1, <3>1
  <2>4. CASE p[1] # p[2] /\ ~Kept(c)
    <3>1. PICK d \in Chunks : Image(d, keep, gone) = p /\ d = AnyOf(Same(d, keep, gone))
      BY <2>1, <2>4, OneOfTheSame
    <3>2. relation'[d] = p BY <1>1, <2>4, <3>1
    <3>3. QED BY <2>1, <3>2
  <2>5. QED BY <2>2, <2>3, <2>4
<1>7. QED BY <1>2, <1>3, <1>6

\* A merge takes nothing with it.
LEMMA MergedStep ==
  ASSUME RowsTyped, MentionsLive, NEW keep \in Ids, NEW gone \in Ids, Mergeable(keep, gone),
         Merged(keep, gone), Others
  PROVE  Considerate /\ Conserved /\ RowsTyped' /\ Live' = Live \ {gone}
         /\ graph' = graph \cup (Live \ {gone}) /\ excused' = excused
<1>1. excused' = excused /\ graph' = graph \cup (Live \ {gone}) /\ profiled' = profiled
  BY DEF Merged
<1>2. /\ entity' \in [Ids -> Row \cup Absent] /\ Live' = Live \ {gone}
      /\ \A e \in Ids : entity'[e] = Unused <=> entity[e] = Unused
  BY MergeEntities
<1>3. /\ mention' \in [Chunks -> MentionType]
      /\ \A c \in Chunks : /\ Mentions(c)' <=> Mentions(c)
                           /\ Mentions(c) => /\ mention'[c].name = mention[c].name
                                             /\ Heir(mention[c].of, mention'[c].of)
                                             /\ mention'[c].of \in Live \ {gone}
  BY MergeMentions
<1>4. RowsTyped' BY <1>1, <1>2, <1>3, MergeRelations DEF RowsTyped
<1>5. MentionsIn(Live)' /\ MentionsIn(graph)' BY <1>1, <1>2, <1>3 DEF MentionsIn
<1>6. Considerate
  BY <1>1, <1>2, <1>3, <1>5, MergeRelations DEF Considerate, Others
<1>7. Conserved
  <2>1. \A c \in Chunks : mention[c] # NoMention =>
           mention'[c].name = mention[c].name /\ Heir(mention[c].of, mention'[c].of)
    BY <1>3 DEF Mentions
  <2>2. QED BY <2>1, MergeRelations DEF Conserved
<1>8. QED BY <1>1, <1>2, <1>4, <1>6, <1>7

-----------------------------------------------------------------------------
(* Every request                                                           *)

\* What is common to a request that is considerate.
LEMMA RequestParts ==
  ASSUME IInv, Considerate, RowsTyped', graph' \subseteq Ids,
         review' \in [pairs : SUBSET (Ids \X Ids), consumed : SUBSET Ids],
         excused' \in [mentions : SUBSET Chunks, relations : SUBSET Chunks],
         asks' \in 0..MaxAsks, AutoMergeGoesOn'
  PROVE  IInv'
<1>1. Typed /\ Holding /\ JobsTold /\ MentionsLive /\ Synced BY DEF IInv
<1>2. Typed'
  BY <1>1 DEF Typed, TypeOK, RowsTyped, Considerate, MentionType, RelationType
<1>3. QED BY <1>1, <1>2, RequestKeeps DEF IInv

LEMMA Asking == TypeOK /\ Ask => asks' \in 0..MaxAsks
  BY KnowledgeAssumption DEF KnowledgeAssumption, TypeOK, Ask

LEMMA NoReviewTyped ==
  /\ NoReview \in [pairs : SUBSET (Ids \X Ids), consumed : SUBSET Ids]
  /\ (review' = NoReview => AutoMergeGoesOn')
  BY DEF NoReview, AutoMergeGoesOn

LEMMA MergeStep ==
  ASSUME IInv, NEW keep \in Ids, NEW gone \in Ids, Merge(keep, gone)
  PROVE  IInv' /\ Conserved
<1>1. TypeOK /\ RowsTyped /\ MentionsLive BY TypedRows DEF IInv, Typed
<1>2. Considerate /\ Conserved /\ RowsTyped' /\ graph' = graph \cup (Live \ {gone})
      /\ excused' = excused
  BY <1>1, MergedStep DEF Merge
<1>3. graph' \subseteq Ids BY <1>1, <1>2 DEF TypeOK, Live
<1>4. review' = NoReview /\ asks' \in 0..MaxAsks BY <1>1, Asking DEF Merge, Ask
<1>5. excused' \in [mentions : SUBSET Chunks, relations : SUBSET Chunks] BY <1>1, <1>2 DEF TypeOK
<1>6. IInv' BY <1>2, <1>3, <1>4, <1>5, NoReviewTyped, RequestParts
<1>7. QED BY <1>2, <1>6

\* A request that changes no mention and no relation.
LEMMA NothingMoves ==
  ASSUME IInv, UNCHANGED <<mention, relation, graph, profiled, excused, job, worker>>,
         entity' \in [Ids -> Row \cup Absent],
         \A e \in Ids : /\ entity'[e] = Unused <=> entity[e] = Unused
                        /\ entity'[e] = Gone <=> entity[e] = Gone
  PROVE  Considerate /\ Conserved /\ RowsTyped' /\ Live' = Live
<1>1. RowsTyped /\ MentionsLive BY TypedRows DEF IInv, Typed
<1>2. RowsTyped' BY <1>1 DEF RowsTyped
<1>3. Live' = Live BY DEF Live, Absent
<1>4. Considerate BY <1>1, <1>3 DEF Considerate, MentionsLive, MentionsIn, Mentions
<1>5. Conserved BY RowsStay DEF Mentions
<1>6. QED BY <1>2, <1>3, <1>4, <1>5

LEMMA AutoMergeStep ==
  ASSUME IInv, NEW P \in SUBSET (Ids \X Ids), AutoMerge(P)
  PROVE  IInv' /\ Conserved
<1>1. TypeOK /\ RowsTyped BY TypedRows DEF IInv, Typed
<1>2. /\ UNCHANGED <<entity, mention, relation, graph, profiled, excused, job, worker>>
      /\ P \in SUBSET (Live \X Live) /\ review' = [pairs |-> P, consumed |-> {}]
  BY DEF AutoMerge, Others, rows, Candidates
<1>3. Considerate /\ Conserved /\ RowsTyped' /\ Live' = Live
  BY <1>1, <1>2, NothingMoves DEF RowsTyped
<1>4. review' \in [pairs : SUBSET (Ids \X Ids), consumed : SUBSET Ids] BY <1>2
<1>5. AutoMergeGoesOn' BY <1>2, <1>3 DEF AutoMergeGoesOn
<1>6. asks' \in 0..MaxAsks BY <1>1, Asking DEF AutoMerge
<1>7. graph' \subseteq Ids /\ excused' \in [mentions : SUBSET Chunks, relations : SUBSET Chunks]
  BY <1>1, <1>2 DEF TypeOK
<1>8. IInv' BY <1>3, <1>4, <1>5, <1>6, <1>7, RequestParts
<1>9. QED BY <1>3, <1>8

\* What is left of an automatic merge when a pair has been dealt with.
LEMMA AfterPair ==
  ASSUME TypeOK, NEW p \in review.pairs, NEW C \in SUBSET Ids,
         review' = After(review.pairs \ {p}, C),
         \A q \in review.pairs \ {p} : q[1] \in C \/ q[2] \in C \/ {q[1], q[2]} \subseteq Live'
  PROVE  /\ review' \in [pairs : SUBSET (Ids \X Ids), consumed : SUBSET Ids]
         /\ AutoMergeGoesOn'
<1>1. review.pairs \in SUBSET (Ids \X Ids) BY DEF TypeOK
<1>2. CASE review.pairs \ {p} = {}
  BY <1>2, NoReviewTyped DEF After
<1>3. CASE review.pairs \ {p} # {}
  <2>1. PICK Q : Q = review.pairs \ {p} OBVIOUS
  <2>2. review' = [pairs |-> Q, consumed |-> C] BY <1>3, <2>1 DEF After
  <2>3. review'.pairs = Q /\ review'.consumed = C BY ONLY <2>2
  <2>4. AutoMergeGoesOn' BY <2>1, <2>3 DEF AutoMergeGoesOn, Skipped
  <2>5. Q \in SUBSET (Ids \X Ids) /\ C \in SUBSET Ids BY <1>1, <2>1
  <2>6. review' \in [pairs : SUBSET (Ids \X Ids), consumed : SUBSET Ids] BY ONLY <2>2, <2>5
  <2>7. QED BY <2>4, <2>6
<1>4. QED BY <1>2, <1>3

LEMMA NextPairStep ==
  ASSUME IInv, NEW p \in Ids \X Ids, NextPair(p)
  PROVE  IInv' /\ Conserved
<1>1. TypeOK /\ RowsTyped /\ MentionsLive /\ AutoMergeGoesOn BY TypedRows DEF IInv, Typed
<1>2. /\ p \in review.pairs /\ Others /\ asks' = asks /\ p[1] \in Ids /\ p[2] \in Ids
      /\ asks' \in 0..MaxAsks
  BY <1>1 DEF NextPair, TypeOK
<1>3. review.consumed \subseteq Ids BY <1>1 DEF TypeOK
<1>4. CASE UNCHANGED <<rows, graph, excused>>
           /\ (review' = After(review.pairs \ {p}, review.consumed) \/ review' = NoReview)
  <2>1. Considerate /\ Conserved /\ RowsTyped' /\ Live' = Live
    BY <1>1, <1>2, <1>4, NothingMoves DEF rows, RowsTyped, Others
  <2>2. CASE review' = NoReview
    <3>1. graph' \subseteq Ids /\ excused' \in [mentions : SUBSET Chunks, relations : SUBSET Chunks]
      BY <1>1, <1>4 DEF TypeOK
    <3>2. IInv' BY <1>2, <2>1, <2>2, <3>1, NoReviewTyped, RequestParts
    <3>3. QED BY <2>1, <3>2
  <2>3. CASE review' = After(review.pairs \ {p}, review.consumed)
    <3>1. graph' \subseteq Ids /\ excused' \in [mentions : SUBSET Chunks, relations : SUBSET Chunks]
      BY <1>1, <1>4 DEF TypeOK
    <3>2. \A q \in review.pairs \ {p} : \/ q[1] \in review.consumed \/ q[2] \in review.consumed
                                        \/ {q[1], q[2]} \subseteq Live'
      BY <1>1, <2>1 DEF AutoMergeGoesOn, Skipped
    <3>3. /\ review' \in [pairs : SUBSET (Ids \X Ids), consumed : SUBSET Ids]
          /\ AutoMergeGoesOn'
      BY <1>1, <1>2, <1>3, <2>3, <3>2, AfterPair
    <3>4. IInv' BY <1>2, <2>1, <3>1, <3>3, RequestParts
    <3>5. QED BY <2>1, <3>4
  <2>4. QED BY <1>4, <2>2, <2>3
<1>5. CASE /\ Mergeable(p[1], p[2]) /\ Merged(p[1], p[2])
           /\ review' = After(review.pairs \ {p}, review.consumed \cup {p[2]})
  <2>1. PICK keep \in Ids, gone \in Ids : keep = p[1] /\ gone = p[2] BY <1>2
  <2>2. Considerate /\ Conserved /\ RowsTyped' /\ Live' = Live \ {gone}
        /\ graph' = graph \cup (Live \ {gone}) /\ excused' = excused
    BY <1>1, <1>2, <1>5, <2>1, MergedStep
  <2>3. graph' \subseteq Ids /\ excused' \in [mentions : SUBSET Chunks, relations : SUBSET Chunks]
    BY <1>1, <2>2 DEF TypeOK, Live
  <2>4. PICK C \in SUBSET Ids : C = review.consumed \cup {gone} BY <1>3
  <2>5. \A q \in review.pairs \ {p} : q[1] \in C \/ q[2] \in C \/ {q[1], q[2]} \subseteq Live'
    BY <1>1, <2>2, <2>4 DEF AutoMergeGoesOn, Skipped
  <2>6. review' = After(review.pairs \ {p}, C) BY <1>5, <2>1, <2>4
  <2>7. /\ review' \in [pairs : SUBSET (Ids \X Ids), consumed : SUBSET Ids]
        /\ AutoMergeGoesOn'
    BY <1>1, <1>2, <2>5, <2>6, AfterPair
  <2>8. IInv' BY <1>2, <2>2, <2>3, <2>7, RequestParts
  <2>9. QED BY <2>2, <2>8
<1>6. QED BY <1>4, <1>5 DEF NextPair

LEMMA UpdateStep ==
  ASSUME IInv, NEW e \in Ids, NEW row \in Edited(entity[e]), UpdateEntity(e, row)
  PROVE  IInv' /\ Conserved
<1>1. TypeOK /\ RowsTyped BY TypedRows DEF IInv, Typed
<1>2. entity[e] \in Row BY <1>1, LiveRows DEF UpdateEntity
<1>3. row \in Row BY <1>2 DEF Edited, Row
<1>4. /\ UNCHANGED <<mention, relation, graph, profiled, excused, job, worker, review>>
      /\ entity' = [entity EXCEPT ![e] = row]
  BY DEF UpdateEntity, Others
<1>5. entity' \in [Ids -> Row \cup Absent] BY <1>1, <1>3, <1>4 DEF RowsTyped
<1>6. \A f \in Ids : /\ entity'[f] = Unused <=> entity[f] = Unused
                     /\ entity'[f] = Gone <=> entity[f] = Gone
  BY <1>1, <1>2, <1>3, <1>4, RowsAreReal DEF RowsTyped
<1>7. Considerate /\ Conserved /\ RowsTyped' BY <1>4, <1>5, <1>6, NothingMoves
<1>8. review' = NoReview /\ asks' \in 0..MaxAsks
  BY <1>1, <1>4, Asking DEF UpdateEntity, Ask
<1>9. graph' \subseteq Ids /\ excused' \in [mentions : SUBSET Chunks, relations : SUBSET Chunks]
  BY <1>1, <1>4 DEF TypeOK
<1>10. IInv' BY <1>7, <1>8, <1>9, NoReviewTyped, RequestParts
<1>11. QED BY <1>7, <1>10

\* A cleanup takes mentions and relations away and says so.
LEMMA CleanupStep ==
  ASSUME IInv, NEW E \in SUBSET Ids, Cleanup(E)
  PROVE  IInv' /\ Conserved
<1> DEFINE unsaid == {c \in Chunks : mention[c].of \in E}
           cut == {c \in Chunks : Touches(relation[c], E)}
<1>1. TypeOK /\ RowsTyped /\ MentionsLive BY TypedRows DEF IInv, Typed
<1>2. /\ entity' = [e \in Ids |-> IF e \in E THEN Gone ELSE entity[e]]
      /\ mention' = [c \in Chunks |-> IF c \in unsaid THEN NoMention ELSE mention[c]]
      /\ relation' = [c \in Chunks |-> IF c \in cut THEN NoRelation ELSE relation[c]]
      /\ graph' = graph \cup (Live \ E)
      /\ excused' = [mentions |-> excused.mentions \cup unsaid,
                     relations |-> excused.relations \cup cut]
      /\ profiled' = profiled /\ review' = review /\ E \subseteq Live
      /\ job' = job /\ worker' = worker
  BY DEF Cleanup, Others
<1>3. excused \in [mentions : SUBSET Chunks, relations : SUBSET Chunks] BY <1>1 DEF TypeOK
<1>4. excused' \in [mentions : SUBSET Chunks, relations : SUBSET Chunks]
      /\ excused'.mentions = excused.mentions \cup unsaid
      /\ excused'.relations = excused.relations \cup cut
  BY <1>2, <1>3
<1>5. RowsTyped'
  <2>1. entity' \in [Ids -> Row \cup Absent] BY <1>1, <1>2 DEF RowsTyped, Absent
  <2>2. mention' \in [Chunks -> MentionType] BY <1>1, <1>2 DEF RowsTyped, MentionType
  <2>3. relation' \in [Chunks -> RelationType] BY <1>1, <1>2 DEF RowsTyped, RelationType
  <2>4. QED BY <1>1, <1>2, <2>1, <2>2, <2>3 DEF RowsTyped
<1>6. Live' = Live \ E BY <1>2 DEF Live, Absent
<1>7. \A e \in Ids : entity'[e] = Unused <=> entity[e] = Unused
  BY <1>1, <1>2, LiveRows, RowsAreReal
<1>8. \A c \in Chunks : /\ c \in unsaid => ~Mentions(c)'
                        /\ c \notin unsaid => mention'[c] = mention[c]
  BY <1>2 DEF Mentions
<1>9. MentionsIn(Live)' /\ MentionsIn(graph)'
  <2>1. ASSUME NEW c \in Chunks, Mentions(c)' PROVE mention'[c].of \in Live \ E
    BY <1>1, <1>8, <2>1 DEF MentionsLive, MentionsIn, Mentions
  <2>2. QED BY <1>2, <1>6, <2>1 DEF MentionsIn
<1>10. Considerate
  <2>1. \A c \in Chunks : /\ Mentions(c)' => Mentions(c)
                          /\ Mentions(c) => Mentions(c)' \/ c \in excused'.mentions
                          /\ relation[c] = NoRelation => relation'[c] = NoRelation
    BY <1>2, <1>4, <1>8 DEF Mentions
  <2>2. QED BY <1>2, <1>4, <1>7, <1>9, <2>1 DEF Considerate
<1>11. Conserved
  <2>1. \A c \in Chunks : c \notin excused'.mentions => mention'[c] = mention[c]
    BY <1>4, <1>8
  <2>2. \A c \in Chunks : c \notin excused'.relations => relation'[c] = relation[c]
    BY <1>2, <1>4
  <2>3. QED BY <2>1, <2>2 DEF Conserved, Heir
<1>12. review' = NoReview /\ asks' \in 0..MaxAsks
  BY <1>1, <1>2, Asking DEF Cleanup, Ask
<1>13. graph' \subseteq Ids BY <1>1, <1>2 DEF TypeOK, Live
<1>14. IInv' BY <1>4, <1>5, <1>10, <1>12, <1>13, NoReviewTyped, RequestParts
<1>15. QED BY <1>11, <1>14

-----------------------------------------------------------------------------
(* The worker                                                              *)

JobType == [{"entities", "relations"} -> {"pending", "running", "succeeded", "failed"}]

\* A step of the worker that writes none of the rows of entities.
LEMMA WorkerReads ==
  ASSUME IInv, UNCHANGED <<rows, graph, review, excused, asks>>,
         worker' \in WorkerType, job' \in JobType, Holding', JobsTold', Synced'
  PROVE  IInv' /\ Conserved
<1>1. Typed' BY DEF IInv, Typed, TypeOK, rows, WorkerType, Stages, JobType
<1>2. MentionsLive' BY DEF IInv, MentionsLive, MentionsIn, Mentions, Live, rows
<1>3. AutoMergeGoesOn' BY DEF IInv, AutoMergeGoesOn, Skipped, Live, rows
<1>4. Conserved BY RowsStay DEF rows
<1>5. QED BY <1>1, <1>2, <1>3, <1>4 DEF IInv

LEMMA WorkerFacts ==
  ASSUME IInv
  PROVE  /\ worker \in WorkerType /\ job \in JobType /\ RowsTyped /\ graph \subseteq Ids
         /\ Holding /\ JobsTold /\ MentionsIn(Live) /\ Synced
         /\ Chunks \subseteq Nat /\ Last \in Nat /\ 1 \in Chunks
         /\ excused \in [mentions : SUBSET Chunks, relations : SUBSET Chunks]
  BY TypedRows, KnowledgeAssumption
     DEF KnowledgeAssumption, IInv, Typed, TypeOK, JobType, MentionsLive, Chunks

\* A worker that is idle holds nothing.
LEMMA IdleTyped ==
  /\ Idle \in WorkerType /\ Idle.at = "idle" /\ Idle.held.id \notin Ids
  /\ \A S \in SUBSET Ids :
        /\ [Idle EXCEPT !.at = "sync", !.seen = S] \in WorkerType
        /\ [Idle EXCEPT !.at = "sync", !.seen = S].at = "sync"
        /\ [Idle EXCEPT !.at = "sync", !.seen = S].seen = S
        /\ [Idle EXCEPT !.at = "sync", !.seen = S].held.id \notin Ids
  /\ \A stage \in {"entities", "relations"} :
        /\ [Idle EXCEPT !.at = stage, !.chunk = 1] \in WorkerType
        /\ [Idle EXCEPT !.at = stage, !.chunk = 1].at = stage
        /\ [Idle EXCEPT !.at = stage, !.chunk = 1].chunk = 1
        /\ [Idle EXCEPT !.at = stage, !.chunk = 1].failed = {}
        /\ [Idle EXCEPT !.at = stage, !.chunk = 1].held.id \notin Ids
  BY RowsAreReal DEF Idle, NoHold, WorkerType, Stages, Absent

LEMMA StartStep ==
  ASSUME IInv, StartEntities \/ StartRelations
  PROVE  IInv' /\ Conserved
<1>1. /\ worker \in WorkerType /\ job \in JobType /\ JobsTold /\ Chunks \subseteq Nat
      /\ \A c \in Chunks : c >= 1
  BY WorkerFacts DEF Chunks
<1>2. UNCHANGED <<rows, graph, review, excused, asks>> BY DEF StartEntities, StartRelations
<1>3. PICK w : w = worker' OBVIOUS
<1>4. CASE StartEntities
  <2>1. /\ w \in WorkerType /\ w.at = "entities" /\ w.chunk = 1 /\ w.failed = {}
        /\ w.held.id \notin Ids
    BY <1>3, <1>4, IdleTyped DEF StartEntities
  <2>2. /\ job' \in JobType /\ job'["entities"] = "running" /\ job["entities"] = "pending"
        /\ job'["relations"] = job["relations"]
    BY <1>1, <1>4 DEF StartEntities, JobType
  <2>3. Holding' /\ Synced' BY <1>3, <2>1 DEF Holding, Synced
  <2>4. JobsTold'
    BY <1>1, <1>2, <1>3, <2>1, <2>2 DEF JobsTold, Mentions, rows
  <2>5. QED BY <1>2, <1>3, <2>1, <2>2, <2>3, <2>4, WorkerReads
<1>5. CASE StartRelations
  <2>1. /\ w \in WorkerType /\ w.at = "relations" /\ w.chunk = 1 /\ w.held.id \notin Ids
    BY <1>3, <1>5, IdleTyped DEF StartRelations
  <2>2. /\ job' \in JobType /\ job'["relations"] = "running" /\ job["relations"] = "pending"
        /\ job'["entities"] = job["entities"]
    BY <1>1, <1>5 DEF StartRelations, JobType
  <2>3. Holding' /\ Synced' BY <1>3, <2>1 DEF Holding, Synced
  <2>4. JobsTold'
    BY <1>1, <1>2, <1>3, <2>1, <2>2 DEF JobsTold, Mentions, rows, Extracted
  <2>5. QED BY <1>2, <1>3, <2>1, <2>2, <2>3, <2>4, WorkerReads
<1>6. QED BY <1>4, <1>5

\* What is found for a name is alive, or an identifier that was never used.
LEMMA ResolvedIs ==
  ASSUME RowsTyped, worker \in WorkerType, Holding, worker.at # "write", NEW n,
         NEW e \in Resolved(n)
  PROVE  /\ e \in Ids /\ entity[e] # Gone /\ View(e) \in Row \cup Absent /\ View(e) # Gone
         /\ View(e) = Unused <=> entity[e] = Unused
<1>1. e \in Live \/ (e \in Ids /\ entity[e] = Unused)
  <2>1. CASE e \in Live BY <2>1
  <2>2. CASE e \notin Live
    <3>1. e \in Fresh /\ \E f \in Ids : entity[f] = Unused
      BY <2>2 DEF Resolved, ByNorm, ByAlias, ByModel
    <3>2. QED BY <3>1 DEF Fresh
  <2>3. QED BY <2>1, <2>2
<1>2. e \in Ids /\ entity[e] # Gone BY <1>1, LiveRows, RowsAreReal
<1>3. CASE worker.held.id = e
  <2>1. worker.held.row # Unused /\ worker.held.row # Gone /\ entity[e] # Unused
    BY <1>2, <1>3 DEF Holding
  <2>2. worker.held.row \in Row \cup Absent BY DEF WorkerType
  <2>3. QED BY <1>2, <1>3, <2>1, <2>2 DEF View
<1>4. CASE worker.held.id # e
  BY <1>2, <1>4 DEF View, RowsTyped
<1>5. QED BY <1>2, <1>3, <1>4

LEMMA LookStep ==
  ASSUME IInv, NEW n \in Names, Look(n)
  PROVE  IInv' /\ Conserved
<1>1. /\ worker \in WorkerType /\ job \in JobType /\ RowsTyped /\ Holding /\ JobsTold
      /\ worker.at = "entities" /\ worker.chunk \in Chunks
      /\ UNCHANGED <<rows, graph, job, review, excused, asks>>
  BY WorkerFacts DEF Look
<1>2. PICK e \in Resolved(n) :
         worker' = [worker EXCEPT !.at = "write", !.target = e, !.item = n,
                                  !.held = [id |-> e, row |-> View(e)]]
  BY DEF Look
<1>3. /\ e \in Ids /\ entity[e] # Gone /\ View(e) \in Row \cup Absent /\ View(e) # Gone
      /\ View(e) = Unused <=> entity[e] = Unused
  BY <1>1, ResolvedIs
<1>4. PICK row \in Row \cup Absent : row = View(e) BY <1>3
<1>5. /\ worker' \in WorkerType /\ worker'.at = "write" /\ worker'.target = e
      /\ worker'.item = n /\ worker'.held = [id |-> e, row |-> row]
      /\ worker'.chunk = worker.chunk /\ worker'.failed = worker.failed
  BY <1>1, <1>2, <1>3, <1>4 DEF WorkerType, Stages
<1>6. worker'.held.id = e /\ worker'.held.row = row BY <1>5
<1>7. Holding' BY <1>1, <1>3, <1>4, <1>5, <1>6 DEF Holding, rows
<1>8. JobsTold' BY <1>1, <1>5 DEF JobsTold, Mentions, rows, Extracted
<1>9. Synced' BY <1>1, <1>3, <1>5 DEF Synced, rows
<1>10. QED BY <1>1, <1>5, <1>7, <1>8, <1>9, WorkerReads

\* A chunk without an item.
LEMMA BarrenStep ==
  ASSUME IInv, NEW failed \in BOOLEAN, Barren(failed)
  PROVE  IInv' /\ Conserved
<1> PICK c : c = worker.chunk OBVIOUS
<1>1. /\ worker \in WorkerType /\ job \in JobType /\ RowsTyped /\ Holding /\ JobsTold
      /\ Chunks \subseteq Nat
      /\ excused \in [mentions : SUBSET Chunks, relations : SUBSET Chunks]
  BY WorkerFacts
<1>2. /\ worker.at \in {"entities", "relations"} /\ c \in Chunks
      /\ excused' = IF worker.at = "entities" THEN [excused EXCEPT !.mentions = @ \cup {c}]
                    ELSE excused
      /\ UNCHANGED <<rows, graph, job, review, asks>>
  BY DEF Barren
<1>3. /\ worker' \in WorkerType /\ worker'.at = worker.at /\ worker'.chunk = c + 1
      /\ worker'.failed \subseteq worker.failed \cup {c} /\ worker'.held = worker.held
  <2>1. PICK F \in {worker.failed, worker.failed \cup {c}} :
           worker' = [worker EXCEPT !.chunk = @ + 1, !.failed = F]
    <3>1. CASE failed = TRUE BY <3>1 DEF Barren
    <3>2. CASE failed = FALSE BY <3>2 DEF Barren
    <3>3. QED BY <3>1, <3>2
  <2>2. F \in SUBSET Chunks BY <1>1, <1>2, <2>1 DEF WorkerType
  <2>3. PICK n \in Nat : n = c + 1 BY <1>1, <1>2
  <2>4. worker' = [worker EXCEPT !.chunk = n, !.failed = F] BY <2>1, <2>3
  <2>5. worker' \in WorkerType BY ONLY <1>1, <2>2, <2>4, n \in Nat DEF WorkerType
  <2>6. /\ worker'.at = worker.at /\ worker'.chunk = n
        /\ worker'.failed = F /\ worker'.held = worker.held
    BY ONLY <1>1, <2>4 DEF WorkerType
  <2>7. QED BY <2>1, <2>3, <2>5, <2>6
<1>4. /\ excused' \in [mentions : SUBSET Chunks, relations : SUBSET Chunks]
      /\ excused.mentions \subseteq excused'.mentions
      /\ worker.at = "entities" => c \in excused'.mentions
  BY <1>1, <1>2
<1>5. Holding' BY <1>1, <1>2, <1>3 DEF Holding, rows
<1>6. JobsTold'
  <2>1. UNCHANGED <<mention, relation, job>> BY <1>2 DEF rows
  <2>2. \A d \in Chunks : /\ d >= c + 1 => d >= c
                          /\ d < c + 1 => d < c \/ d = c
                          /\ d < c => d < c + 1
    BY <1>1, <1>2
  <2>6. c < c + 1
    BY <1>1, <1>2
  <2>3. CASE worker.at = "entities"
    <3>1. \A d \in Chunks : /\ d >= c + 1 => ~Mentions(d)
                            /\ d < c + 1 => Mentions(d) \/ d \in excused'.mentions
                            /\ d \in worker'.failed => d < c + 1 /\ ~Mentions(d)
      <4>1. \A d \in Chunks : /\ d >= c => ~Mentions(d)
                              /\ d < c => Mentions(d) \/ d \in excused.mentions
                              /\ d \in worker.failed => d < c /\ ~Mentions(d)
        BY <1>1, <2>3 DEF JobsTold
      <4>2. ~Mentions(c) BY <1>1, <1>2, <4>1
      <4>3. QED BY <1>3, <1>4, <2>2, <2>3, <2>6, <4>1, <4>2
    <3>2. job["entities"] = "running" BY <1>1, <2>3 DEF JobsTold
    <3>3. QED BY <1>1, <1>3, <2>1, <2>3, <3>1, <3>2 DEF JobsTold, Mentions
  <2>4. CASE worker.at = "relations"
    <3>1. excused' = excused BY <1>2, <2>4
    <3>2. QED BY <1>1, <1>3, <2>1, <2>2, <2>4, <3>1 DEF JobsTold, Mentions, Extracted
  <2>5. QED BY <1>2, <2>3, <2>4
<1>7. Synced' BY <1>2, <1>3 DEF Synced
<1>8. MentionsLive' /\ AutoMergeGoesOn'
  BY <1>2 DEF IInv, MentionsLive, MentionsIn, Mentions, AutoMergeGoesOn, Skipped, Live, rows
<1>9. Typed' BY <1>2, <1>3, <1>4 DEF IInv, Typed, TypeOK, rows, WorkerType, Stages
<1>10. Conserved BY <1>2, RowsStay DEF rows
<1>11. QED BY <1>5, <1>6, <1>7, <1>8, <1>9, <1>10 DEF IInv

\* The worker's chunk is written: an entity is made, or one that is alive is added to.
LEMMA CommitEntityStep ==
  ASSUME IInv, CommitEntity
  PROVE  IInv' /\ Conserved
<1> PICK e : e = worker.target OBVIOUS
<1> PICK n : n = worker.item OBVIOUS
<1> PICK c : c = worker.chunk OBVIOUS
<1> PICK row : row = worker.held.row OBVIOUS
<1>1. /\ worker \in WorkerType /\ job \in JobType /\ RowsTyped /\ Holding /\ JobsTold
      /\ MentionsIn(Live) /\ Synced /\ Chunks \subseteq Nat
  BY WorkerFacts
<1>2. /\ worker.at = "write" /\ e \in Ids /\ n \in Names /\ c \in Chunks
      /\ worker.held.id = e /\ row \in Row \cup Absent
      /\ UNCHANGED <<graph, job, review, excused, asks>>
  BY <1>1 DEF CommitEntity, Holding, WorkerType
<1>3. job["entities"] = "running" BY <1>1, <1>2 DEF JobsTold
<1> c \in Nat BY ONLY <1>1, <1>2
<1>4. \A d \in Chunks : d \in Nat BY <1>1
<1>5. \A d \in Chunks : /\ d >= c => ~Mentions(d)
                        /\ d < c => Mentions(d) \/ d \in excused.mentions
                        /\ d \in worker.failed => d < c /\ ~Mentions(d)
  BY <1>1, <1>2 DEF JobsTold
<1>6. CASE entity[e] = Gone
  <2>1. worker' = Idle /\ UNCHANGED rows BY <1>6 DEF CommitEntity, Poisoned
  <2>2. worker' \in WorkerType /\ worker'.at = "idle" /\ worker'.held.id \notin Ids
    BY <2>1, IdleTyped
  <2>3. Holding' BY <2>2 DEF Holding
  <2>4. JobsTold' BY <1>1, <1>2, <1>3, <2>1, <2>2 DEF JobsTold, Mentions, rows, Extracted
  <2>5. MentionsIn(graph) BY <1>1, <1>2, <1>6 DEF Synced
  <2>6. Synced' BY <1>2, <2>1, <2>2, <2>5 DEF Synced, MentionsIn, Mentions, rows
  <2>7. QED BY <1>1, <1>2, <2>1, <2>2, <2>3, <2>4, <2>6, WorkerReads
<1>7. CASE entity[e] # Gone
  <2>1. PICK new : new = IF row = Unused THEN NewRow(n) ELSE Folded(row, n) OBVIOUS
  <2>2. /\ entity' = CASE row = Unused -> [entity EXCEPT ![e] = new]
                       [] row # Unused /\ new # row -> [entity EXCEPT ![e].aliases = new.aliases]
                       [] OTHER -> entity
        /\ profiled' = IF n \in Stocks THEN profiled \cup {e} ELSE profiled
        /\ mention' = [mention EXCEPT ![c] = [of |-> e, name |-> n]]
        /\ worker' = [worker EXCEPT !.at = "entities", !.chunk = @ + 1,
                                    !.held = [id |-> e, row |-> new]]
        /\ UNCHANGED relation
    BY <1>7, <2>1 DEF CommitEntity
  <2>3. /\ row = Unused => entity[e] = Unused
        /\ row # Unused => row \in Row /\ entity[e] \in Row
    BY <1>1, <1>2, <1>7, LiveRows, RowsAreReal DEF Holding, Absent
  <2>4. new \in Row
    <3>1. CASE row = Unused BY <1>2, <2>1, <3>1 DEF NewRow, Row
    <3>2. CASE row # Unused BY <1>2, <2>1, <2>3, <3>2 DEF Folded, Row
    <3>3. QED BY <3>1, <3>2
  <2>5. /\ entity' \in [Ids -> Row \cup Absent] /\ entity'[e] \in Row
        /\ \A f \in Ids : f # e => entity'[f] = entity[f]
    <3>1. CASE row = Unused BY <1>1, <1>2, <2>2, <2>4, <3>1 DEF RowsTyped
    <3>2. CASE row # Unused /\ new # row
      <4>1. entity' = [entity EXCEPT ![e].aliases = new.aliases] BY <2>2, <3>2
      <4>2. PICK r : r = [entity[e] EXCEPT !.aliases = new.aliases] OBVIOUS
      <4>3. r \in Row BY <2>3, <2>4, <3>2, <4>2 DEF Row
      <4>4. QED BY <1>1, <1>2, <4>1, <4>2, <4>3 DEF RowsTyped
    <3>3. CASE row # Unused /\ new = row BY <1>1, <1>2, <2>2, <2>3, <3>3 DEF RowsTyped
    <3>4. QED BY <3>1, <3>2, <3>3
  <2>6. Live \subseteq Live' /\ e \in Live'
    BY <1>2, <2>5, RowsAreReal DEF Live
  <2>7. PICK m \in [of : Ids, name : Names] : m = [of |-> e, name |-> n] BY <1>2
  <2>8. /\ mention' \in [Chunks -> MentionType] /\ mention'[c] = m
        /\ \A d \in Chunks : d # c => mention'[d] = mention[d]
    BY <1>1, <1>2, <2>2, <2>7 DEF RowsTyped, MentionType
  <2>9. /\ Mentions(c)' /\ mention'[c].of = e
        /\ \A d \in Chunks : d # c => (Mentions(d)' <=> Mentions(d))
    BY <2>7, <2>8, RowsAreReal DEF Mentions
  <2>10. RowsTyped'
    <3>1. profiled' \subseteq Ids BY <1>1, <1>2, <2>2 DEF RowsTyped
    <3>2. QED BY <1>1, <2>2, <2>5, <2>8, <3>1 DEF RowsTyped
  <2>11. PICK k \in Nat : k = c + 1 OBVIOUS
  <2>12. PICK h \in [id : Ids \cup {NoId}, row : Row \cup Absent] : h = [id |-> e, row |-> new]
    BY <1>2, <2>4
  <2>13. worker' = [worker EXCEPT !.at = "entities", !.chunk = k, !.held = h]
    BY <2>2, <2>11, <2>12
  <2>14. /\ worker' \in WorkerType /\ worker'.at = "entities" /\ worker'.chunk = k
         /\ worker'.failed = worker.failed /\ worker'.held = h
    BY ONLY <1>1, <2>13, k \in Nat, h \in [id : Ids \cup {NoId}, row : Row \cup Absent]
       DEF WorkerType, Stages
  <2>15. h.id = e /\ h.row = new BY <2>12
  <2>16. Holding' BY <2>4, <2>5, <2>14, <2>15, RowsAreReal DEF Holding
  <2>17. JobsTold'
    <3>2. \A d \in Chunks : /\ d >= c + 1 => d >= c /\ d # c
                            /\ d < c + 1 => d < c \/ d = c
                            /\ d < c => d # c /\ d < c + 1
      BY <1>4
    <3>3. \A d \in Chunks : /\ d >= k => ~Mentions(d)'
                            /\ d < k => Mentions(d)' \/ d \in excused'.mentions
                            /\ d \in worker'.failed => d < k /\ ~Mentions(d)'
      BY <1>2, <2>9, <2>11, <2>14, <1>5, <3>2
    <3>4. job' = job /\ relation' = relation BY <1>2, <2>2
    <3>5. QED BY <1>1, <1>3, <2>14, <3>3, <3>4 DEF JobsTold
  <2>18. MentionsLive'
    BY <1>1, <2>6, <2>8, <2>9 DEF MentionsLive, MentionsIn
  <2>19. Synced' BY <2>14 DEF Synced
  <2>20. AutoMergeGoesOn' BY <1>2, <2>6 DEF IInv, AutoMergeGoesOn, Skipped
  <2>21. Typed'
    BY <1>2, <2>10, <2>14
       DEF IInv, Typed, TypeOK, RowsTyped, MentionType, RelationType, WorkerType, Stages
  <2>22. Conserved
    <3>1. c >= c /\ ~Mentions(c) BY <1>2, <1>5
    <3>2. QED BY <2>2, <2>8, <3>1, RowsStay
  <2>23. QED BY <2>16, <2>17, <2>18, <2>19, <2>20, <2>21, <2>22 DEF IInv
<1>8. QED BY <1>6, <1>7

LEMMA FailEntitiesStep ==
  ASSUME IInv, FailEntities
  PROVE  IInv' /\ Conserved
<1>1. /\ worker \in WorkerType /\ job \in JobType /\ JobsTold /\ worker.at = "entities"
      /\ worker.failed = Chunks /\ worker' = Idle
      /\ job' = [job EXCEPT !.entities = "failed"]
      /\ UNCHANGED <<rows, graph, review, excused, asks>>
  BY WorkerFacts DEF FailEntities
<1>2. worker' \in WorkerType /\ worker'.at = "idle" /\ worker'.held.id \notin Ids
  BY <1>1, IdleTyped
<1>3. job' \in JobType /\ job'["entities"] = "failed" /\ job'["relations"] = job["relations"]
  BY <1>1 DEF JobType
<1>4. \A c \in Chunks : ~Mentions(c) BY <1>1 DEF JobsTold
<1>5. Holding' BY <1>2 DEF Holding
<1>6. JobsTold' BY <1>1, <1>2, <1>3 DEF JobsTold, rows
<1>7. Synced' BY <1>1, <1>2, <1>4 DEF Synced, MentionsIn, Mentions, rows
<1>8. QED BY <1>1, <1>2, <1>3, <1>5, <1>6, <1>7, WorkerReads

LEMMA TouchStep ==
  ASSUME IInv, Touch
  PROVE  IInv' /\ Conserved
<1>1. /\ worker \in WorkerType /\ job \in JobType /\ Holding /\ JobsTold /\ RowsTyped
      /\ MentionsIn(Live) /\ worker.at = "entities" /\ worker.chunk > Last
      /\ UNCHANGED <<rows, graph, job, review, excused, asks>>
  BY WorkerFacts DEF Touch
<1>2. PICK seen : seen = {mention[c].of : c \in {c \in Chunks : mention[c] # NoMention}}
  OBVIOUS
<1>3. seen \subseteq Live BY <1>1, <1>2 DEF MentionsIn, Mentions
<1>4. seen \subseteq Ids BY <1>3 DEF Live
<1>5. /\ worker' \in WorkerType /\ worker'.at = "translate" /\ worker'.seen = seen
      /\ worker'.held = worker.held
  BY <1>1, <1>2, <1>4 DEF Touch, WorkerType, Stages
<1>6. Holding' BY <1>1, <1>5 DEF Holding, rows
<1>7. Extracted
  <2>1. \A c \in Chunks : c < worker.chunk
    BY <1>1, KnowledgeAssumption DEF Chunks, WorkerType, KnowledgeAssumption
  <2>2. QED BY <1>1, <2>1 DEF JobsTold, Extracted
<1>8. JobsTold' BY <1>1, <1>5, <1>7 DEF JobsTold, Mentions, rows, Extracted
<1>9. Synced' BY <1>1, <1>3, <1>5 DEF Synced, Live, rows
<1>10. QED BY <1>1, <1>5, <1>6, <1>8, <1>9, WorkerReads

\* The last of the two jobs leaves what it read to be synced.
LEMMA AfterExtractionIs ==
  ASSUME NEW other \in {"entities", "relations"}
  PROVE  /\ AfterExtraction(other) \in WorkerType /\ AfterExtraction(other).held.id \notin Ids
         /\ job[other] = "pending" => AfterExtraction(other).at = "idle"
         /\ job[other] # "pending" => /\ AfterExtraction(other).at = "sync"
                                      /\ AfterExtraction(other).seen = Live
<1>1. PICK S \in SUBSET Ids : S = Live BY DEF Live
<1>2. CASE job[other] = "pending" BY <1>2, IdleTyped DEF AfterExtraction
<1>3. CASE job[other] # "pending" BY <1>1, <1>3, IdleTyped DEF AfterExtraction
<1>4. QED BY <1>2, <1>3

LEMMA TranslateStep ==
  ASSUME IInv, NEW E \in SUBSET Ids, Translate(E)
  PROVE  IInv' /\ Conserved
<1>1. /\ worker \in WorkerType /\ job \in JobType /\ JobsTold /\ Synced /\ MentionsIn(Live)
      /\ worker.at = "translate" /\ E \subseteq worker.seen
      /\ UNCHANGED <<rows, graph, review, excused, asks>>
  BY WorkerFacts DEF Translate
<1>2. Extracted BY <1>1 DEF JobsTold
<1>3. Extracted' BY <1>1, <1>2 DEF Extracted, Mentions, rows
<1>4. CASE E \subseteq Live
  <2>1. PICK w : w = AfterExtraction("relations") OBVIOUS
  <2>2. worker' = w /\ job' = [job EXCEPT !.entities = "succeeded"]
    BY <1>4, <2>1 DEF Translate
  <2>3. /\ w \in WorkerType /\ w.held.id \notin Ids
        /\ job["relations"] = "pending" => w.at = "idle"
        /\ job["relations"] # "pending" => w.at = "sync" /\ w.seen = Live
    BY <2>1, AfterExtractionIs
  <2>4. job' \in JobType /\ job'["entities"] = "succeeded"
        /\ job'["relations"] = job["relations"]
    BY <1>1, <2>2 DEF JobType
  <2>5. w.at \in {"idle", "sync"} BY <2>3
  <2>6. Holding' BY <2>2, <2>3, <2>5 DEF Holding
  <2>7. JobsTold' BY <1>1, <1>3, <2>2, <2>4, <2>5 DEF JobsTold, rows
  <2>8. Synced' BY <1>1, <2>2, <2>3, <2>4 DEF Synced, MentionsIn, Mentions, rows
  <2>9. QED BY <1>1, <2>2, <2>3, <2>4, <2>6, <2>7, <2>8, WorkerReads
<1>5. CASE ~(E \subseteq Live)
  <2>1. worker' = Idle /\ job' = job BY <1>5 DEF Translate, Poisoned
  <2>2. worker' \in WorkerType /\ worker'.at = "idle" /\ worker'.held.id \notin Ids
    BY <2>1, IdleTyped
  <2>3. Holding' BY <2>2 DEF Holding
  <2>4. JobsTold' BY <1>1, <1>3, <2>1, <2>2 DEF JobsTold, Mentions, rows
  <2>5. MentionsIn(graph) BY <1>1, <1>5 DEF Synced
  <2>6. Synced' BY <1>1, <2>2, <2>5 DEF Synced, MentionsIn, Mentions, rows
  <2>7. QED BY <1>1, <2>1, <2>2, <2>3, <2>4, <2>6, WorkerReads
<1>6. QED BY <1>4, <1>5

LEMMA LookRelationStep ==
  ASSUME IInv, NEW from \in Names, NEW to \in Names, LookRelation(from, to)
  PROVE  IInv' /\ Conserved
<1>1. /\ worker \in WorkerType /\ job \in JobType /\ Holding /\ JobsTold
      /\ worker.at = "relations" /\ worker.chunk \in Chunks
      /\ UNCHANGED <<rows, graph, job, review, excused, asks>>
  BY WorkerFacts DEF LookRelation
<1>2. PICK s \in Found(from), t \in Found(to) :
         worker' = [worker EXCEPT !.at = "relate", !.target = s, !.other = t]
  BY DEF LookRelation
<1>3. s \in Ids /\ t \in Ids BY <1>2 DEF Found, ByNorm, Live
<1>4. /\ worker' \in WorkerType /\ worker'.at = "relate"
      /\ worker'.held = worker.held /\ worker'.chunk = worker.chunk
  BY <1>1, <1>2, <1>3 DEF WorkerType, Stages
<1>5. Holding' BY <1>1, <1>4 DEF Holding, rows
<1>6. JobsTold' BY <1>1, <1>4 DEF JobsTold, Mentions, rows, Extracted
<1>7. Synced' BY <1>4 DEF Synced
<1>8. QED BY <1>1, <1>4, <1>5, <1>6, <1>7, WorkerReads

LEMMA CommitRelationStep ==
  ASSUME IInv, CommitRelation
  PROVE  IInv' /\ Conserved
<1> PICK c : c = worker.chunk OBVIOUS
<1> PICK pair : pair = <<worker.target, worker.other>> OBVIOUS
<1>1. /\ worker \in WorkerType /\ job \in JobType /\ RowsTyped /\ Holding /\ JobsTold
      /\ Chunks \subseteq Nat /\ worker.at = "relate" /\ MentionsIn(Live)
      /\ UNCHANGED <<entity, profiled, mention, graph, job, review, excused, asks>>
  BY WorkerFacts DEF CommitRelation
<1>2. c \in Chunks /\ job["relations"] = "running" BY <1>1 DEF Holding, JobsTold
<1> c \in Nat BY ONLY <1>1, <1>2
<1>3. \A d \in Chunks : d >= c => relation[d] = NoRelation BY <1>1 DEF JobsTold
<1>4. CASE {worker.target, worker.other} \subseteq Live
  <2>1. PICK k \in Nat : k = c + 1 OBVIOUS
  <2>2. /\ relation' = [relation EXCEPT ![c] = pair]
        /\ worker' = [worker EXCEPT !.at = "relations", !.chunk = k]
    BY <1>4, <2>1 DEF CommitRelation
  <2>3. pair \in Ids \X Ids BY <1>4 DEF Live
  <2>4. /\ relation' \in [Chunks -> RelationType]
        /\ \A d \in Chunks : d # c => relation'[d] = relation[d]
    BY <1>1, <1>2, <2>2, <2>3 DEF RowsTyped, RelationType
  <2>5. /\ worker' \in WorkerType /\ worker'.at = "relations" /\ worker'.chunk = k
        /\ worker'.held = worker.held
    BY ONLY <1>1, <2>2, k \in Nat DEF WorkerType, Stages
  <2>6. Holding' BY <1>1, <2>5 DEF Holding
  <2>7. \A d \in Chunks : d >= k => d >= c /\ d # c BY <1>1, <2>1
  <2>8. \A d \in Chunks : d >= k => relation'[d] = NoRelation BY <1>3, <2>4, <2>7
  <2>9. JobsTold' BY <1>1, <1>2, <2>5, <2>8 DEF JobsTold, Mentions, Extracted
  <2>10. Synced' BY <2>5 DEF Synced
  <2>11. Typed'
    BY <1>1, <2>4, <2>5 DEF IInv, Typed, TypeOK, RelationType, WorkerType, Stages
  <2>12. MentionsLive' /\ AutoMergeGoesOn'
    BY <1>1
       DEF IInv, MentionsLive, MentionsIn, Mentions, AutoMergeGoesOn, Skipped, Live
  <2>13. Conserved
    <3>1. c >= c /\ relation[c] = NoRelation BY <1>2, <1>3
    <3>2. QED BY <1>1, <2>4, <3>1, RowsStay
  <2>14. QED BY <2>6, <2>9, <2>10, <2>11, <2>12, <2>13 DEF IInv
<1>5. CASE ~({worker.target, worker.other} \subseteq Live)
  <2>1. worker' = Idle /\ UNCHANGED rows BY <1>1, <1>5 DEF CommitRelation, Poisoned, rows
  <2>2. worker' \in WorkerType /\ worker'.at = "idle" /\ worker'.held.id \notin Ids
    BY <2>1, IdleTyped
  <2>3. Holding' /\ Synced' BY <1>1, <1>2, <2>2 DEF Holding, Synced
  <2>4. JobsTold' BY <1>1, <1>2, <2>1, <2>2 DEF JobsTold, Mentions, rows, Extracted
  <2>5. QED BY <1>1, <2>1, <2>2, <2>3, <2>4, WorkerReads
<1>6. QED BY <1>4, <1>5

LEMMA EndRelationsStep ==
  ASSUME IInv, EndRelations
  PROVE  IInv' /\ Conserved
<1>1. /\ worker \in WorkerType /\ job \in JobType /\ JobsTold /\ MentionsIn(Live)
      /\ worker.at = "relations" /\ UNCHANGED <<rows, graph, review, excused, asks>>
  BY WorkerFacts DEF EndRelations
<1>2. PICK w : w = worker' OBVIOUS
<1>3. PICK told \in {"failed", "succeeded"} :
         /\ job' = [job EXCEPT !.relations = told]
         /\ w = IF told = "failed" THEN Idle ELSE AfterExtraction("entities")
  BY <1>2 DEF EndRelations
<1>4. job' \in JobType /\ job'["relations"] = told /\ job'["entities"] = job["entities"]
  BY <1>1, <1>3 DEF JobType
<1>5. /\ w \in WorkerType /\ w.held.id \notin Ids /\ w.at \in {"idle", "sync"}
      /\ told = "succeeded" /\ w.at = "idle" => job["entities"] = "pending"
      /\ w.at = "sync" => w.seen = Live
  BY <1>3, IdleTyped, AfterExtractionIs
<1>6. Holding' BY <1>2, <1>5 DEF Holding
<1>7. JobsTold' BY <1>1, <1>2, <1>4, <1>5 DEF JobsTold, Mentions, rows, Extracted
<1>8. MentionsIn(Live)' BY <1>1 DEF MentionsIn, Mentions, Live, rows
<1>9. Synced'
  <2>1. worker'.at = "idle" /\ job'["relations"] = "succeeded" => MentionsIn(graph)'
    BY <1>1, <1>2, <1>4, <1>5, <1>7 DEF JobsTold, MentionsIn
  <2>2. worker'.at = "sync" => worker'.seen = Live' BY <1>1, <1>2, <1>5 DEF Live, rows
  <2>3. QED BY <1>2, <1>5, <1>8, <2>1, <2>2 DEF Synced, MentionsIn
<1>10. QED BY <1>1, <1>2, <1>4, <1>5, <1>6, <1>7, <1>9, WorkerReads

\* What the worker read is added to the store.
LEMMA SyncStep ==
  ASSUME IInv, SyncWorkspace
  PROVE  IInv' /\ Conserved
<1>1. /\ worker \in WorkerType /\ job \in JobType /\ JobsTold /\ Synced /\ graph \subseteq Ids
      /\ worker.at = "sync" /\ worker' = Idle /\ graph' = graph \cup worker.seen
      /\ UNCHANGED <<rows, job, review, excused, asks>>
  BY WorkerFacts DEF SyncWorkspace
<1>2. worker' \in WorkerType /\ worker'.at = "idle" /\ worker'.held.id \notin Ids
  BY <1>1, IdleTyped
<1>3. graph' \subseteq Ids BY <1>1 DEF WorkerType
<1>4. Typed' BY <1>1, <1>2, <1>3 DEF IInv, Typed, TypeOK, rows, WorkerType, Stages
<1>5. Holding' BY <1>2 DEF Holding
<1>6. JobsTold' BY <1>1, <1>2 DEF JobsTold, Mentions, rows, Extracted
<1>7. MentionsIn(graph)' BY <1>1 DEF Synced, MentionsIn, Mentions, rows
<1>8. Synced' BY <1>2, <1>7 DEF Synced
<1>9. MentionsLive' /\ AutoMergeGoesOn'
  BY <1>1
     DEF IInv, MentionsLive, MentionsIn, Mentions, AutoMergeGoesOn, Skipped, Live, rows
<1>10. Conserved BY <1>1, RowsStay DEF rows
<1>11. QED BY <1>4, <1>5, <1>6, <1>8, <1>9, <1>10 DEF IInv

-----------------------------------------------------------------------------
(* The specification                                                       *)

LEMMA NothingHappens ==
  ASSUME IInv, UNCHANGED vars
  PROVE  IInv' /\ Conserved
<1>1. UNCHANGED <<rows, graph, job, worker, review, excused, asks>> BY DEF vars
<1>2. worker' \in WorkerType /\ job' \in JobType BY <1>1, WorkerFacts
<1>3. Holding' BY <1>1, WorkerFacts DEF Holding, rows
<1>4. JobsTold' BY <1>1, WorkerFacts DEF JobsTold, Mentions, rows, Extracted
<1>5. Synced' BY <1>1, WorkerFacts DEF Synced, MentionsIn, Mentions, Live, rows
<1>6. QED BY <1>1, <1>2, <1>3, <1>4, <1>5, WorkerReads

LEMMA StepInv == IInv /\ [Next]_vars => IInv' /\ Conserved
<1> SUFFICES ASSUME IInv, [Next]_vars PROVE IInv' /\ Conserved
  OBVIOUS
<1>1. CASE UNCHANGED vars BY <1>1, NothingHappens
<1>2. CASE WorkerStep
  <2>1. CASE StartEntities \/ StartRelations BY <2>1, StartStep
  <2>2. CASE CommitEntity BY <2>2, CommitEntityStep
  <2>3. CASE FailEntities BY <2>3, FailEntitiesStep
  <2>4. CASE Touch BY <2>4, TouchStep
  <2>5. CASE CommitRelation BY <2>5, CommitRelationStep
  <2>6. CASE EndRelations BY <2>6, EndRelationsStep
  <2>7. CASE SyncWorkspace BY <2>7, SyncStep
  <2>8. CASE \E n \in Names : Look(n) BY <2>8, LookStep
  <2>9. CASE \E failed \in BOOLEAN : Barren(failed) BY <2>9, BarrenStep
  <2>10. CASE \E E \in SUBSET Ids : Translate(E) BY <2>10, TranslateStep
  <2>11. CASE \E from, to \in Names : LookRelation(from, to) BY <2>11, LookRelationStep
  <2>12. QED
    BY <1>2, <2>1, <2>2, <2>3, <2>4, <2>5, <2>6, <2>7, <2>8, <2>9, <2>10, <2>11 DEF WorkerStep
<1>3. CASE Request
  <2>1. CASE \E keep, gone \in Ids : Merge(keep, gone) BY <2>1, MergeStep
  <2>2. CASE \E P \in SUBSET (Ids \X Ids) : AutoMerge(P) BY <2>2, AutoMergeStep
  <2>3. CASE \E p \in Ids \X Ids : NextPair(p) BY <2>3, NextPairStep
  <2>4. CASE \E E \in SUBSET Ids : Cleanup(E) BY <2>4, CleanupStep
  <2>5. CASE \E e \in Ids : \E row \in Edited(entity[e]) : UpdateEntity(e, row)
    BY <2>5, UpdateStep
  <2>6. QED BY <1>3, <2>1, <2>2, <2>3, <2>4, <2>5 DEF Request
<1>4. QED BY <1>1, <1>2, <1>3 DEF Next

THEOREM Invariant == Spec => []IInv
  BY InitInv, StepInv, PTL DEF Spec

\* Every variable keeps its type.
THEOREM KnowledgeTyped == Spec => []TypeOK
<1>1. IInv => TypeOK BY DEF IInv, Typed
<1>2. QED BY <1>1, Invariant, PTL

\* The entity job says succeeded only when each chunk has its mention or the excuse
\* for having none, and once the relations are in and the worker rests, whatever is
\* mentioned is in the graph store.
THEOREM SuccessIsExtracted == Spec => []SucceededIsExtracted
<1>1. IInv => SucceededIsExtracted
  BY DEF IInv, JobsTold, Synced, MentionsIn, Mentions, Extracted, SucceededIsExtracted
<1>2. QED BY <1>1, Invariant, PTL

\* An automatic merge, one commit a pair, never meets an entity that it merged away.
THEOREM MergesGoOn == Spec => []AutoMergeGoesOn
<1>1. IInv => AutoMergeGoesOn BY DEF IInv
<1>2. QED BY <1>1, Invariant, PTL

\* No commit of the worker and no request loses a mention or a relation, but for a
\* cleanup and the ends that a merge makes one.
THEOREM NothingIsLost == Spec => EvidenceConserved
<1>1. IInv /\ [Next]_vars => [Conserved]_vars BY StepInv
<1>2. QED BY <1>1, Invariant, PTL DEF Spec, EvidenceConserved, Conserved
=============================================================================
