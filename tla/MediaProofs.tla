----------------------------- MODULE MediaProofs -----------------------------
(***************************************************************************)
(* Files and rows of a video, for any number of videos, requests, polls    *)
(* and process deaths; the pages of the history of videos; and the texts   *)
(* of its sound, of any length.                                            *)
(***************************************************************************)
EXTENDS History, FiniteSetTheorems, SequenceTheorems, WellFoundedInduction, TLAPS

-----------------------------------------------------------------------------
(* Types                                                                   *)

\* A finite set can be put into a row.
LEMMA SetToSeqTyped ==
  ASSUME NEW S, IsFiniteSet(S)
  PROVE  SetToSeq(S) \in Seq(S)
<1>1. Cardinality(S) \in Nat /\ ExistsBijection(1..Cardinality(S), S)
  BY FS_CardinalityType
<1>2. \E f \in [1..Cardinality(S) -> S] : IsInjective(f)
  BY <1>1 DEF ExistsBijection, Bijection, Injection, IsInjective
<1>3. SetToSeq(S) \in [1..Cardinality(S) -> S]
  BY <1>2 DEF SetToSeq
<1>4. QED BY <1>1, <1>3

QueueRows == Kinds \X Videos

LEMMA RowsFinite == IsFiniteSet(QueueRows)
<1>1. IsFiniteSet(Kinds)
  <2>1. IsFiniteSet({"summary"}) BY FS_Singleton
  <2>2. IsFiniteSet({"summary"} \cup {"visual"}) BY <2>1, FS_AddElement
  <2>3. IsFiniteSet(({"summary"} \cup {"visual"}) \cup {"download"}) BY <2>2, FS_AddElement
  <2>4. Kinds = ({"summary"} \cup {"visual"}) \cup {"download"} BY DEF Kinds
  <2>5. QED BY <2>3, <2>4
<1>2. QED BY <1>1, FS_Product, MediaAssumption DEF QueueRows, MediaAssumption

\* Whatever the recognisers do, a transcript ends in a status of its column or not at all.
LEMMA OutcomesTyped == Outcomes \subseteq FetchStatus \cup {"aborted"}
  BY DEF Outcomes, Outcome, FetchStatus

LEMMA InitTyped == Init => TypeOK
  BY MediaAssumption DEF Init, TypeOK, FetchStatus, CopyStatus, Stages, Threads

\* An enqueued row is one more row, if any.
LEMMA EnqueuedTyped ==
  ASSUME TypeOK, NEW kind \in Kinds, NEW v \in Videos
  PROVE  Enqueued(kind, v) \in Seq(QueueRows)
  BY DEF Enqueued, TypeOK, QueueRows

LEMMA AddDownloadTyped ==
  ASSUME TypeOK, NEW v \in Videos \cup {NoVideo}, NEW known, AddDownload(v, known), v # NoVideo
  PROVE  /\ waiting' \in Seq(QueueRows) /\ status' \in [Videos -> CopyStatus]
         /\ \A w \in Videos : status'[w] # status[w] => status'[w] = "queued"
<1>2. <<"download", v>> \in QueueRows BY DEF QueueRows, Kinds
<1>3. waiting' \in Seq(QueueRows) BY <1>2 DEF TypeOK, QueueRows, AddDownload
<1>4. /\ status' \in [Videos -> CopyStatus]
      /\ \A w \in Videos : status'[w] # status[w] => status'[w] = "queued"
  BY DEF AddDownload, Put, TypeOK, CopyStatus
<1>5. QED BY <1>3, <1>4

\* Nothing is done without a video, and the worker works for a row.
AtWork == /\ job = NoJob => at["worker"] = "idle"
          /\ \A t \in Threads : at[t] # "idle" => video[t] \in Videos

ThreadTyped ==
    /\ at \in [Threads -> Stages] /\ video \in [Threads -> Videos \cup {NoVideo}]
    /\ seen \in [Threads -> CopyStatus] /\ job \in QueueRows \cup {NoJob}

\* A thread goes on with its video or lets go of it.
LEMMA ThreadMoves ==
  ASSUME TypeOK, AtWork, NEW t \in Threads, at[t] # "idle",
         Done(t) \/ \E stage \in Stages \ {"idle"} : Goto(t, stage)
  PROVE  ThreadTyped' /\ AtWork'
<1>1. CASE Done(t)
  BY <1>1 DEF Done, TypeOK, AtWork, ThreadTyped, Threads, Stages, CopyStatus, QueueRows
<1>2. ASSUME NEW stage \in Stages \ {"idle"}, Goto(t, stage) PROVE ThreadTyped' /\ AtWork'
  BY <1>2 DEF Goto, TypeOK, AtWork, ThreadTyped, Threads, QueueRows
<1>3. QED BY <1>1, <1>2

LEMMA ThreadStays == TypeOK /\ AtWork /\ UNCHANGED threadVars => ThreadTyped' /\ AtWork'
  BY DEF threadVars, TypeOK, AtWork, ThreadTyped, QueueRows

Pictures == [Videos -> {"none", "stored", "newer"}]

LEMMA TypeParts ==
  ASSUME ThreadTyped',
         fetch' \in [Videos -> FetchStatus], status' \in [Videos -> CopyStatus],
         summarized' \subseteq Videos, disk' \subseteq Videos,
         frames' \subseteq Videos, images' \in Pictures, torn' \subseteq Videos,
         waiting' \in Seq(QueueRows), stuck' \subseteq QueueRows,
         asking' \in [video : Videos \cup {NoVideo}, seen : CopyStatus], up' \in BOOLEAN
  PROVE  TypeOK'
  BY DEF TypeOK, ThreadTyped, QueueRows, Pictures

\* What a thread does between taking up a video and letting go of it.
Works(t) == Pipeline(t) \/ (t = "worker" /\ (FrameStep \/ DownloadStep))

\* What a step of the pipeline, of the frames or of a download is, for its thread.
LEMMA PipelineMoves ==
  ASSUME TypeOK, NEW t \in Threads, Works(t)
  PROVE  /\ at[t] # "idle"
         /\ Done(t) \/ \E stage \in Stages \ {"idle"} : Goto(t, stage)
<1> USE DEF AfterFrames, Stages
<1>1. CASE t = "worker" /\ FrameStep
  BY <1>1 DEF FrameStep, LoadFrames, NoFrames, Sample, RemoveImages, PlaceImages, SwapFails,
     Persist, PersistFails
<1>2. CASE TextStep(t)
  BY <1>2 DEF TextStep, Transcribe, Summarize
<1>3. CASE OfferStep(t)
  BY <1>3 DEF OfferStep, Offer, InsertOffer
<1>4. CASE t = "worker" /\ DownloadStep
  BY <1>4 DEF DownloadStep, LoadVideo, DownloadFails, Fetched, Move, Settle
<1>5. QED BY <1>1, <1>2, <1>3, <1>4 DEF Works, Pipeline

LEMMA TypeStep == TypeOK /\ AtWork /\ [Next]_vars => TypeOK' /\ AtWork'
<1> SUFFICES ASSUME TypeOK, AtWork, [Next]_vars PROVE TypeOK' /\ AtWork'
  OBVIOUS
<1> USE DEF textVars, copyVars, frameVars, queueVars, systemVars
<1>0. /\ fetch \in [Videos -> FetchStatus] /\ status \in [Videos -> CopyStatus]
      /\ summarized \subseteq Videos /\ disk \subseteq Videos
      /\ frames \subseteq Videos /\ images \in Pictures /\ torn \subseteq Videos
      /\ waiting \in Seq(QueueRows) /\ stuck \subseteq QueueRows
      /\ asking \in [video : Videos \cup {NoVideo}, seen : CopyStatus] /\ up \in BOOLEAN
  BY DEF TypeOK, QueueRows, Pictures
<1>1. CASE UNCHANGED vars
  <2>1. ThreadTyped' /\ AtWork' BY <1>1, ThreadStays DEF vars
  <2>2. QED BY <1>0, <1>1, <2>1, TypeParts DEF vars
<1>2. ASSUME NEW v \in Videos, AskSummary(v) \/ AskVisual(v) \/ AskDownload(v)
      PROVE  TypeOK' /\ AtWork'
  <2>1. ThreadTyped' /\ AtWork'
    BY <1>2, ThreadStays DEF AskSummary, AskVisual, AskDownload
  <2>2. waiting' \in Seq(QueueRows)
    BY <1>0, <1>2, EnqueuedTyped DEF AskSummary, AskVisual, AskDownload, Kinds
  <2>3. fetch' \in [Videos -> FetchStatus]
    BY <1>0, <1>2 DEF AskSummary, AskVisual, AskDownload, FetchStatus
  <2>4. asking' \in [video : Videos \cup {NoVideo}, seen : CopyStatus]
    BY <1>0, <1>2 DEF AskSummary, AskVisual, AskDownload
  <2>5. UNCHANGED <<status, summarized, disk, frames, images, torn, stuck, up>>
    BY <1>2 DEF AskSummary, AskVisual, AskDownload
  <2>6. QED BY <1>0, <2>1, <2>2, <2>3, <2>4, <2>5, TypeParts
<1>3. ASSUME NEW v \in Videos, Poll(v) PROVE TypeOK' /\ AtWork'
  <2>1. ThreadTyped' /\ AtWork'
    BY <1>0, <1>3 DEF Poll, Begin, TypeOK, AtWork, ThreadTyped, Threads, Stages, QueueRows
  <2>2. UNCHANGED <<fetch, status, summarized, disk, frames, images, torn, waiting, stuck,
                    asking, up>>
    BY <1>3 DEF Poll
  <2>3. QED BY <1>0, <2>1, <2>2, TypeParts
<1>4. CASE InsertDownload
  <2>1. ThreadTyped' /\ AtWork' BY <1>4, ThreadStays DEF InsertDownload
  <2>2. waiting' \in Seq(QueueRows) /\ status' \in [Videos -> CopyStatus]
    BY <1>0, <1>4, AddDownloadTyped DEF InsertDownload
  <2>3. asking' \in [video : Videos \cup {NoVideo}, seen : CopyStatus]
    BY <1>4 DEF InsertDownload, CopyStatus
  <2>4. UNCHANGED <<fetch, summarized, disk, frames, images, torn, stuck, up>>
    BY <1>4 DEF InsertDownload
  <2>5. QED BY <1>0, <2>1, <2>2, <2>3, <2>4, TypeParts
<1>5. CASE Take
  <2>1. Head(waiting) \in QueueRows /\ Tail(waiting) \in Seq(QueueRows) /\ NoJob \notin QueueRows
    BY <1>0, <1>5, MediaAssumption DEF Take, MediaAssumption, QueueRows
  <2>2. ThreadTyped' /\ AtWork'
    <3>1. PICK j \in QueueRows : j = Head(waiting) BY <2>1
    <3>2. \/ UNCHANGED threadVars
          \/ job' = j /\ \E stage \in {"frames", "sample", "load"} : Begin("worker", j[2], stage)
      BY <1>5, <3>1 DEF Take
    <3>3. j[2] \in Videos BY DEF QueueRows
    <3>4. ASSUME NEW stage \in {"frames", "sample", "load"}, job' = j, Begin("worker", j[2], stage)
          PROVE  ThreadTyped' /\ AtWork'
      <4>1. ThreadTyped'
        BY <1>0, <3>3, <3>4 DEF Begin, TypeOK, ThreadTyped, Threads, Stages
      <4>2. j # NoJob BY <2>1
      <4>3. AtWork'
        BY <3>3, <3>4, <4>2 DEF Begin, TypeOK, AtWork, Threads
      <4>4. QED BY <4>1, <4>3
    <3>5. QED BY <3>2, <3>4, ThreadStays
  <2>3. UNCHANGED <<fetch, status, summarized, disk, frames, images, torn, stuck, asking, up>>
        /\ waiting' = Tail(waiting)
    BY <1>5 DEF Take
  <2>4. QED BY <1>0, <2>1, <2>2, <2>3, TypeParts
<1>6. ASSUME NEW t \in Threads, Works(t) PROVE TypeOK' /\ AtWork'
  <2>1. ThreadTyped' /\ AtWork' /\ video[t] \in Videos
    <3>1. at[t] # "idle" /\ (Done(t) \/ \E stage \in Stages \ {"idle"} : Goto(t, stage))
      BY <1>6, PipelineMoves
    <3>2. QED BY <3>1, ThreadMoves DEF AtWork
  <2>2. UNCHANGED <<stuck, asking, up>>
    BY <1>6 DEF Works, Pipeline, FrameStep, LoadFrames, NoFrames, Sample, RemoveImages,
       PlaceImages, SwapFails, Persist, PersistFails, TextStep, Transcribe, Summarize, OfferStep,
       Offer, InsertOffer, DownloadStep, LoadVideo, DownloadFails, Fetched, Move, Settle
  <2>3. CASE t = "worker" /\ FrameStep
    <3>1. /\ UNCHANGED <<fetch, status, summarized, disk, waiting>>
          /\ frames' \subseteq frames \cup {video[t]} /\ torn' \subseteq torn \cup {video[t]}
          /\ \/ images' = images
             \/ \E a \in {"none", "stored", "newer"} : images' = [images EXCEPT ![video[t]] = a]
      BY <2>3 DEF FrameStep, LoadFrames, NoFrames, Sample, RemoveImages, PlaceImages, SwapFails,
         Persist, PersistFails, Torn, Analysed
    <3>2. frames' \subseteq Videos /\ torn' \subseteq Videos BY <1>0, <2>1, <3>1
    <3>3. images' \in Pictures BY <1>0, <3>1 DEF Pictures
    <3>4. QED BY <1>0, <2>1, <2>2, <3>1, <3>2, <3>3, TypeParts
  <2>4. CASE TextStep(t)
    <3>1. /\ UNCHANGED <<status, disk, waiting, frames, images, torn>>
          /\ summarized' \subseteq summarized \cup {video[t]}
      BY <2>4 DEF TextStep, Transcribe, Summarize
    <3>2. fetch' \in [Videos -> FetchStatus]
      BY <1>0, <2>4, OutcomesTyped DEF TextStep, Transcribe, Summarize
    <3>3. summarized' \subseteq Videos BY <1>0, <2>1, <3>1
    <3>4. QED BY <1>0, <2>1, <2>2, <3>1, <3>2, <3>3, TypeParts
  <2>5. CASE OfferStep(t)
    <3>1. UNCHANGED <<fetch, summarized, disk, frames, images, torn>>
      BY <2>5 DEF OfferStep, Offer, InsertOffer
    <3>2. waiting' \in Seq(QueueRows) /\ status' \in [Videos -> CopyStatus]
      <4>1. CASE Offer(t) BY <1>0, <4>1 DEF Offer
      <4>2. CASE InsertOffer(t)
        <5>1. video[t] # NoVideo BY <2>1, MediaAssumption DEF MediaAssumption
        <5>2. QED BY <2>1, <4>2, <5>1, AddDownloadTyped DEF InsertOffer
      <4>3. QED BY <2>5, <4>1, <4>2 DEF OfferStep
    <3>3. QED BY <1>0, <2>1, <2>2, <3>1, <3>2, TypeParts
  <2>6. CASE t = "worker" /\ DownloadStep
    <3>1. /\ UNCHANGED <<fetch, summarized, waiting, frames, images, torn>>
          /\ disk' \subseteq disk \cup {video[t]}
          /\ status' = status \/ \E s \in CopyStatus : status' = [status EXCEPT ![video[t]] = s]
      BY <2>6 DEF DownloadStep, LoadVideo, DownloadFails, Fetched, Move, Settle, Settled, CopyStatus
    <3>2. disk' \subseteq Videos /\ status' \in [Videos -> CopyStatus]
      BY <1>0, <2>1, <3>1
    <3>3. QED BY <1>0, <2>1, <2>2, <3>1, <3>2, TypeParts
  <2>7. QED BY <1>6, <2>3, <2>4, <2>5, <2>6 DEF Works, Pipeline
<1>7. CASE Crash
  <2>1. ThreadTyped' /\ AtWork'
    BY <1>7 DEF Crash, ThreadTyped, AtWork, Threads, Stages, CopyStatus
  <2>2. stuck' \subseteq QueueRows
    BY <1>0, <1>7 DEF Crash, TypeOK, QueueRows
  <2>3. torn' \subseteq Videos
    BY <1>0, <1>7 DEF Crash, Torn
  <2>4. asking' \in [video : Videos \cup {NoVideo}, seen : CopyStatus] /\ up' \in BOOLEAN
    BY <1>7 DEF Crash, CopyStatus
  <2>5. UNCHANGED <<fetch, summarized, status, disk, frames, images, waiting>>
    BY <1>7 DEF Crash
  <2>6. QED BY <1>0, <2>1, <2>2, <2>3, <2>4, <2>5, TypeParts
<1>8. CASE Restart
  <2>1. ThreadTyped' /\ AtWork' BY <1>8, ThreadStays DEF Restart
  <2>2. PICK again, more :
          /\ again \subseteq stuck /\ more = {<<"download", v>> : v \in Missing}
          /\ stuck' = stuck \ again
          /\ waiting' = SetToSeq(again) \o waiting \o SetToSeq(more)
    BY <1>8 DEF Restart
  <2>3. again \subseteq QueueRows /\ more \subseteq QueueRows
    BY <1>0, <2>2 DEF QueueRows, Kinds, Missing
  <2>4. SetToSeq(again) \in Seq(QueueRows) /\ SetToSeq(more) \in Seq(QueueRows)
    <3>1. ASSUME NEW S \in SUBSET QueueRows PROVE SetToSeq(S) \in Seq(QueueRows)
      <4>1. IsFiniteSet(S) BY RowsFinite, FS_Subset
      <4>2. SetToSeq(S) \in Seq(S) BY <4>1, SetToSeqTyped
      <4>3. QED BY <4>2
    <3>2. QED BY <2>3, <3>1
  <2>5. waiting' \in Seq(QueueRows) BY <1>0, <2>2, <2>4
  <2>6. status' \in [Videos -> CopyStatus]
    BY <1>0, <1>8 DEF Restart, CopyStatus
  <2>7. UNCHANGED <<fetch, summarized, disk, frames, images, torn, asking>> /\ up' \in BOOLEAN
    BY <1>8 DEF Restart
  <2>8. QED BY <1>0, <2>1, <2>2, <2>5, <2>6, <2>7, TypeParts
<1>9. QED
  BY <1>1, <1>2, <1>3, <1>4, <1>5, <1>6, <1>7, <1>8 DEF Next, WorkerStep, Works, Threads

-----------------------------------------------------------------------------
(* The copy for the player                                                 *)

\* While a video is downloaded it does not say that it is there, and its file is there
\* when it is about to say so.
Copying == \A v \in Videos : video["worker"] = v =>
    /\ at["worker"] \in {"download", "move", "settle"} => status[v] # "downloaded"
    /\ at["worker"] = "settle" => v \in disk

\* Whatever asks for a copy writes no status but queued.
OnlyQueues == \A v \in Videos : status'[v] # status[v] => status'[v] = "queued"

\* A step that touches no file and at most queues, and leaves the worker where it is or
\* away from its download.
LEMMA CopyAside ==
  ASSUME Copying, PlayableIsThere, disk' = disk, OnlyQueues,
         \/ at'["worker"] = at["worker"] /\ video'["worker"] = video["worker"]
         \/ at'["worker"] \notin {"download", "move", "settle"}
  PROVE  Copying' /\ PlayableIsThere'
<1>1. PlayableIsThere' BY DEF PlayableIsThere, Playable, OnlyQueues
<1>2. Copying'
  <2> SUFFICES ASSUME NEW v \in Videos, video'["worker"] = v,
                      at'["worker"] \in {"download", "move", "settle"}
               PROVE  /\ status'[v] # "downloaded"
                      /\ at'["worker"] = "settle" => v \in disk'
    BY DEF Copying
  <2>1. at["worker"] = at'["worker"] /\ video["worker"] = v OBVIOUS
  <2>2. status[v] # "downloaded" /\ (at["worker"] = "settle" => v \in disk)
    BY <2>1 DEF Copying
  <2>3. QED BY <2>1, <2>2 DEF OnlyQueues
<1>3. QED BY <1>1, <1>2

\* No thread of the pipeline, with frames or without, goes where the worker's download is.
LEMMA PipelineAside ==
  ASSUME TypeOK, AtWork, NEW t \in Threads, Pipeline(t) \/ (t = "worker" /\ FrameStep)
  PROVE  /\ disk' = disk /\ OnlyQueues
         /\ \/ at'["worker"] = at["worker"] /\ video'["worker"] = video["worker"]
            \/ at'["worker"] \notin {"download", "move", "settle"}
<1> USE DEF AfterFrames, copyVars
<1>1. at \in [Threads -> Stages] /\ video \in [Threads -> Videos \cup {NoVideo}]
  BY DEF TypeOK
<1>2. Done(t) \/ \E stage \in {"transcribe", "sample", "swap", "place", "persist", "summarize",
                               "offer", "insert"} : Goto(t, stage)
  <2>1. CASE t = "worker" /\ FrameStep
    BY <2>1 DEF FrameStep, LoadFrames, NoFrames, Sample, RemoveImages, PlaceImages, SwapFails,
       Persist, PersistFails
  <2>2. CASE TextStep(t) BY <2>2 DEF TextStep, Transcribe, Summarize
  <2>3. CASE OfferStep(t) BY <2>3 DEF OfferStep, Offer, InsertOffer
  <2>4. QED BY <2>1, <2>2, <2>3 DEF Pipeline
<1>3. \/ at'["worker"] = at["worker"] /\ video'["worker"] = video["worker"]
      \/ at'["worker"] \notin {"download", "move", "settle"}
  <2>1. CASE t = "worker" BY <1>1, <1>2, <2>1 DEF Done, Goto, Threads
  <2>2. CASE t # "worker" BY <1>1, <1>2, <2>2 DEF Done, Goto, Threads
  <2>3. QED BY <2>1, <2>2
<1>4. disk' = disk
  BY DEF Pipeline, FrameStep, LoadFrames, NoFrames, Sample, RemoveImages, PlaceImages,
     SwapFails, Persist, PersistFails, TextStep, Transcribe, Summarize, OfferStep, Offer,
     InsertOffer
<1>5. OnlyQueues
  <2>1. CASE InsertOffer(t)
    <3>1. video[t] \in Videos /\ video[t] # NoVideo
      BY <2>1, MediaAssumption DEF InsertOffer, AtWork, MediaAssumption
    <3>2. QED BY <2>1, <3>1, AddDownloadTyped DEF InsertOffer, OnlyQueues
  <2>2. CASE ~InsertOffer(t)
    <3>1. status' = status
      BY <2>2 DEF Pipeline, FrameStep, LoadFrames, NoFrames, Sample, RemoveImages, PlaceImages,
         SwapFails, Persist, PersistFails, TextStep, Transcribe, Summarize, OfferStep, Offer
    <3>2. QED BY <3>1 DEF OnlyQueues
  <2>3. QED BY <2>1, <2>2
<1>6. QED BY <1>3, <1>4, <1>5

\* The worker downloads: the status is taken back first and given last.
LEMMA DownloadCopies ==
  ASSUME TypeOK, AtWork, Copying, PlayableIsThere, DownloadStep
  PROVE  Copying' /\ PlayableIsThere'
<1> PICK v : v = video["worker"] OBVIOUS
<1> USE DEF Copying, PlayableIsThere, Playable, copyVars
<1>1. /\ at \in [Threads -> Stages] /\ video \in [Threads -> Videos \cup {NoVideo}]
      /\ status \in [Videos -> CopyStatus] /\ "worker" \in Threads
  BY DEF TypeOK, Threads
<1>2. v \in Videos
  BY DEF AtWork, Threads, DownloadStep, LoadVideo, DownloadFails, Fetched, Move, Settle
<1>3. CASE LoadVideo
  <2>1. /\ disk' = disk /\ status' = [status EXCEPT ![v] = "downloading"]
        /\ video'["worker"] = v /\ at'["worker"] = "download"
    BY <1>1, <1>3 DEF LoadVideo, Goto
  <2>2. QED BY <1>1, <1>2, <2>1
<1>4. CASE DownloadFails
  <2>1. /\ disk' = disk /\ status' = [status EXCEPT ![v] = "failed"]
        /\ at'["worker"] = "idle"
    BY <1>1, <1>4 DEF DownloadFails, Done
  <2>2. QED BY <1>1, <1>2, <2>1
<1>5. CASE Fetched
  <2>1. /\ disk' = disk \ {v} /\ status' = status /\ at["worker"] = "download"
        /\ video'["worker"] = v /\ at'["worker"] = "move"
    BY <1>1, <1>5 DEF Fetched, Goto
  <2>2. QED BY <1>1, <1>2, <2>1
<1>6. CASE Move
  <2>1. /\ disk' = disk \cup {v} /\ status' = status /\ at["worker"] = "move"
        /\ video'["worker"] = v /\ at'["worker"] = "settle"
    BY <1>1, <1>6 DEF Move, Goto
  <2>2. QED BY <1>1, <1>2, <2>1
<1>7. CASE Settle
  <2>1. /\ disk' = disk /\ status' = [status EXCEPT ![v] = "downloaded"]
        /\ at["worker"] = "settle" /\ at'["worker"] = "idle"
    BY <1>1, <1>7 DEF Settle, Settled, Done
  <2>2. QED BY <1>1, <1>2, <2>1
<1>8. QED BY <1>3, <1>4, <1>5, <1>6, <1>7 DEF DownloadStep

LEMMA CopyStep ==
  ASSUME TypeOK, AtWork, Copying, PlayableIsThere, [Next]_vars
  PROVE  Copying' /\ PlayableIsThere'
<1> USE DEF textVars, copyVars, frameVars, queueVars, systemVars, threadVars
<1>1. /\ at \in [Threads -> Stages] /\ video \in [Threads -> Videos \cup {NoVideo}]
      /\ status \in [Videos -> CopyStatus] /\ "worker" \in Threads /\ "poller" \in Threads
  BY DEF TypeOK, Threads
<1>2. CASE \/ UNCHANGED vars
           \/ \E v \in Videos : AskSummary(v) \/ AskVisual(v) \/ AskDownload(v)
  <2>1. UNCHANGED <<at, video, status, disk>>
    BY <1>2 DEF vars, AskSummary, AskVisual, AskDownload
  <2>2. QED BY <2>1, CopyAside DEF OnlyQueues
<1>3. CASE \E v \in Videos : Poll(v)
  <2>1. UNCHANGED <<status, disk>> /\ at'["worker"] = at["worker"]
        /\ video'["worker"] = video["worker"]
    BY <1>1, <1>3 DEF Poll, Begin
  <2>2. QED BY <2>1, CopyAside DEF OnlyQueues
<1>4. CASE InsertDownload
  <2>1. UNCHANGED <<at, video, disk>> BY <1>4 DEF InsertDownload
  <2>2. asking.video \in Videos \cup {NoVideo} BY DEF TypeOK
  <2>3. OnlyQueues BY <1>4, <2>2, AddDownloadTyped DEF InsertDownload, OnlyQueues
  <2>4. QED BY <2>1, <2>3, CopyAside
<1>5. CASE Take
  <2>1. UNCHANGED <<status, disk>> BY <1>5 DEF Take
  <2>2. \/ at'["worker"] = at["worker"] /\ video'["worker"] = video["worker"]
        \/ at'["worker"] \notin {"download", "move", "settle"}
    BY <1>1, <1>5 DEF Take, Begin
  <2>3. QED BY <2>1, <2>2, CopyAside DEF OnlyQueues
<1>6. ASSUME NEW t \in Threads, Pipeline(t) \/ (t = "worker" /\ FrameStep)
      PROVE  Copying' /\ PlayableIsThere'
  BY <1>6, PipelineAside, CopyAside
<1>7. CASE Crash
  <2>1. UNCHANGED <<status, disk>> /\ at'["worker"] = "idle" BY <1>1, <1>7 DEF Crash
  <2>2. QED BY <2>1, CopyAside DEF OnlyQueues
<1>8. CASE Restart
  <2>1. UNCHANGED <<at, video, disk>> BY <1>8 DEF Restart
  <2>2. OnlyQueues BY <1>1, <1>8 DEF Restart, OnlyQueues
  <2>3. QED BY <2>1, <2>2, CopyAside
<1>9. CASE DownloadStep BY <1>9, DownloadCopies
<1>10. QED
  BY <1>1, <1>2, <1>3, <1>4, <1>5, <1>6, <1>7, <1>8, <1>9 DEF Next, WorkerStep

-----------------------------------------------------------------------------
(* Frames and their images                                                 *)

\* The rows of a video, if it has any, belong to its images, or the worker is replacing
\* both, or they have been cut off from one another.
Covered(v) == \/ images[v] = "stored" \/ v \in torn
              \/ video["worker"] = v /\ at["worker"] \in {"place", "persist"}

FramesCovered == \A v \in frames : Covered(v)

\* The worker stays where it is, or was not replacing anything.
Harmless == \/ at'["worker"] = at["worker"] /\ video'["worker"] = video["worker"]
            \/ at["worker"] \notin {"place", "persist"}

LEMMA FramesAside ==
  ASSUME FramesCovered, UNCHANGED <<frames, images, torn>>, Harmless
  PROVE  FramesCovered'
  BY DEF FramesCovered, Covered, Harmless

\* Each step of an analysis keeps what it does not touch, and leaves its own video
\* stored, torn or in the worker's hands.
LEMMA FrameStepCovers ==
  ASSUME TypeOK, AtWork, FramesCovered, FrameStep
  PROVE  FramesCovered'
<1> USE DEF AfterFrames, Goto, Done, frameVars
<1> PICK w : w = Analysed OBVIOUS
<1>1. /\ at \in [Threads -> Stages] /\ video \in [Threads -> Videos \cup {NoVideo}]
      /\ images \in [Videos -> {"none", "stored", "newer"}] /\ "worker" \in Threads
      /\ frames \subseteq Videos /\ w = video["worker"]
  BY DEF TypeOK, Threads, Analysed
<1>2. w \in Videos
  BY <1>1 DEF AtWork, FrameStep, LoadFrames, NoFrames, Sample, RemoveImages, PlaceImages,
     SwapFails, Persist, PersistFails
<1>3. CASE LoadFrames \/ NoFrames \/ Sample
  <2>1. UNCHANGED <<frames, images, torn>> /\ at["worker"] \in {"frames", "sample"}
    BY <1>3 DEF LoadFrames, NoFrames, Sample
  <2>2. QED BY <2>1, FramesAside DEF Harmless
<1>4. CASE RemoveImages \/ PlaceImages
  <2>1. /\ UNCHANGED <<frames, torn, video>> /\ at'["worker"] \in {"place", "persist"}
        /\ \A v \in Videos \ {w} : images'[v] = images[v]
    BY <1>1, <1>4 DEF RemoveImages, PlaceImages
  <2>2. ASSUME NEW v \in frames PROVE Covered(v)'
    <3>1. CASE v = w BY <1>1, <2>1, <3>1 DEF Covered
    <3>2. CASE v # w
      <4>1. Covered(v) BY DEF FramesCovered
      <4>2. QED BY <1>1, <2>1, <3>2, <4>1 DEF Covered
    <3>3. QED BY <3>1, <3>2
  <2>3. QED BY <2>1, <2>2 DEF FramesCovered
<1>5. CASE Persist
  <2>1. /\ frames' = frames \cup {w} /\ torn' = torn \ {w} /\ images'[w] = "stored"
        /\ \A v \in Videos \ {w} : images'[v] = images[v]
    BY <1>1, <1>2, <1>5 DEF Persist
  <2>2. ASSUME NEW v \in frames' PROVE Covered(v)'
    <3>1. CASE v = w BY <2>1, <3>1 DEF Covered
    <3>2. CASE v # w
      <4>1. v \in frames /\ Covered(v) BY <2>1, <3>2 DEF FramesCovered
      <4>2. QED BY <1>1, <2>1, <3>2, <4>1 DEF Covered
    <3>3. QED BY <3>1, <3>2
  <2>3. QED BY <2>2 DEF FramesCovered
<1>6. CASE SwapFails \/ PersistFails
  <2>1. /\ frames' = frames /\ torn' = torn \cup ({w} \cap frames)
        /\ \A v \in Videos \ {w} : images'[v] = images[v]
    BY <1>1, <1>6 DEF SwapFails, PersistFails, Torn
  <2>2. ASSUME NEW v \in frames PROVE Covered(v)'
    <3>1. CASE v = w BY <2>1, <3>1 DEF Covered
    <3>2. CASE v # w
      <4>1. Covered(v) BY DEF FramesCovered
      <4>2. QED BY <1>1, <2>1, <3>2, <4>1 DEF Covered
    <3>3. QED BY <3>1, <3>2
  <2>3. QED BY <2>1, <2>2 DEF FramesCovered
<1>7. QED BY <1>3, <1>4, <1>5, <1>6 DEF FrameStep

\* A death forgets where the worker was and remembers what it has torn.
LEMMA CrashTears ==
  ASSUME FramesCovered, Crash
  PROVE  FramesCovered'
<1>1. UNCHANGED <<frames, images>> BY DEF Crash
<1>2. ASSUME NEW v \in frames PROVE v \in torn' \/ images[v] = "stored"
  BY <1>2 DEF FramesCovered, Covered, Crash, Torn, Analysed
<1>3. QED BY <1>1, <1>2 DEF FramesCovered, Covered

LEMMA FramesStep ==
  ASSUME TypeOK, AtWork, FramesCovered, [Next]_vars
  PROVE  FramesCovered'
<1> USE DEF textVars, copyVars, frameVars, queueVars, systemVars, threadVars
<1>1. /\ at \in [Threads -> Stages] /\ video \in [Threads -> Videos \cup {NoVideo}]
      /\ Threads = {"worker", "poller"}
  BY DEF TypeOK, Threads
<1>2. CASE \/ UNCHANGED vars \/ InsertDownload \/ Restart
           \/ \E v \in Videos : AskSummary(v) \/ AskVisual(v) \/ AskDownload(v)
  <2>1. UNCHANGED <<at, video, frames, images, torn>>
    BY <1>2 DEF vars, AskSummary, AskVisual, AskDownload, InsertDownload, Restart
  <2>2. QED BY <2>1, FramesAside DEF Harmless
<1>3. CASE \E v \in Videos : Poll(v)
  <2>1. UNCHANGED <<frames, images, torn>> /\ Harmless
    BY <1>1, <1>3 DEF Poll, Begin, Harmless
  <2>2. QED BY <2>1, FramesAside
<1>4. CASE Take
  <2>1. UNCHANGED <<frames, images, torn>> /\ at["worker"] = "idle"
    BY <1>4 DEF Take, AtWork
  <2>2. QED BY <2>1, FramesAside DEF Harmless
<1>5. ASSUME NEW t \in Threads, Pipeline(t) \/ (t = "worker" /\ DownloadStep)
      PROVE  FramesCovered'
  <2>1. UNCHANGED <<frames, images, torn>> /\ at[t] \notin {"place", "persist"}
    BY <1>5 DEF Pipeline, TextStep, Transcribe, Summarize, OfferStep, Offer, InsertOffer,
       DownloadStep, LoadVideo, DownloadFails, Fetched, Move, Settle
  <2>2. Works(t) BY <1>5 DEF Works
  <2>3. Done(t) \/ \E stage \in Stages \ {"idle"} : Goto(t, stage) BY <2>2, PipelineMoves
  <2>4. Harmless
    <3>1. CASE t = "worker" BY <2>1, <3>1 DEF Harmless
    <3>2. CASE t # "worker" BY <1>1, <2>3, <3>2 DEF Done, Goto, Harmless
    <3>3. QED BY <3>1, <3>2
  <2>5. QED BY <2>1, <2>4, FramesAside
<1>6. QED
  BY <1>1, <1>2, <1>3, <1>4, <1>5, FrameStepCovers, CrashTears DEF Next, WorkerStep

-----------------------------------------------------------------------------

IInv == TypeOK /\ AtWork /\ Copying /\ PlayableIsThere /\ FramesCovered

LEMMA InitInv == Init => IInv
<1> SUFFICES ASSUME Init PROVE IInv
  OBVIOUS
<1>1. TypeOK BY InitTyped
<1>2. AtWork BY DEF Init, AtWork, Threads
<1>3. Copying /\ PlayableIsThere
  BY DEF Init, Copying, PlayableIsThere, Playable, Threads
<1>4. FramesCovered BY DEF Init, FramesCovered
<1>5. QED BY <1>1, <1>2, <1>3, <1>4 DEF IInv

LEMMA StepInv == IInv /\ [Next]_vars => IInv'
  BY TypeStep, CopyStep, FramesStep DEF IInv

LEMMA Invariant == Spec => []IInv
  BY InitInv, StepInv, PTL DEF Spec

\* Every column, file and thread keeps its type, whatever the recognisers, the summaries
\* and the downloads end in.
THEOREM MediaTyped == Spec => []TypeOK
<1>1. IInv => TypeOK BY DEF IInv
<1>2. QED BY <1>1, Invariant, PTL

\* A video that is offered to the player is in the storage: a download takes the status
\* back before it removes the file, and stale sessions only ever write queued.
THEOREM OfferedIsThere == Spec => []PlayableIsThere
<1>1. IInv => PlayableIsThere BY DEF IInv
<1>2. QED BY <1>1, Invariant, PTL

\* The worker replaces the images of a video first and their rows afterwards, and every
\* one of these steps may fail or be the last before a death: rows of frames have the
\* images they come from, or the worker is between the two, or was when it was cut off.
THEOREM PicturesAreThere == Spec => []FramesHaveImages
<1>1. IInv => FramesHaveImages
  BY DEF IInv, FramesCovered, Covered, FramesHaveImages, Pictured, Analysed
<1>2. QED BY <1>1, Invariant, PTL

-----------------------------------------------------------------------------
(* The history                                                             *)

\* A set of numbers has a least one.
LEMMA HasLeast ==
  ASSUME NEW T \in SUBSET Nat, T # {}
  PROVE  \E n \in T : \A m \in T : n <= m
<1>1. PICK n \in T : \A m \in T : ~ (<<m, n>> \in OpToRel(<, Nat))
  BY NatLessThanWellFounded, WFMin, Zenon
<1>2. \A m \in T : ~ (m < n)
  BY <1>1 DEF OpToRel
<1> QED  BY <1>2

\* A set of numbers that is bounded has a greatest one.
LEMMA HasGreatest ==
  ASSUME NEW T \in SUBSET Nat, T # {}, NEW b \in Nat, \A m \in T : m <= b
  PROVE  \E n \in T : \A m \in T : m <= n
<1> DEFINE Below == {i \in Nat : \E m \in T : m + i = b}
<1>1. Below \in SUBSET Nat /\ Below # {}
  <2>1. PICK m \in T : TRUE
    OBVIOUS
  <2>2. b - m \in Nat /\ m + (b - m) = b
    BY <2>1
  <2> QED  BY <2>2
<1>2. PICK d \in Below : \A e \in Below : d <= e
  <2> HIDE DEF Below
  <2> QED  BY <1>1, HasLeast
<1>3. PICK n \in T : n + d = b
  BY <1>2
<1>4. ASSUME NEW m \in T PROVE m <= n
  <2>1. b - m \in Below
    <3>1. b - m \in Nat /\ m + (b - m) = b
      OBVIOUS
    <3> QED  BY <3>1
  <2>2. d <= b - m
    BY <1>2, <2>1
  <2>3. d \in Nat /\ n \in Nat /\ m \in Nat
    BY <1>2
  <2> HIDE DEF Below
  <2> QED  BY <2>2, <2>3, <1>3
<1> QED  BY <1>4

\* Numbers each of which has a smaller one among them are none.
LEMMA NoneIsLeast ==
  ASSUME NEW T \in SUBSET Nat, \A n \in T : \E m \in T : m < n
  PROVE  T = {}
<1> SUFFICES ASSUME T # {} PROVE FALSE
  OBVIOUS
<1>1. PICK n \in T : \A m \in T : n <= m
  BY HasLeast
<1> QED  BY <1>1

Documents == {"none", "processing", "completed"}
Keys == [time : Nat, id : Nat]

LEMMA RowsAreFinite ==
  ASSUME NEW table \in Tables, NEW channel, NEW wanted
  PROVE  IsFiniteSet(Rows(table, channel, wanted))
<1>1. PICK D : D = DOMAIN table
  OBVIOUS
<1>2. IsFiniteSet(D)
  <2>1. D \in SUBSET Ids BY <1>1 DEF Tables
  <2> QED  BY <2>1, FS_Subset, TimelineAssumption DEF TimelineAssumption
<1>3. IsFiniteSet(Documents)
  <2>1. IsFiniteSet({"none"}) BY FS_Singleton
  <2>2. IsFiniteSet({"none"} \cup {"processing"}) BY <2>1, FS_AddElement
  <2>3. IsFiniteSet(({"none"} \cup {"processing"}) \cup {"completed"}) BY <2>2, FS_AddElement
  <2>4. Documents = ({"none"} \cup {"processing"}) \cup {"completed"} BY DEF Documents
  <2> QED  BY <2>3, <2>4
<1>4. IsFiniteSet(D \X Documents) BY <1>2, <1>3, FS_Product
<1> DEFINE f == [p \in D \X Documents |-> [id |-> p[1], document |-> p[2]]]
           All == [id : D, document : Documents]
<1>5. f \in Surjection(D \X Documents, All)
  <2>1. f \in [D \X Documents -> All] OBVIOUS
  <2>2. ASSUME NEW r \in All PROVE \E p \in D \X Documents : f[p] = r
    <3>1. PICK p : p = <<r.id, r.document>> OBVIOUS
    <3>2. p \in D \X Documents /\ p[1] = r.id /\ p[2] = r.document BY <3>1
    <3>3. f[p] = [id |-> r.id, document |-> r.document] BY <3>2
    <3>4. r = [id |-> r.id, document |-> r.document] OBVIOUS
    <3> QED  BY <3>2, <3>3, <3>4
  <2> HIDE DEF f, All
  <2> QED  BY <2>1, <2>2 DEF Surjection
<1>6. IsFiniteSet(All)
  <2> HIDE DEF f, All
  <2> QED  BY <1>4, <1>5, FS_Surjection
<1>7. Rows(table, channel, wanted) \in SUBSET All BY <1>1 DEF Rows, Documents
<1> HIDE DEF All
<1> QED  BY <1>6, <1>7, FS_Subset

\* A row has a key, and rows of one video are different documents.
LEMMA RowIs ==
  ASSUME NEW table \in Tables, NEW channel, NEW wanted, NEW r \in Rows(table, channel, wanted)
  PROVE  /\ r.id \in DOMAIN table /\ r.id \in Ids
         /\ Key(table, r) \in Keys
         /\ Key(table, r).time = table[r.id].time /\ Key(table, r).id = r.id
         /\ r.document \in Documents /\ r = [id |-> r.id, document |-> r.document]
         /\ r.document = "none" <=> table[r.id].documents = {}
<1>1. PICK some \in SUBSET Ids : table \in [some -> VideoRow] BY DEF Tables
<1>2. /\ r \in [id : DOMAIN table, document : Documents]
      /\ r.document \in Outer(table[r.id])
  BY DEF Rows, Documents
<1>3. r.id \in some /\ r.document \in Documents /\ r = [id |-> r.id, document |-> r.document]
  BY <1>1, <1>2
<1>4. table[r.id] \in VideoRow BY <1>1, <1>3
<1>5. table[r.id].time \in Times /\ table[r.id].documents \subseteq {"processing", "completed"}
  BY <1>4 DEF VideoRow
<1>6. table[r.id].time \in Nat /\ r.id \in Nat
  BY <1>1, <1>3, <1>5, TimelineAssumption DEF TimelineAssumption
<1>7. r.document = "none" <=> table[r.id].documents = {} BY <1>2, <1>5 DEF Outer
<1> QED  BY <1>1, <1>3, <1>6, <1>7 DEF Key, Keys

LEMMA BeforeIsOrder ==
  /\ \A x \in Keys : ~Before(x, x)
  /\ \A x, y, z \in Keys : Before(x, y) /\ Before(y, z) => Before(x, z)
  /\ \A x, y \in Keys : x = y \/ Before(x, y) \/ Before(y, x)
<1>1. \A x \in Keys : ~Before(x, x) BY DEF Keys, Before
<1>2. \A x, y, z \in Keys : Before(x, y) /\ Before(y, z) => Before(x, z) BY DEF Keys, Before
<1>3. ASSUME NEW x \in Keys, NEW y \in Keys PROVE x = y \/ Before(x, y) \/ Before(y, x)
  <2>1. x.time = y.time /\ x.id = y.id => x = y BY DEF Keys
  <2>2. x.time \in Nat /\ x.id \in Nat /\ y.time \in Nat /\ y.id \in Nat BY DEF Keys
  <2> QED  BY <2>1, <2>2 DEF Before
<1> QED  BY <1>1, <1>2, <1>3

\* The rows have one order.
LEMMA PrecedesIsOrder ==
  ASSUME NEW table \in Tables, NEW channel, NEW wanted,
         NEW r \in Rows(table, channel, wanted), NEW s \in Rows(table, channel, wanted),
         NEW t \in Rows(table, channel, wanted)
  PROVE  /\ ~Precedes(table, r, r)
         /\ Precedes(table, r, s) /\ Precedes(table, s, t) => Precedes(table, r, t)
         /\ r = s \/ Precedes(table, r, s) \/ Precedes(table, s, r)
<1>1. PICK k : k = Key(table, r) OBVIOUS
<1>2. PICK l : l = Key(table, s) OBVIOUS
<1>3. PICK m : m = Key(table, t) OBVIOUS
<1>4. k \in Keys /\ l \in Keys /\ m \in Keys /\ k.id = r.id /\ l.id = s.id
  BY <1>1, <1>2, <1>3, RowIs
<1>5. r.id = s.id => k = l BY <1>1, <1>2 DEF Key
<1>6. s.id = t.id => l = m BY <1>2, <1>3 DEF Key
<1>7. ~Precedes(table, r, r) BY <1>1, <1>4, BeforeIsOrder DEF Precedes
<1>8. Precedes(table, r, s) /\ Precedes(table, s, t) => Precedes(table, r, t)
  <2>1. Precedes(table, r, s) <=>
           Before(k, l) \/ (r.id = s.id /\ r.document = "processing" /\ s.document = "completed")
    BY <1>1, <1>2 DEF Precedes
  <2>2. Precedes(table, s, t) <=>
           Before(l, m) \/ (s.id = t.id /\ s.document = "processing" /\ t.document = "completed")
    BY <1>2, <1>3 DEF Precedes
  <2>3. Before(k, m) => Precedes(table, r, t) BY <1>1, <1>3 DEF Precedes
  <2>4. Before(k, l) /\ Before(l, m) => Before(k, m) BY <1>4, BeforeIsOrder
  <2> QED  BY <1>5, <1>6, <2>1, <2>2, <2>3, <2>4
<1>9. r = s \/ Precedes(table, r, s) \/ Precedes(table, s, r)
  <2>1. CASE k # l
    BY <1>1, <1>2, <1>4, <2>1, BeforeIsOrder DEF Precedes
  <2>2. CASE k = l
    <3>1. r.id = s.id BY <1>4, <2>2
    <3>2. /\ r.document \in Documents /\ r = [id |-> r.id, document |-> r.document]
          /\ r.document = "none" <=> table[r.id].documents = {}
      BY RowIs
    <3>3. /\ s.document \in Documents /\ s = [id |-> s.id, document |-> s.document]
          /\ s.document = "none" <=> table[s.id].documents = {}
      BY RowIs
    <3>4. CASE r.document = s.document
      <4>1. r = s BY <3>1, <3>2, <3>3, <3>4
      <4> QED  BY <4>1
    <3>5. CASE r.document # s.document BY <3>1, <3>2, <3>3, <3>5 DEF Precedes, Documents
    <3> QED  BY <3>4, <3>5
  <2> QED  BY <2>1, <2>2
<1> QED  BY <1>7, <1>8, <1>9

\* One of some rows is the last.
LEMMA LastExists ==
  ASSUME NEW table \in Tables, NEW channel, NEW wanted,
         NEW T \in SUBSET Rows(table, channel, wanted), T # {}
  PROVE  \E r \in T : \A s \in T : ~Precedes(table, r, s)
<1> DEFINE After(r) == {s \in T : Precedes(table, r, s)}
           Counts == {Cardinality(After(r)) : r \in T}
<1>1. IsFiniteSet(T) BY RowsAreFinite, FS_Subset
<1>2. \A r \in T : After(r) \in SUBSET T /\ IsFiniteSet(After(r)) /\ Cardinality(After(r)) \in Nat
  <2>1. ASSUME NEW r \in T PROVE After(r) \in SUBSET T OBVIOUS
  <2> HIDE DEF After
  <2> QED  BY <1>1, <2>1, FS_Subset, FS_CardinalityType
<1>3. Counts \in SUBSET Nat /\ Counts # {}
  <2> HIDE DEF After
  <2> QED  BY <1>2
<1>4. PICK n \in Counts : \A m \in Counts : n <= m
  <2> HIDE DEF Counts
  <2> QED  BY <1>3, HasLeast
<1>5. PICK r \in T : n = Cardinality(After(r)) OBVIOUS
<1>6. ASSUME NEW s \in T, Precedes(table, r, s) PROVE FALSE
  <2>1. After(s) \subseteq After(r)
    <3>1. ASSUME NEW t \in After(s) PROVE t \in After(r)
      <4>1. t \in T /\ Precedes(table, s, t) OBVIOUS
      <4>2. Precedes(table, r, t) BY <1>6, <4>1, PrecedesIsOrder
      <4> QED  BY <4>1, <4>2
    <3> QED  BY <3>1
  <2>2. s \in After(r) BY <1>6
  <2>3. s \notin After(s) BY PrecedesIsOrder
  <2>4. After(s) # After(r) BY <2>2, <2>3
  <2>5. Cardinality(After(s)) \in Counts OBVIOUS
  <2> HIDE DEF After, Counts
  <2>6. Cardinality(After(s)) <= Cardinality(After(r)) /\ Cardinality(After(s)) # Cardinality(After(r))
    BY <1>2, <2>1, <2>4, FS_Subset
  <2> QED  BY <1>2, <1>4, <1>5, <2>5, <2>6
<1> QED  BY <1>6

\* What one page does to a reader: Shown, if she has seen the video already.
At(table, v) == [time |-> table[v].time, id |-> v]
Turns(table, page, cursor, v) ==
  /\ page.next \subseteq Keys
  /\ Has(page, v) => Beyond(At(table, v), cursor)
  /\ Has(page, v) \/ ~Beyond(At(table, v), cursor) =>
        page.next = {} \/ ~Beyond(At(table, v), page.next)
  /\ ~Has(page, v) /\ Beyond(At(table, v), cursor) =>
        page.next # {} /\ Beyond(At(table, v), page.next)

LEMMA PageTurns ==
  ASSUME NEW table \in Tables, NEW channel, NEW wanted, NEW cursor \in SUBSET Keys,
         NEW limit \in Nat \ {0}, NEW row \in Rows(table, channel, wanted)
  PROVE  Turns(table, Page(table, channel, wanted, cursor, limit), cursor, row.id)
<1> DEFINE ahead == {r \in Rows(table, channel, wanted) : Beyond(Key(table, r), cursor)}
           First(r) == {s \in ahead : Precedes(table, s, r)}
           items == {r \in ahead : Cardinality(First(r)) < limit}
           last == {r \in items : \A s \in items : ~Precedes(table, r, s)}
<1>1. PICK v : v = row.id OBVIOUS
<1>2. PICK key : key = At(table, v) OBVIOUS
<1>3. /\ key \in Keys /\ Key(table, row) = key
      /\ \A r \in Rows(table, channel, wanted) : Key(table, r) \in Keys /\ Key(table, r).id = r.id
      /\ \A r \in Rows(table, channel, wanted) : r.id = v <=> Key(table, r) = key
  <2>1. key = Key(table, row) BY <1>1, <1>2 DEF At, Key
  <2>2. \A r \in Rows(table, channel, wanted) : Key(table, r) \in Keys /\ Key(table, r).id = r.id
    BY RowIs
  <2>3. \A r \in Rows(table, channel, wanted) : r.id = v => Key(table, r) = key
    BY <1>1, <2>1 DEF Key
  <2> QED  BY <1>1, <2>1, <2>2, <2>3
<1>4. PICK page : page = Page(table, channel, wanted, cursor, limit) OBVIOUS
<1>5. /\ page.items = items
      /\ page.next = IF Cardinality(ahead) > limit THEN {Key(table, r) : r \in last} ELSE {}
  BY <1>4 DEF Page
<1>6. /\ ahead \subseteq Rows(table, channel, wanted) /\ items \subseteq ahead /\ last \subseteq items
      /\ \A r : First(r) \subseteq ahead
  OBVIOUS
<1>7. /\ IsFiniteSet(ahead) /\ Cardinality(ahead) \in Nat
      /\ \A r : IsFiniteSet(First(r)) /\ Cardinality(First(r)) \in Nat
  <2>1. IsFiniteSet(Rows(table, channel, wanted)) BY RowsAreFinite
  <2> HIDE DEF ahead, First
  <2> QED  BY <1>6, <2>1, FS_Subset, FS_CardinalityType
<1>8. page.next \subseteq Keys
  <2>1. \A r \in last : r \in Rows(table, channel, wanted) BY <1>6
  <2> HIDE DEF last, ahead
  <2>2. ASSUME NEW k \in page.next PROVE k \in Keys
    <3>1. PICK r \in last : k = Key(table, r) BY <1>5, <2>2
    <3> QED  BY <1>3, <2>1, <3>1
  <2> QED  BY <2>2
<1>9. Has(page, v) => Beyond(key, cursor)
  <2>1. ASSUME NEW r \in items, r.id = v PROVE Beyond(key, cursor) BY <1>3, <2>1
  <2> QED  BY <1>5, <2>1 DEF Has
\* The cursor is the key of the last item.
<1>10. \A k \in page.next : \E r \in last : k = Key(table, r) BY <1>5
<1>11. ASSUME Has(page, v), NEW k \in page.next PROVE ~Before(k, key)
  <2>1. PICK r \in items : r.id = v BY <1>5, <1>11 DEF Has
  <2>2. PICK l \in last : k = Key(table, l) BY <1>10, <1>11
  <2>3. ~Precedes(table, l, r) BY <2>1, <2>2
  <2>4. Key(table, r) = key BY <1>3, <2>1
  <2> QED  BY <2>2, <2>3, <2>4 DEF Precedes
<1>12. ASSUME ~Beyond(key, cursor), NEW k \in page.next PROVE ~Before(k, key)
  <2>1. PICK c \in cursor : ~Before(c, key) BY <1>12 DEF Beyond
  <2>2. PICK l \in last : k = Key(table, l) BY <1>10, <1>12
  <2>3. Before(c, k) BY <2>2 DEF Beyond
  <2>4. c \in Keys /\ k \in Keys BY <1>8
  <2> QED  BY <1>3, <2>1, <2>3, <2>4, BeforeIsOrder
<1>13. ASSUME ~Has(page, v), Beyond(key, cursor)
       PROVE  page.next # {} /\ Beyond(key, page.next)
  <2>1. row \in ahead /\ row \notin items BY <1>1, <1>3, <1>5, <1>13 DEF Has
  <2>2. Cardinality(First(row)) >= limit
    <3>1. ~(Cardinality(First(row)) < limit) BY <2>1
    <3> HIDE DEF First
    <3> QED  BY <1>7, <3>1
  <2>3. Cardinality(ahead) > limit
    <3>1. row \notin First(row) BY <1>6, <2>1, PrecedesIsOrder
    <3>2. First(row) # ahead BY <2>1, <3>1
    <3> HIDE DEF ahead, First
    <3>3. /\ Cardinality(First(row)) <= Cardinality(ahead)
          /\ Cardinality(First(row)) # Cardinality(ahead)
      BY <1>6, <1>7, <3>2, FS_Subset
    <3> QED  BY <1>7, <2>2, <3>3
  \* Whatever is on the page comes before the row.
  <2>4. ASSUME NEW r \in items PROVE Precedes(table, r, row)
    <3>1. r # row BY <2>1
    <3>2. ASSUME Precedes(table, row, r) PROVE FALSE
      <4>1. First(row) \subseteq First(r)
        <5>1. ASSUME NEW s \in First(row) PROVE s \in First(r)
          <6>1. s \in ahead /\ Precedes(table, s, row) OBVIOUS
          <6>2. Precedes(table, s, r) BY <1>6, <2>1, <3>2, <6>1, PrecedesIsOrder
          <6> QED  BY <6>1, <6>2
        <5> QED  BY <5>1
      <4>2. Cardinality(First(r)) < limit OBVIOUS
      <4> HIDE DEF First
      <4>3. Cardinality(First(row)) <= Cardinality(First(r)) BY <1>7, <4>1, FS_Subset
      <4> QED  BY <1>7, <2>2, <4>2, <4>3
    <3> QED  BY <1>6, <2>1, <3>1, <3>2, PrecedesIsOrder
  <2>5. items # {}
    <3>1. ASSUME items = {} PROVE FALSE
      \* The first of those that precede the row has none before it.
      <4>1. ASSUME NEW r \in ahead PROVE Cardinality(First(r)) >= limit
        <5>1. r \notin items BY <3>1
        <5>2. ~(Cardinality(First(r)) < limit) BY <5>1
        <5> HIDE DEF First
        <5> QED  BY <1>7, <5>2
      <4> DEFINE Counts == {Cardinality(First(r)) : r \in ahead}
      <4>2. Counts \in SUBSET Nat /\ Counts # {}
        <5> HIDE DEF First, ahead
        <5> QED  BY <1>7, <2>1
      <4>3. PICK n \in Counts : \A m \in Counts : n <= m
        <5> HIDE DEF Counts
        <5> QED  BY <4>2, HasLeast
      <4>4. PICK r \in ahead : n = Cardinality(First(r)) OBVIOUS
      <4>5. First(r) # {}
        <5> HIDE DEF First
        <5> QED  BY <1>7, <4>1, FS_EmptySet
      <4>6. PICK s \in ahead : Precedes(table, s, r) BY <4>5
      <4>7. First(s) \subseteq First(r)
        <5>1. ASSUME NEW t \in First(s) PROVE t \in First(r)
          <6>1. t \in ahead /\ Precedes(table, t, s) OBVIOUS
          <6>2. Precedes(table, t, r) BY <1>6, <4>6, <6>1, PrecedesIsOrder
          <6> QED  BY <6>1, <6>2
        <5> QED  BY <5>1
      <4>8. s \in First(r) /\ s \notin First(s) BY <1>6, <4>6, PrecedesIsOrder
      <4>9. First(s) # First(r) BY <4>8
      <4>10. Cardinality(First(s)) \in Counts OBVIOUS
      <4> HIDE DEF First, Counts
      <4>11. /\ Cardinality(First(s)) <= Cardinality(First(r))
             /\ Cardinality(First(s)) # Cardinality(First(r))
        BY <1>7, <4>7, <4>9, FS_Subset
      <4> QED  BY <1>7, <4>3, <4>4, <4>10, <4>11
    <3> QED  BY <3>1
  <2>6. last # {}
    <3>1. items \in SUBSET Rows(table, channel, wanted) BY <1>6
    <3>2. \E r \in items : \A s \in items : ~Precedes(table, r, s)
      <4> HIDE DEF items
      <4> QED  BY <2>5, <3>1, LastExists
    <3> QED  BY <3>2
  <2>7. page.next # {} BY <1>5, <2>3, <2>6
  <2>8. ASSUME NEW k \in page.next PROVE Before(k, key)
    <3>1. PICK l \in last : k = Key(table, l) BY <1>10, <2>8
    <3>2. Precedes(table, l, row) BY <2>4
    <3>3. l.id # v BY <1>5, <1>13 DEF Has
    <3> QED  BY <1>1, <1>3, <3>1, <3>2, <3>3 DEF Precedes
  <2> QED  BY <2>7, <2>8 DEF Beyond
<1>14. Has(page, v) \/ ~Beyond(key, cursor) => page.next = {} \/ ~Beyond(key, page.next)
  BY <1>11, <1>12 DEF Beyond
<1>15. Turns(table, page, cursor, v) BY <1>2, <1>8, <1>9, <1>13, <1>14 DEF Turns
<1> QED  BY <1>1, <1>4, <1>15

-----------------------------------------------------------------------------

\* What the recursion in Reading says of the first m pages.
Turned(h, tables, channel, wanted, limit, m) ==
  h = [k \in 1..m |->
         IF k = 1 THEN Page(tables[1], channel, wanted, {}, limit)
         ELSE IF h[k - 1].next = {} THEN [items |-> {}, next |-> {}]
         ELSE Page(tables[k], channel, wanted, h[k - 1].next, limit)]

LEMMA TurnedExists ==
  ASSUME NEW tables, NEW channel, NEW wanted, NEW limit, NEW top \in Nat
  PROVE  \E h : Turned(h, tables, channel, wanted, limit, top)
<1> DEFINE Bad == {m \in Nat : m <= top /\ ~ \E h : Turned(h, tables, channel, wanted, limit, m)}
<1>1. ASSUME NEW m \in Bad PROVE \E l \in Bad : l < m
  <2>1. m \in Nat /\ m <= top /\ ~ \E h : Turned(h, tables, channel, wanted, limit, m)
    OBVIOUS
  <2>2. m # 0
    <3> DEFINE h == [k \in 1..0 |-> {}]
    <3>1. Turned(h, tables, channel, wanted, limit, 0) BY DEF Turned
    <3> HIDE DEF h, Bad
    <3> QED  BY <2>1, <3>1
  <2>3. m - 1 \in Nat /\ m - 1 <= top /\ m - 1 < m
    <3> HIDE DEF Bad
    <3> QED  BY <2>1, <2>2
  <2>4. ASSUME m - 1 \notin Bad PROVE FALSE
    <3>1. PICK h : Turned(h, tables, channel, wanted, limit, m - 1) BY <2>3, <2>4
    <3> HIDE DEF Bad
    <3> DEFINE new == IF m = 1 THEN Page(tables[1], channel, wanted, {}, limit)
                      ELSE IF h[m - 1].next = {} THEN [items |-> {}, next |-> {}]
                      ELSE Page(tables[m], channel, wanted, h[m - 1].next, limit)
               g == [k \in 1..m |-> IF k < m THEN h[k] ELSE new]
    <3>2. ASSUME NEW k \in 1..m
          PROVE  g[k] = IF k = 1 THEN Page(tables[1], channel, wanted, {}, limit)
                        ELSE IF g[k - 1].next = {} THEN [items |-> {}, next |-> {}]
                        ELSE Page(tables[k], channel, wanted, g[k - 1].next, limit)
      <4>1. CASE k = m
        <5>1. g[k] = new /\ (k # 1 => g[k - 1] = h[m - 1]) BY <2>1, <2>2, <4>1
        <5> QED  BY <4>1, <5>1
      <4>2. CASE k # m
        <5>1. k \in 1..(m - 1) BY <2>1, <4>2
        <5>2. g[k] = h[k] /\ (k # 1 => g[k - 1] = h[k - 1]) BY <2>1, <5>1
        <5>3. h[k] = IF k = 1 THEN Page(tables[1], channel, wanted, {}, limit)
                     ELSE IF h[k - 1].next = {} THEN [items |-> {}, next |-> {}]
                     ELSE Page(tables[k], channel, wanted, h[k - 1].next, limit)
          BY <3>1, <5>1 DEF Turned
        <5> QED  BY <5>2, <5>3
      <4> QED  BY <4>1, <4>2
    <3>3. g = [k \in 1..m |-> g[k]] OBVIOUS
    <3> HIDE DEF g
    <3>4. Turned(g, tables, channel, wanted, limit, m) BY <3>2, <3>3 DEF Turned
    <3> QED  BY <2>1, <3>4
  <2> QED  BY <2>3, <2>4
<1>2. Bad = {}
  <2>1. Bad \in SUBSET Nat OBVIOUS
  <2> HIDE DEF Bad
  <2> QED  BY <1>1, <2>1, NoneIsLeast
<1> QED  BY <1>2

\* The reader gets one page after the other as long as there are more.
Turning(page, tables, channel, wanted, limit, n) ==
  /\ DOMAIN page = 1..n
  /\ \A k \in 1..n :
        page[k] = IF k = 1 THEN Page(tables[1], channel, wanted, {}, limit)
                  ELSE IF page[k - 1].next = {} THEN [items |-> {}, next |-> {}]
                  ELSE Page(tables[k], channel, wanted, page[k - 1].next, limit)

LEMMA ReadingTurns ==
  ASSUME NEW tables, NEW n \in Nat, DOMAIN tables = 1..n, NEW channel, NEW wanted, NEW limit
  PROVE  Turning(Reading(tables, channel, wanted, limit), tables, channel, wanted, limit, n)
<1> DEFINE page == CHOOSE h : Turned(h, tables, channel, wanted, limit, n)
<1>1. Reading(tables, channel, wanted, limit) = page
  BY Zenon DEF Reading, Turned
<1>2. Turned(page, tables, channel, wanted, limit, n) BY TurnedExists
<1> HIDE DEF page
<1>3. Turning(page, tables, channel, wanted, limit, n) BY <1>2 DEF Turned, Turning
<1> QED  BY <1>1, <1>3

\* The video is there, with one date, on every page that is asked for.
Stays(page, tables, channel, wanted, v) ==
  \A k \in Followed(page) : /\ \E r \in Rows(tables[k], channel, wanted) : r.id = v
                           /\ tables[k][v].time = tables[1][v].time
Once(page, next, asked, key, v) ==
  LET on == {k \in asked : Has(page[k], v)} IN
  \/ Cardinality(on) = 1
  \/ on = {} /\ next # {} /\ Beyond(key, next)

\* Whatever happens to the tables between the pages.
LEMMA EveryVideoOnce ==
  ASSUME NEW tables, NEW n \in Nat \ {0}, DOMAIN tables = 1..n, \A k \in 1..n : tables[k] \in Tables,
         NEW channel, NEW wanted, NEW limit \in Nat \ {0},
         NEW page, Turning(page, tables, channel, wanted, limit, n), NEW v,
         Stays(page, tables, channel, wanted, v)
  PROVE  Once(page, page[Max(Followed(page))].next, Followed(page), At(tables[1], v), v)
<1> DEFINE cursor(k) == IF k = 1 THEN {} ELSE page[k - 1].next
           Seen(k) == \E j \in 1..(k - 1) : /\ Has(page[j], v)
                                           /\ \A i \in 1..(k - 1) : Has(page[i], v) => i = j
           Inv(k) == /\ cursor(k) \subseteq Keys
                     /\ IF Beyond(At(tables[1], v), cursor(k))
                        THEN \A i \in 1..(k - 1) : ~Has(page[i], v)
                        ELSE Seen(k)
<1>1. PICK asked : asked = Followed(page) OBVIOUS
<1>2. PICK key : key = At(tables[1], v) OBVIOUS
<1>3. /\ asked \subseteq 1..n /\ 1 \in asked
      /\ \A k \in 1..n : k \in asked <=> k = 1 \/ page[k - 1].next # {}
  BY <1>1 DEF Followed, Turning
<1>4. ASSUME NEW k \in asked, k # 1 PROVE k - 1 \in asked /\ k - 1 \in 1..n
  <2>1. k \in 1..n /\ k - 1 \in 1..n BY <1>3, <1>4
  <2>2. page[k - 1].next # {} BY <1>3, <1>4
  <2>3. ASSUME k - 1 # 1, page[(k - 1) - 1].next = {} PROVE FALSE
    <3>1. page[k - 1] = [items |-> {}, next |-> {}] BY <2>1, <2>3 DEF Turning
    <3> QED  BY <2>2, <3>1
  <2> QED  BY <1>3, <2>1, <2>3
<1>5. ASSUME NEW k \in asked
      PROVE  page[k] = Page(tables[k], channel, wanted, cursor(k), limit)
  BY <1>3 DEF Turning
<1>6. ASSUME NEW k \in 1..n, k \notin asked PROVE ~Has(page[k], v)
  <2>1. page[k] = [items |-> {}, next |-> {}] BY <1>3, <1>6 DEF Turning
  <2> QED  BY <2>1 DEF Has
<1> HIDE DEF cursor
<1>7. ASSUME NEW k \in asked, cursor(k) \subseteq Keys
      PROVE  /\ page[k].next \subseteq Keys
             /\ Has(page[k], v) => Beyond(key, cursor(k))
             /\ Has(page[k], v) \/ ~Beyond(key, cursor(k)) =>
                   page[k].next = {} \/ ~Beyond(key, page[k].next)
             /\ ~Has(page[k], v) /\ Beyond(key, cursor(k)) =>
                   page[k].next # {} /\ Beyond(key, page[k].next)
  <2>1. PICK table \in Tables : table = tables[k] BY <1>3
  <2>2. PICK r \in Rows(table, channel, wanted) : r.id = v BY <1>1, <2>1 DEF Stays
  <2>3. PICK c \in SUBSET Keys : c = cursor(k) BY <1>7
  <2>4. page[k] = Page(table, channel, wanted, c, limit) BY <1>5, <2>1, <2>3
  <2>5. Turns(table, page[k], c, v) BY <2>2, <2>4, PageTurns
  <2>6. At(table, v) = key BY <1>1, <1>2, <2>1 DEF At, Stays
  <2> QED  BY <2>3, <2>5, <2>6 DEF Turns
<1>8. ASSUME NEW k \in asked PROVE Inv(k)
  <2> DEFINE Bad == {m \in asked : ~Inv(m)}
  <2>1. ASSUME NEW m \in Bad PROVE \E l \in Bad : l < m
    <3>1. m \in asked /\ ~Inv(m) OBVIOUS
    <3>2. m # 1
      <4>1. cursor(1) = {} BY DEF cursor
      <4>2. Beyond(At(tables[1], v), {}) BY DEF Beyond
      <4>3. 1..(1 - 1) = {} OBVIOUS
      <4>4. Inv(1) BY <4>1, <4>2, <4>3
      <4> HIDE DEF Inv, Bad
      <4> QED  BY <3>1, <4>4
    <3>3. m - 1 \in asked /\ m - 1 \in 1..n /\ m \in 1..n BY <1>3, <1>4, <3>1, <3>2
    <3>4. m - 1 < m BY <3>3
    <3>5. cursor(m) = page[m - 1].next /\ page[m - 1].next # {}
      BY <1>3, <3>1, <3>2, <3>3 DEF cursor
    <3>6. ASSUME Inv(m - 1) PROVE FALSE
      <4>1. cursor(m - 1) \subseteq Keys BY <3>6
      <4>2. \A i \in 1..(m - 1) : i = m - 1 \/ i \in 1..((m - 1) - 1) BY <3>3
      <4>3. m - 1 \in 1..(m - 1) /\ 1..((m - 1) - 1) \subseteq 1..(m - 1)
            /\ m - 1 \notin 1..((m - 1) - 1)
        BY <3>3
      <4>4. CASE Beyond(key, cursor(m - 1)) /\ Has(page[m - 1], v)
        <5>1. ~Beyond(key, cursor(m)) /\ cursor(m) \subseteq Keys
          BY <1>7, <3>3, <3>5, <4>1, <4>4
        <5>2. \A i \in 1..((m - 1) - 1) : ~Has(page[i], v) BY <1>2, <3>6, <4>4
        <5>3. Seen(m) BY <4>2, <4>3, <4>4, <5>2
        <5> HIDE DEF Seen
        <5> QED  BY <1>2, <3>1, <5>1, <5>3
      <4>5. CASE Beyond(key, cursor(m - 1)) /\ ~Has(page[m - 1], v)
        <5>1. Beyond(key, cursor(m)) /\ cursor(m) \subseteq Keys
          BY <1>7, <3>3, <3>5, <4>1, <4>5
        <5>2. \A i \in 1..((m - 1) - 1) : ~Has(page[i], v) BY <1>2, <3>6, <4>5
        <5>3. \A i \in 1..(m - 1) : ~Has(page[i], v) BY <4>2, <4>5, <5>2
        <5> HIDE DEF Seen
        <5> QED  BY <1>2, <3>1, <5>1, <5>3
      <4>6. CASE ~Beyond(key, cursor(m - 1))
        <5>1. ~Beyond(key, cursor(m)) /\ cursor(m) \subseteq Keys /\ ~Has(page[m - 1], v)
          BY <1>7, <3>3, <3>5, <4>1, <4>6
        <5>2. Seen(m - 1)
          <6> HIDE DEF Seen
          <6> QED  BY <1>2, <3>6, <4>6
        <5>3. Seen(m) BY <4>2, <4>3, <5>1, <5>2
        <5> HIDE DEF Seen
        <5> QED  BY <1>2, <3>1, <5>1, <5>3
      <4> QED  BY <4>4, <4>5, <4>6
    <3>7. m - 1 \in Bad
      <4> HIDE DEF Inv
      <4> QED  BY <3>3, <3>6
    <3> HIDE DEF Bad
    <3> QED  BY <3>4, <3>7
  <2>2. Bad = {}
    <3>1. asked \in SUBSET Nat /\ Bad \subseteq asked
      <4> HIDE DEF Inv
      <4> QED  BY <1>3
    <3>2. Bad \in SUBSET Nat
      <4> HIDE DEF Bad
      <4> QED  BY <3>1
    <3> HIDE DEF Bad
    <3> QED  BY <2>1, <3>2, NoneIsLeast
  <2> HIDE DEF Inv
  <2> QED  BY <2>2
<1>9. PICK m \in asked : m = Max(asked) /\ \A k \in asked : k <= m
  <2>1. asked \in SUBSET Nat /\ asked # {} /\ \A k \in asked : k <= n BY <1>3
  <2>2. PICK m \in asked : \A k \in asked : k <= m BY <2>1, HasGreatest
  <2>3. \A k \in asked : m >= k BY <2>1, <2>2
  <2>4. Max(asked) \in asked /\ \A k \in asked : Max(asked) >= k BY <2>3 DEF Max
  <2> QED  BY <2>1, <2>4
<1>10. PICK on : on = {k \in asked : Has(page[k], v)} OBVIOUS
<1>11. Inv(m) BY <1>8
<1>12. m \in 1..n /\ \A k \in asked : k = m \/ k \in 1..(m - 1) BY <1>3, <1>9
<1>13. cursor(m) \subseteq Keys BY <1>11
<1>14. CASE Beyond(key, cursor(m)) /\ Has(page[m], v)
  <2>1. \A i \in 1..(m - 1) : ~Has(page[i], v) BY <1>2, <1>11, <1>14
  <2>2. on = {m} BY <1>10, <1>12, <1>14, <2>1
  <2>3. Cardinality(on) = 1 BY <2>2, FS_Singleton
  <2> QED  BY <1>1, <1>10, <2>3 DEF Once
<1>15. CASE Beyond(key, cursor(m)) /\ ~Has(page[m], v)
  <2>1. \A i \in 1..(m - 1) : ~Has(page[i], v) BY <1>2, <1>11, <1>15
  <2>2. on = {} BY <1>10, <1>12, <1>15, <2>1
  <2>3. page[m].next # {} /\ Beyond(key, page[m].next) BY <1>7, <1>13, <1>15
  <2> QED  BY <1>1, <1>2, <1>9, <1>10, <2>2, <2>3 DEF Once
<1>16. CASE ~Beyond(key, cursor(m))
  <2>1. ~Has(page[m], v) BY <1>7, <1>13, <1>16
  <2>2. Seen(m)
    <3> HIDE DEF Seen
    <3> QED  BY <1>2, <1>11, <1>16
  <2>3. PICK j \in 1..(m - 1) : /\ Has(page[j], v)
                               /\ \A i \in 1..(m - 1) : Has(page[i], v) => i = j
    BY <2>2
  <2>4. j \in 1..n BY <1>12, <2>3
  <2>5. j \in asked BY <1>6, <2>3, <2>4
  <2>6. on = {j} BY <1>10, <1>12, <2>1, <2>3, <2>5
  <2>7. Cardinality(on) = 1 BY <2>6, FS_Singleton
  <2> QED  BY <1>1, <1>10, <2>7 DEF Once
<1> QED  BY <1>14, <1>15, <1>16

LEMMA EachIsSeenOnce == SeenOnce
<1> SUFFICES ASSUME NEW tables \in Histories, NEW channel \in Channels \cup {"any"},
                    NEW wanted \in Statuses, NEW limit \in Limits
             PROVE  LET page == Reading(tables, channel, wanted, limit)
                        asked == Followed(page)
                        next == page[Max(asked)].next IN
                    \A v \in Ids :
                      (\A k \in asked : /\ \E r \in Rows(tables[k], channel, wanted) : r.id = v
                                        /\ tables[k][v].time = tables[1][v].time)
                      => LET on == {k \in asked : Has(page[k], v)} IN
                         \/ Cardinality(on) = 1
                         \/ on = {} /\ next # {} /\ Beyond([time |-> tables[1][v].time, id |-> v], next)
  BY Zenon DEF SeenOnce
<1>1. PICK page : page = Reading(tables, channel, wanted, limit) OBVIOUS
<1>2. Reads \in Nat \ {0} /\ limit \in Nat \ {0} BY TimelineAssumption DEF TimelineAssumption
<1>3. DOMAIN tables = 1..Reads /\ \A k \in 1..Reads : tables[k] \in Tables
  <2>1. PICK before \in Tables, after \in Tables :
           tables = [k \in 1..Reads |-> IF k = 1 THEN before ELSE after]
    BY DEF Histories
  <2> QED  BY <2>1
<1>4. Turning(page, tables, channel, wanted, limit, Reads) BY <1>1, <1>2, <1>3, ReadingTurns
<1>5. ASSUME NEW v \in Ids, Stays(page, tables, channel, wanted, v)
      PROVE  Once(page, page[Max(Followed(page))].next, Followed(page), At(tables[1], v), v)
  BY <1>2, <1>3, <1>4, <1>5, EveryVideoOnce
<1> QED  BY <1>1, <1>5, Zenon DEF Once, At, Stays

-----------------------------------------------------------------------------

\* What the recursion in SumFunction says of the subsets of S.
Summed(h, f, S) ==
  h = [s \in SUBSET S |-> IF s = {} THEN 0
                         ELSE LET x == CHOOSE x \in s : TRUE IN f[x] + h[s \ {x}]]

LEMMA SumIs ==
  ASSUME NEW f PROVE SumFunction(f) = (CHOOSE h : Summed(h, f, DOMAIN f))[DOMAIN f]
  BY DEF SumFunction, SumFunctionOnSet, FoldFunctionOnSet, MapThenFoldSet, Summed

\* What is counted by kind is counted once.
LEMMA KindsAddUp ==
  ASSUME NEW V, IsFiniteSet(V), NEW kind, DOMAIN kind = V,
         NEW f, f = [c \in {kind[v] : v \in V} |-> Cardinality({v \in V : kind[v] = c})]
  PROVE  SumFunction(f) = Cardinality(V)
<1> DEFINE Of(s) == {v \in V : kind[v] \in s}
<1>1. PICK S : S = {kind[v] : v \in V} OBVIOUS
<1>2. IsFiniteSet(S)
  <2>1. PICK k : k = [v \in V |-> kind[v]] OBVIOUS
  <2>2. k \in Surjection(V, S) BY <1>1, <2>1 DEF Surjection
  <2> QED  BY <2>2, FS_Surjection
<1>3. \A T \in SUBSET V : IsFiniteSet(T) /\ Cardinality(T) \in Nat BY FS_Subset, FS_CardinalityType
<1>4. DOMAIN f = S BY <1>1
<1>5. ASSUME NEW s \in SUBSET S, NEW x \in s
      PROVE  Cardinality(Of(s)) = f[x] + Cardinality(Of(s \ {x}))
  <2>1. PICK A : A = {v \in V : kind[v] = x} OBVIOUS
  <2>2. PICK B : B = Of(s \ {x}) OBVIOUS
  <2>3. A \in SUBSET V /\ B \in SUBSET V /\ A \cap B = {} /\ Of(s) = A \cup B BY <2>1, <2>2
  <2>4. f[x] = Cardinality(A) BY <1>1, <2>1
  <2>5. Cardinality(A \cap B) = 0 BY <2>3, FS_EmptySet
  <2>6. Cardinality(A \cup B) = Cardinality(A) + Cardinality(B) - Cardinality(A \cap B)
    BY <1>3, <2>3, FS_Union
  <2>7. Cardinality(A) \in Nat /\ Cardinality(B) \in Nat BY <1>3, <2>3
  <2>8. Cardinality(Of(s)) = Cardinality(A \cup B) BY <2>3
  <2>9. Cardinality(Of(s)) = Cardinality(A) + Cardinality(B)
    <3> HIDE DEF Of
    <3> QED  BY <2>5, <2>6, <2>7, <2>8
  <2> QED  BY <2>2, <2>4, <2>9
<1>6. Cardinality(Of({})) = 0
  <2>1. Of({}) = {} OBVIOUS
  <2> QED  BY <2>1, FS_EmptySet
<1>7. Of(S) = V BY <1>1
<1> HIDE DEF Of
<1>8. \E h : Summed(h, f, S)
  <2> DEFINE g == [s \in SUBSET S |-> Cardinality(Of(s))]
  <2>1. ASSUME NEW s \in SUBSET S
        PROVE  g[s] = IF s = {} THEN 0
                      ELSE LET x == CHOOSE x \in s : TRUE IN f[x] + g[s \ {x}]
    <3>1. CASE s = {} BY <1>6, <3>1
    <3>2. CASE s # {}
      <4>1. PICK x \in s : x = CHOOSE y \in s : TRUE BY <3>2
      <4>2. s \ {x} \in SUBSET S OBVIOUS
      <4>3. g[s] = f[x] + g[s \ {x}] BY <1>5, <4>2
      <4> HIDE DEF g
      <4> QED  BY <3>2, <4>1, <4>3
    <3> QED  BY <3>1, <3>2
  <2>2. g = [s \in SUBSET S |-> g[s]] OBVIOUS
  <2> HIDE DEF g
  <2>3. Summed(g, f, S) BY <2>1, <2>2 DEF Summed
  <2> QED  BY <2>3
<1>9. PICK h : h = CHOOSE g : Summed(g, f, S) OBVIOUS
<1>10. Summed(h, f, S) BY <1>8, <1>9
<1>11. ASSUME NEW s \in SUBSET S PROVE h[s] = Cardinality(Of(s))
  <2> DEFINE Bad == {r \in SUBSET S : h[r] # Cardinality(Of(r))}
             Counts == {Cardinality(r) : r \in Bad}
  <2>1. \A r \in SUBSET S : IsFiniteSet(r) /\ Cardinality(r) \in Nat
    BY <1>2, FS_Subset, FS_CardinalityType
  <2>2. ASSUME NEW n \in Counts PROVE \E m \in Counts : m < n
    <3>1. PICK r \in Bad : n = Cardinality(r) OBVIOUS
    <3>2. r \in SUBSET S /\ h[r] # Cardinality(Of(r)) OBVIOUS
    <3>3. h[r] = IF r = {} THEN 0 ELSE LET x == CHOOSE x \in r : TRUE IN f[x] + h[r \ {x}]
      BY <1>10, <3>2 DEF Summed
    <3>4. r # {} BY <1>6, <3>2, <3>3
    <3>5. PICK x \in r : x = CHOOSE y \in r : TRUE BY <3>4
    <3>6. h[r] = f[x] + h[r \ {x}] BY <3>3, <3>4, <3>5
    <3>7. r \ {x} \in SUBSET S BY <3>2
    <3>8. h[r \ {x}] # Cardinality(Of(r \ {x})) BY <1>5, <3>2, <3>6
    <3>9. r \ {x} \in Bad BY <3>7, <3>8
    <3>10. Cardinality(r \ {x}) \in Counts BY <3>9
    <3> HIDE DEF Bad, Counts
    <3>11. Cardinality(r \ {x}) = Cardinality(r) - 1 BY <2>1, <3>2, FS_RemoveElement
    <3>12. Cardinality(r \ {x}) < n BY <2>1, <3>1, <3>2, <3>11
    <3> QED  BY <3>10, <3>12
  <2>3. Counts \in SUBSET Nat BY <2>1
  <2>4. Counts = {}
    <3> HIDE DEF Counts
    <3> QED  BY <2>2, <2>3, NoneIsLeast
  <2> QED  BY <2>4
<1>12. h[S] = Cardinality(V) BY <1>7, <1>11
<1> QED  BY <1>4, <1>9, <1>12, SumIs

\* The videos with a row that passes no filter, or only that of a channel.
LEMMA RowsOfVideos ==
  ASSUME NEW table \in Tables, NEW channel
  PROVE  /\ {r.id : r \in Rows(table, channel, "any")} =
               {v \in Visible(table) : channel \in {"any", table[v].channel}}
         /\ Visible(table) \subseteq DOMAIN table /\ IsFiniteSet(Visible(table))
         /\ \A v \in Visible(table) : table[v].channel \in Channels
<1>1. PICK some \in SUBSET Ids : table \in [some -> VideoRow] BY DEF Tables
<1>2. Visible(table) \subseteq DOMAIN table /\ Visible(table) \in SUBSET Ids BY <1>1 DEF Visible
<1>3. IsFiniteSet(Visible(table))
  BY <1>2, FS_Subset, TimelineAssumption DEF TimelineAssumption
<1>4. ASSUME NEW v \in DOMAIN table
      PROVE  /\ table[v].channel \in Channels
             /\ \E d \in Documents : d \in Outer(table[v])
  <2>1. table[v] \in VideoRow BY <1>1
  <2>2. table[v].channel \in Channels /\ table[v].documents \subseteq {"processing", "completed"}
    BY <2>1 DEF VideoRow
  <2> QED  BY <2>2 DEF Outer, Documents
<1>5. ASSUME NEW v \in Visible(table), channel \in {"any", table[v].channel}
      PROVE  \E r \in Rows(table, channel, "any") : r.id = v
  <2>1. v \in DOMAIN table /\ table[v].fetch # "ignored_live" BY DEF Visible
  <2>2. PICK d \in Documents : d \in Outer(table[v]) BY <1>4, <2>1
  <2>3. PICK r : r = [id |-> v, document |-> d] OBVIOUS
  <2>4. r.id = v /\ r.document = d /\ r \in [id : DOMAIN table, document : Documents]
    BY <2>1, <2>3
  <2>5. r \in Rows(table, channel, "any") BY <1>5, <2>1, <2>2, <2>4 DEF Rows, Documents
  <2> QED  BY <2>4, <2>5
<1>6. ASSUME NEW r \in Rows(table, channel, "any")
      PROVE  r.id \in Visible(table) /\ channel \in {"any", table[r.id].channel}
  BY DEF Rows, Visible
<1> QED  BY <1>2, <1>3, <1>4, <1>5, <1>6

LEMMA NumbersMatch == CountsMatch
<1> SUFFICES ASSUME NEW table \in Tables
             PROVE  LET counts == PerStatus(table)
                        channels == PerChannel(table)
                        months == PerMonth(table)
                        all == Number(table, "any", "any") IN
                    /\ \A s \in DOMAIN counts : Number(table, "any", s) = counts[s] /\ counts[s] > 0
                    /\ \A s \in Statuses \ (DOMAIN counts \cup {"any"}) : Number(table, "any", s) = 0
                    /\ \A c \in DOMAIN channels : Number(table, c, "any") = channels[c]
                    /\ SumFunction(channels) = all /\ SumFunction(months) = all
  BY DEF CountsMatch
<1>1. PICK rows : rows = Rows(table, "any", "any") OBVIOUS
<1>2. PICK counts : counts = PerStatus(table) OBVIOUS
<1>3. PICK V : V = Visible(table) OBVIOUS
<1> DEFINE Of(r) == Status(table[r.id], r.document)
           Said(s) == {r \in rows : Of(r) = s}
<1>4. counts = [s \in {Of(r) : r \in rows} |-> Cardinality({r.id : r \in Said(s)})]
  BY <1>1, <1>2, Zenon DEF PerStatus
<1>5. ASSUME NEW s, s # "any" PROVE Rows(table, "any", s) = Said(s)
  BY <1>1, <1>5 DEF Rows
<1>6. ASSUME NEW r \in rows PROVE Of(r) # "any"
  <2>1. r.document \in Documents BY <1>1, RowIs
  <2> QED  BY <2>1 DEF Status, Terminal, Documents
<1>7. ASSUME NEW s, s \in {Of(r) : r \in rows}
      PROVE  Number(table, "any", s) = counts[s] /\ counts[s] > 0
  <2>1. s # "any" BY <1>6, <1>7
  <2>2. PICK ids : ids = {r.id : r \in Said(s)} OBVIOUS
  <2>3. Number(table, "any", s) = Cardinality(ids) BY <1>5, <2>1, <2>2 DEF Number
  <2>4. counts[s] = Cardinality(ids) BY <1>4, <1>7, <2>2
  <2>5. ids # {} BY <1>7, <2>2
  <2>6. ids \in SUBSET Ids
    <3>1. \A r \in rows : r.id \in Ids BY <1>1, RowIs
    <3> QED  BY <2>2, <3>1
  <2>7. IsFiniteSet(ids) /\ Cardinality(ids) \in Nat
    BY <2>6, FS_Subset, FS_CardinalityType, TimelineAssumption DEF TimelineAssumption
  <2>8. Cardinality(ids) # 0 BY <2>5, <2>7, FS_EmptySet
  <2> QED  BY <2>3, <2>4, <2>7, <2>8
<1>8. ASSUME NEW s, s # "any", s \notin {Of(r) : r \in rows}
      PROVE  Number(table, "any", s) = 0
  <2>1. Said(s) = {} BY <1>8
  <2>2. {r.id : r \in Rows(table, "any", s)} = {} BY <1>5, <1>8, <2>1
  <2> QED  BY <2>2, FS_EmptySet DEF Number
<1>9. DOMAIN counts = {Of(r) : r \in rows} BY <1>4
<1> HIDE DEF Of
<1>10. /\ V \subseteq DOMAIN table /\ IsFiniteSet(V)
       /\ \A v \in V : table[v].channel \in Channels
  BY <1>3, RowsOfVideos
<1>11. Number(table, "any", "any") = Cardinality(V)
  <2>1. {r.id : r \in Rows(table, "any", "any")} =
           {v \in Visible(table) : "any" \in {"any", table[v].channel}}
    BY RowsOfVideos
  <2>2. {r.id : r \in Rows(table, "any", "any")} = V BY <1>3, <2>1
  <2> QED  BY <2>2 DEF Number
<1>12. PICK channels : channels = PerChannel(table) OBVIOUS
<1>13. PICK months : months = PerMonth(table) OBVIOUS
<1>14. PICK ofChannel : ofChannel = [v \in V |-> table[v].channel] OBVIOUS
<1>15. PICK ofTime : ofTime = [v \in V |-> table[v].time] OBVIOUS
<1>16. channels = [c \in {ofChannel[v] : v \in V} |-> Cardinality({v \in V : ofChannel[v] = c})]
  <2>1. channels = [c \in {table[v].channel : v \in V} |->
                      Cardinality({v \in V : table[v].channel = c})]
    BY <1>3, <1>12 DEF PerChannel
  <2>2. {ofChannel[v] : v \in V} = {table[v].channel : v \in V} BY <1>14
  <2>3. \A c : {v \in V : ofChannel[v] = c} = {v \in V : table[v].channel = c} BY <1>14
  <2> QED  BY <2>1, <2>2, <2>3
<1>17. months = [c \in {ofTime[v] : v \in V} |-> Cardinality({v \in V : ofTime[v] = c})]
  <2>1. months = [c \in {table[v].time : v \in V} |-> Cardinality({v \in V : table[v].time = c})]
    BY <1>3, <1>13 DEF PerMonth
  <2>2. {ofTime[v] : v \in V} = {table[v].time : v \in V} BY <1>15
  <2>3. \A c : {v \in V : ofTime[v] = c} = {v \in V : table[v].time = c} BY <1>15
  <2> QED  BY <2>1, <2>2, <2>3
<1>18. SumFunction(channels) = Cardinality(V) /\ SumFunction(months) = Cardinality(V)
  <2>1. DOMAIN ofChannel = V /\ DOMAIN ofTime = V BY <1>14, <1>15
  <2> QED  BY <1>10, <1>16, <1>17, <2>1, KindsAddUp
<1>19. ASSUME NEW c \in DOMAIN channels PROVE Number(table, c, "any") = channels[c]
  <2>1. PICK v \in V : c = table[v].channel BY <1>14, <1>16
  <2>2. c # "any" BY <1>10, <2>1, TimelineAssumption DEF TimelineAssumption
  <2>3. {r.id : r \in Rows(table, c, "any")} =
           {u \in Visible(table) : c \in {"any", table[u].channel}}
    BY RowsOfVideos
  <2>4. {r.id : r \in Rows(table, c, "any")} = {u \in V : ofChannel[u] = c}
    BY <1>3, <1>14, <2>2, <2>3
  <2>5. channels[c] = Cardinality({u \in V : ofChannel[u] = c}) BY <1>16
  <2> QED  BY <2>4, <2>5 DEF Number
<1> QED  BY <1>2, <1>7, <1>8, <1>9, <1>11, <1>12, <1>13, <1>18, <1>19

\* A reader who follows the cursors sees a video that keeps its date and passes the
\* filter on exactly one page, or still has it ahead, whatever happens to the tables
\* between two pages; and the numbers beside the list are those of the list.  For any
\* videos, dates and channels, pages of any size and any number of them.
THEOREM HistoryIsRead == TimelineKept /\ (Spec => []TimelineIsRead)
<1>1. TimelineKept
  BY EachIsSeenOnce, NumbersMatch DEF TimelineKept
<1>2. TimelineIsRead
  BY <1>1 DEF TimelineIsRead
<1> QED  BY <1>1, <1>2, PTL

-----------------------------------------------------------------------------
(* Sequences and folds over them                                           *)

\* What is true of the first stage and kept by every step is true of the last one.
LEMMA Steady ==
  ASSUME NEW n \in Nat, NEW good, \* the steps after which it is true
         0 \in good, \A k \in 1..n : k - 1 \in good => k \in good
  PROVE  n \in good
<1> DEFINE Bad == {m \in Nat : m <= n /\ m \notin good}
<1>1. ASSUME NEW m \in Bad PROVE \E l \in Bad : l < m
  <2>1. m \in Nat /\ m <= n /\ m \notin good /\ m # 0 OBVIOUS
  <2>2. m \in 1..n /\ m - 1 \in Nat /\ m - 1 <= n /\ m - 1 < m BY <2>1
  <2>3. m - 1 \notin good BY <2>1, <2>2
  <2> QED  BY <2>2, <2>3
<1>2. Bad = {}
  <2>1. Bad \in SUBSET Nat OBVIOUS
  <2> HIDE DEF Bad
  <2> QED  BY <1>1, <2>1, NoneIsLeast
<1> QED  BY <1>2

LEMMA MaxIs ==
  ASSUME NEW n \in Nat, NEW s \in SUBSET (1..n), n \in s
  PROVE  Max(s) = n
<1>1. \A y \in s : n >= y OBVIOUS
<1>2. \A x \in s : (\A y \in s : x >= y) => x = n OBVIOUS
<1> QED  BY <1>1, <1>2 DEF Max

LEMMA GreatestIs ==
  ASSUME NEW n \in Nat, NEW s \in SUBSET (1..n), s # {}
  PROVE  Max(s) \in s
<1> DEFINE Below == {i \in Nat : \E m \in s : m + i = n}
<1>1. Below \in SUBSET Nat /\ Below # {}
  <2>1. PICK m \in s : TRUE OBVIOUS
  <2>2. n - m \in Nat /\ m + (n - m) = n BY <2>1
  <2> QED  BY <2>2
<1>2. PICK d \in Below : \A e \in Below : d <= e
  <2> HIDE DEF Below
  <2> QED  BY <1>1, HasLeast
<1>3. PICK x \in s : x + d = n OBVIOUS
<1>4. ASSUME NEW m \in s PROVE x >= m
  <2>1. n - m \in Below
    <3>1. n - m \in Nat /\ m + (n - m) = n OBVIOUS
    <3> QED  BY <3>1
  <2>2. d <= n - m BY <1>2, <2>1
  <2>3. d \in Nat /\ x \in Nat /\ m \in Nat OBVIOUS
  <2> HIDE DEF Below
  <2> QED  BY <1>3, <2>2, <2>3
<1> QED  BY <1>4 DEF Max

\* What the recursion in FoldLeft says of the subsets of 1..n.
Folds(h, n, base, F, seq) ==
  h = [s \in SUBSET (1..n) |->
         IF s = {} THEN base ELSE LET x == Max(s) IN F[<<h[s \ {x}], seq[x]>>]]

LEMMA FoldsExist ==
  ASSUME NEW n \in Nat, NEW T, NEW E, NEW base \in T, NEW F \in [T \X E -> T],
         NEW seq \in [1..n -> E]
  PROVE  \E h \in [SUBSET (1..n) -> T] : Folds(h, n, base, F, seq)
<1> DEFINE Is(m) == \E h \in [SUBSET (1..m) -> T] : Folds(h, m, base, F, seq)
           good == {m \in 0..n : Is(m)}
<1>1. 0 \in good
  <2> DEFINE h == [s \in SUBSET (1..0) |-> base]
  <2>1. \A s \in SUBSET (1..0) : s = {} OBVIOUS
  <2>2. h = [s \in SUBSET (1..0) |->
               IF s = {} THEN base ELSE LET x == Max(s) IN F[<<h[s \ {x}], seq[x]>>]]
    BY <2>1
  <2>3. h \in [SUBSET (1..0) -> T] OBVIOUS
  <2> HIDE DEF h
  <2>4. Is(0) BY <2>2, <2>3 DEF Folds
  <2> HIDE DEF Is
  <2> QED  BY <2>4
<1>2. ASSUME NEW m \in 1..n, m - 1 \in good PROVE m \in good
  <2>1. PICK h \in [SUBSET (1..(m - 1)) -> T] : Folds(h, m - 1, base, F, seq) BY <1>2
  <2> DEFINE g == [s \in SUBSET (1..m) |-> IF m \in s THEN F[<<h[s \ {m}], seq[m]>>] ELSE h[s]]
  <2>2. ASSUME NEW s \in SUBSET (1..m)
        PROVE  /\ g[s] \in T
               /\ g[s] = IF s = {} THEN base ELSE LET x == Max(s) IN F[<<g[s \ {x}], seq[x]>>]
    <3>1. CASE m \in s
      <4>1. s \ {m} \in SUBSET (1..(m - 1)) /\ s \ {m} \in SUBSET (1..m) /\ s # {} BY <3>1
      <4>2. Max(s) = m BY <3>1, MaxIs
      <4>3. g[s] = F[<<h[s \ {m}], seq[m]>>] /\ g[s \ {m}] = h[s \ {m}] BY <3>1, <4>1
      <4>4. h[s \ {m}] \in T /\ seq[m] \in E BY <4>1
      <4>5. F[<<h[s \ {m}], seq[m]>>] \in T BY <4>4
      <4> QED  BY <4>1, <4>2, <4>3, <4>5
    <3>2. CASE m \notin s
      <4>1. s \in SUBSET (1..(m - 1)) BY <3>2
      <4>2. g[s] = h[s] BY <3>2
      <4>3. h[s] = IF s = {} THEN base ELSE LET x == Max(s) IN F[<<h[s \ {x}], seq[x]>>]
        BY <2>1, <4>1 DEF Folds
      <4>4. PICK x : x = Max(s) OBVIOUS
      <4>5. s \ {x} \in SUBSET (1..m) /\ m \notin s \ {x} BY <3>2
      <4>6. g[s \ {x}] = h[s \ {x}] BY <4>5
      <4> QED  BY <4>1, <4>2, <4>3, <4>4, <4>6
    <3> QED  BY <3>1, <3>2
  <2>3. g = [s \in SUBSET (1..m) |-> g[s]] OBVIOUS
  <2> HIDE DEF g
  <2>4. g \in [SUBSET (1..m) -> T] BY <2>2, <2>3
  <2>5. g = [s \in SUBSET (1..m) |->
               IF s = {} THEN base ELSE LET x == Max(s) IN F[<<g[s \ {x}], seq[x]>>]]
    BY <2>2, <2>3
  <2>6. Is(m) BY <2>4, <2>5 DEF Folds
  <2> HIDE DEF Is
  <2> QED  BY <2>6
<1>3. n \in good
  <2> HIDE DEF good
  <2> QED  BY <1>1, <1>2, Steady
<1> QED  BY <1>3

LEMMA OneIs ==
  ASSUME NEW T, NEW x \in T, NEW q, q = <<x>>
  PROVE  q \in Seq(T) /\ Len(q) = 1 /\ q[1] = x
OBVIOUS

LEMMA FrontAppend ==
  ASSUME NEW T, NEW q \in Seq(T), q # <<>>, NEW e \in T
  PROVE  /\ Append(Front(q), e) \in Seq(T) /\ Len(Append(Front(q), e)) = Len(q)
         /\ \A j \in 1..Len(q) : Append(Front(q), e)[j] = IF j = Len(q) THEN e ELSE q[j]
<1>1. PICK n \in Nat \ {0} : n = Len(q) OBVIOUS
<1>2. PICK f : f = Front(q) OBVIOUS
<1>3. f \in Seq(T) /\ Len(f) = n - 1 /\ \A j \in 1..(n - 1) : f[j] = q[j]
  BY <1>1, <1>2 DEF Front
<1>4. PICK a : a = Append(f, e) OBVIOUS
<1>5. a \in Seq(T) /\ Len(a) = n /\ a[n] = e /\ \A j \in 1..(n - 1) : a[j] = f[j]
  BY <1>1, <1>3, <1>4
<1>6. \A j \in 1..n : a[j] = IF j = n THEN e ELSE q[j] BY <1>3, <1>5
<1> QED  BY <1>1, <1>2, <1>4, <1>5, <1>6

-----------------------------------------------------------------------------
(* Cues that are joined for translation                                    *)

CueRow == [text : SUBSET Nat, chars : Nat, start : Nat, length : Nat]

\* Captions in the order of their starts, each with its number for its text.
InOrder(captions) ==
  /\ captions \in Seq(CueRow) /\ captions # <<>>
  /\ \A i \in 1..Len(captions) : i \in captions[i].text
  /\ \A i \in 1..Len(captions), j \in 1..Len(captions) :
        i <= j => captions[i].start <= captions[j].start

LEMMA JoinedIs ==
  ASSUME NEW out \in Seq(CueRow), NEW c \in CueRow, NEW new, new = Joined(out, c)
  PROVE  /\ new \in Seq(CueRow)
         /\ \/ new = Append(out, c)
            \/ out # <<>> /\ new = Append(Front(out), Both(Last(out), c))
<1>1. CASE new = Append(out, c) BY <1>1
<1>2. CASE new # Append(out, c)
  <2>1. out # <<>> /\ new = Append(Front(out), Both(Last(out), c)) BY <1>2 DEF Joined
  <2>2. Last(out) \in CueRow BY <2>1 DEF Last
  <2>3. PICK l \in CueRow : l = Last(out) BY <2>2
  <2>4. Both(l, c) \in CueRow BY DEF Both, CueRow
  <2>5. new \in Seq(CueRow) BY <2>1, <2>3, <2>4, FrontAppend
  <2> QED  BY <2>1, <2>5
<1> QED  BY <1>1, <1>2

JoinedFold(h, cues) ==
  h = [s \in SUBSET DOMAIN cues |->
         IF s = {} THEN <<>> ELSE LET x == Max(s) IN Joined(h[s \ {x}], cues[x])]

\* Joining one cue after the other.
JoinedTo(out, cues, n) ==
  out[0] = <<>> /\ \A k \in 1..n : out[k] = Joined(out[k - 1], cues[k])

LEMMA CoalescedIs ==
  ASSUME NEW cues \in Seq(CueRow), NEW n \in Nat, n = Len(cues)
  PROVE  \E out : JoinedTo(out, cues, n) /\ Coalesced(cues) = out[n]
<1>1. Coalesced(cues) = (CHOOSE f : JoinedFold(f, cues))[DOMAIN cues]
  BY DEF Coalesced, FoldLeft, MapThenFoldSet, JoinedFold
<1>2. DOMAIN cues = 1..n /\ cues \in [1..n -> CueRow] OBVIOUS
<1>3. \E h : JoinedFold(h, cues)
  <2> DEFINE F == [p \in Seq(CueRow) \X CueRow |-> Joined(p[1], p[2])]
  <2>1. F \in [Seq(CueRow) \X CueRow -> Seq(CueRow)]
    <3>1. ASSUME NEW p \in Seq(CueRow) \X CueRow PROVE Joined(p[1], p[2]) \in Seq(CueRow)
      <4>1. PICK a \in Seq(CueRow), c \in CueRow : p[1] = a /\ p[2] = c OBVIOUS
      <4> QED  BY <4>1, JoinedIs
    <3> QED  BY <3>1
  <2>2. \A a \in Seq(CueRow), c \in CueRow : F[<<a, c>>] = Joined(a, c) OBVIOUS
  <2>3. <<>> \in Seq(CueRow) OBVIOUS
  <2> HIDE DEF F
  <2>4. PICK h \in [SUBSET (1..n) -> Seq(CueRow)] : Folds(h, n, <<>>, F, cues)
    BY <1>2, <2>1, <2>3, FoldsExist
  <2>5. ASSUME NEW s \in SUBSET (1..n)
        PROVE  h[s] = IF s = {} THEN <<>> ELSE LET x == Max(s) IN Joined(h[s \ {x}], cues[x])
    <3>1. h[s] = IF s = {} THEN <<>> ELSE LET x == Max(s) IN F[<<h[s \ {x}], cues[x]>>]
      BY <2>4 DEF Folds
    <3>2. CASE s = {} BY <3>1, <3>2
    <3>3. CASE s # {}
      <4>1. PICK x : x = Max(s) OBVIOUS
      <4>2. x \in s BY <3>3, <4>1, GreatestIs
      <4>3. h[s \ {x}] \in Seq(CueRow) /\ cues[x] \in CueRow BY <1>2, <4>2
      <4>4. F[<<h[s \ {x}], cues[x]>>] = Joined(h[s \ {x}], cues[x]) BY <2>2, <4>3
      <4> QED  BY <3>1, <3>3, <4>1, <4>4
    <3> QED  BY <3>2, <3>3
  <2>6. h = [s \in SUBSET (1..n) |-> h[s]] OBVIOUS
  <2>7. JoinedFold(h, cues) BY <1>2, <2>5, <2>6 DEF JoinedFold
  <2> QED  BY <2>7
<1>4. PICK h : JoinedFold(h, cues) /\ Coalesced(cues) = h[1..n] BY <1>1, <1>2, <1>3
<1> DEFINE out == [k \in 0..n |-> h[1..k]]
<1>5. out[0] = <<>>
  <2>1. 1..0 = {} /\ 1..0 \in SUBSET DOMAIN cues OBVIOUS
  <2>2. h[1..0] = <<>> BY <1>4, <2>1 DEF JoinedFold
  <2> QED  BY <2>2
<1>6. ASSUME NEW k \in 1..n PROVE out[k] = Joined(out[k - 1], cues[k])
  <2>1. PICK s : s = 1..k OBVIOUS
  <2>2. s \in SUBSET (1..n) /\ k \in s /\ s # {} /\ s \ {k} = 1..(k - 1)
    <3>1. \A x : x \in s \ {k} <=> x \in 1..(k - 1) BY <2>1
    <3>2. s \ {k} = 1..(k - 1) BY <3>1
    <3>3. k \in 1..k /\ k \in Nat /\ k <= n OBVIOUS
    <3>4. \A x \in 1..k : x \in 1..n BY <3>3
    <3> QED  BY <2>1, <3>2, <3>3, <3>4
  <2>3. Max(s) = k
    <3>1. s \in SUBSET (1..k) BY <2>1
    <3> QED  BY <2>2, <3>1, MaxIs
  <2>4. h[s] = Joined(h[s \ {k}], cues[k]) BY <1>2, <1>4, <2>2, <2>3 DEF JoinedFold
  <2>5. out[k] = h[1..k] /\ out[k - 1] = h[1..(k - 1)] OBVIOUS
  <2> HIDE DEF out
  <2> QED  BY <2>1, <2>2, <2>4, <2>5
<1>7. Coalesced(cues) = out[n] BY <1>4
<1> HIDE DEF out
<1>8. JoinedTo(out, cues, n) BY <1>5, <1>6 DEF JoinedTo
<1> QED  BY <1>7, <1>8

\* What is kept of the first k captions.
Carries(out, captions, k) ==
  /\ out \in Seq(CueRow)
  /\ k = 0 => out = <<>>
  /\ \A i \in 1..k : captions[i].length > 0 =>
        \E j \in 1..Len(out) : i \in out[j].text /\ out[j].length > 0
  /\ k # 0 => /\ out # <<>> /\ out[Len(out)].length >= captions[k].length
              /\ out[Len(out)].start <= captions[k].start
              /\ \A j \in 1..Len(out) : out[j].start <= out[Len(out)].start

LEMMA JoinedCarries ==
  ASSUME NEW captions, InOrder(captions), NEW k \in 1..Len(captions), NEW out,
         Carries(out, captions, k - 1), NEW new, new = Joined(out, captions[k])
  PROVE  Carries(new, captions, k)
<1>1. PICK c \in CueRow : c = captions[k] /\ k \in c.text /\ k \in Nat \ {0} BY DEF InOrder
<1>2. /\ new \in Seq(CueRow) /\ out \in Seq(CueRow)
      /\ \/ new = Append(out, c)
         \/ out # <<>> /\ new = Append(Front(out), Both(Last(out), c))
  BY <1>1, JoinedIs DEF Carries
<1>3. PICK n \in Nat : n = Len(out) BY <1>2
<1>4. \A j \in 1..n : out[j] \in CueRow BY <1>2, <1>3
<1>5. n # 0 => k - 1 # 0 BY <1>1, <1>3 DEF Carries
<1>6. n # 0 => out[n].start <= c.start /\ \A j \in 1..n : out[j].start <= out[n].start
  <2>1. ASSUME n # 0 PROVE out[n].start <= c.start
    <3>1. PICK b \in CueRow : b = captions[k - 1] BY <1>1, <1>5, <2>1 DEF InOrder
    <3>2. b.start <= c.start BY <1>1, <1>5, <2>1, <3>1 DEF InOrder
    <3>3. out[n].start <= b.start BY <1>1, <1>3, <1>5, <2>1, <3>1 DEF Carries
    <3>4. out[n] \in CueRow BY <1>4, <2>1
    <3>5. out[n].start \in Nat /\ b.start \in Nat /\ c.start \in Nat BY <3>4 DEF CueRow
    <3> QED  BY <3>2, <3>3, <3>5
  <2>2. n # 0 => \A j \in 1..n : out[j].start <= out[n].start BY <1>1, <1>3, <1>5 DEF Carries
  <2> QED  BY <2>1, <2>2
<1>7. c.length \in Nat /\ c.start \in Nat BY <1>1 DEF CueRow
<1>8. \A j \in 1..n : out[j].length \in Nat /\ out[j].start \in Nat BY <1>4 DEF CueRow
<1>9. \A i \in 1..(k - 1) : captions[i].length > 0 =>
         \E j \in 1..n : i \in out[j].text /\ out[j].length > 0
  BY <1>3 DEF Carries
<1>10. k # 0 /\ k \in Nat /\ \A i \in 1..k : i = k \/ i \in 1..(k - 1) BY <1>1
<1>11. CASE new = Append(out, c)
  <2>1. Len(new) = n + 1 /\ new[n + 1] = c /\ \A j \in 1..n : new[j] = out[j]
    BY <1>2, <1>3, <1>11
  <2>2. ASSUME NEW i \in 1..k, captions[i].length > 0
        PROVE  \E j \in 1..Len(new) : i \in new[j].text /\ new[j].length > 0
    <3>1. CASE i = k
      <4>1. n + 1 \in 1..Len(new) BY <2>1
      <4> QED  BY <1>1, <2>1, <2>2, <3>1, <4>1
    <3>2. CASE i \in 1..(k - 1)
      <4>1. PICK j \in 1..n : i \in out[j].text /\ out[j].length > 0 BY <1>9, <2>2, <3>2
      <4>2. j \in 1..Len(new) /\ new[j] = out[j] BY <2>1
      <4> QED  BY <4>1, <4>2
    <3> QED  BY <1>10, <3>1, <3>2
  <2>3. \A j \in 1..(n + 1) : new[j].start <= c.start
    <3>1. ASSUME NEW j \in 1..(n + 1) PROVE new[j].start <= c.start
      <4>1. CASE j = n + 1 BY <1>7, <2>1, <4>1
      <4>2. CASE j # n + 1
        <5>1. j \in 1..n /\ n \in 1..n /\ n # 0 BY <4>2
        <5>2. out[j].start <= out[n].start /\ out[n].start <= c.start BY <1>6, <5>1
        <5>3. new[j] = out[j] BY <2>1, <5>1
        <5> QED  BY <1>7, <1>8, <5>1, <5>2, <5>3
      <4> QED  BY <4>1, <4>2
    <3> QED  BY <3>1
  <2>4. /\ new # <<>> /\ new[Len(new)].length >= captions[k].length
        /\ new[Len(new)].start <= captions[k].start
        /\ \A j \in 1..Len(new) : new[j].start <= new[Len(new)].start
    BY <1>1, <1>7, <2>1, <2>3
  <2> QED  BY <1>2, <1>10, <2>2, <2>4 DEF Carries
<1>12. CASE out # <<>> /\ new = Append(Front(out), Both(Last(out), c))
  <2>1. n # 0 /\ n \in 1..n BY <1>2, <1>3, <1>12
  <2>2. PICK l \in CueRow : l = out[n] /\ l = Last(out) BY <1>3, <1>4, <2>1 DEF Last
  <2>0. Both(l, c) \in CueRow BY DEF Both, CueRow
  <2>3. PICK b \in CueRow : b = Both(l, c) BY <2>0
  <2>4. /\ b.text = l.text \cup c.text /\ b.start = l.start /\ b.length = l.length + c.length
        /\ l.length \in Nat /\ l.start \in Nat
    BY <2>3 DEF Both, CueRow
  <2>5. Len(new) = n /\ \A j \in 1..n : new[j] = IF j = n THEN b ELSE out[j]
    BY <1>2, <1>3, <1>12, <2>2, <2>3, FrontAppend
  <2>6. new[n] = b /\ \A j \in 1..n : j # n => new[j] = out[j] BY <2>1, <2>5
  <2>7. ASSUME NEW i \in 1..k, captions[i].length > 0
        PROVE  \E j \in 1..Len(new) : i \in new[j].text /\ new[j].length > 0
    <3>1. CASE i = k
      <4>1. k \in b.text /\ b.length > 0 BY <1>1, <1>7, <2>4, <2>7, <3>1
      <4> QED  BY <2>1, <2>5, <2>6, <3>1, <4>1
    <3>2. CASE i \in 1..(k - 1)
      <4>1. PICK j \in 1..n : i \in out[j].text /\ out[j].length > 0 BY <1>9, <2>7, <3>2
      <4>2. CASE j = n
        <5>0. i \in l.text /\ l.length > 0 BY <2>2, <4>1, <4>2
        <5>1. i \in b.text /\ b.length > 0 BY <1>7, <2>4, <5>0
        <5> QED  BY <2>1, <2>5, <2>6, <5>1
      <4>3. CASE j # n BY <2>5, <2>6, <4>1, <4>3
      <4> QED  BY <4>2, <4>3
    <3> QED  BY <1>10, <3>1, <3>2
  <2>8. \A j \in 1..n : new[j].start <= b.start
    <3>1. ASSUME NEW j \in 1..n PROVE new[j].start <= b.start
      <4>1. CASE j = n BY <2>4, <2>6, <4>1
      <4>2. CASE j # n
        <5>1. out[j].start <= out[n].start BY <1>6, <2>1
        <5> QED  BY <2>2, <2>4, <2>6, <4>2, <5>1
      <4> QED  BY <4>1, <4>2
    <3> QED  BY <3>1
  <2>9. l.start <= c.start BY <1>6, <2>1, <2>2
  <2>10. /\ new[Len(new)].length >= captions[k].length
         /\ new[Len(new)].start <= captions[k].start
         /\ \A j \in 1..Len(new) : new[j].start <= new[Len(new)].start
    BY <1>1, <1>7, <2>4, <2>5, <2>6, <2>8, <2>9
  <2>11. new # <<>> BY <2>1, <2>5
  <2> QED  BY <1>2, <1>10, <2>7, <2>10, <2>11 DEF Carries
<1> QED  BY <1>2, <1>11, <1>12

\* What the chunks need of the cues.
Whole(cues, captions) ==
  /\ cues \in Seq(CueRow) /\ cues # <<>>
  /\ \A i \in 1..Len(captions) : captions[i].length > 0 =>
        \E j \in 1..Len(cues) : i \in cues[j].text /\ cues[j].length > 0
  /\ cues[Len(cues)].length >= captions[Len(captions)].length
  /\ \A j \in 1..Len(cues) : cues[j].start <= cues[Len(cues)].start

LEMMA TranslatedIsWhole ==
  ASSUME NEW captions, InOrder(captions), NEW inChinese \in BOOLEAN
  PROVE  Whole(Translated(captions, inChinese), captions)
<1>1. PICK n \in Nat \ {0} : n = Len(captions) BY DEF InOrder
<1>2. captions \in Seq(CueRow) BY DEF InOrder
<1>3. Whole(captions, captions)
  <2>1. n \in 1..n BY <1>1
  <2>2. captions[n] \in CueRow BY <1>1, <1>2, <2>1
  <2>3. captions[n].length >= captions[n].length BY <2>2 DEF CueRow
  <2>4. \A j \in 1..n : captions[j].start <= captions[n].start BY <1>1, <2>1 DEF InOrder
  <2>5. \A i \in 1..n : i \in captions[i].text BY <1>1 DEF InOrder
  <2>6. captions # <<>> BY DEF InOrder
  <2> QED  BY <1>1, <1>2, <2>3, <2>4, <2>5, <2>6 DEF Whole
<1>4. Whole(Coalesced(captions), captions)
  <2>1. PICK out : JoinedTo(out, captions, n) /\ Coalesced(captions) = out[n]
    BY <1>1, <1>2, CoalescedIs
  <2> DEFINE good == {k \in 0..n : Carries(out[k], captions, k)}
  <2>2. 0 \in good
    <3>1. out[0] = <<>> /\ <<>> \in Seq(CueRow) BY <2>1 DEF JoinedTo
    <3>2. Carries(<<>>, captions, 0) BY DEF Carries
    <3> QED  BY <3>1, <3>2
  <2>3. ASSUME NEW k \in 1..n, k - 1 \in good PROVE k \in good
    <3>1. out[k] = Joined(out[k - 1], captions[k]) BY <2>1 DEF JoinedTo
    <3>2. Carries(out[k - 1], captions, k - 1) BY <2>3
    <3>3. Carries(out[k], captions, k) BY <1>1, <3>1, <3>2, JoinedCarries
    <3> QED  BY <3>3
  <2>4. n \in good
    <3> HIDE DEF good
    <3> QED  BY <2>2, <2>3, Steady
  <2>5. Carries(out[n], captions, n) BY <2>4
  <2>6. n # 0 OBVIOUS
  <2> QED  BY <1>1, <2>1, <2>5, <2>6 DEF Carries, Whole
<1> QED  BY <1>3, <1>4 DEF Translated

-----------------------------------------------------------------------------
(* Spans of time, one after the other                                      *)

SpanRow == [from : Nat, to : Nat]
Tiling(q, a, b) ==
  /\ q \in Seq(SpanRow) /\ q # <<>> /\ q[1].from = a /\ q[Len(q)].to = b
  /\ \A k \in 1..Len(q) : q[k].from < q[k].to
  /\ \A k \in 1..Len(q) : k # 1 => q[k].from = q[k - 1].to

LEMMA TilingsJoin ==
  ASSUME NEW p, NEW q, NEW a, NEW b, NEW c, Tiling(p, a, b), Tiling(q, b, c)
  PROVE  Tiling(p \o q, a, c)
<1>1. PICK n \in Nat \ {0}, m \in Nat \ {0} : n = Len(p) /\ m = Len(q) BY DEF Tiling
<1>2. p \in Seq(SpanRow) /\ q \in Seq(SpanRow) BY DEF Tiling
<1>3. PICK r : r = p \o q OBVIOUS
<1>4. /\ r \in Seq(SpanRow) /\ Len(r) = n + m
      /\ \A k \in 1..n : r[k] = p[k]
      /\ \A k \in (n + 1)..(n + m) : r[k] = q[k - n]
  BY <1>1, <1>2, <1>3
<1>5. p[1].from = a /\ p[n].to = b /\ q[1].from = b /\ q[m].to = c BY <1>1 DEF Tiling
<1>6. ASSUME NEW k \in 1..(n + m)
      PROVE  r[k].from < r[k].to /\ (k # 1 => r[k].from = r[k - 1].to)
  <2>1. CASE k \in 1..n
    <3>1. p[k].from < p[k].to /\ (k # 1 => p[k].from = p[k - 1].to) BY <1>1, <2>1 DEF Tiling
    <3>2. r[k] = p[k] /\ (k # 1 => r[k - 1] = p[k - 1]) BY <1>4, <2>1
    <3> QED  BY <3>1, <3>2
  <2>2. CASE k \in (n + 1)..(n + m)
    <3>1. PICK l \in 1..m : l = k - n BY <2>2
    <3>2. r[k] = q[l] BY <1>4, <2>2, <3>1
    <3>3. q[l].from < q[l].to /\ (l # 1 => q[l].from = q[l - 1].to) BY <1>1, <3>1 DEF Tiling
    <3>4. CASE l = 1
      <4>1. k - 1 = n /\ n \in 1..n BY <3>1, <3>4
      <4>2. r[k - 1] = p[n] BY <1>4, <4>1
      <4> QED  BY <1>5, <3>2, <3>3, <3>4, <4>2
    <3>5. CASE l # 1
      <4>1. k - 1 \in (n + 1)..(n + m) /\ (k - 1) - n = l - 1 BY <3>1, <3>5
      <4>2. r[k - 1] = q[l - 1] BY <1>4, <4>1
      <4> QED  BY <3>2, <3>3, <3>5, <4>2
    <3> QED  BY <3>4, <3>5
  <2> QED  BY <2>1, <2>2
<1>7. r[1] = p[1] /\ r[n + m] = q[m] BY <1>4
<1>8. r # <<>> BY <1>4
<1> QED  BY <1>3, <1>4, <1>5, <1>6, <1>7, <1>8 DEF Tiling

LEMMA TilingCovers ==
  ASSUME NEW q, NEW a \in Nat, NEW b \in Nat, Tiling(q, a, b), NEW x \in Nat, a <= x, x < b
  PROVE  \E k \in 1..Len(q) : q[k].from <= x /\ x < q[k].to
<1>1. PICK n \in Nat \ {0} : n = Len(q) BY DEF Tiling
<1>2. \A k \in 1..n : q[k].from \in Nat /\ q[k].to \in Nat
  <2>1. \A k \in 1..n : q[k] \in SpanRow BY <1>1 DEF Tiling
  <2> QED  BY <2>1 DEF SpanRow
<1>3. SUFFICES ASSUME \A k \in 1..n : q[k].from <= x => ~(x < q[k].to) PROVE FALSE BY <1>1
<1> DEFINE good == {k \in 0..n : k # 0 => q[k].to <= x}
<1>4. 0 \in good OBVIOUS
<1>5. ASSUME NEW k \in 1..n, k - 1 \in good PROVE k \in good
  <2>1. k # 1 => q[k].from = q[k - 1].to BY <1>1 DEF Tiling
  <2>2. q[1].from = a BY DEF Tiling
  <2>3. q[k].from <= x BY <1>5, <2>1, <2>2
  <2> QED  BY <1>2, <1>3, <2>3
<1>6. n \in good
  <2> HIDE DEF good
  <2> QED  BY <1>4, <1>5, Steady
<1>7. q[n].to = b /\ n # 0 BY <1>1 DEF Tiling
<1> QED  BY <1>6, <1>7

LEMMA TilingOrdered ==
  ASSUME NEW q, NEW a, NEW b, Tiling(q, a, b), NEW j \in 1..Len(q), NEW k \in 1..Len(q), j <= k
  PROVE  q[j].from <= q[k].from /\ q[j].to <= q[k].to
<1>1. PICK n \in Nat \ {0} : n = Len(q) BY DEF Tiling
<1>2. \A i \in 1..n : q[i].from \in Nat /\ q[i].to \in Nat /\ q[i].from < q[i].to
  <2>1. \A i \in 1..n : q[i] \in SpanRow BY <1>1 DEF Tiling
  <2>2. \A i \in 1..n : q[i].from < q[i].to BY <1>1 DEF Tiling
  <2> QED  BY <2>1, <2>2 DEF SpanRow
<1> DEFINE good == {m \in 0..k : j <= m => q[j].from <= q[m].from /\ q[j].to <= q[m].to}
<1>3. 0 \in good BY <1>1
<1>4. ASSUME NEW m \in 1..k, m - 1 \in good PROVE m \in good
  <2>1. m \in 1..n /\ j \in 1..n BY <1>1
  <2>2. CASE j = m
    <3>1. q[j].from <= q[m].from /\ q[j].to <= q[m].to BY <1>2, <2>1, <2>2
    <3> QED  BY <3>1
  <2>3. CASE j < m
    <3>1. m # 1 /\ m - 1 \in 1..n /\ j <= m - 1 BY <2>1, <2>3
    <3>2. q[m].from = q[m - 1].to BY <1>1, <2>1, <3>1 DEF Tiling
    <3>3. q[j].from <= q[m - 1].from /\ q[j].to <= q[m - 1].to BY <1>4, <3>1
    <3>4. q[j].from <= q[m].from /\ q[j].to <= q[m].to BY <1>2, <2>1, <3>1, <3>2, <3>3
    <3> QED  BY <3>4
  <2>4. CASE m < j BY <2>4
  <2> QED  BY <2>1, <2>2, <2>3, <2>4
<1>5. k \in good
  <2>1. k \in Nat BY <1>1
  <2> HIDE DEF good
  <2> QED  BY <1>3, <1>4, <2>1, Steady
<1> QED  BY <1>5

LEMMA MinOf ==
  ASSUME NEW x \in Nat, NEW y \in Nat
  PROVE  Min({x, y}) = IF x <= y THEN x ELSE y
<1>1. \A m \in {x, y} : (\A z \in {x, y} : m <= z) => m = IF x <= y THEN x ELSE y OBVIOUS
<1>2. \E m \in {x, y} : \A z \in {x, y} : m <= z OBVIOUS
<1> QED  BY <1>1, <1>2 DEF Min

\* As many windows of a size as a span needs.
LEMMA RoundedUp ==
  ASSUME NEW d \in Nat \ {0}, NEW size \in Nat \ {0}, NEW n, n = (d + size - 1) \div size
  PROVE  n \in Nat \ {0} /\ (n - 1) * size < d /\ d <= n * size
<1>1. PICK q \in Int, r \in Int : q = (d + size - 1) \div size /\ r = (d + size - 1) % size OBVIOUS
<1>2. d + size - 1 = size * q + r /\ 0 <= r /\ r < size BY <1>1
<1>3. size * q = q * size /\ (q - 1) * size = q * size - size /\ q * size \in Int OBVIOUS
<1>4. 0 < q
  <2>1. ASSUME q <= 0 PROVE FALSE
    <3>1. size * q <= 0 BY <2>1
    <3> QED  BY <1>2, <3>1
  <2> QED  BY <2>1
<1> QED  BY <1>1, <1>2, <1>3, <1>4

LEMMA SlicesTile ==
  ASSUME NEW a \in Nat, NEW b \in Nat, a < b, NEW size \in Nat \ {0}
  PROVE  Tiling(Slices([from |-> a, to |-> b], size), a, b)
<1>1. PICK d \in Nat \ {0} : d = b - a OBVIOUS
<1>2. PICK n \in Nat \ {0} :
         n = (d + size - 1) \div size /\ (n - 1) * size < d /\ d <= n * size
  BY RoundedUp
<1>3. PICK q : q = Slices([from |-> a, to |-> b], size) OBVIOUS
<1>4. q = [k \in 1..n |-> [from |-> a + (k - 1) * size, to |-> Min({a + k * size, b})]]
  BY <1>1, <1>2, <1>3 DEF Slices
<1>5. ASSUME NEW k \in 1..n
      PROVE  /\ a + (k - 1) * size \in Nat /\ a + k * size \in Nat
             /\ a + (k - 1) * size < b
             /\ a + k * size = a + (k - 1) * size + size
             /\ k # n => a + k * size < b
  <2>1. PICK x \in Nat, y \in Nat : x = (k - 1) * size /\ y = k * size OBVIOUS
  <2>2. y = x + size BY <2>1
  <2>3. PICK z \in Nat : z = (n - 1) * size OBVIOUS
  <2>4. x <= z BY <2>1, <2>3
  <2>5. k # n => y <= z
    <3>1. k # n => k <= n - 1 OBVIOUS
    <3> QED  BY <2>1, <2>3, <3>1
  <2> QED  BY <1>1, <1>2, <2>1, <2>2, <2>3, <2>4, <2>5
<1>6. ASSUME NEW k \in 1..n
      PROVE  /\ q[k] \in SpanRow /\ q[k].from = a + (k - 1) * size
             /\ q[k].to = IF k = n THEN b ELSE a + k * size
  <2>1. q[k] = [from |-> a + (k - 1) * size, to |-> Min({a + k * size, b})] BY <1>4
  <2>2. Min({a + k * size, b}) = IF k = n THEN b ELSE a + k * size
    <3>1. Min({a + k * size, b}) = IF a + k * size <= b THEN a + k * size ELSE b BY <1>5, MinOf
    <3>2. k = n => b <= a + k * size BY <1>1, <1>2, <1>5
    <3> QED  BY <1>5, <3>1, <3>2
  <2> QED  BY <1>5, <2>1, <2>2 DEF SpanRow
<1>7. q \in Seq(SpanRow) /\ Len(q) = n
  <2>1. q \in [1..n -> SpanRow]
    <3>1. q = [k \in 1..n |-> q[k]] BY <1>4
    <3> QED  BY <1>6, <3>1
  <2> QED  BY <2>1
<1>8. q[1].from = a /\ q[n].to = b
  <2>1. 1 \in 1..n /\ n \in 1..n /\ (1 - 1) * size = 0 OBVIOUS
  <2> QED  BY <1>6, <2>1
<1>9. ASSUME NEW k \in 1..n PROVE q[k].from < q[k].to
  BY <1>5, <1>6
<1>10. ASSUME NEW k \in 1..n, k # 1 PROVE q[k].from = q[k - 1].to
  <2>1. k - 1 \in 1..n /\ k - 1 # n BY <1>10
  <2> QED  BY <1>6, <2>1
<1>11. q # <<>> BY <1>7
<1> QED  BY <1>3, <1>7, <1>8, <1>9, <1>10, <1>11 DEF Tiling

-----------------------------------------------------------------------------
(* Sequences put one after the other                                       *)

Flatten(h, seqs) ==
  h = [i \in 1..Len(seqs) |-> IF i = 1 THEN seqs[i] ELSE h[i - 1] \o seqs[i]]
Flattened(h, seqs, n) == h[1] = seqs[1] /\ \A i \in 2..n : h[i] = h[i - 1] \o seqs[i]

LEMMA FlattenIs ==
  ASSUME NEW T, NEW seqs \in Seq(Seq(T)), NEW n \in Nat \ {0}, n = Len(seqs)
  PROVE  \E h : Flattened(h, seqs, n) /\ FlattenSeq(seqs) = h[n]
<1>1. FlattenSeq(seqs) = (CHOOSE f : Flatten(f, seqs))[n] BY DEF FlattenSeq, Flatten
<1>2. PICK S : S = Seq(T) OBVIOUS
<1>3. \A p \in S, q \in S : p \o q \in S BY <1>2
<1>4. <<>> \in S /\ seqs \in [1..n -> S] BY <1>2
<1>5. \E f : Flatten(f, seqs)
  <2> DEFINE F == [p \in S \X S |-> p[1] \o p[2]]
  <2>1. F \in [S \X S -> S] BY <1>3
  <2>2. \A p \in S, q \in S : F[<<p, q>>] = p \o q OBVIOUS
  <2> HIDE DEF F
  <2>3. PICK g \in [SUBSET (1..n) -> S] : Folds(g, n, <<>>, F, seqs)
    BY <1>4, <2>1, FoldsExist
  <2> DEFINE f == [i \in 1..n |-> g[1..i]]
  <2>4. ASSUME NEW i \in 1..n PROVE f[i] = g[1..(i - 1)] \o seqs[i]
    <3>1. PICK s : s = 1..i OBVIOUS
    <3>2. s \ {i} = 1..(i - 1)
      <4>1. \A x : x \in s \ {i} <=> x \in 1..(i - 1) BY <3>1
      <4> QED  BY <4>1
    <3>3. s \in SUBSET (1..n) /\ i \in s /\ s # {}
      <4>1. i \in 1..i /\ i \in Nat /\ i <= n OBVIOUS
      <4>2. \A x \in 1..i : x \in 1..n BY <4>1
      <4> QED  BY <3>1, <4>1, <4>2
    <3>4. Max(s) = i
      <4>1. s \in SUBSET (1..i) BY <3>1
      <4> QED  BY <3>3, <4>1, MaxIs
    <3>5. g[s] = F[<<g[s \ {i}], seqs[i]>>] BY <2>3, <3>3, <3>4 DEF Folds
    <3>6. s \ {i} \in SUBSET (1..n) BY <3>3
    <3>7. g[s \ {i}] \in S /\ seqs[i] \in S BY <1>4, <3>6
    <3>8. g[s] = g[s \ {i}] \o seqs[i] BY <2>2, <3>5, <3>7
    <3> QED  BY <3>1, <3>2, <3>8
  <2>5. g[1..0] = <<>>
    <3>1. 1..0 = {} /\ {} \in SUBSET (1..n) OBVIOUS
    <3> QED  BY <2>3, <3>1 DEF Folds
  <2>6. ASSUME NEW i \in 1..n PROVE f[i] = IF i = 1 THEN seqs[i] ELSE f[i - 1] \o seqs[i]
    <3>1. CASE i = 1
      <4>1. seqs[1] \in Seq(T) BY <1>2, <1>4, <3>1
      <4>2. <<>> \o seqs[1] = seqs[1] BY <4>1
      <4>3. i - 1 = 0 BY <3>1
      <4>4. f[i] = g[1..0] \o seqs[i] BY <2>4, <4>3
      <4> QED  BY <2>5, <3>1, <4>2, <4>4
    <3>2. CASE i # 1
      <4>1. i - 1 \in 1..n BY <3>2
      <4>2. f[i - 1] = g[1..(i - 1)] BY <4>1
      <4>3. f[i] = g[1..(i - 1)] \o seqs[i] BY <2>4
      <4> HIDE DEF f
      <4> QED  BY <3>2, <4>2, <4>3
    <3> QED  BY <3>1, <3>2
  <2>7. f = [i \in 1..n |-> f[i]] OBVIOUS
  <2> HIDE DEF f
  <2>8. Flatten(f, seqs) BY <2>6, <2>7 DEF Flatten
  <2> QED  BY <2>8
<1>6. PICK h : Flatten(h, seqs) /\ FlattenSeq(seqs) = h[n] BY <1>1, <1>5
<1>7. \A i \in 1..n : h[i] = IF i = 1 THEN seqs[i] ELSE h[i - 1] \o seqs[i]
  BY <1>6 DEF Flatten
<1>8. 1 \in 1..n /\ \A i \in 2..n : i \in 1..n /\ i # 1 OBVIOUS
<1>9. h[1] = seqs[1] BY <1>7, <1>8
<1>10. ASSUME NEW i \in 2..n PROVE h[i] = h[i - 1] \o seqs[i] BY <1>7, <1>8
<1> QED  BY <1>6, <1>9, <1>10 DEF Flattened

-----------------------------------------------------------------------------
(* Spans of chapters                                                       *)

Increasing(chapters) ==
  /\ chapters \in Seq(Nat)
  /\ \A i \in 1..Len(chapters) : i # 1 => chapters[i - 1] < chapters[i]

\* The span of a chapter, or its windows.
Part(chapters, total, size, long, i) ==
  LET span == [from |-> chapters[i],
               to |-> IF i = Len(chapters) THEN total ELSE chapters[i + 1]] IN
  IF span.to - span.from > long THEN Slices(span, size) ELSE <<span>>

LEMMA PartTiles ==
  ASSUME NEW a \in Nat, NEW b \in Nat, a < b, NEW size \in Nat \ {0}, NEW long, NEW part,
         NEW span, span = [from |-> a, to |-> b],
         part = IF span.to - span.from > long THEN Slices(span, size) ELSE <<span>>
  PROVE  Tiling(part, a, b)
<1>1. CASE part = Slices(span, size)
  <2>1. Tiling(Slices(span, size), a, b) BY SlicesTile
  <2> QED  BY <1>1, <2>1
<1>2. CASE part = <<span>>
  <2>1. span \in SpanRow /\ span.from = a /\ span.to = b BY DEF SpanRow
  <2>2. part \in Seq(SpanRow) /\ Len(part) = 1 /\ part[1] = span BY <1>2, <2>1, OneIs
  <2>3. PICK n : n = Len(part) OBVIOUS
  <2>4. n = 1 /\ \A k \in 1..n : k = 1 BY <2>2, <2>3
  <2>5. part # <<>> BY <2>2
  <2> QED  BY <2>1, <2>2, <2>3, <2>4, <2>5 DEF Tiling
<1> QED  BY <1>1, <1>2

LEMMA SpansTile ==
  ASSUME NEW chapters, Increasing(chapters), NEW total \in Nat \ {0},
         NEW size \in Nat \ {0}, NEW long,
         Usable(chapters, total) => Head(chapters) = 0
  PROVE  Tiling(Spans(chapters, total, size, long), 0, total)
<1>1. CASE ~Usable(chapters, total)
  <2>1. Spans(chapters, total, size, long) = Slices([from |-> 0, to |-> total], size)
    BY <1>1 DEF Spans
  <2>2. Tiling(Slices([from |-> 0, to |-> total], size), 0, total) BY SlicesTile
  <2> QED  BY <2>1, <2>2
<1>2. CASE Usable(chapters, total)
  <2>1. PICK n \in Nat \ {0} : n = Len(chapters) /\ DOMAIN chapters = 1..n
    BY <1>2 DEF Usable, Increasing
  <2>2. chapters[1] = 0 /\ chapters[n] < total /\ \A i \in 1..n : chapters[i] \in Nat
    <3>1. Head(chapters) = chapters[1] /\ Last(chapters) = chapters[n]
      BY <2>1 DEF Last, Increasing
    <3>2. \A i \in 1..n : chapters[i] \in Nat BY <2>1 DEF Increasing
    <3> QED  BY <1>2, <3>1, <3>2 DEF Usable
  <2> DEFINE end(i) == IF i = n THEN total ELSE chapters[i + 1]
             part(i) == Part(chapters, total, size, long, i)
             seqs == [i \in 1..n |-> part(i)]
  <2>3. ASSUME NEW i \in 1..n PROVE end(i) \in Nat /\ chapters[i] < end(i)
    <3>1. CASE i = n BY <2>2, <3>1
    <3>2. CASE i # n
      <4>1. i + 1 \in 1..n /\ i + 1 # 1 /\ (i + 1) - 1 = i BY <3>2
      <4>2. chapters[i] < chapters[i + 1] BY <2>1, <4>1 DEF Increasing
      <4> QED  BY <2>2, <3>2, <4>1, <4>2
    <3> QED  BY <3>1, <3>2
  <2>4. ASSUME NEW i \in 1..n PROVE Tiling(seqs[i], chapters[i], end(i))
    <3>1. PICK a \in Nat, b \in Nat : a = chapters[i] /\ b = end(i) /\ a < b BY <2>2, <2>3
    <3>2. PICK span : span = [from |-> a, to |-> b] OBVIOUS
    <3>3. seqs[i] = IF span.to - span.from > long THEN Slices(span, size) ELSE <<span>>
      BY <2>1, <3>1, <3>2 DEF Part
    <3> HIDE DEF seqs, end
    <3>4. Tiling(seqs[i], a, b) BY <3>1, <3>2, <3>3, PartTiles
    <3> QED  BY <3>1, <3>4
  <2>5. seqs = [i \in DOMAIN chapters |->
            LET span == [from |-> chapters[i],
                         to |-> IF i = Len(chapters) THEN total ELSE chapters[i + 1]] IN
            IF span.to - span.from > long THEN Slices(span, size) ELSE <<span>>]
    BY <2>1 DEF Part
  <2>6. Spans(chapters, total, size, long) = FlattenSeq(seqs)
    <3> HIDE DEF seqs
    <3> QED  BY <1>2, <2>5 DEF Spans
  <2>7. seqs \in Seq(Seq(SpanRow)) /\ Len(seqs) = n
    <3>1. \A i \in 1..n : seqs[i] \in Seq(SpanRow) BY <2>4 DEF Tiling
    <3>2. seqs = [i \in 1..n |-> seqs[i]] OBVIOUS
    <3> HIDE DEF seqs
    <3>3. seqs \in [1..n -> Seq(SpanRow)] BY <3>1, <3>2
    <3> QED  BY <3>3
  <2> HIDE DEF seqs
  <2>8. PICK h : Flattened(h, seqs, n) /\ FlattenSeq(seqs) = h[n] BY <2>7, FlattenIs
  <2> DEFINE good == {k \in 0..n : k # 0 => Tiling(h[k], 0, end(k))}
  <2>9. 0 \in good OBVIOUS
  <2>10. ASSUME NEW k \in 1..n, k - 1 \in good PROVE k \in good
    <3>1. CASE k = 1
      <4>1. h[1] = seqs[1] BY <2>8 DEF Flattened
      <4>2. Tiling(seqs[1], 0, end(1)) BY <2>2, <2>4, <3>1
      <4> HIDE DEF end
      <4> QED  BY <3>1, <4>1, <4>2
    <3>2. CASE k # 1
      <4>1. k \in 2..n /\ k - 1 # 0 /\ k - 1 # n BY <3>2
      <4>2. h[k] = h[k - 1] \o seqs[k] BY <2>8, <4>1 DEF Flattened
      <4>3. end(k - 1) = chapters[k] BY <4>1
      <4>4. Tiling(h[k - 1], 0, chapters[k]) BY <2>10, <4>1, <4>3
      <4>5. Tiling(seqs[k], chapters[k], end(k)) BY <2>4
      <4> HIDE DEF end
      <4>6. Tiling(h[k - 1] \o seqs[k], 0, end(k)) BY <4>4, <4>5, TilingsJoin
      <4>7. Tiling(h[k], 0, end(k)) BY <4>2, <4>6
      <4> QED  BY <4>7
    <3> QED  BY <3>1, <3>2
  <2>11. n \in good
    <3> HIDE DEF good
    <3> QED  BY <2>9, <2>10, Steady
  <2>12. Tiling(h[n], 0, total) BY <2>11
  <2> QED  BY <2>6, <2>8, <2>12
<1> QED  BY <1>1, <1>2

-----------------------------------------------------------------------------
(* Chunks                                                                  *)

ChunkRow == [from : Nat, to : Nat, text : SUBSET Nat]

LEMMA ChunkIs ==
  ASSUME NEW cues \in Seq(CueRow), NEW span, span.from \in Nat, span.to \in Nat,
         NEW chunk, chunk = Chunk(cues, span)
  PROVE  /\ chunk \in ChunkRow /\ chunk.from = span.from /\ chunk.to = span.to
         /\ \A x : x \in chunk.text <=>
               \E i \in 1..Len(cues) : /\ x \in cues[i].text /\ Ends(cues[i]) > span.from
                                       /\ cues[i].start < span.to
<1>1. PICK text : text = UNION {cues[i].text : i \in Within(cues, span)} OBVIOUS
<1>2. DOMAIN cues = 1..Len(cues) OBVIOUS
<1>3. \A i : i \in Within(cues, span) <=>
         i \in 1..Len(cues) /\ Ends(cues[i]) > span.from /\ cues[i].start < span.to
  BY <1>2 DEF Within
<1>4. ASSUME NEW i \in 1..Len(cues) PROVE cues[i].text \subseteq Nat
  <2>1. cues[i] \in CueRow OBVIOUS
  <2> QED  BY <2>1 DEF CueRow
<1>5. text \in SUBSET Nat BY <1>1, <1>3, <1>4
<1>6. chunk = [from |-> span.from, to |-> span.to, text |-> text] BY <1>1 DEF Chunk
<1>7. chunk \in ChunkRow /\ chunk.from = span.from /\ chunk.to = span.to /\ chunk.text = text
  BY <1>5, <1>6 DEF ChunkRow
<1> QED  BY <1>1, <1>3, <1>7

GatherFold(h, cues, spans) ==
  h = [s \in SUBSET DOMAIN spans |->
         IF s = {} THEN <<>>
         ELSE LET x == Max(s) IN
              IF Chunk(cues, spans[x]).text = {} THEN h[s \ {x}]
              ELSE Append(h[s \ {x}], Chunk(cues, spans[x]))]

\* Making a chunk of one span after the other.
Gathering(out, cues, spans, n) ==
  /\ out[0] = <<>>
  /\ \A k \in 1..n : out[k] = IF Chunk(cues, spans[k]).text = {} THEN out[k - 1]
                              ELSE Append(out[k - 1], Chunk(cues, spans[k]))

LEMMA ChunkedIs ==
  ASSUME NEW cues \in Seq(CueRow), NEW chapters, NEW size, NEW long, NEW spans \in Seq(SpanRow),
         spans = Spans(chapters, Total(cues), size, long), NEW n \in Nat, n = Len(spans)
  PROVE  \E out : /\ Gathering(out, cues, spans, n)
                  /\ Chunked(cues, chapters, size, long) = TailMerged(out[n])
<1>1. Chunked(cues, chapters, size, long)
        = TailMerged((CHOOSE f : GatherFold(f, cues, spans))[DOMAIN spans])
  BY Zenon DEF Chunked, FoldLeft, MapThenFoldSet, GatherFold
<1>2. DOMAIN spans = 1..n /\ spans \in [1..n -> SpanRow] OBVIOUS
<1>3. PICK S : S = Seq(ChunkRow) OBVIOUS
<1> DEFINE G(a, span) == IF Chunk(cues, span).text = {} THEN a ELSE Append(a, Chunk(cues, span))
<1>4. \E h : GatherFold(h, cues, spans)
  <2> DEFINE F == [p \in S \X SpanRow |-> G(p[1], p[2])]
  <2>1. F \in [S \X SpanRow -> S]
    <3>1. ASSUME NEW p \in S \X SpanRow PROVE G(p[1], p[2]) \in S
      <4>1. PICK a \in S, span \in SpanRow : p[1] = a /\ p[2] = span OBVIOUS
      <4>2. span.from \in Nat /\ span.to \in Nat BY DEF SpanRow
      <4>3. PICK c \in ChunkRow : c = Chunk(cues, span) BY <4>2, ChunkIs
      <4>4. Append(a, c) \in S BY <1>3
      <4> QED  BY <4>1, <4>3, <4>4
    <3> HIDE DEF G
    <3> QED  BY <3>1
  <2>2. \A a \in S, span \in SpanRow : F[<<a, span>>] = G(a, span)
    <3> HIDE DEF G
    <3> QED  OBVIOUS
  <2>3. <<>> \in S BY <1>3
  <2> HIDE DEF F
  <2>4. PICK h \in [SUBSET (1..n) -> S] : Folds(h, n, <<>>, F, spans)
    BY <1>2, <2>1, <2>3, FoldsExist
  <2>5. ASSUME NEW s \in SUBSET (1..n)
        PROVE  h[s] = IF s = {} THEN <<>> ELSE LET x == Max(s) IN G(h[s \ {x}], spans[x])
    <3>1. h[s] = IF s = {} THEN <<>> ELSE LET x == Max(s) IN F[<<h[s \ {x}], spans[x]>>]
      BY <2>4 DEF Folds
    <3> HIDE DEF G
    <3>2. CASE s = {} BY <3>1, <3>2
    <3>3. CASE s # {}
      <4>1. PICK x : x = Max(s) OBVIOUS
      <4>2. x \in s BY <3>3, <4>1, GreatestIs
      <4>3. h[s \ {x}] \in S /\ spans[x] \in SpanRow BY <1>2, <4>2
      <4>4. F[<<h[s \ {x}], spans[x]>>] = G(h[s \ {x}], spans[x]) BY <2>2, <4>3
      <4> QED  BY <3>1, <3>3, <4>1, <4>4
    <3> QED  BY <3>2, <3>3
  <2>6. h = [s \in SUBSET (1..n) |-> h[s]] OBVIOUS
  <2>7. GatherFold(h, cues, spans) BY <1>2, <2>5, <2>6 DEF GatherFold
  <2> QED  BY <2>7
<1>5. PICK h : /\ GatherFold(h, cues, spans)
               /\ Chunked(cues, chapters, size, long) = TailMerged(h[1..n])
  BY <1>1, <1>2, <1>4
<1> DEFINE out == [k \in 0..n |-> h[1..k]]
<1>6. out[0] = <<>>
  <2>1. 1..0 = {} /\ 1..0 \in SUBSET DOMAIN spans OBVIOUS
  <2>2. h[1..0] = <<>> BY <1>5, <2>1 DEF GatherFold
  <2> QED  BY <2>2
<1>7. ASSUME NEW k \in 1..n PROVE out[k] = G(out[k - 1], spans[k])
  <2>1. PICK s : s = 1..k OBVIOUS
  <2>2. s \in SUBSET (1..n) /\ k \in s /\ s # {} /\ s \ {k} = 1..(k - 1)
    <3>1. \A x : x \in s \ {k} <=> x \in 1..(k - 1) BY <2>1
    <3>2. s \ {k} = 1..(k - 1) BY <3>1
    <3>3. k \in 1..k /\ k \in Nat /\ k <= n OBVIOUS
    <3>4. \A x \in 1..k : x \in 1..n BY <3>3
    <3> QED  BY <2>1, <3>2, <3>3, <3>4
  <2>3. Max(s) = k
    <3>1. s \in SUBSET (1..k) BY <2>1
    <3> QED  BY <2>2, <3>1, MaxIs
  <2>4. h[s] = G(h[s \ {k}], spans[k]) BY <1>2, <1>5, <2>2, <2>3 DEF GatherFold
  <2>5. out[k] = h[1..k] /\ out[k - 1] = h[1..(k - 1)] OBVIOUS
  <2> HIDE DEF out, G
  <2> QED  BY <2>1, <2>2, <2>4, <2>5
<1>8. Chunked(cues, chapters, size, long) = TailMerged(out[n]) BY <1>5
<1> HIDE DEF out
<1>9. Gathering(out, cues, spans, n) BY <1>6, <1>7 DEF Gathering
<1> QED  BY <1>8, <1>9

\* The chunks of the first k spans.
Gathered(out, cues, spans, k) ==
  /\ out \in Seq(ChunkRow)
  /\ \A i \in 1..k : Chunk(cues, spans[i]).text # {} =>
        \E j \in 1..Len(out) : out[j] = Chunk(cues, spans[i])
  /\ \A j \in 1..Len(out) : \E i \in 1..k : out[j] = Chunk(cues, spans[i])
  /\ \A i \in 1..Len(out), j \in 1..Len(out) :
        i <= j => out[i].from <= out[j].from /\ out[i].to <= out[j].to

LEMMA GatherKeeps ==
  ASSUME NEW cues \in Seq(CueRow), NEW spans, NEW b, Tiling(spans, 0, b),
         NEW k \in 1..Len(spans), NEW out, Gathered(out, cues, spans, k - 1), NEW new,
         new = IF Chunk(cues, spans[k]).text = {} THEN out ELSE Append(out, Chunk(cues, spans[k]))
  PROVE  Gathered(new, cues, spans, k)
<1>1. PICK m \in Nat : m = Len(spans) BY DEF Tiling
<1>2. \A i \in 1..m : spans[i].from \in Nat /\ spans[i].to \in Nat
  <2>1. \A i \in 1..m : spans[i] \in SpanRow BY <1>1 DEF Tiling
  <2> QED  BY <2>1 DEF SpanRow
<1>3. PICK c \in ChunkRow : /\ c = Chunk(cues, spans[k]) /\ c.from = spans[k].from
                            /\ c.to = spans[k].to
  BY <1>1, <1>2, ChunkIs
<1>4. out \in Seq(ChunkRow) BY DEF Gathered
<1>5. PICK n \in Nat : n = Len(out) BY <1>4
<1>6. k \in 1..k /\ \A i \in 1..k : i = k \/ i \in 1..(k - 1) BY <1>1
<1>7. CASE c.text = {}
  <2>1. new = out BY <1>3, <1>7
  <2>2. \A i \in 1..k : Chunk(cues, spans[i]).text # {} => i \in 1..(k - 1) BY <1>3, <1>6, <1>7
  <2>3. \A i \in 1..(k - 1) : i \in 1..k BY <1>1
  <2> QED  BY <2>1, <2>2, <2>3 DEF Gathered
<1>8. CASE c.text # {}
  <2>1. new = Append(out, c) BY <1>3, <1>8
  <2>2. /\ new \in Seq(ChunkRow) /\ Len(new) = n + 1 /\ new[n + 1] = c
        /\ \A j \in 1..n : new[j] = out[j]
    BY <1>4, <1>5, <2>1
  <2>3. ASSUME NEW i \in 1..k, Chunk(cues, spans[i]).text # {}
        PROVE  \E j \in 1..(n + 1) : new[j] = Chunk(cues, spans[i])
    <3>1. CASE i = k
      <4>1. n + 1 \in 1..(n + 1) OBVIOUS
      <4> QED  BY <1>3, <2>2, <3>1, <4>1
    <3>2. CASE i \in 1..(k - 1)
      <4>1. PICK j \in 1..n : out[j] = Chunk(cues, spans[i]) BY <1>5, <2>3, <3>2 DEF Gathered
      <4> QED  BY <2>2, <4>1
    <3> QED  BY <1>6, <3>1, <3>2
  <2>4. ASSUME NEW j \in 1..n PROVE \E i \in 1..(k - 1) : new[j] = Chunk(cues, spans[i])
    BY <1>5, <2>2 DEF Gathered
  <2>5. ASSUME NEW j \in 1..(n + 1) PROVE \E i \in 1..k : new[j] = Chunk(cues, spans[i])
    <3>1. CASE j = n + 1 BY <1>3, <1>6, <2>2, <3>1
    <3>2. CASE j # n + 1
      <4>0. j \in 1..n BY <3>2
      <4>1. PICK i \in 1..(k - 1) : new[j] = Chunk(cues, spans[i]) BY <2>4, <4>0
      <4>2. i \in 1..k BY <1>1
      <4> QED  BY <4>1, <4>2
    <3> QED  BY <3>1, <3>2
  <2>6. ASSUME NEW j \in 1..n PROVE new[j].from <= c.from /\ new[j].to <= c.to
    <3>1. PICK i \in 1..(k - 1) : new[j] = Chunk(cues, spans[i]) BY <2>4
    <3>2. i \in 1..m /\ i <= k BY <1>1
    <3>3. new[j].from = spans[i].from /\ new[j].to = spans[i].to
      <4>1. PICK span : span = spans[i] OBVIOUS
      <4>2. span.from \in Nat /\ span.to \in Nat BY <1>2, <3>2, <4>1
      <4>3. PICK a : a = Chunk(cues, span) OBVIOUS
      <4>4. a.from = span.from /\ a.to = span.to BY <4>2, <4>3, ChunkIs
      <4> QED  BY <3>1, <4>1, <4>3, <4>4
    <3>4. spans[i].from <= spans[k].from /\ spans[i].to <= spans[k].to
      BY <1>1, <3>2, TilingOrdered
    <3> QED  BY <1>3, <3>3, <3>4
  <2>7. ASSUME NEW i \in 1..(n + 1), NEW j \in 1..(n + 1), i <= j
        PROVE  new[i].from <= new[j].from /\ new[i].to <= new[j].to
    <3>1. CASE j = n + 1
      <4>1. CASE i = n + 1
        <5>1. c.from \in Nat /\ c.to \in Nat BY DEF ChunkRow
        <5> QED  BY <2>2, <3>1, <4>1, <5>1
      <4>2. CASE i # n + 1
        <5>1. i \in 1..n BY <4>2
        <5> QED  BY <2>2, <2>6, <3>1, <5>1
      <4> QED  BY <4>1, <4>2
    <3>2. CASE j # n + 1
      <4>1. i \in 1..n /\ j \in 1..n BY <2>7, <3>2
      <4>2. out[i].from <= out[j].from /\ out[i].to <= out[j].to BY <1>5, <2>7, <4>1 DEF Gathered
      <4> QED  BY <2>2, <4>1, <4>2
    <3> QED  BY <3>1, <3>2
  <2> QED  BY <2>2, <2>3, <2>5, <2>7 DEF Gathered
<1> QED  BY <1>3, <1>7, <1>8

\* No text is lost by a last chunk that is too short.
LEMMA TailIs ==
  ASSUME NEW chunks \in Seq(ChunkRow), NEW out, out = TailMerged(chunks)
  PROVE  \/ out = chunks
         \/ \E n \in Nat : /\ n > 1 /\ n = Len(chunks)
                           /\ out \in Seq(ChunkRow) /\ Len(out) = n - 1
                           /\ \A j \in 1..(n - 2) : out[j] = chunks[j]
                           /\ out[n - 1] = [from |-> chunks[n - 1].from, to |-> chunks[n].to,
                                            text |-> chunks[n - 1].text \cup chunks[n].text]
<1>1. PICK n \in Nat : n = Len(chunks) OBVIOUS
<1>2. CASE out = chunks BY <1>2
<1>3. CASE out # chunks
  <2>1. n > 1 BY <1>1, <1>3 DEF TailMerged
  <2>2. PICK front, last, before :
           /\ front = Front(chunks) /\ last = Last(chunks) /\ before = Last(Front(chunks))
    OBVIOUS
  <2>3. PICK row : row = [from |-> before.from, to |-> last.to, text |-> before.text \cup last.text]
    OBVIOUS
  <2>4. out = Append(Front(front), row) BY <1>3, <2>2, <2>3, Zenon DEF TailMerged
  <2>5. front \in Seq(ChunkRow) /\ Len(front) = n - 1 /\ \A j \in 1..(n - 1) : front[j] = chunks[j]
    BY <1>1, <2>1, <2>2 DEF Front
  <2>6. last = chunks[n] /\ before = chunks[n - 1]
    <3>1. n - 1 \in 1..(n - 1) BY <2>1
    <3> QED  BY <1>1, <2>2, <2>5, <3>1 DEF Last
  <2>7. row \in ChunkRow
    <3>1. n \in 1..n /\ n - 1 \in 1..n BY <2>1
    <3>2. last \in ChunkRow /\ before \in ChunkRow BY <1>1, <2>6, <3>1
    <3> QED  BY <2>3, <3>2 DEF ChunkRow
  <2>8. front # <<>> BY <2>1, <2>5
  <2>9. /\ out \in Seq(ChunkRow) /\ Len(out) = n - 1
        /\ \A j \in 1..(n - 1) : out[j] = IF j = n - 1 THEN row ELSE front[j]
    BY <2>4, <2>5, <2>7, <2>8, FrontAppend
  <2>10. \A j \in 1..(n - 2) : j \in 1..(n - 1) /\ j # n - 1 OBVIOUS
  <2>11. n - 1 \in 1..(n - 1) BY <2>1
  <2>12. out[n - 1] = row BY <2>9, <2>11
  <2>13. \A j \in 1..(n - 2) : out[j] = chunks[j] BY <2>5, <2>9, <2>10
  <2> QED  BY <1>1, <2>1, <2>3, <2>6, <2>9, <2>12, <2>13
<1> QED  BY <1>2, <1>3

\* What the readers of the chunks get of the captions.
Held(captions, cues, chunks) ==
  /\ \A i \in DOMAIN captions : captions[i].length > 0 =>
        \E k \in DOMAIN chunks : i \in chunks[k].text
  /\ \A k \in DOMAIN chunks : chunks[k].text \subseteq Shown(cues, chunks[k])

LEMMA TailHolds ==
  ASSUME NEW captions, NEW cues \in Seq(CueRow), NEW spans, NEW m,
         NEW chunks, Gathered(chunks, cues, spans, m), Held(captions, cues, chunks)
  PROVE  Held(captions, cues, TailMerged(chunks))
<1>1. chunks \in Seq(ChunkRow) BY DEF Gathered
<1>2. PICK out : out = TailMerged(chunks) OBVIOUS
<1>3. CASE out = chunks BY <1>2, <1>3
<1>4. ASSUME NEW n \in Nat, n > 1, n = Len(chunks), out \in Seq(ChunkRow), Len(out) = n - 1,
             \A j \in 1..(n - 2) : out[j] = chunks[j],
             out[n - 1] = [from |-> chunks[n - 1].from, to |-> chunks[n].to,
                           text |-> chunks[n - 1].text \cup chunks[n].text]
      PROVE  Held(captions, cues, out)
  <2>1. n - 1 \in 1..n /\ n \in 1..n /\ n - 1 <= n BY <1>4
  <2>2. PICK a \in ChunkRow, b \in ChunkRow : a = chunks[n - 1] /\ b = chunks[n]
    BY <1>1, <1>4, <2>1
  <2>3. PICK c \in ChunkRow : c = [from |-> a.from, to |-> b.to, text |-> a.text \cup b.text]
    BY DEF ChunkRow
  <2>4. /\ c.from = a.from /\ c.to = b.to /\ c.text = a.text \cup b.text /\ out[n - 1] = c
        /\ {a.from, a.to, b.from, b.to} \subseteq Nat
    BY <1>4, <2>2, <2>3 DEF ChunkRow
  <2>5. a.from <= b.from /\ a.to <= b.to BY <1>4, <2>1, <2>2 DEF Gathered
  <2>6. DOMAIN chunks = 1..n /\ DOMAIN out = 1..(n - 1) BY <1>1, <1>4
  <2>7. \A j \in 1..n : j \in 1..(n - 2) \/ j = n - 1 \/ j = n OBVIOUS
  <2>8. \A j \in 1..(n - 2) : j \in 1..n /\ j \in 1..(n - 1) OBVIOUS
  <2>9. n - 1 \in 1..(n - 1) BY <1>4
  <2>10. ASSUME NEW i \in DOMAIN captions, captions[i].length > 0
         PROVE  \E k \in DOMAIN out : i \in out[k].text
    <3>1. PICK j \in 1..n : i \in chunks[j].text BY <2>6, <2>10 DEF Held
    <3>2. CASE j \in 1..(n - 2) BY <1>4, <2>6, <2>8, <3>1, <3>2
    <3>3. CASE j = n - 1 \/ j = n
      <4>1. i \in c.text BY <2>2, <2>4, <3>1, <3>3
      <4> QED  BY <2>4, <2>6, <2>9, <4>1
    <3> QED  BY <2>7, <3>2, <3>3
  <2>11. a.text \subseteq Shown(cues, a) /\ b.text \subseteq Shown(cues, b)
    BY <2>1, <2>2, <2>6 DEF Held
  <2>12. c.text \subseteq Shown(cues, c)
    <3>1. PICK ofA, ofB, ofC : /\ ofA = Chunk(cues, a) /\ ofB = Chunk(cues, b)
                               /\ ofC = Chunk(cues, c)
      OBVIOUS
    <3>2. \A x : x \in ofA.text <=>
             \E i \in 1..Len(cues) : /\ x \in cues[i].text /\ Ends(cues[i]) > a.from
                                     /\ cues[i].start < a.to
      BY <2>4, <3>1, ChunkIs
    <3>3. \A x : x \in ofB.text <=>
             \E i \in 1..Len(cues) : /\ x \in cues[i].text /\ Ends(cues[i]) > b.from
                                     /\ cues[i].start < b.to
      BY <2>4, <3>1, ChunkIs
    <3>4. \A x : x \in ofC.text <=>
             \E i \in 1..Len(cues) : /\ x \in cues[i].text /\ Ends(cues[i]) > a.from
                                     /\ cues[i].start < b.to
      BY <2>4, <3>1, ChunkIs
    <3>5. ASSUME NEW i \in 1..Len(cues) PROVE Ends(cues[i]) \in Nat /\ cues[i].start \in Nat
      <4>1. cues[i] \in CueRow OBVIOUS
      <4> QED  BY <4>1 DEF CueRow, Ends
    <3>6. ofA.text \subseteq ofC.text BY <2>4, <2>5, <3>2, <3>4, <3>5
    <3>7. ofB.text \subseteq ofC.text BY <2>4, <2>5, <3>3, <3>4, <3>5
    <3> QED  BY <2>4, <2>11, <3>1, <3>6, <3>7 DEF Shown
  <2>13. ASSUME NEW j \in DOMAIN out PROVE out[j].text \subseteq Shown(cues, out[j])
    <3>1. CASE j \in 1..(n - 2)
      <4>1. out[j] = chunks[j] /\ j \in DOMAIN chunks BY <1>4, <2>6, <2>8, <3>1
      <4> QED  BY <4>1 DEF Held
    <3>2. CASE j = n - 1 BY <2>4, <2>12, <3>2
    <3> QED  BY <2>6, <2>7, <3>1, <3>2
  <2> QED  BY <2>10, <2>13 DEF Held
<1> QED  BY <1>1, <1>2, <1>3, <1>4, TailIs

\* For any captions, joined or not, chapters and sizes.
LEMMA ChunksHold ==
  ASSUME NEW captions, InOrder(captions), captions[Len(captions)].length > 0,
         NEW inChinese \in BOOLEAN, NEW chapters, Increasing(chapters),
         NEW size \in Nat \ {0}, NEW long,
         NEW cues, cues = Translated(captions, inChinese),
         Usable(chapters, Total(cues)) => Head(chapters) = 0
  PROVE  Held(captions, cues, Chunked(cues, chapters, size, long))
<1>1. Whole(cues, captions) BY TranslatedIsWhole
<1>2. cues \in Seq(CueRow) /\ cues # <<>> BY <1>1 DEF Whole
<1>3. PICK m \in Nat \ {0} : m = Len(cues) BY <1>2
<1>4. \A j \in 1..m : cues[j].start \in Nat /\ cues[j].length \in Nat
  <2>1. \A j \in 1..m : cues[j] \in CueRow BY <1>2, <1>3
  <2> QED  BY <2>1 DEF CueRow
<1>5. PICK total \in Nat \ {0} : /\ total = Total(cues)
                                 /\ \A j \in 1..m : cues[j].start < total
  <2>1. Total(cues) = cues[m].start + cues[m].length BY <1>2, <1>3 DEF Total, Ends, Last
  <2>2. cues[m].length > 0
    <3>1. PICK a, b : a = captions[Len(captions)].length /\ b = cues[m].length OBVIOUS
    <3>2. b >= a /\ a > 0 BY <1>1, <1>3, <3>1 DEF Whole
    <3>3. a \in Nat
      <4>1. PICK n \in Nat \ {0} : n = Len(captions) BY DEF InOrder
      <4>2. captions[n] \in CueRow BY <4>1 DEF InOrder
      <4> QED  BY <3>1, <4>1, <4>2 DEF CueRow
    <3>4. m \in 1..m OBVIOUS
    <3> QED  BY <1>4, <3>1, <3>2, <3>3, <3>4
  <2>3. m \in 1..m /\ \A j \in 1..m : cues[j].start <= cues[m].start
    BY <1>1, <1>3 DEF Whole
  <2>4. PICK t : t = cues[m].start + cues[m].length OBVIOUS
  <2>5. t \in Nat \ {0} /\ cues[m].start < t BY <1>4, <2>2, <2>3, <2>4
  <2>6. \A j \in 1..m : cues[j].start < t BY <1>4, <2>3, <2>5
  <2> QED  BY <2>1, <2>4, <2>5, <2>6
<1>6. PICK spans : spans = Spans(chapters, total, size, long) OBVIOUS
<1>7. Tiling(spans, 0, total) BY <1>5, <1>6, SpansTile
<1>8. PICK n \in Nat : n = Len(spans) BY <1>7 DEF Tiling
<1>9. PICK out : /\ Gathering(out, cues, spans, n)
                 /\ Chunked(cues, chapters, size, long) = TailMerged(out[n])
  <2>1. spans \in Seq(SpanRow) BY <1>7 DEF Tiling
  <2> QED  BY <1>2, <1>5, <1>6, <1>8, <2>1, ChunkedIs
<1> DEFINE good == {k \in 0..n : Gathered(out[k], cues, spans, k)}
<1>10. 0 \in good
  <2>1. out[0] = <<>> BY <1>9 DEF Gathering
  <2>2. Gathered(<<>>, cues, spans, 0) BY DEF Gathered
  <2> QED  BY <2>1, <2>2
<1>11. ASSUME NEW k \in 1..n, k - 1 \in good PROVE k \in good
  <2>1. Gathered(out[k - 1], cues, spans, k - 1) BY <1>11
  <2>2. out[k] = IF Chunk(cues, spans[k]).text = {} THEN out[k - 1]
                 ELSE Append(out[k - 1], Chunk(cues, spans[k]))
    BY <1>9 DEF Gathering
  <2>3. Gathered(out[k], cues, spans, k) BY <1>2, <1>7, <1>8, <2>1, <2>2, GatherKeeps
  <2> QED  BY <2>3
<1>12. n \in good
  <2> HIDE DEF good
  <2> QED  BY <1>10, <1>11, Steady
<1>13. PICK chunks : chunks = out[n] /\ Gathered(chunks, cues, spans, n) BY <1>12
<1>14. \A i \in 1..n : spans[i].from \in Nat /\ spans[i].to \in Nat
  <2>1. \A i \in 1..n : spans[i] \in SpanRow BY <1>7, <1>8 DEF Tiling
  <2> QED  BY <2>1 DEF SpanRow
<1>15. chunks \in Seq(ChunkRow) /\ DOMAIN chunks = 1..Len(chunks) BY <1>13 DEF Gathered
<1>16. ASSUME NEW i \in DOMAIN captions, captions[i].length > 0
       PROVE  \E k \in DOMAIN chunks : i \in chunks[k].text
  <2>1. i \in 1..Len(captions) BY DEF InOrder
  <2>2. PICK j \in 1..m : i \in cues[j].text /\ cues[j].length > 0
    BY <1>1, <1>3, <1>16, <2>1 DEF Whole
  <2>3. PICK x \in Nat : x = cues[j].start /\ x < total BY <1>4, <1>5
  <2>4. PICK k \in 1..n : spans[k].from <= x /\ x < spans[k].to
    BY <1>7, <1>8, <2>3, TilingCovers
  <2>5. PICK c : c = Chunk(cues, spans[k]) OBVIOUS
  <2>6. Ends(cues[j]) > spans[k].from /\ cues[j].start < spans[k].to
    BY <1>4, <1>14, <2>2, <2>3, <2>4 DEF Ends
  <2>7. i \in c.text
    <3>1. PICK span : span = spans[k] /\ span.from \in Nat /\ span.to \in Nat BY <1>14
    <3>2. c = Chunk(cues, span) BY <2>5, <3>1
    <3>3. \A y : y \in c.text <=>
             \E l \in 1..Len(cues) : /\ y \in cues[l].text /\ Ends(cues[l]) > span.from
                                     /\ cues[l].start < span.to
      BY <1>2, <3>1, <3>2, ChunkIs
    <3> QED  BY <1>3, <2>2, <2>6, <3>1, <3>3
  <2>8. PICK l \in 1..Len(chunks) : chunks[l] = c BY <1>13, <2>5, <2>7 DEF Gathered
  <2> QED  BY <1>15, <2>7, <2>8
<1>17. ASSUME NEW k \in DOMAIN chunks PROVE chunks[k].text \subseteq Shown(cues, chunks[k])
  <2>1. PICK i \in 1..n : chunks[k] = Chunk(cues, spans[i]) BY <1>13, <1>15 DEF Gathered
  <2>2. PICK span : span = spans[i] /\ span.from \in Nat /\ span.to \in Nat BY <1>14
  <2>3. PICK c : c = Chunk(cues, span) /\ c = chunks[k] BY <2>1, <2>2
  <2>4. c.from = span.from /\ c.to = span.to
    <3>1. c = Chunk(cues, span) BY <2>3
    <3>2. span.from \in Nat /\ span.to \in Nat BY <2>2
    <3> QED  BY <3>1 DEF Chunk
  <2>5. Chunk(cues, c) = Chunk(cues, span) BY <2>4 DEF Chunk, Within
  <2>6. c.text = Shown(cues, c) BY <2>3, <2>5 DEF Shown
  <2> QED  BY <2>3, <2>6
<1>18. Held(captions, cues, chunks) BY <1>16, <1>17 DEF Held
<1>19. Held(captions, cues, TailMerged(chunks)) BY <1>2, <1>13, <1>18, TailHolds
<1> QED  BY <1>9, <1>13, <1>19

\* The texts of the runs, of any length, are captions in order.
LEMMA TextsAreInOrder ==
  ASSUME NEW captions \in Texts
  PROVE  InOrder(captions) /\ Last(captions) = captions[Len(captions)]
<1> DEFINE Lists(n) == {s \in [1..n -> 0..MaxTime] : \A i \in 1..n - 1 : s[i] <= s[i + 1]}
           Cues(s, l, c) == [i \in DOMAIN s |->
              [text |-> {i}, start |-> s[i], length |-> l[i], chars |-> c[i]]]
           Of(n) == {Cues(s, l, c) : s \in Lists(n), l \in [1..n -> 0..MaxLength],
                                     c \in [1..n -> Sizes]}
<1>1. PICK n \in 1..MaxCues : captions \in Of(n)
  <2>1. Texts = UNION {Of(n) : n \in 1..MaxCues} BY DEF Texts
  <2> HIDE DEF Of
  <2> QED  BY <2>1
<1>11. PICK s \in [1..n -> 0..MaxTime], l \in [1..n -> 0..MaxLength], c \in [1..n -> Sizes] :
         (\A i \in 1..n - 1 : s[i] <= s[i + 1]) /\ captions = Cues(s, l, c)
  <2>1. PICK s \in Lists(n), l \in [1..n -> 0..MaxLength], c \in [1..n -> Sizes] :
           captions = Cues(s, l, c)
    <3> HIDE DEF Lists, Cues
    <3> QED  BY <1>1
  <2>2. s \in [1..n -> 0..MaxTime] /\ \A i \in 1..n - 1 : s[i] <= s[i + 1] BY <2>1
  <2> HIDE DEF Lists, Cues
  <2> QED  BY <2>1, <2>2
<1>2. n \in Nat \ {0} /\ DOMAIN s = 1..n /\ 0..MaxTime \subseteq Nat /\ 0..MaxLength \subseteq Nat
  BY <1>11, TextsAssumption
<1>3. captions = [i \in 1..n |->
         [text |-> {i}, start |-> s[i], length |-> l[i], chars |-> c[i]]]
  BY <1>11, <1>2
<1>4. \A i \in 1..n : captions[i] \in CueRow
  <2>1. ASSUME NEW i \in 1..n
        PROVE  [text |-> {i}, start |-> s[i], length |-> l[i], chars |-> c[i]] \in CueRow
    <3>1. PICK a \in Nat, b \in Nat, d \in Nat : a = s[i] /\ b = l[i] /\ d = c[i]
      BY <1>11, <1>2, TextsAssumption
    <3>2. [text |-> {i}, start |-> a, length |-> b, chars |-> d] \in CueRow BY DEF CueRow
    <3> QED  BY <3>1, <3>2
  <2> QED  BY <1>3, <2>1
<1>5. \A i \in 1..n : captions[i].text = {i} /\ captions[i].start = s[i] BY <1>3
<1>6. captions \in [1..n -> CueRow]
  <2>1. captions = [i \in 1..n |-> captions[i]] BY <1>3
  <2> QED  BY <1>4, <2>1
<1>7. captions \in Seq(CueRow) /\ Len(captions) = n /\ captions # <<>> BY <1>2, <1>6
<1>8. ASSUME NEW j \in 1..n PROVE \A i \in 1..n : i <= j => s[i] <= s[j]
  <2>0. \A i \in 1..n : s[i] \in Nat BY <1>11, <1>2
  <2> DEFINE good == {k \in 0..n : \A i \in 1..n : i <= k => s[i] <= s[k]}
  <2>1. 0 \in good OBVIOUS
  <2>2. ASSUME NEW k \in 1..n, k - 1 \in good PROVE k \in good
    <3>1. ASSUME NEW i \in 1..n, i <= k PROVE s[i] <= s[k]
      <4>1. CASE i = k BY <2>0, <4>1
      <4>2. CASE i # k
        <5>1. i <= k - 1 /\ k - 1 \in 1..n - 1 /\ k - 1 \in 1..n /\ (k - 1) + 1 = k
          BY <1>2, <3>1, <4>2
        <5>2. s[i] <= s[k - 1] BY <2>2, <5>1
        <5>3. s[k - 1] <= s[k] BY <1>11, <5>1
        <5> HIDE DEF good
        <5> QED  BY <2>0, <5>1, <5>2, <5>3
      <4> QED  BY <4>1, <4>2
    <3> QED  BY <3>1
  <2>3. j \in good
    <3>1. j \in Nat /\ \A k \in 1..j : k \in 1..n OBVIOUS
    <3> HIDE DEF good
    <3> QED  BY <2>1, <2>2, <3>1, Steady
  <2> QED  BY <2>3
<1>9. \A i \in 1..n, j \in 1..n : i <= j => captions[i].start <= captions[j].start
  BY <1>5, <1>8
<1>10. InOrder(captions) BY <1>5, <1>7, <1>9 DEF InOrder
<1> QED  BY <1>7, <1>10 DEF Last

LEMMA ChaptersIncrease ==
  ASSUME NEW chapters \in ChapterLists
  PROVE  /\ Increasing(chapters)
         /\ \/ chapters = <<>>
            \/ \E a \in Nat, b \in Nat : chapters = <<a, b>> /\ a < b
<1>1. PICK t \in {<<>>} \cup (0..MaxTime + 1) \X (0..MaxTime + 1) : chapters = Chapters(t)
  BY DEF ChapterLists
<1>2. CASE chapters = <<>> BY <1>2 DEF Increasing
<1>3. CASE chapters # <<>>
  <2>1. /\ chapters = t /\ ~(Len(t) < 2)
        /\ ~(\E i \in 1..Len(t) - 1 : t[i + 1] <= t[i])
    BY <1>1, <1>3 DEF Chapters
  <2>2. t # <<>> BY <1>3, <2>1
  <2>3. PICK a \in 0..MaxTime + 1, b \in 0..MaxTime + 1 : t = <<a, b>> BY <1>1, <2>2
  <2>4. a \in Nat /\ b \in Nat BY <2>3, TextsAssumption
  <2>5. Len(t) = 2 /\ t[1] = a /\ t[2] = b /\ t \in Seq(Nat) BY <2>3, <2>4
  <2>6. a < b
    <3>1. 1 \in 1..Len(t) - 1 /\ 1 + 1 = 2 BY <2>5
    <3>2. ~(t[2] <= t[1]) BY <2>1, <3>1
    <3> QED  BY <2>4, <2>5, <3>2
  <2>7. \A i \in 1..Len(t) : i # 1 => t[i - 1] < t[i]
    <3>1. \A i \in 1..2 : i # 1 => i = 2 /\ i - 1 = 1 OBVIOUS
    <3> QED  BY <2>5, <2>6, <3>1
  <2>8. Increasing(chapters) BY <2>1, <2>5, <2>7 DEF Increasing
  <2> QED  BY <2>1, <2>3, <2>4, <2>6, <2>8
<1> QED  BY <1>2, <1>3

\* The chapters of a mind map are some times.
LEMMA ListsAreLong ==
  ASSUME NEW chapters \in MapLists, chapters # <<>>
  PROVE  \E n \in Nat \ {0} : chapters \in [1..n -> Nat] /\ Len(chapters) = n
<1>1. PICK own \in OwnLists, parsed \in ChapterLists : chapters = MapChapters(own, parsed)
  BY DEF MapLists
<1>2. CASE own = <<>>
  <2>1. chapters = parsed BY <1>1, <1>2 DEF MapChapters
  <2>2. PICK a \in Nat, b \in Nat : chapters = <<a, b>> BY <2>1, ChaptersIncrease
  <2>3. QED BY <2>2
<1>3. CASE own # <<>>
  <2>1. chapters = own BY <1>1, <1>3 DEF MapChapters
  <2>2. PICK n \in 1..MaxCues : own \in [1..n -> 0..MaxTime + 1]
    BY <1>3 DEF OwnLists
  <2>3. n \in Nat \ {0} /\ 0..MaxTime + 1 \subseteq Nat BY TextsAssumption
  <2>4. own \in [1..n -> Nat] BY <2>2, <2>3
  <2>5. QED BY <2>1, <2>3, <2>4
<1>4. QED BY <1>2, <1>3

LEMMA ChunksAreKept == ChunksKeepText
<1> SUFFICES ASSUME NEW captions \in Texts, NEW chapters \in ChapterLists,
                    NEW inChinese \in BOOLEAN, NEW cut \in Cuts,
                    NEW cues, cues = Translated(captions, inChinese),
                    NEW chunks, chunks = Chunked(cues, chapters, cut.size, cut.long),
                    Last(captions).length > 0,
                    Usable(chapters, Total(cues)) => Head(chapters) = 0
             PROVE  /\ \A i \in DOMAIN captions : captions[i].length > 0 =>
                          \E k \in DOMAIN chunks : i \in chunks[k].text
                    /\ \A k \in DOMAIN chunks : chunks[k].text \subseteq Shown(cues, chunks[k])
  BY DEF ChunksKeepText
<1>1. InOrder(captions) /\ captions[Len(captions)].length > 0 BY TextsAreInOrder
<1>2. Increasing(chapters) BY ChaptersIncrease
<1>3. PICK size \in Nat \ {0}, long \in Nat : size = cut.size /\ long = cut.long
  BY TranscriptAssumption DEF Cuts
<1>4. Held(captions, cues, chunks) BY <1>1, <1>2, <1>3, ChunksHold
<1> QED  BY <1>4 DEF Held

\* Whatever the list, the last of the chapters that start at or before a point holds it;
\* in the order of time no other one does.
Placed(chapters, p, on) ==
    /\ on = {} <=> chapters # <<>> /\ \A i \in DOMAIN chapters : chapters[i] > p
    /\ InTimeOrder(chapters) => \A i, j \in on : i = j

LEMMA PointIsPlaced ==
  ASSUME NEW chapters \in MapLists, NEW points \in SUBSET (0..MaxTime + 1), NEW total,
         NEW kept, kept = InRange(points, total),
         NEW out, out = Branches(kept, chapters), NEW p \in kept,
         NEW on, on = {i \in DOMAIN out : p \in out[i]}
  PROVE  Placed(chapters, p, on)
<1> USE DEF Placed
<1>1. p \in Nat BY TextsAssumption DEF InRange
<1>2. CASE chapters = <<>>
  <2>1. out = <<kept>> BY <1>2 DEF Branches
  <2>2. on = {1} BY <2>1
  <2>3. QED BY <1>2, <2>2
<1>3. CASE chapters # <<>>
  <2>1. PICK n \in Nat \ {0} : chapters \in [1..n -> Nat] /\ Len(chapters) = n
    BY <1>3, ListsAreLong
  <2>2. DOMAIN out = 1..n /\ DOMAIN chapters = 1..n BY <1>3, <2>1 DEF Branches
  <2>3. \A i \in 1..n : i \in on <=> chapters[i] <= p /\ (i = n \/ p < chapters[i + 1])
    BY <1>3, <2>1, <2>2 DEF Branches
  <2>4. ASSUME NEW i \in 1..n, chapters[i] <= p PROVE on # {}
    <3>1. PICK S : S = {k \in 1..n : chapters[k] <= p} OBVIOUS
    <3>2. S \in SUBSET Nat /\ i \in S /\ \A k \in S : k <= n BY <2>4, <3>1
    <3>3. PICK m \in S : \A k \in S : k <= m BY <3>2, HasGreatest
    <3>4. m \in 1..n /\ chapters[m] <= p BY <3>1
    <3>5. CASE m = n BY <2>3, <3>4, <3>5
    <3>6. CASE m # n
      <4>1. m + 1 \in 1..n /\ m + 1 \notin S BY <3>3, <3>4, <3>6
      <4>2. p < chapters[m + 1]
        <5>1. ~(chapters[m + 1] <= p) BY <3>1, <4>1
        <5>2. chapters[m + 1] \in Nat BY <2>1, <4>1
        <5>3. QED BY <1>1, <5>1, <5>2
      <4>3. QED BY <2>3, <3>4, <4>2
    <3>7. QED BY <3>5, <3>6
  <2>5. ASSUME NEW i \in on PROVE i \in 1..n /\ chapters[i] <= p BY <2>2, <2>3
  <2>6. \A i \in 1..n : chapters[i] \in Nat BY <2>1
  <2>7. on = {} <=> \A i \in 1..n : chapters[i] > p
    <3>1. ASSUME on = {}, NEW i \in 1..n PROVE chapters[i] > p
      BY <1>1, <2>4, <2>6, <3>1
    <3>2. ASSUME \A i \in 1..n : chapters[i] > p, NEW i \in on PROVE FALSE
      BY <1>1, <2>5, <2>6, <3>2
    <3>3. QED BY <3>1, <3>2
  <2>8. ASSUME InTimeOrder(chapters), NEW i \in on, NEW j \in on, i < j PROVE FALSE
    <3>1. i \in 1..n /\ j \in 1..n /\ i # n /\ i + 1 \in 1..n /\ i + 1 <= j BY <2>5, <2>8
    <3>2. p < chapters[i + 1] /\ chapters[j] <= p BY <2>3, <2>5, <3>1
    <3>3. chapters[i + 1] <= chapters[j] BY <2>2, <2>8, <3>1 DEF InTimeOrder
    <3>4. QED BY <1>1, <2>6, <3>1, <3>2, <3>3
  <2>9. ASSUME InTimeOrder(chapters), NEW i \in on, NEW j \in on PROVE i = j
    <3>1. ~(i < j) /\ ~(j < i) BY <2>8, <2>9
    <3>2. i \in Nat /\ j \in Nat BY <2>5
    <3>3. QED BY <3>1, <3>2
  <2>10. QED BY <1>3, <2>2, <2>7, <2>9
<1>4. QED BY <1>2, <1>3

LEMMA BranchesAreKept == BranchesKeepPoints
<1>1. ASSUME NEW chapters \in MapLists, NEW points \in SUBSET (0..MaxTime + 1),
             NEW total \in {0, MaxTime}, NEW p \in InRange(points, total)
      PROVE  Placed(chapters, p, {i \in DOMAIN Branches(InRange(points, total), chapters) :
                                     p \in Branches(InRange(points, total), chapters)[i]})
  BY PointIsPlaced
<1>2. QED BY <1>1 DEF BranchesKeepPoints, Placed

-----------------------------------------------------------------------------
(* Paragraphs                                                              *)

ParagraphRow == [cues : Seq(Nat), chars : Nat, from : Nat]

\* What Paragraphs does with the next cue.
JoinsRow(cues, stops, out, i) ==
  /\ out # <<>> /\ ~Full(Last(out), i - 1 \in stops, Ends(cues[i - 1]))
  /\ cues[i].start - Ends(cues[i - 1]) < Pause
ReadRow(cues, stops, out, i) ==
  IF JoinsRow(cues, stops, out, i)
  THEN Append(Front(out), [Last(out) EXCEPT !.cues = Append(@, i), !.chars = @ + cues[i].chars])
  ELSE Append(out, [cues |-> <<i>>, chars |-> cues[i].chars, from |-> cues[i].start])
ReadFold(h, cues, stops, ns) ==
  h = [s \in SUBSET DOMAIN ns |->
         IF s = {} THEN <<>> ELSE LET x == Max(s) IN ReadRow(cues, stops, h[s \ {x}], ns[x])]

\* A cue begins a paragraph or is put at the end of the last one.
ReadInto(new, out, row, i) ==
  \/ row.cues = <<i>> /\ new = Append(out, row)
  \/ /\ out # <<>> /\ new = Append(Front(out), row)
     /\ row.cues = Append(out[Len(out)].cues, i)

LEMMA ReadIs ==
  ASSUME NEW cues \in Seq(CueRow), NEW stops, NEW out \in Seq(ParagraphRow),
         NEW i \in 1..Len(cues), NEW new, new = ReadRow(cues, stops, out, i)
  PROVE  \E row \in ParagraphRow : ReadInto(new, out, row, i)
<1>1. cues[i] \in CueRow /\ i \in Nat OBVIOUS
<1>2. PICK c \in Nat, s \in Nat : c = cues[i].chars /\ s = cues[i].start BY <1>1 DEF CueRow
<1>3. CASE new = Append(out, [cues |-> <<i>>, chars |-> c, from |-> s])
  <2>1. <<i>> \in Seq(Nat) BY <1>1
  <2>2. PICK row \in ParagraphRow : row = [cues |-> <<i>>, chars |-> c, from |-> s]
    BY <2>1 DEF ParagraphRow
  <2>3. row.cues = <<i>> /\ new = Append(out, row) BY <1>3, <2>2
  <2> QED  BY <2>3 DEF ReadInto
<1>4. CASE /\ out # <<>>
           /\ new = Append(Front(out), [Last(out) EXCEPT !.cues = Append(@, i),
                                                         !.chars = @ + c])
  <2>1. Len(out) \in 1..Len(out) BY <1>4
  <2>2. PICK l \in ParagraphRow : l = out[Len(out)] BY <2>1
  <2>3. l = Last(out) BY <2>2 DEF Last
  <2>4. PICK q \in Seq(Nat) : q = l.cues BY DEF ParagraphRow
  <2>5. Append(q, i) \in Seq(Nat) BY <1>1
  <2>6. PICK row : row = [l EXCEPT !.cues = Append(q, i), !.chars = @ + c] OBVIOUS
  <2>7. row \in ParagraphRow /\ row.cues = Append(q, i)
    <3>1. PICK d \in Nat, f \in Nat : l = [cues |-> q, chars |-> d, from |-> f]
      BY <2>4 DEF ParagraphRow
    <3>2. PICK r \in Seq(Nat) : r = Append(q, i) BY <2>5
    <3>3. row = [cues |-> r, chars |-> d + c, from |-> f] BY <2>6, <3>1, <3>2
    <3> QED  BY <3>2, <3>3 DEF ParagraphRow
  <2>8. new = Append(Front(out), row) BY <1>4, <2>3, <2>4, <2>6
  <2> QED  BY <1>4, <2>2, <2>4, <2>7, <2>8 DEF ReadInto
<1>5. \/ new = Append(out, [cues |-> <<i>>, chars |-> c, from |-> s])
      \/ /\ out # <<>>
         /\ new = Append(Front(out), [Last(out) EXCEPT !.cues = Append(@, i),
                                                       !.chars = @ + c])
  BY <1>2 DEF ReadRow, JoinsRow
<1> QED  BY <1>3, <1>4, <1>5

LEMMA ReadIsRows ==
  ASSUME NEW cues \in Seq(CueRow), NEW stops, NEW out \in Seq(ParagraphRow),
         NEW i \in 1..Len(cues)
  PROVE  ReadRow(cues, stops, out, i) \in Seq(ParagraphRow)
<1>1. PICK new : new = ReadRow(cues, stops, out, i) OBVIOUS
<1>2. PICK row \in ParagraphRow : ReadInto(new, out, row, i) BY <1>1, ReadIs
<1>3. new \in Seq(ParagraphRow) BY <1>2, FrontAppend DEF ReadInto
<1> QED  BY <1>1, <1>3

\* ReadTo one cue after the other.
ReadTo(out, cues, stops, n) ==
  out[0] = <<>> /\ \A k \in 1..n : out[k] = ReadRow(cues, stops, out[k - 1], k)

LEMMA ParagraphsIs ==
  ASSUME NEW cues \in Seq(CueRow), NEW stops, NEW n \in Nat, n = Len(cues)
  PROVE  \E out : ReadTo(out, cues, stops, n) /\ Paragraphs(cues, stops) = out[n]
<1>1. PICK ns : ns = [i \in DOMAIN cues |-> i] OBVIOUS
<1>2. Paragraphs(cues, stops) = (CHOOSE f : ReadFold(f, cues, stops, ns))[DOMAIN ns]
  BY <1>1 DEF Paragraphs, FoldLeftDomain, FoldLeft, MapThenFoldSet, ReadFold, ReadRow, JoinsRow
<1>3. DOMAIN ns = 1..n /\ ns \in [1..n -> 1..n] /\ \A i \in 1..n : ns[i] = i BY <1>1
<1>4. \E h : ReadFold(h, cues, stops, ns)
  <2> DEFINE F == [p \in Seq(ParagraphRow) \X (1..n) |-> ReadRow(cues, stops, p[1], p[2])]
  <2>1. F \in [Seq(ParagraphRow) \X (1..n) -> Seq(ParagraphRow)]
    <3>1. ASSUME NEW p \in Seq(ParagraphRow) \X (1..n)
          PROVE  ReadRow(cues, stops, p[1], p[2]) \in Seq(ParagraphRow)
      <4>1. PICK a \in Seq(ParagraphRow), i \in 1..n : p[1] = a /\ p[2] = i OBVIOUS
      <4> QED  BY <4>1, ReadIsRows
    <3> QED  BY <3>1
  <2>2. \A a \in Seq(ParagraphRow), i \in 1..n : F[<<a, i>>] = ReadRow(cues, stops, a, i)
    OBVIOUS
  <2>3. <<>> \in Seq(ParagraphRow) OBVIOUS
  <2> HIDE DEF F
  <2>4. PICK h \in [SUBSET (1..n) -> Seq(ParagraphRow)] : Folds(h, n, <<>>, F, ns)
    BY <1>3, <2>1, <2>3, FoldsExist
  <2>5. ASSUME NEW s \in SUBSET (1..n)
        PROVE  h[s] = IF s = {} THEN <<>>
                      ELSE LET x == Max(s) IN ReadRow(cues, stops, h[s \ {x}], ns[x])
    <3>1. h[s] = IF s = {} THEN <<>> ELSE LET x == Max(s) IN F[<<h[s \ {x}], ns[x]>>]
      BY <2>4 DEF Folds
    <3>2. CASE s = {} BY <3>1, <3>2
    <3>3. CASE s # {}
      <4>1. PICK x : x = Max(s) OBVIOUS
      <4>2. x \in s BY <3>3, <4>1, GreatestIs
      <4>3. h[s \ {x}] \in Seq(ParagraphRow) /\ ns[x] \in 1..n BY <1>3, <4>2
      <4>4. F[<<h[s \ {x}], ns[x]>>] = ReadRow(cues, stops, h[s \ {x}], ns[x]) BY <2>2, <4>3
      <4> QED  BY <3>1, <3>3, <4>1, <4>4
    <3> QED  BY <3>2, <3>3
  <2>6. h = [s \in SUBSET (1..n) |-> h[s]] OBVIOUS
  <2>7. ReadFold(h, cues, stops, ns) BY <1>3, <2>5, <2>6 DEF ReadFold
  <2> QED  BY <2>7
<1>5. PICK h : ReadFold(h, cues, stops, ns) /\ Paragraphs(cues, stops) = h[1..n]
  BY <1>2, <1>3, <1>4
<1> DEFINE out == [k \in 0..n |-> h[1..k]]
<1>6. out[0] = <<>>
  <2>1. 1..0 = {} /\ 1..0 \in SUBSET DOMAIN ns OBVIOUS
  <2>2. h[1..0] = <<>> BY <1>5, <2>1 DEF ReadFold
  <2> QED  BY <2>2
<1>7. ASSUME NEW k \in 1..n PROVE out[k] = ReadRow(cues, stops, out[k - 1], k)
  <2>1. PICK s : s = 1..k OBVIOUS
  <2>2. s \in SUBSET (1..n) /\ k \in s /\ s # {} /\ s \ {k} = 1..(k - 1)
    <3>1. \A x : x \in s \ {k} <=> x \in 1..(k - 1) BY <2>1
    <3>2. s \ {k} = 1..(k - 1) BY <3>1
    <3>3. k \in 1..k /\ k \in Nat /\ k <= n OBVIOUS
    <3>4. \A x \in 1..k : x \in 1..n BY <3>3
    <3> QED  BY <2>1, <3>2, <3>3, <3>4
  <2>3. Max(s) = k
    <3>1. s \in SUBSET (1..k) BY <2>1
    <3> QED  BY <2>2, <3>1, MaxIs
  <2>4. h[s] = ReadRow(cues, stops, h[s \ {k}], k)
    BY <1>3, <1>5, <2>2, <2>3 DEF ReadFold
  <2>5. out[k] = h[1..k] /\ out[k - 1] = h[1..(k - 1)] OBVIOUS
  <2> HIDE DEF out
  <2> QED  BY <2>1, <2>2, <2>4, <2>5
<1>8. Paragraphs(cues, stops) = out[n] BY <1>5
<1> HIDE DEF out
<1>9. ReadTo(out, cues, stops, n) BY <1>6, <1>7 DEF ReadTo
<1> QED  BY <1>8, <1>9

\* After k cues the paragraphs are runs of them: one ends where the next begins.
Runs(out, ends, n, k) ==
  /\ out \in Seq(ParagraphRow) /\ n \in Nat /\ Len(out) = n
  /\ ends \in [0..n -> Nat] /\ ends[0] = 0 /\ ends[n] = k
  /\ \A j \in 1..n : /\ ends[j - 1] <= ends[j]
                     /\ out[j].cues = [i \in 1..(ends[j] - ends[j - 1]) |-> ends[j - 1] + i]

LEMMA ReadKeepsRuns ==
  ASSUME NEW cues \in Seq(CueRow), NEW stops, NEW k \in 1..Len(cues),
         NEW out, NEW ends, NEW n, Runs(out, ends, n, k - 1),
         NEW new, new = ReadRow(cues, stops, out, k)
  PROVE  \E to, m : Runs(new, to, m, k)
<1>1. out \in Seq(ParagraphRow) /\ n \in Nat /\ Len(out) = n BY DEF Runs
<1>2. ends \in [0..n -> Nat] /\ ends[0] = 0 /\ ends[n] = k - 1 BY DEF Runs
<1>3. PICK row \in ParagraphRow : ReadInto(new, out, row, k) BY <1>1, ReadIs
<1>4. k \in Nat \ {0} OBVIOUS
<1>5. CASE row.cues = <<k>> /\ new = Append(out, row)
  <2>1. /\ new \in Seq(ParagraphRow) /\ Len(new) = n + 1 /\ new[n + 1] = row
        /\ \A j \in 1..n : new[j] = out[j]
    BY <1>1, <1>5
  <2> DEFINE to == [j \in 0..(n + 1) |-> IF j = n + 1 THEN k ELSE ends[j]]
  <2>2. to \in [0..(n + 1) -> Nat] /\ to[0] = 0 /\ to[n + 1] = k BY <1>1, <1>2
  <2>3. \A j \in 0..n : to[j] = ends[j] BY <1>1
  <2> HIDE DEF to
  <2>4. ASSUME NEW j \in 1..(n + 1)
        PROVE  /\ to[j - 1] <= to[j]
               /\ new[j].cues = [i \in 1..(to[j] - to[j - 1]) |-> to[j - 1] + i]
    <3>1. CASE j = n + 1
      <4>1. to[j - 1] = k - 1 /\ to[j] = k /\ new[j].cues = <<k>>
        BY <1>1, <1>2, <1>5, <2>1, <2>2, <2>3, <3>1
      <4>2. <<k>> = [i \in 1..1 |-> (k - 1) + i] BY <1>4
      <4>3. k - (k - 1) = 1 BY <1>4
      <4> QED  BY <1>4, <4>1, <4>2, <4>3
    <3>2. CASE j # n + 1
      <4>1. j \in 1..n /\ j \in 0..n /\ j - 1 \in 0..n BY <1>1, <3>2
      <4>2. to[j] = ends[j] /\ to[j - 1] = ends[j - 1] /\ new[j] = out[j] BY <2>1, <2>3, <4>1
      <4>3. /\ ends[j - 1] <= ends[j]
            /\ out[j].cues = [i \in 1..(ends[j] - ends[j - 1]) |-> ends[j - 1] + i]
        BY <4>1 DEF Runs
      <4> QED  BY <4>2, <4>3
    <3> QED  BY <3>1, <3>2
  <2>5. Runs(new, to, n + 1, k) BY <1>1, <2>1, <2>2, <2>4 DEF Runs
  <2> QED  BY <2>5
<1>6. CASE /\ out # <<>> /\ new = Append(Front(out), row)
           /\ row.cues = Append(out[n].cues, k)
  <2>1. n # 0 /\ n \in 1..n /\ n - 1 \in 0..n BY <1>1, <1>6
  <2>2. /\ new \in Seq(ParagraphRow) /\ Len(new) = n
        /\ \A j \in 1..n : new[j] = IF j = n THEN row ELSE out[j]
    BY <1>1, <1>6, FrontAppend
  <2>3. PICK a \in Nat : a = ends[n - 1] BY <1>2, <2>1
  <2>4. a <= k - 1 /\ out[n].cues = [i \in 1..((k - 1) - a) |-> a + i]
    BY <1>2, <2>1, <2>3 DEF Runs
  <2>5. row.cues = [i \in 1..(k - a) |-> a + i]
    <3>1. PICK d \in Nat : d = (k - 1) - a BY <1>4, <2>4
    <3>2. PICK q : q = [i \in 1..d |-> a + i] OBVIOUS
    <3>3. q \in Seq(Nat) /\ Len(q) = d /\ \A i \in 1..d : q[i] = a + i BY <3>1, <3>2
    <3>4. PICK r : r = Append(q, k) OBVIOUS
    <3>5. /\ r \in Seq(Nat) /\ Len(r) = d + 1 /\ r[d + 1] = k
          /\ \A i \in 1..d : r[i] = q[i]
      BY <1>4, <3>3, <3>4
    <3>6. d + 1 = k - a /\ a + (d + 1) = k BY <1>4, <3>1
    <3>7. \A i \in 1..(d + 1) : r[i] = a + i
      <4>1. \A i \in 1..(d + 1) : i \in 1..d \/ i = d + 1 OBVIOUS
      <4> QED  BY <3>3, <3>5, <3>6, <4>1
    <3>8. r = [i \in 1..(d + 1) |-> a + i]
      <4>1. r = [i \in 1..(d + 1) |-> r[i]] BY <3>5
      <4> QED  BY <3>7, <4>1
    <3> QED  BY <1>6, <2>4, <3>1, <3>2, <3>4, <3>6, <3>8
  <2> DEFINE to == [j \in 0..n |-> IF j = n THEN k ELSE ends[j]]
  <2>6. to \in [0..n -> Nat] /\ to[0] = 0 /\ to[n] = k BY <1>1, <1>2, <2>1
  <2>7. \A j \in 0..n : j # n => to[j] = ends[j] BY <1>1
  <2> HIDE DEF to
  <2>8. ASSUME NEW j \in 1..n
        PROVE  /\ to[j - 1] <= to[j]
               /\ new[j].cues = [i \in 1..(to[j] - to[j - 1]) |-> to[j - 1] + i]
    <3>1. CASE j = n
      <4>1. to[j - 1] = a BY <1>1, <2>1, <2>3, <2>7, <3>1
      <4>2. to[j] = k /\ new[j] = row BY <2>2, <2>6, <3>1
      <4>3. a <= k BY <1>4, <2>4
      <4> QED  BY <2>5, <4>1, <4>2, <4>3
    <3>2. CASE j # n
      <4>1. j \in 0..n /\ j - 1 \in 0..n /\ j - 1 # n BY <1>1
      <4>2. to[j] = ends[j] /\ to[j - 1] = ends[j - 1] /\ new[j] = out[j] BY <2>2, <2>7, <3>2, <4>1
      <4>3. /\ ends[j - 1] <= ends[j]
            /\ out[j].cues = [i \in 1..(ends[j] - ends[j - 1]) |-> ends[j - 1] + i]
        BY DEF Runs
      <4> QED  BY <4>2, <4>3
    <3> QED  BY <3>1, <3>2
  <2>9. Runs(new, to, n, k) BY <1>1, <2>2, <2>6, <2>8 DEF Runs
  <2> QED  BY <2>9
<1> QED  BY <1>1, <1>3, <1>5, <1>6 DEF ReadInto

\* The paragraphs of any text have its cues, each once and in order.
LEMMA ParagraphsHold ==
  ASSUME NEW cues \in Seq(CueRow), cues # <<>>, NEW stops,
         NEW out, out = Paragraphs(cues, stops)
  PROVE  FlattenSeq([k \in DOMAIN out |-> out[k].cues]) = [i \in 1..Len(cues) |-> i]
<1>1. PICK n \in Nat \ {0} : n = Len(cues) OBVIOUS
<1>2. PICK stage : ReadTo(stage, cues, stops, n) /\ out = stage[n] BY <1>1, ParagraphsIs
<1> DEFINE good == {k \in 0..n : \E ends, m : Runs(stage[k], ends, m, k)}
<1>3. 0 \in good
  <2>1. stage[0] = <<>> BY <1>2 DEF ReadTo
  <2> DEFINE ends == [j \in 0..0 |-> 0]
  <2>2. ends \in [0..0 -> Nat] /\ ends[0] = 0 OBVIOUS
  <2>3. <<>> \in Seq(ParagraphRow) /\ Len(<<>>) = 0 OBVIOUS
  <2> HIDE DEF ends
  <2>4. Runs(<<>>, ends, 0, 0) BY <2>2, <2>3 DEF Runs
  <2> QED  BY <2>1, <2>4
<1>4. ASSUME NEW k \in 1..n, k - 1 \in good PROVE k \in good
  <2>1. PICK ends, m : Runs(stage[k - 1], ends, m, k - 1) BY <1>4
  <2>2. stage[k] = ReadRow(cues, stops, stage[k - 1], k) BY <1>2 DEF ReadTo
  <2>3. \E to, l : Runs(stage[k], to, l, k) BY <1>1, <2>1, <2>2, ReadKeepsRuns
  <2> QED  BY <2>3
<1>5. n \in good
  <2> HIDE DEF good
  <2> QED  BY <1>3, <1>4, Steady
<1>6. PICK ends, m : Runs(out, ends, m, n) BY <1>2, <1>5
<1>7. out \in Seq(ParagraphRow) /\ m \in Nat /\ Len(out) = m /\ DOMAIN out = 1..m
  BY <1>6 DEF Runs
<1>8. ends \in [0..m -> Nat] /\ ends[0] = 0 /\ ends[m] = n BY <1>6 DEF Runs
<1>9. m # 0 BY <1>8
<1>10. PICK seqs : seqs = [k \in 1..m |-> out[k].cues] OBVIOUS
<1>11. seqs \in Seq(Seq(Nat)) /\ Len(seqs) = m
  <2>1. \A k \in 1..m : out[k] \in ParagraphRow BY <1>7
  <2>2. \A k \in 1..m : out[k].cues \in Seq(Nat) BY <2>1 DEF ParagraphRow
  <2>3. seqs \in [1..m -> Seq(Nat)] BY <1>10, <2>2
  <2> QED  BY <1>7, <2>3
<1>12. PICK h : Flattened(h, seqs, m) /\ FlattenSeq(seqs) = h[m]
  BY <1>7, <1>9, <1>11, FlattenIs
<1> DEFINE upto == {k \in 0..m : k # 0 => h[k] = [i \in 1..ends[k] |-> i]}
<1>13. 0 \in upto BY <1>7
<1>14. ASSUME NEW k \in 1..m, k - 1 \in upto PROVE k \in upto
  <2>1. seqs[k] = [i \in 1..(ends[k] - ends[k - 1]) |-> ends[k - 1] + i]
        /\ ends[k - 1] <= ends[k]
    BY <1>6, <1>10 DEF Runs
  <2>2. PICK a \in Nat, b \in Nat : a = ends[k - 1] /\ b = ends[k]
    <3>1. k \in 0..m /\ k - 1 \in 0..m BY <1>7
    <3> QED  BY <1>8, <3>1
  <2>3. CASE k = 1
    <3>1. h[1] = seqs[1] BY <1>12 DEF Flattened
    <3>2. a = 0 BY <1>8, <2>2, <2>3
    <3>3. b - a = b BY <2>2, <3>2
    <3>4. seqs[k] = [i \in 1..b |-> a + i] BY <2>1, <2>2, <3>3
    <3>5. [i \in 1..b |-> a + i] = [i \in 1..b |-> i] BY <3>2
    <3>6. h[k] = [i \in 1..ends[k] |-> i] BY <2>2, <2>3, <3>1, <3>4, <3>5
    <3> QED  BY <1>7, <3>6
  <2>4. CASE k # 1
    <3>1. k \in 2..m /\ k - 1 # 0 BY <1>7, <2>4
    <3>2. h[k] = h[k - 1] \o seqs[k] BY <1>12, <3>1 DEF Flattened
    <3>3. PICK p : p = [i \in 1..a |-> i] OBVIOUS
    <3>4. h[k - 1] = p BY <1>14, <2>2, <3>1, <3>3
    <3>5. PICK d \in Nat : d = b - a BY <2>1, <2>2
    <3>6. PICK q : q = [i \in 1..d |-> a + i] OBVIOUS
    <3>7. seqs[k] = q BY <2>1, <2>2, <3>5, <3>6
    <3>8. p \in Seq(Nat) /\ Len(p) = a /\ \A i \in 1..a : p[i] = i BY <3>3
    <3>9. q \in Seq(Nat) /\ Len(q) = d /\ \A i \in 1..d : q[i] = a + i BY <3>6
    <3>10. PICK r : r = p \o q OBVIOUS
    <3>11. /\ r \in Seq(Nat) /\ Len(r) = a + d
           /\ \A i \in 1..(a + d) : r[i] = IF i <= a THEN p[i] ELSE q[i - a]
      <4>1. p \in Seq(Nat) /\ q \in Seq(Nat) /\ Len(p) = a /\ Len(q) = d
        BY <3>8, <3>9
      <4>2. r \in Seq(Nat) /\ Len(r) = Len(p) + Len(q) BY <3>10, <4>1, ConcatProperties
      <4>3. \A i \in 1..Len(p) + Len(q) : r[i] = IF i <= Len(p) THEN p[i] ELSE q[i - Len(p)]
        BY <3>10, <4>1, ConcatProperties
      <4> QED  BY <4>1, <4>2, <4>3
    <3>12. \A i \in 1..b : r[i] = i
      <4>1. ASSUME NEW i \in 1..b PROVE r[i] = i
        <5>1. i \in 1..(a + d) BY <3>5
        <5>2. CASE i <= a BY <3>8, <3>11, <5>1, <5>2
        <5>3. CASE ~(i <= a)
          <6>1. i - a \in 1..d BY <3>5, <5>3
          <6>2. r[i] = q[i - a] BY <3>11, <5>1, <5>3
          <6>3. q[i - a] = a + (i - a) BY <3>9, <6>1
          <6> QED  BY <6>2, <6>3
        <5> QED  BY <5>2, <5>3
      <4> QED  BY <4>1
    <3>13. r = [i \in 1..b |-> i]
      <4>1. a + d = b BY <3>5
      <4>2. r = [i \in 1..b |-> r[i]] BY <3>11, <4>1
      <4> QED  BY <3>12, <4>2
    <3>14. h[k] = [i \in 1..ends[k] |-> i] BY <2>2, <3>2, <3>4, <3>7, <3>10, <3>13
    <3> QED  BY <1>7, <3>14
  <2> QED  BY <2>3, <2>4
<1>15. m \in upto
  <2> HIDE DEF upto
  <2> QED  BY <1>7, <1>13, <1>14, Steady
<1>16. h[m] = [i \in 1..n |-> i] BY <1>8, <1>9, <1>15
<1> QED  BY <1>1, <1>7, <1>10, <1>12, <1>16

LEMMA ParagraphsAreKept == ParagraphsKeepText
<1> SUFFICES ASSUME NEW captions \in Texts, NEW stops \in SUBSET DOMAIN captions,
                    NEW out, out = Paragraphs(captions, stops)
             PROVE  FlattenSeq([k \in DOMAIN out |-> out[k].cues])
                       = [i \in DOMAIN captions |-> i]
  BY DEF ParagraphsKeepText
<1>1. captions \in Seq(CueRow) /\ captions # <<>> BY TextsAreInOrder DEF InOrder
<1>2. DOMAIN captions = 1..Len(captions) BY <1>1
<1> QED  BY <1>1, <1>2, ParagraphsHold

\* A text loses none of its captions: each that takes time is in a chunk, joined for
\* translation or not, cut by chapters or by windows, and is shown to the model with its
\* section; the stored transcript has every caption once and in order; and every point of
\* the summary is on one branch of the mind map.  For any captions, up to any bounds, and
\* any sizes of chunks, chapters, tails and paragraphs.
THEOREM TextsAreKept == TextKept /\ (Spec => []TextSurvives)
<1>1. TextKept
  BY ChunksAreKept, ParagraphsAreKept, BranchesAreKept DEF TextKept
<1>2. TextSurvives
  BY <1>1 DEF TextSurvives
<1> QED  BY <1>1, <1>2, PTL
=============================================================================
