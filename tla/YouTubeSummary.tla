---------------------------- MODULE YouTubeSummary ----------------------------
(***************************************************************************)
(* How a YouTube video gets its summary.  Two threads run the summary      *)
(* pipeline of VideoSummaryOrchestrator: the task worker, for rows of type *)
(* youtube_summary, and the polling thread, for new videos of subscribed   *)
(* channels and for failed ones that the retry scanners take up.  Users    *)
(* ask for summaries meanwhile, and the process may die and be started     *)
(* again.  A thread's session keeps the rows it has loaded: an assignment  *)
(* of the value the session believes in writes nothing.                    *)
(*                                                                         *)
(* Transcript has the text and its translation, Media frames and copies.   *)
(***************************************************************************)
EXTENDS Naturals, FiniteSets

CONSTANTS
    Videos,
    Slots,          \* identifiers of a video's documents
    MaxCrashes,     \* bound on process deaths
    MaxAborts,      \* bound on runs ended by an unexpected exception
    NoVideo, NoSlot

ASSUME YouTubeSummaryAssumption ==
    /\ NoVideo \notin Videos /\ NoSlot \notin Slots
    /\ IsFiniteSet(Videos) /\ IsFiniteSet(Slots)
    /\ MaxCrashes \in Nat /\ MaxAborts \in Nat

VARIABLES
    fetch,      \* video.fetch_status, "none" before the row is inserted
    doc,        \* document.parse_status of each document of a video
    queued,     \* number of pending youtube_summary rows of a video
    running,    \* number of running ones
    asking,     \* the video whose request handler has not enqueued yet
    at,         \* what each thread is doing
    video,      \* the video it is working on
    ref,        \* the document it holds
    seenFetch,  \* fetch_status as its session knows it
    seenDoc,    \* parse_status of its document as its session knows it
    todo,       \* videos the polling thread has listed and not begun
    phase,      \* the polling thread's place in its tick
    system,     \* "up", "down", or "marked" in the middle of the start-up
    joined,     \* videos whose latest request was answered by a running row
    aborted,    \* videos whose run ended with an unexpected exception
    crashes, aborts

rowVars == <<fetch, doc>>
jobVars == <<queued, running, asking, joined>>
threadVars == <<at, video, ref, seenFetch, seenDoc>>
pollVars == <<todo, phase>>
systemVars == <<system, crashes>>
abortVars == <<aborted, aborts>>
vars == <<rowVars, jobVars, threadVars, pollVars, systemVars, abortVars>>

Threads == {"worker", "poller"}
FetchFailures == {"no_transcript", "failed", "access_denied"}
FetchStatus == {"none", "pending", "fetched", "interrupted"} \cup FetchFailures
\* "interrupted" is failed with the message that the start-up looks for.
ParseStatus == {"none", "processing", "completed", "failed", "interrupted"}
Stages == {"idle", "begin", "transcribe", "persist", "create", "summarize", "done"}

Existing(v) == {d \in Slots : doc[v][d] # "none"}
\* The document a query by video finds: any one, if the video has several.
Found(v) == IF Existing(v) = {} THEN {NoSlot} ELSE Existing(v)
Parse(s) == IF s = "interrupted" THEN "failed" ELSE s
ParseOf(v, d) == IF d = NoSlot THEN "none" ELSE Parse(doc[v][d])

\* What the database holds after a session assigns new to a column that it
\* believes to hold seen.
Put(old, seen, new) == IF seen = new /\ Parse(old) # new THEN old ELSE new

Init ==
    /\ fetch = [v \in Videos |-> "none"]
    /\ doc = [v \in Videos |-> [d \in Slots |-> "none"]]
    /\ queued = [v \in Videos |-> 0] /\ running = [v \in Videos |-> 0]
    /\ asking = NoVideo /\ joined = {}
    /\ at = [t \in Threads |-> "idle"]
    /\ video = [t \in Threads |-> NoVideo]
    /\ ref = [t \in Threads |-> NoSlot]
    /\ seenFetch = [t \in Threads |-> "none"]
    /\ seenDoc = [t \in Threads |-> "none"]
    /\ todo = {} /\ phase = "rest"
    /\ system = "up" /\ crashes = 0
    /\ aborted = {} /\ aborts = 0

-----------------------------------------------------------------------------
(* Request handlers, one at a time on the event loop                       *)

\* enqueue_youtube_summary_job: an active row of the video answers for a new one.
Enqueue(v) ==
    IF queued[v] + running[v] = 0
    THEN queued' = [queued EXCEPT ![v] = 1] /\ joined' = joined \ {v}
    ELSE /\ joined' = IF queued[v] = 0 THEN joined \cup {v} ELSE joined
         /\ UNCHANGED queued

\* POST summarize (any video) and POST retry (one that is not access_denied): the
\* video is pending again, and so is its document if it had failed.
Ask(v) ==
    /\ system = "up" /\ asking = NoVideo
    /\ fetch' = [fetch EXCEPT ![v] = "pending"]
    /\ \E d \in Found(v) :
          doc' = IF ParseOf(v, d) = "failed" THEN [doc EXCEPT ![v][d] = "processing"] ELSE doc
    /\ asking' = v
    /\ UNCHANGED <<queued, running, joined, threadVars, pollVars, systemVars, abortVars>>

\* The end of both handlers, a commit later.
Submit ==
    /\ system = "up" /\ asking # NoVideo
    /\ Enqueue(asking)
    /\ asking' = NoVideo
    /\ UNCHANGED <<rowVars, running, threadVars, pollVars, systemVars, abortVars>>

\* POST poll discovers a new video; its row and its job are committed together.
Discover(v) ==
    /\ system = "up" /\ asking = NoVideo /\ fetch[v] = "none"
    /\ fetch' = [fetch EXCEPT ![v] = "pending"]
    /\ Enqueue(v)
    /\ UNCHANGED <<doc, running, asking, threadVars, pollVars, systemVars, abortVars>>

-----------------------------------------------------------------------------
(* The task worker                                                         *)

TakeJob(v) ==
    /\ system = "up" /\ at["worker"] = "idle" /\ queued[v] > 0
    /\ queued' = [queued EXCEPT ![v] = @ - 1]
    /\ running' = [running EXCEPT ![v] = @ + 1]
    /\ at' = [at EXCEPT !["worker"] = "begin"]
    /\ video' = [video EXCEPT !["worker"] = v]
    /\ UNCHANGED <<rowVars, asking, joined, ref, seenFetch, seenDoc, pollVars, systemVars, abortVars>>

\* YouTubeSummaryJobHandler: nothing to do for an access_denied video; any other is
\* made pending, with its document if that had failed, and handed to the pipeline.
BeginJob ==
    LET v == video["worker"] IN
    /\ at["worker"] = "begin"
    /\ \/ /\ fetch[v] = "access_denied"
          /\ at' = [at EXCEPT !["worker"] = "done"]
          /\ UNCHANGED <<rowVars, ref, seenFetch, seenDoc>>
       \/ /\ fetch[v] # "access_denied"
          /\ at' = [at EXCEPT !["worker"] = "transcribe"]
          /\ fetch' = [fetch EXCEPT ![v] = "pending"]
          /\ seenFetch' = [seenFetch EXCEPT !["worker"] = "pending"]
          /\ \E d \in Found(v) :
                LET failed == ParseOf(v, d) = "failed" IN
                /\ ref' = [ref EXCEPT !["worker"] = d]
                /\ seenDoc' = [seenDoc EXCEPT !["worker"] =
                                 IF failed THEN "processing" ELSE ParseOf(v, d)]
                /\ doc' = IF failed THEN [doc EXCEPT ![v][d] = "processing"] ELSE doc
    /\ UNCHANGED <<jobVars, video, todo, phase, systemVars, abortVars>>

\* The thread lets go of its video and of the rows its session has loaded.
Release(t) ==
    /\ at' = [at EXCEPT ![t] = "idle"]
    /\ video' = [video EXCEPT ![t] = NoVideo]
    /\ ref' = [ref EXCEPT ![t] = NoSlot]
    /\ seenFetch' = [seenFetch EXCEPT ![t] = "none"]
    /\ seenDoc' = [seenDoc EXCEPT ![t] = "none"]

\* The row succeeds whatever the result of the pipeline was.
FinishJob ==
    /\ at["worker"] = "done"
    /\ running' = [running EXCEPT ![video["worker"]] = @ - 1]
    /\ Release("worker")
    /\ UNCHANGED <<rowVars, queued, asking, joined, pollVars, systemVars, abortVars>>

-----------------------------------------------------------------------------
(* The polling thread: new videos, then failed documents, then failed videos *)

\* A part of the tick reads its list once; a retry scanner leaves out what has
\* used up its attempts, waits for its backoff or exceeds the batch.
List(from, to, entries) ==
    /\ system = "up" /\ phase = from /\ todo = {} /\ at["poller"] = "idle"
    /\ phase' = to
    /\ \E S \in SUBSET entries : todo' = S
    /\ UNCHANGED <<rowVars, jobVars, threadVars, systemVars, abortVars>>

Entry(v, f, d) == [video |-> v, fetch |-> f, slot |-> d]
ListNew == List("rest", "new", {Entry(v, "none", NoSlot) : v \in {u \in Videos : fetch[u] = "none"}})
ListFailedDocs ==
    List("new", "docs", {e \in {Entry(v, "none", d) : v \in Videos, d \in Slots} :
                            ParseOf(e.video, e.slot) = "failed"})
ListFailedVideos ==
    List("docs", "videos", {Entry(v, fetch[v], NoSlot) :
                               v \in {u \in Videos : fetch[u] \in {"failed", "no_transcript"}}})
EndTick ==
    /\ system = "up" /\ phase = "videos" /\ todo = {} /\ at["poller"] = "idle"
    /\ phase' = "rest"
    /\ UNCHANGED <<rowVars, jobVars, threadVars, todo, systemVars, abortVars>>

\* summarize_meta starts with _upsert_video; a retry scanner's session still has
\* the row as it was listed.
BeginEntry(e) ==
    LET v == e.video IN
    /\ at["poller"] = "idle" /\ e \in todo /\ todo' = todo \ {e}
    /\ video' = [video EXCEPT !["poller"] = v]
    /\ IF phase = "docs"
       THEN /\ at' = [at EXCEPT !["poller"] = "summarize"]
            /\ ref' = [ref EXCEPT !["poller"] = e.slot]
            /\ seenDoc' = [seenDoc EXCEPT !["poller"] = "failed"]
            /\ UNCHANGED <<fetch, seenFetch>>
       ELSE /\ at' = [at EXCEPT !["poller"] = "transcribe"]
            /\ fetch' = [fetch EXCEPT ![v] = IF @ = "none" THEN "pending" ELSE @]
            /\ seenFetch' = [seenFetch EXCEPT !["poller"] =
                                IF phase = "new" THEN fetch'[v] ELSE e.fetch]
            /\ UNCHANGED <<ref, seenDoc>>
    /\ UNCHANGED <<doc, jobVars, phase, systemVars, abortVars>>

FinishEntry ==
    /\ at["poller"] = "done"
    /\ Release("poller")
    /\ UNCHANGED <<rowVars, jobVars, pollVars, systemVars, abortVars>>

-----------------------------------------------------------------------------
(* The pipeline, in either thread                                          *)

PutFetch(t, s) ==
    /\ fetch' = [fetch EXCEPT ![video[t]] = Put(@, seenFetch[t], s)]
    /\ seenFetch' = [seenFetch EXCEPT ![t] = s]
PutDoc(t, s) ==
    /\ doc' = [doc EXCEPT ![video[t]][ref[t]] = Put(@, seenDoc[t], s)]
    /\ seenDoc' = [seenDoc EXCEPT ![t] = s]
Goto(t, stage) == at' = [at EXCEPT ![t] = stage]

\* The video's metadata, or its captions and then the speech recognition, fail.
NoTranscript(t, s) ==
    /\ at[t] = "transcribe"
    /\ PutFetch(t, s) /\ Goto(t, "done")
    /\ UNCHANGED <<doc, jobVars, video, ref, seenDoc, pollVars, systemVars, abortVars>>

Transcribe(t) ==
    /\ at[t] = "transcribe"
    /\ PutFetch(t, "fetched") /\ Goto(t, "persist")
    /\ UNCHANGED <<doc, jobVars, video, ref, seenDoc, pollVars, systemVars, abortVars>>

\* _persist_document looks for a document of the video ...
FindDocument(t) ==
    /\ at[t] = "persist"
    /\ \E d \in Found(video[t]) :
          IF d = NoSlot
          THEN Goto(t, "create") /\ UNCHANGED <<ref, seenDoc>>
          ELSE /\ Goto(t, "summarize")
               /\ ref' = [ref EXCEPT ![t] = d]
               /\ seenDoc' = [seenDoc EXCEPT ![t] =
                                 IF d = ref[t] THEN @ ELSE ParseOf(video[t], d)]
    /\ UNCHANGED <<rowVars, jobVars, video, seenFetch, pollVars, systemVars, abortVars>>

\* ... and commits a new one if it found none.
CreateDocument(t) ==
    /\ at[t] = "create"
    /\ \E d \in Slots \ Existing(video[t]) :
          /\ doc' = [doc EXCEPT ![video[t]][d] = "processing"]
          /\ ref' = [ref EXCEPT ![t] = d]
    /\ seenDoc' = [seenDoc EXCEPT ![t] = "processing"]
    /\ Goto(t, "summarize")
    /\ UNCHANGED <<fetch, jobVars, video, seenFetch, pollVars, systemVars, abortVars>>

Summarize(t) ==
    /\ at[t] = "summarize"
    /\ PutDoc(t, "completed") /\ Goto(t, "done")
    /\ UNCHANGED <<fetch, jobVars, video, ref, seenFetch, pollVars, systemVars, abortVars>>

\* (fault) A failed summary leaves its document as it is.
SummaryFailsSilently(t) ==
    /\ at[t] = "summarize" /\ Goto(t, "done")
    /\ UNCHANGED <<rowVars, jobVars, video, ref, seenFetch, seenDoc, pollVars, systemVars, abortVars>>

SummaryFails(t) ==
    /\ at[t] = "summarize"
    /\ PutDoc(t, "failed") /\ Goto(t, "done")
    /\ UNCHANGED <<fetch, jobVars, video, ref, seenFetch, pollVars, systemVars, abortVars>>

\* Any other exception: the worker fails its row, the polling thread ends its tick
\* or, in a retry scanner, goes on.
Abort(t) ==
    /\ at[t] \notin {"idle", "done"} /\ aborts < MaxAborts
    /\ aborts' = aborts + 1
    /\ aborted' = aborted \cup {video[t]}
    /\ running' = IF t = "worker" THEN [running EXCEPT ![video[t]] = @ - 1] ELSE running
    /\ IF t = "poller" /\ phase = "new" THEN phase' = "rest" /\ todo' = {}
                                        ELSE UNCHANGED pollVars
    /\ Release(t)
    /\ UNCHANGED <<rowVars, queued, asking, joined, systemVars>>

-----------------------------------------------------------------------------
(* Process death and start-up                                              *)

Crash ==
    /\ system # "down" /\ crashes < MaxCrashes
    /\ crashes' = crashes + 1 /\ system' = "down"
    /\ at' = [t \in Threads |-> "idle"] /\ video' = [t \in Threads |-> NoVideo]
    /\ ref' = [t \in Threads |-> NoSlot]
    /\ seenFetch' = [t \in Threads |-> "none"] /\ seenDoc' = [t \in Threads |-> "none"]
    /\ todo' = {} /\ phase' = "rest" /\ asking' = NoVideo
    /\ UNCHANGED <<rowVars, queued, running, joined, abortVars>>

\* (fault) Fetched videos that never got a document are overlooked.
MarkInterruptedDocsOnly ==
    /\ system = "down" /\ system' = "marked"
    /\ doc' = [v \in Videos |-> [d \in Slots |->
                 IF doc[v][d] = "processing" THEN "interrupted" ELSE doc[v][d]]]
    /\ UNCHANGED <<fetch, jobVars, threadVars, pollVars, crashes, abortVars>>

\* _mark_interrupted_youtube_summaries: one commit.
MarkInterrupted ==
    /\ system = "down" /\ system' = "marked"
    /\ doc' = [v \in Videos |-> [d \in Slots |->
                 IF doc[v][d] = "processing" THEN "interrupted" ELSE doc[v][d]]]
    /\ fetch' = [v \in Videos |->
                    IF fetch[v] = "fetched" /\ Existing(v) = {} THEN "interrupted" ELSE fetch[v]]
    /\ UNCHANGED <<jobVars, threadVars, pollVars, crashes, abortVars>>

Unfinished(v) == \/ fetch[v] \in {"pending", "interrupted"}
                 \/ \E d \in Slots : doc[v][d] = "interrupted"

\* enqueue_unfinished_youtube_summary_jobs: running rows wait again, and every
\* unfinished video, cleared of its mark, has an active row.
EnqueueUnfinished ==
    /\ system = "marked" /\ system' = "up"
    /\ fetch' = [v \in Videos |-> IF fetch[v] = "interrupted" THEN "pending" ELSE fetch[v]]
    /\ \E pick \in [Videos -> Slots \cup {NoSlot}] :
          /\ \A v \in Videos : pick[v] \in Found(v)
          /\ doc' = [v \in Videos |-> [d \in Slots |->
                       IF doc[v][d] = "interrupted" /\ d = pick[v] THEN "processing"
                                                                   ELSE doc[v][d]]]
    /\ queued' = [v \in Videos |->
                    LET n == queued[v] + running[v] IN IF Unfinished(v) /\ n = 0 THEN 1 ELSE n]
    /\ running' = [v \in Videos |-> 0]
    /\ joined' = {} /\ aborted' = {}
    /\ UNCHANGED <<asking, threadVars, pollVars, crashes, aborts>>

-----------------------------------------------------------------------------

Requests == (\E v \in Videos : Ask(v) \/ Discover(v))
Pipeline(t) == \/ (\E s \in FetchFailures : NoTranscript(t, s))
               \/ Transcribe(t) \/ FindDocument(t) \/ CreateDocument(t)
               \/ Summarize(t) \/ SummaryFails(t)
Worker == \/ BeginJob \/ FinishJob \/ Pipeline("worker")
          \/ \E v \in Videos : TakeJob(v)
Poller == \/ ListNew \/ ListFailedDocs \/ ListFailedVideos \/ EndTick \/ FinishEntry
          \/ Pipeline("poller")
          \/ \E e \in todo : BeginEntry(e)
StartUp == MarkInterrupted \/ EnqueueUnfinished

Next == \/ Requests \/ Submit \/ Worker \/ Poller \/ StartUp \/ Crash
        \/ \E t \in Threads : Abort(t)

Spec == Init /\ [][Next]_vars

\* Both threads run, a handler that has begun ends, the process is restarted.  The
\* worker takes up each waiting row in the end (TaskQueue).
Fairness == /\ WF_vars(Submit) /\ WF_vars(Worker) /\ WF_vars(Poller) /\ WF_vars(StartUp)
            /\ \A v \in Videos : SF_vars(TakeJob(v))

FairSpec == Spec /\ Fairness
-----------------------------------------------------------------------------
(* Properties                                                              *)

TypeOK ==
    /\ fetch \in [Videos -> FetchStatus]
    /\ doc \in [Videos -> [Slots -> ParseStatus]]
    /\ queued \in [Videos -> Nat] /\ running \in [Videos -> Nat]
    /\ asking \in Videos \cup {NoVideo}
    /\ at \in [Threads -> Stages]
    /\ video \in [Threads -> Videos \cup {NoVideo}]
    /\ ref \in [Threads -> Slots \cup {NoSlot}]
    /\ seenFetch \in [Threads -> FetchStatus] /\ seenDoc \in [Threads -> ParseStatus]
    /\ todo \subseteq [video : Videos, fetch : FetchStatus, slot : Slots \cup {NoSlot}]
    /\ phase \in {"rest", "new", "docs", "videos"}
    /\ system \in {"up", "down", "marked"}
    /\ joined \subseteq Videos /\ aborted \subseteq Videos
    /\ crashes \in Nat /\ aborts \in Nat

\* What GET summaries/by-video may answer: no failure, no completed document.
Processing(v) ==
    /\ fetch[v] \in {"pending", "fetched"}
    /\ Existing(v) = {} \/ \E d \in Slots : doc[v][d] = "processing"

\* Left out below: a request answered by a row that was already ending, a run that
\* ended with an unexpected exception, and a video with two documents, of which the
\* queries by video find any one.
Excused(v) == v \in joined \cup aborted \/ \E d, e \in Existing(v) : d # e

InHand(v) == asking = v \/ queued[v] > 0 \/ \E t \in Threads : video[t] = v

\* A video that is reported as being processed is being processed, or about to be:
\* somebody holds it or a row waits for it.
ProcessingIsInHand ==
    system = "up" =>
       \A v \in Videos : Processing(v) => InHand(v) \/ Excused(v)

\* A video does not stay in processing for ever.
ProcessingEnds ==
    \A v \in Videos : Processing(v) ~> ~Processing(v) \/ Excused(v)

=============================================================================
