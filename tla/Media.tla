-------------------------------- MODULE Media --------------------------------
(***************************************************************************)
(* What the summary pipeline keeps of a YouTube video besides its text:    *)
(* frames of the picture, read by OCR, and a copy of the video for the     *)
(* player.  The pipeline runs in the worker and, without the frames, in    *)
(* the polling thread; the worker also repeats the analysis of frames and  *)
(* downloads videos.  Files and rows are written one after the other and   *)
(* each of these may fail, a thread's session keeps the video as it loaded *)
(* it, and the process may die between any two steps.                      *)
(***************************************************************************)
EXTENDS Transcript

CONSTANTS
    Videos,
    MaxAsks,        \* bound on requests
    MaxPolls,       \* bound on videos the polling thread takes up
    MaxCrashes,     \* bound on process deaths
    NoVideo, NoJob

Kinds == {"summary", "visual", "download"}

ASSUME MediaAssumption ==
    /\ IsFiniteSet(Videos) /\ NoVideo \notin Videos /\ NoJob \notin Kinds \X Videos
    /\ MaxAsks \in Nat /\ MaxPolls \in Nat /\ MaxCrashes \in Nat

VARIABLES
    fetch,      \* video.fetch_status
    summarized, \* videos whose document is completed
    status,     \* video.local_video_status
    disk,       \* videos whose file is in the storage
    frames,     \* videos with video_frame_analysis rows
    images,     \* of which analysis a video's directory has the images
    torn,       \* (history) videos whose rows a death or a failure has cut off from theirs
    waiting,    \* pending rows of the queue, in the order the worker takes them
    stuck,      \* rows that a death has left running
    asking,     \* the request that has found no active download row
    at,         \* what each thread is doing
    video,      \* the video it is working on
    seen,       \* local_video_status as its session knows it
    job,        \* the row the worker runs
    up,         \* the process lives
    asks, polls, crashes

textVars == <<fetch, summarized>>
copyVars == <<status, disk>>
frameVars == <<frames, images, torn>>
queueVars == <<waiting, stuck, asking>>
threadVars == <<at, video, seen, job>>
systemVars == <<up, crashes>>
vars == <<textVars, copyVars, frameVars, queueVars, threadVars, systemVars, asks, polls>>

Threads == {"worker", "poller"}
FetchStatus == {"pending", "fetched", "no_transcript", "failed", "access_denied"}
CopyStatus == {"not_downloaded", "queued", "downloading", "downloaded", "failed"}
Stages == {"idle", "frames", "sample", "swap", "place", "persist", "transcribe",
           "summarize", "offer", "insert", "load", "download", "move", "settle"}

Active(kind, v) ==
    <<kind, v>> \in ToSet(waiting) \cup stuck \cup {job}

\* An assignment of the value the session believes in writes nothing.
Put(old, known, new) == IF known = new THEN old ELSE new

Init ==
    /\ fetch = [v \in Videos |-> "pending"] /\ summarized = {}
    /\ status = [v \in Videos |-> "not_downloaded"] /\ disk = {}
    /\ frames = {} /\ images = [v \in Videos |-> "none"] /\ torn = {}
    /\ waiting = <<>> /\ stuck = {} /\ asking = [video |-> NoVideo, seen |-> "failed"]
    /\ at = [t \in Threads |-> "idle"] /\ video = [t \in Threads |-> NoVideo]
    /\ seen = [t \in Threads |-> "failed"] /\ job = NoJob
    /\ up = TRUE /\ crashes = 0 /\ asks = 0 /\ polls = 0

-----------------------------------------------------------------------------
(* Requests, one at a time on the event loop                               *)

Asked == up /\ asking.video = NoVideo /\ asks < MaxAsks /\ asks' = asks + 1 /\ UNCHANGED polls

\* enqueue_youtube_summary_job, enqueue_visual_analysis_retry_job: an active row
\* answers for a new one.
Enqueued(kind, v) == IF Active(kind, v) THEN waiting ELSE Append(waiting, <<kind, v>>)

\* POST retry
AskSummary(v) ==
    /\ Asked /\ fetch[v] # "access_denied"
    /\ fetch' = [fetch EXCEPT ![v] = "pending"] /\ waiting' = Enqueued("summary", v)
    /\ UNCHANGED <<summarized, copyVars, frameVars, stuck, asking, threadVars, systemVars>>

\* POST visual-analysis/retry
AskVisual(v) ==
    /\ Asked /\ waiting' = Enqueued("visual", v)
    /\ UNCHANGED <<textVars, copyVars, frameVars, stuck, asking, threadVars, systemVars>>

\* A copy that is there, or a row that will make one, answers.
Wants(known, v) == known # "downloaded" /\ ~Active("download", v)

\* POST local-video/download looks ...
AskDownload(v) ==
    /\ Asked /\ Wants(status[v], v)
    /\ asking' = [video |-> v, seen |-> status[v]]
    /\ UNCHANGED <<textVars, copyVars, frameVars, waiting, stuck, threadVars, systemVars>>

\* enqueue_local_video_download_job: the row and the status in one commit.
AddDownload(v, known) ==
    /\ waiting' = Append(waiting, <<"download", v>>)
    /\ status' = [status EXCEPT ![v] = Put(@, known, "queued")]

\* ... and inserts; threads of the pipeline do so too in between.
InsertDownload ==
    /\ asking.video # NoVideo /\ AddDownload(asking.video, asking.seen)
    /\ asking' = [video |-> NoVideo, seen |-> "failed"]
    /\ UNCHANGED <<textVars, disk, frameVars, stuck, threadVars, systemVars, asks, polls>>

\* GET local-video, the summary card and the list of frames: what a reader is offered.
Playable(v) == status[v] = "downloaded"
Pictured == frames

-----------------------------------------------------------------------------
(* The threads                                                             *)

Begin(t, v, stage) ==
    /\ at' = [at EXCEPT ![t] = stage] /\ video' = [video EXCEPT ![t] = v]
    /\ seen' = [seen EXCEPT ![t] = status[v]]

Goto(t, stage) == at' = [at EXCEPT ![t] = stage] /\ UNCHANGED <<video, seen, job>>

\* The thread lets go of its video; the row it ran is finished.
Done(t) ==
    /\ at' = [at EXCEPT ![t] = "idle"] /\ video' = [video EXCEPT ![t] = NoVideo]
    /\ seen' = [seen EXCEPT ![t] = "failed"]
    /\ job' = IF t = "worker" THEN NoJob ELSE job

\* The summary of a video that may not be seen has nothing to do.
Take ==
    /\ up /\ job = NoJob /\ waiting # <<>> /\ waiting' = Tail(waiting)
    /\ LET j == Head(waiting) IN
       IF j[1] = "summary" /\ fetch[j[2]] = "access_denied" THEN UNCHANGED threadVars
       ELSE job' = j /\ Begin("worker", j[2], IF j[1] = "summary" THEN "frames" ELSE
                                              IF j[1] = "visual" THEN "sample" ELSE "load")
    /\ UNCHANGED <<textVars, copyVars, frameVars, stuck, asking, systemVars, asks, polls>>

\* A new video of a channel, or a failed one.  The polling thread's pipeline is built
\* without the service for frames.
Poll(v) ==
    /\ up /\ at["poller"] = "idle" /\ polls < MaxPolls /\ polls' = polls + 1
    /\ Begin("poller", v, "transcribe")
    /\ UNCHANGED <<textVars, copyVars, frameVars, queueVars, job, systemVars, asks>>

-----------------------------------------------------------------------------
(* Frames; only the worker's pipeline has a service that analyses them      *)

Analysed == video["worker"]
OnlyFrames == job # NoJob /\ job[1] = "visual"
\* What follows the frames or a failure that the pipeline notes: the text; an analysis
\* that was asked for is over.
AfterFrames == IF OnlyFrames THEN Done("worker") ELSE Goto("worker", "transcribe")

\* analyze: the pipeline takes the frames that are stored.
LoadFrames ==
    /\ at["worker"] = "frames"
    /\ Goto("worker", IF Analysed \in frames THEN "transcribe" ELSE "sample")
    /\ UNCHANGED <<textVars, copyVars, frameVars, queueVars, systemVars, asks, polls>>

\* (fault) Frames are sampled into the directory that the rows point at.
NoFramesLeft ==
    /\ at["worker"] = "sample" /\ AfterFrames
    /\ images' = [images EXCEPT ![Analysed] = "none"]
    /\ UNCHANGED <<textVars, copyVars, frames, torn, queueVars, systemVars, asks, polls>>

\* The download, the sampling or the OCR fails, or no frame shows enough text: the
\* directory the frames were sampled into goes, and nothing else.
NoFrames ==
    /\ at["worker"] = "sample" /\ AfterFrames
    /\ UNCHANGED <<textVars, copyVars, frameVars, queueVars, systemVars, asks, polls>>

Sample ==
    /\ at["worker"] = "sample" /\ Goto("worker", "swap")
    /\ UNCHANGED <<textVars, copyVars, frameVars, queueVars, systemVars, asks, polls>>

\* The images of an earlier analysis go ...
RemoveImages ==
    /\ at["worker"] = "swap" /\ Goto("worker", "place")
    /\ images' = [images EXCEPT ![Analysed] = "none"]
    /\ UNCHANGED <<textVars, copyVars, frames, torn, queueVars, systemVars, asks, polls>>

\* ... the new ones take their name ...
PlaceImages ==
    /\ at["worker"] = "place" /\ Goto("worker", "persist")
    /\ images' = [images EXCEPT ![Analysed] = "newer"]
    /\ UNCHANGED <<textVars, copyVars, frames, torn, queueVars, systemVars, asks, polls>>

\* ... and the rows replace those of the earlier analysis in one commit.
Persist ==
    /\ at["worker"] = "persist" /\ AfterFrames
    /\ frames' = frames \cup {Analysed} /\ torn' = torn \ {Analysed}
    /\ images' = [images EXCEPT ![Analysed] = "stored"]
    /\ UNCHANGED <<textVars, copyVars, queueVars, systemVars, asks, polls>>

\* Rows that are left behind by what ends the analysis now.
Torn == torn \cup ({Analysed} \cap frames)

\* The old directory cannot be removed, or not all of it, or the new one be renamed.
SwapFails ==
    /\ at["worker"] \in {"swap", "place"} /\ AfterFrames
    /\ images' = [images EXCEPT ![Analysed] = "none"] /\ torn' = Torn
    /\ UNCHANGED <<textVars, copyVars, frames, queueVars, systemVars, asks, polls>>

\* The old rows cannot be deleted; or the new ones be inserted, which leaves a session
\* that not even the failure can be noted in and ends the run.
PersistFails ==
    /\ at["worker"] = "persist" /\ (AfterFrames \/ Done("worker")) /\ torn' = Torn
    /\ UNCHANGED <<textVars, copyVars, frames, images, queueVars, systemVars, asks, polls>>

-----------------------------------------------------------------------------
(* The text                                                                *)

Transcribe(t) ==
    /\ at[t] = "transcribe"
    /\ \E o \in Outcomes :
          /\ fetch' = IF o = "aborted" THEN fetch ELSE [fetch EXCEPT ![video[t]] = o]
          /\ IF o = "fetched" THEN Goto(t, "summarize") ELSE Done(t)
    /\ UNCHANGED <<summarized, copyVars, frameVars, queueVars, systemVars, asks, polls>>

Summarize(t) ==
    /\ at[t] = "summarize"
    /\ \E o \in Summaries :
          IF o = "raised" THEN summarized' = summarized \ {video[t]} /\ Done(t)
          ELSE summarized' = summarized \cup {video[t]} /\ Goto(t, "offer")
    /\ UNCHANGED <<fetch, copyVars, frameVars, queueVars, systemVars, asks, polls>>

-----------------------------------------------------------------------------
(* The copy for the player                                                 *)

\* _enqueue_local_video_download trusts the copy it loaded minutes ago.
Offer(t) ==
    /\ at[t] = "offer"
    /\ IF Wants(seen[t], video[t]) THEN Goto(t, "insert") ELSE Done(t)
    /\ UNCHANGED <<textVars, copyVars, frameVars, queueVars, systemVars, asks, polls>>

InsertOffer(t) ==
    /\ at[t] = "insert" /\ AddDownload(video[t], seen[t]) /\ Done(t)
    /\ UNCHANGED <<textVars, disk, frameVars, stuck, asking, systemVars, asks, polls>>

\* (fault) The video says downloaded until it is downloaded again.
LoadQuietly ==
    /\ at["worker"] = "load" /\ Goto("worker", "download")
    /\ UNCHANGED <<textVars, copyVars, frameVars, queueVars, systemVars, asks, polls>>

LoadVideo ==
    /\ at["worker"] = "load"
    /\ status' = [status EXCEPT ![video["worker"]] = "downloading"]
    /\ Goto("worker", "download")
    /\ UNCHANGED <<textVars, disk, frameVars, queueVars, systemVars, asks, polls>>

\* The row fails after the video.
DownloadFails ==
    /\ at["worker"] = "download" /\ Done("worker")
    /\ status' = [status EXCEPT ![video["worker"]] = "failed"]
    /\ UNCHANGED <<textVars, disk, frameVars, queueVars, systemVars, asks, polls>>

\* yt-dlp has written a file beside the storage; the old one goes ...
Fetched ==
    /\ at["worker"] = "download" /\ Goto("worker", "move")
    /\ disk' = disk \ {video["worker"]}
    /\ UNCHANGED <<textVars, status, frameVars, queueVars, systemVars, asks, polls>>

\* ... and the new one takes its place.
Move ==
    /\ at["worker"] = "move" /\ Goto("worker", "settle")
    /\ disk' = disk \cup {video["worker"]}
    /\ UNCHANGED <<textVars, status, frameVars, queueVars, systemVars, asks, polls>>

\* (fault) Success is not written.
SettleRowOnly(v) == status
Settled(v) == [status EXCEPT ![v] = "downloaded"]

Settle ==
    /\ at["worker"] = "settle" /\ status' = Settled(video["worker"])
    /\ Done("worker")
    /\ UNCHANGED <<textVars, disk, frameVars, queueVars, systemVars, asks, polls>>

-----------------------------------------------------------------------------
(* Process death and start-up                                              *)

Crash ==
    /\ up /\ crashes < MaxCrashes /\ crashes' = crashes + 1 /\ up' = FALSE
    /\ torn' = IF at["worker"] \in {"place", "persist"} THEN Torn ELSE torn
    /\ stuck' = IF job = NoJob THEN stuck ELSE stuck \cup {job}
    /\ at' = [t \in Threads |-> "idle"] /\ video' = [t \in Threads |-> NoVideo]
    /\ seen' = [t \in Threads |-> "failed"] /\ job' = NoJob
    /\ asking' = [video |-> NoVideo, seen |-> "failed"]
    /\ UNCHANGED <<textVars, copyVars, frames, images, waiting, asks, polls>>

\* Summaries wait again; videos with a summary and no copy get a row each, unless
\* one is active.  No other row that was running is touched.
Missing == {v \in summarized : status[v] = "not_downloaded" /\ ~Active("download", v)}
Restart ==
    /\ ~up /\ up' = TRUE
    /\ LET again == {j \in stuck : j[1] = "summary"} IN
       /\ stuck' = stuck \ again
       /\ waiting' = SetToSeq(again) \o waiting \o SetToSeq({<<"download", v>> : v \in Missing})
    /\ status' = [v \in Videos |-> IF v \in Missing THEN "queued" ELSE status[v]]
    /\ UNCHANGED <<textVars, disk, frameVars, asking, threadVars, crashes, asks, polls>>

-----------------------------------------------------------------------------

FrameStep == \/ LoadFrames \/ NoFrames \/ Sample
             \/ RemoveImages \/ PlaceImages \/ SwapFails \/ Persist \/ PersistFails
TextStep(t) == Transcribe(t) \/ Summarize(t)
OfferStep(t) == Offer(t) \/ InsertOffer(t)
DownloadStep == LoadVideo \/ DownloadFails \/ Fetched \/ Move \/ Settle
Pipeline(t) == TextStep(t) \/ OfferStep(t)
WorkerStep == Take \/ FrameStep \/ Pipeline("worker") \/ DownloadStep

Next ==
    \/ \E v \in Videos : AskSummary(v) \/ AskVisual(v) \/ AskDownload(v) \/ Poll(v)
    \/ InsertDownload \/ WorkerStep \/ Pipeline("poller") \/ Crash \/ Restart

Spec == Init /\ [][Next]_vars

\* Handlers end, since every call of theirs has a timeout, the process is started
\* again, and the worker goes on.
FairSpec == Spec /\ WF_vars(WorkerStep) /\ WF_vars(Restart)
-----------------------------------------------------------------------------
(* Properties                                                              *)

\* Every variable holds values of its column or of its thread.
TypeOK ==
    /\ fetch \in [Videos -> FetchStatus] /\ status \in [Videos -> CopyStatus]
    /\ summarized \subseteq Videos /\ disk \subseteq Videos
    /\ frames \subseteq Videos /\ torn \subseteq Videos
    /\ images \in [Videos -> {"none", "stored", "newer"}]
    /\ waiting \in Seq(Kinds \X Videos) /\ stuck \subseteq Kinds \X Videos
    /\ asking \in [video : Videos \cup {NoVideo}, seen : CopyStatus]
    /\ at \in [Threads -> Stages] /\ video \in [Threads -> Videos \cup {NoVideo}]
    /\ seen \in [Threads -> CopyStatus] /\ job \in (Kinds \X Videos) \cup {NoJob}
    /\ up \in BOOLEAN

\* A video that is offered to the player is in the storage, while stale sessions ask
\* for it again, downloads replace it or fail, and the process dies in the middle.
PlayableIsThere == \A v \in Videos : Playable(v) => v \in disk

\* Stored frames have the images of the analysis they come from, however many analyses
\* fail, are repeated or die; but not while the worker replaces first the directory and
\* then the rows, nor after a death or a failure in the middle of that, until another
\* analysis of the video comes to its end.
FramesHaveImages ==
    \A v \in Pictured \ torn :
        images[v] = "stored" \/ (Analysed = v /\ at["worker"] \in {"place", "persist"})

\* The pipeline loses no caption on the way to the model and to the reader, and no
\* point.  It is about every text and no state, so TLC is to evaluate it in the first
\* state only.
TextSurvives == Init => TextKept

\* A video that says it waits for its copy gets it or says that it failed, unless a
\* death has left its row running, which nobody puts back.
DownloadEnds ==
    \A v \in Videos : status[v] \in {"queued", "downloading"}
        ~> status[v] \in {"downloaded", "failed"} \/ <<"download", v>> \in stuck
=============================================================================
