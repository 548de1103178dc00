--------------------------- MODULE CollectionProofs ---------------------------
(***************************************************************************)
(* What is collected from outside: the summaries of videos, and the posts  *)
(* of X.  First YouTubeSummary, for any number of videos and documents,    *)
(* process deaths and aborted runs.  Its inductive invariant IInv says who *)
(* holds a video in each state that is reported as being processed, and    *)
(* what the two threads' sessions then know of it: a thread whose session  *)
(* believes the wrong value would write nothing.                           *)
(***************************************************************************)
EXTENDS YouTubeSummary, XCommands, TLAPS

\* The video has been asked for since, or its run is one of those left out.
Owed(v) == asking = v \/ queued[v] > 0 \/ Excused(v)

\* A thread that does something does it to a video, the worker for a row that runs;
\* nobody does anything while the process is down or starts.
ThreadsAgree ==
    /\ \A t \in Threads : IF at[t] = "idle" THEN video[t] = NoVideo ELSE video[t] \in Videos
    /\ \A v \in Videos : video["worker"] = v => running[v] > 0
    /\ system # "up" => asking = NoVideo /\ todo = {} /\ \A t \in Threads : at[t] = "idle"

\* The mark of the start-up has replaced what says that somebody is at work.
MarkedIsClean ==
    system = "marked" => \A v \in Videos :
       /\ fetch[v] = "fetched" => Existing(v) # {}
       /\ \A d \in Slots : doc[v][d] # "processing"

\* A pending video is owed, or a thread will write what becomes of it.
PendingHeld(v) ==
    fetch[v] = "pending" =>
        \/ Owed(v)
        \/ video["worker"] = v /\ at["worker"] \in {"begin", "transcribe"}
        \/ video["poller"] = v /\ at["poller"] = "transcribe" /\ seenFetch["poller"] = "pending"

\* A video that has been fetched has a document or is about to get one.
FetchedHeld(v) ==
    fetch[v] = "fetched" /\ Existing(v) = {} =>
        \/ Owed(v)
        \/ video["worker"] = v /\ at["worker"] = "begin"
        \/ \E t \in Threads : video[t] = v /\ at[t] \in {"persist", "create"}

\* A thread that will write the end of a document that is being processed.
WillEnd(t, v, d) ==
    /\ video[t] = v
    /\ \/ t = "worker" /\ at[t] = "begin"
       \/ at[t] = "persist" /\ (ref[t] = d => seenDoc[t] = "processing")
       \/ at[t] = "summarize" /\ ref[t] = d /\ seenDoc[t] = "processing"

DocumentHeld(v, d) ==
    fetch[v] = "fetched" /\ doc[v][d] = "processing" =>
        Owed(v) \/ \E t \in Threads : WillEnd(t, v, d)

Held(v) == PendingHeld(v) /\ FetchedHeld(v) /\ \A d \in Slots : DocumentHeld(v, d)
AllHeld == system = "up" => \A v \in Videos : Held(v)

\* The worker has made its video pending, and knows of a document it holds that it is
\* being processed, unless somebody has asked again since it looked.
WorkerKnows ==
    /\ at["worker"] = "transcribe" => seenFetch["worker"] = "pending"
    /\ at["worker"] \in {"transcribe", "persist", "summarize"} /\ ref["worker"] \in Slots =>
          /\ doc[video["worker"]][ref["worker"]] # "none"
          /\ doc[video["worker"]][ref["worker"]] = "processing" =>
                seenDoc["worker"] = "processing" \/ Owed(video["worker"])

\* The polling thread has no document before it looks for one.
PollerKnows == at["poller"] \in {"idle", "transcribe", "persist"} => ref["poller"] = NoSlot

\* What the scanner of failed videos has listed is in the table.
Listed == /\ phase = "rest" => todo = {}
          /\ phase = "videos" => \A e \in todo : fetch[e.video] # "none"

IInv == /\ YouTubeSummaryAssumption
        /\ TypeOK /\ ThreadsAgree /\ MarkedIsClean /\ AllHeld /\ WorkerKnows /\ PollerKnows
        /\ Listed

\* An empty table needs nobody.
LEMMA InitInv == YouTubeSummaryAssumption /\ Init => IInv
<1> SUFFICES ASSUME YouTubeSummaryAssumption, Init PROVE IInv
  OBVIOUS
<1>1. TypeOK
  BY DEF Init, TypeOK, FetchStatus, FetchFailures, ParseStatus, Stages, Threads
<1>2. ThreadsAgree BY DEF Init, ThreadsAgree, Threads, YouTubeSummaryAssumption
<1>3. AllHeld /\ MarkedIsClean
  BY DEF Init, AllHeld, Held, PendingHeld, FetchedHeld, DocumentHeld, MarkedIsClean
<1>4. WorkerKnows /\ PollerKnows /\ Listed
  BY DEF Init, WorkerKnows, PollerKnows, Listed, Threads
<1>5. QED BY <1>1, <1>2, <1>3, <1>4 DEF IInv

\* What the rows are left with when a session writes what it knows.
LEMMA PutIs == \A old, seen, new :
    /\ Put(old, seen, new) \in {old, new}
    /\ seen # new => Put(old, seen, new) = new
  BY DEF Put

\* What the statuses are, and which of them a failure writes.
LEMMA Statuses ==
  /\ FetchFailures \subseteq FetchStatus
  /\ {"none", "pending", "fetched", "interrupted"} \subseteq FetchStatus
  /\ \A s \in FetchFailures : s # "pending" /\ s # "fetched" /\ s # "none"
  /\ \A s \in ParseStatus : Parse(s) \in ParseStatus
  /\ \A s \in ParseStatus : Parse(s) = "processing" <=> s = "processing"
  /\ {"none", "processing", "completed", "failed", "interrupted"} = ParseStatus
  BY DEF FetchFailures, FetchStatus, ParseStatus, Parse

\* A query by video finds a document exactly if there is one.
LEMMA FoundIs ==
  ASSUME TypeOK, NEW v \in Videos
  PROVE  /\ \A d \in Found(v) : \/ d = NoSlot /\ Existing(v) = {}
                                \/ d \in Slots /\ doc[v][d] # "none"
         /\ \A d \in Slots : d \in Existing(v) <=> doc[v][d] # "none"
         /\ \A d \in Slots \cup {NoSlot} : ParseOf(v, d) \in ParseStatus
         /\ \A d \in Slots : d # NoSlot => ParseOf(v, d) = Parse(doc[v][d])
  BY Statuses DEF Found, Existing, ParseOf, TypeOK

\* What is owed stays so while documents and excuses do.
LEMMA OwedStays ==
  ASSUME TypeOK, TypeOK', NEW v \in Videos, Owed(v),
         \A d \in Slots : doc[v][d] # "none" => doc'[v][d] # "none",
         queued[v] > 0 => queued'[v] > 0,
         asking = v => asking' = v \/ queued'[v] > 0 \/ v \in joined' \cup aborted',
         v \in joined \cup aborted => v \in joined' \cup aborted' \/ queued'[v] > 0
  PROVE  Owed(v)'
<1>1. \A d \in Existing(v) : d \in Existing(v)' BY FoundIs DEF Existing
<1>2. QED BY <1>1 DEF Owed, Excused

\* A step of somebody else: what it changes it makes pending, and owes.
LEMMA ThreadsStandStill ==
  ASSUME IInv, TypeOK', Listed', system = "up", system' = "up",
         UNCHANGED <<threadVars, running>>,
         \A v \in Videos : Owed(v) => Owed(v)',
         \A v \in Videos : \/ fetch'[v] = fetch[v] /\ doc'[v] = doc[v]
                           \/ /\ fetch'[v] = "pending" /\ Owed(v)'
                              /\ \A d \in Slots : doc[v][d] # "none" => doc'[v][d] # "none"
  PROVE  IInv'
<1> USE DEF threadVars
<1>1. ThreadsAgree' BY DEF IInv, ThreadsAgree
<1>2. MarkedIsClean' BY DEF MarkedIsClean
<1>3. ASSUME NEW v \in Videos PROVE Held(v)'
  <2>1. CASE fetch'[v] = fetch[v] /\ doc'[v] = doc[v]
    <3>1. Held(v) BY DEF IInv, AllHeld
    <3>2. Existing(v)' = Existing(v) BY <2>1 DEF Existing
    <3>3. PendingHeld(v)' BY <2>1, <3>1 DEF Held, PendingHeld
    <3>4. FetchedHeld(v)' BY <2>1, <3>1, <3>2 DEF Held, FetchedHeld
    <3>5. \A d \in Slots : DocumentHeld(v, d)'
      BY <2>1, <3>1 DEF Held, DocumentHeld, WillEnd
    <3>6. QED BY <3>3, <3>4, <3>5 DEF Held
  <2>2. CASE fetch'[v] = "pending" /\ Owed(v)'
    BY <2>2 DEF Held, PendingHeld, FetchedHeld, DocumentHeld
  <2>3. QED BY <2>1, <2>2
<1>4. WorkerKnows'
  <2>1. video["worker"] \in Videos \/ at["worker"] = "idle" BY DEF IInv, ThreadsAgree, Threads
  <2>2. QED BY <2>1 DEF IInv, WorkerKnows
<1>5. PollerKnows' BY DEF IInv, PollerKnows
<1>6. QED BY <1>1, <1>2, <1>3, <1>4, <1>5 DEF IInv, AllHeld

\* A request is put off no more once its row waits, or another row runs for it.
LEMMA EnqueueIs ==
  ASSUME TypeOK, NEW v \in Videos, Enqueue(v)
  PROVE  /\ queued' \in [Videos -> Nat] /\ joined' \subseteq Videos
         /\ queued'[v] > 0 \/ v \in joined'
         /\ \A w \in Videos : queued[w] > 0 => queued'[w] > 0
         /\ \A w \in joined : w \in joined' \/ queued'[w] > 0
<1>1. CASE queued[v] + running[v] = 0
  <2>1. queued' = [queued EXCEPT ![v] = 1] /\ joined' = joined \ {v} BY <1>1 DEF Enqueue
  <2>2. queued \in [Videos -> Nat] /\ joined \subseteq Videos BY DEF TypeOK
  <2>3. queued'[v] = 1 /\ \A w \in Videos : w # v => queued'[w] = queued[w] BY <2>1, <2>2
  <2>4. QED BY <2>1, <2>2, <2>3
<1>2. CASE queued[v] + running[v] # 0 BY <1>2 DEF Enqueue, TypeOK
<1>3. QED BY <1>1, <1>2

\* A request makes the document it finds one that is being processed, if it had failed.
LEMMA ReviveIs ==
  ASSUME TypeOK, NEW v \in Videos, NEW d \in Found(v),
         doc' = IF ParseOf(v, d) = "failed" THEN [doc EXCEPT ![v][d] = "processing"] ELSE doc
  PROVE  /\ doc' \in [Videos -> [Slots -> ParseStatus]]
         /\ \A w \in Videos : w # v => doc'[w] = doc[w]
         /\ \A w \in Videos, e \in Slots : doc[w][e] # "none" => doc'[w][e] # "none"
         /\ d \in Slots /\ ParseOf(v, d) # "failed" => doc'[v][d] = doc[v][d]
<1>1. d \in Slots \/ doc' = doc BY FoundIs DEF ParseOf
<1>2. doc \in [Videos -> [Slots -> ParseStatus]] BY DEF TypeOK
<1>3. CASE ParseOf(v, d) = "failed"
  <2>1. doc' = [doc EXCEPT ![v] = [doc[v] EXCEPT ![d] = "processing"]] BY <1>3
  <2>2. PICK row \in [Slots -> ParseStatus] : row = [doc[v] EXCEPT ![d] = "processing"]
    BY <1>2, Statuses
  <2>3. \A e \in Slots : doc[v][e] # "none" => row[e] # "none" BY <1>2, <2>2
  <2>4. QED BY <1>2, <1>3, <2>1, <2>2, <2>3
<1>4. CASE ParseOf(v, d) # "failed" BY <1>2, <1>4
<1>5. QED BY <1>3, <1>4

\* A video that is made pending by a request is owed until the request ends.
LEMMA AskStep ==
  ASSUME IInv, NEW v \in Videos, Ask(v)
  PROVE  IInv'
<1>1. TypeOK BY DEF IInv
<1>2. PICK d \in Found(v) :
         doc' = IF ParseOf(v, d) = "failed" THEN [doc EXCEPT ![v][d] = "processing"] ELSE doc
  BY DEF Ask
<1>4. /\ doc' \in [Videos -> [Slots -> ParseStatus]]
      /\ \A w \in Videos : w # v => doc'[w] = doc[w]
      /\ \A w \in Videos, e \in Slots : doc[w][e] # "none" => doc'[w][e] # "none"
  BY <1>1, <1>2, ReviveIs
<1>5. /\ fetch' = [fetch EXCEPT ![v] = "pending"] /\ asking' = v /\ asking = NoVideo
      /\ system = "up" /\ system' = "up"
      /\ UNCHANGED <<queued, running, joined, threadVars, pollVars, systemVars, abortVars>>
  BY DEF Ask, systemVars
<1>6. TypeOK'
  BY <1>1, <1>4, <1>5, Statuses DEF TypeOK, threadVars, pollVars, systemVars, abortVars
<1>7. \A w \in Videos : Owed(w) => Owed(w)'
  BY <1>1, <1>4, <1>5, <1>6, OwedStays DEF IInv, YouTubeSummaryAssumption, abortVars
<1>8. Owed(v)' BY <1>5 DEF Owed
<1>9. Listed' BY <1>1, <1>5 DEF IInv, Listed, pollVars, TypeOK
<1>10. QED BY <1>1, <1>4, <1>5, <1>6, <1>7, <1>8, <1>9, ThreadsStandStill DEF TypeOK

\* The request leaves a row behind, or has been answered by one that runs.
LEMMA SubmitStep ==
  ASSUME IInv, Submit
  PROVE  IInv'
<1>1. TypeOK BY DEF IInv
<1>2. /\ asking \in Videos /\ Enqueue(asking) /\ asking' = NoVideo
      /\ system = "up" /\ system' = "up"
      /\ UNCHANGED <<rowVars, running, threadVars, pollVars, systemVars, abortVars>>
  BY <1>1 DEF Submit, TypeOK, systemVars
<1>3. /\ queued' \in [Videos -> Nat] /\ joined' \subseteq Videos
      /\ queued'[asking] > 0 \/ asking \in joined'
      /\ \A w \in Videos : queued[w] > 0 => queued'[w] > 0
      /\ \A w \in joined : w \in joined' \/ queued'[w] > 0
  BY <1>1, <1>2, EnqueueIs
<1>4. TypeOK'
  BY <1>1, <1>2, <1>3 DEF TypeOK, rowVars, threadVars, pollVars, systemVars, abortVars
<1>5. \A w \in Videos : Owed(w) => Owed(w)'
  BY <1>1, <1>2, <1>3, <1>4, OwedStays DEF rowVars, abortVars
<1>6. Listed' BY <1>2 DEF IInv, Listed, pollVars, rowVars
<1>7. QED BY <1>2, <1>4, <1>5, <1>6, ThreadsStandStill DEF rowVars

\* A discovered video is committed with its row.
LEMMA DiscoverStep ==
  ASSUME IInv, NEW v \in Videos, Discover(v)
  PROVE  IInv'
<1>1. TypeOK BY DEF IInv
<1>2. /\ Enqueue(v) /\ fetch' = [fetch EXCEPT ![v] = "pending"]
      /\ system = "up" /\ system' = "up"
      /\ UNCHANGED <<doc, running, asking, threadVars, pollVars, systemVars, abortVars>>
  BY DEF Discover, systemVars
<1>3. /\ queued' \in [Videos -> Nat] /\ joined' \subseteq Videos
      /\ queued'[v] > 0 \/ v \in joined'
      /\ \A w \in Videos : queued[w] > 0 => queued'[w] > 0
      /\ \A w \in joined : w \in joined' \/ queued'[w] > 0
  BY <1>1, <1>2, EnqueueIs
<1>4. TypeOK'
  BY <1>1, <1>2, <1>3, Statuses DEF TypeOK, threadVars, pollVars, systemVars, abortVars
<1>5. \A w \in Videos : Owed(w) => Owed(w)'
  BY <1>1, <1>2, <1>3, <1>4, OwedStays DEF abortVars
<1>6. Owed(v)' BY <1>3 DEF Owed, Excused
<1>7. Listed' BY <1>1, <1>2 DEF IInv, Listed, pollVars, TypeOK
<1>8. QED BY <1>1, <1>2, <1>4, <1>5, <1>6, <1>7, ThreadsStandStill DEF TypeOK

\* The polling thread lists what it will take up.
LEMMA ListStep ==
  ASSUME IInv, ListNew \/ ListFailedDocs \/ ListFailedVideos \/ EndTick
  PROVE  IInv'
<1>1. TypeOK BY DEF IInv
<1>2. /\ system = "up" /\ system' = "up"
      /\ UNCHANGED <<rowVars, jobVars, threadVars, systemVars, abortVars>>
  BY DEF ListNew, ListFailedDocs, ListFailedVideos, List, EndTick, systemVars
<1>3. /\ phase' \in {"rest", "new", "docs", "videos"}
      /\ todo' \subseteq [video : Videos, fetch : FetchStatus, slot : Slots \cup {NoSlot}]
  <2>1. CASE ListNew BY <1>1, <2>1, Statuses DEF ListNew, List, Entry, TypeOK
  <2>2. CASE ListFailedDocs BY <1>1, <2>2, Statuses DEF ListFailedDocs, List, Entry, TypeOK
  <2>3. CASE ListFailedVideos BY <1>1, <2>3 DEF ListFailedVideos, List, Entry, TypeOK
  <2>4. CASE EndTick BY <1>1, <2>4 DEF EndTick, TypeOK
  <2>5. QED BY <2>1, <2>2, <2>3, <2>4
<1>4. TypeOK'
  BY <1>1, <1>2, <1>3 DEF TypeOK, rowVars, jobVars, threadVars, systemVars, abortVars
<1>5. \A w \in Videos : Owed(w) => Owed(w)'
  BY <1>2 DEF Owed, Excused, Existing, rowVars, jobVars, abortVars
<1>6. Listed'
  BY <1>2
     DEF IInv, Listed, ListNew, ListFailedDocs, ListFailedVideos, List, EndTick, Entry, rowVars
<1>7. QED BY <1>2, <1>4, <1>5, <1>6, ThreadsStandStill DEF rowVars, jobVars

-----------------------------------------------------------------------------
(* A thread's step                                                         *)

Same(u) == /\ at'[u] = at[u] /\ video'[u] = video[u] /\ ref'[u] = ref[u]
           /\ seenFetch'[u] = seenFetch[u] /\ seenDoc'[u] = seenDoc[u]

\* One thread begins, goes on with or ends one video: what matters is that video.
LEMMA OneThreadMoves ==
  ASSUME IInv, NEW t \in Threads, NEW v \in Videos, system = "up", system' = "up",
         video[t] \in {v, NoVideo}, video'[t] \in {v, NoVideo},
         \A u \in Threads : u # t => Same(u),
         \A w \in Videos : w # v => /\ fetch'[w] = fetch[w] /\ doc'[w] = doc[w]
                                    /\ Owed(w) => Owed(w)',
         Held(v)'
  PROVE  AllHeld'
<1>1. ASSUME NEW w \in Videos, w # v PROVE Held(w)'
  <2>1. Held(w) BY DEF IInv, AllHeld
  <2>2. w # NoVideo BY DEF IInv, YouTubeSummaryAssumption
  <2>3. \A u \in Threads : video[u] = w => u # t /\ Same(u) BY <1>1, <2>2
  <2>4. Existing(w)' = Existing(w) BY <1>1 DEF Existing
  <2>5. PendingHeld(w)' BY <1>1, <2>1, <2>3 DEF Held, PendingHeld, Same, Threads
  <2>6. FetchedHeld(w)' BY <1>1, <2>1, <2>3, <2>4 DEF Held, FetchedHeld, Same, Threads
  <2>7. \A d \in Slots : DocumentHeld(w, d)'
    BY <1>1, <2>1, <2>3 DEF Held, DocumentHeld, WillEnd, Same
  <2>8. QED BY <2>5, <2>6, <2>7 DEF Held
<1>2. QED BY <1>1 DEF AllHeld

\* What the worker knows stays true when the other thread writes no document of its own
\* back to being processed.
LEMMA WorkerStays ==
  ASSUME IInv, Same("worker"),
         \A w \in Videos : Owed(w) => Owed(w)',
         \A w \in Videos, d \in Slots :
            doc[w][d] # "none" => /\ doc'[w][d] # "none"
                                  /\ doc'[w][d] = "processing" => doc[w][d] = "processing"
  PROVE  WorkerKnows'
<1>1. at["worker"] = "idle" \/ video["worker"] \in Videos BY DEF IInv, ThreadsAgree, Threads
<1>2. WorkerKnows BY DEF IInv
<1>3. QED BY <1>1, <1>2 DEF WorkerKnows, Same

\* A thread at work holds a video of a process that is up.
LEMMA AtWork ==
  ASSUME IInv, NEW t \in Threads, at[t] # "idle"
  PROVE  /\ video[t] \in Videos /\ system = "up" /\ TypeOK /\ Held(video[t])
         /\ ref[t] \in Slots \cup {NoSlot}
         /\ video["worker"] \in Videos => running[video["worker"]] > 0
         /\ NoVideo \notin Videos /\ NoSlot \notin Slots
  BY DEF IInv, ThreadsAgree, AllHeld, TypeOK, YouTubeSummaryAssumption

\* The rest of the invariant when a thread goes on with its video.
LEMMA GoesOn ==
  ASSUME IInv, TypeOK', NEW t \in Threads, at[t] # "idle", at'[t] # "idle",
         \A u \in Threads : u # t => Same(u),
         UNCHANGED <<jobVars, video, pollVars, systemVars, abortVars>>,
         \A v \in Videos : v # video[t] => fetch'[v] = fetch[v] /\ doc'[v] = doc[v],
         \A v \in Videos : fetch[v] # "none" => fetch'[v] # "none",
         \A d \in Slots : doc[video[t]][d] # "none" => doc'[video[t]][d] # "none",
         (Owed(video[t]) => Owed(video[t])') => Held(video[t])',
         WorkerKnows', PollerKnows'
  PROVE  IInv'
<1>1. /\ system = "up" /\ video[t] \in Videos /\ video'[t] = video[t] /\ TypeOK
      /\ system' = "up"
  BY AtWork DEF systemVars
<1>2. \A v \in Videos, d \in Slots : doc[v][d] # "none" => doc'[v][d] # "none"
  BY <1>1
<1>3. \A v \in Videos : Owed(v) => Owed(v)'
  BY <1>1, <1>2, OwedStays DEF jobVars, abortVars
<1>4. Held(video[t])' BY <1>1, <1>3
<1>5. \A v \in Videos : v # video[t] => /\ fetch'[v] = fetch[v] /\ doc'[v] = doc[v]
                                        /\ Owed(v) => Owed(v)'
  BY <1>3
<1>6. AllHeld'
  <2>1. PICK v \in Videos : v = video[t] BY <1>1
  <2>2. Held(v)' BY <1>1, <1>4, <2>1
  <2>3. QED BY <1>1, <1>5, <2>1, <2>2, OneThreadMoves
<1>7. ThreadsAgree'
  BY <1>1 DEF IInv, ThreadsAgree, Same, jobVars, systemVars, pollVars
<1>8. Listed'
  BY <1>1 DEF IInv, Listed, pollVars, TypeOK
<1>9. MarkedIsClean' BY <1>1 DEF MarkedIsClean
<1>10. QED BY <1>6, <1>7, <1>8, <1>9 DEF IInv

\* The pipeline has a transcript, or gives up.
LEMMA TranscriptStep ==
  ASSUME IInv, NEW t \in Threads, NEW s \in FetchFailures \cup {"fetched"}, at[t] = "transcribe",
         PutFetch(t, s), Goto(t, IF s = "fetched" THEN "persist" ELSE "done"),
         UNCHANGED <<doc, jobVars, video, ref, seenDoc, pollVars, systemVars, abortVars>>
  PROVE  IInv'
<1>1. PICK v \in Videos : v = video[t] BY AtWork
<1>2. /\ TypeOK /\ Held(v) /\ ref[t] \in Slots \cup {NoSlot}
      /\ NoSlot \notin Slots /\ system = "up"
  BY <1>1, AtWork
<1>3. PICK f : f = Put(fetch[v], seenFetch[t], s) OBVIOUS
<1>4. /\ f \in {fetch[v], s} /\ s \in FetchStatus
      /\ s # "pending" /\ s # "none"
      /\ seenFetch[t] = "pending" => f = s
  BY <1>3, PutIs, Statuses
<1>5. /\ fetch' = [fetch EXCEPT ![v] = f] /\ seenFetch' = [seenFetch EXCEPT ![t] = s]
      /\ at' = [at EXCEPT ![t] = IF s = "fetched" THEN "persist" ELSE "done"]
  BY <1>1, <1>3 DEF PutFetch, Goto
<1>6. TypeOK'
  BY <1>2, <1>4, <1>5
     DEF TypeOK, jobVars, pollVars, systemVars, abortVars, Stages
<1>7. /\ fetch'[v] = f /\ \A w \in Videos : w # v => fetch'[w] = fetch[w]
      /\ at'[t] = (IF s = "fetched" THEN "persist" ELSE "done")
      /\ \A u \in Threads : u # t => Same(u)
      /\ Existing(v)' = Existing(v)
  BY <1>2, <1>5 DEF TypeOK, Same, Existing
<1>8. \A w \in Videos : Owed(w) => Owed(w)'
  BY DEF Owed, Excused, Existing, jobVars, abortVars
<1>9. video' = video /\ ref' = ref /\ seenDoc' = seenDoc /\ doc' = doc OBVIOUS
<1>10. t = "worker" => seenFetch[t] = "pending" BY DEF IInv, WorkerKnows
<1>11. t = "worker" \/ t = "poller" BY DEF Threads
<1>12. Held(v)'
  <2>1. PendingHeld(v)'
    <3>1. SUFFICES ASSUME f = "pending" PROVE PendingHeld(v)' BY <1>7 DEF PendingHeld
    <3>2. fetch[v] = "pending" /\ seenFetch[t] # "pending" BY <1>4, <3>1
    <3>3. PendingHeld(v) BY <1>2 DEF Held
    <3>4. QED BY <1>7, <1>8, <1>10, <1>11, <3>2, <3>3 DEF PendingHeld, Same, Threads
  <2>2. FetchedHeld(v)'
    <3>1. CASE s = "fetched" BY <1>1, <1>7, <1>9, <3>1 DEF FetchedHeld
    <3>2. CASE s # "fetched"
      <4>1. f = "fetched" => fetch[v] = "fetched" BY <1>4, <3>2
      <4>2. FetchedHeld(v) BY <1>2 DEF Held
      <4>3. QED BY <1>7, <1>8, <4>1, <4>2 DEF FetchedHeld, Same, Threads
    <3>3. QED BY <3>1, <3>2
  <2>3. ASSUME NEW d \in Slots PROVE DocumentHeld(v, d)'
    <3>1. CASE s = "fetched"
      <4>1. SUFFICES ASSUME doc[v][d] = "processing" PROVE Owed(v)' \/ WillEnd(t, v, d)'
        BY <1>9 DEF DocumentHeld
      <4>2. CASE t = "worker"
        BY <1>1, <1>7, <1>8, <1>9, <3>1, <4>1, <4>2 DEF IInv, WorkerKnows, WillEnd
      <4>3. CASE t = "poller"
        BY <1>1, <1>2, <1>7, <1>9, <3>1, <4>1, <4>3 DEF IInv, PollerKnows, WillEnd
      <4>4. QED BY <1>11, <4>2, <4>3
    <3>2. CASE s # "fetched"
      <4>1. f = "fetched" => fetch[v] = "fetched" BY <1>4, <3>2
      <4>2. DocumentHeld(v, d) BY <1>2 DEF Held
      <4>3. \A u \in Threads : WillEnd(u, v, d) => u # t BY DEF WillEnd
      <4>4. QED BY <1>7, <1>8, <1>9, <4>1, <4>2, <4>3 DEF DocumentHeld, WillEnd, Same
    <3>3. QED BY <3>1, <3>2
  <2>4. QED BY <2>1, <2>2, <2>3 DEF Held
<1>13. WorkerKnows'
  <2>1. CASE t = "worker" BY <1>1, <1>7, <1>8, <1>9, <2>1 DEF IInv, WorkerKnows
  <2>2. CASE t # "worker" BY <1>7, <1>8, <1>9, <2>2, WorkerStays DEF Threads
  <2>3. QED BY <2>1, <2>2
<1>14. PollerKnows' BY <1>7, <1>9, <1>11 DEF IInv, PollerKnows, Same, Threads
<1>15. \A w \in Videos : fetch[w] # "none" => fetch'[w] # "none" BY <1>4, <1>7
<1>16. QED
  BY <1>1, <1>6, <1>7, <1>9, <1>12, <1>13, <1>14, <1>15, GoesOn

\* Nobody writes to the tables: what others hold they go on holding.
LEMMA FindStep ==
  ASSUME IInv, NEW t \in Threads, FindDocument(t)
  PROVE  IInv'
<1>1. PICK v \in Videos : v = video[t] BY AtWork DEF FindDocument
<1>2. /\ TypeOK /\ Held(v) /\ ref[t] \in Slots \cup {NoSlot} /\ at[t] = "persist"
      /\ NoSlot \notin Slots /\ system = "up"
  BY <1>1, AtWork DEF FindDocument
<1>3. UNCHANGED <<rowVars, jobVars, video, seenFetch, pollVars, systemVars, abortVars>>
  BY DEF FindDocument
<1>4. /\ fetch' = fetch /\ doc' = doc /\ video' = video /\ seenFetch' = seenFetch
      /\ Existing(v)' = Existing(v)
  BY <1>3 DEF rowVars, Existing
<1>5. PICK d \in Found(v) :
          IF d = NoSlot
          THEN Goto(t, "create") /\ UNCHANGED <<ref, seenDoc>>
          ELSE /\ Goto(t, "summarize")
               /\ ref' = [ref EXCEPT ![t] = d]
               /\ seenDoc' = [seenDoc EXCEPT ![t] =
                                 IF d = ref[t] THEN @ ELSE ParseOf(v, d)]
  BY <1>1 DEF FindDocument
<1>6. \/ d = NoSlot /\ Existing(v) = {}
      \/ d \in Slots /\ doc[v][d] # "none" /\ d \in Existing(v)
  BY <1>2, FoundIs
<1>7. ParseOf(v, d) \in ParseStatus /\ (d \in Slots => ParseOf(v, d) = Parse(doc[v][d]))
  BY <1>2, <1>6, FoundIs
<1>8. \A u \in Threads : u # t => Same(u)
  BY <1>2, <1>4, <1>5 DEF Same, TypeOK, Goto
<1>9. \A w \in Videos : Owed(w) => Owed(w)'
  BY <1>3 DEF Owed, Excused, Existing, jobVars, abortVars, rowVars
<1>10. TypeOK'
  <2>1. at' \in [Threads -> Stages] BY <1>2, <1>5 DEF TypeOK, Goto, Stages
  <2>2. ref' \in [Threads -> Slots \cup {NoSlot}] BY <1>2, <1>5, <1>6 DEF TypeOK
  <2>3. seenDoc' \in [Threads -> ParseStatus] BY <1>2, <1>5, <1>7 DEF TypeOK
  <2>4. QED
    BY <1>2, <1>3, <2>1, <2>2, <2>3 DEF TypeOK, rowVars, jobVars, pollVars, systemVars, abortVars
<1>11. at'[t] # "idle" /\ PendingHeld(v)'
  <2>1. at'[t] = "create" \/ at'[t] = "summarize" BY <1>2, <1>5 DEF Goto, TypeOK
  <2>2. PendingHeld(v) BY <1>2 DEF Held
  <2>3. QED BY <1>2, <1>4, <1>8, <1>9, <2>1, <2>2 DEF PendingHeld, Same, Threads
<1>12. CASE d = NoSlot
  <2>1. at'[t] = "create" /\ ref' = ref /\ Existing(v) = {}
    BY <1>2, <1>5, <1>6, <1>12 DEF Goto, TypeOK
  <2>2. \A e \in Slots : doc[v][e] = "none" BY <1>2, <2>1, FoundIs
  <2>3. Held(v)'
    BY <1>1, <1>4, <1>11, <2>1, <2>2 DEF Held, FetchedHeld, DocumentHeld
  <2>4. WorkerKnows'
    <3>1. CASE t = "worker" BY <2>1, <3>1 DEF WorkerKnows
    <3>2. CASE t # "worker" BY <1>4, <1>8, <1>9, <3>2, WorkerStays DEF Threads
    <3>3. QED BY <3>1, <3>2
  <2>5. PollerKnows' BY <1>8, <2>1 DEF IInv, PollerKnows, Same, Threads
  <2>6. QED
    BY <1>1, <1>2, <1>3, <1>4, <1>8, <1>10, <1>11, <2>3, <2>4, <2>5, GoesOn
<1>13. CASE d \in Slots
  <2>1. /\ at'[t] = "summarize" /\ ref'[t] = d
        /\ seenDoc'[t] = (IF d = ref[t] THEN seenDoc[t] ELSE Parse(doc[v][d]))
        /\ d \in Existing(v)
    BY <1>2, <1>5, <1>6, <1>7, <1>13 DEF Goto, TypeOK
  <2>2. doc[v][d] = "processing" => Parse(doc[v][d]) = "processing" BY DEF Parse
  <2>3. ASSUME NEW e \in Slots PROVE DocumentHeld(v, e)'
    <3>1. SUFFICES ASSUME fetch[v] = "fetched", doc[v][e] = "processing"
                   PROVE  Owed(v)' \/ \E u \in Threads : WillEnd(u, v, e)'
      BY <1>4 DEF DocumentHeld
    <3>2. CASE e # d
      <4>1. e \in Existing(v) BY <1>2, <3>1, FoundIs
      <4>2. QED BY <1>4, <2>1, <3>2, <4>1 DEF Owed, Excused
    <3>3. CASE e = d /\ d # ref[t] BY <1>1, <1>4, <2>1, <2>2, <3>1, <3>3 DEF WillEnd
    <3>4. CASE e = d /\ d = ref[t]
      <4>1. DocumentHeld(v, e) BY <1>2 DEF Held
      <4>2. Owed(v) \/ \E u \in Threads : WillEnd(u, v, e) BY <3>1, <4>1 DEF DocumentHeld
      <4>3. WillEnd(t, v, e) => WillEnd(t, v, e)'
        BY <1>1, <1>2, <1>4, <2>1, <3>4 DEF WillEnd
      <4>4. \A u \in Threads : u # t /\ WillEnd(u, v, e) => WillEnd(u, v, e)'
        BY <1>8 DEF WillEnd, Same
      <4>5. QED BY <1>9, <4>2, <4>3, <4>4
    <3>5. QED BY <3>2, <3>3, <3>4
  <2>4. Held(v)' BY <1>4, <1>11, <2>1, <2>3 DEF Held, FetchedHeld
  <2>5. WorkerKnows'
    <3>1. CASE t = "worker"
      BY <1>1, <1>2, <1>4, <1>6, <1>9, <1>13, <2>1, <2>2, <3>1 DEF IInv, WorkerKnows
    <3>2. CASE t # "worker" BY <1>4, <1>8, <1>9, <3>2, WorkerStays DEF Threads
    <3>3. QED BY <3>1, <3>2
  <2>6. PollerKnows' BY <1>8, <2>1 DEF IInv, PollerKnows, Same, Threads
  <2>7. QED
    BY <1>1, <1>2, <1>3, <1>4, <1>8, <1>10, <1>11, <2>4, <2>5, <2>6, GoesOn
<1>14. QED BY <1>6, <1>12, <1>13

\* A second document of a video excuses it, the first one has its thread.
LEMMA CreateStep ==
  ASSUME IInv, NEW t \in Threads, CreateDocument(t)
  PROVE  IInv'
<1>1. PICK v \in Videos : v = video[t] BY AtWork DEF CreateDocument
<1>2. /\ TypeOK /\ Held(v) /\ at[t] = "create" /\ NoSlot \notin Slots /\ system = "up"
  BY <1>1, AtWork DEF CreateDocument
<1>3. UNCHANGED <<fetch, jobVars, video, seenFetch, pollVars, systemVars, abortVars>>
  BY DEF CreateDocument
<1>4. PICK d \in Slots \ Existing(v) : /\ doc' = [doc EXCEPT ![v][d] = "processing"]
                                       /\ ref' = [ref EXCEPT ![t] = d]
  BY <1>1 DEF CreateDocument
<1>5. PICK row : row = [doc[v] EXCEPT ![d] = "processing"] OBVIOUS
<1>6. doc' = [doc EXCEPT ![v] = row] BY <1>4, <1>5
<1>7. /\ doc[v] \in [Slots -> ParseStatus] /\ doc[v][d] = "none"
      /\ row \in [Slots -> ParseStatus] /\ row[d] = "processing"
      /\ \A e \in Slots : e # d => row[e] = doc[v][e]
  BY <1>2, <1>4, <1>5, Statuses DEF TypeOK, Existing
<1>8. doc'[v] = row /\ \A w \in Videos : w # v => doc'[w] = doc[w]
  BY <1>2, <1>6 DEF TypeOK
<1>9. /\ seenDoc' = [seenDoc EXCEPT ![t] = "processing"] /\ at' = [at EXCEPT ![t] = "summarize"]
  BY DEF CreateDocument, Goto
<1>10. TypeOK'
  <2>1. doc' \in [Videos -> [Slots -> ParseStatus]] BY <1>2, <1>6, <1>7 DEF TypeOK
  <2>2. QED
    BY <1>2, <1>3, <1>4, <1>9, <2>1, Statuses
       DEF TypeOK, jobVars, pollVars, systemVars, abortVars, Stages
<1>11. /\ at'[t] = "summarize" /\ ref'[t] = d /\ seenDoc'[t] = "processing"
       /\ \A u \in Threads : u # t => Same(u)
  BY <1>2, <1>3, <1>4, <1>9 DEF TypeOK, Same
<1>12. \A w \in Videos, e \in Slots : doc[w][e] # "none" => doc'[w][e] = doc[w][e]
  BY <1>7, <1>8
<1>13. \A w \in Videos : Owed(w) => Owed(w)'
  BY <1>2, <1>3, <1>10, <1>12, OwedStays DEF jobVars, abortVars
<1>14. Held(v)'
  <2>1. PendingHeld(v)'
    <3>1. PendingHeld(v) BY <1>2 DEF Held
    <3>2. QED BY <1>2, <1>3, <1>11, <1>13, <3>1 DEF PendingHeld, Same, Threads
  <2>2. d \in Existing(v)' BY <1>7, <1>8 DEF Existing
  <2>3. ASSUME NEW e \in Slots PROVE DocumentHeld(v, e)'
    <3>1. CASE e = d BY <1>1, <1>3, <1>11, <3>1 DEF DocumentHeld, WillEnd
    <3>2. CASE e # d
      <4>1. doc'[v][e] = "processing" => e \in Existing(v)' BY DEF Existing
      <4>2. QED BY <2>2, <3>2, <4>1 DEF DocumentHeld, Owed, Excused
    <3>3. QED BY <3>1, <3>2
  <2>4. QED BY <2>1, <2>2, <2>3 DEF Held, FetchedHeld
<1>15. WorkerKnows'
  <2>1. CASE t = "worker" BY <1>1, <1>3, <1>4, <1>7, <1>8, <1>11, <2>1 DEF WorkerKnows
  <2>2. CASE t # "worker" BY <1>11, <1>12, <1>13, <2>2, WorkerStays DEF Threads
  <2>3. QED BY <2>1, <2>2
<1>16. PollerKnows' BY <1>11 DEF IInv, PollerKnows, Same, Threads
<1>17. QED
  BY <1>1, <1>2, <1>3, <1>8, <1>10, <1>11, <1>12, <1>14, <1>15, <1>16, GoesOn

\* The pipeline writes how it ended to the document it holds, if its session knows that
\* this is new.
LEMMA SummaryStep ==
  ASSUME IInv, NEW t \in Threads, NEW s \in {"completed", "failed"}, at[t] = "summarize",
         PutDoc(t, s), Goto(t, "done"),
         UNCHANGED <<fetch, jobVars, video, ref, seenFetch, pollVars, systemVars, abortVars>>
  PROVE  IInv'
<1>1. PICK v \in Videos : v = video[t] BY AtWork
<1>2. /\ TypeOK /\ Held(v) /\ ref[t] \in Slots \cup {NoSlot} /\ NoSlot \notin Slots
      /\ system = "up"
  BY <1>1, AtWork
<1>3. PICK d : d = ref[t] OBVIOUS
<1>4. PICK f : f = Put(doc[v][d], seenDoc[t], s) OBVIOUS
<1>5. f \in {doc[v][d], s} /\ (seenDoc[t] = "processing" => f = s) /\ s \in ParseStatus
  BY <1>4, PutIs, Statuses
<1>6. PICK row : row = [doc[v] EXCEPT ![d] = f] OBVIOUS
<1>7. doc' = [doc EXCEPT ![v] = row] BY <1>1, <1>3, <1>4, <1>6 DEF PutDoc
<1>8. /\ doc[v] \in [Slots -> ParseStatus] /\ row \in [Slots -> ParseStatus]
      /\ d \in Slots => row[d] = f
      /\ \A e \in Slots : e # d => row[e] = doc[v][e]
  <2>1. doc[v] \in [Slots -> ParseStatus] BY <1>2 DEF TypeOK
  <2>2. d \in Slots => f \in ParseStatus BY <1>5, <2>1
  <2>3. row \in [Slots -> ParseStatus] BY <1>6, <2>1, <2>2
  <2>4. QED BY <1>6, <2>1, <2>3
<1>9. doc'[v] = row /\ \A w \in Videos : w # v => doc'[w] = doc[w]
  BY <1>2, <1>7 DEF TypeOK
<1>10. seenDoc' = [seenDoc EXCEPT ![t] = s] /\ at' = [at EXCEPT ![t] = "done"]
  BY DEF PutDoc, Goto
<1>11. TypeOK'
  <2>1. doc' \in [Videos -> [Slots -> ParseStatus]] BY <1>2, <1>7, <1>8 DEF TypeOK
  <2>2. QED
    BY <1>2, <1>5, <1>10, <2>1
       DEF TypeOK, jobVars, pollVars, systemVars, abortVars, Stages
<1>12. /\ at'[t] = "done" /\ \A u \in Threads : u # t => Same(u)
  BY <1>2, <1>10 DEF TypeOK, Same
<1>13. \A w \in Videos, e \in Slots :
          doc[w][e] # "none" => /\ doc'[w][e] # "none"
                                /\ doc'[w][e] = "processing" => doc[w][e] = "processing"
  BY <1>5, <1>8, <1>9
<1>14. \A w \in Videos : Owed(w) => Owed(w)'
  BY <1>2, <1>11, <1>13, OwedStays DEF jobVars, abortVars
<1>15. video' = video /\ fetch' = fetch OBVIOUS
<1>16. Held(v)'
  <2>1. PendingHeld(v)'
    <3>1. PendingHeld(v) BY <1>2 DEF Held
    <3>2. QED BY <1>12, <1>14, <1>15, <3>1 DEF PendingHeld, Same, Threads
  <2>2. FetchedHeld(v)'
    <3>1. FetchedHeld(v) BY <1>2 DEF Held
    <3>2. Existing(v)' = {} => Existing(v) = {} BY <1>13 DEF Existing
    <3>3. QED BY <1>12, <1>14, <1>15, <3>1, <3>2 DEF FetchedHeld, Same, Threads
  <2>3. ASSUME NEW e \in Slots PROVE DocumentHeld(v, e)'
    <3>1. SUFFICES ASSUME fetch[v] = "fetched", doc'[v][e] = "processing"
                   PROVE  Owed(v)' \/ \E u \in Threads : WillEnd(u, v, e)'
      BY <1>15 DEF DocumentHeld
    <3>2. doc[v][e] = "processing" /\ (e = d => seenDoc[t] # "processing")
      BY <1>5, <1>8, <1>9, <3>1
    <3>3. DocumentHeld(v, e) BY <1>2 DEF Held
    <3>4. Owed(v) \/ \E u \in Threads : WillEnd(u, v, e) BY <3>1, <3>2, <3>3 DEF DocumentHeld
    <3>5. ~WillEnd(t, v, e) BY <1>3, <3>2 DEF WillEnd
    <3>6. \A u \in Threads : u # t /\ WillEnd(u, v, e) => WillEnd(u, v, e)'
      BY <1>12 DEF WillEnd, Same
    <3>7. QED BY <1>14, <3>4, <3>5, <3>6
  <2>4. QED BY <2>1, <2>2, <2>3 DEF Held
<1>17. WorkerKnows'
  <2>1. CASE t = "worker" BY <1>12, <2>1 DEF WorkerKnows
  <2>2. CASE t # "worker" BY <1>12, <1>13, <1>14, <2>2, WorkerStays DEF Threads
  <2>3. QED BY <2>1, <2>2
<1>18. PollerKnows' BY <1>12 DEF IInv, PollerKnows, Same, Threads
<1>19. \A e \in Slots : doc[video[t]][e] # "none" => doc'[video[t]][e] # "none"
  BY <1>1, <1>13
<1>20. at[t] # "idle" /\ at'[t] # "idle" BY <1>12
<1>21. QED
  BY <1>1, <1>9, <1>11, <1>12, <1>15, <1>16, <1>17, <1>18, <1>19, <1>20, GoesOn

\* The worker makes its video pending and knows what it has written.
LEMMA BeginJobStep ==
  ASSUME IInv, BeginJob
  PROVE  IInv'
<1>1. PICK t \in Threads : t = "worker" BY DEF Threads
<1>2. PICK v \in Videos : v = video[t] BY <1>1, AtWork DEF BeginJob
<1>3. TypeOK /\ Held(v) /\ at[t] = "begin" /\ NoSlot \notin Slots /\ system = "up"
  BY <1>1, <1>2, AtWork DEF BeginJob
<1>4. UNCHANGED <<jobVars, video, todo, phase, systemVars, abortVars>> BY DEF BeginJob
<1>5. UNCHANGED <<jobVars, video, pollVars, systemVars, abortVars>> BY <1>4 DEF pollVars
<1>6. CASE fetch[v] = "access_denied" /\ at' = [at EXCEPT ![t] = "done"]
           /\ UNCHANGED <<rowVars, ref, seenFetch, seenDoc>>
  <2>1. at'[t] = "done" /\ fetch' = fetch /\ doc' = doc /\ \A u \in Threads : u # t => Same(u)
    BY <1>3, <1>5, <1>6 DEF TypeOK, Same, rowVars
  <2>2. TypeOK'
    BY <1>3, <1>5, <1>6
       DEF TypeOK, Stages, rowVars, jobVars, pollVars, systemVars, abortVars
  <2>3. Held(v)' BY <1>6, <2>1 DEF Held, PendingHeld, FetchedHeld, DocumentHeld
  <2>4. WorkerKnows' BY <1>1, <2>1 DEF WorkerKnows
  <2>5. PollerKnows' BY <1>1, <2>1 DEF IInv, PollerKnows, Same, Threads
  <2>6. QED BY <1>2, <1>3, <1>5, <2>1, <2>2, <2>3, <2>4, <2>5, GoesOn
<1>7. CASE fetch[v] # "access_denied" /\ at' = [at EXCEPT ![t] = "transcribe"]
  <2>1. /\ fetch' = [fetch EXCEPT ![v] = "pending"]
        /\ seenFetch' = [seenFetch EXCEPT ![t] = "pending"]
        /\ \E d \in Found(v) :
              LET failed == ParseOf(v, d) = "failed" IN
              /\ ref' = [ref EXCEPT ![t] = d]
              /\ seenDoc' = [seenDoc EXCEPT ![t] = IF failed THEN "processing" ELSE ParseOf(v, d)]
              /\ doc' = IF failed THEN [doc EXCEPT ![v][d] = "processing"] ELSE doc
    BY <1>1, <1>2, <1>7 DEF BeginJob
  <2>2. PICK d \in Found(v) :
           /\ ref' = [ref EXCEPT ![t] = d]
           /\ seenDoc' = [seenDoc EXCEPT ![t] =
                             IF ParseOf(v, d) = "failed" THEN "processing" ELSE ParseOf(v, d)]
           /\ doc' = IF ParseOf(v, d) = "failed" THEN [doc EXCEPT ![v][d] = "processing"] ELSE doc
    BY <2>1
  <2>3. /\ doc' \in [Videos -> [Slots -> ParseStatus]]
        /\ \A w \in Videos : w # v => doc'[w] = doc[w]
        /\ \A w \in Videos, e \in Slots : doc[w][e] # "none" => doc'[w][e] # "none"
        /\ d \in Slots /\ ParseOf(v, d) # "failed" => doc'[v][d] = doc[v][d]
    BY <1>3, <2>2, ReviveIs
  <2>4. /\ d \in Slots \cup {NoSlot} /\ ParseOf(v, d) \in ParseStatus
        /\ d \in Slots => doc[v][d] # "none" /\ ParseOf(v, d) = Parse(doc[v][d])
    BY <1>3, FoundIs
  <2>5. TypeOK'
    <3>1. fetch' \in [Videos -> FetchStatus] /\ seenFetch' \in [Threads -> FetchStatus]
      BY <1>3, <2>1, Statuses DEF TypeOK
    <3>2. ref' \in [Threads -> Slots \cup {NoSlot}] /\ seenDoc' \in [Threads -> ParseStatus]
      BY <1>3, <2>2, <2>4, Statuses DEF TypeOK
    <3>3. at' \in [Threads -> Stages] BY <1>3, <1>7 DEF TypeOK, Stages
    <3>4. QED
      BY <1>3, <1>5, <2>3, <3>1, <3>2, <3>3 DEF TypeOK, jobVars, pollVars, systemVars, abortVars
  <2>6. /\ at'[t] = "transcribe" /\ video'[t] = v /\ seenFetch'[t] = "pending" /\ ref'[t] = d
        /\ seenDoc'[t] = (IF ParseOf(v, d) = "failed" THEN "processing" ELSE ParseOf(v, d))
        /\ fetch'[v] = "pending" /\ \A w \in Videos : w # v => fetch'[w] = fetch[w]
        /\ \A u \in Threads : u # t => Same(u)
    BY <1>2, <1>3, <1>5, <1>7, <2>1, <2>2 DEF TypeOK, Same
  <2>7. Held(v)' BY <1>1, <2>6 DEF Held, PendingHeld, FetchedHeld, DocumentHeld
  <2>8. WorkerKnows'
    <3>1. d \in Slots /\ doc'[v][d] = "processing" => seenDoc'[t] = "processing"
      BY <2>3, <2>4, <2>6 DEF Parse
    <3>2. d \in Slots => doc'[v][d] # "none" BY <2>3, <2>4
    <3>3. QED BY <1>1, <2>6, <3>1, <3>2 DEF WorkerKnows
  <2>9. PollerKnows' BY <1>1, <2>6 DEF IInv, PollerKnows, Same, Threads
  <2>10. at[t] # "idle" /\ at'[t] # "idle" BY <1>3, <2>6
  <2>11. \A w \in Videos : fetch[w] # "none" => fetch'[w] # "none" BY <2>6
  <2>12. \A w \in Videos : w # video[t] => fetch'[w] = fetch[w] /\ doc'[w] = doc[w]
    BY <1>2, <2>3, <2>6
  <2>13. \A e \in Slots : doc[video[t]][e] # "none" => doc'[video[t]][e] # "none"
    BY <1>2, <2>3
  <2>14. Held(video[t])' BY <1>2, <1>5, <2>7
  <2>15. QED
    BY <1>5, <2>5, <2>6, <2>8, <2>9, <2>10, <2>11, <2>12, <2>13, <2>14, GoesOn
<1>8. QED BY <1>1, <1>2, <1>6, <1>7 DEF BeginJob

\* The row that waited is the row that runs.
LEMMA TakeJobStep ==
  ASSUME IInv, NEW v \in Videos, TakeJob(v)
  PROVE  IInv'
<1>1. PICK t \in Threads : t = "worker" BY DEF Threads
<1>2. /\ TypeOK /\ system = "up" /\ at[t] = "idle" /\ queued[v] > 0 /\ video[t] = NoVideo
      /\ NoVideo \notin Videos
  BY <1>1 DEF IInv, TakeJob, ThreadsAgree, YouTubeSummaryAssumption
<1>3. /\ queued' = [queued EXCEPT ![v] = @ - 1] /\ running' = [running EXCEPT ![v] = @ + 1]
      /\ at' = [at EXCEPT ![t] = "begin"] /\ video' = [video EXCEPT ![t] = v]
      /\ UNCHANGED <<rowVars, asking, joined, ref, seenFetch, seenDoc, pollVars, systemVars,
                     abortVars>>
  BY <1>1 DEF TakeJob
<1>4. /\ queued' \in [Videos -> Nat] /\ running' \in [Videos -> Nat] /\ running'[v] > 0
      /\ \A w \in Videos : w # v => queued'[w] = queued[w] /\ running'[w] = running[w]
  <2>1. queued \in [Videos -> Nat] /\ running \in [Videos -> Nat] BY <1>2 DEF TypeOK
  <2>2. queued[v] - 1 \in Nat /\ running[v] + 1 \in Nat /\ running[v] + 1 > 0 BY <1>2, <2>1
  <2>3. QED BY <1>3, <2>1, <2>2
<1>5. /\ at'[t] = "begin" /\ video'[t] = v /\ system' = system /\ fetch' = fetch /\ doc' = doc
      /\ \A u \in Threads : u # t => Same(u)
  BY <1>2, <1>3 DEF TypeOK, Same, systemVars, rowVars
<1>6. TypeOK'
  BY <1>2, <1>3, <1>4 DEF TypeOK, Stages, rowVars, pollVars, systemVars, abortVars
<1>7. ThreadsAgree'
  <2>1. at[t] = "idle" /\ system' = "up" BY <1>2, <1>5
  <2>2. ThreadsAgree BY DEF IInv
  <2>3. QED BY <1>1, <1>2, <1>4, <1>5, <2>1, <2>2 DEF ThreadsAgree, Same, Threads
<1>8. AllHeld'
  <2>1. ASSUME NEW w \in Videos, w # v, Owed(w) PROVE Owed(w)'
    BY <1>3, <1>4, <2>1 DEF Owed, Excused, Existing, rowVars, abortVars
  <2>2. Held(v)'
    BY <1>1, <1>5 DEF Held, PendingHeld, FetchedHeld, DocumentHeld, WillEnd
  <2>3. system = "up" /\ system' = "up" BY <1>2, <1>5
  <2>4. QED BY <1>2, <1>5, <2>1, <2>2, <2>3, OneThreadMoves
<1>9. WorkerKnows' BY <1>1, <1>5 DEF WorkerKnows
<1>10. PollerKnows' BY <1>1, <1>5 DEF IInv, PollerKnows, Same, Threads
<1>11. Listed' BY <1>3, <1>5 DEF IInv, Listed, pollVars
<1>12. MarkedIsClean' BY <1>2, <1>5 DEF MarkedIsClean
<1>13. QED BY <1>6, <1>7, <1>8, <1>9, <1>10, <1>11, <1>12 DEF IInv

\* The polling thread takes up what it has listed: it holds a video that it has made
\* pending, and no document.
LEMMA BeginEntryStep ==
  ASSUME IInv, NEW e \in todo, BeginEntry(e)
  PROVE  IInv'
<1>1. PICK t \in Threads : t = "poller" BY DEF Threads
<1>2. /\ TypeOK /\ at[t] = "idle" /\ video[t] = NoVideo /\ ref[t] = NoSlot
      /\ NoVideo \notin Videos
  BY <1>1 DEF IInv, BeginEntry, ThreadsAgree, PollerKnows, YouTubeSummaryAssumption
<1>3. PICK v \in Videos : v = e.video BY <1>2 DEF TypeOK
<1>4. e.fetch \in FetchStatus /\ e.slot \in Slots \cup {NoSlot} BY <1>2 DEF TypeOK
<1>5. system = "up" BY DEF IInv, ThreadsAgree
<1>6. /\ todo' = todo \ {e} /\ video' = [video EXCEPT ![t] = v]
      /\ UNCHANGED <<doc, jobVars, phase, systemVars, abortVars>>
  BY <1>1, <1>3 DEF BeginEntry
<1>7. \/ /\ at' = [at EXCEPT ![t] = "summarize"] /\ ref' = [ref EXCEPT ![t] = e.slot]
         /\ seenDoc' = [seenDoc EXCEPT ![t] = "failed"] /\ UNCHANGED <<fetch, seenFetch>>
      \/ /\ phase # "docs" /\ at' = [at EXCEPT ![t] = "transcribe"]
         /\ fetch' = [fetch EXCEPT ![v] = IF @ = "none" THEN "pending" ELSE @]
         /\ seenFetch' = [seenFetch EXCEPT ![t] = IF phase = "new" THEN fetch'[v] ELSE e.fetch]
         /\ UNCHANGED <<ref, seenDoc>>
  BY <1>1, <1>3 DEF BeginEntry
<1>8. /\ fetch' \in [Videos -> FetchStatus] /\ \A w \in Videos : w # v => fetch'[w] = fetch[w]
      /\ \/ fetch'[v] = fetch[v]
         \/ fetch[v] = "none" /\ fetch'[v] = "pending" /\ at'[t] = "transcribe"
            /\ (phase = "new" => seenFetch'[t] = "pending")
  BY <1>2, <1>7, Statuses DEF TypeOK
<1>9. TypeOK'
  <2>1. at' \in [Threads -> Stages] BY <1>2, <1>7 DEF TypeOK, Stages
  <2>2. ref' \in [Threads -> Slots \cup {NoSlot}] BY <1>2, <1>4, <1>7 DEF TypeOK
  <2>3. seenFetch' \in [Threads -> FetchStatus] BY <1>2, <1>4, <1>7, <1>8 DEF TypeOK
  <2>4. seenDoc' \in [Threads -> ParseStatus]
    <3>1. seenDoc \in [Threads -> ParseStatus] /\ "failed" \in ParseStatus
      BY <1>2 DEF TypeOK, ParseStatus
    <3>2. seenDoc' = seenDoc \/ seenDoc' = [seenDoc EXCEPT ![t] = "failed"] BY <1>7
    <3>3. QED BY <3>1, <3>2
  <2>5. QED
    BY <1>2, <1>6, <1>8, <2>1, <2>2, <2>3, <2>4
       DEF TypeOK, jobVars, systemVars, abortVars
<1>10. /\ video'[t] = v /\ at'[t] \in {"summarize", "transcribe"}
       /\ at'[t] = "transcribe" => ref'[t] = NoSlot
       /\ \A u \in Threads : u # t => Same(u)
  BY <1>2, <1>6, <1>7 DEF TypeOK, Same
<1>11. \A w \in Videos : Owed(w) => Owed(w)'
  BY <1>6 DEF Owed, Excused, Existing, jobVars, abortVars
<1>12. doc' = doc /\ system' = "up" /\ Existing(v)' = Existing(v)
  BY <1>5, <1>6 DEF systemVars, Existing
<1>13. Held(v)'
  <2>1. Held(v) /\ video[t] # v BY <1>2, <1>5 DEF IInv, AllHeld
  <2>2. CASE fetch'[v] = fetch[v]
    <3>1. PendingHeld(v)'
      BY <1>1, <1>10, <1>11, <2>1, <2>2 DEF Held, PendingHeld, Same, Threads
    <3>2. FetchedHeld(v)'
      BY <1>10, <1>11, <1>12, <2>1, <2>2 DEF Held, FetchedHeld, Same, Threads
    <3>3. ASSUME NEW d \in Slots PROVE DocumentHeld(v, d)'
      <4>1. \A u \in Threads : WillEnd(u, v, d) => WillEnd(u, v, d)'
        BY <1>10, <2>1 DEF WillEnd, Same
      <4>2. DocumentHeld(v, d) BY <2>1 DEF Held
      <4>3. QED BY <1>11, <1>12, <2>2, <4>1, <4>2 DEF DocumentHeld
    <3>4. QED BY <3>1, <3>2, <3>3 DEF Held
  <2>3. CASE fetch[v] = "none" /\ fetch'[v] = "pending" /\ at'[t] = "transcribe"
             /\ (phase = "new" => seenFetch'[t] = "pending")
    <3>1. phase # "rest" /\ phase # "videos" BY <1>3, <2>3 DEF IInv, Listed
    <3>2. phase # "docs" BY <1>2, <1>7, <2>3 DEF TypeOK
    <3>3. seenFetch'[t] = "pending" BY <1>2, <2>3, <3>1, <3>2 DEF TypeOK
    <3>4. QED BY <1>1, <1>10, <2>3, <3>3 DEF Held, PendingHeld, FetchedHeld, DocumentHeld
  <2>4. QED BY <1>8, <2>2, <2>3
<1>14. AllHeld'
  <2>1. \A w \in Videos : w # v => /\ fetch'[w] = fetch[w] /\ doc'[w] = doc[w]
                                   /\ Owed(w) => Owed(w)'
    BY <1>8, <1>11, <1>12
  <2>2. QED BY <1>2, <1>5, <1>10, <1>12, <1>13, <2>1, OneThreadMoves
<1>15. ThreadsAgree'
  <2>1. ThreadsAgree BY DEF IInv
  <2>2. QED BY <1>1, <1>6, <1>10, <1>12, <2>1 DEF ThreadsAgree, Same, Threads, jobVars
<1>16. WorkerKnows'
  <2>1. Same("worker") BY <1>1, <1>10 DEF Threads
  <2>2. QED BY <1>11, <1>12, <2>1, WorkerStays
<1>17. PollerKnows' BY <1>1, <1>10 DEF PollerKnows
<1>18. Listed' BY <1>2, <1>6, <1>8 DEF IInv, Listed, TypeOK
<1>19. MarkedIsClean' BY <1>12 DEF MarkedIsClean
<1>20. QED BY <1>9, <1>14, <1>15, <1>16, <1>17, <1>18, <1>19 DEF IInv

\* A thread lets go of its video: the pipeline has run to its end, or the video is excused.
LEMMA LetsGo ==
  ASSUME IInv, NEW t \in Threads, at[t] # "idle", Release(t),
         running' = IF t = "worker" THEN [running EXCEPT ![video[t]] = @ - 1] ELSE running,
         UNCHANGED <<rowVars, queued, asking, joined, systemVars>>,
         aborted \subseteq aborted', aborted' \subseteq Videos, aborts' \in Nat,
         at[t] = "done" \/ video[t] \in aborted',
         todo' \subseteq todo, phase' \in {phase, "rest"}, phase' = phase \/ todo' = {}
  PROVE  IInv'
<1>1. PICK v \in Videos : v = video[t] BY AtWork
<1>2. /\ TypeOK /\ Held(v) /\ system = "up" /\ system' = "up" /\ NoVideo \notin Videos
      /\ t = "worker" => running[v] > 0
  BY <1>1, AtWork DEF systemVars
<1>3. /\ at' = [at EXCEPT ![t] = "idle"] /\ video' = [video EXCEPT ![t] = NoVideo]
      /\ ref' = [ref EXCEPT ![t] = NoSlot] /\ seenFetch' = [seenFetch EXCEPT ![t] = "none"]
      /\ seenDoc' = [seenDoc EXCEPT ![t] = "none"]
  BY DEF Release
<1>4. /\ at'[t] = "idle" /\ video'[t] = NoVideo /\ ref'[t] = NoSlot
      /\ \A u \in Threads : u # t => Same(u)
  BY <1>2, <1>3 DEF TypeOK, Same
<1>5. running' \in [Videos -> Nat] /\ (t # "worker" => running' = running)
  <2>1. running \in [Videos -> Nat] BY <1>2 DEF TypeOK
  <2>2. CASE t = "worker"
    <3>1. running[v] - 1 \in Nat BY <1>2, <2>1, <2>2
    <3>2. running' = [running EXCEPT ![v] = running[v] - 1] BY <1>1, <2>2
    <3>3. QED BY <2>1, <2>2, <3>1, <3>2
  <2>3. QED BY <2>1, <2>2
<1>6. TypeOK'
  <2>1. at' \in [Threads -> Stages] BY <1>2, <1>3 DEF TypeOK, Stages
  <2>2. /\ video' \in [Threads -> Videos \cup {NoVideo}]
        /\ ref' \in [Threads -> Slots \cup {NoSlot}]
    BY <1>2, <1>3 DEF TypeOK
  <2>3. seenFetch' \in [Threads -> FetchStatus] BY <1>2, <1>3, Statuses DEF TypeOK
  <2>4. seenDoc' \in [Threads -> ParseStatus] BY <1>2, <1>3 DEF TypeOK, ParseStatus
  <2>5. phase' \in {"rest", "new", "docs", "videos"} BY <1>2 DEF TypeOK
  <2>6. QED
    BY <1>2, <1>5, <2>1, <2>2, <2>3, <2>4, <2>5 DEF TypeOK, rowVars, systemVars
<1>7. \A w \in Videos : Owed(w) => Owed(w)'
  BY DEF Owed, Excused, Existing, rowVars
<1>8. fetch' = fetch /\ doc' = doc /\ Existing(v)' = Existing(v) BY DEF rowVars, Existing
<1>9. Held(v)'
  <2>1. CASE at[t] = "done"
    <3>1. PendingHeld(v)' BY <1>2, <1>4, <1>7, <1>8, <2>1 DEF Held, PendingHeld, Same, Threads
    <3>2. FetchedHeld(v)' BY <1>2, <1>4, <1>7, <1>8, <2>1 DEF Held, FetchedHeld, Same, Threads
    <3>3. ASSUME NEW d \in Slots PROVE DocumentHeld(v, d)'
      <4>1. DocumentHeld(v, d) BY <1>2 DEF Held
      <4>2. \A u \in Threads : WillEnd(u, v, d) => WillEnd(u, v, d)'
        BY <1>4, <2>1 DEF WillEnd, Same
      <4>3. QED BY <1>7, <1>8, <4>1, <4>2 DEF DocumentHeld
    <3>4. QED BY <3>1, <3>2, <3>3 DEF Held
  <2>2. CASE video[t] \in aborted'
    BY <1>1, <2>2 DEF Held, PendingHeld, FetchedHeld, DocumentHeld, Owed, Excused
  <2>3. QED BY <2>1, <2>2
<1>10. AllHeld'
  <2>1. \A w \in Videos : w # v => /\ fetch'[w] = fetch[w] /\ doc'[w] = doc[w]
                                   /\ Owed(w) => Owed(w)'
    BY <1>7, <1>8
  <2>2. video[t] \in {v, NoVideo} /\ video'[t] \in {v, NoVideo} BY <1>1, <1>4
  <2>3. QED BY <1>2, <1>4, <1>9, <2>1, <2>2, OneThreadMoves
<1>11. ThreadsAgree'
  <2>1. ThreadsAgree BY DEF IInv
  <2>2. QED BY <1>2, <1>4, <1>5, <2>1 DEF ThreadsAgree, Same, Threads
<1>12. WorkerKnows'
  <2>1. CASE t = "worker" BY <1>4, <2>1 DEF WorkerKnows
  <2>2. CASE t # "worker" BY <1>4, <1>7, <1>8, <2>2, WorkerStays DEF Threads
  <2>3. QED BY <2>1, <2>2
<1>13. PollerKnows' BY <1>4 DEF IInv, PollerKnows, Same, Threads
<1>14. Listed' BY <1>8 DEF IInv, Listed
<1>15. MarkedIsClean' BY <1>2 DEF MarkedIsClean
<1>16. QED BY <1>6, <1>10, <1>11, <1>12, <1>13, <1>14, <1>15 DEF IInv

\* The worker ends its row, the polling thread its entry; an exception excuses the video.
LEMMA EndStep ==
  ASSUME IInv, FinishJob \/ FinishEntry \/ \E t \in Threads : Abort(t)
  PROVE  IInv'
<1>1. TypeOK BY DEF IInv
<1>2. aborted \subseteq Videos /\ aborts \in Nat BY <1>1 DEF TypeOK
<1>3. CASE FinishJob
  <2>1. PICK t \in Threads : t = "worker" BY DEF Threads
  <2>2. /\ at[t] = "done" /\ Release(t) /\ running' = [running EXCEPT ![video[t]] = @ - 1]
        /\ aborted' = aborted /\ aborts' = aborts /\ todo' = todo /\ phase' = phase
        /\ UNCHANGED <<rowVars, queued, asking, joined, systemVars>>
    BY <1>3, <2>1 DEF FinishJob, pollVars, abortVars
  <2>3. QED BY <1>2, <2>1, <2>2, LetsGo
<1>4. CASE FinishEntry
  <2>1. PICK t \in Threads : t = "poller" BY DEF Threads
  <2>2. /\ at[t] = "done" /\ Release(t) /\ running' = running
        /\ aborted' = aborted /\ aborts' = aborts /\ todo' = todo /\ phase' = phase
        /\ UNCHANGED <<rowVars, queued, asking, joined, systemVars>>
    BY <1>4, <2>1 DEF FinishEntry, pollVars, abortVars, jobVars
  <2>3. QED BY <1>2, <2>1, <2>2, LetsGo
<1>5. ASSUME NEW t \in Threads, Abort(t) PROVE IInv'
  <2>1. at[t] # "idle" /\ video[t] \in Videos BY <1>5, AtWork DEF Abort
  <2>2. /\ aborts' = aborts + 1 /\ aborted' = aborted \cup {video[t]} /\ Release(t)
        /\ running' = IF t = "worker" THEN [running EXCEPT ![video[t]] = @ - 1] ELSE running
        /\ UNCHANGED <<rowVars, queued, asking, joined, systemVars>>
    BY <1>5 DEF Abort
  <2>3. todo' \subseteq todo /\ phase' \in {phase, "rest"} /\ (phase' = phase \/ todo' = {})
    BY <1>5 DEF Abort, pollVars
  <2>4. aborts' \in Nat /\ aborted \subseteq aborted' /\ aborted' \subseteq Videos
        /\ video[t] \in aborted'
    BY <1>2, <2>1, <2>2
  <2>5. QED BY <2>1, <2>2, <2>3, <2>4, LetsGo
<1>6. QED BY <1>3, <1>4, <1>5

-----------------------------------------------------------------------------
(* Process death and start-up                                              *)

\* Nobody works while the process is down, so there is nothing to hold.
LEMMA CrashStep ==
  ASSUME IInv, Crash
  PROVE  IInv'
<1>1. TypeOK BY DEF IInv
<1>2. /\ system' = "down" /\ crashes' = crashes + 1
      /\ at' = [t \in Threads |-> "idle"] /\ video' = [t \in Threads |-> NoVideo]
      /\ ref' = [t \in Threads |-> NoSlot]
      /\ seenFetch' = [t \in Threads |-> "none"] /\ seenDoc' = [t \in Threads |-> "none"]
      /\ todo' = {} /\ phase' = "rest" /\ asking' = NoVideo
      /\ UNCHANGED <<rowVars, queued, running, joined, abortVars>>
  BY DEF Crash
<1>3. TypeOK'
  <2>1. /\ at' \in [Threads -> Stages] /\ video' \in [Threads -> Videos \cup {NoVideo}]
        /\ ref' \in [Threads -> Slots \cup {NoSlot}]
        /\ seenFetch' \in [Threads -> FetchStatus] /\ seenDoc' \in [Threads -> ParseStatus]
    BY <1>2, Statuses DEF Stages, ParseStatus
  <2>2. crashes' \in Nat BY <1>1, <1>2 DEF TypeOK
  <2>3. QED BY <1>1, <1>2, <2>1, <2>2 DEF TypeOK, rowVars, abortVars
<1>4. NoVideo \notin Videos BY DEF IInv, YouTubeSummaryAssumption
<1>5. ThreadsAgree' BY <1>2, <1>4 DEF ThreadsAgree, Threads
<1>6. WorkerKnows' /\ PollerKnows' /\ Listed'
  BY <1>2 DEF WorkerKnows, PollerKnows, Listed, Threads
<1>7. MarkedIsClean' /\ AllHeld' BY <1>2 DEF MarkedIsClean, AllHeld
<1>8. QED BY <1>3, <1>5, <1>6, <1>7 DEF IInv

\* The first commit of the start-up leaves nothing that says somebody is at work.
LEMMA MarkStep ==
  ASSUME IInv, MarkInterrupted
  PROVE  IInv'
<1>1. TypeOK /\ ThreadsAgree /\ system = "down" /\ system' = "marked"
  BY DEF IInv, MarkInterrupted
<1>2. /\ doc' = [v \in Videos |-> [d \in Slots |->
                  IF doc[v][d] = "processing" THEN "interrupted" ELSE doc[v][d]]]
      /\ fetch' = [v \in Videos |->
                  IF fetch[v] = "fetched" /\ Existing(v) = {} THEN "interrupted" ELSE fetch[v]]
      /\ UNCHANGED <<jobVars, threadVars, pollVars, crashes, abortVars>>
  BY DEF MarkInterrupted
<1>3. at["worker"] = "idle" /\ at["poller"] = "idle" /\ todo = {} BY <1>1 DEF ThreadsAgree, Threads
<1>4. /\ doc' \in [Videos -> [Slots -> ParseStatus]]
      /\ \A v \in Videos, d \in Slots : /\ doc'[v][d] # "processing"
                                        /\ doc[v][d] # "none" => doc'[v][d] # "none"
  <2>1. doc \in [Videos -> [Slots -> ParseStatus]] BY <1>1 DEF TypeOK
  <2>2. \A v \in Videos, d \in Slots :
           /\ doc'[v][d] = IF doc[v][d] = "processing" THEN "interrupted" ELSE doc[v][d]
           /\ doc'[v][d] \in ParseStatus
    BY <1>2, <2>1 DEF ParseStatus
  <2>3. QED BY <1>2, <2>1, <2>2
<1>5. TypeOK'
  <2>1. fetch' \in [Videos -> FetchStatus] BY <1>1, <1>2, Statuses DEF TypeOK
  <2>2. QED BY <1>1, <1>2, <1>4, <2>1 DEF TypeOK, jobVars, threadVars, pollVars, abortVars
<1>6. MarkedIsClean'
  <2>1. ASSUME NEW v \in Videos, fetch'[v] = "fetched" PROVE Existing(v)' # {}
    <3>1. Existing(v) # {} BY <1>2, <2>1
    <3>2. QED BY <1>4, <3>1 DEF Existing
  <2>2. QED BY <1>4, <2>1 DEF MarkedIsClean
<1>7. ThreadsAgree' BY <1>1, <1>2 DEF ThreadsAgree, jobVars, threadVars, pollVars
<1>8. WorkerKnows' BY <1>2, <1>3 DEF WorkerKnows, threadVars
<1>9. PollerKnows' BY <1>2 DEF IInv, PollerKnows, threadVars
<1>10. Listed' BY <1>2, <1>3 DEF Listed, pollVars
<1>11. AllHeld' BY <1>1 DEF AllHeld
<1>12. QED BY <1>5, <1>6, <1>7, <1>8, <1>9, <1>10, <1>11 DEF IInv

\* What the mark says is unfinished has a row when the process is up again.
LEMMA EnqueueUnfinishedStep ==
  ASSUME IInv, EnqueueUnfinished
  PROVE  IInv'
<1>1. TypeOK /\ ThreadsAgree /\ MarkedIsClean /\ system = "marked" /\ system' = "up"
  BY DEF IInv, EnqueueUnfinished
<1>2. /\ fetch' = [v \in Videos |-> IF fetch[v] = "interrupted" THEN "pending" ELSE fetch[v]]
      /\ queued' = [v \in Videos |->
                      LET n == queued[v] + running[v] IN IF Unfinished(v) /\ n = 0 THEN 1 ELSE n]
      /\ running' = [v \in Videos |-> 0]
      /\ joined' = {} /\ aborted' = {}
      /\ UNCHANGED <<asking, threadVars, pollVars, crashes, aborts>>
  BY DEF EnqueueUnfinished
<1>3. PICK pick \in [Videos -> Slots \cup {NoSlot}] :
         doc' = [v \in Videos |-> [d \in Slots |->
                    IF doc[v][d] = "interrupted" /\ d = pick[v] THEN "processing" ELSE doc[v][d]]]
  BY DEF EnqueueUnfinished
<1>4. at["worker"] = "idle" /\ at["poller"] = "idle" /\ todo = {} BY <1>1 DEF ThreadsAgree, Threads
<1>5. /\ doc' \in [Videos -> [Slots -> ParseStatus]]
      /\ \A v \in Videos, d \in Slots :
            /\ doc'[v][d] = "processing" => doc[v][d] = "interrupted"
            /\ doc[v][d] # "none" => doc'[v][d] # "none"
  <2>1. doc \in [Videos -> [Slots -> ParseStatus]] BY <1>1 DEF TypeOK
  <2>2. \A v \in Videos, d \in Slots :
           /\ doc'[v][d] = IF doc[v][d] = "interrupted" /\ d = pick[v]
                           THEN "processing" ELSE doc[v][d]
           /\ doc'[v][d] \in ParseStatus
    BY <1>3, <2>1 DEF ParseStatus
  <2>3. \A v \in Videos, d \in Slots : doc[v][d] # "processing" BY <1>1 DEF MarkedIsClean
  <2>4. QED BY <1>3, <2>1, <2>2, <2>3
<1>6. queued' \in [Videos -> Nat] /\ \A v \in Videos : Unfinished(v) => queued'[v] > 0
  <2>1. queued \in [Videos -> Nat] /\ running \in [Videos -> Nat] BY <1>1 DEF TypeOK
  <2>2. \A v \in Videos : queued[v] + running[v] \in Nat BY <2>1
  <2>3. \A v \in Videos :
           /\ queued'[v] \in Nat
           /\ Unfinished(v) => queued'[v] > 0
    BY <1>2, <2>2
  <2>4. QED BY <1>2, <2>3
<1>7. TypeOK'
  <2>1. fetch' \in [Videos -> FetchStatus] BY <1>1, <1>2, Statuses DEF TypeOK
  <2>2. QED BY <1>1, <1>2, <1>5, <1>6, <2>1 DEF TypeOK, threadVars, pollVars
<1>8. ASSUME NEW v \in Videos PROVE Held(v)'
  <2>1. PendingHeld(v)' BY <1>2, <1>6 DEF PendingHeld, Owed, Unfinished
  <2>2. FetchedHeld(v)'
    <3>1. fetch'[v] = "fetched" => fetch[v] = "fetched" BY <1>2
    <3>2. fetch[v] = "fetched" => Existing(v)' # {} BY <1>1, <1>5 DEF MarkedIsClean, Existing
    <3>3. QED BY <3>1, <3>2 DEF FetchedHeld
  <2>3. \A d \in Slots : DocumentHeld(v, d)'
    BY <1>5, <1>6 DEF DocumentHeld, Owed, Unfinished
  <2>4. QED BY <2>1, <2>2, <2>3 DEF Held
<1>9. ThreadsAgree'
  <2>1. \A v \in Videos : video["worker"] # v
    BY <1>1, <1>4 DEF ThreadsAgree, Threads, IInv, YouTubeSummaryAssumption
  <2>2. QED BY <1>1, <1>2, <2>1 DEF ThreadsAgree, threadVars
<1>10. WorkerKnows' BY <1>2, <1>4 DEF WorkerKnows, threadVars
<1>11. PollerKnows' BY <1>2 DEF IInv, PollerKnows, threadVars
<1>12. Listed' BY <1>2, <1>4 DEF Listed, pollVars
<1>13. MarkedIsClean' /\ AllHeld' BY <1>1, <1>8 DEF MarkedIsClean, AllHeld
<1>14. QED BY <1>7, <1>9, <1>10, <1>11, <1>12, <1>13 DEF IInv

-----------------------------------------------------------------------------

\* The pipeline keeps the invariant in either thread.
LEMMA PipelineStep ==
  ASSUME IInv, NEW t \in Threads, Pipeline(t)
  PROVE  IInv'
<1>1. ASSUME NEW s \in FetchFailures, NoTranscript(t, s) PROVE IInv'
  <2>1. s # "fetched" BY Statuses
  <2>2. /\ at[t] = "transcribe" /\ PutFetch(t, s)
        /\ Goto(t, IF s = "fetched" THEN "persist" ELSE "done")
        /\ UNCHANGED <<doc, jobVars, video, ref, seenDoc, pollVars, systemVars, abortVars>>
    BY <1>1, <2>1 DEF NoTranscript
  <2>3. QED BY <2>2, TranscriptStep
<1>2. CASE Transcribe(t)
  <2>1. PICK s \in FetchFailures \cup {"fetched"} : s = "fetched" OBVIOUS
  <2>2. /\ at[t] = "transcribe" /\ PutFetch(t, s)
        /\ Goto(t, IF s = "fetched" THEN "persist" ELSE "done")
        /\ UNCHANGED <<doc, jobVars, video, ref, seenDoc, pollVars, systemVars, abortVars>>
    BY <1>2, <2>1 DEF Transcribe
  <2>3. QED BY <2>2, TranscriptStep
<1>3. CASE Summarize(t) \/ SummaryFails(t)
  <2>1. PICK s \in {"completed", "failed"} : PutDoc(t, s) BY <1>3 DEF Summarize, SummaryFails
  <2>2. /\ at[t] = "summarize" /\ Goto(t, "done")
        /\ UNCHANGED <<fetch, jobVars, video, ref, seenFetch, pollVars, systemVars, abortVars>>
    BY <1>3 DEF Summarize, SummaryFails
  <2>3. QED BY <2>1, <2>2, SummaryStep
<1>4. QED BY <1>1, <1>2, <1>3, FindStep, CreateStep DEF Pipeline

\* Every step keeps the invariant.
LEMMA StepInv == IInv /\ [Next]_vars => IInv'
<1> SUFFICES ASSUME IInv, [Next]_vars PROVE IInv'
  OBVIOUS
<1>1. CASE Requests BY <1>1, AskStep, DiscoverStep DEF Requests
<1>2. CASE Submit BY <1>2, SubmitStep
<1>3. CASE Worker BY <1>3, BeginJobStep, EndStep, PipelineStep, TakeJobStep DEF Worker, Threads
<1>4. CASE Poller BY <1>4, ListStep, EndStep, PipelineStep, BeginEntryStep DEF Poller, Threads
<1>5. CASE StartUp BY <1>5, MarkStep, EnqueueUnfinishedStep DEF StartUp
<1>6. CASE Crash BY <1>6, CrashStep
<1>7. CASE \E t \in Threads : Abort(t) BY <1>7, EndStep
<1>8. CASE UNCHANGED vars
  <2> USE <1>8 DEF vars, rowVars, jobVars, threadVars, pollVars, systemVars, abortVars
  <2>1. TypeOK' BY DEF IInv, TypeOK
  <2>2. ThreadsAgree' /\ MarkedIsClean'
    BY DEF IInv, ThreadsAgree, MarkedIsClean, Existing
  <2>3. AllHeld'
    BY DEF IInv, AllHeld, Held, PendingHeld, FetchedHeld, DocumentHeld, WillEnd, Owed, Excused,
           Existing
  <2>4. WorkerKnows' /\ PollerKnows' /\ Listed'
    BY DEF IInv, WorkerKnows, PollerKnows, Listed, Owed, Excused, Existing
  <2>5. QED BY <2>1, <2>2, <2>3, <2>4 DEF IInv
<1>9. QED BY <1>1, <1>2, <1>3, <1>4, <1>5, <1>6, <1>7, <1>8 DEF Next

LEMMA Invariance == Spec => []IInv
<1>1. Init => IInv BY InitInv, YouTubeSummaryAssumption
<1>2. QED BY <1>1, StepInv, PTL DEF Spec

-----------------------------------------------------------------------------

\* Rows, jobs, threads and their sessions keep their types.
THEOREM SummaryTyped == Spec => []TypeOK
<1>1. IInv => TypeOK BY DEF IInv
<1>2. QED BY <1>1, Invariance, PTL

\* However the worker, the polling thread, the request handlers, deaths and start-ups
\* interleave: while the process is up, a video that GET summaries/by-video reports as
\* being processed has a waiting row, a request that is about to enqueue one, or a thread
\* at work on it, unless it is one of those that Excused names.
THEOREM ReportedIsInHand == Spec => []ProcessingIsInHand
<1>1. ASSUME IInv PROVE ProcessingIsInHand
  <2>1. SUFFICES ASSUME system = "up", NEW v \in Videos, Processing(v)
                 PROVE  InHand(v) \/ Excused(v)
    BY DEF ProcessingIsInHand
  <2>2. Held(v) BY <1>1, <2>1 DEF IInv, AllHeld
  <2>3. Owed(v) => InHand(v) \/ Excused(v) BY DEF Owed, InHand
  <2>4. CASE fetch[v] = "pending" BY <2>2, <2>3, <2>4 DEF Held, PendingHeld, InHand, Threads
  <2>5. CASE fetch[v] = "fetched" /\ Existing(v) = {}
    BY <2>2, <2>3, <2>5 DEF Held, FetchedHeld, InHand, Threads
  <2>6. CASE fetch[v] = "fetched" /\ \E d \in Slots : doc[v][d] = "processing"
    BY <2>2, <2>3, <2>6 DEF Held, DocumentHeld, WillEnd, InHand
  <2>7. QED BY <2>1, <2>4, <2>5, <2>6 DEF Processing
<1>2. QED BY <1>1, Invariance, PTL

-----------------------------------------------------------------------------
(***************************************************************************)
(* The posts of X, for any number of sources, rows, collectors and faults. *)
(* XCollector is an instance here, so its assumption is a hypothesis of    *)
(* the theorems.  CommandInv says who holds which command, and what a      *)
(* succeeded row stands for.                                               *)
(***************************************************************************)
CONSTANTS Sources, MaxFaults, NoSource

VARIABLES due, target, scan, checked, late, pc, posts, faults

X == INSTANCE XCollector

Busy == {"importing", "succeeding", "failing", "closing"}

\* A collector has a command when it works on one, and none to begin before a claim.
PlacesAgree == \A c \in Collectors :
    /\ IF pc[c] \in Busy THEN current[c] \in Jobs ELSE current[c] = NoJob
    /\ pc[c] \in {"idle", "claiming"} => received[c] = {}

\* A claim never finds a row that somebody has, or that a late request will write;
\* and no late request will write a row that somebody has still to begin.
ClaimsAreSafe ==
    /\ \A j \in Jobs : X!Held(j) => status[j] # "pending"
    /\ \A r \in late : r.kind # "claiming" =>
          /\ r.job \in Jobs /\ status[r.job] # "pending"
          /\ \A c \in Collectors : r.job \notin received[c]

\* Success is only reported after the upload.
ReportsFollowUploads ==
    /\ \A c \in Collectors : pc[c] = "succeeding" => current[c] \in imported
    /\ \A r \in late : r.kind = "succeeding" => r.job \in imported

CommandInv ==
    /\ X!XCollectorAssumption
    /\ X!TypeOK /\ PlacesAgree /\ CommandsAreExclusive /\ ClaimsAreSafe
    /\ ReportsFollowUploads /\ SucceededIsImported

\* No command is anywhere.
LEMMA CommandInit == X!XCollectorAssumption /\ X!Init => CommandInv
<1> SUFFICES ASSUME X!XCollectorAssumption, X!Init PROVE CommandInv
  OBVIOUS
<1>1. X!TypeOK
  BY DEF X!Init, X!TypeOK, X!Status, X!XCollectorAssumption
<1>2. PlacesAgree /\ CommandsAreExclusive /\ ClaimsAreSafe
  BY DEF X!Init, PlacesAgree, Busy, CommandsAreExclusive, ClaimsAreSafe, X!Held, X!HeldBy, HeldBy
<1>3. ReportsFollowUploads /\ SucceededIsImported
  BY DEF X!Init, ReportsFollowUploads, SucceededIsImported
<1>4. QED BY <1>1, <1>2, <1>3 DEF CommandInv

\* The request of a collector that waits names the command it works on.
LEMMA RequestTyped ==
  ASSUME X!TypeOK, PlacesAgree, NEW c \in Collectors, pc[c] \in X!Waiting
  PROVE  /\ X!Request(c) \in [kind : X!Waiting, job : Jobs \cup {NoJob}]
         /\ X!Request(c).kind = pc[c] /\ X!Request(c).job = current[c]
         /\ IF pc[c] = "claiming" THEN current[c] = NoJob /\ received[c] = {}
                                  ELSE current[c] \in Jobs
  BY DEF X!Request, X!TypeOK, PlacesAgree, Busy, X!Waiting

\* What a handler may do to the rows: a claim takes the pending ones, an upload adds
\* its row, a report writes its row, and success is reported of an uploaded one.
LEMMA HandleRows ==
  ASSUME X!TypeOK, SucceededIsImported,
         NEW r \in [kind : X!Waiting, job : Jobs \cup {NoJob}], X!Handle(r),
         r.kind # "claiming" => r.job \in Jobs,
         r.kind = "succeeding" => r.job \in imported
  PROVE  /\ due' \subseteq Sources /\ imported' \subseteq Jobs /\ target' = target
         /\ status' \in [Jobs -> X!Status] /\ SucceededIsImported'
         /\ imported \subseteq imported'
         /\ r.kind = "importing" => imported' = imported \cup {r.job}
         /\ \A j \in Jobs : status[j] # "pending" => status'[j] # "pending"
         /\ \A j \in Jobs : status[j] = "running" /\ (r.kind = "claiming" \/ r.job # j)
                        => status'[j] = "running"
         /\ r.kind = "claiming" => \A j \in X!Pending : status'[j] = "running"
<1>1. CASE r.kind = "claiming" /\ X!HandleClaim
  BY <1>1 DEF X!HandleClaim, X!Pending, X!TypeOK, X!Status, SucceededIsImported
<1>2. CASE r.kind = "importing" /\ X!HandleImport(r.job)
  BY <1>2 DEF X!HandleImport, X!TypeOK, SucceededIsImported
<1>3. ASSUME NEW s \in X!Finished, X!HandleComplete(r.job, s),
             r.kind \notin {"claiming", "importing"},
             s = "succeeded" => r.kind = "succeeding"
      PROVE  /\ due' \subseteq Sources /\ imported' = imported /\ target' = target
             /\ status' \in [Jobs -> X!Status] /\ SucceededIsImported'
             /\ \A j \in Jobs : status[j] # "pending" => status'[j] # "pending"
             /\ \A j \in Jobs : r.job # j => status'[j] = status[j]
  BY <1>3 DEF X!HandleComplete, X!TypeOK, X!Status, X!Finished, SucceededIsImported
<1>4. CASE r.kind = "succeeding" /\ X!HandleComplete(r.job, "succeeded")
  BY <1>3, <1>4 DEF X!TypeOK, X!Finished
<1>5. CASE r.kind = "failing" /\ X!HandleComplete(r.job, "failed")
  BY <1>3, <1>5 DEF X!TypeOK, X!Finished
<1>6. QED BY <1>1, <1>2, <1>4, <1>5 DEF X!Handle

\* A new row takes an identifier nobody holds or will name.
LEMMA InsertStep ==
  ASSUME CommandInv, NEW s \in Sources, X!Insert(s),
         due' \subseteq Sources, scan' \subseteq Sources, checked' \in Sources \cup {NoSource},
          UNCHANGED <<late, pc, received, current, faults>>
  PROVE  CommandInv'
<1>1. PICK j \in Jobs :
         /\ status[j] \in {"none"} \cup X!Finished
         /\ ~X!Held(j) /\ \A r \in late : r.job # j
         /\ status' = [status EXCEPT ![j] = "pending"]
         /\ target' = [target EXCEPT ![j] = s]
         /\ imported' = imported \ {j} /\ posts' = posts \ {j}
  BY DEF X!Insert
<1>2. X!TypeOK' BY <1>1 DEF CommandInv, X!TypeOK, X!Status
<1>3. PlacesAgree' BY DEF CommandInv, PlacesAgree
<1>4. \A c \in Collectors : j \notin received[c] /\ current[c] # j
  BY <1>1 DEF CommandInv, X!Held, X!HeldBy, HeldBy, X!XCollectorAssumption
<1>5. CommandsAreExclusive'
  BY <1>1, <1>4 DEF CommandInv, X!TypeOK, CommandsAreExclusive, HeldBy
<1>6. ClaimsAreSafe'
  BY <1>1 DEF CommandInv, X!TypeOK, ClaimsAreSafe, X!Held, X!HeldBy, HeldBy
<1>7. ReportsFollowUploads'
  BY <1>1, <1>4 DEF CommandInv, ReportsFollowUploads
<1>8. SucceededIsImported'
  BY <1>1 DEF CommandInv, X!TypeOK, SucceededIsImported
<1>9. QED BY <1>2, <1>3, <1>5, <1>6, <1>7, <1>8 DEF CommandInv

\* A step that leaves the commands, the requests and the rows they name alone.
LEMMA QuietStep ==
  ASSUME CommandInv, UNCHANGED <<status, target, imported, X!collectorVars>>, late' \subseteq late,
         due' \subseteq Sources, scan' \subseteq Sources, checked' \in Sources \cup {NoSource},
         faults' \in Nat
  PROVE  CommandInv'
<1>1. X!TypeOK' BY DEF CommandInv, X!TypeOK, X!collectorVars
<1>2. PlacesAgree' /\ CommandsAreExclusive' /\ ClaimsAreSafe'
  BY DEF CommandInv, PlacesAgree, CommandsAreExclusive, ClaimsAreSafe, X!Held, X!HeldBy, HeldBy,
         X!collectorVars
<1>3. ReportsFollowUploads' /\ SucceededIsImported'
  BY DEF CommandInv, ReportsFollowUploads, SucceededIsImported, X!collectorVars
<1>4. QED BY <1>1, <1>2, <1>3 DEF CommandInv

\* The answer of a claim is the set of rows nobody had.
LEMMA ServeStep ==
  ASSUME CommandInv, NEW c \in Collectors, X!Serve(c)
  PROVE  CommandInv'
<1> DEFINE r == X!Request(c)
<1>0. X!XCollectorAssumption /\ X!TypeOK /\ PlacesAgree
      /\ CommandsAreExclusive /\ ClaimsAreSafe /\ SucceededIsImported
  BY DEF CommandInv
<1>1. /\ r \in [kind : X!Waiting, job : Jobs \cup {NoJob}] /\ r.kind = pc[c] /\ r.job = current[c]
      /\ IF pc[c] = "claiming" THEN current[c] = NoJob /\ received[c] = {} ELSE current[c] \in Jobs
  BY <1>0, RequestTyped DEF X!Serve
<1>2. r.kind = "succeeding" => r.job \in imported
  BY <1>1 DEF CommandInv, ReportsFollowUploads
<1>3. /\ due' \subseteq Sources /\ imported' \subseteq Jobs /\ target' = target
      /\ status' \in [Jobs -> X!Status] /\ SucceededIsImported'
      /\ imported \subseteq imported'
      /\ r.kind = "importing" => imported' = imported \cup {r.job}
      /\ \A j \in Jobs : status[j] # "pending" => status'[j] # "pending"
      /\ \A j \in Jobs : status[j] = "running" /\ (r.kind = "claiming" \/ r.job # j)
                        => status'[j] = "running"
      /\ r.kind = "claiming" => \A j \in X!Pending : status'[j] = "running"
  BY <1>0, <1>1, <1>2, HandleRows DEF X!Serve
<1> HIDE DEF r
<1>4. /\ pc[c] \in X!Waiting
      /\ pc' = [pc EXCEPT ![c] = CASE pc[c] = "claiming" -> "next"
                                   [] pc[c] = "importing" -> "succeeding"
                                   [] OTHER -> "closing"]
      /\ received' = IF pc[c] = "claiming" THEN [received EXCEPT ![c] = X!Pending] ELSE received
      /\ UNCHANGED <<scan, checked, late, current, posts, faults>>
  BY DEF X!Serve, X!Goto, X!schedVars
<1>5. X!TypeOK'
  BY <1>0, <1>3, <1>4 DEF X!TypeOK, X!Pending, X!Waiting
<1>6. PlacesAgree'
  BY <1>0, <1>1, <1>4 DEF X!TypeOK, PlacesAgree, Busy, X!Waiting
<1>7. \A d \in Collectors, j \in Jobs : j \in received[d] => status'[j] = "running"
  <2>1. ASSUME NEW d \in Collectors, NEW j \in received[d]
        PROVE  j \in Jobs /\ status[j] = "running" /\ j # NoJob /\ current[c] # j
    BY <1>0 DEF CommandsAreExclusive, HeldBy, X!TypeOK, X!XCollectorAssumption
  <2>2. QED BY <1>1, <1>3, <2>1
<1>8. \A j \in X!Pending : status[j] = "pending" /\ j \in Jobs /\ ~X!Held(j)
  BY <1>0 DEF ClaimsAreSafe, X!Pending
<1>9. CommandsAreExclusive'
  <2>1. CASE pc[c] = "claiming"
    <3>1. \A d \in Collectors \ {c} : HeldBy(d)' = HeldBy(d) /\ HeldBy(d) \cap X!Pending = {}
      BY <1>0, <1>4, <1>8, <2>1 DEF X!TypeOK, X!Held, X!HeldBy, HeldBy
    <3>2. HeldBy(c)' \subseteq X!Pending
      BY <1>0, <1>1, <1>4, <2>1 DEF X!TypeOK, HeldBy
    <3>3. \A d, e \in Collectors : d # e => HeldBy(d)' \cap HeldBy(e)' = {}
      BY <1>0, <3>1, <3>2 DEF CommandsAreExclusive
    <3>4. \A d \in Collectors, j \in Jobs :
             j \in received'[d] => status'[j] = "running" /\ j # current'[d]
      BY <1>0, <1>1, <1>3, <1>4, <1>7, <2>1
         DEF X!TypeOK, CommandsAreExclusive, X!Pending, X!XCollectorAssumption
    <3>5. QED BY <3>3, <3>4 DEF CommandsAreExclusive
  <2>2. CASE pc[c] # "claiming"
    BY <1>0, <1>4, <1>7, <2>2 DEF CommandsAreExclusive, HeldBy
  <2>3. QED BY <2>1, <2>2
<1>10. ClaimsAreSafe'
  <2>1. \A j \in Jobs : X!Held(j)' => status'[j] # "pending"
    <3>1. \A j \in Jobs : X!Held(j)' => X!Held(j) \/ (pc[c] = "claiming" /\ j \in X!Pending)
      BY <1>0, <1>4 DEF X!TypeOK, X!Held, X!HeldBy, HeldBy
    <3>2. \A j \in Jobs : X!Held(j) => status'[j] # "pending"
      BY <1>0, <1>3 DEF ClaimsAreSafe
    <3>3. pc[c] = "claiming" => \A j \in X!Pending : status'[j] = "running"
      BY <1>1, <1>3
    <3>4. QED BY <3>1, <3>2, <3>3
  <2>2. ASSUME NEW q \in late, q.kind # "claiming"
        PROVE  /\ q.job \in Jobs /\ status'[q.job] # "pending"
               /\ \A d \in Collectors : q.job \notin received'[d]
    BY <1>0, <1>3, <1>4, <2>2 DEF ClaimsAreSafe, X!Pending, X!TypeOK
  <2>3. QED BY <1>4, <2>1, <2>2 DEF ClaimsAreSafe
<1>11. ReportsFollowUploads'
  <2>1. \A d \in Collectors : pc'[d] = "succeeding" => current'[d] \in imported'
    BY <1>0, <1>1, <1>3, <1>4 DEF CommandInv, ReportsFollowUploads, X!TypeOK
  <2>2. QED BY <1>3, <1>4, <2>1 DEF CommandInv, ReportsFollowUploads
<1>12. QED BY <1>3, <1>5, <1>6, <1>9, <1>10, <1>11 DEF CommandInv

\* A late report writes a row that nobody has still to begin.
LEMMA ServeLateStep ==
  ASSUME CommandInv, NEW r \in late, X!ServeLate(r)
  PROVE  CommandInv'
<1>0. X!XCollectorAssumption /\ X!TypeOK /\ PlacesAgree
      /\ CommandsAreExclusive /\ ClaimsAreSafe /\ SucceededIsImported
  BY DEF CommandInv
<1>1. /\ r \in [kind : X!Waiting, job : Jobs \cup {NoJob}]
      /\ r.kind # "claiming" => r.job \in Jobs /\ \A c \in Collectors : r.job \notin received[c]
      /\ r.kind = "succeeding" => r.job \in imported
  BY DEF CommandInv, X!TypeOK, ClaimsAreSafe, ReportsFollowUploads
<1>2. /\ due' \subseteq Sources /\ imported' \subseteq Jobs /\ target' = target
      /\ status' \in [Jobs -> X!Status] /\ SucceededIsImported'
      /\ imported \subseteq imported'
      /\ \A j \in Jobs : status[j] # "pending" => status'[j] # "pending"
      /\ \A j \in Jobs : status[j] = "running" /\ (r.kind = "claiming" \/ r.job # j)
                        => status'[j] = "running"
  BY <1>0, <1>1, HandleRows DEF X!ServeLate
<1>3. late' = late \ {r} /\ UNCHANGED <<scan, checked, pc, received, current, posts, faults>>
  BY DEF X!ServeLate, X!schedVars, X!collectorVars
<1>4. X!TypeOK' BY <1>0, <1>2, <1>3 DEF X!TypeOK
<1>5. PlacesAgree' BY <1>0, <1>3 DEF PlacesAgree
<1>7. CommandsAreExclusive'
  BY <1>0, <1>1, <1>2, <1>3 DEF CommandsAreExclusive, HeldBy, X!TypeOK
<1>8. ClaimsAreSafe'
  BY <1>0, <1>1, <1>2, <1>3 DEF X!TypeOK, ClaimsAreSafe, X!Held, X!HeldBy, HeldBy
<1>9. ReportsFollowUploads'
  BY <1>2, <1>3 DEF CommandInv, ReportsFollowUploads
<1>10. QED BY <1>2, <1>4, <1>5, <1>7, <1>8, <1>9 DEF CommandInv

\* A client that gives up leaves its request behind, and goes on to report the failure.
LEMMA GiveUpStep ==
  ASSUME CommandInv, NEW c \in Collectors, X!GiveUp(c)
  PROVE  CommandInv'
<1>0. X!XCollectorAssumption /\ X!TypeOK /\ PlacesAgree
      /\ CommandsAreExclusive /\ ClaimsAreSafe
  BY DEF CommandInv
<1>1. /\ X!Request(c) \in [kind : X!Waiting, job : Jobs \cup {NoJob}]
      /\ X!Request(c).kind = pc[c] /\ X!Request(c).job = current[c]
      /\ IF pc[c] = "claiming" THEN current[c] = NoJob ELSE current[c] \in Jobs
  BY <1>0, RequestTyped DEF X!GiveUp
<1>2. /\ pc[c] \in X!Waiting /\ late' = late \cup {X!Request(c)} /\ faults' = faults + 1
      /\ pc' = [pc EXCEPT ![c] = CASE pc[c] = "claiming" -> "idle"
                                   [] pc[c] \in {"importing", "succeeding"} -> "failing"
                                   [] OTHER -> "closing"]
      /\ UNCHANGED <<due, status, target, imported, scan, checked, received, current, posts>>
  BY DEF X!GiveUp, X!Fault, X!Goto, X!rowVars, X!schedVars
<1>3. X!TypeOK' BY <1>0, <1>1, <1>2 DEF X!TypeOK, X!Waiting
<1>4. PlacesAgree' BY <1>0, <1>2 DEF X!TypeOK, PlacesAgree, Busy, X!Waiting
<1>5. CommandsAreExclusive' BY <1>0, <1>2 DEF CommandsAreExclusive, HeldBy
<1>6. pc[c] # "claiming" => /\ X!Held(current[c]) /\ status[current[c]] # "pending"
                            /\ \A d \in Collectors : current[c] \notin received[d]
  BY <1>0, <1>1
     DEF ClaimsAreSafe, CommandsAreExclusive, X!Held, X!HeldBy, HeldBy, X!XCollectorAssumption
<1>7. ClaimsAreSafe'
  BY <1>0, <1>1, <1>2, <1>6 DEF ClaimsAreSafe, X!Held, X!HeldBy, HeldBy
<1>8. ReportsFollowUploads'
  BY <1>0, <1>1, <1>2 DEF CommandInv, ReportsFollowUploads, X!TypeOK, X!Waiting
<1>9. SucceededIsImported' BY <1>2 DEF CommandInv, SucceededIsImported
<1>10. QED BY <1>3, <1>4, <1>5, <1>7, <1>8, <1>9 DEF CommandInv

\* A collector begins with a command it has received.
LEMMA BeginStep ==
  ASSUME CommandInv, NEW c \in Collectors, NEW j \in Jobs, X!Collect(c, j) \/ X!CollectFails(c, j)
  PROVE  CommandInv'
<1>0. X!XCollectorAssumption /\ X!TypeOK /\ PlacesAgree
      /\ CommandsAreExclusive /\ ClaimsAreSafe
  BY DEF CommandInv
<1>1. PICK place \in {"importing", "failing"} : pc' = [pc EXCEPT ![c] = place]
  BY DEF X!Collect, X!CollectFails, X!Goto
<1>2. /\ pc[c] = "next" /\ j \in received[c] /\ posts' \in {posts, posts \cup {j}}
      /\ received' = [received EXCEPT ![c] = @ \ {j}] /\ current' = [current EXCEPT ![c] = j]
      /\ UNCHANGED <<due, status, target, imported, scan, checked, late, faults>>
  BY DEF X!Collect, X!CollectFails, X!rowVars, X!schedVars
<1>3. X!TypeOK' BY <1>0, <1>1, <1>2 DEF X!TypeOK, X!Waiting
<1>4. PlacesAgree' BY <1>0, <1>1, <1>2 DEF X!TypeOK, PlacesAgree, Busy
<1>5. current[c] = NoJob /\ j # NoJob
  BY <1>0, <1>2 DEF PlacesAgree, Busy, X!XCollectorAssumption
<1>6. /\ HeldBy(c)' = HeldBy(c)
      /\ \A d \in Collectors \ {c} : HeldBy(d)' = HeldBy(d)
  BY <1>0, <1>2, <1>5 DEF HeldBy, X!TypeOK
<1>7. CommandsAreExclusive'
  BY <1>0, <1>2, <1>6 DEF CommandsAreExclusive, X!TypeOK
<1>8. ClaimsAreSafe'
  <2>1. \A k \in Jobs : X!Held(k)' => X!Held(k)
    BY <1>6 DEF X!Held, X!HeldBy, HeldBy
  <2>2. \A d \in Collectors : received'[d] \subseteq received[d]
    BY <1>0, <1>2 DEF X!TypeOK
  <2>3. QED BY <1>0, <1>2, <2>1, <2>2 DEF ClaimsAreSafe
<1>9. ReportsFollowUploads'
  BY <1>0, <1>1, <1>2 DEF CommandInv, ReportsFollowUploads, X!TypeOK
<1>10. SucceededIsImported' BY <1>2 DEF CommandInv, SucceededIsImported
<1>11. QED BY <1>3, <1>4, <1>7, <1>8, <1>9, <1>10 DEF CommandInv

\* A collector lets go of what it runs, and may let go of the rest with it.
LEMMA LeaveStep ==
  ASSUME CommandInv, NEW c \in Collectors, NEW place \in {"idle", "claiming", "next"},
         UNCHANGED <<X!rowVars, X!schedVars, posts>>, faults' \in Nat,
         pc' = [pc EXCEPT ![c] = place], current' = [current EXCEPT ![c] = NoJob],
         \/ received' = [received EXCEPT ![c] = {}]
         \/ received' = received /\ (place = "next" \/ received[c] = {}),
         late' = late \/ (pc[c] \in X!Waiting /\ late' = late \cup {X!Request(c)})
  PROVE  CommandInv'
<1>0. X!XCollectorAssumption /\ X!TypeOK /\ PlacesAgree
      /\ CommandsAreExclusive /\ ClaimsAreSafe
  BY DEF CommandInv
<1>1. UNCHANGED <<due, status, target, imported, scan, checked, posts>>
  BY DEF X!rowVars, X!schedVars
<1>2. pc[c] \in X!Waiting =>
         /\ X!Request(c) \in [kind : X!Waiting, job : Jobs \cup {NoJob}]
         /\ X!Request(c).kind = pc[c] /\ X!Request(c).job = current[c]
         /\ pc[c] # "claiming" => current[c] \in Jobs
  BY <1>0, RequestTyped
<1>3. X!TypeOK' BY <1>0, <1>1, <1>2 DEF X!TypeOK, X!Waiting
<1>4. PlacesAgree' BY <1>0, <1>1 DEF X!TypeOK, PlacesAgree, Busy
<1>5. \A d \in Collectors : HeldBy(d)' \subseteq HeldBy(d) /\ received'[d] \subseteq received[d]
  BY <1>0 DEF X!TypeOK, HeldBy
<1>6. CommandsAreExclusive'
  BY <1>0, <1>1, <1>5 DEF CommandsAreExclusive, X!TypeOK, X!XCollectorAssumption
<1>7. ClaimsAreSafe'
  <2>1. \A k \in Jobs : X!Held(k)' => status'[k] # "pending"
    BY <1>0, <1>1, <1>5 DEF X!Held, X!HeldBy, HeldBy, ClaimsAreSafe
  <2>2. pc[c] \in X!Waiting \ {"claiming"} =>
           /\ X!Held(current[c]) /\ status[current[c]] # "pending"
           /\ \A d \in Collectors : current[c] \notin received[d]
    BY <1>0, <1>2
       DEF ClaimsAreSafe, CommandsAreExclusive, X!Held, X!HeldBy, HeldBy, X!XCollectorAssumption
  <2>3. ASSUME NEW q \in late', q.kind # "claiming"
        PROVE  /\ q.job \in Jobs /\ status[q.job] # "pending"
               /\ \A d \in Collectors : q.job \notin received[d]
    BY <1>0, <1>2, <2>2, <2>3 DEF ClaimsAreSafe
  <2>4. QED BY <1>1, <1>5, <2>1, <2>3 DEF ClaimsAreSafe
<1>8. ReportsFollowUploads'
  BY <1>0, <1>1, <1>2 DEF CommandInv, ReportsFollowUploads, X!TypeOK
<1>9. SucceededIsImported' BY <1>1 DEF CommandInv, SucceededIsImported
<1>10. QED BY <1>3, <1>4, <1>6, <1>7, <1>8, <1>9 DEF CommandInv

\* Every step of scheduler, backend and collectors keeps the invariant.
LEMMA CommandStep == CommandInv /\ [X!Next]_X!vars => CommandInv'
<1> SUFFICES ASSUME CommandInv, [X!Next]_X!vars PROVE CommandInv'
  OBVIOUS
<1>0. X!TypeOK /\ PlacesAgree BY DEF CommandInv
<1>1. CASE UNCHANGED X!vars
  BY <1>0, <1>1, QuietStep DEF X!vars, X!rowVars, X!schedVars, X!collectorVars, X!TypeOK
<1>2. CASE X!ScanDue
  BY <1>0, <1>2, QuietStep DEF X!ScanDue, X!rowVars, X!collectorVars, X!TypeOK
<1>3. ASSUME NEW s \in Sources, X!SchedulerChecks(s) PROVE CommandInv'
  BY <1>0, <1>3, QuietStep DEF X!SchedulerChecks, X!rowVars, X!collectorVars, X!TypeOK
<1>4. CASE X!SchedulerInserts
  BY <1>0, <1>4, InsertStep DEF X!SchedulerInserts, X!TypeOK
<1>5. ASSUME NEW s \in Sources, X!PassTime(s) PROVE CommandInv'
  BY <1>0, <1>5, QuietStep DEF X!PassTime, X!schedVars, X!TypeOK
<1>6. ASSUME NEW s \in Sources, X!UserPolls(s) PROVE CommandInv'
  BY <1>0, <1>6, InsertStep DEF X!UserPolls, X!schedVars, X!TypeOK
<1>7. ASSUME NEW r \in late, X!Lose(r) PROVE CommandInv'
  BY <1>0, <1>7, QuietStep DEF X!Lose, X!rowVars, X!schedVars, X!TypeOK
<1>8. ASSUME NEW c \in Collectors, X!AskForCommands(c) \/ X!EndRound(c) \/ X!Close(c)
      PROVE  CommandInv'
  <2>1. /\ UNCHANGED <<X!rowVars, X!schedVars, posts, late, faults, received>>
        /\ current' = [current EXCEPT ![c] = NoJob]
        /\ \E place \in {"idle", "claiming", "next"} :
              /\ pc' = [pc EXCEPT ![c] = place]
              /\ place = "next" \/ received[c] = {}
    <3>1. pc[c] \in {"idle", "next"} => current = [current EXCEPT ![c] = NoJob]
      BY <1>0 DEF X!TypeOK, PlacesAgree, Busy
    <3>2. CASE X!AskForCommands(c)
      BY <1>0, <3>1, <3>2 DEF X!AskForCommands, X!Goto, PlacesAgree
    <3>3. CASE X!EndRound(c) BY <3>1, <3>3 DEF X!EndRound, X!Goto
    <3>4. CASE X!Close(c) BY <3>4 DEF X!Close, X!Goto
    <3>5. QED BY <1>8, <3>2, <3>3, <3>4
  <2>2. QED BY <1>0, <2>1, LeaveStep DEF X!TypeOK
<1>9. ASSUME NEW c \in Collectors, X!CloseThrows(c) \/ X!Die(c) PROVE CommandInv'
  <2>1. /\ UNCHANGED <<X!rowVars, X!schedVars, posts>> /\ faults' \in Nat
        /\ pc' = [pc EXCEPT ![c] = "idle"] /\ current' = [current EXCEPT ![c] = NoJob]
        /\ received' = [received EXCEPT ![c] = {}]
        /\ late' = late \/ (pc[c] \in X!Waiting /\ late' = late \cup {X!Request(c)})
    BY <1>0, <1>9 DEF X!CloseThrows, X!Die, X!Goto, X!Fault, X!TypeOK
  <2>2. QED BY <2>1, LeaveStep
<1>10. ASSUME NEW c \in Collectors, X!Serve(c) PROVE CommandInv'
  BY <1>10, ServeStep
<1>11. ASSUME NEW c \in Collectors, X!GiveUp(c) PROVE CommandInv'
  BY <1>11, GiveUpStep
<1>12. ASSUME NEW c \in Collectors, NEW j \in Jobs, X!Collect(c, j) \/ X!CollectFails(c, j)
       PROVE  CommandInv'
  BY <1>12, BeginStep
<1>13. ASSUME NEW r \in late, X!ServeLate(r) PROVE CommandInv'
  BY <1>13, ServeLateStep
<1>14. QED
  BY <1>1, <1>2, <1>3, <1>4, <1>5, <1>6, <1>7, <1>8, <1>9, <1>10, <1>11, <1>12, <1>13
     DEF X!Next, X!Scheduler, X!Runs

\* The invariant holds of the commands at all times.
LEMMA CommandInvariance == X!XCollectorAssumption /\ X!Spec => []CommandInv
  BY CommandInit, CommandStep, PTL DEF X!Spec

-----------------------------------------------------------------------------

\* Rows, scheduler, requests and collectors keep their types; a command that is
\* uploaded or reported is one of the rows.
THEOREM CollectorTyped == X!XCollectorAssumption /\ X!Spec => []X!TypeOK
<1>1. CommandInv => X!TypeOK BY DEF CommandInv
<1>2. QED BY <1>1, CommandInvariance, PTL

\* Whatever claims and reports the backend handles late or not at all, and however
\* collectors die: claim_commands never gives a command to two of them, and complete_command
\* never writes a row that somebody has still to begin.
THEOREM NobodyShares == X!XCollectorAssumption /\ X!Spec => []CommandsAreExclusive
<1>1. CommandInv => CommandsAreExclusive BY DEF CommandInv
<1>2. QED BY <1>1, CommandInvariance, PTL

\* complete_command(succeeded) is only ever handled for a row that import_posts has written.
THEOREM SuccessIsMeant == X!XCollectorAssumption /\ X!Spec => []SucceededIsImported
<1>1. CommandInv => SucceededIsImported BY DEF CommandInv
<1>2. QED BY <1>1, CommandInvariance, PTL

=============================================================================
