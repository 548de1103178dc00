# A verification project for KnowPilot

TLA+ modules, TLC configurations and TLAPS proofs for the backend under
`src/backend/app` and the X collector under `src/tools/x-collector`. Paths below
are relative to `src/`; `services/...` stands for `backend/app/services/...`.

The program is one FastAPI process with a SQL database, a graph store, three
timer threads and some daemon threads, and one program outside it (the X
collector). Almost everything that happens later than the request that asks for
it goes through one table, `task_job`. What is hard about the system is how the
threads, the collector and the request handlers meet in that table and in the
status columns of the rows it talks about.

## 1. Inventory

| Component | State | Operations | Meets the others through |
|---|---|---|---|
| Task worker and queue (`services/task_worker.py`) | `task_job`, `document.entity_status`, `relation_status` | `run_once`, `_process_job`, `_mark_*`, `_after_extraction`, `_sync_graph` | rows inserted by every other component; graph store; handlers of ten job types |
| X collector (`tools/x-collector`, `services/investment/x_web.py`, `service.poll_source`, `investment/scheduler.py`) | `x_web_collect` rows, `next_poll_at`, items; the collector's round | poll, claim, import, complete; `runOnce`, `runCommand`, `drainSpool` | HTTP; the `task_job` table (its rows are seen, and skipped, by the worker) |
| YouTube summary pipeline (`services/youtube/orchestrator.py`, `summary_job_handler.py`, `auto_retry.py`, `summary_retry.py`, `main.py` start-up) | `fetch_status`, `parse_status`, `youtube_summary` rows | `poll_all_active`, `summarize_video_id`, `summarize_meta`, retry scanners, start-up marking and requeueing | the same pipeline runs in the worker and in the polling thread; requests set statuses under it |
| YouTube API and subscriptions (`api/v1/youtube.py`) | video rows, channels | summarize, retry, poll, status, copies, frames, delete, reading state | inserts rows, answers the page that polls |
| Transcripts and text (`services/youtube/transcript*.py`, `chunker.py`, `chapters.py`, `summary.py`, `translation.py`) | none: values on their way through the pipeline | routes to captions and speech recognition, joining, chunks, paragraphs, section-wise summary, mind map | called by the pipeline |
| Frames and copies (`services/youtube/visual_analysis.py`, `local_video.py`) | `local_video_status`, files, `video_frame_analysis` rows, image directories | analyse frames, request, download and move a copy | the worker's pipeline analyses frames (the polling thread's has no service for them), both threads ask for copies; two job types, requests |
| Provenance links and projection (`services/provenance/links.py`, `projection.py`, `query.py`) | versioned edges, reviews, graph store | `create`, `review`, `sync_workspace`, queries | threads of the request pool, the worker, one graph store per process |
| Registry, evidence, conclusions, backfill, rebuild (`services/provenance/*`) | trace nodes, anchors, conclusions, `job.output` | idempotent register, verify a claim, staged `run` and `resume`, rebuild | nodes are copies of other objects' statuses; jobs run beside requests |
| Knowledge graph (`services/graph_sync.py`) | graph store | sync, neighbours, path, search | the worker after extraction, every query |
| Extraction and entity upkeep (`entity_extraction.py`, `entity_resolution.py`, `entity_merge.py`, `entity_cleanup.py`) | entities, mentions, relations | chunk-wise extraction, merge, automatic merge, cleanup, edit | the worker asks a model for minutes while requests change the same rows |
| Research agent (`services/research_agent.py`) | `research_task`, its steps in JSON | create, workflow thread, retry, import | threads beside handlers in one row; `import_report` inserts a document and two rows of the queue |
| Investment feed (`investment/service.py`, `fetch_job_handler.py`, `post_processing.py`, `translation.py`, `classifier.py`) | sources, entries, their translation and classification | poll, fetch, snapshots, store, translate, classify, edit | deferral (`JobDeferred`), guards on active rows |
| Facts and signals (`investment/fact_extraction.py`, `hypothesis_matcher.py`, `signal_service.py`) | facts, signals, claims, suggested impacts | extract, match, refresh signals, bind a source, close a thesis | a job and requests that read, decide and commit |
| Documents, reading companion, companion (`document_service.py`, `reading_companion.py`, `companion/`, `rag_service.py`) | documents and versions, chunks, analyses, insights, corroborations, messages | upload, import, edit, analyse, review, ask, new round | one queue, one session shared with the search |
| Retrieval and wiki, fetchers of investment sites, models and settings, frontend, deployment | see `PROJECT.json` | | |

`PROJECT.json` lists every component with its sources, what is modelled and why
the rest is not, and every hazard at the line where it bites.

What makes each hard component correct:

- **Queue.** A row is run by one runner; a finished row is never run again; document
  statuses agree with rows; nothing waits for ever; extracted rows reach the graph.
- **X collector.** A command is in one pair of hands; `succeeded` means imported;
  a lost answer, a death or a failing close is the only way to orphan a row; a
  due source is polled.
- **YouTube.** A video that the page shows as being processed *is* processed, also
  after a crash inside the start-up itself; a copy that is offered to the player is
  in the storage; rows of frames have the images of their own analysis, or a death or a
  failure between the two has cut them off; no caption is lost between the transcript
  and what the model and the reader get.
- **Links.** The chain of versions does not fork; the edge that queries take for
  the latest is the newest; reviews are serial; the store shows what was
  true, and goes forward where projections do not overlap.
- **Audited objects.** A verdict rests on edges, in whatever order a claim is verified,
  set by hand and linked, and does not contradict its claim if it has counted what
  became an edge; a rebuild repairs the copies nobody writes meanwhile; a backfill that
  reports a checkpoint has reached everything.
- **Entities.** Merging loses no evidence while the extraction goes on between two
  merges; a job that says succeeded has stored every item it found.
- **Research.** A task shown as running has a thread that will end that; a completed
  or imported task has its report and steps, a failed one its error.
- **Feed.** A due source is polled and the backlog of entries to translate and
  classify drains, although batches are limited and the guards ignore late arrivals.
- **What is read.** Neighbours, paths, traces and pages hold what the graph holds, or
  say that there is more; a reader of the timeline meets every video once, whatever
  changes between two pages.
- **What is fetched.** An entry keeps its row at every poll, and a poll that brings
  nothing new costs no translation.
- **What is quoted.** An anchor's quote stands where its locator says, and what one part
  quotes letter by letter the other does not refuse.
- **Signals.** An entry does not lose all its facts; no claim is stronger than what
  its entry shows; one active signal for each active fact after a refresh.
- **Desk.** No chunk is answered about twice, an insight's state is what is stored of its
  evidence, a review survives the analysis, rounds of a conversation do not mix.

## 2. Modules

| Module | Models | State | Actions |
|---|---|---|---|
| `JobLifecycle` | the abstract promise of `task_job` | status of each row, the row the worker holds | insert, start, stop, refuse, lose, recover, collect |
| `TaskQueue` | worker, queue, start-up, graph sync | rows, `created_at`, document statuses, committed and synced rows, the worker's place in its tick | one per `_process_job` branch and per commit; requests; a failed commit; crash, restart |
| `XCommands` | the rows and who holds them | rows, what each collector holds | none (state and properties) |
| `XCollector` | polling and the collector protocol, on `XCommands` | rows, due sources, scheduler's scan, each collector's round, requests nobody waits for | each handler, each step of `runOnce`/`runCommand`, loss, delay, death |
| `YouTubeSummary` | the pipeline and its callers | statuses of video, documents and rows; what each thread's session believes | request handlers in their two commits, pipeline stages, scanners, two-phase start-up |
| `Transcript` | the pure algorithms between sound and stored text | none (operators) | routes to a transcript, retries of a download, windows of speech recognition, joining, chapters, chunks, paragraphs, sections, branches of a mind map |
| `Media` (EXTENDS `Transcript`) | frames and copy of a video, the stages of the pipeline around them | statuses, files, frames and image directories, what each thread's session believes of the copy, waiting rows | requests in their two steps, each file or row written, downloads, death and start-up |
| `TraceLinks` | one provenance link | edges with version, status, parent and history; sessions between read and write; projection | read and insert, read and guarded update, rollback, projection's read and write, restart |
| `Provenance` | a claim, its conclusion, an event, anchors and their trace nodes | status of each object and of its node, edges, the rebuild job, the backfill's row and process | verify, set by hand, link, extract, mark stale; rebuild step by step; backfill stage, failure, crash, resume |
| `Knowledge` | entities, mentions, relations of one document | rows, graph nodes, the worker's place in a chunk and what it has looked up, the automatic merge under way | look-up, decision and commit per chunk; merge, automatic merge pair by pair, cleanup, edit |
| `Research` | one research task | the row; columns each thread's session holds and has flushed; a handler waiting for the row's lock | handlers in their read and their commit, one step per node of the workflow, refused statements, restart |
| `Feed` | one source, its entries and notes | what the source has posted, entries, the source's row, waiting rows, snapshot, what a job has loaded | tick, poll, fetch at once or by snapshot, store, translate, classify, edit, add, death |
| `FeedFacts` | the facts, claims and signals of the feed as its readers see them | active signals, facts, claims, impacts | none (state and properties) |
| `Signals` | facts of entries, claims, signals, on `FeedFacts` | rows of each, extraction job, overlapping refreshes between read and commit | extract entry by entry, match, refresh in read and commit, bind, close a thesis, classify |
| `Desk` | documents, analyses, a conversation | versions, analyses, insights, corroborations, messages, waiting rows, what the worker's session has not committed | upload, import, save, ask, analyse chunk by chunk with the search's commits, review, question, answer, round, insights, death |
| `Walks` | what is read from the graph store and the trace graph | none (operators) | rows to nodes and edges, neighbours, path, search, overview from the store and from rows, trace |
| `Timeline` | the history of videos | none | status of a row, filters, one page after a cursor, counts; a reader who follows the cursors |
| `Fetchers` | what the fetchers of investment sources read, and rows that are known | none | identity, summary from the entry's page, feeds, filings, series, links, refreshing |
| `Evidence` | who quotes what, and the check of a quote | none | locators and requests of facts, insights, corroborations, candidates and research; the service's check |
| `Answers`, `History`, `FeedPages` | `Provenance` with `Walks` and `Evidence`, `Media` with `Timeline`, `FeedFacts` with `Fetchers`; each states what the pure module says as a property of the system | none of their own | |
| `TaskQueueProofs`, `CollectionProofs`, `MediaProofs`, `TraceLinksProofs`, `ProvenanceProofs`, `KnowledgeProofs`, `FindingsProofs`, `DeskProofs` | theorems about the module each is named after; `CollectionProofs` about `YouTubeSummary` and `XCollector`, `FindingsProofs` about `Research`, `Signals` and `FeedPages`, `MediaProofs` also about `History`, `ProvenanceProofs` about `Answers` | | |
| `MC*` | values for TLC | | |

How they compose. `TaskQueue` implements `JobLifecycle` (checked and proved) and is
the queue of all the others, which keep of it only what they need: rows of their own
types, in order, one at a time, and rows left running by a death (`stuck`).
`XCollector` refines what `TaskQueue` shows of external rows only as
`CollectorClaim` and `CollectorComplete`; `YouTubeSummary` refines what it shows of
a `youtube_summary` row, and takes from it that each waiting row is taken up
(`NothingWaitsForever`). `Media` is the other half of the same pipeline: the stages
that `YouTubeSummary` passes over in one step, for which it needs no document, no
retry scanner and no requeueing. `Research` shares with `TaskQueue` only the rows
that `import_report` inserts (`TaskQueue!Enqueue`), `Knowledge` what is inside
`TaskQueue!CommitChunk`, one chunk at a time. `Feed` and `Signals` share the entries:
the first has their titles and guards, the second what is found in them. `Provenance`
has the objects that the edges of `TraceLinks` connect, and the life of the anchors that
`Evidence` places.

The pure modules (`Transcript`, `Walks`, `Timeline`, `Fetchers`, `Evidence`) have no
state: what they say is said of every small input, and the run of a system that uses
them carries it: `Answers` puts `Walks` and `Evidence` beside `Provenance`, `History`
puts `Timeline` beside `Media` (which extends `Transcript`), and `FeedPages` puts
`Fetchers` beside the facts of the entries (`FeedFacts`, the state of `Signals`). Their
properties are written `Init => formula`, and `FetchesSettle` with the condition that
nothing has been found yet, so that TLC evaluates them once.

### How state and steps correspond to the code

- **Steps end where other code can run.** In a thread that is every commit; on
  the event loop a handler between two awaits is one step. Reads that are used
  after a commit of somebody else are steps of their own (`SelectBatch`,
  `SchedulerChecks`, `ReadLatest`, `FindDocument`, `AskDownload`, `AskRefresh`,
  `List` of a rebuild).
- **Sessions keep what they loaded.** `SessionLocal` has `expire_on_commit=False`
  (`infrastructure/database.py`), so a thread goes on with stale attributes, and an
  assignment of the value it already believes in issues no UPDATE.
  `Put` in `YouTubeSummary` and `Media` is that rule, and so is
  `Signals!Match`, which raises a suggestion above the session's copy.
- **Sessions do not flush before a query** (`autoflush=False`). `Feed!AddEntry` asks
  for jobs with a table that lacks the entry it has just added, and
  `Knowledge!Merge` looks for duplicates without the rows it has just repointed.
- **What compares equal is not stored.** `_complete_step` changes the loaded list of
  steps in place and assigns a shallow copy of the dict around it, so there is no
  difference to write until another key changes. In `Research` a step is stored with
  the report, the error or the claims that follow it, and the step of
  `import_report` never. Two assignments of one value may or may not be a
  difference (two runs may bring the same plan): `Assigned` allows both. The
  backfill's checkpoint in `Provenance` is the same: `row.stored` stays at the first
  stage that was stored while `row.progress` moves.
- **An UPDATE locks its row** until the commit. A research workflow flushes its plan
  first and commits with the report, and a handler that waits for the row waits on
  the event loop, so `asking` holds one handler at most. `doubled` records that a
  retry was asked for while a thread was at work: two threads then write one row,
  each the columns that differ from what it loaded, and one that ends without
  writing a status may leave a task completed whose report the other has removed.
  `StatusTellsReport` says so; `RunningIsWorkedOn` and `RunningEnds` do not need it.
- **A failed commit** leaves the worker's session refusing every statement, so
  `_mark_failed` raises as well and the tick ends with the row still running
  (`TaskQueue!AbortTick`, `Knowledge!Poisoned`, `Signals!JobSticks`).
- **A search commits.** `Desk` shares its session with the index that the search for
  corroboration keeps, so everything a chunk has found so far is committed by it, and
  a reader sees insights of an analysis that goes on.
- **Identifiers made of content.** A fact in `Signals` and a signal are named by what
  they say, so one that comes back after it was retired meets its own row
  (`ExtractCollides`, `EndRefresh`).
- **A judgment is matched twice.** `_find_candidate` and `_judgment_matches`
  (`services/investment/claim_verifier.py:351-372`) accept different identifiers: one
  written as a chunk's leads to an edge and is not counted in the verdict, and a
  candidate without an anchor is counted and gets no edge. `Provenance!Verify` therefore
  takes what is cited (`CitedJudgments`) and what is counted (`CountedStances`) as two
  choices, and `did` records whether the second covers the first.
- **Files before rows.** The worker removes a directory of images, renames another into
  its place and then replaces the rows in a commit; `Media` has each as a step.
  `images` says whether a directory is of the analysis that wrote the rows, `torn`
  which videos a death or a failure has left with rows of another one. The polling
  thread's pipeline is built without the service (`main.py:46-55`) and begins with the
  text.
- **Several insights in an answer** are drawn one after the other, each with its own
  search and therefore its own commit; `worker.mid` counts them in `Desk`.
- **Handlers are outcomes** in `TaskQueue`: succeed, raise, defer; extraction
  commits chunk by chunk first. What a model answers is a choice everywhere.
- **Late requests** in `XCollector` are requests whose client gave up: they are
  handled later or never. Row identifiers are used again once nobody can name
  the old row, which keeps an unbounded history finite.
- **An edge's name** in `TraceLinks` is the version it was created with, as the
  code derives its identifier. The unique constraint on versions is in `Free` and
  `UpdateEdge`. `raced` records the one interleaving that breaks the order of
  versions: two reviews of the predecessor between a creator's read and its
  insert; the properties that need it absent say so. `InsertEdge` and
  `UpdateEdge` cannot insert or raise a version beyond `MaxVersion`.
- **Text** in `Transcript` is a sequence of cues with start, length and the set of
  captions in them; a length in characters is a number. Regular expressions, time
  formats and punctuation are choices (`stops`).

## 3. Runs

Every configuration says `CHECK_DEADLOCK FALSE`: rows, faults, requests and versions
are bounded and no user is obliged to ask for anything, so a system with nothing left
to do really stops. Bounds are constants (`Max...`, the sets) and nothing else
limits a state. Each module states its type invariant as `TypeOK`; it is a theorem
of the eight modules with proofs.

| Run | Instance | Shows |
|---|---|---|
| `TaskQueueSafety` | one document's two extraction rows, a collector row, a summary, a deferring fetch; batches of 2, one crash, one failed commit | `DocStatusIsTrue`, `Implements` |
| `TaskQueueProgress` | the same without the collector row and with a row of an unknown type; one crash; fairness | `NothingWaitsForever`, `SummaryFinishes`, `ExtractedIsSynced` |
| `XCollector` | one source, three rows, two collectors, two faults; fairness | `CommandsAreExclusive`, `SucceededIsImported`, `DueIsServed` |
| `YouTubeSummary` | one video, two document slots, two crashes, one exception; fairness | `ProcessingIsInHand`, `ProcessingEnds` |
| `Media` | one video, three requests, two polls, one death; fairness; every text of at most three cues in four seconds; two videos over three pages of one or two rows, the tables changed in any way after the first | `PlayableIsThere`, `FramesHaveImages`, `TextSurvives`, `DownloadEnds`, `TimelineIsRead` |
| `TraceLinks` | two sessions, two readers, two contents, three versions, one restart | `LatestIsNewest`, `ReviewsAreSerial`, `ProjectedWasTrue` |
| `Provenance` | one anchor, three stages, three requests, one refused statement or crash; every graph of three entities, every trace graph of three nodes; every text of at most three characters | `EvidenceBacked`, `VerdictsAgree`, `RebuildRepairs`, `BackfillReaches`, `GraphIsRead`, `EvidenceIsFound` |
| `Knowledge` | one document of two chunks, three entities of which one is known, three names that all look alike, two requests | `SucceededIsExtracted`, `AutoMergeGoesOn`, `EvidenceConserved` |
| `Research` | two threads, four retries and imports, one restart or refused statement; fairness | `RunningIsWorkedOn`, `StatusTellsReport`, `RunningEnds` |
| `Feed` | two entries of one source against batches of one, a note, one request, one death, one failure; fairness | `DueIsPolled`, `BacklogDrains` |
| `Signals` | two entries with three facts, one watchlist, three extractions, two requests; every feed, list of filings, series or page of links with three entries | `RefreshRepairs`, `StrongestShows`, `FactsOutlive`, `FetchesSettle` |
| `Desk` | two documents of two versions, two passages, answers of one or two insights, three requests, one death | `InsightsOnce`, `StateIsBacked`, `RoundsSeparate`, `ReviewStays` |

Why the bounds are enough:

- *Queue.* The hazards need a batch with a row after the one being handled and a
  row outside it (batch 2 of up to 5), a tie and a difference of timestamps
  (`MaxClock` 1), both extraction rows of a document, and one fault at any of
  the worker's commits. A second crash meets the same states: restart leaves
  nothing behind but statuses. Starvation starts where waiting rows reach the
  batch, hence one row that may wait for ever in `TaskQueueProgress`.
  `ExtractedIsSynced` asks for both extraction rows to succeed: after the last one
  failed, `_process_job` does not sync, and what the first one committed waits for a
  query.
- *Collector.* Two collectors are needed to share a command, three rows for a late
  report to meet a row of the same source that came after it, two faults for an
  upload and the report of its failure to be abandoned both.
- *Video.* Videos share no state except the threads, which take them one after
  another; two document slots are the number that a query by video can confuse;
  two crashes allow one in the middle of the start-up. `Media` needs a pipeline
  in both threads, since each asks for a copy, and a request between the two steps of
  another, which three requests and two polls give. Frames belong to the worker; a
  second analysis of a video with frames is the one that can be torn.
- *Texts.* Three cues are one that is joined, one at a boundary and one after it; the
  thresholds are small numbers that keep the order of the code's (a window shorter than
  a section, a section no longer than a long chapter, a tail no longer than a window).
  The algorithms are pure, so `TextSurvives` is a formula about constants and TLC
  evaluates it once.
- *Graphs.* Three entities are an end, a middle and another end; a document and its chunk
  give a path that leads around the entities and, when the document is not in the
  knowledge base, edges without a node. Edges are numbered in the order of the store, so
  that "the first edge to a node" means what it does there. Limits of one to three and of six cut an answer
  inside the edges of a node, between two nodes and not at all.
- *Pages.* Two videos of one or two dates, each with none, one or two documents, read in
  pages of one or two rows (`Limits`), three of them (`Reads`): a tie with the cursor, a
  row that the limit cuts, one that moves across it, a page after the last.
- *Fetches.* Entries (`PageSize`, three of them) may share a link, an identifier or
  neither, and two may share one beside a third; of three links two are Google's, which
  lead to one page of a publisher (`MCPublisher`), and one is a publisher's own; three polls are one
  with the entry's page, one without it, and one more. The lengths stay in the order of
  the code's thresholds (20 more characters are better, 500 fewer than 3000 of an
  excerpt).
- *Quotes.* Three characters let a quote of one occur twice, of two overlap itself, and
  an excerpt be cut; a line break is one of them.
- *Link.* Version 3 allows a predecessor reviewed twice, a review of a superseded
  edge, and a third edge. Two sessions are both needed for each race; the proofs
  lift this to any number. `SYMMETRY` over sessions, readers and contents is used
  with invariants only.
- *Audited objects.* Three stages are a first, one whose checkpoint is not stored and a
  last. Three requests allow verifying again after a link or a decision by hand, and a
  change inside a rebuild.
- *Entities.* Three names that all look alike make every pair a candidate and let the
  pairs of one merge share an entity. Two chunks are the one that names an entity and
  one that resolves to it after a merge. `SYMMETRY` exchanges the two names that have
  no profile; `EvidenceConserved` is a property of single steps and names neither of
  them, so exchanging them in both states of a step changes nothing.
- *Research task.* Two threads are what a retry beside a running workflow makes; four
  requests allow a retry or an import between the two commits of each of them and
  another after both; after a fault the task is retried or stays as it is.
- *Feed.* Two entries against a batch of one is the smallest backlog; arrivals while
  the first is being worked on are then outside the batch and unasked for.
- *Signals.* Three facts allow a group of two, one that joins two groups, and one in
  another entry; three extractions a fact that is found, retired and found again.
- *Desk.* Two documents that share a passage allow a chunk to be supported or
  contradicted by another; two versions an analysis of a version that is old by now.
  Three requests are an upload, an analysis and a third of any kind beside it: another
  document to find evidence in, a review, a second analysis after a failure. Two
  insights of an answer (`MaxDrafts`) let a search, a failure or a death come between
  them.

## 4. Fairness

- `TaskQueue`: weak fairness of loading a batch, of every step through it, of a
  handler's end (model and network calls carry timeouts), of what follows it, and
  of the restart (the container is restarted by its supervisor). None for users,
  the collector, snapshots or chunks.
- `XCollector`: weak fairness of the scheduler thread and of each collector
  (launchd restarts it), and of late requests being handled or lost; strong
  fairness of the thread's insert, which is enabled always in the code and waits
  in the model for a free row identifier.
- `YouTubeSummary`: weak fairness of both threads, of a handler that has begun, of
  the start-up; strong fairness of taking a waiting row, which is what
  `NothingWaitsForever` shows of the queue as long as rows waiting on the
  collector do not fill the batch.
- `Media`: weak fairness of the worker's next step and of the restart. The polling
  thread need not run for a download to end.
- `Research`: weak fairness of each thread (searches and model calls have timeouts)
  and of the waiting handler's commit. Nothing restarts a thread that a restart or
  a refused statement ended, which both liveness properties except.
- `Feed`: weak fairness of time, of the scheduler's thread, of the worker's next step,
  and of the snapshot service building what it was asked for. None for what the site
  posts, for users or for success: the failures are bounded, which stands for a site
  and a model that answer again in the end.
- The rows that a death leaves running in `Feed`, `Media` and `Desk` stay so, since
  the start-up puts back `youtube_summary` rows only. The liveness properties of the
  first two name that exception (`stuck`).
- `TraceLinks`, `Provenance`, `Knowledge`, `Signals` and `Desk` have no liveness property:
  every caller may give up, and what their jobs need to go on is shown of the queue.

## 5. Proofs

All proofs are checked by TLAPS from nothing; each holds for every value of the
constants that the module's `ASSUME` admits.

`TaskQueueProofs`, under `TaskQueueAssumption` (finite set of rows; an extraction row
has a document; one row of each extraction type for a document, since an import
inserts one of each; numbers are numbers):

- `TypeCorrect`, `FreshBatch`, `OwnedRows`, `TrueDocStatus`: the invariants, from
  the inductive `IInv`. None of them is inductive alone. `BatchIsFresh` (a row of the
  list that a tick loaded minutes ago is still pending when it is reached) needs that
  the worker is the only one to end a row that is not external, so a row it has
  just started is not in the batch any more; `RunningIsOwned` needs
  `PhaseAgrees` (which phases hold a row); `DocStatusIsTrue` needs that an
  extraction row is alone in naming its document and type.
- `StartsInOrder` (`OldestFirst`: rows start in the order of `created_at`, but for
  those that deferred themselves) needs `BatchIsOldest`: whatever is pending
  outside the batch and older than a row in it has deferred itself. Rows inserted
  during the tick cannot be older, because `created_at` never runs backwards.
- `FinishedForGood` (`FinishedStays`) follows from `BatchIsFresh`.
- `RefinesLifecycle` (`Implements`): each step of the queue is one of
  `JobLifecycle` or a stutter under the mapping of `runner` to the row in the
  handler.

`RunningIsOwned`, `FinishedStays`, `BatchIsFresh` and `OldestFirst` are not among the
properties of the runs, and neither is `OneSuccessor` below: the proofs cover them for
every value of the constants, and `Implements` and `LatestIsNewest` break where they do.

`TraceLinksProofs`, under `TraceLinksAssumption` (a positive version bound, `NoContent`
is no content):

- `LinksTyped`.
- `NewestIsLatest` (`LatestIsNewest`) and `ChainDoesNotFork` (`OneSuccessor`) from
  `OrderInv`. Its core is `CreatorsCollide`: an edge that appeared since a creator
  read its predecessor has taken the identifier the creator wants, or was
  preceded by a review of that predecessor. In the first case the insert fails;
  in the second the unique key on versions stops it unless a second review has
  moved on, which is what `raced` records.
- `ReviewHistory` (`ReviewsAreSerial`) from `HistoryInv`: a reviewer whose version is
  still current knows the current status (`ReviewersKnow`).
- `ProjectionTruth` (`ProjectedWasTrue`) from `GraphInv`: what a reader has taken was
  true at its version, and what was true of an edge at a version stays so
  (`TruthStays`), because histories only grow. Two projections that overlap may write
  in the other order and leave the older version in the store until the next; that they
  must have overlapped (`crossed`) follows from `OneByOne`: until then there is one reader at
  work at most, and the store is not ahead of it.

`FindingsProofs`, first part: `Research`, under `ResearchAssumption` (the bounds are
numbers):

- `TaskTyped`.
- `SomebodyWorks` (`RunningIsWorkedOn`), for any number of threads and retries. The
  invariant adds `NoStatusFlushed`: a status is written by the transaction that
  commits it, so a thread that ends without a word has found, or left, a status that
  is not running, or has loaded one (`LastWord`).
- `PageIsToldTruth` (`StatusTellsReport`) from `ToldInv`: unless a retry was asked for
  beside a running thread one thread is at work at most, the row is as it was reset
  until that thread reports or fails, a waiting retry finds the row as it has read
  it, and every version of the row that is committed is one of four (`RowTold`).

`FindingsProofs`, second part: `Signals`, under `FeedFactsAssumption` (finitely many
facts, numbered in the order of their keys; an entry and a weight for each), for any
number of entries and watchlists and any likeness among facts:

- `FeedIsTyped`, which also takes `SignalsAssumption` (the bounds are numbers).
- `EntriesKeepFacts` (`FactsOutlive`), an action property: an answer takes from its
  entry only what it replaces.
- `StrongestIsShown` (`StrongestShows`). The job works with a copy of what the entries
  showed when it began. Its invariant, `SessionAgrees`, says that the copy is the row's
  value or what the session is about to write there, which is more; so the commit of
  another step, or of a failure, raises an entry and never lowers it. That a suggestion
  is at least each of its weights rests on finite sets of numbers having a greatest one
  (`HasLeast`, `HasGreatest`, `HasBound`).
- `RefreshIsRight` (`RefreshRepairs`). While nothing has changed the active signals are
  what the facts make, or a refresh of everything has read both as they are
  (`QuietKnows`). What the facts make is right because clusters divide a set of facts
  (`ClustersDivide`). `Clusters` is a recursive function, and the induction is written
  out: the function exists (`GrowthExists`), and a first fact after which the clusters
  do not divide what came before would contradict `JoinedDivides`.

`FindingsProofs`, third part: `Fetchers` and `FeedPages`, under `FetchersAssumption`, for any
addresses, pages of any length and texts of any length:

- `PagesAreFetchedOnce` (`FetchesSettle`): `IdentityIsKept` (what tells two entries apart,
  unless Google tells the same page of both, and that an entry keeps it),
  `RefetchingIsQuiet` (a page read again changes nothing and translates nothing) and `SummariesAreSettled` (when a better summary stops coming).
  The folds over a page are functions on its positions (`RowsAre`); that they settle is an
  argument about the last row that still changes (`RowGoesOn`, `NothingIsChanged`). It
  needs `Margin <= Shrink`, which holds of the code's 20 and 500 characters: what is
  better by its margin is not worse by the other rule.

`CollectionProofs`, first part: `YouTubeSummary`, under `YouTubeSummaryAssumption` (finite
sets of videos and slots, the marks for none are not among them, the bounds are
numbers):

- `SummaryTyped`.
- `ReportedIsInHand` (`ProcessingIsInHand`), for any number of videos, documents, deaths
  and aborted runs. The property is far from inductive: that a thread is at work on a
  video is worth nothing if its session believes the video already has the status it
  is about to write. `Held` therefore names, for each state that is reported as
  processing, who will end it: a pending video a thread whose session saw it pending
  (`PendingHeld`), a fetched one without a document a thread on its way to create it
  (`FetchedHeld`), and each document that is being processed a thread that holds it
  and knows it so, or has still to look (`WillEnd`) - or else a row that waits, a request
  about to enqueue one, or an excuse (`Owed`). It rests on what the worker's session
  knows (`WorkerKnows`: it made the video pending itself), on the polling thread's
  having no document before it looks (`PollerKnows`), on a listed video's being in the
  table (`Listed`), and for restarts on `MarkedIsClean`: the first commit of the start-up
  leaves nothing that says somebody is at work, so the second finds all of it.

`CollectionProofs`, second part: `XCollector`, as an instance `X` over the rows of
`XCommands`. The theorems have `XCollectorAssumption` (finite sets of rows and sources;
the marks for none are not among them) as their hypothesis, which `MCXCollector` shows
to be satisfied:

- `CollectorTyped`.
- `NobodyShares` (`CommandsAreExclusive`) and `SuccessIsMeant` (`SucceededIsImported`),
  for any number of collectors, rows, faults and late requests. Exclusiveness is not
  inductive: a claim takes whatever is pending, so it must be known that nothing that
  anybody holds, or that a late report will write, is pending (`ClaimsAreSafe`), and a
  report may only concern the row a collector is at work on (`PlacesAgree`). Success
  needs that a report of it, in time or late, follows the upload
  (`ReportsFollowUploads`).

`MediaProofs`, under `MediaAssumption` (a finite set of videos; `NoJob` is no row):

- `MediaTyped`.
- `OfferedIsThere` (`PlayableIsThere`): `Copying` says that a video is not offered
  between the moment its download begins and the one its file is moved, and `OnlyQueues`
  that whoever asks for a copy with a stale session writes no status but `queued`.
- `PicturesAreThere` (`FramesHaveImages`), for any number of videos: rows of frames have
  the images of the analysis that wrote them, or the worker is between the directory and
  the rows of that video, or a death or a failure there has cut them off
  (`FramesCovered`, kept by each step of an analysis in `FrameStepCovers`).
- `HistoryIsRead` (`TimelineIsRead`), about `Timeline`, under `TimelineAssumption`: for any
  videos, dates and channels, pages of any size and any number of them. Its core,
  `EveryVideoOnce`, is stated for arbitrary tables at each page: a video that keeps its
  key stands on exactly one of the pages read, or after the cursor. It is an induction
  over pages, with the cursor as the border between what has been seen and what has not
  (`PageTurns`); it rests on `Precedes` being a linear order on keys (`PrecedesIsOrder`),
  and with the comparison by time alone it fails at a tie. `NumbersMatch` adds up the
  counts beside the list (`KindsAddUp`, an induction over the kinds).
- `TextsAreKept` (`TextSurvives`), about `Transcript`, under `TranscriptAssumption` and
  `TextsAssumption` (the bounds of the texts are numbers): for any number of captions of
  any times and lengths and for all sizes and thresholds. The parts before it are stated
  for arbitrary cues. Joining (`TranslatedIsWhole`) keeps each caption in a cue that takes
  time if the caption does, and its last cue as long as the last caption, so the text ends
  after every start. Spans of chapters and windows tile the text (`SpansTile`, from
  `SlicesTile` and `TilingsJoin`), so some span holds the start of any cue
  (`TilingCovers`) and is not passed over (`GatherKeeps`); a short tail is joined to what
  stands before it in time (`TailHolds`). Hence `ChunksHold`, for any increasing list of
  chapters; the two hypotheses are the exceptions that the property names. The paragraphs
  are runs of cues, one beginning where the last ended (`ReadKeepsRuns`, `ParagraphsHold`).
  The chapters of the mind map are the model's own and nothing puts them in order
  (`MapChapters`), so `BranchesAreKept` is for any list: a point has a branch as soon as
  some chapter starts before it, namely that of the last such one of the list, and no
  second one if the list is in the order of time.
- The folds of `Transcript` are recursive functions on sets of positions. `FoldsExist` gives
  one for any step, by induction on the length, and lemmas such as `CoalescedIs`,
  `ChunkedIs` and `ParagraphsIs` turn it into stages, one for each element, over which an
  invariant goes by `Steady` (no least stage at which it fails). `FlattenIs` does the same
  for sequences put one after the other.

`ProvenanceProofs`, under `ProvenanceAssumption` (identifiers of anchors are none of those
of the other tables, which the code makes of uuids; two stages at least, as
`services/provenance/backfill.py` has more):

- `AuditTyped`, `NodesHaveObjects` (`NodesAreReal`: nothing that
  does not exist has a trace node; it is stated beside the proofs and no run of its own).
- `ConclusionsRestOnEdges` (`EvidenceBacked`) and `VerdictsDoNotClash` (`VerdictsAgree`):
  what `verify` computes from stances is related to the edges it has just replaced; a
  link or a decision by hand later adds edges or leaves the pair of verdicts that is
  exempted. That the two verdicts agree is said of a verification whose verdict has
  counted every stance that became an edge (`did`); with a judgment that only one of the
  two matchings accepts the code contradicts itself (section 6).
- `RebuildIsRight` (`RebuildRepairs`): what the rebuild has listed is still true of the
  objects nobody has touched since (`ListIsFresh`).
- `BackfillIsComplete` (`BackfillReaches`): a script with a stage behind it has given
  what was due a node (`StagesReach`), although the row keeps the first checkpoint only,
  so a resumed script begins too early and never too late.

`ProvenanceProofs`, second part: `Evidence`, under `EvidenceAssumption` (the marks between
fields and at the end of a line are no letters; an excerpt has two characters or more,
the code's have 280), for any alphabet and texts of any length:

- `QuotesAreFound` (`EvidenceIsFound`): each of those who quote (facts, insights,
  corroborations, candidates, research) asks for a place where the service finds the
  quote; nobody who counts on an anchor is refused; and no quote that is copied letter by
  letter from one place is lost. One lemma for each of them (`FactHolds`, `InsightHolds`,
  ...) follows its own arithmetic of offsets to the service's `Matches`; the candidates
  rest on where the fields of an item stand in its text (`ItemIs`).

`ProvenanceProofs`, third part: `Walks`, under `WalksAssumption` (finitely many entities,
pairs among them; limits and the bound on steps are positive), for any entities and
relations, any trace graph of the bounded number of nodes, any depth up to the bound and
any limit:

- `WalksReadTheGraph` (`GraphIsRead`), of four parts.
- `TracesRead`: the loop of `trace` keeps (`FollowKeeps`) that the queue has no node twice,
  that the nodes already popped have all their edges unless more was reported, and that
  each edge that was taken joins shown nodes; it has popped everything when it ends,
  because a queue without repetitions is no longer than the graph (`DistinctBounded`).
- `OverviewsRead`: pages are slices of an order (`Ordered`, `RanksOnce`): each rank is taken
  once, so each node is on one page, and the first ones by degree are on the first.
- `NeighborsRead` and `PathsRead`: both walks keep `Levels`: depths in the queue never fall
  and grow by one at most, each node is queued at its distance (`LevelsNotTooFar`), and
  whatever is beside a popped node is in the queue (`LevelsMeetAll`), so what is met by
  depth k is exactly the ball of radius k (`AroundIs`). For `path` the first hit is
  therefore a shortest one (`TryFinds`, `TryWidens`); for `neighbors` the same holds as
  long as the answer is not full, and one more node than asked for is the most that a
  last scan can add (`WantedIs`, `LookKeeps`).
- The walks are recursive functions of the number of pops. That they exist is proved once
  (`Iterates`), and what they keep by a least counterexample (`Steady`); what a pop appends
  is an enumeration of the edges by rank (`BehindIs`).

`KnowledgeProofs`, under `KnowledgeAssumption` (a finite set of identifiers, at least one
chunk, `NoId` is neither an identifier nor a name), for any number of chunks, entities,
names, pairs of a merge and requests:

- `KnowledgeTyped`.
- `SuccessIsExtracted` (`SucceededIsExtracted`). Its invariant follows the worker through
  the document (`JobsTold`: chunks before its place are done or excused, those after it
  untouched, and each row of the queue that runs is its own), says what its session holds
  (`Holding`), that no mention points at an entity that is gone (`MentionsLive`, the
  foreign key, as PostgreSQL enforces it), and that what is mentioned is in the graph
  store or on its way (`Synced`).
  The last is the subtle one: a commit that the database refuses ends the extraction
  without a sync, but it is only refused because a merge or a cleanup removed the
  entity, and those sync themselves.
- `MergesGoOn` (`AutoMergeGoesOn`): the worker only adds entities between two commits
  of a merge, and the pairs that share an entity with an earlier one are passed over.
- `NothingIsLost` (`EvidenceConserved`), an action property, from the same invariant:
  `MergeRelations` shows for each relation which row is its heir, through the lemmas
  `ImageIs` (where its ends are after the merge) and `OneOfTheSame` (of relations that
  come to the same, the row that stays is the same for each).
- Each request satisfies `Considerate` (what it may do while the worker stands still),
  and one lemma, `RequestKeeps`, carries the invariant over all of them.

`DeskProofs`, under `DeskAssumption` (`NoJob` is no row; at least one version, since
`document_service.py` stores a document with its first one):

- `DeskTyped`.
- `NothingTwice` (`InsightsOnce`): the row of a version's analysis is queued once, and
  the chunks before the worker have no insight yet but those of the answer that it is in
  the middle of (`ReadOnce`, `Before`).
- `EvidenceIsShown` (`StateIsBacked`): what the session holds is about insights that
  have been drawn and have no stored evidence yet (`Judging`), so a commit in the
  middle writes the evidence of an insight and its state together (`BackedIsShown`).
- `ReviewsSurvive` (`ReviewStays`), an action property, and `RoundsDoNotMix`
  (`RoundsSeparate`).

Each inductive invariant was checked by TLC on the instance of its module's run before
it was proved, and each holds from assumptions that the modules of the runs satisfy.

Two of these proofs corrected the model: alternatives of a `CASE` that overlapped, where TLA+
leaves open which one is taken and TLC takes the first (`Research!FirstOpen` and two in
`Transcript`), are nested conditions in the order of the code's; and `FetchersAssumption`
names what the code's thresholds have between them.

The library's induction theorems take an operator and cannot be instantiated here. Where
a proof needs induction over data (`Clusters`, the pages of the history, the walks, the folds
over texts) it goes by a least counterexample, one lemma for each recursive function.

Only model-checked: all liveness, since TLAPS does not do fairness and ENABLED. Every
invariant and every action property of the runs is also proved.

## 6. Where the code and its documents disagree

Met while modelling. The models follow the code; the properties above are stated so
that they hold of it, with the exception each time named in the property's comment.

- `services/task_worker.py:223,241` — the batch takes the oldest pending rows of
  every type and leaves collector rows pending, so a batch of unclaimed ones keeps
  every other row waiting. `backend/app/main.py:99-101`: each tick "runs them, and
  re-syncs the graph so the pipeline closes automatically".
- `services/investment/service.py:980` — thread and endpoint can both find no active
  row and both insert one. `services/investment/scheduler.py:9-11`: "Double-enqueue is
  prevented by `poll_source`'s pending/running guard".
- `tools/x-collector/src/runtime.ts:125` — a failed upload is reported as failed and the
  posts are dropped; only `drainSpool` ever writes to the spool (line 88).
  `docs/superpowers/specs/2026-07-14-x-web-collector-design.md:211`: batches are kept in
  the local spool while KnowPilot is unavailable.
- `services/youtube/summary_job_handler.py:39` — a request is joined to a running row
  whose pipeline has already recorded its failure; the `pending` it has set belongs to
  nobody until the next start-up. `backend/app/api/v1/youtube.py:788-790`: the page polls
  "until `status` becomes `succeeded` or a terminal error".
- `services/youtube/orchestrator.py:458` — the two threads look for a document and create
  one in separate statements, so a video may get two.
  `services/youtube/subscription_service.py:104-105`: "the orchestrator's upsert is
  idempotent so a re-poll won't double-process".
- `services/provenance/projection.py:53` — only upserts, so the store keeps the edge
  that a newer version superseded. Line 20: "Rebuild the disposable graph-store
  projection from PostgreSQL rows", and
  `docs/superpowers/specs/2026-09-03-event-conclusion-provenance-3d-design.md:502` lists
  agreement of both among the tests.
- `services/provenance/backfill.py:97` — the same dict is assigned after every stage, so
  the column compares equal and one completed stage is all that is ever stored. Line 43:
  "with durable checkpoints"; line 80 puts such rows down to "Older workers".
- `services/entity_merge.py:216` — duplicates are searched for before the repointed rows
  are flushed, so relations that become identical both stay. Line 211: "Collapse
  relations that became identical after repointing", which
  `backend/tests/test_entity_merge.py:145` asserts with a session that does flush.
- `services/investment/service.py:526,565-571` — the entry is not flushed when its jobs
  are asked for, so none is queued.
  `docs/superpowers/specs/2026-07-15-content-chinese-localization-design.md:98`: every
  place that creates an entry must go through post-processing.
- `services/reading_companion.py:241-245`, `services/document_service.py:241` — the same
  passage in another chunk or an older version counts as corroboration.
  `docs/superpowers/specs/2026-07-17-reading-companion-design.md:84`: neither the chunk
  nor the same passage may count as external evidence.
- `services/youtube/summary.py:201-218,304` — points before every chapter are dropped
  from the fallback mind map. Lines 186-187: they "hang off root". The chapters are the
  model's own (`summary.chapters`), which nothing sorts or checks; if they are out of
  order a point may stand on several branches, where line 186 attaches it to "the
  chapter whose window contains" it.
- `services/investment/claim_verifier.py:351-372` — an identifier `document_chunk:<id>` in a
  judgment is accepted for the edges and the conclusion's validation, and not for the
  claim's verdict. A refuting one beside results of the web leaves a verified claim with
  a refuted conclusion, although both are written by one verification.
- `services/youtube/chunker.py:73-89` — only the last chunk is merged when it is short.
  Line 11 says so of any undersized chunk.
- `services/youtube/transcript_formatting.py:66-78` — the limit on a paragraph's seconds
  has no effect of its own: what it adds is implied by the other conditions.
- `services/youtube/chunker.py` — the text ends where its last cue does, so a last cue
  without length takes the cues of the same second with it.
- `services/investment/fact_extraction.py:177`, `signal_service.py:75` — an identifier made
  of content meets the retired row of the same content; the insert is refused.
- `services/investment/fact_extraction.py:618` — a job without identifiers takes the
  twenty oldest entries each time, whether or not they have facts.
- `infrastructure/graph_store.py:148-151` — the nodes with most edges come first so that
  a page does not "hide every relationship from the graph view". A page of hubs whose
  edges all lead to other nodes still shows none, since an edge is shown only between
  nodes of the page.
- `infrastructure/graph_store.py:107,122` — a full answer stops the scan of one node and
  not the walk, so `neighbors` may return one node more than its limit.
- `services/graph_sync.py:222-247` — a mention is an edge whether or not its document is
  in the knowledge base, and `path` (`graph_store.py:191-193`) looks its ends up without
  asking: a path through such a document ends in a `KeyError`.
- `services/provenance/query.py:316,234` — the first page of an overview comes from the
  store, by number of edges, and its cursor is an offset into rows ordered by
  identifier: the following pages repeat some nodes and miss others. `OverviewsComplete`
  is about each order by itself.
- `services/reading_evidence.py:161`, `provenance/evidence.py:246` — a candidate from the
  feed is quoted from title and summaries joined by a space, and checked against a text
  joined by line breaks with the translated title in between. An entry that has a summary
  is refused, and with it the whole verification of the claim
  (`NobodyIsRefused` says which entries are accepted).
- `services/research_agent.py:681-706` — a video's chunk without a length, or a box out of
  range, raises while the locator is built and fails the task; the other two producers
  check for both.
- `services/investment/fact_extraction.py:507-512` — times in a video that the model gives
  are believed; only the quote is checked (`AnchorsHold` excepts them).
- `services/provenance/evidence.py:78,98` — `reanchor` and `mark_stale_for_version` have
  no caller in the application. An anchor in an entry of the feed is not looked at again
  when the entry is refreshed, and the `normalized_bbox` of a chunk is read in three
  places and written in none.
- `services/investment/fetchers.py:271-280` — a link of Google News that is resolved at one
  poll and not at another has two identities, and the entry two rows.
- `services/investment/repositories.py:84-95,163-180` — two entries with one identity and
  different titles, or a clean summary and a longer one with page chrome, replace each
  other at every poll, each time without its translation.

## 7. Plan

Built in this order because the queue carries everything else and the two
pipelines with outside actors come next, then the rows that daemon threads and
requests share, then each subsystem that commits in several steps. To follow:

1. An abstract specification of an audited object (its status and what its node may
   show), implemented by `Provenance`.
2. The composition of `Feed` and `Signals` over one entry's fact extraction, and
   revisions of a conclusion by hand.
3. Scores of signals and trace grades against a reference definition.

## 8. Not modelled

Parsing of markup and documents, prompting, ranking, configuration of models and the
frontend keep no state that another actor sees: they appear as outcomes or not at
all. Left out of the components that are modelled: deletion of channels and videos,
reading state and cookies; login profiles and checkpoints of the collector; retry
counters and back-off (a choice in the model: the scanner takes any subset); the
checks of direction and evidence when a link is made, revisions of events and
conclusions by hand; enrichment, translation and type discovery of entities; themes, holdings and the daily
brief of the feed; signal scores and trace grades; the rows for sources and claims of a
research task. `PROJECT.json` says which for each component.

Some harms the code allows, and the properties about their hazards except them: a
projection that overtakes another leaves an older version in the store
(`ProjectedWasTrue`); a rebuild overwrites a node that somebody has changed since the
listing, until the next one (`RebuildRepairs`); the step of an imported report is not
stored (`StatusTellsReport` is about the steps of the workflow); relations that became
identical in a merge may both stay (`EvidenceConserved` is about losing them); a model
may repeat an insight in one answer (`InsightsOnce` is about two answers).

Two assumptions about the deployment: the database is PostgreSQL, which enforces foreign
keys (the SQLite default would need `foreign_keys` to be switched on, so that a mention
of an entity that a merge has removed would be stored there); and a YouTube video is in
one workspace, since the directory of its images is named by YouTube's identifier
(`services/youtube/visual_analysis.py:493`) and two workspaces with it would replace each
other's.
