------------------------------ MODULE TaskQueue ------------------------------
(***************************************************************************)
(* The task_job table and its in-process consumer, TaskJobProcessor        *)
(* (backend/app/services/task_worker.py), driven by an IntervalScheduler   *)
(* thread whose ticks never overlap.  A tick loads a batch of pending rows *)
(* once, oldest first, and then runs them one by one without looking at    *)
(* the table again.  Request handlers insert rows while the tick runs, the *)
(* X collector claims and completes rows of its own type, any commit of    *)
(* the worker may fail (which ends the tick through run_once's finally),   *)
(* and the process may die and be started again.                           *)
(*                                                                         *)
(* The graph is the copy of extracted rows that GraphSyncService writes.   *)
(***************************************************************************)
EXTENDS Naturals, FiniteSets

CONSTANTS
    Jobs,           \* identifiers of task_job rows
    Docs,           \* documents
    TypeOf,         \* job_type of each row
    DocOf,          \* input.document_id of each row, or NoDoc
    BatchSize,      \* TASK_WORKER_BATCH_SIZE
    MayFail,        \* may a handler raise?
    MaxCrashes,     \* bound on process deaths
    MaxFaults,      \* bound on failed commits and failed graph syncs
    MaxClock,       \* bound on distinct created_at values
    NoJob, NoDoc

ExtractionTypes == {"entity_extraction", "relation_extraction"}
ExternalTypes == {"x_web_collect"}
JobTypes == ExtractionTypes \cup ExternalTypes
              \cup {"youtube_summary", "investment_fetch", "unregistered"}

ASSUME TaskQueueAssumption ==
    /\ NoJob \notin Jobs /\ NoDoc \notin Docs
    /\ IsFiniteSet(Jobs)
    /\ TypeOf \in [Jobs -> JobTypes]
    /\ DocOf \in [Jobs -> Docs \cup {NoDoc}]
    /\ \A j \in Jobs : TypeOf[j] \in ExtractionTypes => DocOf[j] # NoDoc
    /\ \A i, j \in Jobs :       \* an import inserts one row of each type
           (TypeOf[i] \in ExtractionTypes /\ TypeOf[i] = TypeOf[j] /\ DocOf[i] = DocOf[j])
              => i = j
    /\ BatchSize \in Nat \ {0}
    /\ MayFail \in BOOLEAN
    /\ MaxCrashes \in Nat /\ MaxFaults \in Nat /\ MaxClock \in Nat

VARIABLES
    status,     \* task_job.status, "none" before the row is inserted
    createdAt,  \* task_job.created_at
    clock,      \* the latest created_at handed out
    deferred,   \* rows whose output records an outside wait (JobDeferred)
    docStatus,  \* document.entity_status and document.relation_status
    rows,       \* extraction jobs with committed entities or relations
    graph,      \* extraction jobs whose committed rows the graph holds
    phase,      \* where the worker thread is
    batch,      \* rows loaded by this tick and not yet reached
    current,    \* the row being handled
    crashes, faults

queueVars == <<status, createdAt, clock, deferred>>
dataVars  == <<docStatus, rows, graph>>
tickVars  == <<phase, batch, current>>
faultVars == <<crashes, faults>>
vars == <<queueVars, dataVars, tickVars, faultVars>>

Status == {"none", "pending", "running", "succeeded", "failed"}
Finished == {"succeeded", "failed"}
Phases == {"down", "idle", "batch", "handling", "finished", "sync"}

Extraction == {j \in Jobs : TypeOf[j] \in ExtractionTypes}
External == {j \in Jobs : TypeOf[j] \in ExternalTypes}
Handled == {j \in Jobs : TypeOf[j] \notin ExternalTypes \cup {"unregistered"}}
Deferrable == {j \in Jobs : TypeOf[j] = "investment_fetch"}
Recoverable == {j \in Jobs : TypeOf[j] = "youtube_summary"}

Pending == {j \in Jobs : status[j] = "pending"}

\* Rows inserted by one transaction: import_report writes a document's two
\* extraction rows together, every other caller writes one row.
Inserts == {{j} : j \in Jobs \ Extraction}
              \cup {{j \in Extraction : DocOf[j] = d} : d \in Docs}

Init ==
    /\ status = [j \in Jobs |-> "none"]
    /\ createdAt = [j \in Jobs |-> 0]
    /\ clock = 0
    /\ deferred = {}
    /\ docStatus = [d \in Docs |-> [t \in ExtractionTypes |-> "pending"]]
    /\ rows = {} /\ graph = {}
    /\ phase = "idle" /\ batch = {} /\ current = NoJob
    /\ crashes = 0 /\ faults = 0

-----------------------------------------------------------------------------
(* Request handlers and the X collector                                    *)

\* created_at is the database's clock at the start of the transaction: rows of
\* one transaction always tie, rows of two may.
Enqueue(S) ==
    /\ phase # "down"
    /\ S # {} /\ \A j \in S : status[j] = "none"
    /\ \E now \in {clock, clock + 1} :
          /\ now <= MaxClock
          /\ clock' = now
          /\ createdAt' = [j \in Jobs |-> IF j \in S THEN now ELSE createdAt[j]]
    /\ status' = [j \in Jobs |-> IF j \in S THEN "pending" ELSE status[j]]
    /\ UNCHANGED <<deferred, dataVars, tickVars, faultVars>>

\* GET commands: every pending row of the collector's type (at most 20).
\* A source row is never deleted or retyped, so no claim meets a missing one.
CollectorClaim ==
    /\ phase # "down"
    /\ External \cap Pending # {}
    /\ status' = [j \in Jobs |->
                    IF j \in External \cap Pending THEN "running" ELSE status[j]]
    /\ UNCHANGED <<createdAt, clock, deferred, dataVars, tickVars, faultVars>>

\* POST complete writes the status whatever it was; the collector only names
\* rows it has claimed, but may name one twice (module XCollector).
CollectorComplete(j) ==
    /\ phase # "down"
    /\ j \in External /\ status[j] \notin {"none", "pending"}
    /\ \E s \in Finished : status' = [status EXCEPT ![j] = s]
    /\ UNCHANGED <<createdAt, clock, deferred, dataVars, tickVars, faultVars>>

\* Every graph query copies the workspace into the graph before it answers.
QueryGraph ==
    /\ phase # "down"
    /\ graph # rows /\ graph' = rows
    /\ UNCHANGED <<queueVars, docStatus, rows, tickVars, faultVars>>

-----------------------------------------------------------------------------
(* One tick of the worker: run_once and _process_job                       *)

\* LIMIT batch_size: a full batch, or all there is.
Limited(B) == B \subseteq Pending /\ Cardinality(B) <= BatchSize
                /\ (B = Pending \/ Cardinality(B) = BatchSize)

\* SELECT ... WHERE status = 'pending' ORDER BY created_at LIMIT batch_size.
Oldest(B) ==
    /\ Limited(B)
    /\ \A j \in B, k \in Pending \ B : createdAt[j] <= createdAt[k]

SelectBatch ==
    /\ phase = "idle"
    /\ \E B \in SUBSET Pending : B # {} /\ Oldest(B) /\ batch' = B
    /\ phase' = "batch"
    /\ UNCHANGED <<queueVars, dataVars, current, faultVars>>

\* The next row of the loaded list; equal timestamps come in any order.
IsNext(j) ==
    /\ phase = "batch"
    /\ j \in batch
    /\ \A k \in batch : createdAt[j] <= createdAt[k]

\* A row of an external type has no handler here and is left as it is.
PassOver(j) ==
    /\ IsNext(j) /\ j \in External
    /\ batch' = batch \ {j}
    /\ UNCHANGED <<queueVars, dataVars, phase, current, faultVars>>

\* _mark_failed for a row whose type has no handler.
Reject(j) ==
    /\ IsNext(j) /\ j \notin External \cup Handled
    /\ batch' = batch \ {j}
    /\ status' = [status EXCEPT ![j] = "failed"]
    /\ UNCHANGED <<createdAt, clock, deferred, dataVars, phase, current, faultVars>>

\* _mark_running: the status is written without being read again.
Claim(j) ==
    /\ IsNext(j) /\ j \in Handled
    /\ batch' = batch \ {j}
    /\ status' = [status EXCEPT ![j] = "running"]
    /\ current' = j /\ phase' = "handling"
    /\ UNCHANGED <<createdAt, clock, deferred, dataVars, faultVars>>

\* extract_and_persist commits the rows of one chunk.
CommitChunk ==
    /\ phase = "handling" /\ current \in Extraction
    /\ current \notin rows \/ current \in graph
    /\ rows' = rows \cup {current}
    /\ graph' = graph \ {current}
    /\ UNCHANGED <<queueVars, docStatus, tickVars, faultVars>>

Return ==
    /\ phase = "handling"
    /\ status' = [status EXCEPT ![current] = "succeeded"]
    /\ phase' = "finished"
    /\ UNCHANGED <<createdAt, clock, deferred, dataVars, batch, current, faultVars>>

\* (fault) The failure is not reflected on the document.
RaiseOnJobOnly ==
    /\ phase = "handling" /\ MayFail /\ current \notin rows
    /\ status' = [status EXCEPT ![current] = "failed"]
    /\ phase' = "batch" /\ current' = NoJob
    /\ UNCHANGED <<createdAt, clock, deferred, dataVars, batch, faultVars>>

\* An extraction handler raises only when every chunk failed, so only when it
\* has committed nothing.
Raise ==
    /\ phase = "handling" /\ MayFail /\ current \notin rows
    /\ status' = [status EXCEPT ![current] = "failed"]
    /\ docStatus' = IF current \in Extraction
                    THEN [docStatus EXCEPT ![DocOf[current]][TypeOf[current]] = "failed"]
                    ELSE docStatus
    /\ phase' = "batch" /\ current' = NoJob
    /\ UNCHANGED <<createdAt, clock, deferred, rows, graph, batch, faultVars>>

\* (fault) A deferred row is retried within the same tick.
DeferAndRetry ==
    /\ phase = "handling" /\ current \in Deferrable
    /\ status' = [status EXCEPT ![current] = "pending"]
    /\ deferred' = deferred \cup {current}
    /\ batch' = batch \cup {current}
    /\ phase' = "batch" /\ current' = NoJob
    /\ UNCHANGED <<createdAt, clock, dataVars, faultVars>>

\* JobDeferred: back to pending with the created_at it had.
Defer ==
    /\ phase = "handling" /\ current \in Deferrable
    /\ status' = [status EXCEPT ![current] = "pending"]
    /\ deferred' = deferred \cup {current}
    /\ phase' = "batch" /\ current' = NoJob
    /\ UNCHANGED <<createdAt, clock, dataVars, batch, faultVars>>

\* (fault) The same query without its status condition.
HasExtraction(d) == \E j \in Extraction : DocOf[j] = d /\ status[j] # "none"

HasPendingExtraction(d) ==
    \E j \in Extraction : DocOf[j] = d /\ status[j] = "pending"

\* _after_extraction, reached after a success only.
AfterExtraction ==
    /\ phase = "finished"
    /\ LET d == DocOf[current]
       IN  /\ docStatus' = IF current \in Extraction
                           THEN [docStatus EXCEPT ![d][TypeOf[current]] = "completed"]
                           ELSE docStatus
           /\ phase' = IF d = NoDoc \/ HasPendingExtraction(d) THEN "batch" ELSE "sync"
    /\ current' = NoJob
    /\ UNCHANGED <<queueVars, rows, graph, batch, faultVars>>

\* _sync_graph copies everything committed.
SyncGraph ==
    /\ phase = "sync"
    /\ graph' = rows
    /\ phase' = "batch"
    /\ UNCHANGED <<queueVars, docStatus, rows, batch, current, faultVars>>

\* _sync_graph logs a failure of the graph store and goes on.
SyncGraphFails ==
    /\ phase = "sync" /\ faults < MaxFaults
    /\ faults' = faults + 1
    /\ phase' = "batch"
    /\ UNCHANGED <<queueVars, dataVars, batch, current, crashes>>

EndTick ==
    /\ phase = "batch" /\ batch = {}
    /\ phase' = "idle"
    /\ UNCHANGED <<queueVars, dataVars, batch, current, faultVars>>

\* A commit of the worker's session fails, in _mark_* or in the handler: the
\* session then refuses every later statement, _mark_failed's own included, so
\* the exception leaves run_once with nothing more written.  The scheduler logs
\* it and ticks again.
AbortTick ==
    /\ phase \in {"batch", "handling", "finished"} /\ faults < MaxFaults
    /\ faults' = faults + 1
    /\ phase' = "idle" /\ batch' = {} /\ current' = NoJob
    /\ UNCHANGED <<queueVars, dataVars, crashes>>

-----------------------------------------------------------------------------
(* Process death and restart                                               *)

Crash ==
    /\ phase # "down" /\ crashes < MaxCrashes
    /\ crashes' = crashes + 1
    /\ phase' = "down" /\ batch' = {} /\ current' = NoJob
    /\ UNCHANGED <<queueVars, dataVars, faults>>

\* (faults) Other choices of the rows a restart puts back.
RestartWith(S) ==
    /\ phase = "down"
    /\ status' = [j \in Jobs |-> IF j \in S THEN "pending" ELSE status[j]]
    /\ phase' = "idle"
    /\ UNCHANGED <<createdAt, clock, deferred, dataVars, batch, current, faultVars>>
RestartRequeuesEveryType == RestartWith({j \in Handled : status[j] = "running"})
RestartRequeuesNothing == RestartWith({})

\* lifespan: interrupted youtube_summary rows go back to pending, every other
\* running row stays as it is; then the schedulers start.
Restart ==
    /\ phase = "down"
    /\ status' = [j \in Jobs |->
                    IF j \in Recoverable /\ status[j] = "running" THEN "pending"
                                                                  ELSE status[j]]
    /\ phase' = "idle"
    /\ UNCHANGED <<createdAt, clock, deferred, dataVars, batch, current, faultVars>>

-----------------------------------------------------------------------------

BatchStep == (\E j \in Jobs : PassOver(j) \/ Reject(j) \/ Claim(j)) \/ EndTick
HandlerEnds == Return \/ Raise \/ Defer
Finish == AfterExtraction \/ SyncGraph \/ SyncGraphFails
Requests == \/ \E S \in Inserts : Enqueue(S)
            \/ CollectorClaim
            \/ \E j \in Jobs : CollectorComplete(j)
            \/ QueryGraph

Next == Requests \/ SelectBatch \/ BatchStep \/ CommitChunk \/ HandlerEnds \/ Finish
          \/ AbortTick \/ Crash \/ Restart

Spec == Init /\ [][Next]_vars

\* The timer thread keeps ticking, a handler returns in the end (its model and
\* network calls have timeouts), and the supervisor restarts the container.
\* Nothing obliges a user, the collector or an outside snapshot to make progress.
Fairness == /\ WF_vars(SelectBatch) /\ WF_vars(BatchStep) /\ WF_vars(HandlerEnds)
            /\ WF_vars(Finish) /\ WF_vars(Restart)

FairSpec == Spec /\ Fairness
-----------------------------------------------------------------------------
(* Properties                                                              *)

\* Every variable holds a value of its column or of the worker thread.
TypeOK ==
    /\ status \in [Jobs -> Status]
    /\ createdAt \in [Jobs -> Nat] /\ clock \in Nat
    /\ deferred \subseteq Jobs
    /\ docStatus \in [Docs -> [ExtractionTypes -> {"pending", "completed", "failed"}]]
    /\ rows \subseteq Extraction /\ graph \subseteq rows
    /\ phase \in Phases
    /\ batch \subseteq Jobs
    /\ current \in Jobs \cup {NoJob}
    /\ crashes \in Nat /\ faults \in Nat

\* The worker runs a list it read earlier: a row of the list that it may still
\* touch is pending in the table, whatever was inserted, claimed, deferred or
\* aborted since, so _mark_running never restarts a row.
BatchIsFresh == \A j \in batch \ External : status[j] = "pending"

\* A row of a registered type is running only while the worker is in its handler,
\* unless a crash or a failed commit left it behind; and the row in the handler
\* is running in the table.
RunningIsOwned ==
    /\ \A j \in Handled : status[j] = "running" =>
           (phase = "handling" /\ current = j) \/ crashes + faults > 0
    /\ phase = "handling" => current \in Handled /\ status[current] = "running"

\* A document's extraction status tells the truth about its job: failed exactly
\* when the job failed, completed only after it succeeded, and still pending
\* after a success only until _after_extraction, or when that was interrupted.
DocStatusIsTrue ==
    \A j \in Extraction :
       LET s == docStatus[DocOf[j]][TypeOf[j]]
       IN  /\ s = "failed" <=> status[j] = "failed"
           /\ s = "completed" => status[j] = "succeeded"
           /\ status[j] = "succeeded" =>
                 s = "completed" \/ (phase = "finished" /\ current = j) \/ crashes + faults > 0

\* A row the worker finished is finished for good: no later tick, restart, claim
\* or stale batch runs it again.
FinishedStays ==
    [][\A j \in Jobs \ External : status[j] \in Finished => status'[j] = status[j]]_vars

\* The worker starts rows in the order of their created_at: an older row of a
\* registered type still pending when a younger one starts is one that has
\* already had a turn and deferred itself.
OldestFirst ==
    [][\A j, k \in Handled :
          (status[j] = "pending" /\ status'[j] = "running"
             /\ status[k] = "pending" /\ createdAt[k] < createdAt[j]) => k \in deferred]_vars

\* The table keeps the promises of JobLifecycle.
Lifecycle == INSTANCE JobLifecycle WITH
                 runner <- IF phase = "handling" THEN current ELSE NoJob
Implements == Lifecycle!Spec

\* As long as fewer rows than a batch wait on someone outside the worker, every
\* pending row of a registered type is reached, through crashes and aborted ticks.
NothingWaitsForever ==
    \A j \in Handled \ Deferrable : status[j] = "pending" ~> status[j] # "pending"

\* An interrupted YouTube summary is finished after the restart.
SummaryFinishes ==
    \A j \in Recoverable : status[j] = "running" ~> status[j] \in Finished

\* Once both extraction jobs of a document have succeeded the graph receives the
\* rows they committed, unless the process died in between.
ExtractedIsSynced ==
    \A d \in Docs :
       (\A j \in Extraction : DocOf[j] = d => status[j] = "succeeded")
          ~> (crashes + faults > 0 \/ \A j \in rows : DocOf[j] = d => j \in graph)

=============================================================================
